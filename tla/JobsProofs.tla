------------------------------ MODULE JobsProofs ------------------------------
(***************************************************************************)
(* Theorems about Jobs for any graphs, numbers of jobs and failure         *)
(* policies.                                                               *)
(***************************************************************************)
EXTENDS Jobs, SequenceLemmas, FiniteSetTheorems, TLAPS

-----------------------------------------------------------------------------
(***************************************************************************)
(* Graphs, and the operators of the Taskmaster.                            *)
(***************************************************************************)

\* What a graph says of its nodes.
LEMMA GraphFields ==
  ASSUME graph \in Graphs
  PROVE  /\ graph.sources \in [Nodes -> Seq(Nodes)]
         /\ graph.depends \in [Nodes -> Seq(Nodes)]
         /\ graph.includes \in [Nodes -> SUBSET Nodes]
         /\ graph.targets \in [Nodes -> Seq(Nodes)]
         /\ graph.side_effects \in [Nodes -> SUBSET Nodes]
         /\ graph.derived \in SUBSET Nodes /\ graph.unscannable \in SUBSET Nodes
         /\ graph.fragile \in SUBSET Nodes /\ graph.cached \in SUBSET Nodes
         /\ graph.disk \in SUBSET Nodes
         /\ graph.top \in Seq(Nodes) /\ graph.top # << >>
<1>1. graph \in Graph /\ graph.top # << >>
  BY GraphsAssumption
<1>2. QED
  BY <1>1 DEF Graph

\* A sequence made from a set of nodes holds nodes of that set.
LEMMA SetSequence ==
  ASSUME NEW S \in SUBSET Nodes, NEW s \in SetToSeqs(S)
  PROVE  s \in Seq(Nodes) /\ ToSet(s) \subseteq S
<1>1. IsFiniteSet(S)
  BY NodesAssumption, FS_Subset
<1>2. Cardinality(S) \in Nat
  BY <1>1, FS_CardinalityType
<1>3. s \in [1 .. Cardinality(S) -> S]
  BY DEF SetToSeqs
<1>4. s \in Seq(S) /\ S \subseteq Nodes
  BY <1>2, <1>3
<1>5. ToSet(s) \subseteq S
  BY ONLY <1>4, Membership
<1>6. s \in [1 .. Cardinality(S) -> Nodes]
  BY <1>3
<1>7. QED
  BY <1>2, <1>5, <1>6

\* Sets of nodes are finite.
LEMMA NodeSets ==
  ASSUME NEW S \in SUBSET Nodes
  PROVE  IsFiniteSet(S) /\ Cardinality(S) \in Nat
<1>1. IsFiniteSet(S)
  BY NodesAssumption, FS_Subset
<1>2. QED
  BY <1>1, FS_CardinalityType

\* The nodes that a candidate has to wait for are on the list of its children.
LEMMA LastFirstNodes ==
  ASSUME NEW listed \in Seq(Nodes), NEW unvisited \in LastFirst(listed)
  PROVE  /\ unvisited \in Seq(Nodes)
         /\ ToSet(unvisited) \subseteq ToSet(listed)
<1> DEFINE U == {i \in DOMAIN listed : Marked[listed[i]] = no_state}
<1>1. PICK places \in SetToSeqs(U) : unvisited = [k \in DOMAIN places |-> listed[places[k]]]
  BY DEF LastFirst
<1>2. IsFiniteSet(U) /\ U \subseteq 1 .. Len(listed) /\ Len(listed) \in Nat
  <2>1. Len(listed) \in Nat /\ DOMAIN listed = 1 .. Len(listed)
    OBVIOUS
  <2>2. IsFiniteSet(1 .. Len(listed))
    BY <2>1, FS_Interval
  <2>3. U \in SUBSET (1 .. Len(listed))
    BY <2>1
  <2>4. QED
    BY <2>1, <2>2, <2>3, FS_Subset
<1>3. Cardinality(U) \in Nat
  BY <1>2, FS_CardinalityType
<1>4. places \in [1 .. Cardinality(U) -> U]
  BY DEF SetToSeqs
<1>5. \A i \in U : listed[i] \in ToSet(listed) /\ listed[i] \in Nodes
  BY <1>2 DEF ToSet
<1>6. unvisited \in [1 .. Cardinality(U) -> Nodes]
  BY <1>1, <1>4, <1>5
<1> HIDE DEF U
<1>7. unvisited \in Seq(Nodes) /\ DOMAIN unvisited = 1 .. Cardinality(U)
  BY <1>3, <1>6
<1>8. \A k \in 1 .. Cardinality(U) : unvisited[k] \in ToSet(listed)
  BY <1>1, <1>4, <1>5
<1>9. QED
  BY <1>7, <1>8 DEF ToSet

-----------------------------------------------------------------------------
(***************************************************************************)
(* Types.                                                                  *)
(***************************************************************************)

\* The types of what the Taskmaster's operators change.
WalkTypes ==
  /\ scanned \in SUBSET Nodes /\ absent \in SUBSET Nodes /\ visited \in SUBSET Nodes
  /\ pending_children \in SUBSET Nodes
  /\ state \in [Nodes -> NodeStates] /\ ref_count \in [Nodes -> Int]
  /\ waiting_parents \in [Nodes -> SUBSET Nodes] /\ waiting_s_e \in [Nodes -> SUBSET Nodes]
  /\ implicit \in [Nodes -> SUBSET Nodes]
  /\ candidates \in Seq(Nodes) /\ top_targets_left \in Seq(Nodes) /\ current_top \in Nodes
  /\ stopped \in BOOLEAN /\ status \in {0, 2}

LEMMA WalkTypesOK == TypeOK => WalkTypes /\ graph \in Graphs
BY DEF TypeOK, WalkTypes

\* The states are numbers.
LEMMA States ==
  NodeStates = 0 .. 5 /\ no_state = 0 /\ pending = 1 /\ executing = 2 /\ up_to_date = 3
    /\ executed = 4 /\ failed = 5
BY DEF NodeStates, no_state, pending, executing, up_to_date, executed, failed

\* What nodes include, depend on and produce are nodes.
LEMMA ChildrenTypes ==
  ASSUME graph \in Graphs, WalkTypes
  PROVE  /\ \A n, readable : IncludesThrough(n, readable) \in SUBSET Nodes
         /\ \A n \in Nodes : ImplicitOf(n) \in SUBSET Nodes
         /\ \A n \in Nodes : Children(n) \in SUBSET Nodes
         /\ \A ts \in SUBSET Nodes : SideEffects(ts) \in SUBSET Nodes
<1>1. /\ graph.sources \in [Nodes -> Seq(Nodes)] /\ graph.depends \in [Nodes -> Seq(Nodes)]
      /\ graph.includes \in [Nodes -> SUBSET Nodes]
      /\ graph.side_effects \in [Nodes -> SUBSET Nodes]
  BY GraphFields
<1>2. \A n, readable : IncludesThrough(n, readable) \in SUBSET Nodes
  BY <1>1 DEF IncludesThrough
<1>3. ASSUME NEW n \in Nodes PROVE ImplicitOf(n) \in SUBSET Nodes
  BY <1>2 DEF ImplicitOf, FoundIncludes, WalkTypes
<1>4. ASSUME NEW n \in Nodes PROVE Children(n) \in SUBSET Nodes
  <2>1. graph.sources[n] \in Seq(Nodes) /\ graph.depends[n] \in Seq(Nodes)
    BY <1>1
  <2>2. ToSet(graph.sources[n]) \subseteq Nodes
    BY ONLY <2>1, Membership
  <2>3. ToSet(graph.depends[n]) \subseteq Nodes
    BY ONLY <2>1, Membership
  <2>4. QED
    BY <2>2, <2>3, <1>3 DEF Children
<1>5. \A ts \in SUBSET Nodes : SideEffects(ts) \in SUBSET Nodes
  BY <1>1 DEF SideEffects
<1>6. QED
  BY <1>2, <1>3, <1>4, <1>5

\* A task is about nodes.
LEMMA TaskFields ==
  /\ \A t \in Task : /\ t.node \in Nodes /\ t.targets \in Seq(Nodes)
                     /\ t.top \in BOOLEAN /\ t.exception \in BOOLEAN
                     /\ Targets(t) \in SUBSET Nodes
  /\ \A n \in Nodes, raises \in BOOLEAN :
       graph \in Graphs => TaskFor(n, raises) \in Task
<1>1. ASSUME NEW t \in Task
      PROVE  /\ t.node \in Nodes /\ t.targets \in Seq(Nodes)
             /\ t.top \in BOOLEAN /\ t.exception \in BOOLEAN
             /\ Targets(t) \in SUBSET Nodes
  <2>1. /\ t.node \in Nodes /\ t.targets \in Seq(Nodes)
        /\ t.top \in BOOLEAN /\ t.exception \in BOOLEAN
    BY DEF Task
  <2>2. ToSet(t.targets) \subseteq Nodes
    BY ONLY <2>1, Membership
  <2>3. QED
    BY <2>1, <2>2 DEF Targets
<1>2. ASSUME NEW n \in Nodes, NEW raises \in BOOLEAN, graph \in Graphs
      PROVE  TaskFor(n, raises) \in Task
  BY <1>2, GraphFields DEF TaskFor, Task
<1>3. QED
  BY <1>1, <1>2

\* The walk is about nodes.
LEMMA CandidateTypes ==
  ASSUME WalkTypes, HasCandidate
  PROVE  /\ Candidate \in Nodes
         /\ OtherCandidates \in Seq(Nodes)
         /\ PopCandidate => top_targets_left' \in Seq(Nodes) /\ current_top' \in Nodes
<1>1. /\ candidates \in Seq(Nodes) /\ top_targets_left \in Seq(Nodes) /\ current_top \in Nodes
  BY DEF WalkTypes
<1>2. CASE candidates # << >>
  <2>1. Last(candidates) \in Nodes /\ Front(candidates) \in Seq(Nodes)
    BY <1>1, <1>2 DEF Last, Front
  <2>2. QED
    BY <1>1, <1>2, <2>1 DEF Candidate, OtherCandidates, PopCandidate
<1>3. CASE candidates = << >>
  <2>1. top_targets_left # << >>
    BY <1>3 DEF HasCandidate
  <2>2. Head(top_targets_left) \in Nodes /\ Tail(top_targets_left) \in Seq(Nodes)
    BY <1>1, <2>1
  <2>3. << >> \in Seq(Nodes)
    OBVIOUS
  <2>4. QED
    BY <1>1, <1>3, <2>2, <2>3 DEF Candidate, OtherCandidates, PopCandidate
<1>4. QED
  BY <1>2, <1>3

\* Numbers are subtracted from a count.
LEMMA SubtractType ==
  ASSUME NEW p, NEW S \in SUBSET Nodes
  PROVE  Subtract(p, S) \in Nat
<1> DEFINE C == {t \in S : p \in waiting_parents[t]}
<1>1. C \in SUBSET Nodes
  OBVIOUS
<1>2. Cardinality(C) \in Nat
  BY <1>1, NodeSets
<1>3. QED
  BY <1>2 DEF Subtract

\* What postprocess() changes.
PostTypes ==
  /\ candidates \in Seq(Nodes) /\ ref_count \in [Nodes -> Int]
  /\ pending_children \in SUBSET Nodes /\ state \in [Nodes -> NodeStates]
  /\ waiting_parents \in [Nodes -> SUBSET Nodes]

\* postprocess() of nodes in their states leaves everything in its type.
LEMMA PostProcessTypes ==
  ASSUME graph \in Graphs, WalkTypes, NEW st \in [Nodes -> NodeStates],
         NEW pend \in SUBSET Nodes, NEW ts \in SUBSET Nodes, PostProcess(st, pend, ts)
  PROVE  PostTypes'
<1> DEFINE held == {s \in SideEffects(ts) : st[s] = executing}
           woken == {p \in UNION {waiting_s_e[s] : s \in SideEffects(ts)} : ref_count[p] = 0}
           Left(p) == ref_count[p] - Subtract(p, ts) - Subtract(p, held)
           ready == {p \in ParentsOf(ts \cup held) : Left(p) = 0}
<1>1. /\ \E w \in SetToSeqs(woken), r \in SetToSeqs(ready) : candidates' = candidates \o w \o r
      /\ ref_count' = [p \in Nodes |-> Left(p)]
      /\ pending_children' = pend \ (woken \cup ready)
      /\ state' = [n \in Nodes |-> IF n \in held THEN no_state ELSE st[n]]
      /\ waiting_parents' = [n \in Nodes |-> IF n \in ts THEN {} ELSE waiting_parents[n]]
  BY DEF PostProcess
<1>2. held \in SUBSET Nodes /\ SideEffects(ts) \in SUBSET Nodes
  BY ChildrenTypes
<1>3. ASSUME NEW p \in Nodes PROVE Left(p) \in Int
  <2>1. ref_count[p] \in Int
    BY DEF WalkTypes
  <2>2. Subtract(p, ts) \in Int /\ Subtract(p, held) \in Int
    BY <1>2, SubtractType
  <2>3. QED
    BY ONLY <2>1, <2>2
<1>4. woken \in SUBSET Nodes
  BY <1>2 DEF WalkTypes
<1>5. ready \in SUBSET Nodes
  BY <1>2 DEF WalkTypes, ParentsOf
<1> HIDE DEF held, woken, ready, Left
<1>6. candidates' \in Seq(Nodes)
  <2>1. PICK w \in SetToSeqs(woken), r \in SetToSeqs(ready) : candidates' = candidates \o w \o r
    BY <1>1
  <2>2. w \in Seq(Nodes) /\ r \in Seq(Nodes)
    BY <1>4, <1>5, SetSequence
  <2>3. QED
    BY <2>1, <2>2 DEF WalkTypes
<1>7. state' \in [Nodes -> NodeStates]
  BY <1>1, States
<1>8. waiting_parents' \in [Nodes -> SUBSET Nodes]
  BY <1>1 DEF WalkTypes
<1>9. ref_count' \in [Nodes -> Int]
  BY <1>1, <1>3
<1>10. pending_children' \in SUBSET Nodes
  BY <1>1
<1>11. QED
  BY <1>6, <1>7, <1>8, <1>9, <1>10 DEF PostTypes

\* executed() or failed(), and postprocess(), too.
LEMMA ConcludeTypes ==
  ASSUME graph \in Graphs, WalkTypes, NEW t \in Task, NEW ok \in BOOLEAN, Conclude(t, ok)
  PROVE  WalkTypes'
<1> DEFINE ts == Targets(t)
<1>1. ts \in SUBSET Nodes
  BY TaskFields
<1>2. /\ Executed(ts) \/ FailContinue(ts) \/ FailStop(ts)
      /\ UNCHANGED <<graph, mode, waiting_s_e, implicit, top_targets_left, current_top>>
  BY DEF Conclude, DoFailed
<1> HIDE DEF ts
<1>3. PostTypes'
  <2>1. CASE Executed(ts)
    <3> DEFINE built == {n \in ts : state[n] = executing}
               st == [n \in Nodes |-> IF n \in built THEN executed
                                      ELSE IF n \in SideEffects(built) THEN no_state
                                      ELSE state[n]]
    <3>1. PostProcess(st, pending_children, ts)
      BY <2>1 DEF Executed
    <3>2. st \in [Nodes -> NodeStates] /\ pending_children \in SUBSET Nodes
      BY States DEF WalkTypes
    <3> HIDE DEF st
    <3>3. QED
      BY <1>1, <3>1, <3>2, PostProcessTypes
  <2>2. ASSUME NEW ns \in SUBSET Nodes, NEW doomed,
               PostProcess(MarkFailed(doomed), pending_children \ ParentsOf(doomed), ns)
        PROVE  PostTypes'
    <3>1. MarkFailed(doomed) \in [Nodes -> NodeStates]
      BY States DEF WalkTypes, MarkFailed
    <3>2. pending_children \ ParentsOf(doomed) \in SUBSET Nodes
      BY DEF WalkTypes
    <3>3. QED
      BY <2>2, <3>1, <3>2, PostProcessTypes
  <2>3. CASE FailContinue(ts)
    BY <1>1, <2>2, <2>3 DEF FailContinue
  <2>4. CASE FailStop(ts)
    <3>1. {current_top} \in SUBSET Nodes
      BY DEF WalkTypes
    <3>2. QED
      BY <3>1, <2>2, <2>4 DEF FailStop
  <2>5. QED
    BY <1>2, <2>1, <2>3, <2>4
<1>4. /\ scanned' \in SUBSET Nodes /\ absent' \in SUBSET Nodes /\ visited' \in SUBSET Nodes
      /\ stopped' \in BOOLEAN /\ status' \in {0, 2}
  BY <1>1, <1>2 DEF Executed, FailContinue, FailStop, WalkTypes
<1>5. QED
  BY <1>2, <1>3, <1>4 DEF WalkTypes, PostTypes

\* Marking the candidate gives a state to each node.
LEMMA MarkedTypes ==
  ASSUME WalkTypes
  PROVE  Marked \in [Nodes -> NodeStates]
<1>1. pending \in NodeStates
  BY States
<1>2. QED
  BY <1>1 DEF WalkTypes, Marked

\* A scan finds nodes.
LEMMA ScanTypes ==
  ASSUME graph \in Graphs, WalkTypes, NEW n \in Nodes, Scan(n)
  PROVE  scanned' \in SUBSET Nodes /\ absent' \in SUBSET Nodes /\ implicit' \in [Nodes -> SUBSET Nodes]
<1>1. CASE n \in scanned
  BY <1>1 DEF Scan, scanVars, WalkTypes
<1>2. CASE n \notin scanned
  <2> DEFINE ts == IF n \in graph.derived THEN ToSet(graph.targets[n]) ELSE {n}
             read == IF n \in Readable
                     THEN ToSet(graph.sources[n]) \cup FoundIncludes(n) ELSE {}
  <2>1. graph.sources[n] \in Seq(Nodes) /\ graph.targets[n] \in Seq(Nodes)
    BY GraphFields
  <2>2. ToSet(graph.sources[n]) \subseteq Nodes /\ ToSet(graph.targets[n]) \subseteq Nodes
    BY ONLY <2>1, Membership
  <2>3. FoundIncludes(n) \subseteq Nodes /\ ImplicitOf(n) \subseteq Nodes
    BY ChildrenTypes DEF FoundIncludes
  <2>4. ts \subseteq Nodes /\ read \subseteq Nodes
    BY <2>2, <2>3
  <2>5. /\ scanned' = scanned \cup ts /\ absent' = absent \cup (read \ on_disk)
        /\ implicit' = [m \in Nodes |->
             IF m = n THEN ImplicitOf(n)
             ELSE IF m \notin ts THEN implicit[m]
             ELSE IF m \in scanned THEN implicit[m] \cup ImplicitOf(n)
             ELSE ImplicitOf(n)]
    BY <1>2 DEF Scan
  <2> HIDE DEF ts, read
  <2>6. implicit' \in [Nodes -> SUBSET Nodes]
    BY <2>3, <2>5 DEF WalkTypes
  <2>7. QED
    BY <2>4, <2>5, <2>6 DEF WalkTypes
<1>3. QED
  BY <1>1, <1>2

\* The candidates that a waiting node leaves are nodes.
LEMMA WaitingCandidates ==
  ASSUME graph \in Graphs, WalkTypes, WaitForChildren
  PROVE  /\ candidates' \in Seq(Nodes)
         /\ ToSet(candidates') \subseteq ToSet(OtherCandidates) \cup Children(Candidate)
<1> DEFINE n == Candidate
<1>1. n \in Nodes /\ OtherCandidates \in Seq(Nodes)
  BY CandidateTypes DEF WaitForChildren, Considered
<1>2. PICK found \in SetToSeqs(ImplicitOf(n)) :
        \E unvisited \in LastFirst(graph.sources[n] \o graph.depends[n] \o found) :
          candidates' = OtherCandidates \o unvisited
  BY DEF WaitForChildren
<1>3. ImplicitOf(n) \in SUBSET Nodes
  BY <1>1, ChildrenTypes
<1>4. found \in Seq(Nodes) /\ ToSet(found) \subseteq ImplicitOf(n)
  BY <1>2, <1>3, SetSequence
<1>5. graph.sources[n] \in Seq(Nodes) /\ graph.depends[n] \in Seq(Nodes)
  BY <1>1, GraphFields
<1> DEFINE own == graph.sources[n] \o graph.depends[n]
           listed == own \o found
<1>6. own \in Seq(Nodes) /\ ToSet(own) \subseteq ToSet(graph.sources[n]) \cup ToSet(graph.depends[n])
  BY ONLY <1>5, ConcatElements
<1> HIDE DEF own
<1>7. listed \in Seq(Nodes) /\ ToSet(listed) \subseteq ToSet(own) \cup ToSet(found)
  BY ONLY <1>4, <1>6, ConcatElements
<1>8. PICK unvisited \in LastFirst(listed) : candidates' = OtherCandidates \o unvisited
  BY <1>2 DEF own
<1> HIDE DEF listed
<1>9. unvisited \in Seq(Nodes) /\ ToSet(unvisited) \subseteq ToSet(listed)
  BY <1>7, LastFirstNodes
<1>10. /\ OtherCandidates \o unvisited \in Seq(Nodes)
       /\ ToSet(OtherCandidates \o unvisited) \subseteq ToSet(OtherCandidates) \cup ToSet(unvisited)
  BY ONLY <1>1, <1>9, ConcatElements
<1>11. ToSet(listed) \subseteq Children(n)
  BY <1>4, <1>6, <1>7 DEF Children
<1>12. QED
  BY <1>8, <1>9, <1>10, <1>11

\* A look at a candidate keeps the types; it may give a task.
LEMMA LookTypes ==
  ASSUME graph \in Graphs, WalkTypes, FindNextReadyNode
  PROVE  /\ WalkTypes' /\ graph' \in Graphs /\ mode' = mode /\ on_disk' = on_disk
         /\ task' # task => \E t \in Task : task' = <<t>>
<1> DEFINE n == Candidate
<1>1. /\ graph' = graph /\ mode' = mode /\ on_disk' = on_disk
      /\ stopped' = stopped /\ status' = status
  BY DEF FindNextReadyNode
<1>2. HasCandidate /\ PopCandidate
  BY DEF FindNextReadyNode, AlreadyHandled, WaitForChildren, WaitForSideEffect, ScanRaises,
         Evaluate, ChildrenFinished, Considered
<1>3. /\ n \in Nodes /\ OtherCandidates \in Seq(Nodes)
      /\ top_targets_left' \in Seq(Nodes) /\ current_top' \in Nodes
  BY <1>2, CandidateTypes
<1>4. Marked \in [Nodes -> NodeStates]
  BY MarkedTypes
<1>5. CASE AlreadyHandled /\ UNCHANGED visited
  BY <1>1, <1>3, <1>5 DEF AlreadyHandled, nodeVars, scanVars, WalkTypes
<1>6. CASE WaitForChildren /\ UNCHANGED visited
  <2>1. candidates' \in Seq(Nodes)
    BY <1>6, WaitingCandidates
  <2>2. scanned' \in SUBSET Nodes /\ absent' \in SUBSET Nodes /\ implicit' \in [Nodes -> SUBSET Nodes]
    BY <1>3, <1>6, ScanTypes DEF WaitForChildren
  <2> DEFINE not_ready == {c \in Children(n) : Marked[c] <= executing}
             Fresh == {c \in not_ready : n \notin waiting_parents[c]}
  <2>3. Children(n) \in SUBSET Nodes
    BY <1>3, ChildrenTypes
  <2>4. Cardinality(Fresh) \in Nat
    <3>1. Fresh \in SUBSET Nodes
      BY <2>3
    <3>2. QED
      BY <3>1, NodeSets
  <2>5. \/ /\ state' = [state EXCEPT ![n] = failed]
           /\ UNCHANGED <<ref_count, waiting_parents, pending_children>>
        \/ /\ state' = Marked
           /\ ref_count' = [ref_count EXCEPT ![n] = @ + Cardinality(Fresh)]
           /\ waiting_parents' = [c \in Nodes |->
                IF c \in not_ready THEN waiting_parents[c] \cup {n} ELSE waiting_parents[c]]
           /\ pending_children' = pending_children \cup
                {c \in Children(n) : Marked[c] = pending}
    BY <1>6 DEF WaitForChildren
  <2>6. UNCHANGED <<waiting_s_e, task>>
    BY <1>6 DEF WaitForChildren
  <2> HIDE DEF n, Fresh, not_ready
  <2>7. /\ state' \in [Nodes -> NodeStates] /\ ref_count' \in [Nodes -> Int]
        /\ waiting_parents' \in [Nodes -> SUBSET Nodes]
        /\ pending_children' \in SUBSET Nodes
    <3>1. CASE /\ state' = [state EXCEPT ![n] = failed]
               /\ UNCHANGED <<ref_count, waiting_parents, pending_children>>
      BY <1>3, <3>1, States DEF WalkTypes
    <3>2. CASE /\ state' = Marked
               /\ ref_count' = [ref_count EXCEPT ![n] = @ + Cardinality(Fresh)]
               /\ waiting_parents' = [c \in Nodes |->
                    IF c \in not_ready THEN waiting_parents[c] \cup {n} ELSE waiting_parents[c]]
               /\ pending_children' = pending_children \cup
                    {c \in Children(n) : Marked[c] = pending}
      BY <1>3, <1>4, <2>3, <2>4, <3>2 DEF WalkTypes
    <3>3. QED
      BY <2>5, <3>1, <3>2
  <2>8. QED
    BY <1>1, <1>3, <1>6, <2>1, <2>2, <2>6, <2>7 DEF WalkTypes
<1>7. CASE WaitForSideEffect
  <2>1. scanned' \in SUBSET Nodes /\ absent' \in SUBSET Nodes /\ implicit' \in [Nodes -> SUBSET Nodes]
    BY <1>3, <1>7, ScanTypes DEF WaitForSideEffect, ChildrenFinished
  <2>2. waiting_s_e' \in [Nodes -> SUBSET Nodes]
    BY <1>3, <1>7 DEF WaitForSideEffect, WalkTypes
  <2>3. QED
    BY <1>1, <1>3, <1>4, <1>7, <2>1, <2>2 DEF WaitForSideEffect, ChildrenFinished, WalkTypes
<1>8. CASE ScanRaises \/ Evaluate
  <2>1. scanned' \in SUBSET Nodes /\ absent' \in SUBSET Nodes /\ implicit' \in [Nodes -> SUBSET Nodes]
    BY <1>3, <1>8, ScanTypes DEF ScanRaises, Evaluate, ChildrenFinished
  <2>2. TaskFor(n, FALSE) \in Task /\ TaskFor(n, TRUE) \in Task
    BY <1>3, TaskFields
  <2>3. graph.targets[n] \in Seq(Nodes)
    BY <1>3, GraphFields
  <2>4. ToSet(graph.targets[n]) \subseteq Nodes
    BY ONLY <2>3, Membership
  <2> DEFINE ts == ToSet(graph.targets[n])
  <2>5. MakeReady(n, TRUE) \/ MakeReady(n, FALSE)
    BY <1>8 DEF ScanRaises, Evaluate
  <2>6. /\ task' = <<TaskFor(n, TRUE)>> \/ task' = <<TaskFor(n, FALSE)>>
        /\ \/ /\ state' = [m \in Nodes |-> IF m \in ts THEN up_to_date ELSE state[m]]
              /\ visited' = visited \cup ts
           \/ /\ state' = [m \in Nodes |->
                   IF m \in ts \cup SideEffects(ts) THEN executing ELSE state[m]]
              /\ UNCHANGED visited
    BY <2>5 DEF MakeReady
  <2>7. candidates' = OtherCandidates
        /\ UNCHANGED <<ref_count, waiting_parents, waiting_s_e, pending_children>>
    BY <1>8 DEF ScanRaises, Evaluate, ChildrenFinished
  <2> HIDE DEF n, ts
  <2>8. state' \in [Nodes -> NodeStates]
    BY <2>6, States DEF WalkTypes
  <2>9. visited' \in SUBSET Nodes
    BY <2>4, <2>6 DEF WalkTypes, ts
  <2>10. task' \in Seq(Task) /\ Len(task') <= 1 /\ \E t \in Task : task' = <<t>>
    <3>1. PICK t \in Task : task' = <<t>>
      BY <2>2, <2>6
    <3>2. QED
      BY <3>1
  <2>11. QED
    BY <1>1, <1>3, <2>1, <2>7, <2>8, <2>9, <2>10 DEF WalkTypes
<1>9. QED
  BY <1>1, <1>5, <1>6, <1>7, <1>8 DEF FindNextReadyNode

\* Nothing left to look at.
LEMMA NoNextTypes ==
  ASSUME WalkTypes, NoNextCandidate
  PROVE  WalkTypes' /\ UNCHANGED <<graph, mode, on_disk, task>>
<1> DEFINE Kept == UNCHANGED <<graph, mode, on_disk, ref_count, waiting_parents, waiting_s_e,
                  scanVars, top_targets_left, current_top, stopped, status, visited, task>>
<1>1. PICK doomed : /\ state' = MarkFailed(doomed)
                    /\ pending_children' = pending_children \ ParentsOf(doomed)
                    /\ candidates' = << >> /\ Kept
  BY DEF NoNextCandidate
<1>2. state' \in [Nodes -> NodeStates]
  BY <1>1, States DEF MarkFailed, WalkTypes
<1>3. candidates' \in Seq(Nodes)
  BY <1>1
<1>4. QED
  BY <1>1, <1>2, <1>3 DEF WalkTypes, scanVars

\* The types of what belongs to the jobs.
JobTypes ==
  /\ graph \in Graphs /\ mode \in Modes /\ num_jobs \in NumJobs
  /\ on_disk \in SUBSET Nodes /\ broke \in SUBSET Nodes /\ interrupted \in BOOLEAN
  /\ task \in Seq(Task) /\ Len(task) <= 1
  /\ pc \in {"next_task", "start", "wait", "end"}
  /\ pc = "start" <=> task # << >>
  /\ requestQueue \in Seq(Task)
  /\ running \in SUBSET Running
  /\ resultsQueue \in Seq(Task \X BOOLEAN)
  /\ outcome \in {"none", "done", "cycle"}

Types == WalkTypes /\ JobTypes

LEMMA TypeParts == TypeOK <=> Types
BY DEF TypeOK, Types, WalkTypes, JobTypes

\* The build starts with nothing.
LEMMA TypesInit == Init => Types
<1> SUFFICES ASSUME Init PROVE WalkTypes /\ JobTypes
  BY DEF Types
<1>1. graph \in Graphs /\ mode \in Modes /\ num_jobs \in NumJobs
  BY DEF Init, TaskmasterInit
<1>2. graph.disk \in SUBSET Nodes /\ graph.top \in Seq(Nodes) /\ graph.top[1] \in Nodes
  <2>1. graph.disk \in SUBSET Nodes /\ graph.top \in Seq(Nodes) /\ graph.top # << >>
    BY <1>1, GraphFields
  <2>2. QED
    BY <2>1
<1>3. WalkTypes
  <2>1. << >> \in Seq(Nodes)
    OBVIOUS
  <2>2. no_state \in NodeStates /\ 0 \in Int
    BY States
  <2>3. QED
    BY <1>2, <2>1, <2>2 DEF Init, TaskmasterInit, WalkTypes
<1>4. JobTypes
  <2>1. task \in Seq(Task) /\ Len(task) = 0
    BY DEF Init, TaskmasterInit
  <2>2. requestQueue \in Seq(Task) /\ resultsQueue \in Seq(Task \X BOOLEAN)
    BY DEF Init
  <2>3. task = << >> /\ pc = "next_task" /\ Len(task) <= 1
    BY <2>1 DEF Init, TaskmasterInit
  <2>4. QED
    BY <1>1, <1>2, <2>1, <2>2, <2>3 DEF Init, TaskmasterInit, JobTypes
<1>5. QED
  BY <1>3, <1>4

\* What a thread has at hand is a task.
LEMMA AtHand ==
  ASSUME JobTypes
  PROVE  /\ task # << >> => task[1] \in Task /\ task = <<task[1]>> /\ ToSet(task) = {task[1]}
         /\ requestQueue # << >> => /\ requestQueue[1] \in Task
                                    /\ Tail(requestQueue) \in Seq(Task)
         /\ resultsQueue # << >> => /\ resultsQueue[1] \in Task \X BOOLEAN
                                    /\ resultsQueue[1][1] \in Task
                                    /\ resultsQueue[1][2] \in BOOLEAN
                                    /\ Tail(resultsQueue) \in Seq(Task \X BOOLEAN)
         /\ \A r \in running : /\ r.task \in Task /\ r.at \in Nat \ {0}
                               /\ r.retrieved \in BOOLEAN
<1>1. ASSUME task # << >>
      PROVE  task[1] \in Task /\ task = <<task[1]>> /\ ToSet(task) = {task[1]}
  <2>1. task \in Seq(Task) /\ Len(task) = 1
    <3>1. task \in Seq(Task)
      BY DEF JobTypes
    <3>2. Len(task) <= 1
      BY DEF JobTypes
    <3>3. Len(task) \in Nat /\ Len(task) # 0
      BY ONLY <3>1, <1>1, EmptySeq, LenProperties
    <3>4. QED
      <4>1. \A k \in Nat : k <= 1 /\ k # 0 => k = 1
        OBVIOUS
      <4>2. QED
        BY ONLY <3>1, <3>2, <3>3, <4>1
  <2>2. task[1] \in Task /\ task = <<task[1]>> /\ DOMAIN task = {1}
    BY <2>1
  <2>3. QED
    BY <2>2 DEF ToSet
<1>2. ASSUME requestQueue # << >>
      PROVE  requestQueue[1] \in Task /\ Tail(requestQueue) \in Seq(Task)
  BY <1>2 DEF JobTypes
<1>3. ASSUME resultsQueue # << >>
      PROVE  /\ resultsQueue[1] \in Task \X BOOLEAN
             /\ Tail(resultsQueue) \in Seq(Task \X BOOLEAN)
  BY <1>3 DEF JobTypes
<1>4. \A p \in Task \X BOOLEAN : p[1] \in Task /\ p[2] \in BOOLEAN
  OBVIOUS
<1>5. \A r \in running : r.task \in Task /\ r.at \in Nat \ {0} /\ r.retrieved \in BOOLEAN
  BY DEF JobTypes, Running
<1>6. QED
  BY <1>1, <1>2, <1>3, <1>4, <1>5

\* What removing and making files leaves on the disk.
LEMMA DiskTypes ==
  ASSUME NEW t \in Task, graph \in Graphs, WalkTypes
  PROVE  /\ Targets(t) \in SUBSET Nodes /\ SideEffects(Targets(t)) \in SUBSET Nodes
         /\ \A i \in 1 .. Len(t.targets) : t.targets[i] \in Nodes /\ t.targets[i] \in Targets(t)
<1>1. t.targets \in Seq(Nodes) /\ Targets(t) \in SUBSET Nodes
  BY TaskFields
<1>2. QED
  BY <1>1, ChildrenTypes DEF Targets, ToSet

\* A result is a task and whether it went well.
LEMMA ResultTypes ==
  ASSUME JobTypes, NEW t \in Task, NEW ok \in BOOLEAN
  PROVE  Append(resultsQueue, <<t, ok>>) \in Seq(Task \X BOOLEAN)
<1>1. <<t, ok>> \in Task \X BOOLEAN /\ resultsQueue \in Seq(Task \X BOOLEAN)
  BY DEF JobTypes
<1>2. QED
  BY ONLY <1>1, AppendProperties

\* Every step keeps the types.
LEMMA TypesStep == Types /\ [Next]_vars => Types'
<1> SUFFICES ASSUME WalkTypes, JobTypes, [Next]_vars PROVE WalkTypes' /\ JobTypes'
  BY DEF Types
<1>1. graph \in Graphs
  BY DEF JobTypes
<1>2. CASE LookForTask
  <2>1. /\ WalkTypes' /\ graph' \in Graphs /\ mode' = mode /\ on_disk' = on_disk
        /\ task' # task => \E t \in Task : task' = <<t>>
    BY <1>1, <1>2, LookTypes DEF LookForTask
  <2>2. task' \in Seq(Task) /\ Len(task') <= 1
    <3>1. CASE task' = task
      BY <3>1 DEF JobTypes
    <3>2. CASE \E t \in Task : task' = <<t>>
      BY <3>2
    <3>3. QED
      BY <2>1, <3>1, <3>2
  <2>3. QED
    BY <1>2, <2>1, <2>2 DEF LookForTask, JobTypes
<1>3. CASE NoMoreTasks
  <2>1. WalkTypes' /\ UNCHANGED <<graph, mode, on_disk, task>>
    BY <1>3, NoNextTypes DEF NoMoreTasks
  <2>2. QED
    BY <1>3, <2>1 DEF NoMoreTasks, JobTypes
<1>4. CASE PrepareFails
  <2>1. task[1] \in Task
    BY <1>4, AtHand DEF PrepareFails, JobTypes
  <2>2. WalkTypes'
    BY <1>1, <1>4, <2>1, ConcludeTypes DEF PrepareFails
  <2>3. UNCHANGED <<graph, mode>>
    BY <1>4 DEF PrepareFails, Conclude
  <2>4. on_disk' \in SUBSET Nodes /\ broke' \in SUBSET Nodes
    BY <1>4, <2>1, TaskFields DEF PrepareFails, JobTypes
  <2>5. task' \in Seq(Task) /\ Len(task') <= 1 /\ task' = << >> /\ pc' = "next_task"
    BY <1>4 DEF PrepareFails
  <2>6. QED
    BY <1>4, <2>2, <2>3, <2>4, <2>5 DEF PrepareFails, JobTypes
<1>5. CASE NothingToDo
  <2>1. task[1] \in Task
    BY <1>5, AtHand DEF NothingToDo, JobTypes
  <2>2. WalkTypes'
    BY <1>1, <1>5, <2>1, ConcludeTypes DEF NothingToDo
  <2>3. UNCHANGED <<graph, mode>>
    BY <1>5 DEF NothingToDo, Conclude
  <2>4. broke' \in SUBSET Nodes
    BY <1>5, <2>1, TaskFields DEF NothingToDo, JobTypes
  <2>5. task' \in Seq(Task) /\ Len(task') <= 1 /\ task' = << >> /\ pc' = "next_task"
    BY <1>5 DEF NothingToDo
  <2>6. QED
    BY <1>5, <2>2, <2>3, <2>4, <2>5 DEF NothingToDo, JobTypes
<1>6. CASE Dispatch
  <2>1. task[1] \in Task
    BY <1>6, AtHand DEF Dispatch, JobTypes
  <2>2. WalkTypes'
    BY <1>6 DEF Dispatch, nodeVars, walkVars, WalkTypes
  <2>3. on_disk' \in SUBSET Nodes
    BY <1>6 DEF Dispatch, JobTypes
  <2>4. requestQueue' \in Seq(Task)
    BY <1>6, <2>1 DEF Dispatch, JobTypes
  <2>5. task' \in Seq(Task) /\ Len(task') <= 1 /\ task' = << >> /\ pc' \in {"next_task", "wait"}
    BY <1>6 DEF Dispatch
  <2>6. QED
    BY <1>6, <2>2, <2>3, <2>4, <2>5 DEF Dispatch, JobTypes
<1>7. CASE TakeResult
  <2>1. /\ resultsQueue[1][1] \in Task /\ resultsQueue[1][2] \in BOOLEAN
        /\ resultsQueue' \in Seq(Task \X BOOLEAN)
    BY <1>7, AtHand DEF TakeResult
  <2>2. Conclude(resultsQueue[1][1], resultsQueue[1][2])
    BY <1>7 DEF TakeResult
  <2>3. WalkTypes' /\ UNCHANGED <<graph, mode>>
    BY <1>1, <2>1, <2>2, ConcludeTypes DEF Conclude
  <2>4. broke' \in SUBSET Nodes
    BY <1>7, <2>1, TaskFields DEF TakeResult, JobTypes
  <2>5. task' = task /\ pc' \in {"next_task", "wait"} /\ pc = "wait"
    BY <1>7 DEF TakeResult
  <2>6. QED
    BY <1>7, <2>1, <2>3, <2>4, <2>5 DEF TakeResult, JobTypes
<1>8. CASE TakeTask
  <2>1. requestQueue[1] \in Task /\ requestQueue' \in Seq(Task)
    BY <1>8, AtHand DEF TakeTask
  <2>2. resultsQueue' \in Seq(Task \X BOOLEAN)
    BY <1>8, <2>1, ResultTypes DEF TakeTask, Post, JobTypes
  <2>3. running' \in SUBSET Running
    <3>1. [task |-> requestQueue[1], at |-> 1, retrieved |-> FALSE] \in Running
      BY <2>1 DEF Running
    <3>2. QED
      BY <1>8, <3>1 DEF TakeTask, JobTypes
  <2>4. QED
    BY <1>8, <2>1, <2>2, <2>3
    DEF TakeTask, tmVars, nodeVars, scanVars, walkVars, WalkTypes, JobTypes
<1>9. ASSUME NEW r \in running, RetrieveFromCache(r) PROVE WalkTypes' /\ JobTypes'
  <2>1. r.task \in Task /\ r.at \in Nat \ {0}
    BY AtHand
  <2>2. r.task.targets[r.at] \in Nodes
    BY <1>1, <1>9, <2>1, DiskTypes DEF RetrieveFromCache
  <2>3. on_disk' \in SUBSET Nodes
    BY <1>9, <2>2 DEF RetrieveFromCache, JobTypes
  <2>4. executed \in NodeStates
    BY States
  <2>5. state' \in [Nodes -> NodeStates]
    BY <1>9, <2>2, <2>4 DEF RetrieveFromCache, WalkTypes
  <2>6. running' \in SUBSET Running
    BY <1>9, <2>1 DEF RetrieveFromCache, Replace, JobTypes, Running
  <2>7. QED
    BY <1>9, <2>3, <2>5, <2>6 DEF RetrieveFromCache, scanVars, walkVars, WalkTypes, JobTypes
<1>10. ASSUME NEW r \in running, RetrievedBuilt(r) PROVE WalkTypes' /\ JobTypes'
  <2>1. r.task \in Task /\ r.at \in Nat \ {0} /\ r \in Running
    BY AtHand DEF JobTypes
  <2>2. scanned' \in SUBSET Nodes /\ absent' \in SUBSET Nodes
    BY <1>10 DEF RetrievedBuilt, WalkTypes
  <2>3. resultsQueue' \in Seq(Task \X BOOLEAN)
    BY <1>10, <2>1, ResultTypes DEF RetrievedBuilt, Post, JobTypes
  <2>4. running' \in SUBSET Running
    <3>1. [r EXCEPT !.at = @ + 1, !.retrieved = FALSE] \in Running
      <4>1. PICK k \in Nat : k = r.at + 1 /\ k \in Nat \ {0}
        BY ONLY <2>1
      <4>2. [r EXCEPT !.at = k, !.retrieved = FALSE] \in Running
        BY ONLY <2>1, <4>1 DEF Running
      <4>3. [r EXCEPT !.at = @ + 1, !.retrieved = FALSE] = [r EXCEPT !.at = k, !.retrieved = FALSE]
        BY ONLY <4>1
      <4>4. QED
        BY ONLY <4>2, <4>3
    <3>2. QED
      BY <1>10, <3>1 DEF RetrievedBuilt, Replace, JobTypes
  <2>5. QED
    BY <1>10, <2>2, <2>3, <2>4 DEF RetrievedBuilt, nodeVars, walkVars, WalkTypes, JobTypes
<1>11. ASSUME NEW r \in running, Build(r) \/ BuildFails(r) PROVE WalkTypes' /\ JobTypes'
  <2>1. r.task \in Task
    BY AtHand
  <2>2. on_disk' \in SUBSET Nodes
    BY <1>1, <1>11, <2>1, DiskTypes DEF Build, BuildFails, tmVars, JobTypes
  <2>3. resultsQueue' \in Seq(Task \X BOOLEAN)
    BY <1>11, <2>1, ResultTypes DEF Build, BuildFails, Post
  <2>4. running' \in SUBSET Running
    BY <1>11 DEF Build, BuildFails, Replace, JobTypes
  <2>5. QED
    BY <1>11, <2>2, <2>3, <2>4
    DEF Build, BuildFails, tmVars, nodeVars, scanVars, walkVars, WalkTypes, JobTypes
<1>12. CASE Interrupt
  BY <1>12 DEF Interrupt, nodeVars, scanVars, WalkTypes, JobTypes
<1>13. CASE UNCHANGED vars
  BY <1>13 DEF vars, tmVars, jobVars, nodeVars, scanVars, walkVars, WalkTypes, JobTypes
<1>14. QED
  BY <1>2, <1>3, <1>4, <1>5, <1>6, <1>7, <1>8, <1>9, <1>10, <1>11, <1>12, <1>13
  DEF Next, Main, Execute, Ended

\* Types of a build, for any graphs, numbers of jobs and policies; a task is in the
\* main thread's hand exactly while it is about to be prepared.
THEOREM TypeCorrect == Spec => []TypeOK
BY TypesInit, TypesStep, TypeParts, PTL DEF Spec

-----------------------------------------------------------------------------
(***************************************************************************)
(* Reference counts.  They are right as long as nothing is made from a     *)
(* side effect: releasing one lowers the counts of the nodes that wait for *)
(* it and leaves them among its waiting parents.                           *)
(***************************************************************************)
SideOf(g, ts) == UNION {g.side_effects[n] : n \in ts}
Plains(g) == Nodes \ SideOf(g, Nodes)

\* What a user asked for in a graph: no file is made from a side effect.
NothingFromSideEffects(g) ==
  \A n \in Nodes :
    ToSet(g.sources[n]) \cup ToSet(g.depends[n]) \cup g.includes[n] \subseteq Plains(g)

WaitingFor(p) == {c \in Nodes : p \in waiting_parents[c]}

CountInv ==
  /\ \A n \in Nodes : implicit[n] \subseteq Plains(graph)
  /\ \A c \in Nodes : waiting_parents[c] # {} => c \in Plains(graph)
  /\ \A p \in Nodes : ref_count[p] = Cardinality(WaitingFor(p))

\* What is found by scanning, and so every child, is no side effect.
LEMMA PlainChildren ==
  ASSUME graph \in Graphs, WalkTypes, NothingFromSideEffects(graph),
         \A n \in Nodes : implicit[n] \subseteq Plains(graph), NEW n \in Nodes
  PROVE  ImplicitOf(n) \subseteq Plains(graph) /\ Children(n) \subseteq Plains(graph)
<1>1. FoundIncludes(n) \subseteq Plains(graph)
  BY DEF FoundIncludes, IncludesThrough, NothingFromSideEffects
<1>2. ImplicitOf(n) \subseteq Plains(graph)
  BY <1>1 DEF ImplicitOf
<1>3. ToSet(graph.sources[n]) \cup ToSet(graph.depends[n]) \subseteq Plains(graph)
  BY DEF NothingFromSideEffects
<1>4. QED
  BY <1>2, <1>3 DEF Children

\* A scan finds no side effect.
LEMMA PlainScan ==
  ASSUME graph \in Graphs, WalkTypes, NothingFromSideEffects(graph),
         \A n \in Nodes : implicit[n] \subseteq Plains(graph), NEW n \in Nodes, Scan(n)
  PROVE  \A m \in Nodes : implicit'[m] \subseteq Plains(graph)
<1>1. ImplicitOf(n) \subseteq Plains(graph)
  BY PlainChildren
<1>2. CASE n \in scanned
  BY <1>2 DEF Scan, scanVars
<1>3. CASE n \notin scanned
  <2> DEFINE ts == IF n \in graph.derived THEN ToSet(graph.targets[n]) ELSE {n}
  <2>1. implicit' = [m \in Nodes |->
             IF m = n THEN ImplicitOf(n)
             ELSE IF m \notin ts THEN implicit[m]
             ELSE IF m \in scanned THEN implicit[m] \cup ImplicitOf(n)
             ELSE ImplicitOf(n)]
    BY <1>3 DEF Scan
  <2> HIDE DEF ts
  <2>2. QED
    BY <1>1, <2>1
<1>4. QED
  BY <1>2, <1>3

\* postprocess() lowers each count by the targets the node was waiting for.
LEMMA PostProcessCounts ==
  ASSUME graph \in Graphs, WalkTypes, CountInv, NEW st, NEW pend, NEW ts \in SUBSET Nodes,
         PostProcess(st, pend, ts)
  PROVE  /\ \A c \in Nodes : waiting_parents'[c] # {} => c \in Plains(graph)
         /\ \A p \in Nodes :
              ref_count'[p] = Cardinality({c \in Nodes : p \in waiting_parents'[c]})
<1> DEFINE held == {s \in SideEffects(ts) : st[s] = executing}
<1>1. /\ ref_count' = [p \in Nodes |-> ref_count[p] - Subtract(p, ts) - Subtract(p, held)]
      /\ waiting_parents' = [n \in Nodes |-> IF n \in ts THEN {} ELSE waiting_parents[n]]
  BY DEF PostProcess
<1>2. \A c \in Nodes : waiting_parents'[c] # {} => c \in Plains(graph)
  BY <1>1 DEF CountInv
<1>3. ASSUME NEW p \in Nodes
      PROVE  ref_count'[p] = Cardinality({c \in Nodes : p \in waiting_parents'[c]})
  <2> DEFINE W == WaitingFor(p)
  <2>1. {c \in Nodes : p \in waiting_parents'[c]} = W \ ts
    BY <1>1 DEF WaitingFor
  <2>2. {t \in ts : p \in waiting_parents[t]} = W \cap ts
    BY DEF WaitingFor
  <2>3. held \in SUBSET Nodes /\ held \cap Plains(graph) = {}
    BY ChildrenTypes DEF SideEffects, Plains, SideOf
  <2>4. {t \in held : p \in waiting_parents[t]} = {}
    BY <2>3 DEF CountInv
  <2>5. Subtract(p, held) = 0 /\ Subtract(p, ts) = Cardinality(W \cap ts)
    BY ONLY <2>2, <2>4, FS_EmptySet DEF Subtract
  <2>6. /\ IsFiniteSet(W) /\ Cardinality(W) \in Nat
        /\ Cardinality(W \cap ts) \in Nat
    <3>1. W \in SUBSET Nodes /\ W \cap ts \in SUBSET Nodes
      BY DEF WaitingFor
    <3>2. QED
      BY ONLY <3>1, NodeSets
  <2>7. Cardinality(W \ ts) = Cardinality(W) - Cardinality(W \cap ts)
    BY ONLY <2>6, FS_Difference
  <2>8. ref_count[p] = Cardinality(W)
    BY DEF CountInv
  <2>9. ref_count'[p] = ref_count[p] - Subtract(p, ts) - Subtract(p, held)
    BY <1>1
  <2> HIDE DEF W, held
  <2>10. QED
    BY ONLY <2>1, <2>5, <2>6, <2>7, <2>8, <2>9
<1>4. QED
  BY <1>2, <1>3

\* A node waits for its unfinished children, each of them once.
LEMMA WaitCounts ==
  ASSUME graph \in Graphs, WalkTypes, CountInv, NothingFromSideEffects(graph), WaitForChildren
  PROVE  /\ \A c \in Nodes : waiting_parents'[c] # {} => c \in Plains(graph)
         /\ \A p \in Nodes :
              ref_count'[p] = Cardinality({c \in Nodes : p \in waiting_parents'[c]})
<1> DEFINE n == Candidate
           not_ready == {c \in Children(n) : Marked[c] <= executing}
           fresh == {c \in not_ready : n \notin waiting_parents[c]}
<1>1. n \in Nodes
  BY CandidateTypes DEF WaitForChildren, Considered
<1>2. Children(n) \subseteq Plains(graph)
  BY <1>1, PlainChildren DEF CountInv
<1>3. \/ UNCHANGED <<ref_count, waiting_parents>>
      \/ /\ ref_count' = [ref_count EXCEPT ![n] = @ + Cardinality(fresh)]
         /\ waiting_parents' = [c \in Nodes |->
              IF c \in not_ready THEN waiting_parents[c] \cup {n} ELSE waiting_parents[c]]
  BY DEF WaitForChildren
<1>4. CASE UNCHANGED <<ref_count, waiting_parents>>
  BY <1>4 DEF CountInv, WaitingFor
<1>5. CASE /\ ref_count' = [ref_count EXCEPT ![n] = @ + Cardinality(fresh)]
           /\ waiting_parents' = [c \in Nodes |->
                IF c \in not_ready THEN waiting_parents[c] \cup {n} ELSE waiting_parents[c]]
  <2>1. not_ready \subseteq Plains(graph) /\ not_ready \subseteq Nodes
    BY <1>2 DEF Plains
  <2> HIDE DEF n, not_ready
  <2>2. \A c \in Nodes : waiting_parents'[c] # {} => c \in Plains(graph)
    BY <1>5, <2>1 DEF CountInv
  <2>3. ASSUME NEW p \in Nodes, p # n
        PROVE  ref_count'[p] = Cardinality({c \in Nodes : p \in waiting_parents'[c]})
    <3>1. {c \in Nodes : p \in waiting_parents'[c]} = WaitingFor(p)
      BY <1>5, <2>3 DEF WaitingFor
    <3>2. ref_count'[p] = ref_count[p]
      BY <1>5, <2>3 DEF WalkTypes
    <3>3. QED
      BY <3>1, <3>2 DEF CountInv
  <2>4. ref_count'[n] = Cardinality({c \in Nodes : n \in waiting_parents'[c]})
    <3> DEFINE W == WaitingFor(n)
    <3>1. {c \in Nodes : n \in waiting_parents'[c]} = W \cup fresh
      BY <1>1, <1>5, <2>1 DEF WaitingFor
    <3>2. W \cap fresh = {} /\ W \in SUBSET Nodes /\ fresh \in SUBSET Nodes
      BY <2>1 DEF WaitingFor
    <3>3. /\ IsFiniteSet(W) /\ Cardinality(W) \in Nat
          /\ IsFiniteSet(fresh) /\ Cardinality(fresh) \in Nat
      BY ONLY <3>2, NodeSets
    <3>4. Cardinality(W \cup fresh) = Cardinality(W) + Cardinality(fresh) - Cardinality(W \cap fresh)
      BY ONLY <3>3, FS_Union
    <3>5. Cardinality(W \cap fresh) = 0
      BY ONLY <3>2, FS_EmptySet
    <3>6. ref_count[n] = Cardinality(W)
      BY <1>1 DEF CountInv
    <3>7. ref_count'[n] = ref_count[n] + Cardinality(fresh)
      BY <1>1, <1>5 DEF WalkTypes
    <3> HIDE DEF W, fresh
    <3>8. ref_count'[n] = Cardinality(W \cup fresh)
      <4>1. PICK w \in Nat, f \in Nat, u \in Nat : 
              w = Cardinality(W) /\ f = Cardinality(fresh) /\ u = Cardinality(W \cap fresh)
        BY ONLY <3>3, <3>5
      <4>2. Cardinality(W \cup fresh) = w + f - u /\ u = 0 /\ ref_count'[n] = w + f
        BY ONLY <4>1, <3>4, <3>5, <3>6, <3>7
      <4>3. QED
        BY ONLY <4>1, <4>2
    <3>9. QED
      BY ONLY <3>1, <3>8
  <2>5. QED
    BY <2>2, <2>3, <2>4
<1>6. QED
  BY <1>3, <1>4, <1>5

\* A task that ends is postprocessed, one way or another.
LEMMA ConcludePosts ==
  ASSUME WalkTypes, NEW t \in Task, NEW ok, Conclude(t, ok)
  PROVE  /\ UNCHANGED <<graph, mode, waiting_s_e, implicit, top_targets_left, current_top>>
         /\ \E st \in [Nodes -> NodeStates], pend \in SUBSET Nodes, ts \in SUBSET Nodes :
              PostProcess(st, pend, ts)
<1> DEFINE ts == Targets(t)
           doomed == WillNotBuild(ts, Unfailed)
           left == pending_children \ ParentsOf(doomed)
<1>1. ts \in SUBSET Nodes /\ {current_top} \in SUBSET Nodes
  BY TaskFields DEF WalkTypes
<1>2. Executed(ts) \/ FailContinue(ts) \/ FailStop(ts)
  BY DEF Conclude, DoFailed
<1>3. MarkFailed(doomed) \in [Nodes -> NodeStates] /\ left \in SUBSET Nodes
  <2> HIDE DEF doomed
  <2>1. QED
    BY States DEF MarkFailed, WalkTypes
<1>4. CASE Executed(ts)
  <2> DEFINE built == {n \in ts : state[n] = executing}
             st == [n \in Nodes |-> IF n \in built THEN executed
                                    ELSE IF n \in SideEffects(built) THEN no_state
                                    ELSE state[n]]
  <2>1. PostProcess(st, pending_children, ts)
    BY <1>4 DEF Executed
  <2>2. st \in [Nodes -> NodeStates] /\ pending_children \in SUBSET Nodes
    BY States DEF WalkTypes
  <2> HIDE DEF st, ts
  <2>3. QED
    BY <1>1, <2>1, <2>2 DEF Conclude
<1>5. CASE FailContinue(ts)
  <2>1. PostProcess(MarkFailed(doomed), left, ts)
    BY <1>5 DEF FailContinue
  <2> HIDE DEF left, doomed, ts
  <2>2. QED
    BY <1>1, <1>3, <2>1 DEF Conclude
<1>6. CASE FailStop(ts)
  <2>1. PostProcess(MarkFailed(doomed), left, {current_top})
    BY <1>6 DEF FailStop
  <2> HIDE DEF left, doomed, ts
  <2>2. QED
    BY <1>1, <1>3, <2>1 DEF Conclude
<1>7. QED
  BY <1>2, <1>4, <1>5, <1>6

LEMMA CountInit == Init => CountInv
<1> SUFFICES ASSUME Init PROVE CountInv
  OBVIOUS
<1>1. /\ ref_count = [n \in Nodes |-> 0] /\ waiting_parents = [n \in Nodes |-> {}]
      /\ implicit = [n \in Nodes |-> {}]
  BY DEF Init, TaskmasterInit
<1>2. ASSUME NEW p \in Nodes PROVE WaitingFor(p) = {}
  BY <1>1 DEF WaitingFor
<1>3. Cardinality({}) = 0
  BY FS_EmptySet
<1>4. QED
  BY <1>1, <1>2, <1>3 DEF CountInv

\* Every step keeps the counts right.
LEMMA CountStep ==
  ASSUME \A g \in Graphs : NothingFromSideEffects(g)
  PROVE  Types /\ CountInv /\ [Next]_vars => CountInv'
<1> SUFFICES ASSUME Types, CountInv, [Next]_vars PROVE CountInv'
  OBVIOUS
<1>1. /\ graph \in Graphs /\ WalkTypes /\ JobTypes /\ NothingFromSideEffects(graph)
  BY DEF Types, JobTypes
<1>2. ASSUME UNCHANGED <<graph, implicit, waiting_parents, ref_count>> PROVE CountInv'
  BY <1>2 DEF CountInv, WaitingFor
<1>3. ASSUME NEW n \in Nodes, Scan(n), UNCHANGED <<graph, waiting_parents, ref_count>>
      PROVE  CountInv'
  <2>1. \A m \in Nodes : implicit'[m] \subseteq Plains(graph)
    BY <1>1, <1>3, PlainScan DEF CountInv
  <2>2. QED
    BY <1>3, <2>1 DEF CountInv, WaitingFor
<1>4. ASSUME NEW t \in Task, NEW ok, Conclude(t, ok) PROVE CountInv'
  <2>1. \E st \in [Nodes -> NodeStates], pend \in SUBSET Nodes, ts \in SUBSET Nodes :
          PostProcess(st, pend, ts)
    BY <1>1, <1>4, ConcludePosts
  <2>2. PICK st \in [Nodes -> NodeStates], pend \in SUBSET Nodes, ts \in SUBSET Nodes :
          PostProcess(st, pend, ts)
    BY <2>1
  <2>3. /\ \A c \in Nodes : waiting_parents'[c] # {} => c \in Plains(graph)
        /\ \A p \in Nodes :
             ref_count'[p] = Cardinality({c \in Nodes : p \in waiting_parents'[c]})
    BY <1>1, <2>2, PostProcessCounts
  <2>4. UNCHANGED <<graph, implicit>>
    BY <1>4 DEF Conclude
  <2>5. QED
    BY <2>3, <2>4 DEF CountInv, WaitingFor
<1>5. CASE LookForTask
  <2>1. HasCandidate => Candidate \in Nodes
    BY <1>1, CandidateTypes
  <2>2. UNCHANGED graph
    BY <1>5 DEF LookForTask, FindNextReadyNode
  <2>3. CASE AlreadyHandled
    BY <1>2, <2>2, <2>3 DEF AlreadyHandled, nodeVars, scanVars
  <2>4. CASE WaitForChildren
    <3>1. /\ \A c \in Nodes : waiting_parents'[c] # {} => c \in Plains(graph)
          /\ \A p \in Nodes :
               ref_count'[p] = Cardinality({c \in Nodes : p \in waiting_parents'[c]})
      BY <1>1, <2>4, WaitCounts
    <3>2. Candidate \in Nodes /\ Scan(Candidate)
      BY <2>1, <2>4 DEF WaitForChildren, Considered
    <3>3. \A m \in Nodes : implicit'[m] \subseteq Plains(graph)
      BY <1>1, <3>2, PlainScan DEF CountInv
    <3>4. QED
      BY <2>2, <3>1, <3>3 DEF CountInv, WaitingFor
  <2>5. CASE WaitForSideEffect \/ ScanRaises \/ Evaluate
    <3>1. /\ Candidate \in Nodes /\ Scan(Candidate)
          /\ UNCHANGED <<waiting_parents, ref_count>>
      BY <2>1, <2>5 DEF WaitForSideEffect, ScanRaises, Evaluate, ChildrenFinished, Considered
    <3>2. QED
      BY <1>3, <2>2, <3>1
  <2>6. QED
    BY <1>5, <2>3, <2>4, <2>5 DEF LookForTask, FindNextReadyNode
<1>6. CASE NoMoreTasks
  BY <1>2, <1>6 DEF NoMoreTasks, NoNextCandidate, scanVars
<1>7. CASE PrepareFails
  <2>1. pc = "start" /\ \E ok \in BOOLEAN : Conclude(task[1], ok)
    BY <1>7 DEF PrepareFails
  <2>2. task[1] \in Task
    BY <1>1, <2>1, AtHand DEF JobTypes
  <2>3. QED
    BY <1>4, <2>1, <2>2
<1>8. CASE NothingToDo
  <2>1. pc = "start" /\ \E ok \in BOOLEAN : Conclude(task[1], ok)
    BY <1>8 DEF NothingToDo
  <2>2. task[1] \in Task
    BY <1>1, <2>1, AtHand DEF JobTypes
  <2>3. QED
    BY <1>4, <2>1, <2>2
<1>9. CASE TakeResult
  BY <1>1, <1>4, <1>9, AtHand DEF TakeResult
<1>10. CASE Dispatch
  BY <1>2, <1>10 DEF Dispatch, nodeVars
<1>11. CASE TakeTask \/ Execute \/ Interrupt \/ UNCHANGED vars
  BY <1>2, <1>11 DEF TakeTask, Execute, RetrieveFromCache, RetrievedBuilt, Build, BuildFails,
                     Interrupt, vars, tmVars, nodeVars, scanVars
<1>12. QED
  BY <1>5, <1>6, <1>7, <1>8, <1>9, <1>10, <1>11 DEF Next, Main, Ended

\* RefCountExact: the count of a node is how many nodes it waits for
\* (Taskmaster.py:671), if no file is made from a side effect.
THEOREM RefCountExactAlways ==
  ASSUME \A g \in Graphs : NothingFromSideEffects(g)
  PROVE  Spec => []RefCountExact
<1>1. CountInv => RefCountExact
  BY DEF CountInv, RefCountExact, WaitingFor
<1>2. Types /\ CountInv /\ [Next]_vars => CountInv'
  BY CountStep
<1>3. QED
  BY TypesInit, TypesStep, CountInit, <1>1, <1>2, PTL DEF Spec

-----------------------------------------------------------------------------
(***************************************************************************)
(* Where the tasks are.                                                    *)
(***************************************************************************)

\* The tasks of results, and that no task is there twice.
TasksOf(q) == {q[i][1] : i \in DOMAIN q}
NoneTwice(q) == \A i, j \in DOMAIN q : q[i][1] = q[j][1] => i = j

\* The tasks that were dispatched and whose result was not taken.
Working == {r.task : r \in running}
Flying == ToSet(requestQueue) \cup Working \cup TasksOf(resultsQueue)

\* Each of them is in one place; there is no cache, so a worker makes all the
\* targets of its task at once.
PlaceInv ==
  /\ IsInjective(requestQueue) /\ NoneTwice(resultsQueue)
  /\ \A r \in running : r = [task |-> r.task, at |-> 1, retrieved |-> FALSE]
  /\ ToSet(requestQueue) \cap (Working \cup TasksOf(resultsQueue)) = {}
  /\ Working \cap TasksOf(resultsQueue) = {}

\* A result is posted.
LEMMA PostedTasks ==
  ASSUME NEW q \in Seq(Task \X BOOLEAN), NEW t \in Task, NEW ok \in BOOLEAN
  PROVE  /\ TasksOf(Append(q, <<t, ok>>)) = TasksOf(q) \cup {t}
         /\ NoneTwice(q) /\ t \notin TasksOf(q) => NoneTwice(Append(q, <<t, ok>>))
<1> DEFINE p == Append(q, <<t, ok>>)
<1>1. /\ DOMAIN q = 1 .. Len(q) /\ DOMAIN p = 1 .. Len(q) + 1 /\ Len(q) \in Nat
      /\ \A i \in 1 .. Len(q) : p[i] = q[i]
      /\ p[Len(q) + 1] = <<t, ok>>
  BY <<t, ok>> \in Task \X BOOLEAN
<1> HIDE DEF p
<1>2. TasksOf(p) = TasksOf(q) \cup {t}
  <2>1. \A i \in DOMAIN p : p[i][1] \in TasksOf(q) \cup {t}
    BY <1>1 DEF TasksOf
  <2>2. \A i \in DOMAIN q : i \in DOMAIN p /\ p[i][1] = q[i][1]
    BY <1>1
  <2>3. Len(q) + 1 \in DOMAIN p /\ p[Len(q) + 1][1] = t
    BY <1>1
  <2>4. QED
    BY <2>1, <2>2, <2>3 DEF TasksOf
<1>3. ASSUME NoneTwice(q), t \notin TasksOf(q) PROVE NoneTwice(p)
  <2>1. \A i \in 1 .. Len(q) : q[i][1] # t
    BY <1>1, <1>3 DEF TasksOf
  <2>2. ASSUME NEW i \in DOMAIN p, NEW j \in DOMAIN p, p[i][1] = p[j][1] PROVE i = j
    <3>1. i \in 1 .. Len(q) \/ i = Len(q) + 1
      BY <1>1
    <3>2. j \in 1 .. Len(q) \/ j = Len(q) + 1
      BY <1>1
    <3>3. QED
      BY <1>1, <1>3, <2>1, <2>2, <3>1, <3>2 DEF NoneTwice
  <2>3. QED
    BY <2>2 DEF NoneTwice
<1>4. QED
  BY <1>2, <1>3 DEF p

\* The first result is taken.
LEMMA TakenTask ==
  ASSUME NEW q \in Seq(Task \X BOOLEAN), q # << >>, NoneTwice(q)
  PROVE  /\ q[1][1] \in TasksOf(q) /\ NoneTwice(Tail(q))
         /\ TasksOf(Tail(q)) = TasksOf(q) \ {q[1][1]}
<1> DEFINE p == Tail(q)
<1>1. /\ DOMAIN q = 1 .. Len(q) /\ DOMAIN p = 1 .. Len(q) - 1 /\ Len(q) \in Nat \ {0}
      /\ \A i \in 1 .. Len(q) - 1 : p[i] = q[i + 1]
  OBVIOUS
<1> HIDE DEF p
<1>2. \A i \in DOMAIN p : i + 1 \in DOMAIN q /\ i + 1 # 1 /\ p[i] = q[i + 1]
  BY <1>1
<1>3. 1 \in DOMAIN q
  BY <1>1
<1>4. NoneTwice(p)
  <2>1. ASSUME NEW i \in DOMAIN p, NEW j \in DOMAIN p, p[i][1] = p[j][1] PROVE i = j
    <3>1. i + 1 = j + 1
      BY <1>2, <2>1 DEF NoneTwice
    <3>2. i \in Int /\ j \in Int
      BY <1>1
    <3>3. QED
      BY <3>1, <3>2
  <2>2. QED
    BY <2>1 DEF NoneTwice
<1>5. TasksOf(p) \subseteq TasksOf(q) \ {q[1][1]}
  <2>1. ASSUME NEW i \in DOMAIN p PROVE p[i][1] \in TasksOf(q) \ {q[1][1]}
    BY <1>2, <1>3 DEF TasksOf, NoneTwice
  <2>2. QED
    BY <2>1 DEF TasksOf
<1>6. TasksOf(q) \ {q[1][1]} \subseteq TasksOf(p)
  <2>1. ASSUME NEW i \in DOMAIN q, q[i][1] # q[1][1] PROVE q[i][1] \in TasksOf(p)
    <3>1. i # 1 /\ i - 1 \in DOMAIN p /\ p[i - 1] = q[i]
      BY <1>1, <2>1
    <3>2. QED
      BY <3>1 DEF TasksOf
  <2>2. QED
    BY <2>1 DEF TasksOf
<1>7. QED
  BY <1>3, <1>4, <1>5, <1>6 DEF p, TasksOf

\* The main thread dispatches a task and takes a result.
LEMMA MainPlaces ==
  ASSUME JobTypes, PlaceInv
  PROVE  /\ Dispatch /\ task[1] \notin Flying => PlaceInv' /\ Flying' = Flying \cup {task[1]}
         /\ TakeResult => PlaceInv' /\ Flying' = Flying \ {resultsQueue[1][1]}
         /\ UNCHANGED <<requestQueue, running, resultsQueue>> => PlaceInv' /\ Flying' = Flying
<1>1. requestQueue \in Seq(Task) /\ resultsQueue \in Seq(Task \X BOOLEAN)
  BY DEF JobTypes
<1>2. ASSUME UNCHANGED <<requestQueue, running, resultsQueue>>
      PROVE  PlaceInv' /\ Flying' = Flying
  BY <1>2 DEF PlaceInv, Flying, Working
<1>3. ASSUME Dispatch, task[1] \notin Flying
      PROVE  PlaceInv' /\ Flying' = Flying \cup {task[1]}
  <2>1. task[1] \in Task
    BY <1>3, AtHand DEF Dispatch, JobTypes
  <2>2. requestQueue' = Append(requestQueue, task[1]) /\ UNCHANGED <<running, resultsQueue>>
    BY <1>3 DEF Dispatch
  <2>3. task[1] \notin ToSet(requestQueue)
    BY <1>3 DEF Flying
  <2>4. /\ ToSet(requestQueue') = ToSet(requestQueue) \cup {task[1]}
        /\ IsInjective(requestQueue')
    BY ONLY <1>1, <2>1, <2>2, <2>3, AppendElements, PlaceInv DEF PlaceInv
  <2>5. Working' = Working
    BY <2>2 DEF Working
  <2>6. TasksOf(resultsQueue') = TasksOf(resultsQueue) /\ NoneTwice(resultsQueue')
    BY <2>2 DEF PlaceInv
  <2>7. \A r \in running' : r = [task |-> r.task, at |-> 1, retrieved |-> FALSE]
    BY <2>2 DEF PlaceInv
  <2>8. QED
    BY <1>3, <2>4, <2>5, <2>6, <2>7 DEF PlaceInv, Flying
<1>4. ASSUME TakeResult PROVE PlaceInv' /\ Flying' = Flying \ {resultsQueue[1][1]}
  <2>1. resultsQueue # << >> /\ resultsQueue' = Tail(resultsQueue) /\ UNCHANGED <<requestQueue, running>>
    BY <1>4 DEF TakeResult
  <2>2. /\ resultsQueue[1][1] \in TasksOf(resultsQueue) /\ NoneTwice(resultsQueue')
        /\ TasksOf(resultsQueue') = TasksOf(resultsQueue) \ {resultsQueue[1][1]}
    BY ONLY <1>1, <2>1, TakenTask, PlaceInv DEF PlaceInv
  <2>3. Working' = Working /\ ToSet(requestQueue') = ToSet(requestQueue)
    BY <2>1 DEF Working
  <2>4. \A r \in running' : r = [task |-> r.task, at |-> 1, retrieved |-> FALSE]
    BY <2>1 DEF PlaceInv
  <2>5. QED
    BY <2>1, <2>2, <2>3, <2>4 DEF PlaceInv, Flying
<1>5. QED
  BY <1>2, <1>3, <1>4

\* A worker takes a task and ends it.
LEMMA WorkerPlaces ==
  ASSUME JobTypes, PlaceInv, graph.cached = {}, TakeTask \/ Execute
  PROVE  PlaceInv' /\ Flying' = Flying
<1>1. requestQueue \in Seq(Task) /\ resultsQueue \in Seq(Task \X BOOLEAN)
  BY DEF JobTypes
<1>2. ASSUME NEW t \in Working \cup ToSet(requestQueue), NEW ok \in BOOLEAN, Post(t, ok),
             t \in Task
      PROVE  /\ TasksOf(resultsQueue') = TasksOf(resultsQueue) \cup {t}
             /\ NoneTwice(resultsQueue')
  <2>1. t \notin TasksOf(resultsQueue) /\ NoneTwice(resultsQueue)
    BY DEF PlaceInv
  <2>2. QED
    BY ONLY <1>1, <1>2, <2>1, PostedTasks DEF Post
<1>3. CASE TakeTask
  <2> DEFINE t == requestQueue[1]
             new == [task |-> t, at |-> 1, retrieved |-> FALSE]
  <2>1. requestQueue # << >> /\ requestQueue' = Tail(requestQueue)
    BY <1>3 DEF TakeTask
  <2>2. t = Head(requestQueue) /\ t \in Task
    BY <1>1, <2>1
  <2>3. /\ t \in ToSet(requestQueue) /\ IsInjective(requestQueue')
        /\ ToSet(requestQueue') = ToSet(requestQueue) \ {t}
    BY ONLY <1>1, <2>1, <2>2, TailElements, PlaceInv DEF PlaceInv
  <2>4. \/ Post(t, FALSE) /\ UNCHANGED running
        \/ running' = running \cup {new} /\ UNCHANGED resultsQueue
    BY <1>3 DEF TakeTask
  <2> HIDE DEF t
  <2>5. CASE Post(t, FALSE) /\ UNCHANGED running
    <3>1. TasksOf(resultsQueue') = TasksOf(resultsQueue) \cup {t} /\ NoneTwice(resultsQueue')
      BY <1>2, <2>2, <2>3, <2>5
    <3>2. Working' = Working
      BY <2>5 DEF Working
    <3>3. \A r \in running' : r = [task |-> r.task, at |-> 1, retrieved |-> FALSE]
      BY <2>5 DEF PlaceInv
    <3>4. QED
      BY <2>3, <3>1, <3>2, <3>3 DEF PlaceInv, Flying
  <2>6. CASE running' = running \cup {new} /\ UNCHANGED resultsQueue
    <3>1. Working' = Working \cup {t}
      <4>1. new.task = t
        OBVIOUS
      <4> HIDE DEF new
      <4>2. QED
        BY <2>6, <4>1 DEF Working
    <3>2. TasksOf(resultsQueue') = TasksOf(resultsQueue) /\ NoneTwice(resultsQueue')
      BY <2>6 DEF PlaceInv
    <3>3. \A r \in running' : r = [task |-> r.task, at |-> 1, retrieved |-> FALSE]
      BY <2>6 DEF PlaceInv
    <3>4. QED
      BY <2>3, <3>1, <3>2, <3>3 DEF PlaceInv, Flying
  <2>7. QED
    BY <2>4, <2>5, <2>6
<1>4. ASSUME NEW r \in running, Build(r) \/ BuildFails(r) PROVE PlaceInv' /\ Flying' = Flying
  <2>1. r.task \in Task /\ r.task \in Working
    BY AtHand DEF Working
  <2>2. /\ running' = running \ {r} /\ UNCHANGED requestQueue
        /\ \E ok \in BOOLEAN : Post(r.task, ok)
    BY <1>4 DEF Build, BuildFails, Replace
  <2>3. TasksOf(resultsQueue') = TasksOf(resultsQueue) \cup {r.task} /\ NoneTwice(resultsQueue')
    BY <1>2, <2>1, <2>2
  <2>4. \A q \in running : q.task = r.task => q = r
    BY DEF PlaceInv
  <2>5. Working' = Working \ {r.task}
    BY <2>2, <2>4 DEF Working
  <2>6. \A q \in running' : q = [task |-> q.task, at |-> 1, retrieved |-> FALSE]
    BY <2>2 DEF PlaceInv
  <2>7. IsInjective(requestQueue') /\ ToSet(requestQueue') = ToSet(requestQueue)
    BY <2>2 DEF PlaceInv
  <2>8. QED
    BY <2>1, <2>3, <2>5, <2>6, <2>7 DEF PlaceInv, Flying
<1>5. ASSUME NEW r \in running PROVE ~RetrieveFromCache(r) /\ ~RetrievedBuilt(r)
  <2>1. r.retrieved = FALSE
    BY DEF PlaceInv
  <2>2. QED
    BY <2>1 DEF RetrieveFromCache, RetrievedBuilt
<1>6. QED
  BY <1>3, <1>4, <1>5 DEF Execute

-----------------------------------------------------------------------------
(***************************************************************************)
(* Graphs whose builds are safe.  Nothing comes from a cache; nothing is   *)
(* made from a side effect, and none is asked for or has a builder; only   *)
(* what has a builder, and can be scanned, has side effects.  The targets  *)
(* of an action are made from the same files, with the same side effects,  *)
(* and what they include was not generated, unless it includes nothing.    *)
(***************************************************************************)
\* Nothing else is made together with n.
Alone(g, n) == ToSet(g.targets[n]) = {n}

\* IncludesThrough of a graph.
ThroughOf(g, n, readable) ==
  LET Visible(f) == IF f \in readable THEN g.includes[f] ELSE {}
      Closed(D) == \A f \in ToSet(g.sources[n]) \cup D : Visible(f) \subseteq D
      included == UNION {g.includes[f] : f \in Nodes}
  IN {d \in included : \A D \in SUBSET included : Closed(D) => d \in D}

\* What a node will be found to include when everything is there, and all it needs
\* then.
Inc(g, n) == IF n \in g.derived THEN ThroughOf(g, n, g.derived \cup g.disk) ELSE {}
Deps(g, n) == ToSet(g.sources[n]) \cup ToSet(g.depends[n]) \cup Inc(g, n)

Ordinary(g) ==
  /\ NothingFromSideEffects(g)
  /\ g.cached = {}
  /\ g.derived \cup ToSet(g.top) \subseteq Plains(g)
  /\ \A n \in Nodes :
       /\ n \notin g.derived => g.targets[n] = <<n>>
       /\ n \notin g.derived \/ n \in g.unscannable => g.side_effects[n] = {}
       /\ \A m \in ToSet(g.targets[n]) :
            /\ g.sources[m] = g.sources[n] /\ g.depends[m] = g.depends[n]
            /\ g.side_effects[m] = g.side_effects[n]
       /\ ~Alone(g, n) =>
            \A f \in (ToSet(g.sources[n]) \cup Inc(g, n)) \cap g.derived : g.includes[f] = {}

\* What a task writes.
OutOf(g, t) == Targets(t) \cup SideOf(g, Targets(t))

LEMMA ThroughSame == \A n, readable : IncludesThrough(n, readable) = ThroughOf(graph, n, readable)
BY DEF IncludesThrough, ThroughOf

\* IncludesThrough is the least set that is closed under inclusion; only which of
\* its own files, and of the sources, can be read matters.
LEMMA ThroughLeast ==
  ASSUME NEW g \in Graphs, NEW n \in Nodes, NEW R
  PROVE  /\ ThroughOf(g, n, R) \subseteq UNION {g.includes[f] : f \in Nodes}
         /\ \A f \in ToSet(g.sources[n]) \cup ThroughOf(g, n, R) :
              f \in R => g.includes[f] \subseteq ThroughOf(g, n, R)
         /\ \A D \in SUBSET UNION {g.includes[f] : f \in Nodes} :
              (\A f \in ToSet(g.sources[n]) \cup D : f \in R => g.includes[f] \subseteq D)
                => ThroughOf(g, n, R) \subseteq D
<1> DEFINE included == UNION {g.includes[f] : f \in Nodes}
           Closed(D) == \A f \in ToSet(g.sources[n]) \cup D : f \in R => g.includes[f] \subseteq D
           T == ThroughOf(g, n, R)
<1>1. T = {d \in included : \A D \in SUBSET included : Closed(D) => d \in D}
  BY DEF ThroughOf
<1>2. ToSet(g.sources[n]) \subseteq Nodes /\ included \subseteq Nodes
      /\ \A f \in Nodes : g.includes[f] \subseteq included
  <2>1. g.sources[n] \in Seq(Nodes) /\ g.includes \in [Nodes -> SUBSET Nodes]
    BY GraphsAssumption DEF Graph
  <2>2. ToSet(g.sources[n]) \subseteq Nodes
    BY ONLY <2>1, Membership
  <2>3. QED
    BY <2>1, <2>2
<1> HIDE DEF included, T
<1>3. ASSUME NEW D \in SUBSET included, Closed(D) PROVE T \subseteq D
  BY <1>1, <1>3
<1>4. ASSUME NEW f \in ToSet(g.sources[n]) \cup T, f \in R PROVE g.includes[f] \subseteq T
  <2>1. f \in Nodes /\ g.includes[f] \subseteq included
    BY <1>1, <1>2
  <2>2. ASSUME NEW d \in g.includes[f], NEW D \in SUBSET included, Closed(D) PROVE d \in D
    <3>1. f \in ToSet(g.sources[n]) \cup D
      BY <1>3, <2>2
    <3>2. QED
      BY <1>4, <2>2, <3>1
  <2>3. QED
    BY <1>1, <2>1, <2>2
<1>5. T \subseteq included
  BY <1>1
<1>6. QED
  BY <1>3, <1>4, <1>5 DEF T, included

\* More readable files, more includes.
LEMMA ThroughGrows ==
  ASSUME NEW g \in Graphs, NEW n \in Nodes, NEW R, NEW S,
         \A f \in ToSet(g.sources[n]) \cup ThroughOf(g, n, S) : f \in R => f \in S \/ g.includes[f] = {}
  PROVE  ThroughOf(g, n, R) \subseteq ThroughOf(g, n, S)
<1> DEFINE D == ThroughOf(g, n, S)
<1>1. /\ D \in SUBSET UNION {g.includes[f] : f \in Nodes}
      /\ \A f \in ToSet(g.sources[n]) \cup D : f \in S => g.includes[f] \subseteq D
  BY ThroughLeast
<1> HIDE DEF D
<1>2. \A f \in ToSet(g.sources[n]) \cup D : f \in R => g.includes[f] \subseteq D
  BY <1>1 DEF D
<1>3. QED
  BY <1>1, <1>2, ThroughLeast DEF D

LEMMA ThroughReadable ==
  ASSUME NEW g \in Graphs, NEW n \in Nodes, NEW R, NEW S,
         \A f \in ToSet(g.sources[n]) \cup ThroughOf(g, n, R) :
           g.includes[f] = {} \/ (f \in R <=> f \in S)
  PROVE  ThroughOf(g, n, R) = ThroughOf(g, n, S)
<1>1. ThroughOf(g, n, S) \subseteq ThroughOf(g, n, R)
  BY ThroughGrows
<1>2. ThroughOf(g, n, R) \subseteq ThroughOf(g, n, S)
  BY <1>1, ThroughGrows
<1>3. QED
  BY <1>1, <1>2

\* The targets of an action have everything in common.
LEMMA Mates ==
  ASSUME NEW g \in Graphs, Ordinary(g), NEW n \in Nodes
  PROVE  /\ n \in ToSet(g.targets[n]) /\ ToSet(g.targets[n]) \in SUBSET Nodes
         /\ \A m \in ToSet(g.targets[n]) :
              /\ g.targets[m] = g.targets[n] /\ Deps(g, m) = Deps(g, n) /\ Inc(g, m) = Inc(g, n)
              /\ m \in g.derived <=> n \in g.derived
         /\ n \in g.derived => ToSet(g.targets[n]) \subseteq g.derived
         /\ n \in Plains(g) => ToSet(g.targets[n]) \subseteq Plains(g)
         /\ n \notin Plains(g) => ToSet(g.targets[n]) = {n}
         /\ SideOf(g, ToSet(g.targets[n])) = g.side_effects[n]
<1> DEFINE ts == ToSet(g.targets[n])
<1>1. g.targets \in [Nodes -> Seq(Nodes)]
  BY GraphsAssumption DEF Graph
<1>2. ts \in SUBSET Nodes
  <2>1. g.targets[n] \in Seq(Nodes)
    BY <1>1
  <2>2. QED
    BY ONLY <2>1, Membership
<1>3. n \in ts /\ \A m \in ts : g.targets[m] = g.targets[n]
  BY GraphsAssumption
<1>4. n \notin g.derived => ts = {n}
  <2>1. ASSUME n \notin g.derived PROVE g.targets[n] = <<n>>
    BY <2>1 DEF Ordinary
  <2>2. ToSet(<<n>>) = {n}
    BY DEF ToSet
  <2>3. QED
    BY <2>1, <2>2
<1>5. ASSUME n \in g.derived PROVE ts \subseteq g.derived
  <2>1. ASSUME NEW m \in ts, m \notin g.derived PROVE FALSE
    <3>1. g.targets[m] = <<m>>
      BY <1>2, <2>1 DEF Ordinary
    <3>2. ts = {m}
      BY <1>3, <2>1, <3>1 DEF ToSet
    <3>3. QED
      BY <1>3, <1>5, <2>1, <3>2
  <2>2. QED
    BY <2>1
<1>6. \A m \in ts : /\ g.sources[m] = g.sources[n] /\ g.depends[m] = g.depends[n]
                    /\ g.side_effects[m] = g.side_effects[n]
  BY DEF Ordinary
<1>7. g.derived \subseteq Plains(g)
  BY DEF Ordinary
<1> HIDE DEF ts
<1>8. ASSUME NEW m \in ts
      PROVE  /\ Deps(g, m) = Deps(g, n) /\ Inc(g, m) = Inc(g, n)
             /\ m \in g.derived <=> n \in g.derived
  <2>1. m \in g.derived <=> n \in g.derived
    BY <1>4, <1>5, <1>3
  <2>2. ThroughOf(g, m, g.derived \cup g.disk) = ThroughOf(g, n, g.derived \cup g.disk)
    BY <1>6 DEF ThroughOf
  <2>3. QED
    BY <1>6, <2>1, <2>2 DEF Deps, Inc
<1>9. SideOf(g, ts) = g.side_effects[n]
  BY <1>3, <1>6 DEF SideOf
<1>10. n \in Plains(g) => ts \subseteq Plains(g)
  BY <1>4, <1>5, <1>7
<1>11. n \notin Plains(g) => ts = {n}
  BY <1>4, <1>7
<1>12. QED
  BY <1>2, <1>3, <1>5, <1>8, <1>9, <1>10, <1>11 DEF ts

\* What is needed, or asked for, is no side effect.
LEMMA PlainDeps ==
  ASSUME NEW g \in Graphs, Ordinary(g)
  PROVE  /\ \A n \in Nodes : Deps(g, n) \subseteq Plains(g)
         /\ \A n, R : ThroughOf(g, n, R) \subseteq Plains(g)
         /\ ToSet(g.top) \subseteq Plains(g) /\ g.derived \subseteq Plains(g)
         /\ \A S \in SUBSET Nodes : /\ SideOf(g, S) \in SUBSET Nodes
                                    /\ SideOf(g, S) \cap Plains(g) = {}
<1>1. ASSUME NEW n \in Nodes PROVE Deps(g, n) \subseteq Plains(g)
  <2>1. /\ ToSet(g.sources[n]) \cup ToSet(g.depends[n]) \subseteq Plains(g)
        /\ \A f \in Nodes : g.includes[f] \subseteq Plains(g)
    BY DEF Ordinary, NothingFromSideEffects
  <2>2. Inc(g, n) \subseteq UNION {g.includes[f] : f \in Nodes}
    BY DEF Inc, ThroughOf
  <2>3. QED
    BY <2>1, <2>2 DEF Deps
<1>2. g.side_effects \in [Nodes -> SUBSET Nodes]
  BY GraphsAssumption DEF Graph
<1>3. ASSUME NEW S \in SUBSET Nodes
      PROVE  SideOf(g, S) \in SUBSET Nodes /\ SideOf(g, S) \cap Plains(g) = {}
  BY <1>2 DEF SideOf, Plains
<1>4. \A n, R : ThroughOf(g, n, R) \subseteq Plains(g)
  BY DEF Ordinary, NothingFromSideEffects, ThroughOf
<1>5. QED
  BY <1>1, <1>3, <1>4 DEF Ordinary

\* What cannot be scanned is made alone.
LEMMA Unscanned ==
  ASSUME NEW g \in Graphs, NEW n \in g.unscannable
  PROVE  n \in g.derived /\ n \in Nodes /\ ToSet(g.targets[n]) = {n} /\ Alone(g, n)
<1>1. n \in g.derived /\ n \in Nodes /\ g.targets[n] = <<n>>
  BY GraphsAssumption DEF Graph
<1>2. ToSet(<<n>>) = {n}
  BY DEF ToSet
<1>3. QED
  BY <1>1, <1>2 DEF Alone

LEMMA SideSame == \A ts : SideEffects(ts) = SideOf(graph, ts)
BY DEF SideEffects, SideOf

-----------------------------------------------------------------------------
(***************************************************************************)
(* The invariants of a build of such a graph.                              *)
(***************************************************************************)
SettledStates == {up_to_date, executed}
ActiveStates == {executing, up_to_date, executed}

\* What a node is made from: what it was given, what it was found to include and
\* what it would be found to include now, with the files d on disk.
UsesOf(g, d, i, n) ==
  ToSet(g.sources[n]) \cup ToSet(g.depends[n]) \cup i \cup
    (IF n \in g.derived THEN ThroughOf(g, n, d) ELSE {})
Uses(n) == UsesOf(graph, on_disk, implicit[n], n)

\* All of it is settled, and none of it was overlooked.
DoneWith(n) ==
  /\ \A c \in Uses(n) : state[c] \in SettledStates
  /\ n \in scanned => ThroughOf(graph, n, on_disk) \subseteq implicit[n]

\* Scans find only what there is to find; for targets made together, all of it.
ImplInv ==
  \A n \in Nodes : /\ implicit[n] \subseteq Inc(graph, n)
                   /\ n \in scanned /\ ~Alone(graph, n) => implicit[n] = Inc(graph, n)

\* What nothing makes stays on disk, or away from it; what cannot be scanned is
\* never made.
FileInv ==
  \A n \in Nodes \ ((graph.derived \ graph.unscannable) \cup SideOf(graph, Nodes)) :
    n \in on_disk <=> n \in graph.disk

\* What was made is there.
DiskInv ==
  FileInv /\ (mode # "ignore" => \A n \in graph.derived : state[n] \in SettledStates => n \in on_disk)

\* A file remembered as absent is there only while, or because, it is made anew.
AbsentInv ==
  \A f \in Plains(graph) \cap absent \cap on_disk :
    f \in Readable /\ state[f] \in {executing, failed}

\* Why a node that was scanned, and knows of f, need not know what f includes:
\* f is not there, and that is final; or f will never be there; or its task will
\* have the node scanned again.
Excused(n, f) ==
  \/ (f \notin Readable \/ state[f] \in SettledStates) /\ f \notin on_disk
  \/ state[f] = failed
  \/ n \in waiting_parents[f] /\ \/ state[f] = executing
                                 \/ state[f] \in {no_state, pending} /\ f \notin on_disk

ScanInv ==
  ~stopped => \A n \in scanned \cap graph.derived :
    Alone(graph, n) /\ state[n] \in {no_state, pending} =>
      \A f \in ToSet(graph.sources[n]) \cup implicit[n] :
        graph.includes[f] \subseteq implicit[n] \/ Excused(n, f)

\* What is known of the files.
KnowInv == ImplInv /\ DiskInv /\ AbsentInv /\ ScanInv

\* No side effect is ever looked at.
CandInv ==
  /\ ToSet(candidates) \cup ToSet(top_targets_left) \cup {current_top} \subseteq Plains(graph)
  /\ \A s \in Nodes : waiting_s_e[s] \subseteq Plains(graph)

\* Scanning a node raises when it is looked at for the last time.
RaisedInv == \A n \in graph.unscannable \cap scanned : state[n] \notin {no_state, pending}

\* A node waits for what it is made from, until the task that settles it is
\* postprocessed; meanwhile it is pending, unless it was given up.  (With -i, a
\* header whose action failed may be settled and gone, and with it the reason
\* to wait for what it included.)
WaitInv ==
  \A c \in Nodes : \A p \in waiting_parents[c] :
    /\ c \in Deps(graph, p) /\ p \in Plains(graph) /\ p \notin graph.unscannable
    /\ mode # "ignore" => state[p] \in {pending, failed}
    /\ state[c] \in SettledStates => task # << >> /\ c \in Targets(task[1])

\* Until the build is stopped, the targets of an action begin together and are
\* given up together.
GroupInv ==
  ~stopped => \A n \in Nodes : \A m \in ToSet(graph.targets[n]) :
    state[n] \in ActiveStates <=> state[m] \in ActiveStates

\* Until the build is stopped, a node is failed with all the targets of its
\* action, or because something it is made from is.
DownInv ==
  ~stopped => \A m \in Plains(graph) : state[m] = failed =>
    \/ \E c \in Deps(graph, m) : state[c] = failed
    \/ \A k \in ToSet(graph.targets[m]) : state[k] = failed

VisitInv == \A n \in Plains(graph) : state[n] \in SettledStates => n \in visited

\* The targets of a task at work, or posted, are being made from what is settled.
FlyInv ==
  \A t \in Flying :
    /\ t \in Task /\ t.targets = graph.targets[t.node] /\ Targets(t) \subseteq Readable
    /\ \A n \in Targets(t) :
         /\ state[n] = executing \/ (stopped /\ state[n] = failed)
         /\ DoneWith(n)
    /\ ~stopped => \A s \in SideOf(graph, Targets(t)) : state[s] = executing

\* No two of these tasks write the same file.
ApartInv == \A t, u \in Flying : t # u => OutOf(graph, t) \cap OutOf(graph, u) = {}

\* The task the main thread has: the scan raised, or its targets are up to date,
\* or they are about to be made.  It has nothing in common with those dispatched.
HandKinds(t) ==
  \/ /\ t.exception /\ t.node \in graph.unscannable /\ SideOf(graph, Targets(t)) = {}
     /\ \/ \A n \in Targets(t) : state[n] = executing
        \/ \A n \in Targets(t) : state[n] = up_to_date
  \/ /\ \A n \in Targets(t) : \A c \in Uses(n) : state[c] \in SettledStates
     /\ \A n \in Targets(t) : state[n] = up_to_date
     /\ \A s \in SideOf(graph, Targets(t)) : state[s] # executing
  \/ /\ \A n \in Targets(t) : DoneWith(n)
     /\ \A n \in Targets(t) : state[n] = executing /\ n \in Readable
     /\ \A s \in SideOf(graph, Targets(t)) : state[s] = executing

HandInv ==
  task # << >> =>
    /\ task[1].targets = graph.targets[task[1].node] /\ Targets(task[1]) \subseteq Plains(graph)
    /\ HandKinds(task[1])
    /\ \A u \in Flying :
         /\ OutOf(graph, task[1]) \cap OutOf(graph, u) = {}
         /\ \A n \in Targets(u) : Uses(n) \cap Targets(task[1]) = {}

\* A task that went well made its targets.
ResultInv ==
  \A i \in DOMAIN resultsQueue : resultsQueue[i][2] => Targets(resultsQueue[i][1]) \subseteq on_disk

SafeInv ==
  /\ Ordinary(graph) /\ KnowInv /\ CandInv /\ RaisedInv /\ WaitInv /\ GroupInv /\ DownInv
  /\ VisitInv /\ PlaceInv /\ FlyInv /\ ApartInv /\ HandInv /\ ResultInv

\* The node a task is about is one of its targets, which belong together.
LEMMA TaskMates ==
  ASSUME graph \in Graphs, Ordinary(graph), NEW t \in Task, t.targets = graph.targets[t.node]
  PROVE  /\ Targets(t) = ToSet(graph.targets[t.node]) /\ t.node \in Targets(t)
         /\ Targets(t) \in SUBSET Nodes
         /\ \A n \in Nodes : (\E m \in ToSet(graph.targets[n]) : m \in Targets(t)) => n \in Targets(t)
         /\ \A n \in Targets(t) : ToSet(graph.targets[n]) \subseteq Targets(t)
<1>1. t.node \in Nodes /\ Targets(t) = ToSet(graph.targets[t.node])
  BY TaskFields DEF Targets
<1>2. /\ t.node \in Targets(t) /\ Targets(t) \in SUBSET Nodes
      /\ \A m \in Targets(t) : graph.targets[m] = graph.targets[t.node]
  BY <1>1, Mates
<1>3. ASSUME NEW n \in Nodes, NEW m \in ToSet(graph.targets[n]), m \in Targets(t)
      PROVE  n \in Targets(t)
  <2>1. graph.targets[m] = graph.targets[n] /\ n \in ToSet(graph.targets[n])
    BY Mates
  <2>2. QED
    BY <1>1, <1>2, <1>3, <2>1
<1>4. ASSUME NEW n \in Targets(t) PROVE ToSet(graph.targets[n]) \subseteq Targets(t)
  BY <1>1, <1>2
<1>5. QED
  BY <1>1, <1>2, <1>3, <1>4

\* States are told apart.
LEMMA Kinds ==
  /\ executing \notin SettledStates /\ pending \notin SettledStates /\ failed \notin SettledStates
  /\ no_state \notin SettledStates
  /\ executing \in ActiveStates /\ pending \notin ActiveStates /\ failed \notin ActiveStates
  /\ no_state \notin ActiveStates /\ executed \in ActiveStates /\ up_to_date \in ActiveStates
  /\ executed \in SettledStates /\ up_to_date \in SettledStates
  /\ SettledStates \subseteq ActiveStates
  /\ \A s \in ActiveStates : s = executing \/ s \in SettledStates
  /\ executing # executed /\ executing # up_to_date /\ executing # failed /\ executing # pending
  /\ executing # no_state /\ pending # failed
BY States DEF SettledStates, ActiveStates

-----------------------------------------------------------------------------
(***************************************************************************)
(* What scans find.                                                        *)
(***************************************************************************)

\* With the files R on disk, a node includes what it may include at most; if it is
\* not made alone, all of it.
LEMMA FoundBound ==
  ASSUME graph \in Graphs, Ordinary(graph), FileInv, NEW n \in graph.derived, NEW R,
         R \subseteq on_disk
  PROVE  /\ ThroughOf(graph, n, R) \subseteq Inc(graph, n)
         /\ ~Alone(graph, n) /\ on_disk \ graph.derived \subseteq R
              => ThroughOf(graph, n, R) = Inc(graph, n)
<1> DEFINE S == graph.derived \cup graph.disk
<1>1. n \in Nodes /\ Inc(graph, n) = ThroughOf(graph, n, S)
  BY GraphFields DEF Inc
<1>2. /\ ToSet(graph.sources[n]) \cup Inc(graph, n) \subseteq Plains(graph)
      /\ Plains(graph) \subseteq Nodes /\ Plains(graph) \cap SideOf(graph, Nodes) = {}
  BY <1>1, PlainDeps DEF Deps, Plains
<1>3. \A f \in Plains(graph) \ graph.derived : f \in on_disk <=> f \in graph.disk
  BY <1>2 DEF FileInv
<1>4. \A f \in ToSet(graph.sources[n]) \cup Inc(graph, n) : f \in R => f \in S
  BY <1>2, <1>3
<1>5. ThroughOf(graph, n, R) \subseteq ThroughOf(graph, n, S)
  BY ONLY <1>1, <1>4, graph \in Graphs, ThroughGrows
<1>6. ASSUME ~Alone(graph, n), on_disk \ graph.derived \subseteq R
      PROVE  ThroughOf(graph, n, R) = Inc(graph, n)
  <2>1. \A f \in ToSet(graph.sources[n]) \cup ThroughOf(graph, n, S) :
          graph.includes[f] = {} \/ (f \in S <=> f \in R)
    <3>1. ASSUME NEW f \in ToSet(graph.sources[n]) \cup Inc(graph, n)
          PROVE  graph.includes[f] = {} \/ (f \in S <=> f \in R)
      <4>1. CASE f \in graph.derived
        BY <1>1, <1>6, <3>1, <4>1 DEF Ordinary
      <4>2. CASE f \notin graph.derived
        BY <1>2, <1>3, <1>6, <3>1, <4>2
      <4>3. QED
        BY <4>1, <4>2
    <3>2. QED
      BY <1>1, <3>1
  <2>2. ThroughOf(graph, n, S) = ThroughOf(graph, n, R)
    BY ONLY <1>1, <2>1, graph \in Graphs, ThroughReadable
  <2>3. QED
    BY <1>1, <2>2
<1>7. QED
  BY <1>1, <1>5, <1>6

\* So does a scan.
LEMMA ScanFinds ==
  ASSUME graph \in Graphs, Ordinary(graph), ImplInv, FileInv, AbsentInv, NEW n \in Nodes
  PROVE  /\ ImplicitOf(n) \subseteq Inc(graph, n) /\ Children(n) \subseteq Deps(graph, n)
         /\ ~Alone(graph, n) => ImplicitOf(n) = Inc(graph, n) /\ Children(n) = Deps(graph, n)
         /\ n \in graph.derived =>
              ToSet(graph.sources[n]) \cup ThroughOf(graph, n, on_disk) \subseteq Plains(graph)
         /\ n \notin graph.derived => ImplicitOf(n) = {} /\ Alone(graph, n)
<1>1. FoundIncludes(n) = ThroughOf(graph, n, on_disk \ absent)
  BY ThroughSame DEF FoundIncludes
<1>2. ASSUME n \in graph.derived
      PROVE  /\ FoundIncludes(n) \subseteq Inc(graph, n)
             /\ ~Alone(graph, n) => FoundIncludes(n) = Inc(graph, n)
             /\ ThroughOf(graph, n, on_disk) \subseteq Inc(graph, n)
  <2> DEFINE R == on_disk \ absent
  <2>1. R \subseteq on_disk
    OBVIOUS
  <2>2. ThroughOf(graph, n, on_disk \ absent) \subseteq Inc(graph, n)
    BY <1>2, <2>1, FoundBound
  <2>3. ThroughOf(graph, n, on_disk) \subseteq Inc(graph, n)
    BY <1>2, FoundBound
  <2>4. ASSUME ~Alone(graph, n) PROVE ThroughOf(graph, n, on_disk \ absent) = Inc(graph, n)
    <3>1. ThroughOf(graph, n, on_disk) = Inc(graph, n)
      BY <1>2, <2>4, FoundBound
    <3>2. Inc(graph, n) \subseteq Plains(graph) /\ ToSet(graph.sources[n]) \subseteq Plains(graph)
      BY PlainDeps DEF Deps
    <3>3. \A f \in ToSet(graph.sources[n]) \cup Inc(graph, n) :
            graph.includes[f] = {} \/ (f \in on_disk <=> f \in on_disk \ absent)
      BY <2>4, <3>2 DEF Ordinary, AbsentInv, Readable
    <3>4. ThroughOf(graph, n, on_disk) = ThroughOf(graph, n, on_disk \ absent)
      BY <3>1, <3>3, ThroughReadable
    <3>5. QED
      BY <3>1, <3>4
  <2>5. QED
    BY <1>1, <2>2, <2>3, <2>4
<1>3. ASSUME n \notin graph.derived PROVE Inc(graph, n) = {} /\ Alone(graph, n)
  <2>1. graph.targets[n] = <<n>>
    BY <1>3 DEF Ordinary
  <2>2. ToSet(<<n>>) = {n}
    BY DEF ToSet
  <2>3. QED
    BY <1>3, <2>1, <2>2 DEF Inc, Alone
<1>4. /\ ImplicitOf(n) \subseteq Inc(graph, n)
      /\ ~Alone(graph, n) => ImplicitOf(n) = Inc(graph, n)
  BY <1>2, <1>3, Unscanned DEF ImplicitOf, ImplInv, Readable
<1>5. Deps(graph, n) \subseteq Plains(graph)
  BY PlainDeps
<1>6. QED
  BY <1>2, <1>3, <1>4, <1>5 DEF Children, Deps

\* What a node uses is among its dependencies; if what was made is there, and all
\* of what it uses was, there is nothing more.
LEMMA UsesBound ==
  ASSUME graph \in Graphs, Ordinary(graph), FileInv, NEW n \in Nodes, NEW i,
         i \subseteq Inc(graph, n)
  PROVE  /\ UsesOf(graph, on_disk, i, n) \subseteq Deps(graph, n)
         /\ Deps(graph, n) \subseteq Plains(graph) /\ Plains(graph) \subseteq Nodes
         /\ DiskInv /\ mode # "ignore"
              /\ (\A c \in UsesOf(graph, on_disk, i, n) : state[c] \in SettledStates)
              => Deps(graph, n) \subseteq UsesOf(graph, on_disk, i, n)
<1> DEFINE U == UsesOf(graph, on_disk, i, n)
           T == ThroughOf(graph, n, on_disk)
<1>1. Deps(graph, n) \subseteq Plains(graph) /\ Plains(graph) \subseteq Nodes
  BY PlainDeps DEF Plains
<1>2. CASE n \notin graph.derived
  <2>1. U = Deps(graph, n)
    BY <1>2 DEF UsesOf, Deps, Inc
  <2>2. QED
    BY <1>1, <2>1
<1>3. CASE n \in graph.derived
  <2>1. T \subseteq Inc(graph, n)
    BY <1>3, FoundBound
  <2>2. U \subseteq Deps(graph, n)
    BY <1>3, <2>1 DEF UsesOf, Deps
  <2>3. ASSUME DiskInv, mode # "ignore", \A c \in U : state[c] \in SettledStates
        PROVE  Deps(graph, n) \subseteq U
    <3>1. ASSUME NEW f \in ToSet(graph.sources[n]) \cup T, f \in graph.derived \cup graph.disk
          PROVE  f \in on_disk
      <4>1. f \in U
        BY <1>3, <3>1 DEF UsesOf
      <4>2. f \in Nodes /\ f \in Plains(graph) /\ state[f] \in SettledStates
        BY <1>1, <2>2, <2>3, <4>1
      <4>3. CASE f \in graph.derived
        BY <2>3, <4>2, <4>3 DEF DiskInv
      <4>4. CASE f \notin graph.derived
        BY <3>1, <4>2, <4>4 DEF FileInv, Plains
      <4>5. QED
        BY <4>3, <4>4
    <3> HIDE DEF U
    <3>2. ThroughOf(graph, n, graph.derived \cup graph.disk) \subseteq T
      BY <3>1, ThroughGrows
    <3>3. Inc(graph, n) \subseteq T
      BY <1>3, <3>2 DEF Inc
    <3>4. QED
      BY <1>3, <3>3 DEF U, UsesOf, Deps
  <2> HIDE DEF U
  <2>4. (DiskInv /\ mode # "ignore" /\ \A c \in U : state[c] \in SettledStates)
          => Deps(graph, n) \subseteq U
    BY <2>3
  <2>5. QED
    BY <1>1, <2>2, <2>4 DEF U
<1>4. QED
  BY <1>2, <1>3

\* None of it is a side effect.
LEMMA UsedArePlain ==
  ASSUME graph \in Graphs, Ordinary(graph), KnowInv, NEW n \in Nodes
  PROVE  Uses(n) \subseteq Deps(graph, n) /\ Uses(n) \subseteq Plains(graph)
<1>1. FileInv /\ implicit[n] \subseteq Inc(graph, n)
  BY DEF KnowInv, DiskInv, ImplInv
<1>2. QED
  BY <1>1, UsesBound DEF Uses

\* What a node uses stays the same as long as these files are made, or removed, no
\* more.
LEMMA UsesStay ==
  ASSUME NEW g \in Graphs, NEW n \in Nodes, NEW i, NEW d, NEW e,
         \A c \in UsesOf(g, d, i, n) : c \in e <=> c \in d
  PROVE  /\ UsesOf(g, e, i, n) = UsesOf(g, d, i, n)
         /\ n \in g.derived => ThroughOf(g, n, e) = ThroughOf(g, n, d)
<1>1. ASSUME n \in g.derived PROVE ThroughOf(g, n, d) = ThroughOf(g, n, e)
  <2>1. \A f \in ToSet(g.sources[n]) \cup ThroughOf(g, n, d) : f \in d <=> f \in e
    BY <1>1 DEF UsesOf
  <2>2. QED
    BY <2>1, ThroughReadable
<1>2. QED
  BY <1>1 DEF UsesOf

LEMMA DoneStays ==
  ASSUME graph \in Graphs, NEW n \in graph.derived, n \in Nodes, DoneWith(n), UNCHANGED graph,
         implicit'[n] = implicit[n], n \in scanned' => n \in scanned,
         \A c \in Uses(n) : state'[c] \in SettledStates /\ (c \in on_disk' <=> c \in on_disk)
  PROVE  DoneWith(n)' /\ Uses(n)' = Uses(n)
<1>1. \A c \in UsesOf(graph, on_disk, implicit[n], n) : c \in on_disk' <=> c \in on_disk
  BY DEF Uses
<1>2. /\ Uses(n)' = Uses(n)
      /\ n \in graph.derived => ThroughOf(graph, n, on_disk') = ThroughOf(graph, n, on_disk)
  BY <1>1, UsesStay DEF Uses
<1>3. QED
  BY <1>2 DEF DoneWith

\* Once all that a node was found to include is settled, nothing is missing from
\* it: the files whose includes were not read then are made again, or not there.
LEMMA FoundAll ==
  ASSUME graph \in Graphs, Ordinary(graph), ImplInv, FileInv, AbsentInv,
         NEW n \in Readable, n \in Nodes, Alone(graph, n),
         n \in scanned => ~stopped /\ ScanInv /\ state[n] \in {no_state, pending},
         \A f \in ToSet(graph.sources[n]) \cup ImplicitOf(n) : state[f] \in SettledStates
  PROVE  ThroughOf(graph, n, on_disk) \subseteq ImplicitOf(n)
<1>1. /\ ImplicitOf(n) \subseteq Inc(graph, n)
      /\ ToSet(graph.sources[n]) \cup ImplicitOf(n) \subseteq Plains(graph)
  <2>1. ImplicitOf(n) \subseteq Inc(graph, n)
    BY ScanFinds
  <2>2. QED
    BY <2>1, PlainDeps DEF Deps
<1>2. CASE n \notin scanned
  <2>1. ImplicitOf(n) = ThroughOf(graph, n, on_disk \ absent)
    BY <1>2, ThroughSame DEF ImplicitOf, FoundIncludes
  <2>2. \A f \in ToSet(graph.sources[n]) \cup ThroughOf(graph, n, on_disk \ absent) :
          f \in on_disk \ absent <=> f \in on_disk
    BY <1>1, <2>1, Kinds DEF AbsentInv
  <2>3. ThroughOf(graph, n, on_disk \ absent) = ThroughOf(graph, n, on_disk)
    BY <2>2, ThroughReadable
  <2>4. QED
    BY <2>1, <2>3
<1>3. CASE n \in scanned
  <2> DEFINE D == implicit[n]
  <2>1. ImplicitOf(n) = D
    BY <1>3 DEF ImplicitOf
  <2>2. ASSUME NEW f \in ToSet(graph.sources[n]) \cup D, f \in on_disk
        PROVE  graph.includes[f] \subseteq D
    <3>1. graph.includes[f] \subseteq D \/ Excused(n, f)
      BY <1>3, <2>2 DEF ScanInv, Readable
    <3>2. ~Excused(n, f)
      BY <2>1, <2>2, Kinds DEF Excused
    <3>3. QED
      BY <3>1, <3>2
  <2>3. D \in SUBSET UNION {graph.includes[f] : f \in Nodes}
    BY <1>1, <2>1 DEF Inc, ThroughOf
  <2> HIDE DEF D
  <2>4. ThroughOf(graph, n, on_disk) \subseteq D
    BY <2>2, <2>3, ThroughLeast
  <2>5. QED
    BY <2>1, <2>4
<1>4. QED
  BY <1>2, <1>3

\* A scan is about the targets of one action.
LEMMA ScanImplicit ==
  ASSUME graph \in Graphs, Ordinary(graph), WalkTypes, ImplInv, FileInv, AbsentInv,
         NEW n \in Nodes, Scan(n), UNCHANGED graph
  PROVE  /\ ImplInv' /\ implicit'[n] = ImplicitOf(n) /\ n \in scanned'
         /\ \A m \in Nodes : m \notin ToSet(graph.targets[n]) \/ (n \in scanned /\ Alone(graph, n))
              => implicit'[m] = implicit[m] /\ (m \in scanned' <=> m \in scanned)
         /\ absent' \cap on_disk = absent \cap on_disk
<1> DEFINE ts == ToSet(graph.targets[n])
<1>1. /\ ImplicitOf(n) \subseteq Inc(graph, n)
      /\ ~Alone(graph, n) => ImplicitOf(n) = Inc(graph, n)
      /\ n \notin graph.derived => Alone(graph, n)
  BY ScanFinds
<1>2. n \in ts /\ ts \in SUBSET Nodes
      /\ \A m \in ts : graph.targets[m] = graph.targets[n] /\ Inc(graph, m) = Inc(graph, n)
  BY Mates
<1>3. CASE n \in scanned
  <2>1. UNCHANGED <<scanned, implicit, absent>>
    BY <1>3 DEF Scan, scanVars
  <2>2. QED
    BY <1>3, <2>1 DEF ImplInv, ImplicitOf
<1>4. CASE n \notin scanned
  <2> DEFINE read == IF n \in Readable
                     THEN ToSet(graph.sources[n]) \cup FoundIncludes(n) ELSE {}
  <2>1. (IF n \in graph.derived THEN ToSet(graph.targets[n]) ELSE {n}) = ts
    BY <1>1 DEF Alone
  <2>2. /\ scanned' = scanned \cup ts /\ absent' = absent \cup (read \ on_disk)
        /\ implicit' = [m \in Nodes |->
             IF m = n THEN ImplicitOf(n)
             ELSE IF m \notin ts THEN implicit[m]
             ELSE IF m \in scanned THEN implicit[m] \cup ImplicitOf(n)
             ELSE ImplicitOf(n)]
    BY <1>4, <2>1 DEF Scan
  <2> HIDE DEF ts, read
  <2>3. ASSUME NEW m \in Nodes
        PROVE  /\ implicit'[m] \subseteq Inc(graph, m)
               /\ m \in scanned' /\ ~Alone(graph, m) => implicit'[m] = Inc(graph, m)
    <3>1. CASE m \notin ts
      BY <1>2, <2>2, <3>1 DEF ImplInv
    <3>2. CASE m \in ts
      <4>1. Inc(graph, m) = Inc(graph, n) /\ implicit[m] \subseteq Inc(graph, m)
        BY <1>2, <3>2 DEF ImplInv
      <4>2. Alone(graph, n) => m = n
        BY <3>2 DEF Alone, ts
      <4>3. ~Alone(graph, n) => ~Alone(graph, m)
        BY <1>2, <3>2, <4>2 DEF Alone, ts
      <4>4. CASE Alone(graph, n)
        BY <1>1, <2>2, <4>2, <4>4
      <4>5. CASE ~Alone(graph, n)
        <5>1. implicit'[m] \in {implicit[m] \cup ImplicitOf(n), ImplicitOf(n)}
          BY <2>2, <3>2
        <5>2. QED
          BY <1>1, <4>1, <4>5, <5>1
      <4>6. QED
        BY <4>4, <4>5
    <3>3. QED
      BY <3>1, <3>2
  <2>4. ImplInv'
    BY <2>3 DEF ImplInv
  <2>5. QED
    BY <1>2, <1>4, <2>2, <2>4 DEF ts
<1>5. QED
  BY <1>3, <1>4

\* A candidate whose children are settled knows them all, and so do the nodes made
\* together with it.
LEMMA CandidateUses ==
  ASSUME graph \in Graphs, Ordinary(graph), WalkTypes, ImplInv, FileInv, AbsentInv, ScanInv,
         ~stopped, NEW n \in Nodes, state[n] \in {no_state, pending}, Scan(n),
         UNCHANGED <<graph, on_disk>>, \A c \in Children(n) : state[c] \in SettledStates,
         n \notin graph.unscannable, NEW m \in ToSet(graph.targets[n])
  PROVE  /\ UsesOf(graph, on_disk, implicit'[m], m) \subseteq Children(n)
         /\ m \in scanned' /\ m \in graph.derived
              => ThroughOf(graph, m, on_disk) \subseteq implicit'[m]
<1>1. /\ ImplInv' /\ implicit'[n] = ImplicitOf(n)
  BY ScanImplicit
<1>2. /\ m \in Nodes /\ Deps(graph, m) = Deps(graph, n)
      /\ m \in graph.derived <=> n \in graph.derived
  BY Mates
<1>3. /\ ~Alone(graph, n) => Children(n) = Deps(graph, n) /\ n \in graph.derived
      /\ n \notin graph.derived => ImplicitOf(n) = {}
  BY ScanFinds
<1>4. CASE ~Alone(graph, n)
  <2>1. implicit'[m] \subseteq Inc(graph, m)
    BY <1>1, <1>2 DEF ImplInv
  <2>2. UsesOf(graph, on_disk, implicit'[m], m) \subseteq Deps(graph, m)
    BY <1>2, <2>1, UsesBound
  <2>3. ~Alone(graph, m)
    BY <1>4, Mates DEF Alone
  <2>4. ASSUME m \in scanned' PROVE ThroughOf(graph, m, on_disk) \subseteq implicit'[m]
    <3>1. implicit'[m] = Inc(graph, m)
      BY <1>1, <1>2, <2>3, <2>4 DEF ImplInv
    <3>2. QED
      BY <1>2, <1>3, <1>4, <3>1, FoundBound
  <2>5. QED
    BY <1>2, <1>3, <1>4, <2>2, <2>4
<1>5. CASE Alone(graph, n)
  <2>1. m = n
    BY <1>5 DEF Alone
  <2>2. ASSUME n \in graph.derived PROVE ThroughOf(graph, n, on_disk) \subseteq ImplicitOf(n)
    BY <1>5, <2>2, FoundAll DEF Children, Readable
  <2>3. QED
    BY <1>1, <1>3, <2>1, <2>2 DEF UsesOf, Children
<1>6. QED
  BY <1>4, <1>5

-----------------------------------------------------------------------------
(***************************************************************************)
(* A task that ends.                                                       *)
(***************************************************************************)

\* Only the given nodes and pending ones are marked failed.
LEMMA Doomed ==
  ASSUME WalkTypes, WaitInv, mode # "ignore", NEW ns \in SUBSET Nodes
  PROVE  /\ ns \cap Unfailed \subseteq WillNotBuild(ns, Unfailed)
         /\ WillNotBuild(ns, Unfailed) \in SUBSET Nodes
         /\ \A m \in WillNotBuild(ns, Unfailed) :
              \/ m \in ns
              \/ /\ state[m] = pending /\ m \in Plains(graph)
                 /\ \E d \in WillNotBuild(ns, Unfailed) : d \in Deps(graph, m)
<1> DEFINE doomed == WillNotBuild(ns, Unfailed)
           D == {m \in Unfailed : \/ m \in ns
                                  \/ /\ state[m] = pending /\ m \in Plains(graph)
                                     /\ \E d \in doomed : m \in waiting_parents[d]}
<1>1. /\ doomed \subseteq Unfailed /\ ns \cap Unfailed \subseteq doomed /\ Unfailed \subseteq Nodes
      /\ \A d \in doomed : waiting_parents[d] \cap Unfailed \subseteq doomed
  BY DEF WillNotBuild, Unfailed
<1>2. \A d \in Nodes : \A m \in waiting_parents[d] \cap Unfailed :
        m \in Plains(graph) /\ state[m] = pending /\ d \in Deps(graph, m)
  BY DEF WaitInv, Unfailed
<1>3. doomed \subseteq D
  <2> DEFINE E == doomed \cap D
  <2>1. \A d \in E : waiting_parents[d] \cap Unfailed \subseteq E
    BY <1>1, <1>2
  <2>2. ns \cap Unfailed \subseteq E /\ E \in SUBSET Unfailed
    BY <1>1
  <2> HIDE DEF E
  <2>3. doomed \subseteq E
    BY <2>1, <2>2 DEF WillNotBuild
  <2>4. QED
    BY <2>3 DEF E
<1> HIDE DEF doomed
<1>4. QED
  BY <1>1, <1>2, <1>3 DEF doomed

\* postprocess(): side effects are released, candidates found.
LEMMA PostProcessed ==
  ASSUME graph \in Graphs, Ordinary(graph), WalkTypes, CandInv, WaitInv,
         NEW st \in [Nodes -> NodeStates], NEW pend \in SUBSET Nodes, NEW ts \in SUBSET Nodes,
         PostProcess(st, pend, ts)
  PROVE  /\ \A m \in Plains(graph) : state'[m] = st[m]
         /\ \A s \in Nodes : \/ state'[s] = st[s]
                             \/ state'[s] = no_state /\ s \in SideOf(graph, ts)
         /\ waiting_parents' = [n \in Nodes |-> IF n \in ts THEN {} ELSE waiting_parents[n]]
         /\ ToSet(candidates') \subseteq Plains(graph)
<1> DEFINE held == {s \in SideEffects(ts) : st[s] = executing}
           woken == {p \in UNION {waiting_s_e[s] : s \in SideEffects(ts)} : ref_count[p] = 0}
           ready == {p \in ParentsOf(ts \cup held) :
                       ref_count[p] - Subtract(p, ts) - Subtract(p, held) = 0}
<1>1. /\ \E w \in SetToSeqs(woken), r \in SetToSeqs(ready) : candidates' = candidates \o w \o r
      /\ state' = [n \in Nodes |-> IF n \in held THEN no_state ELSE st[n]]
      /\ waiting_parents' = [n \in Nodes |-> IF n \in ts THEN {} ELSE waiting_parents[n]]
  BY DEF PostProcess
<1>2. /\ SideEffects(ts) = SideOf(graph, ts) /\ SideEffects(ts) \in SUBSET Nodes
      /\ SideEffects(ts) \cap Plains(graph) = {} /\ held \subseteq SideEffects(ts)
  BY SideSame, PlainDeps
<1>3. woken \subseteq Plains(graph)
  BY <1>2 DEF CandInv
<1>4. ready \subseteq Plains(graph)
  <2>1. ts \cup held \subseteq Nodes
    BY <1>2
  <2>2. ParentsOf(ts \cup held) \subseteq Plains(graph)
    BY <2>1 DEF ParentsOf, WaitInv
  <2>3. QED
    BY <2>2
<1>5. \A m \in Plains(graph) : m \in Nodes /\ m \notin held
  BY <1>2 DEF Plains
<1> HIDE DEF woken, ready, held
<1>6. ToSet(candidates') \subseteq Plains(graph)
  <2>1. PICK w \in SetToSeqs(woken), r \in SetToSeqs(ready) : candidates' = candidates \o w \o r
    BY <1>1
  <2>2. woken \in SUBSET Nodes /\ ready \in SUBSET Nodes
    BY <1>3, <1>4 DEF Plains
  <2>3. w \in Seq(Nodes) /\ ToSet(w) \subseteq woken
    BY ONLY <2>1, <2>2, SetSequence
  <2>4. r \in Seq(Nodes) /\ ToSet(r) \subseteq ready
    BY ONLY <2>1, <2>2, SetSequence
  <2>5. candidates \in Seq(Nodes) /\ ToSet(candidates) \subseteq Plains(graph)
    BY DEF WalkTypes, CandInv
  <2> DEFINE cw == candidates \o w
  <2>6. cw \in Seq(Nodes) /\ ToSet(cw) = ToSet(candidates) \cup ToSet(w)
    BY ONLY <2>3, <2>5, ConcatElements
  <2>7. candidates' = cw \o r
    BY <2>1
  <2> HIDE DEF cw
  <2>8. ToSet(cw \o r) = ToSet(cw) \cup ToSet(r)
    BY ONLY <2>4, <2>6, ConcatElements
  <2>9. QED
    BY <1>3, <1>4, <2>3, <2>4, <2>5, <2>6, <2>7, <2>8
<1>7. QED
  BY <1>1, <1>2, <1>5, <1>6

\* What becomes of everything when a task with the targets ts ends: they are
\* executed, or all failed, and nothing else changes but what waited for them.
Made(ts) ==
  /\ \A m \in ts : /\ state'[m] = IF state[m] = executing THEN executed ELSE state[m]
                   /\ waiting_parents'[m] = {} /\ m \in visited'
                   /\ state[m] = executing => /\ m \notin absent'
                                             /\ waiting_parents[m] \cap scanned' = {}
  /\ \A m \in Plains(graph) \ ts : state'[m] = state[m]

Lost(ts) ==
  /\ \A m \in ts : state'[m] = failed
  /\ \A m \in Plains(graph) \ ts :
       \/ state'[m] = state[m]
       \/ /\ state[m] = pending /\ state'[m] = failed
          /\ \E d \in Deps(graph, m) : state'[d] = failed

EndOf(ts) ==
  /\ UNCHANGED <<graph, waiting_s_e, implicit, top_targets_left, current_top>>
  /\ scanned' \subseteq scanned /\ absent' \subseteq absent /\ visited \subseteq visited'
  /\ stopped => stopped'
  /\ \A c \in Nodes : waiting_parents'[c] \subseteq waiting_parents[c]
  /\ ~stopped' => \A c \in Nodes \ ts : waiting_parents'[c] = waiting_parents[c]
  /\ ToSet(candidates') \subseteq Plains(graph)
  /\ Made(ts) \/ Lost(ts)
  /\ \A s \in Nodes \ Plains(graph) :
       state'[s] = state[s] \/ (state'[s] = no_state /\ (stopped' \/ s \in SideOf(graph, ts)))

\* Targets marked failed, with what waits for them.
LEMMA FailedEnd ==
  ASSUME graph \in Graphs, Ordinary(graph), WalkTypes, CandInv, WaitInv, mode # "ignore",
         NEW ts \in SUBSET Plains(graph), NEW ns \in SUBSET Nodes, ns = ts \/ stopped',
         stopped => stopped',
         PostProcess(MarkFailed(WillNotBuild(ts, Unfailed)),
                     pending_children \ ParentsOf(WillNotBuild(ts, Unfailed)), ns),
         UNCHANGED <<graph, waiting_s_e, implicit, top_targets_left, current_top>>,
         UNCHANGED <<scanned, absent, visited>>
  PROVE  EndOf(ts) /\ Lost(ts)
<1> DEFINE doomed == WillNotBuild(ts, Unfailed)
           st == MarkFailed(doomed)
           pend == pending_children \ ParentsOf(doomed)
<1>1. ts \in SUBSET Nodes /\ Plains(graph) \subseteq Nodes
  BY DEF Plains
<1>2. /\ ts \cap Unfailed \subseteq doomed /\ doomed \in SUBSET Nodes
      /\ \A m \in doomed : \/ m \in ts
                           \/ /\ state[m] = pending /\ m \in Plains(graph)
                              /\ \E d \in doomed : d \in Deps(graph, m)
  BY <1>1, Doomed
<1>3. PostProcess(st, pend, ns)
  OBVIOUS
<1> HIDE DEF doomed
<1>4. st \in [Nodes -> NodeStates] /\ pend \in SUBSET Nodes
  BY States DEF MarkFailed, WalkTypes
<1>5. \A m \in Nodes : st[m] = IF m \in doomed THEN failed ELSE state[m]
  BY DEF MarkFailed
<1> HIDE DEF st, pend
<1>6. /\ \A m \in Plains(graph) : state'[m] = st[m]
      /\ \A s \in Nodes : \/ state'[s] = st[s]
                          \/ state'[s] = no_state /\ s \in SideOf(graph, ns)
      /\ waiting_parents' = [n \in Nodes |-> IF n \in ns THEN {} ELSE waiting_parents[n]]
      /\ ToSet(candidates') \subseteq Plains(graph)
  BY <1>3, <1>4, PostProcessed
<1>7. \A m \in ts : state'[m] = failed
  BY <1>1, <1>2, <1>5, <1>6 DEF Unfailed
<1>8. ASSUME NEW m \in Plains(graph) \ ts, state'[m] # state[m]
      PROVE  /\ state[m] = pending /\ state'[m] = failed
             /\ \E d \in Deps(graph, m) : state'[d] = failed
  <2>1. m \in Nodes /\ m \in doomed /\ state[m] = pending /\ state'[m] = failed
    BY <1>1, <1>2, <1>5, <1>6, <1>8
  <2>2. PICK d \in doomed : d \in Deps(graph, m)
    BY <1>2, <1>8, <2>1
  <2>3. d \in Plains(graph)
    BY <2>1, <2>2, PlainDeps
  <2>4. QED
    BY <1>2, <1>5, <1>6, <2>1, <2>2, <2>3
<1>9. ASSUME NEW s \in Nodes \ Plains(graph)
      PROVE  state'[s] = state[s] \/ (state'[s] = no_state /\ (stopped' \/ s \in SideOf(graph, ts)))
  BY <1>2, <1>5, <1>6
<1>10. /\ \A c \in Nodes : waiting_parents'[c] \subseteq waiting_parents[c]
       /\ ~stopped' => \A c \in Nodes \ ts : waiting_parents'[c] = waiting_parents[c]
  BY <1>6
<1>11. Lost(ts)
  BY <1>7, <1>8 DEF Lost
<1>12. QED
  BY <1>6, <1>9, <1>10, <1>11 DEF EndOf

\* Targets that were made, or that needed nothing.
LEMMA ExecutedEnd ==
  ASSUME graph \in Graphs, Ordinary(graph), WalkTypes, CandInv, WaitInv,
         NEW ts \in SUBSET Plains(graph), Executed(ts),
         UNCHANGED <<graph, waiting_s_e, implicit, top_targets_left, current_top>>
  PROVE  EndOf(ts) /\ Made(ts)
<1> DEFINE built == {t \in ts : state[t] = executing}
           st == [n \in Nodes |-> IF n \in built THEN executed
                                  ELSE IF n \in SideEffects(built) THEN no_state
                                  ELSE state[n]]
<1>1. ts \in SUBSET Nodes /\ Plains(graph) \subseteq Nodes /\ built \in SUBSET Nodes
  BY DEF Plains
<1>2. /\ PostProcess(st, pending_children, ts)
      /\ scanned' \subseteq scanned /\ absent' \subseteq absent /\ visited' = visited \cup ts
      /\ UNCHANGED stopped
      /\ \A m \in ts : state[m] = executing =>
           m \notin absent' /\ waiting_parents[m] \cap scanned' = {}
  BY DEF Executed, ParentsOf
<1>3. /\ SideEffects(built) = SideOf(graph, built) /\ SideOf(graph, built) \subseteq SideOf(graph, ts)
      /\ SideEffects(built) \cap Plains(graph) = {}
  BY <1>1, SideSame, PlainDeps DEF SideOf
<1>4. st \in [Nodes -> NodeStates] /\ pending_children \in SUBSET Nodes
  BY States DEF WalkTypes
<1>5. /\ \A m \in ts : st[m] = IF state[m] = executing THEN executed ELSE state[m]
      /\ \A m \in Plains(graph) \ ts : st[m] = state[m]
      /\ \A s \in Nodes \ Plains(graph) :
           st[s] = state[s] \/ (st[s] = no_state /\ s \in SideOf(graph, ts))
  BY <1>1, <1>3
<1> HIDE DEF st, built
<1>6. /\ \A m \in Plains(graph) : state'[m] = st[m]
      /\ \A s \in Nodes : \/ state'[s] = st[s]
                          \/ state'[s] = no_state /\ s \in SideOf(graph, ts)
      /\ waiting_parents' = [n \in Nodes |-> IF n \in ts THEN {} ELSE waiting_parents[n]]
      /\ ToSet(candidates') \subseteq Plains(graph)
  BY <1>1, <1>2, <1>4, PostProcessed
<1>7. \A m \in ts : /\ state'[m] = IF state[m] = executing THEN executed ELSE state[m]
                    /\ waiting_parents'[m] = {} /\ m \in visited'
                    /\ state[m] = executing =>
                         m \notin absent' /\ waiting_parents[m] \cap scanned' = {}
  BY <1>1, <1>2, <1>5, <1>6
<1>8. /\ \A m \in Plains(graph) \ ts : state'[m] = state[m]
      /\ \A s \in Nodes \ Plains(graph) :
           state'[s] = state[s] \/ (state'[s] = no_state /\ s \in SideOf(graph, ts))
  BY <1>1, <1>5, <1>6
<1>9. /\ \A c \in Nodes : waiting_parents'[c] \subseteq waiting_parents[c]
      /\ \A c \in Nodes \ ts : waiting_parents'[c] = waiting_parents[c]
  BY <1>6
<1>10. Made(ts)
  BY <1>7, <1>8 DEF Made
<1>11. QED
  BY <1>2, <1>6, <1>8, <1>9, <1>10 DEF EndOf

\* So a task ends, whatever the failure policy.
LEMMA Concluded ==
  ASSUME graph \in Graphs, Ordinary(graph), WalkTypes, CandInv, WaitInv,
         NEW t \in Task, Targets(t) \subseteq Plains(graph), NEW ok, Conclude(t, ok)
  PROVE  /\ EndOf(Targets(t)) /\ UNCHANGED mode
         /\ IF (ok /\ ~NoWayToMake(t)) \/ mode = "ignore" THEN Made(Targets(t))
            ELSE Lost(Targets(t))
<1> DEFINE ts == Targets(t)
<1> DEFINE good == (ok /\ ~NoWayToMake(t)) \/ mode = "ignore"
<1>1. /\ \/ good /\ Executed(ts)
         \/ ~good /\ mode # "ignore" /\ FailContinue(ts)
         \/ ~good /\ mode # "ignore" /\ FailStop(ts)
      /\ UNCHANGED <<graph, mode, waiting_s_e, implicit, top_targets_left, current_top>>
      /\ ts \in SUBSET Plains(graph) /\ ts \in SUBSET Nodes /\ {current_top} \in SUBSET Nodes
  BY TaskFields DEF Conclude, DoFailed, WalkTypes
<1> HIDE DEF ts, good
<1>2. CASE good /\ Executed(ts)
  BY <1>1, <1>2, ExecutedEnd DEF ts, good
<1>3. CASE ~good /\ mode # "ignore" /\ FailContinue(ts)
  BY <1>1, <1>3, FailedEnd DEF FailContinue, ts, good
<1>4. CASE ~good /\ mode # "ignore" /\ FailStop(ts)
  BY <1>1, <1>4, FailedEnd DEF FailStop, ts, good
<1>5. QED
  BY <1>1, <1>2, <1>3, <1>4

\* What is common to the ends of a task in hand and of one whose result is taken.
EndingWith(t) ==
  /\ t \in Task /\ t.targets = graph.targets[t.node] /\ Targets(t) \subseteq Plains(graph)
  /\ EndOf(Targets(t)) /\ UNCHANGED mode
  /\ task' = << >> /\ (task # << >> => task[1] = t)
  /\ Flying' \subseteq Flying
  /\ \A u \in Flying' : /\ OutOf(graph, t) \cap OutOf(graph, u) = {}
                        /\ \A n \in Targets(u) : Uses(n) \cap Targets(t) = {}
  /\ on_disk' \subseteq on_disk /\ on_disk \ on_disk' \subseteq Targets(t) \cap Readable
  /\ mode = "ignore" \/ Lost(Targets(t))
       \/ (on_disk' = on_disk /\ \A n \in Targets(t) : state[n] = executing => n \in on_disk)
  /\ ~stopped => \A n \in Targets(t) : state[n] \in ActiveStates

\* What is known of the files stays true.
LEMMA EndKnows ==
  ASSUME Types, SafeInv, NEW t, EndingWith(t)
  PROVE  KnowInv'
<1> DEFINE ts == Targets(t)
<1>1. /\ graph \in Graphs /\ WalkTypes /\ Ordinary(graph) /\ ImplInv /\ FileInv /\ DiskInv
      /\ AbsentInv /\ ScanInv
  BY DEF Types, JobTypes, SafeInv, KnowInv, DiskInv
<1>2. /\ ts \in SUBSET Plains(graph) /\ Plains(graph) \subseteq Nodes
      /\ graph.derived \subseteq Plains(graph) /\ graph.derived \subseteq Nodes
  BY <1>1, PlainDeps DEF EndingWith, Plains
<1>3. /\ UNCHANGED <<graph, mode, implicit>>
      /\ scanned' \subseteq scanned /\ absent' \subseteq absent
      /\ stopped => stopped'
      /\ ~stopped' => \A c \in Nodes \ ts : waiting_parents'[c] = waiting_parents[c]
      /\ Made(ts) \/ Lost(ts)
      /\ on_disk' \subseteq on_disk /\ on_disk \ on_disk' \subseteq ts \cap Readable
      /\ mode = "ignore" \/ Lost(ts)
           \/ (on_disk' = on_disk /\ \A n \in ts : state[n] = executing => n \in on_disk)
      /\ ~stopped' => \A n \in ts : state[n] \in ActiveStates
  BY DEF EndingWith, EndOf
<1> HIDE DEF ts
<1>4. ImplInv'
  BY <1>1, <1>3 DEF ImplInv
<1>5. FileInv'
  BY <1>1, <1>3 DEF FileInv, Readable
<1>6. ASSUME NEW m \in Plains(graph)
      PROVE  \/ state'[m] = state[m] /\ (m \in ts => Made(ts) /\ waiting_parents'[m] = {})
             \/ state'[m] = failed /\ state[m] = pending
             \/ state'[m] = failed /\ m \in ts /\ Lost(ts)
             \/ /\ m \in ts /\ Made(ts) /\ state[m] = executing /\ state'[m] = executed
                /\ m \notin absent' /\ waiting_parents[m] \cap scanned' = {}
  BY <1>3, <1>6 DEF Made, Lost
<1>7. DiskInv'
  <2>1. ASSUME mode # "ignore", NEW n \in graph.derived, state'[n] \in SettledStates
        PROVE  n \in on_disk'
    <3>1. n \in Plains(graph)
      BY <1>2, <2>1
    <3>2. CASE state'[n] = state[n] /\ n \notin ts
      BY <1>1, <1>3, <2>1, <3>2 DEF DiskInv
    <3>3. CASE n \in ts
      <4>1. ~Lost(ts)
        BY <2>1, <3>3, Kinds DEF Lost
      <4>2. on_disk' = on_disk /\ (state[n] = executing => n \in on_disk)
        BY <1>3, <2>1, <3>3, <4>1
      <4>3. state[n] = executing \/ state[n] \in SettledStates
        BY <1>6, <2>1, <3>1, <4>1, Kinds
      <4>4. QED
        BY <1>1, <2>1, <4>2, <4>3 DEF DiskInv
    <3>4. QED
      BY <1>6, <2>1, <3>1, <3>2, <3>3, Kinds
  <2>2. QED
    BY <1>3, <1>5, <2>1 DEF DiskInv
<1>8. AbsentInv'
  <2>1. ASSUME NEW f \in Plains(graph), f \in absent', f \in on_disk'
        PROVE  f \in Readable /\ state'[f] \in {executing, failed}
    <3>1. f \in Readable /\ state[f] \in {executing, failed}
      BY <1>1, <1>3, <2>1 DEF AbsentInv
    <3>2. QED
      BY <1>6, <2>1, <3>1
  <2>2. QED
    BY <1>3, <2>1 DEF AbsentInv, Readable
<1>9. ScanInv'
  <2>1. ASSUME ~stopped', NEW n \in scanned' \cap graph.derived, Alone(graph, n),
               state'[n] \in {no_state, pending}, NEW f \in ToSet(graph.sources[n]) \cup implicit[n]
        PROVE  graph.includes[f] \subseteq implicit[n] \/ Excused(n, f)'
    <3>1. n \in Plains(graph) /\ n \in Nodes
      BY <1>2, <2>1
    <3>2. state[n] \in {no_state, pending}
      BY <1>6, <2>1, <3>1, States
    <3>3. graph.includes[f] \subseteq implicit[n] \/ Excused(n, f)
      BY <1>1, <1>3, <2>1, <3>2 DEF ScanInv
    <3>4. f \in Plains(graph) /\ f \in Nodes
      <4>1. implicit[n] \subseteq Inc(graph, n) /\ Deps(graph, n) \subseteq Plains(graph)
        BY <1>1, <3>1, PlainDeps DEF ImplInv
      <4>2. QED
        BY <1>2, <2>1, <4>1 DEF Deps
    <3>5. ASSUME Excused(n, f), graph.includes[f] # {} PROVE Excused(n, f)'
      <4>1. CASE state'[f] = failed
        BY <4>1 DEF Excused
      <4>2. CASE state'[f] = state[f] /\ f \notin ts
        BY <1>3, <2>1, <3>4, <3>5, <4>2 DEF Excused, Readable
      <4>3. CASE state'[f] = state[f] /\ f \in ts
        <5>1. state[f] \in ActiveStates /\ state[f] # executing /\ state[f] # failed
          BY <1>3, <2>1, <4>3, Kinds DEF Made, Lost
        <5>2. (f \notin Readable \/ state[f] \in SettledStates) /\ f \notin on_disk
          BY <3>5, <5>1, Kinds DEF Excused
        <5>3. QED
          BY <1>3, <4>3, <5>2 DEF Excused, Readable
      <4>4. CASE /\ f \in ts /\ state[f] = executing /\ state'[f] = executed
                 /\ waiting_parents[f] \cap scanned' = {}
        <5>1. n \notin waiting_parents[f]
          BY <2>1, <4>4
        <5>2. f \notin Readable /\ f \notin on_disk
          BY <3>5, <4>4, <5>1, Kinds DEF Excused
        <5>3. QED
          BY <1>3, <5>2 DEF Excused, Readable
      <4>5. QED
        BY <1>6, <3>4, <4>1, <4>2, <4>3, <4>4
    <3>6. QED
      BY <3>3, <3>5
  <2>2. QED
    BY <1>3, <2>1 DEF ScanInv
<1>10. QED
  BY <1>4, <1>7, <1>8, <1>9 DEF KnowInv

LEMMA EndKeeps ==
  ASSUME Types, SafeInv, NEW t, EndingWith(t)
  PROVE  /\ Ordinary(graph)' /\ CandInv' /\ RaisedInv' /\ WaitInv' /\ GroupInv' /\ DownInv'
         /\ VisitInv' /\ FlyInv' /\ ApartInv' /\ HandInv'
<1> DEFINE ts == Targets(t)
<1>1. /\ graph \in Graphs /\ WalkTypes /\ Ordinary(graph) /\ KnowInv /\ CandInv /\ RaisedInv
      /\ WaitInv /\ GroupInv /\ DownInv /\ VisitInv /\ FlyInv /\ ApartInv
  BY DEF Types, JobTypes, SafeInv
<1>2. /\ t \in Task /\ ts \in SUBSET Plains(graph) /\ ts \in SUBSET Nodes
      /\ \A n \in Nodes : (\E m \in ToSet(graph.targets[n]) : m \in ts) => n \in ts
      /\ \A n \in ts : ToSet(graph.targets[n]) \subseteq ts
  BY <1>1, TaskMates DEF EndingWith, Plains
<1>3. /\ UNCHANGED <<graph, mode, waiting_s_e, implicit, top_targets_left, current_top>>
      /\ scanned' \subseteq scanned /\ visited \subseteq visited'
      /\ stopped => stopped'
      /\ \A c \in Nodes : waiting_parents'[c] \subseteq waiting_parents[c]
      /\ ToSet(candidates') \subseteq Plains(graph)
  BY DEF EndingWith, EndOf
<1>4. \A m \in Plains(graph) \ ts :
        state'[m] = state[m] \/ (state[m] = pending /\ state'[m] = failed)
  BY DEF EndingWith, EndOf, Made, Lost
<1>5. \/ \A m \in ts : state'[m] = failed
      \/ \A m \in ts : /\ state'[m] = IF state[m] = executing THEN executed ELSE state[m]
                       /\ waiting_parents'[m] = {} /\ m \in visited'
  BY DEF EndingWith, EndOf, Made, Lost
<1>6. \A s \in Nodes \ Plains(graph) :
        state[s] = executing => state'[s] = executing \/ stopped' \/ s \in SideOf(graph, ts)
  BY DEF EndingWith, EndOf
<1>7. /\ task' = << >> /\ (task # << >> => task[1] = t) /\ Flying' \subseteq Flying
      /\ \A u \in Flying' : /\ OutOf(graph, t) \cap OutOf(graph, u) = {}
                            /\ \A n \in Targets(u) : Uses(n) \cap ts = {}
      /\ \A f \in Nodes \ ts : f \in on_disk' <=> f \in on_disk
  BY DEF EndingWith
<1>8. Plains(graph) \subseteq Nodes /\ \A n \in Nodes : Deps(graph, n) \subseteq Plains(graph)
  BY <1>1, PlainDeps DEF Plains
<1>9. Ordinary(graph)' /\ CandInv'
  BY <1>1, <1>3 DEF CandInv
<1> HIDE DEF ts
<1>10. WaitInv'
  <2>1. ASSUME NEW c \in Nodes, NEW p \in waiting_parents'[c]
        PROVE  /\ c \in Deps(graph, p) /\ p \in Plains(graph) /\ p \notin graph.unscannable
               /\ mode # "ignore" => state'[p] \in {pending, failed}
               /\ state'[c] \notin SettledStates
    <3>1. /\ p \in waiting_parents[c] /\ c \in Deps(graph, p) /\ p \in Plains(graph)
          /\ p \notin graph.unscannable
          /\ mode # "ignore" => state[p] \in {pending, failed}
          /\ state[c] \in SettledStates => c \in ts
      BY <1>1, <1>3, <1>7, <2>1 DEF WaitInv, ts
    <3>2. c \in Plains(graph)
      BY <1>8, <3>1
    <3>3. mode # "ignore" => state'[p] \in {pending, failed}
      BY <1>4, <1>5, <3>1, Kinds
    <3>4. state'[c] \notin SettledStates
      BY <1>4, <1>5, <2>1, <3>1, <3>2, Kinds
    <3>5. QED
      BY <3>1, <3>3, <3>4
  <2>2. QED
    BY <1>3, <2>1 DEF WaitInv
<1>11. GroupInv'
  <2>1. ASSUME ~stopped', NEW n \in Nodes, NEW m \in ToSet(graph.targets[n])
        PROVE  state'[n] \in ActiveStates <=> state'[m] \in ActiveStates
    <3>1. state[n] \in ActiveStates <=> state[m] \in ActiveStates
      BY <1>1, <1>3, <2>1 DEF GroupInv
    <3>2. CASE n \notin Plains(graph)
      <4>1. m = n
        BY <1>1, <3>2, Mates
      <4>2. QED
        BY <4>1
    <3>3. CASE n \in Plains(graph)
      <4>1. m \in Plains(graph) /\ (n \in ts <=> m \in ts)
        BY <1>1, <1>2, <3>3, Mates
      <4>2. QED
        BY <1>4, <1>5, <3>1, <3>3, <4>1, Kinds
    <3>4. QED
      BY <3>2, <3>3
  <2>2. QED
    BY <1>3, <2>1 DEF GroupInv
<1>12. VisitInv'
  <2>1. ASSUME NEW n \in Plains(graph), state'[n] \in SettledStates PROVE n \in visited'
    <3>1. CASE n \in ts
      BY <1>5, <2>1, <3>1, Kinds
    <3>2. CASE n \in Plains(graph) \ ts
      BY <1>1, <1>3, <1>4, <2>1, <3>2, Kinds DEF VisitInv
    <3>3. QED
      BY <3>1, <3>2
  <2>2. QED
    BY <1>3, <2>1 DEF VisitInv
<1>13. FlyInv'
  <2>1. ASSUME NEW u \in Flying'
        PROVE  /\ u \in Task /\ u.targets = graph.targets[u.node]
               /\ Targets(u) \subseteq Readable
               /\ \A n \in Targets(u) :
                    /\ state'[n] = executing \/ (stopped' /\ state'[n] = failed)
                    /\ DoneWith(n)'
               /\ ~stopped' => \A s \in SideOf(graph, Targets(u)) : state'[s] = executing
    <3>1. /\ u \in Task /\ u.targets = graph.targets[u.node]
          /\ Targets(u) \subseteq Readable
          /\ \A n \in Targets(u) :
               /\ state[n] = executing \/ (stopped /\ state[n] = failed)
               /\ DoneWith(n)
          /\ ~stopped => \A s \in SideOf(graph, Targets(u)) : state[s] = executing
      BY <1>1, <1>7, <2>1 DEF FlyInv
    <3>2. /\ Targets(u) \subseteq Plains(graph) /\ Targets(u) \in SUBSET Nodes
          /\ SideOf(graph, Targets(u)) \in SUBSET (Nodes \ Plains(graph))
      BY <1>1, <1>8, <3>1, PlainDeps DEF Readable
    <3>3. /\ Targets(u) \cap ts = {} /\ SideOf(graph, Targets(u)) \cap SideOf(graph, ts) = {}
          /\ \A n \in Targets(u) : Uses(n) \cap ts = {}
      BY <1>7, <2>1 DEF OutOf, ts
    <3>4. ASSUME NEW n \in Targets(u)
          PROVE  /\ state'[n] = executing \/ (stopped' /\ state'[n] = failed)
                 /\ DoneWith(n)'
      <4>1. state'[n] = executing \/ (stopped' /\ state'[n] = failed)
        BY <1>3, <1>4, <3>1, <3>2, <3>3, Kinds
      <4>2. n \in Nodes /\ n \in graph.derived /\ DoneWith(n)
        BY <3>1, <3>2 DEF Readable
      <4>3. ASSUME NEW c \in Uses(n)
            PROVE  state'[c] \in SettledStates /\ (c \in on_disk' <=> c \in on_disk)
        <5>1. c \in Plains(graph) \ ts /\ state[c] \in SettledStates
          BY <1>1, <1>8, <3>3, <4>2, <4>3, UsedArePlain DEF DoneWith
        <5>2. QED
          BY <1>4, <1>7, <1>8, <5>1, Kinds
      <4>4. UNCHANGED graph /\ implicit'[n] = implicit[n] /\ (n \in scanned' => n \in scanned)
        BY <1>3
      <4>5. QED
        BY <1>1, <4>1, <4>2, <4>3, <4>4, DoneStays
    <3>5. ASSUME ~stopped', NEW s \in SideOf(graph, Targets(u)) PROVE state'[s] = executing
      BY <1>3, <1>6, <3>1, <3>2, <3>3, <3>5
    <3>6. QED
      BY <3>1, <3>4, <3>5
  <2>2. QED
    BY <1>3, <2>1 DEF FlyInv, Readable
<1>14. ApartInv'
  BY <1>1, <1>3, <1>7 DEF ApartInv
<1>15. HandInv'
  BY <1>7 DEF HandInv
<1>16. DownInv'
  <2>1. \A m \in Plains(graph) : state[m] = failed => state'[m] = failed
    BY <1>4, <1>5, Kinds
  <2>2. ASSUME ~stopped', NEW m \in Plains(graph), state'[m] = failed
        PROVE  \/ \E c \in Deps(graph, m) : state'[c] = failed
               \/ \A k \in ToSet(graph.targets[m]) : state'[k] = failed
    <3>1. m \in Nodes /\ Deps(graph, m) \subseteq Plains(graph)
          /\ ToSet(graph.targets[m]) \subseteq Plains(graph)
      BY <1>1, <1>8, <2>2, Mates
    <3>2. CASE state[m] = failed
      BY <1>1, <1>3, <2>1, <2>2, <3>1, <3>2 DEF DownInv
    <3>3. CASE state[m] # failed
      <4>1. Lost(ts)
        BY <2>2, <3>3, States DEF EndingWith, EndOf, Made, ts
      <4>2. m \in ts => \A k \in ToSet(graph.targets[m]) : k \in ts
        BY <1>2
      <4>3. QED
        BY <2>2, <3>3, <4>1, <4>2 DEF Lost
    <3>4. QED
      BY <3>2, <3>3
  <2>3. QED
    BY <1>3, <2>2 DEF DownInv
<1>17. RaisedInv'
  <2>1. \A n \in graph.unscannable : n \in Plains(graph)
    BY <1>1, Unscanned, PlainDeps
  <2>2. \A n \in Plains(graph) : state'[n] \in {no_state, pending} => state'[n] = state[n]
    BY <1>4, <1>5, States
  <2>3. QED
    BY <1>1, <1>3, <2>1, <2>2 DEF RaisedInv
<1>18. QED
  BY <1>17, <1>9, <1>10, <1>11, <1>12, <1>13, <1>14, <1>15, <1>16

-----------------------------------------------------------------------------
(***************************************************************************)
(* A look at a candidate.                                                  *)
(***************************************************************************)

\* What a node that waits knows of is all it need know.
LEMMA WaitingKnows ==
  ASSUME graph \in Graphs, Ordinary(graph), WalkTypes, ImplInv, FileInv, AbsentInv,
         NEW n \in Readable, n \in Nodes, n \notin scanned,
         state[n] \in {no_state, pending}, implicit'[n] = ImplicitOf(n),
         UNCHANGED <<graph, on_disk>>, state'[n] = pending,
         \A m \in Nodes \ {n} : state'[m] = state[m],
         \A c \in Children(n) :
           state[c] # failed /\ (state'[c] \in {no_state, pending, executing} => n \in waiting_parents'[c]),
         NEW f \in ToSet(graph.sources[n]) \cup implicit'[n]
  PROVE  graph.includes[f] \subseteq implicit'[n] \/ Excused(n, f)'
<1>1. implicit'[n] = ThroughOf(graph, n, on_disk \ absent)
  BY ThroughSame DEF ImplicitOf, FoundIncludes
<1>2. f \in Children(n) /\ Children(n) \subseteq Plains(graph) /\ Plains(graph) \subseteq Nodes
  BY ScanFinds, PlainDeps DEF Children, Plains
<1>3. CASE f \in on_disk \ absent
  BY <1>1, <1>3, ThroughLeast
<1>4. CASE f \in on_disk \cap absent
  <2>1. state[f] = executing
    BY <1>2, <1>4 DEF AbsentInv
  <2>2. f # n /\ state'[f] = executing /\ n \in waiting_parents'[f]
    BY <1>2, <2>1, Kinds
  <2>3. QED
    BY <2>2 DEF Excused
<1>5. CASE f \notin on_disk
  <2>1. f \in Nodes /\ state[f] # failed
    BY <1>2
  <2>2. state'[f] \in {no_state, pending, executing} \/ state'[f] \in SettledStates
    <3>1. state[f] \in {no_state, pending, executing} \/ state[f] \in SettledStates
      BY <2>1, States DEF WalkTypes, SettledStates
    <3>2. QED
      BY <2>1, <3>1
  <2>3. CASE state'[f] \in SettledStates
    BY <1>5, <2>3 DEF Excused
  <2>4. CASE state'[f] \in {no_state, pending, executing}
    BY <1>2, <1>5, <2>4 DEF Excused
  <2>5. QED
    BY <2>2, <2>3, <2>4
<1>6. QED
  BY <1>3, <1>4, <1>5

\* A candidate that is not evaluated yet: what is known of the files stays true.
LEMMA ScanKeeps ==
  ASSUME graph \in Graphs, Ordinary(graph), WalkTypes, KnowInv, ~stopped,
         NEW n \in Nodes, state[n] \in {no_state, pending},
         UNCHANGED <<graph, mode, on_disk, stopped>>,
         state'[n] \in {pending, failed}, \A m \in Nodes \ {n} : state'[m] = state[m],
         \A c \in Nodes : waiting_parents[c] \subseteq waiting_parents'[c],
         \/ UNCHANGED <<scanned, implicit, absent>>
         \/ /\ Scan(n) /\ n \notin graph.unscannable
            /\ state'[n] # failed => \A c \in Children(n) :
                 state[c] # failed /\ (state'[c] \in {no_state, pending, executing} => n \in waiting_parents'[c])
  PROVE  KnowInv'
<1>1. ImplInv /\ FileInv /\ DiskInv /\ AbsentInv /\ ScanInv
  BY DEF KnowInv, DiskInv
<1>2. \A m \in Nodes : /\ state'[m] \in SettledStates <=> state[m] \in SettledStates
                       /\ state'[m] \in ActiveStates <=> state[m] \in ActiveStates
                       /\ state[m] \in {executing, failed} => state'[m] = state[m]
                       /\ state[m] \in {no_state, pending} => state'[m] \in {no_state, pending, failed}
                       /\ state'[m] \in {no_state, pending} => state[m] \in {no_state, pending}
  <2>1. ASSUME NEW m \in Nodes
        PROVE  /\ state'[m] \in SettledStates <=> state[m] \in SettledStates
               /\ state'[m] \in ActiveStates <=> state[m] \in ActiveStates
               /\ state[m] \in {executing, failed} => state'[m] = state[m]
               /\ state[m] \in {no_state, pending} => state'[m] \in {no_state, pending, failed}
               /\ state'[m] \in {no_state, pending} => state[m] \in {no_state, pending}
    <3>1. CASE state'[m] = state[m]
      BY <3>1
    <3>2. CASE m = n /\ state'[m] \in {pending, failed}
      BY <3>2, States DEF SettledStates, ActiveStates
    <3>3. QED
      BY <3>1, <3>2
  <2>2. QED
    BY <2>1
<1>3. /\ ImplInv' /\ absent' \cap on_disk = absent \cap on_disk
      /\ \A m \in Nodes : m \notin ToSet(graph.targets[n])
           => implicit'[m] = implicit[m] /\ (m \in scanned' <=> m \in scanned)
      /\ UNCHANGED <<scanned, implicit>> \/ Scan(n)
  <2>1. CASE UNCHANGED <<scanned, implicit, absent>>
    BY <1>1, <2>1 DEF ImplInv
  <2>2. CASE Scan(n)
    BY <1>1, <2>2, ScanImplicit
  <2>3. QED
    BY <2>1, <2>2
<1>4. FileInv' /\ DiskInv'
  <2>1. FileInv'
    BY <1>1 DEF FileInv
  <2>2. \A m \in graph.derived : m \in Nodes
    BY GraphFields
  <2>3. QED
    BY <1>1, <1>2, <2>1, <2>2 DEF DiskInv
<1>5. AbsentInv'
  BY <1>1, <1>2, <1>3 DEF AbsentInv, Plains, Readable
<1>6. ASSUME NEW m \in Nodes, NEW f \in Nodes, Excused(m, f)
      PROVE  Excused(m, f)'
  BY <1>2, <1>6 DEF Excused, Readable
<1>7. ScanInv'
  <2>1. ASSUME NEW m \in scanned' \cap graph.derived, Alone(graph, m),
               state'[m] \in {no_state, pending},
               NEW f \in ToSet(graph.sources[m]) \cup implicit'[m]
        PROVE  graph.includes[f] \subseteq implicit'[m] \/ Excused(m, f)'
    <3>1. m \in Nodes /\ state[m] \in {no_state, pending}
      BY <1>2, <2>1, GraphFields
    <3>2. f \in Nodes
      <4>1. implicit'[m] \subseteq Inc(graph, m) /\ Deps(graph, m) \subseteq Plains(graph)
        BY <1>3, <3>1, PlainDeps DEF ImplInv
      <4>2. QED
        BY <2>1, <4>1 DEF Deps, Plains
    <3>3. CASE implicit'[m] = implicit[m] /\ m \in scanned
      BY <1>1, <1>6, <2>1, <3>1, <3>2, <3>3 DEF ScanInv
    <3>4. CASE ~(implicit'[m] = implicit[m] /\ m \in scanned)
      <4>1. Scan(n) /\ m \in ToSet(graph.targets[n])
        BY <1>3, <2>1, <3>1, <3>4
      <4>2. m = n
        <5>1. graph.targets[m] = graph.targets[n] /\ n \in ToSet(graph.targets[n])
          BY <4>1, Mates
        <5>2. QED
          BY <2>1, <5>1 DEF Alone
      <4>3. n \notin scanned /\ implicit'[n] = ImplicitOf(n)
        BY <1>1, <2>1, <3>1, <3>4, <4>1, <4>2, ScanImplicit
      <4>4. n \in Readable /\ state'[n] = pending /\ state'[n] # failed
        <5>1. ~UNCHANGED <<scanned, implicit, absent>>
          BY <2>1, <3>1, <3>4
        <5>2. QED
          BY <2>1, <4>2, <5>1, States DEF Readable
      <4>5. QED
        BY <2>1, <4>2, <4>3, <4>4, <1>1, WaitingKnows
    <3>5. QED
      BY <3>3, <3>4
  <2>2. QED
    BY <2>1 DEF ScanInv
<1>8. QED
  BY <1>3, <1>4, <1>5, <1>7 DEF KnowInv

\* What cannot be scanned was not scanned with another node.
LEMMA ScanRaised ==
  ASSUME graph \in Graphs, Ordinary(graph), RaisedInv, UNCHANGED graph, NEW n \in Nodes,
         Scan(n), \A m \in Nodes \ {n} : state'[m] = state[m],
         n \in graph.unscannable => state'[n] \notin {no_state, pending}
  PROVE  RaisedInv'
<1>1. scanned' \subseteq scanned \cup ToSet(graph.targets[n])
  <2>1. n \in ToSet(graph.targets[n])
    BY Mates
  <2>2. QED
    BY <2>1 DEF Scan, scanVars
<1>2. ASSUME NEW m \in graph.unscannable, m \in scanned' PROVE state'[m] \notin {no_state, pending}
  <2>1. m \in Nodes /\ ToSet(graph.targets[m]) = {m}
    BY Unscanned
  <2>2. CASE m = n
    BY <1>2, <2>2
  <2>3. CASE m # n
    <3>1. m \notin ToSet(graph.targets[n])
      <4>1. ASSUME m \in ToSet(graph.targets[n]) PROVE n \in ToSet(graph.targets[m])
        BY <4>1, Mates
      <4>2. QED
        BY <2>1, <2>3, <4>1
    <3>2. m \in scanned /\ state'[m] = state[m]
      BY <1>1, <1>2, <2>1, <2>3, <3>1
    <3>3. QED
      BY <3>2 DEF RaisedInv
  <2>4. QED
    BY <2>2, <2>3
<1>3. QED
  BY <1>2 DEF RaisedInv

\* The candidate is taken from those there are.
LEMMA CandidateLeft ==
  ASSUME WalkTypes, HasCandidate
  PROVE  /\ Candidate \in ToSet(candidates) \cup ToSet(top_targets_left)
         /\ ToSet(OtherCandidates) \subseteq ToSet(candidates)
         /\ PopCandidate => /\ ToSet(top_targets_left') \subseteq ToSet(top_targets_left)
                            /\ current_top' \in ToSet(top_targets_left) \cup {current_top}
<1>1. candidates \in Seq(Nodes) /\ top_targets_left \in Seq(Nodes)
  BY DEF WalkTypes
<1>2. CASE candidates # << >>
  <2>1. Len(candidates) \in Nat \ {0} /\ DOMAIN candidates = 1 .. Len(candidates)
    BY <1>1, <1>2
  <2>2. Last(candidates) \in ToSet(candidates)
    BY <2>1 DEF Last, ToSet
  <2>3. ToSet(Front(candidates)) \subseteq ToSet(candidates)
    <3>1. Front(candidates) = SubSeq(candidates, 1, Len(candidates) - 1)
      BY DEF Front
    <3>2. /\ DOMAIN Front(candidates) = 1 .. Len(candidates) - 1
          /\ \A i \in 1 .. Len(candidates) - 1 : Front(candidates)[i] = candidates[i]
      BY <1>1, <2>1, <3>1
    <3>3. \A i \in 1 .. Len(candidates) - 1 : i \in DOMAIN candidates
      BY <2>1
    <3>4. QED
      BY ONLY <3>2, <3>3 DEF ToSet
  <2>4. QED
    BY <1>1, <1>2, <2>2, <2>3 DEF Candidate, OtherCandidates, PopCandidate
<1>3. CASE candidates = << >>
  <2>1. top_targets_left # << >>
    BY <1>3 DEF HasCandidate
  <2>2. Head(top_targets_left) \in ToSet(top_targets_left)
    BY ONLY <1>1, <2>1, TailElements
  <2>3. ToSet(Tail(top_targets_left)) \subseteq ToSet(top_targets_left)
    <3>1. /\ DOMAIN Tail(top_targets_left) = 1 .. Len(top_targets_left) - 1
          /\ \A i \in 1 .. Len(top_targets_left) - 1 :
               /\ Tail(top_targets_left)[i] = top_targets_left[i + 1]
               /\ i + 1 \in DOMAIN top_targets_left
      BY <1>1, <2>1
    <3>2. QED
      BY ONLY <3>1 DEF ToSet
  <2>4. ToSet(<< >>) = {}
    BY DEF ToSet
  <2>5. QED
    BY <1>1, <1>3, <2>2, <2>3, <2>4 DEF Candidate, OtherCandidates, PopCandidate
<1>4. QED
  BY <1>2, <1>3

\* The candidate is no side effect, and neither are the ones left.
LEMMA PlainCandidate ==
  ASSUME WalkTypes, CandInv, HasCandidate
  PROVE  /\ Candidate \in Plains(graph) /\ ToSet(OtherCandidates) \subseteq Plains(graph)
         /\ PopCandidate => ToSet(top_targets_left') \cup {current_top'} \subseteq Plains(graph)
BY CandidateLeft DEF CandInv

\* Nodes not looked at, and pending ones, are marked pending or failed.
LEMMA MarksKeep ==
  ASSUME graph \in Graphs, Ordinary(graph), KnowInv, GroupInv, DownInv,
         VisitInv, FlyInv, ApartInv,
         Flying' = Flying, UNCHANGED <<graph, on_disk, stopped, visited>>,
         \A m \in Nodes :
           \/ state'[m] = state[m]
           \/ /\ state[m] \in {no_state, pending}
              /\ \/ state'[m] = pending
                 \/ state'[m] = failed /\ (stopped \/ \E c \in Deps(graph, m) : state[c] = failed),
         \A m \in Nodes : stopped \/ state[m] \in ActiveStates =>
           implicit'[m] = implicit[m] /\ (m \in scanned' => m \in scanned)
  PROVE  GroupInv' /\ DownInv' /\ VisitInv' /\ FlyInv' /\ ApartInv'
<1>1. \A m \in Nodes : /\ state'[m] \in ActiveStates <=> state[m] \in ActiveStates
                       /\ state'[m] \in SettledStates <=> state[m] \in SettledStates
                       /\ state'[m] = executing <=> state[m] = executing
                       /\ state[m] = failed => state'[m] = failed
  <2>1. ASSUME NEW m \in Nodes
        PROVE  /\ state'[m] \in ActiveStates <=> state[m] \in ActiveStates
               /\ state'[m] \in SettledStates <=> state[m] \in SettledStates
               /\ state'[m] = executing <=> state[m] = executing
               /\ state[m] = failed => state'[m] = failed
    <3>1. CASE state'[m] = state[m]
      BY <3>1
    <3>2. CASE state[m] \in {no_state, pending} /\ state'[m] \in {pending, failed}
      BY <3>2, States, Kinds
    <3>3. QED
      BY <3>1, <3>2
  <2>2. QED
    BY <2>1
<1>2. GroupInv'
  <2>1. \A n \in Nodes : ToSet(graph.targets[n]) \subseteq Nodes
    BY Mates
  <2>2. QED
    BY <1>1, <2>1 DEF GroupInv
<1>3. VisitInv'
  BY <1>1 DEF VisitInv, Plains
<1>4. ApartInv'
  BY DEF ApartInv
<1>5. FlyInv'
  <2>1. ASSUME NEW u \in Flying
        PROVE  /\ u \in Task /\ u.targets = graph.targets[u.node]
               /\ Targets(u) \subseteq Readable
               /\ \A n \in Targets(u) :
                    /\ state'[n] = executing \/ (stopped /\ state'[n] = failed)
                    /\ DoneWith(n)'
               /\ ~stopped => \A s \in SideOf(graph, Targets(u)) : state'[s] = executing
    <3>1. /\ u \in Task /\ u.targets = graph.targets[u.node]
          /\ Targets(u) \subseteq Readable
          /\ \A n \in Targets(u) :
               /\ state[n] = executing \/ (stopped /\ state[n] = failed)
               /\ DoneWith(n)
          /\ ~stopped => \A s \in SideOf(graph, Targets(u)) : state[s] = executing
      BY DEF FlyInv
    <3>2. Targets(u) \in SUBSET Nodes /\ SideOf(graph, Targets(u)) \in SUBSET Nodes
      BY <3>1, TaskFields, PlainDeps DEF Readable
    <3>3. ASSUME NEW n \in Targets(u) PROVE DoneWith(n)'
      <4>1. n \in Nodes /\ n \in graph.derived /\ DoneWith(n)
        BY <3>1, <3>2 DEF Readable
      <4>2. stopped \/ state[n] \in ActiveStates
        BY <3>1, Kinds
      <4>3. \A c \in Uses(n) : c \in Nodes /\ state'[c] \in SettledStates
        BY <1>1, <4>1, UsedArePlain DEF DoneWith, Plains
      <4>4. QED
        BY <4>1, <4>2, <4>3, DoneStays
    <3>4. QED
      BY <1>1, <3>1, <3>2, <3>3
  <2>2. QED
    BY <2>1 DEF FlyInv, Readable
<1>6. DownInv'
  <2>1. ASSUME ~stopped, NEW m \in Plains(graph), state'[m] = failed
        PROVE  \/ \E c \in Deps(graph, m) : state'[c] = failed
               \/ \A k \in ToSet(graph.targets[m]) : state'[k] = failed
    <3>1. m \in Nodes /\ Deps(graph, m) \subseteq Nodes /\ ToSet(graph.targets[m]) \subseteq Nodes
      BY PlainDeps, Mates DEF Plains
    <3>2. \/ \E c \in Deps(graph, m) : state[c] = failed
          \/ \A k \in ToSet(graph.targets[m]) : state[k] = failed
      BY <2>1, <3>1, States DEF DownInv
    <3>3. QED
      BY <1>1, <3>1, <3>2
  <2>2. QED
    BY <2>1 DEF DownInv
<1>7. QED
  BY <1>2, <1>3, <1>4, <1>5, <1>6

\* What was dispatched has nothing in common with an action that did not begin.
LEMMA FlyingApart ==
  ASSUME graph \in Graphs, Ordinary(graph), KnowInv, FlyInv, ~stopped, NEW u \in Flying,
         NEW ts \in SUBSET Plains(graph), \A m \in ts : state[m] \notin ActiveStates,
         \A s \in SideOf(graph, ts) : state[s] # executing
  PROVE  /\ (ts \cup SideOf(graph, ts)) \cap OutOf(graph, u) = {}
         /\ \A n \in Targets(u) : Uses(n) \cap ts = {}
<1>1. /\ u \in Task /\ Targets(u) \subseteq graph.derived
      /\ \A n \in Targets(u) : /\ state[n] = executing
                               /\ \A c \in Uses(n) : state[c] \in SettledStates
      /\ \A s \in SideOf(graph, Targets(u)) : state[s] = executing
  BY DEF FlyInv, DoneWith, Readable
<1>2. /\ Targets(u) \in SUBSET Nodes /\ ts \in SUBSET Nodes /\ Targets(u) \subseteq Plains(graph)
      /\ SideOf(graph, Targets(u)) \cap Plains(graph) = {}
      /\ SideOf(graph, ts) \cap Plains(graph) = {}
  BY <1>1, TaskFields, PlainDeps DEF Plains
<1>3. ts \cap Targets(u) = {} /\ \A n \in Targets(u) : Uses(n) \cap ts = {}
  BY <1>1, Kinds
<1>4. SideOf(graph, ts) \cap SideOf(graph, Targets(u)) = {}
  BY <1>1
<1>5. QED
  BY <1>2, <1>3, <1>4 DEF OutOf

\* A candidate's state, before and after it is marked.
LEMMA CandidateState ==
  ASSUME graph \in Graphs, Ordinary(graph), WalkTypes, CandInv, GroupInv, Considered
  PROVE  /\ Candidate \in Nodes /\ Candidate \in Plains(graph) /\ ~stopped
         /\ RaisedInv => (Candidate \in graph.unscannable <=> ScanFails(Candidate))
         /\ state[Candidate] \in {no_state, pending}
         /\ \A m \in Nodes : Marked[m] = IF m = Candidate THEN pending ELSE state[m]
         /\ \A m \in ToSet(graph.targets[Candidate]) :
              m \in Plains(graph) /\ state[m] \notin ActiveStates
<1>1. HasCandidate /\ state[Candidate] <= pending /\ ~stopped
  BY DEF Considered, HasCandidate
<1>2. Candidate \in Nodes /\ Candidate \in Plains(graph)
  BY <1>1, CandidateTypes, PlainCandidate
<1>3. state[Candidate] \in {no_state, pending}
  <2>1. state[Candidate] \in 0 .. 5
    BY <1>2, States DEF WalkTypes
  <2>2. QED
    BY <1>1, <2>1, States
<1>4. \A m \in Nodes : Marked[m] = IF m = Candidate THEN pending ELSE state[m]
  BY <1>2 DEF Marked, WalkTypes
<1>5. state[Candidate] \notin ActiveStates
  BY <1>3, Kinds
<1>6. QED
  BY <1>1, <1>2, <1>3, <1>4, <1>5, Mates DEF GroupInv, RaisedInv, ScanFails

\* The candidate waits for its children, or is given up because one of them is.
LEMMA WaitKeeps ==
  ASSUME Types, SafeInv, LookForTask, WaitForChildren, UNCHANGED visited, Flying' = Flying
  PROVE  /\ KnowInv' /\ CandInv' /\ RaisedInv' /\ WaitInv' /\ GroupInv' /\ DownInv' /\ VisitInv'
         /\ FlyInv' /\ ApartInv' /\ HandInv'
<1> DEFINE n == Candidate
           not_ready == {c \in Children(n) : Marked[c] <= executing}
<1>1. /\ graph \in Graphs /\ WalkTypes /\ Ordinary(graph) /\ KnowInv /\ CandInv /\ WaitInv
      /\ GroupInv /\ DownInv /\ VisitInv /\ FlyInv /\ ApartInv /\ RaisedInv
      /\ ImplInv /\ FileInv /\ DiskInv /\ AbsentInv /\ ScanInv
  BY DEF Types, JobTypes, SafeInv, KnowInv, DiskInv
<1>2. /\ Considered /\ ~ScanFails(n) /\ Scan(n) /\ PopCandidate /\ UNCHANGED waiting_s_e
      /\ task' = << >> /\ task = << >> /\ UNCHANGED <<graph, mode, on_disk, stopped>>
  BY DEF LookForTask, FindNextReadyNode, WaitForChildren
<1>3. /\ n \notin graph.unscannable /\ n \in Nodes /\ n \in Plains(graph) /\ state[n] \in {no_state, pending} /\ ~stopped
      /\ \A m \in Nodes : Marked[m] = IF m = n THEN pending ELSE state[m]
      /\ \A m \in ToSet(graph.targets[n]) : m \in Plains(graph) /\ state[m] \notin ActiveStates
  BY <1>1, <1>2, CandidateState
<1>4. Children(n) \subseteq Deps(graph, n) /\ Deps(graph, n) \subseteq Plains(graph)
  BY <1>1, <1>3, ScanFinds, PlainDeps
<1>5. \/ /\ state' = [state EXCEPT ![n] = failed] /\ UNCHANGED waiting_parents
         /\ \E c \in Children(n) : state[c] = failed
      \/ /\ state' = Marked /\ \A c \in Children(n) : state[c] # failed
         /\ waiting_parents' = [c \in Nodes |->
              IF c \in not_ready THEN waiting_parents[c] \cup {n} ELSE waiting_parents[c]]
  BY DEF WaitForChildren
<1>6. ToSet(candidates') \subseteq ToSet(OtherCandidates) \cup Children(n)
  BY <1>1, WaitingCandidates
<1>7. \A m \in Nodes : stopped \/ state[m] \in ActiveStates =>
        implicit'[m] = implicit[m] /\ (m \in scanned' => m \in scanned)
  BY <1>1, <1>2, <1>3, ScanImplicit
<1>8. CandInv'
  <2>1. /\ ToSet(OtherCandidates) \subseteq Plains(graph)
        /\ ToSet(top_targets_left') \cup {current_top'} \subseteq Plains(graph)
    BY <1>1, <1>2, PlainCandidate DEF Considered
  <2>2. ToSet(candidates') \subseteq Plains(graph)
    BY <1>4, <1>6, <2>1
  <2>3. QED
    BY <1>1, <1>2, <2>1, <2>2 DEF CandInv
<1>9. \A c \in Children(n) : Marked[c] \in {no_state, pending, executing} => c \in not_ready
  BY States
<1> HIDE DEF n
<1>10. /\ \A m \in Nodes \ {n} : state'[m] = state[m]
       /\ \/ state'[n] = pending
          \/ state'[n] = failed /\ \E c \in Deps(graph, n) : state[c] = failed
  BY <1>1, <1>3, <1>4, <1>5 DEF WalkTypes
<1>11. GroupInv' /\ DownInv' /\ VisitInv' /\ FlyInv' /\ ApartInv'
  BY <1>1, <1>2, <1>3, <1>7, <1>10, MarksKeep
<1>12. KnowInv'
  <2>1. \A c \in Nodes : waiting_parents[c] \subseteq waiting_parents'[c]
    BY <1>5
  <2>2. ASSUME state'[n] # failed, NEW c \in Children(n)
        PROVE  /\ state[c] # failed
               /\ state'[c] \in {no_state, pending, executing} => n \in waiting_parents'[c]
    <3>1. state' = Marked /\ state[c] # failed /\ c \in Nodes
      BY <1>1, <1>3, <1>4, <1>5, <2>2 DEF WalkTypes, Plains
    <3>2. waiting_parents' = [k \in Nodes |->
            IF k \in not_ready THEN waiting_parents[k] \cup {n} ELSE waiting_parents[k]]
      <4>1. state' # [state EXCEPT ![n] = failed]
        BY <1>1, <1>3, <2>2 DEF WalkTypes
      <4>2. QED
        BY <1>5, <4>1
    <3>3. QED
      BY <1>9, <2>2, <3>1, <3>2
  <2>3. state'[n] \in {pending, failed}
    BY <1>10
  <2>4. QED
    BY <1>1, <1>2, <1>3, <1>10, <2>1, <2>2, <2>3, ScanKeeps
<1>13. WaitInv'
  <2>1. ASSUME NEW c \in Nodes, NEW p \in waiting_parents'[c]
        PROVE  /\ c \in Deps(graph, p) /\ p \in Plains(graph) /\ p \notin graph.unscannable
               /\ mode # "ignore" => state'[p] \in {pending, failed}
               /\ state'[c] \notin SettledStates
    <3>1. CASE p \in waiting_parents[c]
      <4>1. /\ c \in Deps(graph, p) /\ p \in Plains(graph) /\ p \notin graph.unscannable
            /\ mode # "ignore" => state[p] \in {pending, failed}
            /\ state[c] \notin SettledStates
        BY <1>1, <1>2, <3>1 DEF WaitInv
      <4>2. p \in Nodes
        BY <4>1 DEF Plains
      <4>3. QED
        BY <1>10, <4>1, <4>2, <2>1, Kinds
    <3>2. CASE p \notin waiting_parents[c]
      <4>1. /\ state' = Marked /\ p = n /\ c \in Deps(graph, n) /\ Marked[c] <= executing
        BY <1>3, <1>4, <1>5, <2>1, <3>2 DEF not_ready
      <4>2. state'[p] = pending
        BY <1>3, <4>1
      <4>3. Marked[c] \notin SettledStates
        BY <4>1, States DEF SettledStates
      <4>4. QED
        BY <1>3, <4>1, <4>2, <4>3
    <3>3. QED
      BY <3>1, <3>2
  <2>2. QED
    BY <1>2, <2>1 DEF WaitInv
<1>14. HandInv'
  BY <1>2 DEF HandInv
<1>15. RaisedInv'
  BY <1>1, <1>2, <1>3, <1>10, ScanRaised
<1>16. QED
  BY <1>15, <1>8, <1>11, <1>12, <1>13, <1>14

\* The candidate waits for a side effect.
LEMMA PutOffKeeps ==
  ASSUME Types, SafeInv, LookForTask, WaitForSideEffect, Flying' = Flying
  PROVE  /\ KnowInv' /\ CandInv' /\ RaisedInv' /\ WaitInv' /\ GroupInv' /\ DownInv' /\ VisitInv'
         /\ FlyInv' /\ ApartInv' /\ HandInv'
<1> DEFINE n == Candidate
           ts == ToSet(graph.targets[n])
<1>1. /\ graph \in Graphs /\ WalkTypes /\ Ordinary(graph) /\ KnowInv /\ CandInv /\ WaitInv
      /\ GroupInv /\ DownInv /\ VisitInv /\ FlyInv /\ ApartInv /\ RaisedInv
      /\ ImplInv /\ FileInv /\ DiskInv /\ AbsentInv /\ ScanInv
  BY DEF Types, JobTypes, SafeInv, KnowInv, DiskInv
<1>2. /\ Considered /\ ~ScanFails(n) /\ PopCandidate /\ state' = Marked /\ Scan(n)
      /\ candidates' = OtherCandidates /\ task = << >> /\ task' = << >>
      /\ waiting_s_e' = [s \in Nodes |->
           IF s \in BusySideEffects(n) THEN waiting_s_e[s] \cup {n} ELSE waiting_s_e[s]]
      /\ UNCHANGED <<graph, mode, on_disk, stopped, visited, waiting_parents>>
  BY DEF LookForTask, FindNextReadyNode, WaitForSideEffect, ChildrenFinished
<1>3. /\ n \in Nodes /\ n \in Plains(graph) /\ state[n] \in {no_state, pending} /\ ~stopped
      /\ n \notin graph.unscannable
      /\ \A m \in Nodes : Marked[m] = IF m = n THEN pending ELSE state[m]
      /\ \A m \in ts : m \in Plains(graph) /\ state[m] \notin ActiveStates
  BY <1>1, <1>2, CandidateState
<1>4. /\ ToSet(OtherCandidates) \subseteq Plains(graph)
      /\ ToSet(top_targets_left') \cup {current_top'} \subseteq Plains(graph)
  BY <1>1, <1>2, PlainCandidate DEF Considered
<1> HIDE DEF n, ts
<1>5. /\ state'[n] = pending /\ \A m \in Nodes \ {n} : state'[m] = state[m]
      /\ \A c \in Children(n) : state'[c] \in {up_to_date, executed}
  BY <1>2, <1>3 DEF WaitForSideEffect, ChildrenFinished, n
<1>6. GroupInv' /\ DownInv' /\ VisitInv' /\ FlyInv' /\ ApartInv'
  <2>1. \A m \in Nodes : stopped \/ state[m] \in ActiveStates =>
          implicit'[m] = implicit[m] /\ (m \in scanned' => m \in scanned)
    BY <1>1, <1>2, <1>3, ScanImplicit DEF ts
  <2>2. QED
    BY <1>1, <1>2, <1>3, <1>5, <2>1, MarksKeep
<1>7. KnowInv'
  <2>1. ASSUME NEW c \in Children(n)
        PROVE  state[c] # failed /\ state'[c] \notin {no_state, pending, executing}
    <3>1. c \in Nodes
      BY <1>1, <1>3, <2>1, ChildrenTypes
    <3>2. QED
      BY <1>5, <2>1, <3>1, States
  <2>2. QED
    BY <1>1, <1>2, <1>3, <1>5, <2>1, ScanKeeps
<1>8. WaitInv'
  <2>1. ASSUME NEW c \in Nodes, NEW p \in waiting_parents[c]
        PROVE  /\ c \in Deps(graph, p) /\ p \in Plains(graph) /\ p \notin graph.unscannable
               /\ mode # "ignore" => state'[p] \in {pending, failed}
               /\ state'[c] \notin SettledStates
    <3>1. /\ c \in Deps(graph, p) /\ p \in Plains(graph) /\ p \notin graph.unscannable
          /\ mode # "ignore" => state[p] \in {pending, failed}
          /\ state[c] \notin SettledStates
      BY <1>1, <1>2 DEF WaitInv
    <3>2. p \in Nodes
      BY <3>1 DEF Plains
    <3>3. QED
      BY <1>5, <3>1, <3>2, Kinds
  <2>2. QED
    BY <1>2, <2>1 DEF WaitInv
<1>9. RaisedInv'
  BY <1>1, <1>2, <1>3, <1>5, ScanRaised
<1>10. CandInv'
  BY <1>1, <1>2, <1>3, <1>4 DEF CandInv
<1>11. HandInv'
  BY <1>2 DEF HandInv
<1>12. QED
  BY <1>6, <1>7, <1>8, <1>9, <1>10, <1>11

\* When the candidate's children are finished, none of the targets of its action
\* was begun or given up.
LEMMA FinishedCandidate ==
  ASSUME graph \in Graphs, Ordinary(graph), WalkTypes, KnowInv, CandInv, GroupInv, DownInv,
         ChildrenFinished
  PROVE  /\ \A c \in Children(Candidate) : c \in Plains(graph) /\ state[c] \in SettledStates
         /\ \A m \in ToSet(graph.targets[Candidate]) : state[m] \in {no_state, pending}
<1> DEFINE n == Candidate
           ts == ToSet(graph.targets[n])
<1>1. /\ Considered /\ ImplInv /\ FileInv /\ AbsentInv
      /\ \A c \in Children(n) : Marked[c] \in {up_to_date, executed}
  BY DEF ChildrenFinished, KnowInv, DiskInv
<1>2. /\ n \in Nodes /\ n \in Plains(graph) /\ state[n] \in {no_state, pending} /\ ~stopped
      /\ \A m \in Nodes : Marked[m] = IF m = n THEN pending ELSE state[m]
      /\ \A m \in ts : m \in Plains(graph) /\ state[m] \notin ActiveStates
  BY <1>1, CandidateState
<1>3. /\ n \in ts /\ Plains(graph) \subseteq Nodes
      /\ \A m \in ts : graph.targets[m] = graph.targets[n] /\ Deps(graph, m) = Deps(graph, n)
      /\ Deps(graph, n) \subseteq Plains(graph) /\ Children(n) \subseteq Deps(graph, n)
      /\ ~Alone(graph, n) => Children(n) = Deps(graph, n)
  BY <1>1, <1>2, Mates, PlainDeps, ScanFinds DEF Plains
<1> HIDE DEF n, ts
<1>4. ASSUME NEW c \in Children(n) PROVE c \in Plains(graph) /\ state[c] \in SettledStates
  <2>1. c \in Nodes /\ c \in Plains(graph) /\ Marked[c] \in {up_to_date, executed}
    BY <1>1, <1>3, <1>4
  <2>2. QED
    BY <1>2, <2>1, States DEF SettledStates
<1>5. ASSUME NEW m \in ts, state[m] = failed PROVE FALSE
  <2>1. m \in Plains(graph) /\ n \in ToSet(graph.targets[m]) /\ state[n] # failed
    BY <1>2, <1>3, <1>5, States DEF ts
  <2>2. PICK c \in Deps(graph, n) : state[c] = failed
    BY <1>2, <1>3, <1>5, <2>1 DEF DownInv
  <2>3. ~Alone(graph, n)
    BY <1>3, <1>5, <2>1 DEF Alone, ts
  <2>4. QED
    BY <1>3, <1>4, <2>2, <2>3, Kinds
<1>6. ASSUME NEW m \in ts PROVE state[m] \in {no_state, pending}
  <2>1. state[m] \in NodeStates /\ state[m] \notin ActiveStates /\ state[m] # failed
    BY <1>2, <1>3, <1>5 DEF WalkTypes
  <2>2. QED
    BY <2>1, States DEF ActiveStates
<1>7. QED
  BY <1>4, <1>6 DEF n, ts

\* The candidate's targets are up to date, or will be made, or its scan raised.
LEMMA EvaluateKeeps ==
  ASSUME Types, SafeInv, LookForTask, Evaluate \/ ScanRaises, Flying' = Flying
  PROVE  /\ KnowInv' /\ CandInv' /\ RaisedInv' /\ WaitInv' /\ GroupInv' /\ DownInv' /\ VisitInv'
         /\ FlyInv' /\ ApartInv' /\ HandInv'
<1> DEFINE n == Candidate
           ts == ToSet(graph.targets[n])
           t == TaskFor(n, n \in graph.unscannable)
<1>1. /\ graph \in Graphs /\ WalkTypes /\ Ordinary(graph) /\ KnowInv /\ CandInv /\ WaitInv
      /\ GroupInv /\ DownInv /\ VisitInv /\ FlyInv /\ ApartInv /\ RaisedInv
      /\ ImplInv /\ FileInv /\ DiskInv /\ AbsentInv /\ ScanInv
  BY DEF Types, JobTypes, SafeInv, KnowInv, DiskInv
<1>2. /\ Considered /\ PopCandidate /\ Scan(n) /\ candidates' = OtherCandidates
      /\ task = << >> /\ task' = <<t>>
      /\ n \notin graph.unscannable =>
           /\ ChildrenFinished /\ BusySideEffects(n) = {}
           /\ \A c \in Children(n) : Marked[c] \in {up_to_date, executed}
      /\ UNCHANGED <<graph, mode, on_disk, stopped, waiting_parents, waiting_s_e>>
      /\ MakeReady(n, n \in graph.unscannable)
  <2>1. Considered
    BY DEF Evaluate, ScanRaises, ChildrenFinished
  <2>2. n \in graph.unscannable <=> ScanFails(n)
    BY <1>1, <2>1, CandidateState
  <2>3. CASE Evaluate
    <3>1. n \notin graph.unscannable
      BY <2>2, <2>3 DEF Evaluate, ChildrenFinished
    <3>2. MakeReady(n, n \in graph.unscannable)
      <4>1. (n \in graph.unscannable) = FALSE
        BY <3>1
      <4>2. MakeReady(n, FALSE)
        BY <2>3 DEF Evaluate
      <4>3. QED
        BY <4>1, <4>2
    <3>3. QED
      BY <2>1, <2>3, <3>2
      DEF LookForTask, FindNextReadyNode, Evaluate, ChildrenFinished, MakeReady
  <2>4. CASE ScanRaises
    <3>1. n \in graph.unscannable
      BY <2>2, <2>4 DEF ScanRaises
    <3>2. MakeReady(n, n \in graph.unscannable)
      BY <2>4, <3>1 DEF ScanRaises
    <3>3. QED
      BY <2>1, <2>4, <3>1, <3>2 DEF LookForTask, FindNextReadyNode, ScanRaises, MakeReady
  <2>5. QED
    BY <2>3, <2>4
<1>3. /\ n \in Nodes /\ n \in Plains(graph) /\ state[n] \in {no_state, pending} /\ ~stopped
      /\ \A m \in Nodes : Marked[m] = IF m = n THEN pending ELSE state[m]
      /\ \A m \in ts : m \in Plains(graph) /\ state[m] \notin ActiveStates
  BY <1>1, <1>2, CandidateState
<1>4. \/ /\ state' = [m \in Nodes |-> IF m \in ts THEN up_to_date ELSE state[m]]
         /\ visited' = visited \cup ts /\ (n \in graph.derived => ts \subseteq on_disk)
      \/ /\ n \in graph.derived /\ UNCHANGED visited
         /\ state' = [m \in Nodes |->
              IF m \in ts \cup SideEffects(ts) THEN executing ELSE state[m]]
  BY <1>2 DEF MakeReady
<1>5. /\ t.node = n /\ t.targets = graph.targets[n] /\ Targets(t) = ts
      /\ t.exception <=> n \in graph.unscannable
  BY DEF TaskFor, Targets
<1>6. /\ n \in ts /\ ts \in SUBSET Nodes /\ ts \in SUBSET Plains(graph)
      /\ \A m \in ts : graph.targets[m] = graph.targets[n] /\ Deps(graph, m) = Deps(graph, n)
      /\ \A m \in ts : m \in graph.derived <=> n \in graph.derived
      /\ \A m \in Nodes \ ts : m \notin ToSet(graph.targets[n])
      /\ SideOf(graph, ts) = graph.side_effects[n]
      /\ n \in graph.unscannable => ts = {n} /\ SideOf(graph, ts) = {} /\ n \in graph.derived
  <2>1. n \in graph.unscannable => graph.side_effects[n] = {}
    BY <1>1, <1>3 DEF Ordinary
  <2>2. QED
    BY <1>1, <1>3, <2>1, Mates, Unscanned
<1>7. /\ SideEffects(ts) = SideOf(graph, ts) /\ SideOf(graph, ts) \in SUBSET Nodes
      /\ SideOf(graph, ts) \cap Plains(graph) = {} /\ Plains(graph) \subseteq Nodes
      /\ \A m \in Nodes : Deps(graph, m) \subseteq Plains(graph)
  BY <1>1, <1>6, SideSame, PlainDeps DEF Plains
<1>8. \A s \in SideOf(graph, ts) : state[s] # executing
  <2>1. n \notin graph.unscannable => \A s \in graph.side_effects[n] : Marked[s] # executing
    BY <1>2 DEF BusySideEffects
  <2>2. QED
    BY <1>3, <1>6, <1>7, <2>1
<1>9. n \notin graph.unscannable =>
        \A c \in Children(n) : c \in Plains(graph) \ ts /\ state[c] \in SettledStates
  BY <1>1, <1>2, <1>3, FinishedCandidate, Kinds
<1>10. /\ n \notin graph.unscannable =>
            \A m \in ts : /\ UsesOf(graph, on_disk, implicit'[m], m) \subseteq Children(n)
                          /\ m \in scanned' /\ m \in graph.derived
                               => ThroughOf(graph, m, on_disk) \subseteq implicit'[m]
       /\ ImplInv' /\ absent' \cap on_disk = absent \cap on_disk
       /\ \A m \in Nodes \ ts : implicit'[m] = implicit[m] /\ (m \in scanned' <=> m \in scanned)
  <2>1. n \notin graph.unscannable =>
          \A m \in ts : /\ UsesOf(graph, on_disk, implicit'[m], m) \subseteq Children(n)
                        /\ m \in scanned' /\ m \in graph.derived
                             => ThroughOf(graph, m, on_disk) \subseteq implicit'[m]
    BY <1>1, <1>2, <1>3, <1>9, CandidateUses
  <2>2. QED
    BY <1>1, <1>2, <1>3, <1>6, <2>1, ScanImplicit
<1>11. CandInv'
  <2>1. /\ ToSet(OtherCandidates) \subseteq Plains(graph)
        /\ ToSet(top_targets_left') \cup {current_top'} \subseteq Plains(graph)
    BY <1>1, <1>2, PlainCandidate DEF Considered
  <2>2. QED
    BY <1>1, <1>2, <2>1 DEF CandInv
<1> HIDE DEF n, ts, t
<1>12. /\ \A m \in ts : state[m] \in {no_state, pending}
       /\ mode # "ignore" /\ n \notin graph.unscannable
            => \A c \in Deps(graph, n) : state[c] \in SettledStates
  <2>1. ASSUME mode # "ignore", n \notin graph.unscannable, NEW c \in Deps(graph, n)
        PROVE  state[c] \in SettledStates
    <3>1. implicit'[n] \subseteq Inc(graph, n)
      BY <1>2, <1>3, <1>10 DEF ImplInv
    <3>2. UsesOf(graph, on_disk, implicit'[n], n) \subseteq Children(n)
      BY <1>6, <1>10, <2>1
    <3>3. Deps(graph, n) \subseteq Children(n)
      BY <1>1, <1>3, <1>9, <2>1, <3>1, <3>2, UsesBound
    <3>4. QED
      BY <1>9, <2>1, <3>3
  <2>2. \A m \in ts : state[m] \in {no_state, pending}
    BY <1>1, <1>2, <1>3, <1>6, FinishedCandidate DEF n, ts
  <2>3. QED
    BY <2>1, <2>2
<1>13. /\ \A m \in Plains(graph) \ ts : state'[m] = state[m]
       /\ \A s \in Nodes \ Plains(graph) : state'[s] = state[s] \/ state'[s] = executing
       /\ \/ /\ \A m \in ts : /\ state'[m] = up_to_date /\ m \in visited'
                              /\ m \in graph.derived => m \in on_disk
             /\ \A s \in Nodes \ Plains(graph) : state'[s] = state[s]
          \/ /\ \A m \in ts : state'[m] = executing /\ m \in graph.derived
             /\ \A s \in SideOf(graph, ts) : state'[s] = executing
       /\ visited \subseteq visited'
  BY <1>4, <1>6, <1>7
<1>14. \A u \in Flying : /\ (ts \cup SideOf(graph, ts)) \cap OutOf(graph, u) = {}
                         /\ \A m \in Targets(u) : Uses(m) \cap ts = {}
  BY <1>1, <1>3, <1>6, <1>8, FlyingApart
<1>15. WaitInv'
  <2>1. ASSUME NEW c \in Nodes, NEW p \in waiting_parents[c]
        PROVE  /\ c \in Deps(graph, p) /\ p \in Plains(graph) /\ p \notin graph.unscannable
               /\ mode # "ignore" => state'[p] \in {pending, failed}
               /\ state'[c] \in SettledStates => c \in ts
    <3>1. /\ c \in Deps(graph, p) /\ p \in Plains(graph) /\ state[c] \notin SettledStates
          /\ p \notin graph.unscannable
          /\ mode # "ignore" => state[p] \in {pending, failed}
      BY <1>1, <1>2 DEF WaitInv
    <3>2. c \in Plains(graph)
      BY <1>7, <3>1
    <3>3. mode # "ignore" => p \notin ts
      BY <1>6, <1>12, <3>1
    <3>4. QED
      BY <1>13, <3>1, <3>2, <3>3
  <2>2. task'[1] = t /\ task' # << >>
    BY <1>2
  <2>3. QED
    BY <1>2, <1>5, <2>1, <2>2 DEF WaitInv
<1>16. KnowInv'
  <2>1. FileInv' /\ graph.derived \subseteq Plains(graph)
    BY <1>1, <1>2, PlainDeps DEF FileInv, Readable
  <2>2. DiskInv'
    <3>1. ASSUME mode # "ignore", NEW m \in graph.derived, state'[m] \in SettledStates
          PROVE  m \in on_disk
      <4>1. m \in Plains(graph)
        BY <2>1
      <4>2. QED
        BY <1>1, <1>13, <3>1, <4>1, Kinds DEF DiskInv
    <3>2. QED
      BY <1>2, <2>1, <3>1 DEF DiskInv
  <2>3. AbsentInv'
    <3>1. ASSUME NEW f \in Plains(graph), f \in absent', f \in on_disk
          PROVE  f \in Readable /\ state'[f] \in {executing, failed}
      <4>1. f \in Readable /\ state[f] \in {executing, failed}
        BY <1>1, <1>10, <3>1 DEF AbsentInv
      <4>2. f \notin ts
        BY <1>12, <4>1, Kinds, States
      <4>3. QED
        BY <1>13, <3>1, <4>1, <4>2
    <3>2. QED
      BY <1>2, <3>1 DEF AbsentInv, Readable
  <2>4. ScanInv'
    <3>1. ASSUME NEW m \in scanned' \cap graph.derived, Alone(graph, m),
                 state'[m] \in {no_state, pending},
                 NEW f \in ToSet(graph.sources[m]) \cup implicit'[m]
          PROVE  graph.includes[f] \subseteq implicit'[m] \/ Excused(m, f)'
      <4>1. m \in Plains(graph) /\ m \in Nodes
        BY <1>7, <2>1, <3>1
      <4>2. m \notin ts
        BY <1>13, <3>1, Kinds
      <4>3. state[m] \in {no_state, pending} /\ implicit'[m] = implicit[m] /\ m \in scanned
        BY <1>10, <1>13, <3>1, <4>1, <4>2
      <4>4. graph.includes[f] \subseteq implicit[m] \/ Excused(m, f)
        BY <1>1, <1>3, <3>1, <4>3 DEF ScanInv
      <4>5. f \in Plains(graph)
        <5>1. implicit[m] \subseteq Inc(graph, m) /\ Deps(graph, m) \subseteq Plains(graph)
          BY <1>1, <1>7, <4>1 DEF ImplInv
        <5>2. QED
          BY <3>1, <4>3, <5>1 DEF Deps
      <4>6. CASE f \notin ts
        BY <1>2, <1>13, <4>3, <4>4, <4>5, <4>6 DEF Excused, Readable
      <4>7. CASE f \in ts
        <5>1. state[f] \in {no_state, pending}
          BY <1>12, <4>7
        <5>2. ASSUME Excused(m, f)
              PROVE  f \notin on_disk /\ (f \notin Readable \/ m \in waiting_parents[f])
          BY <5>1, <5>2, Kinds, States DEF Excused
        <5>3. ASSUME Excused(m, f) PROVE Excused(m, f)'
          BY <1>2, <1>13, <4>7, <5>2, <5>3 DEF Excused, Readable
        <5>4. QED
          BY <4>3, <4>4, <5>3
      <4>8. QED
        BY <4>6, <4>7
    <3>2. QED
      BY <1>2, <3>1 DEF ScanInv
  <2>5. QED
    BY <1>10, <2>2, <2>3, <2>4 DEF KnowInv
<1>17. DownInv'
  <2>1. ASSUME NEW m \in Plains(graph), state'[m] = failed
        PROVE  \/ \E c \in Deps(graph, m) : state'[c] = failed
               \/ \A k \in ToSet(graph.targets[m]) : state'[k] = failed
    <3>1. /\ m \in Nodes /\ Deps(graph, m) \subseteq Plains(graph)
          /\ ToSet(graph.targets[m]) \subseteq Plains(graph)
      BY <1>1, <1>7, <2>1, Mates
    <3>2. \A k \in Plains(graph) : state'[k] = failed <=> state[k] = failed
      BY <1>12, <1>13, States
    <3>3. \/ \E c \in Deps(graph, m) : state[c] = failed
          \/ \A k \in ToSet(graph.targets[m]) : state[k] = failed
      BY <1>1, <1>3, <2>1, <3>2 DEF DownInv
    <3>4. QED
      BY <3>1, <3>2, <3>3
  <2>2. QED
    BY <1>2, <2>1 DEF DownInv
<1>18. GroupInv'
  <2>1. ASSUME NEW k \in Nodes, NEW m \in ToSet(graph.targets[k])
        PROVE  state'[k] \in ActiveStates <=> state'[m] \in ActiveStates
    <3>1. state[k] \in ActiveStates <=> state[m] \in ActiveStates
      BY <1>1, <1>3, <2>1 DEF GroupInv
    <3>2. CASE k \notin Plains(graph)
      <4>1. m = k
        BY <1>1, <3>2, Mates
      <4>2. QED
        BY <4>1
    <3>3. CASE k \in Plains(graph)
      <4>1. m \in Plains(graph) /\ graph.targets[m] = graph.targets[k] /\ k \in ToSet(graph.targets[k])
        BY <1>1, <3>3, Mates
      <4>2. k \in ts <=> m \in ts
        <5>1. m \in Nodes
          BY <1>7, <4>1
        <5>2. m \in ToSet(graph.targets[m])
          BY <1>1, <5>1, Mates
        <5>3. QED
          BY <1>6, <2>1, <4>1, <5>2 DEF ts
      <4>3. QED
        BY <1>13, <3>1, <3>3, <4>1, <4>2, Kinds
    <3>4. QED
      BY <3>2, <3>3
  <2>2. QED
    BY <1>2, <2>1 DEF GroupInv
<1>19. VisitInv'
  <2>1. ASSUME NEW m \in Plains(graph), state'[m] \in SettledStates PROVE m \in visited'
    BY <1>1, <1>13, <2>1, Kinds DEF VisitInv
  <2>2. QED
    BY <1>2, <2>1 DEF VisitInv
<1>20. FlyInv'
  <2>1. ASSUME NEW u \in Flying
        PROVE  /\ u \in Task /\ u.targets = graph.targets[u.node]
               /\ Targets(u) \subseteq Readable
               /\ \A k \in Targets(u) :
                    /\ state'[k] = executing
                    /\ DoneWith(k)'
               /\ \A s \in SideOf(graph, Targets(u)) : state'[s] = executing
    <3>1. /\ u \in Task /\ u.targets = graph.targets[u.node]
          /\ Targets(u) \subseteq Readable
          /\ \A k \in Targets(u) :
               /\ state[k] = executing
               /\ DoneWith(k)
          /\ \A s \in SideOf(graph, Targets(u)) : state[s] = executing
      BY <1>1, <1>3 DEF FlyInv
    <3>2. /\ Targets(u) \in SUBSET Nodes /\ Targets(u) \subseteq Plains(graph)
          /\ SideOf(graph, Targets(u)) \in SUBSET Nodes
          /\ SideOf(graph, Targets(u)) \cap Plains(graph) = {}
      BY <1>1, <3>1, TaskFields, PlainDeps DEF Readable
    <3>3. Targets(u) \cap ts = {}
      BY <1>14 DEF OutOf
    <3>4. ASSUME NEW k \in Targets(u) PROVE DoneWith(k)'
      <4>1. k \in Nodes \ ts /\ k \in graph.derived /\ DoneWith(k)
        BY <3>1, <3>2, <3>3 DEF Readable
      <4>2. \A c \in Uses(k) : state'[c] \in SettledStates
        <5>1. \A c \in Uses(k) : c \in Plains(graph) \ ts /\ state[c] \in SettledStates
          BY <1>1, <1>14, <4>1, UsedArePlain DEF DoneWith
        <5>2. QED
          BY <1>13, <5>1
      <4>3. QED
        BY <1>1, <1>2, <1>10, <4>1, <4>2, DoneStays
    <3>5. \A k \in Targets(u) : state'[k] = executing
      BY <1>13, <3>1, <3>2, <3>3
    <3>6. \A s \in SideOf(graph, Targets(u)) : state'[s] = executing
      BY <1>13, <3>1, <3>2
    <3>7. QED
      BY <3>1, <3>4, <3>5, <3>6
  <2>2. QED
    BY <1>2, <2>1 DEF FlyInv, Readable
<1>21. ApartInv'
  BY <1>1, <1>2 DEF ApartInv
<1>22. HandInv'
  <2>1. task'[1] = t
    BY <1>2
  <2>2. ASSUME n \notin graph.unscannable
        PROVE  \A m \in ts : /\ \A c \in Uses(m)' : state'[c] \in SettledStates
                             /\ m \in graph.derived => DoneWith(m)' /\ m \in Readable
    <3>1. ASSUME NEW m \in ts
          PROVE  Uses(m)' \subseteq Children(n) /\ (m \in graph.derived => m \in Readable)
      <4>1. m \notin graph.unscannable
        BY <1>1, <1>6, <2>2, <3>1, Unscanned DEF ts
      <4>2. QED
        BY <1>2, <1>10, <2>2, <3>1, <4>1 DEF Uses, Readable
    <3>2. \A c \in Children(n) : state'[c] \in SettledStates
      BY <1>9, <1>13, <2>2
    <3>3. QED
      BY <1>2, <1>10, <2>2, <3>1, <3>2 DEF DoneWith
  <2>3. SideOf(graph, ts) \subseteq Nodes \ Plains(graph)
    BY <1>7
  <2>4. HandKinds(task[1])'
    <3>1. CASE n \in graph.unscannable
      BY <1>2, <1>5, <1>6, <1>13, <2>1, <3>1 DEF HandKinds
    <3>2. CASE n \notin graph.unscannable
      BY <1>2, <1>5, <1>8, <1>13, <2>1, <2>2, <2>3, <3>2 DEF HandKinds, Readable
    <3>3. QED
      BY <3>1, <3>2
  <2>5. ASSUME NEW u \in Flying, NEW m \in Targets(u) PROVE Uses(m)' = Uses(m)
    <3>1. m \in Nodes \ ts
      BY <1>1, <1>14, TaskFields DEF FlyInv, OutOf
    <3>2. QED
      BY <1>2, <1>10, <3>1 DEF Uses
  <2>6. QED
    BY <1>2, <1>5, <1>6, <1>14, <2>1, <2>4, <2>5 DEF HandInv, OutOf
<1>23. RaisedInv'
  <2>1. ASSUME NEW m \in graph.unscannable, m \in scanned'
        PROVE  state'[m] \notin {no_state, pending}
    <3>1. m \in Plains(graph) /\ m \in Nodes
      BY <1>1, Unscanned, PlainDeps
    <3>2. CASE m \in ts
      BY <1>13, <3>2, States
    <3>3. CASE m \notin ts
      <4>1. m \in scanned /\ state'[m] = state[m]
        BY <1>10, <1>13, <2>1, <3>1, <3>3
      <4>2. QED
        BY <1>1, <4>1 DEF RaisedInv
    <3>4. QED
      BY <3>2, <3>3
  <2>2. QED
    BY <1>2, <2>1 DEF RaisedInv
<1>24. QED
  BY <1>11, <1>15, <1>18, <1>19, <1>20, <1>21, <1>22, <1>16, <1>17, <1>23

\* A look at one candidate.
LEMMA LookKeeps ==
  ASSUME Types, SafeInv, LookForTask
  PROVE  SafeInv'
<1>1. /\ graph \in Graphs /\ WalkTypes /\ JobTypes /\ Ordinary(graph) /\ KnowInv /\ CandInv
      /\ RaisedInv /\ WaitInv /\ GroupInv /\ DownInv /\ VisitInv /\ FlyInv /\ ApartInv /\ PlaceInv
      /\ ImplInv /\ FileInv /\ DiskInv /\ AbsentInv /\ ScanInv /\ ResultInv
  BY DEF Types, JobTypes, SafeInv, KnowInv, DiskInv
<1>2. PlaceInv' /\ Flying' = Flying
  BY <1>1, MainPlaces DEF LookForTask
<1>3. UNCHANGED <<graph, mode, on_disk, stopped>> /\ task = << >> /\ ResultInv'
  BY <1>1 DEF LookForTask, FindNextReadyNode, ResultInv
<1>4. CASE AlreadyHandled /\ UNCHANGED visited
  <2>1. /\ HasCandidate /\ PopCandidate /\ candidates' = OtherCandidates
        /\ UNCHANGED <<state, waiting_parents, waiting_s_e, scanned, implicit, absent, task>>
    BY <1>4 DEF AlreadyHandled, nodeVars, scanVars
  <2>2. /\ ToSet(OtherCandidates) \subseteq Plains(graph)
        /\ ToSet(top_targets_left') \cup {current_top'} \subseteq Plains(graph)
    BY <1>1, <2>1, PlainCandidate
  <2>3. CandInv'
    BY <1>1, <1>3, <2>1, <2>2 DEF CandInv
  <2>4. RaisedInv' /\ WaitInv' /\ GroupInv' /\ DownInv' /\ VisitInv' /\ ApartInv' /\ HandInv'
    BY <1>1, <1>2, <1>3, <1>4, <2>1
    DEF RaisedInv, WaitInv, GroupInv, DownInv, VisitInv, ApartInv, HandInv
  <2>5. KnowInv' /\ FlyInv'
    BY <1>1, <1>2, <1>3, <2>1
    DEF KnowInv, ImplInv, DiskInv, FileInv, AbsentInv, ScanInv, Excused, FlyInv, DoneWith, Uses, Readable
  <2>6. QED
    BY <1>1, <1>2, <1>3, <2>3, <2>4, <2>5 DEF SafeInv
<1>5. CASE WaitForChildren /\ UNCHANGED visited
  BY <1>1, <1>2, <1>3, <1>5, WaitKeeps DEF SafeInv
<1>6. CASE WaitForSideEffect
  BY <1>1, <1>2, <1>3, <1>6, PutOffKeeps DEF SafeInv
<1>7. CASE Evaluate \/ ScanRaises
  BY <1>1, <1>2, <1>3, <1>7, EvaluateKeeps DEF SafeInv
<1>8. QED
  BY <1>4, <1>5, <1>6, <1>7 DEF LookForTask, FindNextReadyNode

\* Nothing is left to look at; what was given up is not settled.
LEMMA NoMoreKeeps ==
  ASSUME Types, SafeInv, NoMoreTasks
  PROVE  SafeInv'
<1> DEFINE markable == {n \in Nodes : state[n] < up_to_date}
           doomed == IF stopped THEN WillNotBuild(ToSet(candidates), markable) ELSE {}
<1>1. /\ graph \in Graphs /\ WalkTypes /\ JobTypes /\ Ordinary(graph) /\ KnowInv /\ CandInv
      /\ WaitInv /\ GroupInv /\ DownInv /\ VisitInv /\ FlyInv /\ ApartInv /\ PlaceInv
      /\ ImplInv /\ FileInv /\ DiskInv /\ AbsentInv /\ ScanInv /\ ResultInv /\ RaisedInv
  BY DEF Types, JobTypes, SafeInv, KnowInv, DiskInv
<1>2. PlaceInv' /\ Flying' = Flying
  BY <1>1, MainPlaces DEF NoMoreTasks
<1>3. /\ state' = MarkFailed(doomed) /\ candidates' = << >> /\ task = << >>
      /\ UNCHANGED <<graph, mode, on_disk, waiting_parents, waiting_s_e, scanned, implicit, absent,
                     top_targets_left, current_top, stopped, visited, task, resultsQueue>>
  BY DEF NoMoreTasks, NoNextCandidate, scanVars
<1>4. doomed \subseteq markable /\ (~stopped => doomed = {})
  BY DEF WillNotBuild
<1> HIDE DEF doomed
<1>5. \A m \in Nodes : \/ state'[m] = state[m]
                       \/ stopped /\ state[m] < up_to_date /\ state'[m] = failed
  BY <1>3, <1>4 DEF MarkFailed
<1>6. \A m \in Nodes : /\ state'[m] \in SettledStates <=> state[m] \in SettledStates
                       /\ state[m] \in SettledStates => state'[m] = state[m]
                       /\ state[m] = failed => state'[m] = failed
                       /\ state[m] = executing => state'[m] \in {executing, failed}
  <2>1. ASSUME NEW m \in Nodes, state[m] < up_to_date
        PROVE  state[m] \notin SettledStates /\ state[m] # failed
    <3>1. state[m] \in 0 .. 5
      BY <1>1, States DEF WalkTypes
    <3>2. QED
      BY <2>1, <3>1, States DEF SettledStates
  <2>2. QED
    BY <1>5, <2>1, Kinds
<1>7. CandInv'
  <2>1. ToSet(<< >>) = {}
    BY DEF ToSet
  <2>2. QED
    BY <1>1, <1>3, <2>1 DEF CandInv
<1>8. ApartInv' /\ HandInv' /\ ResultInv'
  BY <1>1, <1>2, <1>3 DEF ApartInv, HandInv, ResultInv
<1>9. VisitInv'
  BY <1>1, <1>3, <1>6 DEF VisitInv, Plains
<1>10. GroupInv' /\ DownInv' /\ ScanInv'
  <2>1. ~stopped => state' = state
    <3>1. ASSUME ~stopped PROVE doomed = {}
      BY <1>4, <3>1
    <3>2. ASSUME doomed = {} PROVE state' = state
      BY <1>1, <1>3, <3>2 DEF MarkFailed, WalkTypes
    <3>3. QED
      BY <3>1, <3>2
  <2>2. QED
    BY <1>1, <1>3, <2>1 DEF GroupInv, DownInv, ScanInv, Excused, Readable
<1>11. WaitInv'
  <2>1. ASSUME NEW c \in Nodes, NEW p \in waiting_parents[c]
        PROVE  /\ c \in Deps(graph, p) /\ p \in Plains(graph) /\ p \notin graph.unscannable
               /\ mode # "ignore" => state'[p] \in {pending, failed}
               /\ state'[c] \notin SettledStates
    <3>1. /\ c \in Deps(graph, p) /\ p \in Plains(graph) /\ p \notin graph.unscannable
          /\ mode # "ignore" => state[p] \in {pending, failed}
          /\ state[c] \notin SettledStates
      BY <1>1, <1>3 DEF WaitInv
    <3>2. p \in Nodes
      BY <3>1 DEF Plains
    <3>3. QED
      BY <1>5, <1>6, <3>1, <3>2
  <2>2. QED
    BY <1>3, <2>1 DEF WaitInv
<1>12. FlyInv'
  <2>1. ASSUME NEW u \in Flying
        PROVE  /\ u \in Task /\ u.targets = graph.targets[u.node]
               /\ Targets(u) \subseteq Readable
               /\ \A n \in Targets(u) :
                    /\ state'[n] = executing \/ (stopped /\ state'[n] = failed)
                    /\ DoneWith(n)'
               /\ ~stopped => \A s \in SideOf(graph, Targets(u)) : state'[s] = executing
    <3>1. /\ u \in Task /\ u.targets = graph.targets[u.node]
          /\ Targets(u) \subseteq Readable
          /\ \A n \in Targets(u) :
               /\ state[n] = executing \/ (stopped /\ state[n] = failed)
               /\ DoneWith(n)
          /\ ~stopped => \A s \in SideOf(graph, Targets(u)) : state[s] = executing
      BY <1>1 DEF FlyInv
    <3>2. /\ Targets(u) \in SUBSET Nodes /\ SideOf(graph, Targets(u)) \in SUBSET Nodes
      BY <1>1, <3>1, TaskFields, PlainDeps
    <3>3. ASSUME NEW n \in Targets(u) PROVE DoneWith(n)'
      <4>1. n \in Nodes /\ n \in graph.derived /\ DoneWith(n)
        BY <3>1, <3>2 DEF Readable
      <4>2. \A c \in Uses(n) : c \in Nodes /\ state'[c] \in SettledStates
        BY <1>1, <1>6, <4>1, UsedArePlain DEF DoneWith, Plains
      <4>3. QED
        BY <1>1, <1>3, <4>1, <4>2, DoneStays
    <3>4. QED
      BY <1>5, <1>6, <3>1, <3>2, <3>3
  <2>2. QED
    BY <1>2, <1>3, <2>1 DEF FlyInv, Readable
<1>13. KnowInv'
  <2>1. ImplInv' /\ FileInv'
    BY <1>1, <1>3 DEF ImplInv, FileInv
  <2>2. DiskInv'
    BY <1>1, <1>3, <1>6, <2>1, GraphFields DEF DiskInv
  <2>3. AbsentInv'
    BY <1>1, <1>3, <1>6 DEF AbsentInv, Plains, Readable
  <2>4. QED
    BY <1>10, <2>1, <2>2, <2>3 DEF KnowInv
<1>14. RaisedInv'
  <2>1. \A n \in graph.unscannable : n \in Nodes
    BY <1>1, Unscanned
  <2>2. QED
    BY <1>1, <1>3, <1>5, <2>1, States DEF RaisedInv
<1>15. QED
  BY <1>1, <1>2, <1>3, <1>7, <1>8, <1>9, <1>10, <1>11, <1>12, <1>13, <1>14 DEF SafeInv

\* Steps that leave the nodes alone, and only write the files of tasks at work.
LEMMA RestKeeps ==
  ASSUME Types, SafeInv, Flying' = Flying, PlaceInv', ResultInv', stopped => stopped',
         UNCHANGED <<graph, mode, state, waiting_parents, waiting_s_e, scanned, implicit, absent,
                     candidates, top_targets_left, current_top, visited, task>>,
         NEW made \in SUBSET (Readable \cup SideOf(graph, Nodes)), on_disk' = on_disk \cup made,
         \A f \in made \cap Plains(graph) : state[f] = executing \/ (stopped /\ state[f] = failed)
  PROVE  SafeInv'
<1>1. /\ graph \in Graphs /\ Ordinary(graph) /\ KnowInv /\ FlyInv /\ HandInv
      /\ ImplInv /\ FileInv /\ DiskInv /\ AbsentInv /\ ScanInv
      /\ graph.derived \subseteq Plains(graph) /\ Plains(graph) \subseteq Nodes
  BY PlainDeps DEF Types, JobTypes, SafeInv, KnowInv, DiskInv, Plains
<1>2. /\ Ordinary(graph)' /\ CandInv' /\ RaisedInv' /\ WaitInv' /\ GroupInv' /\ DownInv'
      /\ VisitInv' /\ ApartInv' /\ Readable' = Readable
  BY DEF SafeInv, CandInv, RaisedInv, WaitInv, GroupInv, DownInv, VisitInv, ApartInv, Readable
<1>3. \A f \in made \cap Plains(graph) :
        f \in Readable /\ f \in graph.derived /\ state[f] \notin SettledStates
  BY Kinds DEF Plains, Readable
<1>4. ASSUME NEW n \in Nodes, \A c \in Uses(n) : state[c] \in SettledStates
      PROVE  Uses(n)' = Uses(n) /\ (n \in graph.derived /\ DoneWith(n) => DoneWith(n)')
  <2>1. \A c \in Uses(n) : c \in on_disk' <=> c \in on_disk
    BY <1>1, <1>3, <1>4, UsedArePlain
  <2>2. Uses(n)' = Uses(n)
    BY <1>1, <2>1, UsesStay DEF Uses
  <2>3. ASSUME n \in graph.derived, DoneWith(n) PROVE DoneWith(n)'
    BY <1>1, <1>4, <2>1, <2>3, DoneStays
  <2>4. QED
    BY <2>2, <2>3
<1>5. KnowInv'
  <2>1. ImplInv' /\ FileInv'
    BY <1>1 DEF ImplInv, FileInv, Readable
  <2>2. DiskInv'
    BY <1>1, <2>1 DEF DiskInv
  <2>3. AbsentInv'
    BY <1>1, <1>2, <1>3 DEF AbsentInv
  <2>4. ScanInv'
    <3>1. ASSUME ~stopped', NEW n \in scanned \cap graph.derived, Alone(graph, n),
                 state[n] \in {no_state, pending}, NEW f \in ToSet(graph.sources[n]) \cup implicit[n]
          PROVE  graph.includes[f] \subseteq implicit[n] \/ Excused(n, f)'
      <4>1. ~stopped /\ (graph.includes[f] \subseteq implicit[n] \/ Excused(n, f))
        BY <1>1, <3>1 DEF ScanInv
      <4>2. f \in Plains(graph)
        <5>1. implicit[n] \subseteq Inc(graph, n) /\ Deps(graph, n) \subseteq Plains(graph)
          BY <1>1, <3>1, PlainDeps DEF ImplInv
        <5>2. QED
          BY <3>1, <5>1 DEF Deps
      <4>3. CASE f \in made
        BY <1>2, <1>3, <4>1, <4>2, <4>3, Kinds DEF Excused
      <4>4. CASE f \notin made
        BY <1>2, <4>1, <4>4 DEF Excused
      <4>5. QED
        BY <4>3, <4>4
    <3>2. QED
      BY <3>1 DEF ScanInv
  <2>5. QED
    BY <2>1, <2>2, <2>3, <2>4 DEF KnowInv
<1>6. \A u \in Flying : \A n \in Targets(u) :
        n \in Nodes /\ n \in graph.derived /\ DoneWith(n)' /\ Uses(n)' = Uses(n)
  <2>1. ASSUME NEW u \in Flying, NEW n \in Targets(u)
        PROVE  n \in Nodes /\ n \in graph.derived /\ DoneWith(n)' /\ Uses(n)' = Uses(n)
    <3>1. n \in Nodes /\ n \in graph.derived /\ DoneWith(n)
      BY <1>1 DEF FlyInv, Readable
    <3>2. QED
      BY <1>4, <3>1 DEF DoneWith
  <2>2. QED
    BY <2>1
<1>7. FlyInv'
  BY <1>1, <1>2, <1>6 DEF FlyInv
<1>8. HandInv'
  <2>1. ASSUME task # << >> PROVE HandKinds(task[1])'
    <3>1. HandKinds(task[1]) /\ Targets(task[1]) \subseteq Nodes
      BY <1>1, <2>1 DEF HandInv
    <3>2. \A n \in Targets(task[1]) : (\A c \in Uses(n) : state[c] \in SettledStates) =>
            Uses(n)' = Uses(n) /\ (n \in graph.derived /\ DoneWith(n) => DoneWith(n)')
      BY <1>4, <3>1
    <3>3. task' = task /\ state' = state /\ graph' = graph
      OBVIOUS
    <3>4. CASE \A n \in Targets(task[1]) : DoneWith(n) /\ n \in Readable
      <4>1. \A n \in Targets(task[1]) : DoneWith(n)'
        BY <3>2, <3>4 DEF DoneWith, Readable
      <4>2. QED
        BY <1>2, <3>1, <3>2, <3>3, <4>1 DEF HandKinds
    <3>5. CASE ~\A n \in Targets(task[1]) : DoneWith(n) /\ n \in Readable
      BY <3>1, <3>2, <3>3, <3>5 DEF HandKinds
    <3>6. QED
      BY <3>4, <3>5
  <2>2. QED
    BY <1>1, <1>6, <2>1 DEF HandInv
<1>9. QED
  BY <1>2, <1>5, <1>7, <1>8 DEF SafeInv

-----------------------------------------------------------------------------
(***************************************************************************)
(* Every step keeps a build safe.                                          *)
(***************************************************************************)
LEMMA RemovedTargets == \A t : Removed(t) \subseteq Targets(t) \cap graph.derived
BY DEF Removed, Targets, ToSet

\* The results of tasks are not removed while another one has its targets.
LEMMA ResultsStay ==
  ASSUME JobTypes, ResultInv, NEW t, \A u \in Flying : OutOf(graph, t) \cap OutOf(graph, u) = {},
         resultsQueue' = resultsQueue, on_disk \ on_disk' \subseteq Targets(t)
  PROVE  ResultInv'
<1>1. ASSUME NEW i \in DOMAIN resultsQueue PROVE resultsQueue[i][1] \in Flying
  BY DEF Flying, TasksOf
<1>2. ASSUME NEW i \in DOMAIN resultsQueue
      PROVE  Targets(resultsQueue[i][1]) \cap Targets(t) = {}
  BY <1>1 DEF OutOf
<1>3. QED
  BY <1>2 DEF ResultInv

\* The task in hand ends without being dispatched.
LEMMA HandEnding ==
  ASSUME Types, SafeInv, PrepareFails \/ NothingToDo, NEW t, t = task[1]
  PROVE  /\ EndingWith(t) /\ PlaceInv' /\ ResultInv' /\ Flying' = Flying
         /\ task # << >> /\ HandKinds(t) /\ Removed(t) \subseteq Targets(t) \cap Readable
<1>1. /\ graph \in Graphs /\ WalkTypes /\ JobTypes /\ Ordinary(graph) /\ CandInv /\ WaitInv
      /\ PlaceInv /\ HandInv /\ ResultInv
  BY DEF Types, JobTypes, SafeInv
<1>2. task # << >> /\ t \in Task
  BY <1>1, AtHand DEF PrepareFails, NothingToDo, JobTypes
<1>3. /\ t.targets = graph.targets[t.node] /\ Targets(t) \subseteq Plains(graph) /\ HandKinds(t)
      /\ \A u \in Flying : /\ OutOf(graph, t) \cap OutOf(graph, u) = {}
                           /\ \A n \in Targets(u) : Uses(n) \cap Targets(t) = {}
  BY <1>1, <1>2 DEF HandInv
<1>4. PlaceInv' /\ Flying' = Flying
  BY <1>1, MainPlaces DEF PrepareFails, NothingToDo
<1>5. /\ task' = << >> /\ resultsQueue' = resultsQueue
      /\ \/ Conclude(t, FALSE) /\ on_disk' = on_disk \ Removed(t)
         \/ Conclude(t, TRUE) /\ on_disk' = on_disk /\ state[t.targets[1]] # executing
  BY DEF PrepareFails, NothingToDo
<1>6. t.targets[1] \in Targets(t)
  <2>1. t.node \in Targets(t) /\ t.targets \in Seq(Nodes)
    BY <1>1, <1>2, <1>3, TaskMates, TaskFields
  <2>2. t.targets # << >>
    BY <2>1 DEF Targets, ToSet
  <2>3. QED
    BY <2>1, <2>2 DEF Targets, ToSet
<1>7. /\ EndOf(Targets(t)) /\ UNCHANGED mode
      /\ Conclude(t, FALSE) => mode = "ignore" \/ Lost(Targets(t))
  BY <1>1, <1>2, <1>3, <1>5, Concluded
<1>8. mode = "ignore" \/ Lost(Targets(t))
        \/ (on_disk' = on_disk /\ \A n \in Targets(t) : state[n] = executing => n \in on_disk)
  <2>1. CASE PrepareFails
    BY <1>1, <1>2, <1>3, <1>7, <2>1 DEF PrepareFails
  <2>2. CASE NothingToDo
    <3>1. ~t.exception /\ state[t.targets[1]] # executing /\ on_disk' = on_disk
      BY <2>2 DEF NothingToDo, PrepareRaises, SourcesMissing
    <3>2. \A n \in Targets(t) : state[n] = up_to_date
      BY <1>3, <1>6, <3>1 DEF HandKinds
    <3>3. QED
      BY <3>1, <3>2, Kinds
  <2>3. QED
    BY <2>1, <2>2
<1>9. ~stopped => \A n \in Targets(t) : state[n] \in ActiveStates
  BY <1>3, Kinds DEF HandKinds
<1>10. /\ Removed(t) \subseteq Targets(t) \cap Readable
       /\ on_disk' \subseteq on_disk /\ on_disk \ on_disk' \subseteq Targets(t) \cap Readable
  <2>1. \A n \in Removed(t) : ~t.exception /\ n \in Targets(t) /\ state[n] # up_to_date
    BY DEF Removed, SourcesMissing, Targets, ToSet
  <2>2. \A n \in Removed(t) : n \in Readable
    BY <1>3, <2>1 DEF HandKinds
  <2>3. QED
    BY <1>5, <2>1, <2>2
<1>11. EndingWith(t)
  BY <1>2, <1>3, <1>4, <1>5, <1>7, <1>8, <1>9, <1>10 DEF EndingWith
<1>12. ResultInv'
  BY <1>1, <1>3, <1>5, <1>10, ResultsStay
<1>13. QED
  BY <1>2, <1>3, <1>4, <1>10, <1>11, <1>12

LEMMA HandEnds ==
  ASSUME Types, SafeInv, PrepareFails \/ NothingToDo
  PROVE  SafeInv'
<1>1. PICK t : t = task[1]
  OBVIOUS
<1>2. EndingWith(t) /\ PlaceInv' /\ ResultInv'
  BY <1>1, HandEnding
<1>3. QED
  BY <1>2, EndKnows, EndKeeps DEF SafeInv

\* A result is taken.
LEMMA ResultEnding ==
  ASSUME Types, SafeInv, TakeResult, NEW t, t = resultsQueue[1][1]
  PROVE  /\ EndingWith(t) /\ PlaceInv' /\ ResultInv' /\ Flying' = Flying \ {t}
         /\ t \in Flying /\ task = << >>
<1> DEFINE ok == resultsQueue[1][2]
<1>1. /\ graph \in Graphs /\ WalkTypes /\ JobTypes /\ Ordinary(graph) /\ CandInv /\ WaitInv
      /\ PlaceInv /\ FlyInv /\ ApartInv /\ ResultInv
  BY DEF Types, JobTypes, SafeInv
<1>2. PlaceInv' /\ Flying' = Flying \ {t}
  BY <1>1, MainPlaces
<1>3. t \in Task /\ t \in Flying
  <2>1. resultsQueue # << >> /\ resultsQueue \in Seq(Task \X BOOLEAN)
    BY <1>1 DEF TakeResult, JobTypes
  <2>2. t \in TasksOf(resultsQueue)
    BY ONLY <1>1, <2>1, t = resultsQueue[1][1], TakenTask DEF PlaceInv
  <2>3. QED
    BY <1>1, <2>1, <2>2, AtHand DEF Flying
<1>4. /\ task = << >> /\ task' = << >> /\ on_disk' = on_disk /\ Conclude(t, ok)
      /\ resultsQueue # << >> /\ resultsQueue' = Tail(resultsQueue)
  BY <1>1 DEF TakeResult, JobTypes
<1>5. ok => Targets(t) \subseteq on_disk
  <2>1. 1 \in DOMAIN resultsQueue
    BY <1>1, <1>4 DEF JobTypes
  <2>2. QED
    BY <1>1, <2>1 DEF ResultInv
<1> HIDE DEF ok
<1>6. /\ t.targets = graph.targets[t.node] /\ Targets(t) \subseteq Plains(graph)
      /\ \A n \in Targets(t) : state[n] = executing \/ stopped
  BY <1>1, <1>3, PlainDeps DEF FlyInv, Readable
<1>7. /\ EndOf(Targets(t)) /\ UNCHANGED mode
      /\ ok \/ mode = "ignore" \/ Lost(Targets(t))
  BY <1>1, <1>3, <1>4, <1>6, Concluded
<1>8. ASSUME NEW u \in Flying'
      PROVE  /\ OutOf(graph, t) \cap OutOf(graph, u) = {}
             /\ \A n \in Targets(u) : Uses(n) \cap Targets(t) = {}
  <2>1. u \in Flying /\ u # t
    BY <1>2
  <2>2. \A n \in Targets(t) : state[n] \notin SettledStates
    BY <1>1, <1>3, Kinds DEF FlyInv
  <2>3. QED
    BY <1>1, <1>3, <2>1, <2>2 DEF ApartInv, FlyInv, DoneWith
<1>9. ~stopped => \A n \in Targets(t) : state[n] \in ActiveStates
  BY <1>6, Kinds
<1>10. EndingWith(t)
  BY <1>2, <1>3, <1>4, <1>5, <1>6, <1>7, <1>8, <1>9 DEF EndingWith
<1>11. ResultInv'
  <2>1. \A i \in DOMAIN resultsQueue' :
          i + 1 \in DOMAIN resultsQueue /\ resultsQueue'[i] = resultsQueue[i + 1]
    BY <1>1, <1>4 DEF JobTypes
  <2>2. QED
    BY <1>1, <1>4, <2>1 DEF ResultInv
<1>12. QED
  BY <1>2, <1>3, <1>4, <1>10, <1>11

LEMMA ResultEnds ==
  ASSUME Types, SafeInv, TakeResult
  PROVE  SafeInv'
<1>1. PICK t : t = resultsQueue[1][1]
  OBVIOUS
<1>2. EndingWith(t) /\ PlaceInv' /\ ResultInv'
  BY <1>1, ResultEnding
<1>3. QED
  BY <1>2, EndKnows, EndKeeps DEF SafeInv

\* A task is dispatched.
LEMMA DispatchKeeps ==
  ASSUME Types, SafeInv, Dispatch
  PROVE  SafeInv'
<1> DEFINE t == task[1]
<1>1. /\ graph \in Graphs /\ WalkTypes /\ JobTypes /\ Ordinary(graph) /\ KnowInv /\ CandInv
      /\ WaitInv /\ GroupInv /\ DownInv /\ VisitInv /\ FlyInv /\ ApartInv /\ PlaceInv /\ HandInv
      /\ ImplInv /\ FileInv /\ DiskInv /\ AbsentInv /\ ScanInv /\ ResultInv /\ RaisedInv
  BY DEF Types, JobTypes, SafeInv, KnowInv, DiskInv
<1>2. /\ task # << >> /\ t \in Task /\ state[t.targets[1]] = executing /\ task' = << >>
      /\ ~t.exception
  BY <1>1, AtHand DEF Dispatch, JobTypes, PrepareRaises, SourcesMissing
<1>3. /\ t.targets = graph.targets[t.node] /\ Targets(t) \subseteq Plains(graph)
      /\ HandKinds(t)
      /\ \A u \in Flying : /\ OutOf(graph, t) \cap OutOf(graph, u) = {}
                           /\ \A n \in Targets(u) : Uses(n) \cap Targets(t) = {}
  BY <1>1, <1>2 DEF HandInv
<1>4. t.targets[1] \in Targets(t) /\ t.node \in Targets(t)
  <2>1. t.node \in Targets(t) /\ t.targets \in Seq(Nodes)
    BY <1>1, <1>2, <1>3, TaskMates, TaskFields
  <2>2. t.targets # << >>
    BY <2>1 DEF Targets, ToSet
  <2>3. 1 \in DOMAIN t.targets
    BY <2>1, <2>2
  <2>4. QED
    BY <2>1, <2>3 DEF Targets, ToSet
<1>5. t \notin Flying
  BY <1>3, <1>4 DEF OutOf
<1>6. PlaceInv' /\ Flying' = Flying \cup {t}
  BY <1>1, <1>5, MainPlaces
<1>7. /\ UNCHANGED <<graph, mode, state, waiting_parents, waiting_s_e, scanned, implicit, candidates,
                     top_targets_left, current_top, visited, stopped, resultsQueue>>
      /\ absent' \subseteq absent /\ on_disk' = on_disk \ Removed(t)
      /\ Removed(t) \subseteq Targets(t) \cap graph.derived /\ Readable' = Readable
  BY RemovedTargets DEF Dispatch, nodeVars, walkVars, Readable
<1> HIDE DEF t
<1>8. /\ \A n \in Targets(t) : n \in Nodes /\ DoneWith(n)
      /\ \A n \in Targets(t) : state[n] = executing /\ n \in Readable /\ n \in graph.derived
      /\ \A s \in SideOf(graph, Targets(t)) : state[s] = executing
  BY <1>2, <1>3, <1>4, Kinds DEF HandKinds, Plains, Readable
<1>9. KnowInv'
  <2>1. ImplInv' /\ FileInv'
    BY <1>1, <1>7, <1>8 DEF ImplInv, FileInv, Readable
  <2>2. DiskInv' /\ AbsentInv'
    BY <1>1, <1>7, <1>8, <2>1, Kinds DEF DiskInv, AbsentInv
  <2>3. ASSUME NEW n, NEW f, Excused(n, f) PROVE Excused(n, f)'
    <3>1. CASE f \in Removed(t)
      BY <1>7, <1>8, <2>3, <3>1, Kinds DEF Excused
    <3>2. CASE f \notin Removed(t)
      BY <1>7, <2>3, <3>2 DEF Excused
    <3>3. QED
      BY <3>1, <3>2
  <2>4. ScanInv'
    BY <1>1, <1>7, <2>3 DEF ScanInv
  <2>5. QED
    BY <2>1, <2>2, <2>4 DEF KnowInv
<1>10. CandInv' /\ RaisedInv' /\ GroupInv' /\ DownInv' /\ VisitInv'
  BY <1>1, <1>7 DEF CandInv, RaisedInv, GroupInv, DownInv, VisitInv
<1>11. WaitInv'
  <2>1. ASSUME NEW c \in Nodes, NEW p \in waiting_parents[c]
        PROVE  /\ c \in Deps(graph, p) /\ p \in Plains(graph) /\ p \notin graph.unscannable
               /\ mode # "ignore" => state[p] \in {pending, failed}
               /\ state[c] \notin SettledStates
    BY <1>1, <1>8, Kinds DEF WaitInv, t
  <2>2. QED
    BY <1>7, <2>1 DEF WaitInv
<1>12. FlyInv'
  <2>1. ASSUME NEW n \in graph.derived, n \in Nodes, DoneWith(n), Uses(n) \cap Targets(t) = {}
        PROVE  DoneWith(n)'
    <3>1. \A c \in Uses(n) : state'[c] \in SettledStates /\ (c \in on_disk' <=> c \in on_disk)
      BY <1>7, <2>1 DEF DoneWith
    <3>2. QED
      BY <1>1, <1>7, <2>1, <3>1, DoneStays
  <2>2. ASSUME NEW u \in Flying, NEW n \in Targets(u)
        PROVE  DoneWith(n)'
    <3>1. n \in graph.derived /\ n \in Nodes /\ DoneWith(n)
      BY <1>1, TaskFields DEF FlyInv, Readable
    <3>2. QED
      BY <1>3, <2>1, <3>1
  <2>3. ASSUME NEW n \in Targets(t) PROVE DoneWith(n)'
    <3>1. Uses(n) \cap Targets(t) = {}
      BY <1>8, Kinds DEF DoneWith
    <3>2. QED
      BY <1>8, <2>1, <3>1
  <2>4. QED
    BY <1>1, <1>2, <1>3, <1>6, <1>7, <1>8, <2>2, <2>3 DEF FlyInv
<1>13. ApartInv'
  BY <1>1, <1>3, <1>6, <1>7 DEF ApartInv
<1>14. HandInv'
  BY <1>2 DEF HandInv
<1>15. ResultInv'
  BY <1>1, <1>3, <1>7, ResultsStay
<1>16. QED
  BY <1>1, <1>6, <1>7, <1>9, <1>10, <1>11, <1>12, <1>13, <1>14, <1>15 DEF SafeInv

\* Workers only write files: those of their tasks.
LEMMA WorkKeeps ==
  ASSUME Types, SafeInv, TakeTask \/ Execute
  PROVE  SafeInv'
<1>1. /\ graph \in Graphs /\ WalkTypes /\ JobTypes /\ Ordinary(graph) /\ PlaceInv /\ FlyInv
      /\ ResultInv
  BY DEF Types, JobTypes, SafeInv
<1>2. PlaceInv' /\ Flying' = Flying
  BY <1>1, WorkerPlaces DEF Ordinary
<1>3. ASSUME NEW r \in running PROVE ~RetrieveFromCache(r) /\ ~RetrievedBuilt(r)
  <2>1. r.retrieved = FALSE
    BY <1>1 DEF PlaceInv
  <2>2. QED
    BY <1>1, <2>1 DEF RetrieveFromCache, RetrievedBuilt, Ordinary
<1>4. UNCHANGED <<graph, mode, state, waiting_parents, waiting_s_e, scanned, implicit, absent,
                  candidates, top_targets_left, current_top, visited, task, stopped>>
  BY <1>3 DEF TakeTask, Execute, Build, BuildFails, tmVars, nodeVars, scanVars, walkVars
<1>5. ASSUME NEW u, NEW ok, Post(u, ok) \/ resultsQueue' = resultsQueue,
             on_disk \subseteq on_disk', Post(u, ok) /\ ok => Targets(u) \subseteq on_disk'
      PROVE  ResultInv'
  <2>1. resultsQueue \in Seq(Task \X BOOLEAN)
    BY <1>1 DEF JobTypes
  <2>2. \A i \in DOMAIN resultsQueue' :
          \/ i \in DOMAIN resultsQueue /\ resultsQueue'[i] = resultsQueue[i]
          \/ Post(u, ok) /\ resultsQueue'[i] = <<u, ok>>
    <3>1. CASE resultsQueue' = resultsQueue
      BY <3>1
    <3>2. CASE Post(u, ok)
      <4>1. resultsQueue' = Append(resultsQueue, <<u, ok>>)
        BY <3>2 DEF Post
      <4>2. QED
        BY <2>1, <3>2, <4>1
    <3>3. QED
      BY <1>5, <3>1, <3>2
  <2>3. QED
    BY <1>1, <1>5, <2>2 DEF ResultInv
<1>6. CASE TakeTask \/ \E r \in running : BuildFails(r)
  <2>1. on_disk' = on_disk /\ \E u : Post(u, FALSE) \/ resultsQueue' = resultsQueue
    BY <1>6 DEF TakeTask, BuildFails, tmVars
  <2>2. ResultInv'
    BY <1>5, <2>1
  <2> DEFINE made == {}
  <2>3. made \in SUBSET (Readable \cup SideOf(graph, Nodes)) /\ on_disk' = on_disk \cup made
    BY <2>1
  <2>4. QED
    BY <1>2, <1>4, <2>2, <2>3, RestKeeps
<1>7. ASSUME NEW r \in running, Build(r) PROVE SafeInv'
  <2> DEFINE u == r.task
             made == Targets(u) \cup SideEffects(Targets(u))
  <2>1. on_disk' = on_disk \cup made /\ Post(u, TRUE) /\ u \in Flying
    BY <1>7 DEF Build, Flying, Working
  <2>2. /\ Targets(u) \subseteq Readable /\ Targets(u) \in SUBSET Nodes
        /\ \A n \in Targets(u) : state[n] = executing \/ (stopped /\ state[n] = failed)
    BY <1>1, <2>1, TaskFields DEF FlyInv
  <2>3. SideEffects(Targets(u)) \subseteq SideOf(graph, Nodes)
        /\ SideEffects(Targets(u)) \cap Plains(graph) = {}
    BY <1>1, <2>2, PlainDeps DEF SideEffects, SideOf
  <2>4. ResultInv'
    BY <1>5, <2>1
  <2>5. /\ made \in SUBSET (Readable \cup SideOf(graph, Nodes))
        /\ \A f \in made \cap Plains(graph) : state[f] = executing \/ (stopped /\ state[f] = failed)
    BY <2>2, <2>3
  <2> HIDE DEF made
  <2>6. QED
    BY <1>2, <1>4, <2>1, <2>4, <2>5, RestKeeps
<1>8. QED
  BY <1>3, <1>6, <1>7 DEF Execute

LEMMA SafeInit ==
  ASSUME \A g \in Graphs : Ordinary(g)
  PROVE  Init => SafeInv
<1> SUFFICES ASSUME Init PROVE SafeInv
  OBVIOUS
<1>1. graph \in Graphs /\ Ordinary(graph)
  BY DEF Init, TaskmasterInit
<1>2. /\ on_disk = graph.disk /\ scanned = {} /\ absent = {} /\ candidates = << >>
      /\ implicit = [n \in Nodes |-> {}]
      /\ top_targets_left = graph.top /\ current_top = graph.top[1] /\ task = << >>
      /\ state = [n \in Nodes |-> no_state] /\ waiting_parents = [n \in Nodes |-> {}]
      /\ waiting_s_e = [n \in Nodes |-> {}]
      /\ requestQueue = << >> /\ running = {} /\ resultsQueue = << >>
  BY DEF Init, TaskmasterInit
<1>3. Flying = {} /\ PlaceInv
  BY <1>2 DEF Flying, PlaceInv, Working, TasksOf, NoneTwice, ToSet, IsInjective
<1>4. CandInv
  <2>1. graph.top \in Seq(Nodes) /\ graph.top # << >> /\ ToSet(graph.top) \subseteq Plains(graph)
    BY <1>1, GraphFields, PlainDeps
  <2>2. graph.top[1] \in ToSet(graph.top)
    BY <2>1 DEF ToSet
  <2>3. ToSet(<< >>) = {}
    BY DEF ToSet
  <2>4. QED
    BY <1>2, <2>1, <2>2, <2>3 DEF CandInv
<1>5. KnowInv /\ WaitInv /\ HandInv /\ ResultInv /\ RaisedInv
  <2>1. \A n \in Nodes : state[n] \notin SettledStates
    BY <1>2, Kinds
  <2>2. graph.derived \subseteq Nodes
    BY <1>1, GraphFields
  <2>3. DiskInv
    BY <1>2, <2>1, <2>2 DEF DiskInv, FileInv
  <2>4. QED
    BY <1>2, <2>3 DEF KnowInv, ImplInv, AbsentInv, ScanInv, WaitInv, HandInv, ResultInv, RaisedInv
<1>6. GroupInv /\ DownInv /\ VisitInv
  <2>1. \A n \in Nodes : ToSet(graph.targets[n]) \subseteq Nodes
    BY <1>1, Mates
  <2>2. QED
    BY <1>2, <2>1, States, Kinds DEF GroupInv, DownInv, VisitInv, Plains
<1>7. FlyInv /\ ApartInv
  BY <1>3 DEF FlyInv, ApartInv
<1>8. QED
  BY <1>1, <1>3, <1>4, <1>5, <1>6, <1>7 DEF SafeInv

LEMMA SafeStep == Types /\ SafeInv /\ [Next]_vars => SafeInv'
<1> SUFFICES ASSUME Types, SafeInv, [Next]_vars PROVE SafeInv'
  OBVIOUS
<1>1. CASE LookForTask
  BY <1>1, LookKeeps
<1>2. CASE NoMoreTasks
  BY <1>2, NoMoreKeeps
<1>3. CASE PrepareFails \/ NothingToDo
  BY <1>3, HandEnds
<1>4. CASE Dispatch
  BY <1>4, DispatchKeeps
<1>5. CASE TakeResult
  BY <1>5, ResultEnds
<1>6. CASE TakeTask \/ Execute
  BY <1>6, WorkKeeps
<1>7. CASE Interrupt \/ UNCHANGED vars
  <2>1. JobTypes /\ PlaceInv
    BY DEF Types, SafeInv
  <2>2. /\ UNCHANGED <<graph, mode, state, waiting_parents, waiting_s_e, scanned, implicit, absent,
                       candidates, top_targets_left, current_top, visited, task, on_disk>>
        /\ stopped => stopped'
        /\ UNCHANGED <<requestQueue, running, resultsQueue>>
    BY <1>7 DEF Interrupt, vars, tmVars, jobVars, nodeVars, scanVars, walkVars
  <2>3. PlaceInv' /\ Flying' = Flying /\ ResultInv'
    BY <2>1, <2>2, MainPlaces DEF SafeInv, ResultInv
  <2> DEFINE made == {}
  <2>4. made \in SUBSET (Readable \cup SideOf(graph, Nodes)) /\ on_disk' = on_disk \cup made
    BY <2>2
  <2>5. QED
    BY <2>2, <2>3, <2>4, RestKeeps
<1>8. QED
  BY <1>1, <1>2, <1>3, <1>4, <1>5, <1>6, <1>7 DEF Next, Main, Ended

LEMMA SafeAlways ==
  ASSUME \A g \in Graphs : Ordinary(g)
  PROVE  Spec => [](Types /\ SafeInv)
<1>1. Init => SafeInv
  BY SafeInit
<1>2. QED
  BY <1>1, TypesInit, TypesStep, SafeStep, PTL DEF Spec

\* What is at work was dispatched; all of what it uses is known, and settled.
LEMMA AtWorkFacts ==
  ASSUME Types, SafeInv, NEW t \in AtWork
  PROVE  /\ t \in Flying /\ t \in Task
         /\ \A n \in Targets(t) :
              /\ n \in Nodes /\ state[n] \notin SettledStates
              /\ \A c \in Children(n) : c \in Plains(graph) /\ state[c] \in SettledStates
              /\ IncludesThrough(n, on_disk) \subseteq ImplicitOf(n)
<1>1. /\ graph \in Graphs /\ Ordinary(graph) /\ KnowInv /\ FlyInv
      /\ ImplInv /\ FileInv /\ AbsentInv
  BY DEF Types, JobTypes, SafeInv, KnowInv, DiskInv
<1>2. t \in Flying
  BY DEF AtWork, Flying, Working
<1>3. /\ t \in Task /\ Targets(t) \subseteq Readable /\ Targets(t) \in SUBSET Nodes
      /\ \A n \in Targets(t) : state[n] \notin SettledStates /\ DoneWith(n)
  BY <1>1, <1>2, TaskFields, Kinds DEF FlyInv
<1>4. ASSUME NEW n \in Targets(t)
      PROVE  /\ \A c \in Children(n) : c \in Plains(graph) /\ state[c] \in SettledStates
             /\ ThroughOf(graph, n, on_disk) \subseteq ImplicitOf(n)
  <2>1. /\ n \in Nodes /\ n \in graph.derived /\ n \in Readable /\ Uses(n) \subseteq Plains(graph)
        /\ \A c \in Uses(n) : state[c] \in SettledStates
    BY <1>1, <1>3, UsedArePlain DEF DoneWith, Readable
  <2>2. CASE n \in scanned
    BY <1>3, <2>1, <2>2 DEF DoneWith, Uses, UsesOf, Children, ImplicitOf
  <2>3. CASE n \notin scanned
    <3>1. ImplicitOf(n) = ThroughOf(graph, n, on_disk \ absent)
      BY <2>1, <2>3, ThroughSame DEF ImplicitOf, FoundIncludes
    <3>2. \A f \in ToSet(graph.sources[n]) \cup ThroughOf(graph, n, on_disk) :
            f \in on_disk \ absent <=> f \in on_disk
      BY <1>1, <2>1, Kinds DEF AbsentInv, Uses, UsesOf
    <3>3. ThroughOf(graph, n, on_disk) = ThroughOf(graph, n, on_disk \ absent)
      BY <1>1, <2>1, <3>2, ThroughReadable
    <3>4. QED
      BY <2>1, <3>1, <3>3 DEF Uses, UsesOf, Children
  <2>4. QED
    BY <2>2, <2>3
<1>5. QED
  BY <1>2, <1>3, <1>4, ThroughSame

\* ChildrenSettled: a task is at work only while everything its targets need is
\* finished and nobody is making it (Taskmaster.py:538).
THEOREM ChildrenSettledAlways ==
  ASSUME \A g \in Graphs : Ordinary(g)
  PROVE  Spec => []ChildrenSettled
<1>1. Types /\ SafeInv => ChildrenSettled
  <2> SUFFICES ASSUME Types, SafeInv PROVE ChildrenSettled
    OBVIOUS
  <2>1. ASSUME NEW t \in AtWork, NEW n \in Targets(t), NEW c \in Children(n), NEW u \in AtWork
        PROVE  state[c] \in SettledStates /\ c \notin Targets(u)
    BY AtWorkFacts
  <2>2. QED
    BY <2>1 DEF ChildrenSettled, SettledStates
<1>2. QED
  BY <1>1, SafeAlways, PTL

\* ChildrenVisited: what a task's targets need was visited before (Taskmaster.py:341);
\* nothing comes from the cache here, so that this is VisitedBeforeParents.
THEOREM ChildrenVisitedAlways ==
  ASSUME \A g \in Graphs : Ordinary(g)
  PROVE  Spec => [](ChildrenVisited /\ VisitedBeforeParents)
<1>1. Types /\ SafeInv => ChildrenVisited /\ VisitedBeforeParents
  <2> SUFFICES ASSUME Types, SafeInv PROVE ChildrenVisited /\ VisitedBeforeParents
    OBVIOUS
  <2>1. ASSUME NEW t \in AtWork, NEW n \in Targets(t), NEW c \in Children(n)
        PROVE  c \in visited
    <3>1. c \in Plains(graph) /\ state[c] \in SettledStates
      BY AtWorkFacts
    <3>2. QED
      BY <3>1 DEF SafeInv, VisitInv
  <2>2. QED
    BY <2>1 DEF ChildrenVisited, VisitedBeforeParents
<1>2. QED
  BY <1>1, SafeAlways, PTL

\* NoSharedOutput: two tasks never write the same file at once, be it a target
\* or a side effect (Taskmaster.py:683).
THEOREM NoSharedOutputAlways ==
  ASSUME \A g \in Graphs : Ordinary(g)
  PROVE  Spec => []NoSharedOutput
<1>1. Types /\ SafeInv => NoSharedOutput
  <2> SUFFICES ASSUME Types, SafeInv PROVE NoSharedOutput
    OBVIOUS
  <2>1. ASSUME NEW t \in AtWork, NEW u \in AtWork, t # u
        PROVE  (Targets(t) \cup SideEffects(Targets(t)))
                 \cap (Targets(u) \cup SideEffects(Targets(u))) = {}
    <3>1. t \in Flying /\ u \in Flying
      BY AtWorkFacts
    <3>2. OutOf(graph, t) \cap OutOf(graph, u) = {}
      BY <2>1, <3>1 DEF SafeInv, ApartInv
    <3>3. QED
      BY <3>2, SideSame DEF OutOf
  <2>2. QED
    BY <2>1 DEF NoSharedOutput
<1>2. QED
  BY <1>1, SafeAlways, PTL

\* NoStaleScan: a task at work knows every file its sources include
\* (Taskmaster.py:546).
THEOREM NoStaleScanAlways ==
  ASSUME \A g \in Graphs : Ordinary(g)
  PROVE  Spec => []NoStaleScan
<1>1. Types /\ SafeInv => NoStaleScan
  <2> SUFFICES ASSUME Types, SafeInv PROVE NoStaleScan
    OBVIOUS
  <2>1. ASSUME NEW t \in AtWork, NEW n \in Targets(t)
        PROVE  IncludesThrough(n, on_disk) \subseteq ImplicitOf(n)
    BY AtWorkFacts
  <2>2. QED
    BY <2>1 DEF NoStaleScan
<1>2. QED
  BY <1>1, SafeAlways, PTL

-----------------------------------------------------------------------------
(***************************************************************************)
(* What becomes of the nodes: the build implements BuildOrder.             *)
(***************************************************************************)

\* Nothing makes n, and it is not there.
Gone(g, n) == n \notin g.derived \cup SideOf(g, Nodes) \cup g.disk

TargetsOf(ts) == UNION {Targets(t) : t \in ts}

\* Fate, as a function of what it depends on.
FateAs(g, b, st, d, hand, n) ==
  IF n \in b \/ st[n] = failed THEN "given_up"
  ELSE IF n \in Plains(g) \ hand /\ st[n] \in SettledStates /\ ~Gone(g, n) THEN "settled"
  ELSE IF st[n] = executing /\ n \in d THEN "worked_on"
  ELSE "untouched"

Was(n) == FateAs(graph, broke, state, TargetsOf(Flying), InHand, n)

\* In this step, what changes goes from one of the fates "from" to "to".
Becomes(from, to) == \A n \in Nodes : Was(n)' = Was(n) \/ (Was(n) \in from /\ Was(n)' = to)

\* What a node is made from is good enough for it.
Good(n) ==
  \A d \in (ToSet(graph.sources[n]) \cup ToSet(graph.depends[n])) \cap Plains(graph) :
    Was(d) = "settled" \/ (Was(d) = "given_up" /\ mode = "ignore")
GoodForChanged == \A n \in Nodes : Was(n)' = Was(n) \/ Good(n)

LEMMA FateNow ==
  ASSUME FileInv, NEW n \in Nodes
  PROVE  Fate(n) = Was(n) /\ (Missing(n) <=> Gone(graph, n))
<1>1. Dispatched = TargetsOf(Flying)
  BY DEF Dispatched, TargetsOf, Flying, AtWork, Working, TasksOf
<1>2. Missing(n) <=> Gone(graph, n)
  BY DEF Missing, Derived, IsSideEffect, SideEffects, SideOf, Gone, FileInv
<1>3. n \in Plains(graph) <=> ~IsSideEffect(n)
  BY DEF Plains, IsSideEffect, SideEffects, SideOf
<1>4. n \in Settled <=> state[n] \in SettledStates
  BY DEF Settled, SettledStates
<1>5. QED
  BY <1>1, <1>2, <1>3, <1>4 DEF Fate, Was, FateAs

LEMMA FateNext ==
  ASSUME FileInv', graph' = graph, NEW n \in Nodes
  PROVE  Fate(n)' = Was(n)'
<1>1. Dispatched' = TargetsOf(Flying')
  BY DEF Dispatched, TargetsOf, Flying, AtWork, Working, TasksOf
<1>2. Missing(n)' <=> Gone(graph, n)
  BY DEF Missing, Derived, IsSideEffect, SideEffects, SideOf, Gone, FileInv
<1>3. n \in Plains(graph) <=> ~IsSideEffect(n)'
  BY DEF Plains, IsSideEffect, SideEffects, SideOf
<1>4. n \in Settled' <=> state'[n] \in SettledStates
  BY DEF Settled, SettledStates
<1>5. QED
  BY <1>1, <1>2, <1>3, <1>4 DEF Fate, Was, FateAs

LEMMA OrderMoves ==
  ASSUME FileInv, FileInv', UNCHANGED <<graph, mode>>,
         NEW from, NEW to \in Order!Fates, Becomes(from, to)
  PROVE  /\ Order!Move(Order!Changed, from, to)
         /\ [n \in Nodes |-> Fate(n)]' \in [Nodes -> Order!Fates]
         /\ \A n \in Order!Changed : n \in Nodes /\ Was(n)' # Was(n)
<1>1. \A n \in Nodes : Fate(n) = Was(n) /\ Fate(n)' = Was(n)'
  BY FateNow, FateNext
<1>2. Order!Changed = {n \in Nodes : Was(n)' # Was(n)}
  BY <1>1 DEF Order!Changed
<1>3. \A n \in Nodes : Fate(n)' \in Order!Fates
  BY DEF Fate, Order!Fates
<1>4. QED
  BY <1>1, <1>2, <1>3 DEF Becomes, Order!Move

LEMMA OrderSteps ==
  ASSUME FileInv, FileInv', UNCHANGED <<graph, mode>>, graph \in Graphs,
         \/ Becomes(Order!Fates \ {"settled"}, "given_up")
         \/ Becomes({"worked_on"}, "settled")
         \/ Becomes({"untouched"}, "worked_on") /\ GoodForChanged
         \/ Becomes({"untouched"}, "settled") /\ GoodForChanged
  PROVE  Order!Next
<1>1. {"given_up", "settled", "worked_on"} \subseteq Order!Fates
  BY DEF Order!Fates
<1>2. ASSUME NEW from, NEW to \in {"given_up", "settled", "worked_on"}, Becomes(from, to)
      PROVE  /\ Order!Move(Order!Changed, from, to)
             /\ [n \in Nodes |-> Fate(n)]' \in [Nodes -> Order!Fates]
             /\ \A n \in Order!Changed : n \in Nodes /\ Was(n)' # Was(n)
  BY ONLY <1>1, <1>2, OrderMoves, FileInv, FileInv', UNCHANGED <<graph, mode>>
<1>3. ASSUME GoodForChanged, \A n \in Order!Changed : n \in Nodes /\ Was(n)' # Was(n)
      PROVE  Order!NeedsSettled(Order!Changed)
  <2>1. ASSUME NEW n \in Nodes, Good(n),
               NEW d \in (ToSet(graph.sources[n]) \cup ToSet(graph.depends[n])) \ SideEffects(Nodes)
        PROVE  d \in Nodes /\ (Fate(d) = "settled" \/ (Fate(d) = "given_up" /\ mode = "ignore"))
    <3>1. d \in Nodes
      BY GraphFields, Membership
    <3>2. d \in Plains(graph)
      BY <3>1 DEF Plains, SideEffects, SideOf
    <3>3. QED
      BY <2>1, <3>1, <3>2, FateNow DEF Good
  <2>2. QED
    BY <1>3, <2>1 DEF GoodForChanged, Order!NeedsSettled, Order!Good
<1>4. UNCHANGED <<mode = "ignore",
                  [n \in Nodes |-> (ToSet(graph.sources[n]) \cup ToSet(graph.depends[n]))
                                     \ SideEffects(Nodes)]>>
  BY DEF SideEffects
<1>5. QED
  BY <1>2, <1>3, <1>4 DEF Order!Next, Order!Start, Order!Finish, Order!Keep, Order!GiveUp

\* Side effects are neither looked at nor given up.
SideFateInv == \A s \in Nodes \ Plains(graph) : state[s] \in {no_state, executing}

\* Without -i, a failed node stays failed.
BrokeInv == broke \subseteq Plains(graph) /\ (mode # "ignore" => \A n \in broke : state[n] = failed)

\* What is in hand is not made from itself, unless its scan raised.
HandNeeds ==
  task # << >> /\ ~task[1].exception =>
    \A n \in InHand : (ToSet(graph.sources[n]) \cup ToSet(graph.depends[n])) \cap InHand = {}

FateInv == SideFateInv /\ BrokeInv /\ HandNeeds

\* A side effect keeps the fate it has.
LEMMA SideFates ==
  ASSUME graph \in Graphs, Ordinary(graph), WalkTypes, FlyInv, SideFateInv, BrokeInv,
         NEW s \in Nodes \ Plains(graph)
  PROVE  Was(s) = "untouched"
<1>1. s \notin TargetsOf(Flying)
  BY PlainDeps DEF TargetsOf, FlyInv, Plains, Readable
<1>2. QED
  BY <1>1, States DEF SideFateInv, BrokeInv, Was, FateAs

LEMMA SideFatesNext ==
  ASSUME graph \in Graphs, graph' = graph, Ordinary(graph), FlyInv', SideFateInv', BrokeInv',
         NEW s \in Nodes \ Plains(graph)
  PROVE  Was(s)' = "untouched"
<1>1. s \notin TargetsOf(Flying')
  BY PlainDeps DEF TargetsOf, FlyInv, Plains, Readable
<1>2. QED
  BY <1>1, States DEF SideFateInv, BrokeInv, Was, FateAs

\* Steps that find out about nodes that were not settled, if anything; nothing is
\* final of the ones the main thread takes in hand.
Quiet(m) ==
  \/ state'[m] = state[m] /\ (m \in InHand' <=> m \in InHand)
  \/ /\ state[m] \in {no_state, pending} /\ m \in Plains(graph)
     /\ state'[m] \in {pending, failed} \/ m \in InHand'
  \/ m \notin Plains(graph) /\ state'[m] = executing /\ m \notin InHand'

LEMMA QuietKeeps ==
  ASSUME graph \in Graphs, Ordinary(graph), WalkTypes, FlyInv, FlyInv', SideFateInv, BrokeInv,
         Flying' = Flying, UNCHANGED <<graph, mode, broke>>, \A m \in Nodes : Quiet(m)
  PROVE  SideFateInv' /\ BrokeInv' /\ Becomes(Order!Fates \ {"settled"}, "given_up")
<1>1. \A m \in Plains(graph) : m \in Nodes /\ (state[m] = failed => state'[m] = failed)
  BY States DEF Quiet, Plains
<1>2. SideFateInv'
  BY DEF SideFateInv, Quiet
<1>3. BrokeInv'
  BY <1>1 DEF BrokeInv
<1>4. ASSUME NEW n \in Plains(graph)
      PROVE  Was(n)' = Was(n) \/ (Was(n) \in Order!Fates \ {"settled"} /\ Was(n)' = "given_up")
  <2>1. CASE state'[n] = state[n] /\ (n \in InHand' <=> n \in InHand)
    BY <2>1 DEF Was, FateAs
  <2>2. CASE state[n] \in {no_state, pending}
    <3>1. Was(n) = IF n \in broke THEN "given_up" ELSE "untouched"
      BY <2>2, Kinds, States DEF Was, FateAs
    <3>2. n \notin TargetsOf(Flying)
      BY <2>2, States, Kinds DEF TargetsOf, FlyInv
    <3>3. CASE state'[n] \in {pending, failed}
      BY <3>1, <3>3, Kinds, States DEF Was, FateAs, Order!Fates
    <3>4. CASE n \in InHand'
      BY <3>1, <3>2, <3>4, Kinds, States DEF Was, FateAs, Order!Fates
    <3>5. QED
      BY <1>1, <1>4, <2>1, <3>3, <3>4 DEF Quiet
  <2>3. QED
    BY <1>1, <1>4, <2>1, <2>2 DEF Quiet
<1>5. \A n \in Nodes \ Plains(graph) : Was(n)' = Was(n)
  BY <1>2, <1>3, SideFates, SideFatesNext
<1>6. QED
  BY <1>2, <1>3, <1>4, <1>5 DEF Becomes

\* The candidate is made ready: nothing of it is final yet.
LEMMA ReadyIsQuiet ==
  ASSUME Types, SafeInv, LookForTask, Evaluate \/ ScanRaises
  PROVE  (\A m \in Nodes : Quiet(m)) /\ HandNeeds'
<1> DEFINE n == Candidate
           ts == ToSet(graph.targets[n])
<1>1. /\ graph \in Graphs /\ WalkTypes /\ Ordinary(graph) /\ KnowInv /\ CandInv /\ DownInv
      /\ GroupInv /\ Considered /\ UNCHANGED graph
  BY DEF Types, JobTypes, SafeInv, LookForTask, FindNextReadyNode, Evaluate, ChildrenFinished,
         ScanRaises
<1>2. /\ n \in Nodes /\ n \in Plains(graph) /\ state[n] \in {no_state, pending}
      /\ n \in ts /\ ts \in SUBSET Plains(graph) /\ Plains(graph) \subseteq Nodes
      /\ SideEffects(ts) \in SUBSET Nodes /\ SideEffects(ts) \cap Plains(graph) = {}
      /\ \A m \in ts : graph.sources[m] = graph.sources[n] /\ graph.depends[m] = graph.depends[n]
  <2>1. /\ n \in Nodes /\ n \in Plains(graph) /\ state[n] \in {no_state, pending}
        /\ \A m \in ts : m \in Plains(graph)
    BY <1>1, CandidateState
  <2>2. ts \in SUBSET Nodes
    BY <2>1 DEF Plains
  <2>3. QED
    BY <1>1, <2>1, <2>2, Mates, PlainDeps, SideSame DEF Plains, Ordinary
<1>3. /\ task = << >> /\ InHand = {} /\ InHand' = ts
      /\ Evaluate => task'[1].exception = FALSE
      /\ ScanRaises => task'[1].exception = TRUE
  BY DEF LookForTask, Evaluate, ScanRaises, MakeReady, TaskFor, InHand, Targets
<1>4. \A m \in ts : state[m] \in {no_state, pending}
  <2>1. CASE Evaluate
    BY <1>1, <2>1, FinishedCandidate DEF Evaluate
  <2>2. CASE ScanRaises
    <3>1. ts = {n}
      BY <1>1, <2>2, Unscanned DEF ScanRaises, ScanFails
    <3>2. QED
      BY <1>2, <3>1
  <2>3. QED
    BY <2>1, <2>2
<1>5. ASSUME Evaluate
      PROVE  (ToSet(graph.sources[n]) \cup ToSet(graph.depends[n])) \cap ts = {}
  <2>1. \A c \in Children(n) : state[c] \in SettledStates
    BY <1>1, <1>5, FinishedCandidate DEF Evaluate
  <2>2. QED
    BY <1>4, <2>1, Kinds DEF Children
<1>6. \/ state' = [m \in Nodes |-> IF m \in ts THEN up_to_date ELSE state[m]]
      \/ state' = [m \in Nodes |-> IF m \in ts \cup SideEffects(ts) THEN executing ELSE state[m]]
  BY DEF Evaluate, ScanRaises, MakeReady
<1> HIDE DEF n, ts
<1>7. HandNeeds'
  BY <1>1, <1>2, <1>3, <1>5 DEF HandNeeds
<1>8. ASSUME NEW m \in Nodes PROVE Quiet(m)
  <2>1. CASE m \in ts
    BY <1>2, <1>3, <1>4, <2>1 DEF Quiet
  <2>2. CASE m \notin ts
    BY <1>2, <1>3, <1>6, <2>2 DEF Quiet
  <2>3. QED
    BY <2>1, <2>2
<1>9. QED
  BY <1>7, <1>8

\* What looking at a candidate does to the nodes.
LEMMA LookIsQuiet ==
  ASSUME Types, SafeInv, LookForTask
  PROVE  (\A m \in Nodes : Quiet(m)) /\ HandNeeds'
<1> DEFINE n == Candidate
<1>1. /\ graph \in Graphs /\ WalkTypes /\ Ordinary(graph) /\ CandInv /\ GroupInv
      /\ task = << >> /\ InHand = {}
  BY DEF Types, JobTypes, SafeInv, LookForTask, InHand
<1>2. CASE AlreadyHandled
  BY <1>1, <1>2 DEF AlreadyHandled, nodeVars, Quiet, InHand, HandNeeds
<1>3. CASE WaitForChildren \/ WaitForSideEffect
  <2>1. /\ n \in Nodes /\ n \in Plains(graph) /\ state[n] \in {no_state, pending}
        /\ \A m \in Nodes : Marked[m] = IF m = n THEN pending ELSE state[m]
    BY <1>1, <1>3, CandidateState
    DEF WaitForChildren, WaitForSideEffect, ChildrenFinished
  <2>2. /\ state' = Marked \/ state' = [state EXCEPT ![n] = failed]
        /\ task' = task
    BY <1>3 DEF WaitForChildren, WaitForSideEffect
  <2>3. InHand' = {} /\ HandNeeds'
    BY <1>1, <2>2 DEF InHand, HandNeeds
  <2> HIDE DEF n
  <2>4. \A m \in Nodes : state'[m] = state[m] \/ (m = n /\ state'[m] \in {pending, failed})
    BY <1>1, <2>1, <2>2 DEF WalkTypes
  <2>5. QED
    BY <1>1, <2>1, <2>3, <2>4 DEF Quiet
<1>4. QED
  BY <1>2, <1>3, ReadyIsQuiet DEF LookForTask, FindNextReadyNode

LEMMA LookFates ==
  ASSUME Types, SafeInv, SafeInv', FateInv, LookForTask
  PROVE  FateInv' /\ Becomes(Order!Fates \ {"settled"}, "given_up")
<1>1. /\ graph \in Graphs /\ Ordinary(graph) /\ JobTypes /\ WalkTypes /\ PlaceInv /\ FlyInv
      /\ FlyInv' /\ SideFateInv /\ BrokeInv
  BY DEF Types, JobTypes, SafeInv, FateInv
<1>2. Flying' = Flying
  BY <1>1, MainPlaces DEF LookForTask
<1>3. UNCHANGED <<graph, mode, broke>>
  BY DEF LookForTask, FindNextReadyNode
<1>4. (\A m \in Nodes : Quiet(m)) /\ HandNeeds'
  BY LookIsQuiet
<1>5. SideFateInv' /\ BrokeInv' /\ Becomes(Order!Fates \ {"settled"}, "given_up")
  BY <1>1, <1>2, <1>3, <1>4, QuietKeeps
<1>6. QED
  BY <1>4, <1>5 DEF FateInv

\* Nothing is left to look at; what is given up then is no side effect.
LEMMA NoMoreFates ==
  ASSUME Types, SafeInv, FateInv, NoMoreTasks
  PROVE  FateInv' /\ Becomes(Order!Fates \ {"settled"}, "given_up")
<1> DEFINE markable == {n \in Nodes : state[n] < up_to_date}
           doomed == IF stopped THEN WillNotBuild(ToSet(candidates), markable) ELSE {}
<1>1. /\ graph \in Graphs /\ WalkTypes /\ Ordinary(graph) /\ CandInv /\ WaitInv /\ FlyInv
      /\ JobTypes /\ PlaceInv
      /\ SideFateInv /\ BrokeInv
  BY DEF Types, JobTypes, SafeInv, FateInv
<1>2. Flying' = Flying
  BY <1>1, MainPlaces DEF NoMoreTasks
<1>3. /\ state' = MarkFailed(doomed) /\ task = << >>
      /\ UNCHANGED <<graph, mode, broke, task>>
  BY DEF NoMoreTasks, NoNextCandidate
<1>4. doomed \subseteq markable /\ (~stopped => doomed = {}) /\ doomed \subseteq Plains(graph)
  <2> DEFINE D == markable \cap Plains(graph)
  <2>1. ToSet(candidates) \cap markable \subseteq D
    BY <1>1 DEF CandInv
  <2>2. \A d \in D : waiting_parents[d] \cap markable \subseteq D
    BY <1>1 DEF WaitInv
  <2>3. D \in SUBSET markable
    OBVIOUS
  <2> HIDE DEF D
  <2>4. WillNotBuild(ToSet(candidates), markable) \subseteq D
    BY <2>1, <2>2, <2>3 DEF WillNotBuild
  <2>5. QED
    BY <2>4 DEF D
<1> HIDE DEF doomed
<1>5. \A m \in Nodes : \/ state'[m] = state[m]
                       \/ /\ stopped /\ state[m] < up_to_date /\ m \in Plains(graph)
                          /\ state'[m] = failed
  BY <1>3, <1>4 DEF MarkFailed
<1>6. SideFateInv'
  BY <1>1, <1>3, <1>5 DEF SideFateInv
<1>7. BrokeInv'
  BY <1>1, <1>3, <1>5 DEF BrokeInv, Plains
<1>8. FateInv' /\ InHand' = InHand
  BY <1>1, <1>3, <1>6, <1>7 DEF FateInv, HandNeeds, InHand
<1>9. ASSUME NEW n \in Nodes
       PROVE  Was(n)' = Was(n) \/ (Was(n) \in Order!Fates \ {"settled"} /\ Was(n)' = "given_up")
  <2>1. CASE state'[n] = state[n]
    BY <1>2, <1>3, <1>8, <2>1 DEF Was, FateAs
  <2>2. CASE state[n] < up_to_date /\ state'[n] = failed
    <3>1. state[n] \in 0 .. 5
      BY <1>1, States DEF WalkTypes
    <3>2. state[n] \notin SettledStates
      BY <2>2, <3>1, States DEF SettledStates
    <3>3. QED
      BY <2>2, <3>2 DEF Was, FateAs, Order!Fates
  <2>3. QED
    BY <1>5, <2>1, <2>2
<1>10. QED
  BY <1>8, <1>9 DEF Becomes

\* Workers and signals leave the nodes alone.
LEMMA WorkFates ==
  ASSUME Types, SafeInv, SafeInv', FateInv, TakeTask \/ Execute \/ Interrupt
  PROVE  FateInv' /\ Becomes(Order!Fates \ {"settled"}, "given_up")
<1>1. /\ graph \in Graphs /\ Ordinary(graph) /\ JobTypes /\ WalkTypes /\ PlaceInv /\ FlyInv
      /\ FlyInv' /\ SideFateInv /\ BrokeInv /\ HandNeeds
  BY DEF Types, JobTypes, SafeInv, FateInv
<1>2. Flying' = Flying
  BY <1>1, MainPlaces, WorkerPlaces DEF Ordinary, Interrupt
<1>3. ASSUME NEW r \in running PROVE ~RetrieveFromCache(r) /\ ~RetrievedBuilt(r)
  <2>1. r.retrieved = FALSE
    BY <1>1 DEF PlaceInv
  <2>2. QED
    BY <1>1, <2>1 DEF RetrieveFromCache, RetrievedBuilt, Ordinary
<1>4. UNCHANGED <<graph, mode, state, task, broke>>
  <2>1. CASE TakeTask
    BY <2>1 DEF TakeTask, tmVars, nodeVars, scanVars, walkVars
  <2>2. CASE Interrupt
    BY <2>2 DEF Interrupt, nodeVars, scanVars
  <2>3. ASSUME NEW r \in running, Build(r) \/ BuildFails(r)
        PROVE  UNCHANGED <<graph, mode, state, task, broke>>
    BY <2>3 DEF Build, BuildFails, tmVars, nodeVars, scanVars, walkVars
  <2>4. QED
    BY <1>3, <2>1, <2>2, <2>3 DEF Execute
<1>5. HandNeeds' /\ \A m \in Nodes : Quiet(m)
  BY <1>1, <1>4 DEF HandNeeds, InHand, Quiet
<1>6. SideFateInv' /\ BrokeInv' /\ Becomes(Order!Fates \ {"settled"}, "given_up")
  BY <1>1, <1>2, <1>4, <1>5, QuietKeeps
<1>7. QED
  BY <1>5, <1>6 DEF FateInv

\* A task ends: its targets are executed, or were up to date, or they and what
\* waits for them are given up.
LEMMA EndFates ==
  ASSUME Types, SafeInv, FateInv, FlyInv', graph' = graph, mode' = mode,
         NEW t \in Task, t.targets = graph.targets[t.node], Targets(t) \subseteq Plains(graph),
         EndOf(Targets(t)), task # << >> => task[1] = t, task' = << >>,
         TargetsOf(Flying) \ Targets(t) = TargetsOf(Flying') \ Targets(t),
         \/ /\ Made(Targets(t)) /\ broke' = broke
            /\ \/ /\ task = << >>
                  /\ \A n \in Targets(t) : /\ n \in graph.derived /\ n \in TargetsOf(Flying)
                                           /\ state[n] \in {executing, failed}
               \/ /\ task # << >>
                  /\ \A n \in Targets(t) : state[n] = up_to_date /\ Good(n)
         \/ /\ Made(Targets(t)) \/ Lost(Targets(t))
            /\ mode = "ignore" \/ Lost(Targets(t))
            /\ broke' = broke \cup Targets(t)
            /\ \A n \in Targets(t) : Was(n) # "settled"
  PROVE  /\ FateInv'
         /\ \/ Becomes(Order!Fates \ {"settled"}, "given_up")
            \/ Becomes({"worked_on"}, "settled")
            \/ Becomes({"untouched"}, "settled") /\ GoodForChanged
<1> DEFINE ts == Targets(t)
<1>1. /\ graph \in Graphs /\ WalkTypes /\ Ordinary(graph) /\ FlyInv
      /\ SideFateInv /\ BrokeInv
  BY DEF Types, JobTypes, SafeInv, FateInv
<1>2. /\ ts \in SUBSET Plains(graph) /\ ts \in SUBSET Nodes /\ Plains(graph) \subseteq Nodes
  BY <1>1, TaskFields DEF Plains
<1>3. \A s \in Nodes \ Plains(graph) : state'[s] = state[s] \/ state'[s] = no_state
  BY DEF EndOf
<1>4. InHand \subseteq ts /\ InHand' = {} /\ (task # << >> => InHand = ts)
  BY DEF InHand
<1> DEFINE Worked == /\ task = << >>
                     /\ \A n \in ts : /\ n \in graph.derived /\ n \in TargetsOf(Flying)
                                       /\ state[n] \in {executing, failed}
           Found == task # << >> /\ \A n \in ts : state[n] = up_to_date /\ Good(n)
<1>5. /\ Made(ts) \/ Lost(ts)
      /\ \/ Made(ts) /\ broke' = broke /\ (Worked \/ Found)
         \/ /\ mode = "ignore" \/ Lost(ts)
            /\ broke' = broke \cup ts
            /\ \A n \in ts : Was(n) # "settled"
  OBVIOUS
<1>6. TargetsOf(Flying) \ ts = TargetsOf(Flying') \ ts
  OBVIOUS
<1> HIDE DEF ts, Worked, Found
<1>7. \A m \in Plains(graph) : state[m] = failed => state'[m] = failed
  BY <1>2, <1>5, States DEF Made, Lost
<1>8. SideFateInv'
  BY <1>1, <1>3 DEF SideFateInv
<1>9. BrokeInv'
  BY <1>1, <1>2, <1>5, <1>7 DEF BrokeInv, Lost
<1>10. FateInv'
  BY <1>8, <1>9 DEF FateInv, HandNeeds
<1>11. \A n \in Nodes \ Plains(graph) : Was(n)' = Was(n)
  BY <1>1, <1>8, <1>9, SideFates, SideFatesNext
<1>12. ASSUME NEW n \in Plains(graph) \ ts
       PROVE  \/ state'[n] = state[n] /\ Was(n)' = Was(n)
              \/ Lost(ts) /\ Was(n) \in Order!Fates \ {"settled"} /\ Was(n)' = "given_up"
  <2>1. /\ n \in TargetsOf(Flying) <=> n \in TargetsOf(Flying')
        /\ n \in broke <=> n \in broke'
        /\ n \notin InHand /\ n \notin InHand'
    BY <1>4, <1>5, <1>6, <1>12
  <2>2. CASE state'[n] = state[n]
    BY <2>1, <2>2 DEF Was, FateAs
  <2>3. CASE Lost(ts) /\ state[n] = pending /\ state'[n] = failed
    BY <2>3, Kinds DEF Was, FateAs, Order!Fates
  <2>4. QED
    BY <1>5, <1>12, <2>2, <2>3 DEF Made, Lost
<1>13. ASSUME Made(ts), broke' = broke, NEW n \in Plains(graph) \ ts PROVE Was(n)' = Was(n)
  <2>1. /\ n \in TargetsOf(Flying) <=> n \in TargetsOf(Flying')
        /\ n \notin InHand /\ n \notin InHand' /\ state'[n] = state[n]
    BY <1>4, <1>6, <1>13 DEF Made
  <2>2. QED
    BY <1>13, <2>1 DEF Was, FateAs
<1>14. CASE Made(ts) /\ broke' = broke /\ Worked
  <2>1. ASSUME NEW n \in ts
        PROVE  Was(n)' = Was(n) \/ (Was(n) = "worked_on" /\ Was(n)' = "settled")
    <3>1. /\ state'[n] = IF state[n] = executing THEN executed ELSE state[n]
          /\ n \in Plains(graph) /\ InHand = {} /\ n \in TargetsOf(Flying)
          /\ ~Gone(graph, n) /\ state[n] \in {executing, failed}
      BY <1>2, <1>14, <2>1 DEF Made, Gone, InHand, Worked
    <3>2. QED
      BY <1>4, <1>14, <3>1, Kinds, States DEF Was, FateAs
  <2>2. QED
    BY <1>10, <1>11, <1>13, <1>14, <2>1 DEF Becomes
<1>15. CASE Made(ts) /\ broke' = broke /\ Found
  <2>1. ASSUME NEW n \in ts
        PROVE  (Was(n)' = Was(n) \/ (Was(n) = "untouched" /\ Was(n)' = "settled")) /\ Good(n)
    <3>1. state'[n] = up_to_date /\ state[n] = up_to_date /\ n \in InHand /\ Good(n)
      BY <1>4, <1>15, <2>1, Kinds DEF Made, Found
    <3>2. QED
      BY <1>15, <3>1, States DEF Was, FateAs
  <2>2. QED
    BY <1>10, <1>11, <1>13, <1>15, <2>1 DEF Becomes, GoodForChanged
<1>16. CASE broke' = broke \cup ts /\ \A n \in ts : Was(n) # "settled"
  <2>1. \A n \in ts : Was(n)' = "given_up" /\ Was(n) \in Order!Fates \ {"settled"}
    BY <1>16 DEF Was, FateAs, Order!Fates
  <2>2. QED
    BY <1>10, <1>11, <1>12, <2>1 DEF Becomes
<1>17. QED
  BY <1>5, <1>14, <1>15, <1>16

\* prepare() did not raise: nothing the targets were given is missing.
LEMMA Preparing ==
  ASSUME Types, SafeInv, task # << >>, ~PrepareRaises(task[1])
  PROVE  \A n \in Targets(task[1]) :
           \A d \in ToSet(graph.sources[n]) \cup ToSet(graph.depends[n]) : ~Gone(graph, d)
<1> DEFINE t == task[1]
<1>1. /\ graph \in Graphs /\ WalkTypes /\ JobTypes /\ Ordinary(graph) /\ FileInv
      /\ t.targets = graph.targets[t.node]
  BY DEF Types, JobTypes, SafeInv, HandInv, KnowInv, DiskInv
<1>2. t \in Task /\ ~PrepareRaises(t)
  BY <1>1, AtHand
<1> HIDE DEF t
<1>3. t.node \in Targets(t) /\ Targets(t) \in SUBSET Nodes /\ Targets(t) = ToSet(graph.targets[t.node])
  BY <1>1, <1>2, TaskMates
<1>4. ASSUME NEW n \in Targets(t),
             NEW d \in ToSet(graph.sources[n]) \cup ToSet(graph.depends[n])
      PROVE  ~Gone(graph, d)
  <2>1. graph.sources[n] = graph.sources[t.node]
    BY <1>1, <1>3 DEF Ordinary
  <2>2. n \in Nodes /\ d \in Nodes
    <3>1. n \in Nodes
      BY <1>3
    <3>2. d \in Deps(graph, n) /\ Deps(graph, n) \subseteq Plains(graph)
      BY <1>1, <3>1, PlainDeps DEF Deps
    <3>3. QED
      BY <3>1, <3>2 DEF Plains
  <2>3. ~Missing(d)
    BY <1>2, <2>1 DEF PrepareRaises, SourcesMissing, DependsMissing
  <2>4. QED
    BY <1>1, <2>2, <2>3, FateNow
<1>5. QED
  BY <1>4 DEF t

\* The task in hand ends without being dispatched.
LEMMA HandFates ==
  ASSUME Types, SafeInv, SafeInv', FateInv, PrepareFails \/ NothingToDo
  PROVE  /\ FateInv'
         /\ \/ Becomes(Order!Fates \ {"settled"}, "given_up")
            \/ Becomes({"worked_on"}, "settled")
            \/ Becomes({"untouched"}, "settled") /\ GoodForChanged
<1> DEFINE t == task[1]
           ts == Targets(t)
<1>1. /\ graph \in Graphs /\ WalkTypes /\ JobTypes /\ Ordinary(graph) /\ CandInv /\ WaitInv
      /\ PlaceInv /\ HandInv /\ FileInv /\ HandNeeds /\ BrokeInv /\ FlyInv'
  BY DEF Types, JobTypes, SafeInv, FateInv, KnowInv, DiskInv
<1>2. task # << >> /\ t \in Task /\ task' = << >>
  BY <1>1, AtHand DEF PrepareFails, NothingToDo, JobTypes
<1>3. /\ t.targets = graph.targets[t.node] /\ ts \subseteq Plains(graph) /\ HandKinds(t)
      /\ InHand = ts
  BY <1>1, <1>2 DEF HandInv, InHand
<1>4. Flying' = Flying /\ graph' = graph
  BY <1>1, MainPlaces DEF PrepareFails, NothingToDo, Conclude
<1>5. ~PrepareRaises(t) =>
        /\ ~t.exception
        /\ \A n \in ts : \A d \in ToSet(graph.sources[n]) \cup ToSet(graph.depends[n]) :
             ~Gone(graph, d) /\ d \notin InHand
  <2>1. ~PrepareRaises(t) => ~t.exception
    BY DEF PrepareRaises, SourcesMissing
  <2>2. QED
    BY <1>1, <1>2, <1>3, <2>1, Preparing DEF HandNeeds
<1>6. \/ /\ PrepareRaises(t) /\ Conclude(t, FALSE) /\ broke' = broke \cup ts
      \/ /\ ~PrepareRaises(t) /\ Conclude(t, TRUE) /\ state[t.targets[1]] # executing
         /\ IF NoWayToMake(t) THEN broke' = broke \cup ts ELSE broke' = broke
  BY DEF PrepareFails, NothingToDo
<1>7. t.targets[1] \in ts /\ ts \in SUBSET Nodes /\ ts = ToSet(graph.targets[t.node])
      /\ \A m \in ts : graph.targets[m] = graph.targets[t.node]
  <2>1. t.node \in ts /\ t.targets \in Seq(Nodes) /\ ts = ToSet(graph.targets[t.node])
    BY <1>1, <1>2, <1>3, TaskMates, TaskFields
  <2>2. t.targets # << >>
    BY <2>1 DEF Targets, ToSet
  <2>3. 1 \in DOMAIN t.targets
    BY <2>1, <2>2
  <2>4. t.targets[1] \in ts
    BY <2>1, <2>3 DEF Targets, ToSet
  <2>5. t.node \in Nodes /\ ts \in SUBSET Nodes
    BY <1>2, TaskFields
  <2>6. QED
    BY <1>1, <2>1, <2>4, <2>5, Mates
<1> HIDE DEF t
<1>8. ASSUME NEW ok, Conclude(t, ok)
      PROVE  /\ EndOf(ts) /\ UNCHANGED <<graph, mode>>
             /\ IF (ok /\ ~NoWayToMake(t)) \/ mode = "ignore" THEN Made(ts) ELSE Lost(ts)
  BY <1>1, <1>2, <1>3, <1>8, Concluded DEF EndOf
<1>9. \A n \in ts : Was(n) # "settled"
  BY <1>3 DEF Was, FateAs
<1>10. CASE PrepareRaises(t) /\ Conclude(t, FALSE) /\ broke' = broke \cup ts
  BY <1>1, <1>2, <1>3, <1>4, <1>8, <1>9, <1>10, EndFates DEF t
<1>11. CASE /\ ~PrepareRaises(t) /\ Conclude(t, TRUE) /\ state[t.targets[1]] # executing
            /\ ~NoWayToMake(t) /\ broke' = broke
  <2>1. \A n \in ts : state[n] = up_to_date /\ \A c \in Uses(n) : state[c] \in SettledStates
    BY <1>3, <1>5, <1>7, <1>11 DEF HandKinds
  <2>2. ASSUME NEW n \in ts,
               NEW d \in (ToSet(graph.sources[n]) \cup ToSet(graph.depends[n])) \cap Plains(graph)
        PROVE  Was(d) = "settled" \/ (Was(d) = "given_up" /\ mode = "ignore")
    <3>1. state[d] \in SettledStates /\ ~Gone(graph, d) /\ d \notin InHand
      BY <1>5, <1>11, <2>1, <2>2 DEF Uses, UsesOf
    <3>2. d \in broke => mode = "ignore"
      BY <1>1, <3>1, Kinds DEF BrokeInv
    <3>3. QED
      BY <2>2, <3>1, <3>2, Kinds DEF Was, FateAs
  <2>3. \A n \in ts : state[n] = up_to_date /\ Good(n)
    BY <2>1, <2>2 DEF Good
  <2>4. QED
    BY <1>1, <1>2, <1>3, <1>4, <1>8, <1>11, <2>3, EndFates DEF t
<1>12. CASE Conclude(t, TRUE) /\ NoWayToMake(t) /\ broke' = broke \cup ts
  BY <1>1, <1>2, <1>3, <1>4, <1>8, <1>9, <1>12, EndFates DEF t
<1>13. QED
  BY <1>6, <1>10, <1>11, <1>12

\* A result is taken.
LEMMA ResultFates ==
  ASSUME Types, SafeInv, SafeInv', FateInv, TakeResult
  PROVE  /\ FateInv'
         /\ \/ Becomes(Order!Fates \ {"settled"}, "given_up")
            \/ Becomes({"worked_on"}, "settled")
            \/ Becomes({"untouched"}, "settled") /\ GoodForChanged
<1> DEFINE t == resultsQueue[1][1]
           ok == resultsQueue[1][2]
           ts == Targets(t)
<1>1. /\ graph \in Graphs /\ WalkTypes /\ JobTypes /\ Ordinary(graph) /\ CandInv /\ WaitInv
      /\ PlaceInv /\ FlyInv /\ FlyInv'
  BY DEF Types, JobTypes, SafeInv, FateInv
<1>2. Flying' = Flying \ {t}
  BY <1>1, MainPlaces
<1>3. t \in Task /\ t \in Flying /\ ok \in BOOLEAN
  <2>1. resultsQueue # << >> /\ resultsQueue \in Seq(Task \X BOOLEAN)
    BY <1>1 DEF TakeResult, JobTypes
  <2>2. t \in TasksOf(resultsQueue)
    BY ONLY <1>1, <2>1, TakenTask DEF PlaceInv
  <2>3. QED
    BY <1>1, <2>1, <2>2, AtHand DEF Flying
<1>4. /\ task = << >> /\ task' = << >> /\ on_disk' = on_disk /\ Conclude(t, ok) /\ graph' = graph
      /\ IF ok THEN broke' = broke ELSE broke' = broke \cup ts
  BY <1>1 DEF TakeResult, JobTypes, Conclude
<1> HIDE DEF t, ok
<1>5. /\ t.targets = graph.targets[t.node] /\ ts \subseteq Plains(graph) /\ ts \subseteq graph.derived
      /\ ts \in SUBSET Nodes
      /\ \A n \in ts : state[n] \in {executing, failed} /\ state[n] \notin SettledStates
  BY <1>1, <1>3, Kinds, PlainDeps, TaskFields DEF FlyInv, Readable
<1>6. ~NoWayToMake(t)
  <2>1. t.node \in ts /\ t.targets \in Seq(Nodes)
    BY <1>1, <1>3, <1>5, TaskMates, TaskFields
  <2>2. t.targets # << >>
    BY <2>1 DEF Targets, ToSet
  <2>3. t.targets[1] \in ts
    BY <2>1, <2>2 DEF Targets, ToSet
  <2>4. QED
    BY <1>5, <2>3 DEF NoWayToMake, Missing, Derived
<1>7. /\ EndOf(ts) /\ UNCHANGED mode
      /\ IF ok \/ mode = "ignore" THEN Made(ts) ELSE Lost(ts)
  BY <1>1, <1>3, <1>4, <1>5, <1>6, Concluded
<1>8. /\ TargetsOf(Flying) \ ts = TargetsOf(Flying') \ ts
      /\ \A n \in ts : n \in TargetsOf(Flying) /\ n \in graph.derived /\ Was(n) # "settled"
  BY <1>2, <1>3, <1>5 DEF TargetsOf, Was, FateAs
<1>9. QED
  BY <1>1, <1>2, <1>3, <1>4, <1>5, <1>7, <1>8, EndFates

\* A task is dispatched: its targets are worked on, and made from what is good.
LEMMA DispatchFates ==
  ASSUME Types, SafeInv, FateInv, Dispatch
  PROVE  FateInv' /\ Becomes({"untouched"}, "worked_on") /\ GoodForChanged
<1> DEFINE t == task[1]
           ts == Targets(t)
<1>1. /\ graph \in Graphs /\ WalkTypes /\ JobTypes /\ Ordinary(graph) /\ FlyInv
      /\ PlaceInv /\ HandInv /\ BrokeInv /\ SideFateInv
  BY DEF Types, JobTypes, SafeInv, FateInv
<1>2. /\ task # << >> /\ t \in Task /\ state[t.targets[1]] = executing /\ task' = << >>
      /\ ~PrepareRaises(t) /\ on_disk' = on_disk \ Removed(t)
      /\ UNCHANGED <<graph, mode, state, broke>>
  BY <1>1, AtHand DEF Dispatch, JobTypes, nodeVars, walkVars
<1>3. /\ t.targets = graph.targets[t.node] /\ ts \subseteq Plains(graph) /\ HandKinds(t)
      /\ \A u \in Flying : OutOf(graph, t) \cap OutOf(graph, u) = {}
      /\ InHand = ts /\ InHand' = {} /\ ~t.exception
  BY <1>1, <1>2 DEF HandInv, InHand, PrepareRaises, SourcesMissing
<1>4. t.targets[1] \in ts /\ ts \in SUBSET Nodes /\ t.node \in ts
  <2>1. t.node \in ts /\ t.targets \in Seq(Nodes) /\ ts \in SUBSET Nodes
    BY <1>1, <1>2, <1>3, TaskMates, TaskFields
  <2>2. t.targets # << >>
    BY <2>1 DEF Targets, ToSet
  <2>3. 1 \in DOMAIN t.targets
    BY <2>1, <2>2
  <2>4. QED
    BY <2>1, <2>3 DEF Targets, ToSet
<1>5. Flying' = Flying \cup {t}
  <2>1. t \notin Flying
    BY <1>3, <1>4 DEF OutOf
  <2>2. QED
    BY <1>1, <2>1, MainPlaces
<1>6. \A n \in ts : \A d \in ToSet(graph.sources[n]) \cup ToSet(graph.depends[n]) : ~Gone(graph, d)
  BY <1>2, Preparing
<1> HIDE DEF t
<1>7. \A n \in ts : /\ state[n] = executing
                    /\ \A c \in Uses(n) : state[c] \in SettledStates
  BY <1>2, <1>3, <1>4, Kinds DEF HandKinds, DoneWith
<1>8. FateInv'
  BY <1>1, <1>2 DEF FateInv, BrokeInv, SideFateInv, HandNeeds
<1>9. TargetsOf(Flying') = TargetsOf(Flying) \cup ts /\ TargetsOf(Flying) \cap ts = {}
  BY <1>3, <1>5 DEF TargetsOf, OutOf
<1>10. \A n \in Nodes \ ts : Was(n)' = Was(n)
  BY <1>2, <1>3, <1>9 DEF Was, FateAs
<1>11. ASSUME NEW n \in ts
       PROVE  Was(n)' = Was(n) \/ (Was(n) = "untouched" /\ Was(n)' = "worked_on")
  BY <1>2, <1>3, <1>7, <1>9, <1>11, Kinds DEF Was, FateAs
<1>12. ASSUME NEW n \in ts,
              NEW d \in (ToSet(graph.sources[n]) \cup ToSet(graph.depends[n])) \cap Plains(graph)
       PROVE  Was(d) = "settled" \/ (Was(d) = "given_up" /\ mode = "ignore")
  <2>1. state[d] \in SettledStates /\ ~Gone(graph, d) /\ d \notin InHand
    BY <1>3, <1>6, <1>7, <1>12, Kinds DEF Uses, UsesOf
  <2>2. d \in broke => mode = "ignore"
    BY <1>1, <2>1, Kinds DEF BrokeInv
  <2>3. QED
    BY <1>12, <2>1, <2>2, Kinds DEF Was, FateAs
<1>13. QED
  BY <1>4, <1>8, <1>10, <1>11, <1>12 DEF Becomes, GoodForChanged, Good

LEMMA FateInit ==
  ASSUME Init
  PROVE  FateInv /\ Order!Init
<1>1. /\ graph \in Graphs /\ mode \in Modes /\ on_disk = graph.disk /\ broke = {} /\ task = << >>
      /\ state = [n \in Nodes |-> no_state]
      /\ requestQueue = << >> /\ running = {} /\ resultsQueue = << >>
  BY DEF Init, TaskmasterInit
<1>2. SideFateInv /\ BrokeInv /\ HandNeeds
  BY <1>1 DEF SideFateInv, BrokeInv, HandNeeds, Plains
<1>3. FateInv
  BY <1>1, <1>2 DEF FateInv
<1>4. \A n \in Nodes : Fate(n) = "untouched"
  BY <1>1, States DEF Fate, Settled
<1>5. [n \in Nodes |-> (ToSet(graph.sources[n]) \cup ToSet(graph.depends[n])) \ SideEffects(Nodes)]
        \in [Nodes -> SUBSET Nodes]
  BY <1>1, GraphFields, Membership
<1>6. (mode = "ignore") \in BOOLEAN
  OBVIOUS
<1>7. QED
  BY <1>3, <1>4, <1>5, <1>6 DEF Order!Init

LEMMA FateStep ==
  ASSUME Types, SafeInv, SafeInv', FateInv, [Next]_vars
  PROVE  FateInv' /\ [Order!Next]_(Order!vars)
<1>1. /\ graph \in Graphs /\ FileInv /\ FileInv'
  BY DEF Types, JobTypes, SafeInv, KnowInv, DiskInv
<1>2. UNCHANGED <<graph, mode>>
  BY DEF Next, Main, LookForTask, FindNextReadyNode, NoMoreTasks, NoNextCandidate, PrepareFails,
         NothingToDo, Conclude, Dispatch, TakeResult, TakeTask, Execute, RetrieveFromCache,
         RetrievedBuilt, Build, BuildFails, Interrupt, Ended, vars, tmVars
<1>3. CASE UNCHANGED vars
  <2>1. UNCHANGED <<graph, mode, state, broke, task, requestQueue, running, resultsQueue>>
    BY <1>3 DEF vars, tmVars, jobVars, nodeVars, scanVars, walkVars
  <2>2. FateInv'
    BY <2>1 DEF FateInv, SideFateInv, BrokeInv, HandNeeds, InHand
  <2>3. Becomes(Order!Fates \ {"settled"}, "given_up")
    BY <2>1 DEF Becomes, Was, FateAs, Flying, Working, TasksOf, InHand
  <2>4. QED
    BY <1>1, <1>2, <2>2, <2>3, OrderSteps
<1>4. ASSUME Next
      PROVE  /\ FateInv' \/ UNCHANGED vars
             /\ \/ UNCHANGED vars
                \/ Becomes(Order!Fates \ {"settled"}, "given_up")
                \/ Becomes({"worked_on"}, "settled")
                \/ Becomes({"untouched"}, "worked_on") /\ GoodForChanged
                \/ Becomes({"untouched"}, "settled") /\ GoodForChanged
  <2>1. CASE LookForTask
    BY <2>1, LookFates
  <2>2. CASE NoMoreTasks
    BY <2>2, NoMoreFates
  <2>3. CASE PrepareFails \/ NothingToDo
    BY <2>3, HandFates
  <2>4. CASE Dispatch
    BY <2>4, DispatchFates
  <2>5. CASE TakeResult
    BY <2>5, ResultFates
  <2>6. CASE TakeTask \/ Execute \/ Interrupt
    BY <2>6, WorkFates
  <2>7. QED
    BY <1>4, <2>1, <2>2, <2>3, <2>4, <2>5, <2>6 DEF Next, Main, Ended
<1>5. CASE Next /\ ~UNCHANGED vars
  <2>1. FateInv'
    BY <1>4, <1>5
  <2>2. Order!Next
    BY <1>1, <1>2, <1>4, <1>5, OrderSteps
  <2>3. QED
    BY <2>1, <2>2
<1>6. QED
  BY <1>3, <1>5

\* ImplementsBuildOrder: a build works on a node only when everything it is made
\* from is settled, once at most, and how it ended is final (Taskmaster.py:463).
THEOREM ImplementsBuildOrderAlways ==
  ASSUME \A g \in Graphs : Ordinary(g)
  PROVE  Spec => ImplementsBuildOrder
<1>1. Init => SafeInv /\ FateInv /\ Order!Init
  BY SafeInit, FateInit
<1>2. Types /\ SafeInv /\ SafeInv' /\ FateInv /\ [Next]_vars => FateInv' /\ [Order!Next]_(Order!vars)
  BY FateStep
<1>3. QED
  BY <1>1, <1>2, TypesInit, TypesStep, SafeStep, PTL DEF Spec, ImplementsBuildOrder, Order!Spec

-----------------------------------------------------------------------------
(***************************************************************************)
(* What is looked at again: the candidates after a step.                   *)
(***************************************************************************)

\* A sequence made from a set holds all of it.
LEMMA AllInSequence ==
  ASSUME NEW S, IsFiniteSet(S), NEW s \in SetToSeqs(S)
  PROVE  S \subseteq ToSet(s)
<1> DEFINE k == Cardinality(S)
<1>1. k \in Nat
  BY FS_CardinalityType
<1>2. s \in [1 .. k -> S] /\ \A i, j \in 1 .. k : i # j => s[i] # s[j]
  BY DEF SetToSeqs
<1>3. ASSUME NEW x \in S, x \notin ToSet(s) PROVE FALSE
  <2>1. s \in [1 .. k -> S \ {x}]
    <3>1. \A i \in 1 .. k : s[i] \in ToSet(s)
      BY <1>2 DEF ToSet
    <3>2. QED
      BY <1>2, <1>3, <3>1
  <2>2. IsFiniteSet(S \ {x}) /\ Cardinality(S \ {x}) = k - 1
    BY ONLY IsFiniteSet(S), <1>3, FS_RemoveElement
  <2>3. IsFiniteSet(1 .. k) /\ Cardinality(1 .. k) = k
    <3>1. k \in Int /\ 1 \in Int /\ ~(1 > k /\ k # 0)
      BY <1>1
    <3>2. QED
      BY <1>1, <3>1, FS_Interval
  <2> HIDE DEF k
  <2>4. Cardinality(S \ {x}) < Cardinality(1 .. k)
    BY <1>1, <2>2, <2>3
  <2>5. \E i, j \in 1 .. k : i # j /\ s[i] = s[j]
    BY ONLY <2>1, <2>2, <2>3, <2>4, FS_PigeonHole
  <2>6. QED
    BY <1>2, <2>5
<1>4. QED
  BY <1>3

\* All the nodes of a list that were never looked at become candidates.
LEMMA AllLastFirst ==
  ASSUME NEW listed \in Seq(Nodes), NEW unvisited \in LastFirst(listed),
         NEW c \in ToSet(listed), Marked[c] = no_state
  PROVE  c \in ToSet(unvisited)
<1> DEFINE U == {i \in DOMAIN listed : Marked[listed[i]] = no_state}
<1>1. PICK places \in SetToSeqs(U) : unvisited = [k \in DOMAIN places |-> listed[places[k]]]
  BY DEF LastFirst
<1>2. IsFiniteSet(U)
  <2>1. Len(listed) \in Nat /\ DOMAIN listed = 1 .. Len(listed)
    OBVIOUS
  <2>2. IsFiniteSet(1 .. Len(listed))
    BY <2>1, FS_Interval
  <2>3. U \in SUBSET (1 .. Len(listed))
    BY <2>1
  <2>4. QED
    BY <2>2, <2>3, FS_Subset
<1>3. PICK i \in U : listed[i] = c
  BY DEF ToSet
<1> HIDE DEF U
<1>4. U \subseteq ToSet(places)
  BY ONLY <1>1, <1>2, AllInSequence
<1>5. PICK k \in DOMAIN places : places[k] = i
  BY <1>4 DEF ToSet
<1>6. k \in DOMAIN unvisited /\ unvisited[k] = c
  BY <1>1, <1>3, <1>5
<1>7. QED
  BY <1>6 DEF ToSet

\* Whatever the candidate is left waiting for, and was never looked at, is one, too.
LEMMA AllWaitingCandidates ==
  ASSUME graph \in Graphs, WalkTypes, WaitForChildren
  PROVE  /\ ToSet(OtherCandidates) \subseteq ToSet(candidates')
         /\ \A c \in Children(Candidate) : Marked[c] = no_state => c \in ToSet(candidates')
<1> DEFINE n == Candidate
<1>1. n \in Nodes /\ OtherCandidates \in Seq(Nodes)
  BY CandidateTypes DEF WaitForChildren, Considered
<1>2. PICK found \in SetToSeqs(ImplicitOf(n)) :
        \E unvisited \in LastFirst(graph.sources[n] \o graph.depends[n] \o found) :
          candidates' = OtherCandidates \o unvisited
  BY DEF WaitForChildren
<1>3. ImplicitOf(n) \in SUBSET Nodes
  BY <1>1, ChildrenTypes
<1>4. found \in Seq(Nodes) /\ ImplicitOf(n) \subseteq ToSet(found)
  <2>1. IsFiniteSet(ImplicitOf(n))
    BY <1>3, NodeSets
  <2>2. ImplicitOf(n) \subseteq ToSet(found)
    BY ONLY <1>2, <2>1, AllInSequence
  <2>3. QED
    BY <1>2, <1>3, <2>2, SetSequence
<1>5. graph.sources[n] \in Seq(Nodes) /\ graph.depends[n] \in Seq(Nodes)
  BY <1>1, GraphFields
<1> DEFINE own == graph.sources[n] \o graph.depends[n]
           listed == own \o found
<1>6. own \in Seq(Nodes) /\ ToSet(own) = ToSet(graph.sources[n]) \cup ToSet(graph.depends[n])
  BY ONLY <1>5, ConcatElements
<1> HIDE DEF own
<1>7. listed \in Seq(Nodes) /\ ToSet(listed) = ToSet(own) \cup ToSet(found)
  BY ONLY <1>4, <1>6, ConcatElements
<1>8. PICK unvisited \in LastFirst(listed) : candidates' = OtherCandidates \o unvisited
  BY <1>2 DEF own
<1> HIDE DEF listed
<1>9. unvisited \in Seq(Nodes)
  BY <1>7, LastFirstNodes
<1>10. ToSet(OtherCandidates \o unvisited) = ToSet(OtherCandidates) \cup ToSet(unvisited)
  BY ONLY <1>1, <1>9, ConcatElements
<1>11. Children(n) \subseteq ToSet(listed)
  BY <1>4, <1>6, <1>7 DEF Children
<1>12. ASSUME NEW c \in Children(n), Marked[c] = no_state PROVE c \in ToSet(unvisited)
  BY <1>7, <1>11, <1>12, AllLastFirst
<1>13. QED
  BY <1>8, <1>10, <1>12

\* Taking the candidate leaves all the others.
LEMMA OthersLeft ==
  ASSUME WalkTypes, HasCandidate, NEW m, m # Candidate
  PROVE  /\ m \in ToSet(candidates) => m \in ToSet(OtherCandidates)
         /\ PopCandidate /\ m \in ToSet(top_targets_left) => m \in ToSet(top_targets_left')
<1>1. candidates \in Seq(Nodes) /\ top_targets_left \in Seq(Nodes)
  BY DEF WalkTypes
<1>2. CASE candidates # << >>
  <2>1. Len(candidates) \in Nat \ {0} /\ DOMAIN candidates = 1 .. Len(candidates)
    BY <1>1, <1>2
  <2>2. Candidate = candidates[Len(candidates)] /\ OtherCandidates = Front(candidates)
    BY <1>2 DEF Candidate, OtherCandidates, Last
  <2>3. ASSUME m \in ToSet(candidates) PROVE m \in ToSet(Front(candidates))
    <3>1. Front(candidates) = SubSeq(candidates, 1, Len(candidates) - 1)
      BY DEF Front
    <3>2. /\ DOMAIN Front(candidates) = 1 .. Len(candidates) - 1
          /\ \A i \in 1 .. Len(candidates) - 1 : Front(candidates)[i] = candidates[i]
      BY <1>1, <2>1, <3>1
    <3>3. PICK i \in 1 .. Len(candidates) : candidates[i] = m
      BY <2>1, <2>3 DEF ToSet
    <3>4. i \in 1 .. Len(candidates) - 1
      BY <2>1, <2>2, <3>3
    <3>5. QED
      BY <3>2, <3>3, <3>4 DEF ToSet
  <2>4. QED
    BY <1>2, <2>2, <2>3 DEF PopCandidate
<1>3. CASE candidates = << >>
  <2>1. top_targets_left # << >> /\ Candidate = Head(top_targets_left)
    BY <1>3 DEF HasCandidate, Candidate
  <2>2. ASSUME m \in ToSet(top_targets_left) PROVE m \in ToSet(Tail(top_targets_left))
    <3>1. /\ DOMAIN Tail(top_targets_left) = 1 .. Len(top_targets_left) - 1
          /\ \A i \in 1 .. Len(top_targets_left) - 1 :
               Tail(top_targets_left)[i] = top_targets_left[i + 1]
      BY <1>1, <2>1
    <3>2. PICK i \in 1 .. Len(top_targets_left) : top_targets_left[i] = m
      BY <1>1, <2>2 DEF ToSet
    <3>3. i # 1 /\ Len(top_targets_left) \in Nat
      BY <1>1, <2>1, <3>2
    <3>4. i - 1 \in 1 .. Len(top_targets_left) - 1
      BY <3>2, <3>3
    <3>5. Tail(top_targets_left)[i - 1] = m
      BY <3>1, <3>2, <3>4
    <3>6. QED
      BY <3>1, <3>4, <3>5 DEF ToSet
  <2>3. m \notin ToSet(candidates)
    BY <1>3 DEF ToSet
  <2>4. QED
    BY <1>3, <2>2, <2>3 DEF PopCandidate
<1>4. QED
  BY <1>2, <1>3

\* postprocess() of the targets ts queues q: the nodes that have nothing left to wait for.
Queued(q, pend, ts) ==
  /\ candidates' = candidates \o q
  /\ pending_children' = pend \ ToSet(q)
  /\ \A p \in ToSet(q) : /\ p \in Plains(graph) /\ WaitingFor(p)' = {}
                         /\ WaitingFor(p) # {} \/ \E s \in Nodes : p \in waiting_s_e[s]
  /\ \A p \in Nodes : WaitingFor(p) # {} /\ WaitingFor(p)' = {} => p \in ToSet(q)
  /\ \A s \in SideOf(graph, ts) : /\ state'[s] # executing
                                  /\ \A p \in waiting_s_e[s] : WaitingFor(p) = {} => p \in ToSet(q)

LEMMA PostQueues ==
  ASSUME graph \in Graphs, Ordinary(graph), WalkTypes, CandInv, WaitInv, CountInv,
         NEW st \in [Nodes -> NodeStates], NEW pend \in SUBSET Nodes, NEW ts \in SUBSET Nodes,
         PostProcess(st, pend, ts)
  PROVE  \E q \in Seq(Nodes) : Queued(q, pend, ts)
<1> DEFINE held == {s \in SideEffects(ts) : st[s] = executing}
           woken == {p \in UNION {waiting_s_e[s] : s \in SideEffects(ts)} : ref_count[p] = 0}
           Left(p) == ref_count[p] - Subtract(p, ts) - Subtract(p, held)
           ready == {p \in ParentsOf(ts \cup held) : Left(p) = 0}
<1>1. /\ \E w \in SetToSeqs(woken), r \in SetToSeqs(ready) : candidates' = candidates \o w \o r
      /\ ref_count' = [p \in Nodes |-> Left(p)]
      /\ pending_children' = pend \ (woken \cup ready)
      /\ state' = [n \in Nodes |-> IF n \in held THEN no_state ELSE st[n]]
      /\ waiting_parents' = [n \in Nodes |-> IF n \in ts THEN {} ELSE waiting_parents[n]]
  BY DEF PostProcess
<1>2. /\ SideEffects(ts) = SideOf(graph, ts) /\ SideEffects(ts) \in SUBSET Nodes
      /\ SideEffects(ts) \cap Plains(graph) = {} /\ held \subseteq SideEffects(ts)
      /\ ts \cup held \in SUBSET Nodes
  BY SideSame, PlainDeps
<1>3. /\ woken \in SUBSET Nodes /\ ready \in SUBSET Nodes
      /\ woken \cup ready \subseteq Plains(graph)
  <2>1. woken \subseteq Plains(graph)
    BY <1>2 DEF CandInv
  <2>2. ParentsOf(ts \cup held) \subseteq Plains(graph)
    BY <1>2 DEF ParentsOf, WaitInv
  <2>3. QED
    BY <2>1, <2>2 DEF Plains
<1>4. \A p \in Nodes : ref_count[p] = Cardinality(WaitingFor(p)) /\ WaitingFor(p) \in SUBSET Nodes
  BY DEF CountInv, WaitingFor
<1>5. \A p \in Nodes : ref_count'[p] = Cardinality(WaitingFor(p)') /\ WaitingFor(p)' \in SUBSET Nodes
  BY PostProcessCounts DEF WaitingFor
<1>6. \A S \in SUBSET Nodes : Cardinality(S) = 0 <=> S = {}
  BY NodeSets, FS_EmptySet
<1>7. ASSUME NEW p \in woken
      PROVE  WaitingFor(p)' = {} /\ \E s \in Nodes : p \in waiting_s_e[s]
  <2>1. p \in Nodes /\ WaitingFor(p) = {}
    BY <1>3, <1>4, <1>6
  <2>2. \E s \in Nodes : p \in waiting_s_e[s]
    BY <1>2
  <2>3. QED
    BY <1>1, <2>1, <2>2 DEF WaitingFor
<1>8. ASSUME NEW p \in ready
      PROVE  WaitingFor(p)' = {} /\ WaitingFor(p) # {}
  <2>1. p \in Nodes /\ ref_count'[p] = 0
    BY <1>1, <1>3
  <2>2. PICK c \in ts \cup held : p \in waiting_parents[c]
    BY DEF ParentsOf
  <2>3. c \in WaitingFor(p)
    BY <1>2, <2>2 DEF WaitingFor
  <2>4. QED
    BY <1>5, <1>6, <2>1, <2>3
<1>9. ASSUME NEW p \in Nodes, WaitingFor(p) # {}, WaitingFor(p)' = {} PROVE p \in ready
  <2>1. Left(p) = 0
    BY <1>1, <1>5, <1>6, <1>9
  <2>2. PICK c \in Nodes : p \in waiting_parents[c]
    BY <1>9 DEF WaitingFor
  <2>3. c \in ts
    BY <1>1, <1>9, <2>2 DEF WaitingFor
  <2>4. QED
    BY <2>1, <2>2, <2>3 DEF ParentsOf
<1>10. ASSUME NEW s \in SideOf(graph, ts)
       PROVE  /\ state'[s] # executing
              /\ \A p \in waiting_s_e[s] : WaitingFor(p) = {} => p \in woken
  <2>1. s \in Nodes /\ s \in SideEffects(ts)
    BY <1>2
  <2>2. state'[s] # executing
    BY <1>1, <2>1, Kinds
  <2>3. ASSUME NEW p \in waiting_s_e[s], WaitingFor(p) = {} PROVE p \in woken
    <3>1. p \in Nodes
      BY <2>1 DEF CandInv, Plains
    <3>2. QED
      BY <1>4, <1>6, <2>1, <2>3, <3>1
  <2>4. QED
    BY <2>2, <2>3
<1> HIDE DEF woken, ready, held
<1>11. \E q \in Seq(Nodes) : candidates' = candidates \o q /\ ToSet(q) = woken \cup ready
  <2>1. PICK w \in SetToSeqs(woken), r \in SetToSeqs(ready) : candidates' = candidates \o w \o r
    BY <1>1
  <2>2. w \in Seq(Nodes) /\ ToSet(w) = woken
    <3>1. w \in Seq(Nodes) /\ ToSet(w) \subseteq woken /\ woken \subseteq ToSet(w)
      BY <1>3, <2>1, NodeSets, SetSequence, AllInSequence
    <3>2. QED
      BY <3>1
  <2>3. r \in Seq(Nodes) /\ ToSet(r) = ready
    <3>1. r \in Seq(Nodes) /\ ToSet(r) \subseteq ready /\ ready \subseteq ToSet(r)
      BY <1>3, <2>1, NodeSets, SetSequence, AllInSequence
    <3>2. QED
      BY <3>1
  <2>4. candidates \in Seq(Nodes)
    BY DEF WalkTypes
  <2>5. candidates' = candidates \o (w \o r)
    BY ONLY <2>1, <2>2, <2>3, <2>4
  <2>6. w \o r \in Seq(Nodes) /\ ToSet(w \o r) = ToSet(w) \cup ToSet(r)
    BY ONLY <2>2, <2>3, ConcatElements
  <2>7. QED
    BY <2>2, <2>3, <2>5, <2>6
<1>12. PICK q \in Seq(Nodes) : candidates' = candidates \o q /\ ToSet(q) = woken \cup ready
  BY <1>11
<1>13. Queued(q, pend, ts)
  BY <1>1, <1>3, <1>7, <1>8, <1>9, <1>10, <1>12 DEF Queued
<1>14. QED
  BY <1>13

LEMMA PostWakes ==
  ASSUME graph \in Graphs, Ordinary(graph), WalkTypes, CandInv, WaitInv, CountInv,
         NEW st \in [Nodes -> NodeStates], NEW pend \in SUBSET Nodes, NEW ts \in SUBSET Nodes,
         PostProcess(st, pend, ts)
  PROVE  /\ ToSet(candidates) \subseteq ToSet(candidates')
         /\ \A p \in Nodes : WaitingFor(p) # {} /\ WaitingFor(p)' = {} => p \in ToSet(candidates')
         /\ \A s \in SideOf(graph, ts) : /\ state'[s] # executing
                                         /\ \A p \in waiting_s_e[s] :
                                              WaitingFor(p) = {} => p \in ToSet(candidates')
         /\ \A p \in pend \ pending_children' : WaitingFor(p)' = {}
<1>1. PICK q \in Seq(Nodes) : Queued(q, pend, ts)
  BY PostQueues
<1>2. candidates \in Seq(Nodes)
  BY DEF WalkTypes
<1>3. ToSet(candidates \o q) = ToSet(candidates) \cup ToSet(q)
  BY ONLY <1>1, <1>2, ConcatElements
<1>4. QED
  BY <1>1, <1>3 DEF Queued

-----------------------------------------------------------------------------
(***************************************************************************)
(* NothingForgotten: builds in which nothing fails.                        *)
(***************************************************************************)
\* Only what has a builder, or is a side effect, has sources.
SourcesHaveBuilders(g) == \A n \in Plains(g) \ g.derived : g.sources[n] = << >>

\* With -i, a task whose scan raised ends as one that went well, and what its node is
\* made from may never be looked at.
ScansMatter(g) == "ignore" \in Modes => g.unscannable = {}

IdleStates == {no_state, pending}

\* The main thread has a task whose scan raised.
Raised == task # << >> /\ task[1].exception

\* Nothing failed, or is about to.
Calm == status = 0 /\ ~interrupted /\ ~Raised

\* Nothing was stopped or given up.
NoneFailed == ~stopped /\ \A n \in Plains(graph) : state[n] # failed

\* What is settled was made from what is.
Closed ==
  \A n \in Plains(graph) : state[n] \in SettledStates => \A c \in Uses(n) : state[c] \in SettledStates

\* What is executing is so for a task.
Accounted ==
  \A n \in Nodes : state[n] = executing => \E t \in Flying \cup ToSet(task) : n \in OutOf(graph, t)

\* A scan that raised was one that may.
HandScan == Raised => task[1].node \in graph.unscannable

\* A node that was looked at, and is not being made, will be looked at again...
Remembered(n) ==
  \/ n \in ToSet(candidates)
  \/ WaitingFor(n) # {}
  \/ \E s \in Nodes \ Plains(graph) : n \in waiting_s_e[s] /\ state[s] = executing

\* ...and so will one that was not, and is waited for, or asked for.
Remembering ==
  \A n \in Plains(graph) :
    /\ state[n] = pending => Remembered(n)
    /\ state[n] = no_state => /\ WaitingFor(n) = {}
                              /\ waiting_parents[n] # {} => n \in ToSet(candidates)
                              /\ n \in ToSet(graph.top) => n \in ToSet(top_targets_left)

\* Of nodes that wait for each other in a circle, some are among pending_children.
CirclesSeen ==
  \A S \in SUBSET {n \in Plains(graph) : state[n] \in IdleStates} :
    S # {} => \E n \in S : \A c \in S : n \in waiting_parents[c] => c \in pending_children

WellInv == NoneFailed /\ Closed /\ Accounted /\ HandScan /\ Remembering /\ CirclesSeen

\* When the build ends, nothing is at work.
EndInv == IsFiniteSet(running) /\ (outcome # "none" => pc = "end") /\ (pc = "end" => Flying = {})

CompleteInv ==
  /\ SourcesHaveBuilders(graph) /\ ScansMatter(graph) /\ HandScan
  /\ Calm => WellInv
  /\ EndInv /\ NothingForgotten

\* What was settled stays so; what a node uses is not touched once it is settled.
LEMMA ClosedStays ==
  ASSUME graph \in Graphs, Ordinary(graph), KnowInv, Closed, UNCHANGED graph,
         \A n \in Plains(graph) : state[n] \in SettledStates => state'[n] \in SettledStates,
         \A f \in Plains(graph) : state[f] \in SettledStates => (f \in on_disk' <=> f \in on_disk),
         \A n \in Plains(graph) : state'[n] \in SettledStates =>
           \/ /\ implicit'[n] = implicit[n]
              /\ state[n] \in SettledStates \/ \A c \in Uses(n) : state[c] \in SettledStates
           \/ \A c \in Uses(n)' : state'[c] \in SettledStates
  PROVE  Closed'
<1>1. ASSUME NEW n \in Plains(graph), state'[n] \in SettledStates, implicit'[n] = implicit[n],
             \A c \in Uses(n) : state[c] \in SettledStates
      PROVE  \A c \in Uses(n)' : state'[c] \in SettledStates
  <2>1. n \in Nodes /\ Uses(n) \subseteq Plains(graph)
    BY UsedArePlain DEF Plains
  <2>2. \A c \in Uses(n) : c \in on_disk' <=> c \in on_disk
    BY <1>1, <2>1
  <2>3. Uses(n)' = Uses(n)
    BY <1>1, <2>1, <2>2, UsesStay DEF Uses
  <2>4. QED
    BY <1>1, <2>1, <2>3
<1>2. QED
  BY <1>1 DEF Closed

\* Nobody waits for more, and nobody waits in vain.
LEMMA CirclesStay ==
  ASSUME CirclesSeen, UNCHANGED graph,
         \A n \in Plains(graph) : state'[n] \in IdleStates => state[n] \in IdleStates,
         \A c \in Nodes : waiting_parents'[c] \subseteq waiting_parents[c],
         \A c \in pending_children \ pending_children' : WaitingFor(c)' = {}
  PROVE  CirclesSeen'
<1> SUFFICES ASSUME NEW S \in SUBSET {n \in Plains(graph) : state'[n] \in IdleStates}, S # {}
             PROVE  \E n \in S : \A c \in S : n \in waiting_parents'[c] => c \in pending_children'
  BY DEF CirclesSeen
<1>1. S \in SUBSET {n \in Plains(graph) : state[n] \in IdleStates} /\ S \subseteq Nodes
  BY DEF Plains
<1>2. PICK n \in S : \A c \in S : n \in waiting_parents[c] => c \in pending_children
  BY <1>1 DEF CirclesSeen
<1>3. CASE \A c \in S : n \in waiting_parents[c] => c \in pending_children'
  BY <1>1, <1>3
<1>4. CASE \E k \in S : k \in pending_children \ pending_children'
  <2>1. PICK k \in S : WaitingFor(k)' = {}
    BY <1>4
  <2>2. \A c \in S : k \notin waiting_parents'[c]
    BY <1>1, <2>1 DEF WaitingFor
  <2>3. QED
    BY <2>2
<1>5. QED
  BY <1>2, <1>3, <1>4

\* A look at a candidate forgets nobody else.
LEMMA OthersRemembered ==
  ASSUME WalkTypes, CandInv, HasCandidate, PopCandidate, task = << >>, Remembering, UNCHANGED graph,
         NEW k, k = Candidate,
         ToSet(OtherCandidates) \subseteq ToSet(candidates'),
         \A c \in Nodes : /\ waiting_parents[c] \subseteq waiting_parents'[c]
                          /\ waiting_s_e[c] \subseteq waiting_s_e'[c],
         \A c \in Nodes : \A p \in waiting_parents'[c] \ waiting_parents[c] :
           p = k /\ (state'[c] = no_state => c \in ToSet(candidates')),
         \A s \in Nodes \ Plains(graph) : state[s] = executing => state'[s] = executing,
         \A m \in Plains(graph) \ {k} : state'[m] \in IdleStates => state'[m] = state[m],
         state'[k] \in IdleStates => state'[k] = pending /\ Remembered(k)'
  PROVE  Remembering'
<1>1. ASSUME NEW m \in Plains(graph), m # k, state'[m] = pending PROVE Remembered(m)'
  <2>1. Remembered(m)
    BY <1>1 DEF Remembering, IdleStates
  <2>2. CASE m \in ToSet(candidates)
    BY <1>1, <2>2, OthersLeft DEF Remembered
  <2>3. CASE WaitingFor(m) # {}
    BY <2>3 DEF Remembered, WaitingFor
  <2>4. CASE \E s \in Nodes \ Plains(graph) : m \in waiting_s_e[s] /\ state[s] = executing
    BY <2>4 DEF Remembered
  <2>5. QED
    BY <2>1, <2>2, <2>3, <2>4 DEF Remembered
<1>2. ASSUME NEW m \in Plains(graph), m # k, state'[m] = no_state
      PROVE  /\ WaitingFor(m)' = {}
             /\ waiting_parents'[m] # {} => m \in ToSet(candidates')
             /\ m \in ToSet(graph.top) => m \in ToSet(top_targets_left')
  <2>1. /\ WaitingFor(m) = {} /\ (waiting_parents[m] # {} => m \in ToSet(candidates))
        /\ m \in ToSet(graph.top) => m \in ToSet(top_targets_left)
    BY <1>2 DEF Remembering, IdleStates
  <2>2. WaitingFor(m)' = {}
    BY <1>2, <2>1 DEF WaitingFor
  <2>3. m \in Nodes
    BY DEF Plains
  <2>4. waiting_parents'[m] # {} => m \in ToSet(candidates')
    BY <1>2, <2>1, <2>3, OthersLeft
  <2>5. QED
    BY <1>2, <2>1, <2>2, <2>4, OthersLeft
<1>3. pending \in IdleStates /\ no_state \in IdleStates /\ pending # no_state
  BY States DEF IdleStates
<1>4. ASSUME NEW m \in Plains(graph)
      PROVE  /\ state'[m] = pending => Remembered(m)'
             /\ state'[m] = no_state => /\ WaitingFor(m)' = {}
                                        /\ waiting_parents'[m] # {} => m \in ToSet(candidates')
                                        /\ m \in ToSet(graph.top) => m \in ToSet(top_targets_left')
  <2>1. CASE m = k
    BY <1>3, <2>1
  <2>2. CASE m # k
    BY <1>1, <1>2, <2>2
  <2>3. QED
    BY <2>1, <2>2
<1>5. QED
  BY <1>4 DEF Remembering

\* After a look at a candidate, what is executing is so for a task, and what was looked
\* at, or is to be, will be.
LEMMA MarkAccounts ==
  ASSUME Types, SafeInv, Accounted, Remembering, LookForTask, Flying' = Flying,
         WaitForChildren \/ WaitForSideEffect
  PROVE  Accounted' /\ HandScan' /\ Remembering'
<1> DEFINE n == Candidate
           not_ready == {c \in Children(n) : Marked[c] <= executing}
<1>1. PICK k : k = n
  OBVIOUS
<1>2. /\ graph \in Graphs /\ WalkTypes /\ Ordinary(graph) /\ KnowInv /\ CandInv /\ GroupInv
      /\ ImplInv /\ FileInv /\ AbsentInv /\ Plains(graph) \subseteq Nodes
  BY DEF Types, JobTypes, SafeInv, KnowInv, DiskInv, Plains
<1>3. /\ Considered /\ HasCandidate /\ PopCandidate /\ task = << >>
      /\ UNCHANGED <<graph, stopped>>
  BY DEF LookForTask, FindNextReadyNode, WaitForChildren, WaitForSideEffect,
         ChildrenFinished, Considered
<1>4. /\ k \in Nodes /\ k \in Plains(graph) /\ state[k] \in IdleStates
      /\ \A m \in Nodes : Marked[m] = IF m = k THEN pending ELSE state[m]
  BY <1>1, <1>2, <1>3, CandidateState DEF IdleStates
<1>5. Children(k) \subseteq Plains(graph)
  BY <1>2, <1>4, ScanFinds, PlainDeps
<1>6. /\ state'[k] \in {pending, failed} /\ (state'[k] = pending => state' = Marked)
      /\ \A m \in Nodes \ {k} : state'[m] = state[m]
  <2>1. state' = Marked \/ state' = [state EXCEPT ![k] = failed]
    BY <1>1 DEF WaitForChildren, WaitForSideEffect
  <2>2. state \in [Nodes -> NodeStates] /\ pending # failed
    BY <1>2, States DEF WalkTypes
  <2>3. QED
    BY <1>4, <2>1, <2>2
<1>7. Accounted'
  BY <1>3, <1>4, <1>6, Kinds DEF Accounted, ToSet
<1>8. HandScan'
  <2>1. task' = << >>
    BY <1>3 DEF WaitForChildren, WaitForSideEffect
  <2>2. QED
    BY <2>1 DEF HandScan, Raised
<1>9. \A m \in Plains(graph) \ {k} : state'[m] = state[m]
  BY <1>2, <1>6
<1>10. /\ ToSet(OtherCandidates) \subseteq ToSet(candidates')
       /\ WaitForChildren => \A c \in Children(k) : Marked[c] = no_state => c \in ToSet(candidates')
  <2>1. CASE WaitForChildren
    BY <1>1, <1>2, <2>1, AllWaitingCandidates
  <2>2. CASE WaitForSideEffect
    <3>1. candidates' = OtherCandidates
      BY <2>2 DEF WaitForSideEffect, ChildrenFinished
    <3>2. QED
      BY <1>2, <2>2, <3>1, <2>1
  <2>3. QED
    BY <2>1, <2>2
<1>11. \A c \in Nodes : /\ waiting_parents[c] \subseteq waiting_parents'[c]
                        /\ waiting_s_e[c] \subseteq waiting_s_e'[c]
                        /\ \A p \in waiting_parents'[c] \ waiting_parents[c] :
                             p = k /\ (state'[c] = no_state => c \in ToSet(candidates'))
  <2>1. CASE WaitForChildren
    <3>1. UNCHANGED waiting_s_e
      BY <2>1 DEF WaitForChildren
    <3>2. \/ waiting_parents' = waiting_parents
          \/ /\ state' = Marked
             /\ waiting_parents' = [c \in Nodes |->
                  IF c \in not_ready THEN waiting_parents[c] \cup {n} ELSE waiting_parents[c]]
      BY <2>1 DEF WaitForChildren
    <3>3. not_ready \subseteq Children(k)
      BY <1>1
    <3> HIDE DEF not_ready, n
    <3>4. QED
      BY <1>1, <1>10, <2>1, <3>1, <3>2, <3>3
  <2>2. CASE WaitForSideEffect
    BY <2>2 DEF WaitForSideEffect
  <2>3. QED
    BY <2>1, <2>2
<1>12. ASSUME state'[k] = pending PROVE Remembered(k)'
  <2>1. CASE WaitForChildren
    <3>1. /\ not_ready # {}
          /\ waiting_parents' = [c \in Nodes |->
               IF c \in not_ready THEN waiting_parents[c] \cup {n} ELSE waiting_parents[c]]
      <4>1. state' # [state EXCEPT ![n] = failed]
        BY <1>1, <1>2, <1>4, <1>12, States DEF WalkTypes
      <4>2. QED
        BY <2>1, <4>1 DEF WaitForChildren
    <3>2. PICK c \in not_ready : TRUE
      BY <3>1
    <3>3. c \in Nodes /\ k \in waiting_parents'[c]
      BY <1>1, <1>2, <1>5, <3>1, <3>2
    <3>4. QED
      BY <3>3 DEF Remembered, WaitingFor
  <2>2. CASE WaitForSideEffect
    <3>1. /\ BusySideEffects(k) # {} /\ state' = Marked
          /\ waiting_s_e' = [s \in Nodes |->
               IF s \in BusySideEffects(k) THEN waiting_s_e[s] \cup {k} ELSE waiting_s_e[s]]
      BY <1>1, <2>2 DEF WaitForSideEffect
    <3>2. PICK s \in graph.side_effects[k] : state'[s] = executing
      BY <3>1 DEF BusySideEffects
    <3>3. s \in Nodes \ Plains(graph) /\ s \in BusySideEffects(k)
      BY <1>2, <1>4, <3>1, <3>2, GraphFields DEF BusySideEffects, Plains, SideOf
    <3>4. QED
      BY <1>3, <3>1, <3>2, <3>3 DEF Remembered
  <2>3. QED
    BY <2>1, <2>2
<1>13. state'[k] \in IdleStates => state'[k] = pending
  BY <1>6, States DEF IdleStates
<1>14. \A s \in Nodes \ Plains(graph) : state'[s] = state[s]
  BY <1>4, <1>6
<1>15. k = Candidate
  BY <1>1
<1> HIDE DEF n, not_ready
<1>16. Remembering'
  BY <1>2, <1>3, <1>9, <1>10, <1>11, <1>12, <1>13, <1>14, <1>15, OthersRemembered
<1>17. QED
  BY <1>7, <1>8, <1>16

\* The candidate, and no other node, is marked pending.
LEMMA MarkKeeps ==
  ASSUME Types, SafeInv, WellInv, LookForTask, Flying' = Flying, NEW k, k = Candidate,
         WaitForChildren \/ WaitForSideEffect
  PROVE  /\ Considered /\ HasCandidate /\ PopCandidate
         /\ k \in Plains(graph) /\ state[k] \in IdleStates /\ state'[k] = pending
         /\ \A m \in Nodes \ {k} : state'[m] = state[m]
         /\ state' = Marked
         /\ Children(k) \subseteq Plains(graph) /\ \A c \in Children(k) : state[c] # failed
         /\ NoneFailed' /\ Closed' /\ Accounted' /\ HandScan' /\ Remembering'
<1>1. /\ graph \in Graphs /\ WalkTypes /\ Ordinary(graph) /\ KnowInv /\ CandInv /\ GroupInv
      /\ ImplInv /\ FileInv /\ AbsentInv /\ NoneFailed /\ Closed /\ Accounted
  BY DEF Types, JobTypes, SafeInv, KnowInv, DiskInv, WellInv
<1>2. /\ Considered /\ HasCandidate /\ PopCandidate /\ task = << >>
      /\ UNCHANGED <<graph, on_disk, stopped>>
      /\ Scan(k) \/ UNCHANGED implicit
  BY DEF LookForTask, FindNextReadyNode, WaitForChildren, WaitForSideEffect,
         ChildrenFinished, Considered, scanVars
<1>3. /\ k \in Nodes /\ k \in Plains(graph) /\ state[k] \in IdleStates
      /\ \A m \in Nodes : Marked[m] = IF m = k THEN pending ELSE state[m]
      /\ \A m \in ToSet(graph.targets[k]) : m \in Plains(graph) /\ state[m] \notin ActiveStates
  BY <1>1, <1>2, CandidateState DEF IdleStates
<1>4. Children(k) \subseteq Plains(graph) /\ \A c \in Children(k) : state[c] # failed
  <2>1. Children(k) \subseteq Plains(graph)
    BY <1>1, <1>3, ScanFinds, PlainDeps
  <2>2. QED
    BY <1>1, <2>1 DEF NoneFailed
<1>5. state' = Marked
  BY <1>4 DEF WaitForChildren, WaitForSideEffect
<1>6. state'[k] = pending /\ \A m \in Nodes \ {k} : state'[m] = state[m]
  BY <1>3, <1>5
<1>7. NoneFailed'
  BY <1>1, <1>2, <1>6, Kinds DEF NoneFailed, Plains
<1>8. Closed'
  <2>1. \A m \in Nodes : state[m] \in ActiveStates => implicit'[m] = implicit[m]
    BY <1>1, <1>2, <1>3, ScanImplicit
  <2>2. \A m \in Plains(graph) : state'[m] \in SettledStates <=> state[m] \in SettledStates
    BY <1>3, <1>6, Kinds DEF Plains, IdleStates
  <2>3. \A m \in Plains(graph) : state[m] \in SettledStates => implicit'[m] = implicit[m]
    BY <2>1, Kinds DEF Plains
  <2>4. QED
    BY <1>1, <1>2, <2>2, <2>3, ClosedStays
<1>9. Accounted' /\ HandScan' /\ Remembering'
  BY MarkAccounts DEF WellInv
<1>10. QED
  BY <1>2, <1>3, <1>4, <1>5, <1>6, <1>7, <1>8, <1>9

\* The candidate waits for its children.
LEMMA WaitRemembers ==
  ASSUME Types, SafeInv, WellInv, LookForTask, Flying' = Flying, WaitForChildren
  PROVE  WellInv'
<1> DEFINE n == Candidate
           not_ready == {c \in Children(n) : Marked[c] <= executing}
<1>1. PICK k : k = n
  OBVIOUS
<1>2. /\ Considered /\ HasCandidate /\ PopCandidate
      /\ k \in Plains(graph) /\ state[k] \in IdleStates /\ state'[k] = pending
      /\ \A m \in Nodes \ {k} : state'[m] = state[m]
      /\ state' = Marked
      /\ Children(k) \subseteq Plains(graph) /\ \A c \in Children(k) : state[c] # failed
      /\ NoneFailed' /\ Closed' /\ Accounted' /\ HandScan' /\ Remembering'
  BY <1>1, MarkKeeps
<1>3. /\ graph \in Graphs /\ WalkTypes /\ CandInv /\ Remembering /\ CirclesSeen /\ task = << >>
      /\ UNCHANGED <<graph, waiting_s_e>> /\ Plains(graph) \subseteq Nodes
  BY DEF Types, JobTypes, SafeInv, WellInv, LookForTask, FindNextReadyNode, WaitForChildren, Plains
<1>4. /\ waiting_parents' = [c \in Nodes |->
           IF c \in not_ready THEN waiting_parents[c] \cup {n} ELSE waiting_parents[c]]
      /\ pending_children' = pending_children \cup {c \in Children(n) : Marked[c] = pending}
      /\ not_ready # {}
  BY <1>1, <1>2 DEF WaitForChildren
<1> DEFINE fresh == {c \in Children(k) : state'[c] <= executing}
<1>6. not_ready = fresh /\ n = k
  BY <1>1, <1>2
<1> HIDE DEF n, not_ready
<1>8. CirclesSeen'
  <2> SUFFICES ASSUME NEW S \in SUBSET {m \in Plains(graph) : state'[m] \in IdleStates}, S # {}
               PROVE  \E m \in S : \A c \in S : m \in waiting_parents'[c] => c \in pending_children'
    BY <1>3 DEF CirclesSeen
  <2>1. S \in SUBSET {m \in Plains(graph) : state[m] \in IdleStates} /\ S \subseteq Nodes
    BY <1>2, <1>3
  <2>2. CASE \E m \in S : state'[m] = no_state
    <3>1. PICK m \in S : state'[m] = no_state
      BY <2>2
    <3>2. m # k /\ WaitingFor(m) = {}
      BY <1>2, <1>3, <2>1, <3>1, Kinds, States DEF Remembering
    <3>3. \A c \in S : m \notin waiting_parents'[c]
      BY <1>4, <1>6, <2>1, <3>2 DEF WaitingFor
    <3>4. QED
      BY <3>3
  <2>3. CASE \A m \in S : state'[m] = pending
    <3>1. PICK m \in S : \A c \in S : m \in waiting_parents[c] => c \in pending_children
      BY <1>3, <2>1 DEF CirclesSeen
    <3>2. ASSUME NEW c \in S, m \in waiting_parents'[c] PROVE c \in pending_children'
      <4>1. CASE m \in waiting_parents[c]
        BY <1>4, <3>1, <4>1
      <4>2. CASE m \notin waiting_parents[c]
        BY <1>2, <1>4, <1>6, <2>1, <2>3, <3>2, <4>2
      <4>3. QED
        BY <4>1, <4>2
    <3>3. QED
      BY <3>2
  <2>4. QED
    BY <2>2, <2>3 DEF IdleStates
<1>9. QED
  BY <1>2, <1>8 DEF WellInv

\* The candidate waits for a side effect.
LEMMA PutOffRemembers ==
  ASSUME Types, SafeInv, WellInv, LookForTask, Flying' = Flying, WaitForSideEffect
  PROVE  WellInv'
<1>1. PICK k : k = Candidate
  OBVIOUS
<1>2. /\ Considered /\ HasCandidate /\ PopCandidate
      /\ k \in Plains(graph) /\ state[k] \in IdleStates /\ state'[k] = pending
      /\ \A m \in Nodes \ {k} : state'[m] = state[m]
      /\ state' = Marked
      /\ NoneFailed' /\ Closed' /\ Accounted' /\ HandScan' /\ Remembering'
  BY <1>1, MarkKeeps
<1>3. /\ graph \in Graphs /\ WalkTypes /\ CandInv /\ Remembering /\ CirclesSeen /\ task = << >>
      /\ UNCHANGED <<graph, waiting_parents, pending_children>> /\ Plains(graph) \subseteq Nodes
      /\ candidates' = OtherCandidates
  BY DEF Types, JobTypes, SafeInv, WellInv, LookForTask, FindNextReadyNode, WaitForSideEffect,
         ChildrenFinished, Plains
<1>4. CirclesSeen'
  BY <1>2, <1>3, CirclesStay
<1>5. QED
  BY <1>2, <1>4 DEF WellInv

\* The candidate k is evaluated: its targets ts are settled, or will be; what it is made
\* from is.
EvaluatedTo(k, ts) ==
  /\ HasCandidate /\ PopCandidate /\ Scan(k) /\ candidates' = OtherCandidates
  /\ task = << >> /\ ~stopped
  /\ UNCHANGED <<graph, on_disk, stopped, waiting_parents, waiting_s_e, pending_children>>
  /\ k \in Nodes /\ k \in Plains(graph) /\ state[k] \in {no_state, pending}
  /\ k \in ts /\ ts \in SUBSET Plains(graph)
  /\ \A c \in Children(k) : c \in Plains(graph) /\ state[c] \in SettledStates
  /\ \A m \in ts : /\ state[m] \in {no_state, pending}
                   /\ state'[m] \in ActiveStates /\ state'[m] \notin IdleStates
  /\ \A m \in Plains(graph) \ ts : state'[m] = state[m]
  /\ \A m \in Nodes : \/ state'[m] = state[m]
                      \/ state'[m] = executing /\ m \in ts \cup SideOf(graph, ts)
                      \/ state'[m] = up_to_date
  /\ \A s \in Nodes \ Plains(graph) : state[s] = executing => state'[s] = executing
  /\ task' = <<TaskFor(k, FALSE)>>

LEMMA Evaluated ==
  ASSUME Types, SafeInv, LookForTask, Evaluate, NEW k, k = Candidate,
         NEW ts, ts = ToSet(graph.targets[k])
  PROVE  EvaluatedTo(k, ts)
<1>1. /\ graph \in Graphs /\ WalkTypes /\ Ordinary(graph) /\ KnowInv /\ CandInv /\ GroupInv /\ DownInv
      /\ Plains(graph) \subseteq Nodes
  BY DEF Types, JobTypes, SafeInv, Plains
<1>2. /\ Considered /\ HasCandidate /\ PopCandidate /\ Scan(k) /\ candidates' = OtherCandidates
      /\ task = << >> /\ task' = <<TaskFor(k, FALSE)>> /\ ChildrenFinished
      /\ UNCHANGED <<graph, on_disk, stopped, waiting_parents, waiting_s_e, pending_children>>
  BY DEF LookForTask, FindNextReadyNode, Evaluate, MakeReady, ChildrenFinished, Considered
<1>3. k \in Nodes /\ k \in Plains(graph) /\ state[k] \in {no_state, pending} /\ ~stopped
  BY <1>1, <1>2, CandidateState
<1>4. /\ \A c \in Children(k) : c \in Plains(graph) /\ state[c] \in SettledStates
      /\ \A m \in ts : state[m] \in {no_state, pending}
  BY <1>1, <1>2, FinishedCandidate
<1>5. /\ k \in ts /\ ts \in SUBSET Plains(graph)
      /\ SideEffects(ts) = SideOf(graph, ts) /\ SideOf(graph, ts) \cap Plains(graph) = {}
  BY <1>1, <1>3, Mates, SideSame, PlainDeps
<1>6. \/ state' = [m \in Nodes |-> IF m \in ts THEN up_to_date ELSE state[m]]
      \/ state' = [m \in Nodes |->
           IF m \in ts \cup SideEffects(ts) THEN executing ELSE state[m]]
  BY DEF Evaluate, MakeReady
<1>7. /\ \A m \in ts : state'[m] \in ActiveStates
      /\ \A m \in Plains(graph) \ ts : state'[m] = state[m]
      /\ \A m \in Nodes : \/ state'[m] = state[m]
                          \/ state'[m] = executing /\ m \in ts \cup SideOf(graph, ts)
                          \/ state'[m] = up_to_date
      /\ \A s \in Nodes \ Plains(graph) : state[s] = executing => state'[s] = executing
  BY <1>1, <1>5, <1>6, Kinds
<1>8. \A m \in ts : state'[m] \notin IdleStates
  BY <1>7, Kinds DEF IdleStates
<1>9. QED
  BY <1>2, <1>3, <1>4, <1>5, <1>7, <1>8 DEF EvaluatedTo

LEMMA EvaluateAccounts ==
  ASSUME Types, SafeInv, Accounted, Remembering, LookForTask, Flying' = Flying, Evaluate
  PROVE  Accounted' /\ HandScan' /\ Remembering'
<1>1. PICK k : k = Candidate
  OBVIOUS
<1>2. PICK ts : ts = ToSet(graph.targets[k]) /\ EvaluatedTo(k, ts)
  BY <1>1, Evaluated
<1>3. /\ WalkTypes /\ CandInv /\ Plains(graph) \subseteq Nodes
  BY DEF Types, SafeInv, Plains
<1>4. /\ HasCandidate /\ PopCandidate /\ candidates' = OtherCandidates /\ task = << >>
      /\ UNCHANGED <<graph, waiting_parents, waiting_s_e>>
      /\ k \in ts /\ \A m \in ts : state'[m] \notin IdleStates
      /\ \A m \in Plains(graph) \ ts : state'[m] = state[m]
      /\ \A m \in Nodes : \/ state'[m] = state[m]
                          \/ state'[m] = executing /\ m \in ts \cup SideOf(graph, ts)
                          \/ state'[m] = up_to_date
      /\ \A s \in Nodes \ Plains(graph) : state[s] = executing => state'[s] = executing
      /\ task' = <<TaskFor(k, FALSE)>>
  BY <1>2 DEF EvaluatedTo
<1>5. PICK t : task' = <<t>> /\ Targets(t) = ts /\ t.exception = FALSE
  BY <1>2, <1>4 DEF TaskFor, Targets
<1>6. ASSUME NEW m \in Nodes, state'[m] = executing
      PROVE  \E u \in Flying' \cup ToSet(task') : m \in OutOf(graph, u)
  <2>1. CASE state'[m] = state[m]
    <3>1. ToSet(task) = {}
      BY <1>4 DEF ToSet
    <3>2. QED
      BY <1>6, <2>1, <3>1 DEF Accounted
  <2>2. CASE m \in ts \cup SideOf(graph, ts)
    <3>1. 1 \in DOMAIN task' /\ task'[1] = t
      BY <1>5
    <3>2. m \in OutOf(graph, t)
      BY <1>5, <2>2 DEF OutOf
    <3>3. QED
      BY <3>1, <3>2 DEF ToSet
  <2>3. QED
    BY <1>4, <1>6, <2>1, <2>2, Kinds
<1>7. Accounted'
  BY <1>4, <1>6 DEF Accounted
<1>8. HandScan'
  BY <1>5 DEF HandScan, Raised
<1>9. Remembering'
  <2>1. \A m \in Plains(graph) : state'[m] \in IdleStates => state'[m] = state[m]
    BY <1>4
  <2>2. state'[k] \notin IdleStates
    BY <1>4
  <2>3. QED
    BY <1>1, <1>3, <1>4, <2>1, <2>2, OthersRemembered
<1>10. QED
  BY <1>7, <1>8, <1>9

LEMMA EvaluateRemembers ==
  ASSUME Types, SafeInv, WellInv, LookForTask, Flying' = Flying, Evaluate
  PROVE  WellInv'
<1>1. PICK k : k = Candidate
  OBVIOUS
<1>2. PICK ts : ts = ToSet(graph.targets[k]) /\ EvaluatedTo(k, ts)
  BY <1>1, Evaluated
<1>3. /\ graph \in Graphs /\ WalkTypes /\ Ordinary(graph) /\ KnowInv
      /\ ImplInv /\ FileInv /\ AbsentInv /\ ScanInv /\ RaisedInv /\ Plains(graph) \subseteq Nodes
      /\ NoneFailed /\ Closed /\ Accounted /\ Remembering /\ CirclesSeen
  BY DEF Types, JobTypes, SafeInv, KnowInv, DiskInv, WellInv, Plains
<1>4. /\ Scan(k) /\ ~stopped /\ k \in Nodes /\ state[k] \in {no_state, pending}
      /\ UNCHANGED <<graph, on_disk, stopped, waiting_parents, pending_children>>
      /\ \A c \in Children(k) : c \in Plains(graph) /\ state[c] \in SettledStates
      /\ \A m \in ts : /\ state[m] \in {no_state, pending}
                       /\ state'[m] \in ActiveStates /\ state'[m] \notin IdleStates
      /\ \A m \in Plains(graph) \ ts : state'[m] = state[m]
  BY <1>2 DEF EvaluatedTo
<1>5. \A m \in ts : UsesOf(graph, on_disk, implicit'[m], m) \subseteq Children(k)
  <2>1. k \notin graph.unscannable
    <3>1. ~ScanFails(k)
      BY <1>1 DEF Evaluate, ChildrenFinished
    <3>2. QED
      BY <1>3, <1>4, <3>1 DEF ScanFails, RaisedInv
  <2>2. QED
    BY <1>2, <1>3, <1>4, <2>1, CandidateUses
<1>6. \A m \in Nodes \ ts : implicit'[m] = implicit[m]
  BY <1>2, <1>3, <1>4, ScanImplicit
<1>7. NoneFailed'
  BY <1>3, <1>4, Kinds DEF NoneFailed
<1>8. Closed'
  <2>1. \A m \in Plains(graph) : state[m] \in SettledStates => state'[m] \in SettledStates
    BY <1>4, Kinds
  <2>2. ASSUME NEW m \in ts, NEW c \in Uses(m)' PROVE state'[c] \in SettledStates
    <3>1. c \in Children(k)
      BY <1>4, <1>5, <2>2 DEF Uses
    <3>2. QED
      BY <1>4, <2>1, <3>1
  <2>3. \A m \in Plains(graph) \ ts : implicit'[m] = implicit[m]
    BY <1>3, <1>6
  <2>4. QED
    BY <1>3, <1>4, <2>1, <2>2, <2>3, ClosedStays
<1>9. CirclesSeen'
  BY <1>3, <1>4, CirclesStay
<1>10. QED
  BY <1>3, <1>7, <1>8, <1>9, EvaluateAccounts DEF WellInv

\* A look at one candidate, whose scan does not raise.
LEMMA LookAccounts ==
  ASSUME Types, SafeInv, Accounted, Remembering, LookForTask, ~ScanRaises
  PROVE  Accounted' /\ HandScan' /\ Remembering' /\ Flying' = Flying
<1>1. JobTypes /\ PlaceInv /\ WalkTypes /\ CandInv
  BY DEF Types, SafeInv
<1>2. Flying' = Flying
  BY <1>1, MainPlaces DEF LookForTask
<1>3. CASE AlreadyHandled
  <2>1. PICK k : k = Candidate
    OBVIOUS
  <2>2. /\ HasCandidate /\ PopCandidate /\ candidates' = OtherCandidates /\ state[k] > pending
        /\ task = << >>
        /\ UNCHANGED <<graph, state, waiting_parents, waiting_s_e, task>>
    BY <1>3, <2>1 DEF LookForTask, FindNextReadyNode, AlreadyHandled, nodeVars
  <2>3. state'[k] \notin IdleStates
    BY <2>2, States DEF IdleStates
  <2>4. Remembering'
    BY <1>1, <2>1, <2>2, <2>3, OthersRemembered
  <2>5. Accounted' /\ HandScan'
    BY <1>2, <2>2 DEF Accounted, HandScan, Raised
  <2>6. QED
    BY <1>2, <2>4, <2>5
<1>4. CASE WaitForChildren \/ WaitForSideEffect
  BY <1>2, <1>4, MarkAccounts
<1>5. CASE Evaluate
  BY <1>2, <1>5, EvaluateAccounts
<1>6. QED
  BY <1>2, <1>3, <1>4, <1>5 DEF LookForTask, FindNextReadyNode

LEMMA LookRemembers ==
  ASSUME Types, SafeInv, WellInv, LookForTask, ~ScanRaises
  PROVE  WellInv' /\ Flying' = Flying
<1>1. /\ graph \in Graphs /\ KnowInv /\ Ordinary(graph)
      /\ NoneFailed /\ Closed /\ Accounted /\ Remembering /\ CirclesSeen
  BY DEF Types, JobTypes, SafeInv, WellInv
<1>2. Flying' = Flying /\ Accounted' /\ HandScan' /\ Remembering'
  BY <1>1, LookAccounts
<1>3. CASE AlreadyHandled
  <2>1. UNCHANGED <<graph, on_disk, stopped, state, waiting_parents, implicit, pending_children>>
    BY <1>3 DEF LookForTask, FindNextReadyNode, AlreadyHandled, nodeVars, scanVars
  <2>2. CirclesSeen' /\ Closed'
    BY <1>1, <2>1, CirclesStay, ClosedStays
  <2>3. NoneFailed'
    BY <1>1, <2>1 DEF NoneFailed
  <2>4. QED
    BY <1>2, <2>2, <2>3 DEF WellInv
<1>4. CASE WaitForChildren
  BY <1>2, <1>4, WaitRemembers
<1>5. CASE WaitForSideEffect
  BY <1>2, <1>5, PutOffRemembers
<1>6. CASE Evaluate
  BY <1>2, <1>6, EvaluateRemembers
<1>7. QED
  BY <1>3, <1>4, <1>5, <1>6 DEF LookForTask, FindNextReadyNode

\* A task ends, in a build that goes on: what waited for its targets, or for their side
\* effects, is a candidate unless it waits for something else.
LEMMA EndAccounts ==
  ASSUME Types, SafeInv, CountInv, Accounted, Remembering, NEW t, EndingWith(t), ~stopped',
         \E st \in [Nodes -> NodeStates], pend \in SUBSET Nodes : PostProcess(st, pend, Targets(t)),
         Flying \cup ToSet(task) \subseteq Flying' \cup {t}
  PROVE  Accounted' /\ HandScan' /\ Remembering'
<1> DEFINE ts == Targets(t)
<1>1. /\ graph \in Graphs /\ WalkTypes /\ Ordinary(graph) /\ CandInv /\ WaitInv
      /\ Plains(graph) \subseteq Nodes
  BY DEF Types, JobTypes, SafeInv, Plains
<1>2. /\ ts \in SUBSET Plains(graph) /\ ts \in SUBSET Nodes /\ EndOf(ts) /\ task' = << >>
      /\ UNCHANGED <<graph, waiting_s_e, top_targets_left>>
      /\ \A c \in Nodes : waiting_parents'[c] \subseteq waiting_parents[c]
  BY <1>1 DEF EndingWith, EndOf
<1>3. PICK st \in [Nodes -> NodeStates], pend \in SUBSET Nodes : PostProcess(st, pend, ts)
  OBVIOUS
<1> HIDE DEF ts
<1>4. /\ ToSet(candidates) \subseteq ToSet(candidates')
      /\ \A p \in Nodes : WaitingFor(p) # {} /\ WaitingFor(p)' = {} => p \in ToSet(candidates')
      /\ \A s \in SideOf(graph, ts) : /\ state'[s] # executing
                                      /\ \A p \in waiting_s_e[s] :
                                           WaitingFor(p) = {} => p \in ToSet(candidates')
  BY <1>1, <1>2, <1>3, PostWakes
<1>5. /\ \A m \in ts : state'[m] # executing /\ (state'[m] \in IdleStates => state'[m] = state[m])
      /\ \A m \in Plains(graph) \ ts : state'[m] = state[m] \/ state'[m] = failed
      /\ \A s \in Nodes \ Plains(graph) : s \notin SideOf(graph, ts) => state'[s] = state[s]
  <2>1. Made(ts) \/ Lost(ts)
    BY <1>2 DEF EndOf
  <2>2. /\ \A m \in ts : state'[m] # executing /\ (state'[m] \in IdleStates => state'[m] = state[m])
        /\ \A m \in Plains(graph) \ ts : state'[m] = state[m] \/ state'[m] = failed
    BY <2>1, Kinds, States DEF Made, Lost, IdleStates
  <2>3. QED
    BY <1>2, <2>2 DEF EndOf
<1>6. ASSUME NEW n \in Nodes, state'[n] = executing
      PROVE  state[n] = executing /\ n \notin ts /\ n \notin SideOf(graph, ts)
  BY <1>1, <1>4, <1>5, <1>6, Kinds
<1>7. Accounted'
  <2>1. ASSUME NEW n \in Nodes, state'[n] = executing
        PROVE  \E u \in Flying' \cup ToSet(task') : n \in OutOf(graph, u)
    <3>1. PICK u \in Flying \cup ToSet(task) : n \in OutOf(graph, u)
      BY <1>6, <2>1 DEF Accounted
    <3>2. u # t
      BY <1>6, <2>1, <3>1 DEF OutOf, ts
    <3>3. QED
      BY <3>1, <3>2
  <2>2. QED
    BY <1>2, <2>1 DEF Accounted
<1>8. HandScan'
  BY <1>2 DEF HandScan, Raised
<1>9. \A m \in Plains(graph) : state'[m] \in IdleStates => state'[m] = state[m]
  BY <1>5, Kinds, States DEF IdleStates
<1>10. Remembering'
  <2>1. ASSUME NEW m \in Plains(graph), state'[m] = pending PROVE Remembered(m)'
    <3>1. Remembered(m) /\ m \in Nodes
      BY <1>1, <1>9, <2>1 DEF Remembering, IdleStates
    <3>2. CASE WaitingFor(m) # {}
      BY <1>4, <3>1, <3>2 DEF Remembered
    <3>3. CASE m \in ToSet(candidates)
      BY <1>4, <3>3 DEF Remembered
    <3>4. CASE WaitingFor(m) = {} /\ \E s \in Nodes \ Plains(graph) : m \in waiting_s_e[s] /\ state[s] = executing
      <4>1. PICK s \in Nodes \ Plains(graph) : m \in waiting_s_e[s] /\ state[s] = executing
        BY <3>4
      <4>2. CASE s \in SideOf(graph, ts)
        BY <1>4, <3>4, <4>1, <4>2 DEF Remembered
      <4>3. CASE s \notin SideOf(graph, ts)
        <5>1. state'[s] = executing
          BY <1>5, <4>1, <4>3
        <5>2. QED
          BY <1>2, <4>1, <5>1 DEF Remembered
      <4>4. QED
        BY <4>2, <4>3
    <3>5. QED
      BY <3>1, <3>2, <3>3, <3>4 DEF Remembered
  <2>2. ASSUME NEW m \in Plains(graph), state'[m] = no_state
        PROVE  /\ WaitingFor(m)' = {}
               /\ waiting_parents'[m] # {} => m \in ToSet(candidates')
               /\ m \in ToSet(graph.top) => m \in ToSet(top_targets_left')
    <3>1. /\ WaitingFor(m) = {} /\ (waiting_parents[m] # {} => m \in ToSet(candidates))
          /\ m \in ToSet(graph.top) => m \in ToSet(top_targets_left)
          /\ m \in Nodes
      BY <1>1, <1>9, <2>2 DEF Remembering, IdleStates
    <3>2. WaitingFor(m)' = {}
      BY <1>2, <3>1 DEF WaitingFor
    <3>3. QED
      BY <1>2, <1>4, <3>1, <3>2
  <2>3. QED
    BY <1>2, <2>1, <2>2 DEF Remembering
<1>11. QED
  BY <1>7, <1>8, <1>10

\* executed() leaves the targets settled.
ExecutedStates(ts) ==
  LET built == {n \in ts : state[n] = executing}
  IN [n \in Nodes |-> IF n \in built THEN executed
                      ELSE IF n \in SideEffects(built) THEN no_state
                      ELSE state[n]]

LEMMA ExecutedPosts ==
  ASSUME Types, NEW ts, Executed(ts)
  PROVE  /\ ExecutedStates(ts) \in [Nodes -> NodeStates] /\ pending_children \in SUBSET Nodes
         /\ PostProcess(ExecutedStates(ts), pending_children, ts) /\ UNCHANGED stopped
<1>1. PostProcess(ExecutedStates(ts), pending_children, ts) /\ UNCHANGED stopped
  BY DEF Executed, ExecutedStates
<1>2. QED
  BY <1>1, States DEF Types, WalkTypes, ExecutedStates

\* A task ends that went well.
LEMMA EndRemembers ==
  ASSUME Types, SafeInv, CountInv, WellInv, NEW t, EndingWith(t), Executed(Targets(t)),
         Flying \cup ToSet(task) \subseteq Flying' \cup {t},
         \A f \in on_disk \ on_disk' : state[f] \notin SettledStates,
         \A n \in Targets(t) : state[n] = executing => \A c \in Uses(n) : state[c] \in SettledStates
  PROVE  WellInv'
<1> DEFINE ts == Targets(t)
<1>1. /\ graph \in Graphs /\ WalkTypes /\ Ordinary(graph) /\ CandInv /\ WaitInv /\ KnowInv
      /\ NoneFailed /\ Closed /\ Accounted /\ Remembering /\ CirclesSeen
      /\ Plains(graph) \subseteq Nodes
  BY DEF Types, JobTypes, SafeInv, WellInv, Plains
<1>2. /\ ts \in SUBSET Plains(graph) /\ ts \in SUBSET Nodes /\ EndOf(ts)
      /\ on_disk' \subseteq on_disk /\ UNCHANGED <<graph, implicit>>
  BY <1>1 DEF EndingWith, EndOf
<1>3. Made(ts) /\ \A c \in Nodes : waiting_parents'[c] \subseteq waiting_parents[c]
  BY <1>1, <1>2, ExecutedEnd DEF EndOf
<1>4. PICK st \in [Nodes -> NodeStates] : PostProcess(st, pending_children, ts)
  BY ExecutedPosts
<1>5. pending_children \in SUBSET Nodes /\ UNCHANGED stopped
  BY ExecutedPosts
<1>6. Accounted' /\ HandScan' /\ Remembering'
  BY <1>1, <1>4, <1>5, EndAccounts DEF NoneFailed
<1> HIDE DEF ts
<1>7. \A p \in pending_children \ pending_children' : WaitingFor(p)' = {}
  BY <1>1, <1>2, <1>4, <1>5, PostWakes
<1>8. /\ \A m \in ts : state'[m] = IF state[m] = executing THEN executed ELSE state[m]
      /\ \A m \in Plains(graph) \ ts : state'[m] = state[m]
  BY <1>3 DEF Made
<1>9. NoneFailed'
  BY <1>1, <1>2, <1>5, <1>8, Kinds DEF NoneFailed
<1>10. Closed'
  <2>1. \A n \in Plains(graph) : /\ state[n] \in SettledStates => state'[n] \in SettledStates
                                 /\ state'[n] \in SettledStates =>
                                      state[n] \in SettledStates \/ (n \in ts /\ state[n] = executing)
    BY <1>8, Kinds
  <2>2. \A f \in Plains(graph) : state[f] \in SettledStates => (f \in on_disk' <=> f \in on_disk)
    BY <1>2
  <2>3. QED
    BY <1>1, <1>2, <2>1, <2>2, ClosedStays DEF ts
<1>11. CirclesSeen'
  <2>1. \A m \in Plains(graph) : state'[m] \in IdleStates => state[m] \in IdleStates
    BY <1>8, Kinds DEF IdleStates
  <2>2. QED
    BY <1>1, <1>2, <1>3, <1>7, <2>1, CirclesStay
<1>12. QED
  BY <1>6, <1>9, <1>10, <1>11 DEF WellInv

\* A task that ends while nothing fails is taken for executed.
LEMMA CalmEnds ==
  ASSUME NEW t, NEW ok, Conclude(t, ok), Calm', UNCHANGED interrupted
  PROVE  status = 0 /\ ~interrupted /\ Executed(Targets(t)) /\ (ok \/ mode = "ignore")
<1>1. status' = 0 /\ ~interrupted
  BY DEF Calm
<1>2. ~FailStop(Targets(t)) /\ ~FailContinue(Targets(t))
  BY <1>1 DEF FailStop, FailContinue
<1>3. Executed(Targets(t)) /\ (ok \/ mode = "ignore")
  BY <1>2 DEF Conclude, DoFailed
<1>4. UNCHANGED status
  BY <1>3 DEF Executed
<1>5. QED
  BY <1>1, <1>3, <1>4

\* The task in hand ends without being dispatched; its scan did not raise.
LEMMA HandRemembers ==
  ASSUME Types, SafeInv, CountInv, Calm => WellInv, HandScan, ScansMatter(graph),
         PrepareFails \/ NothingToDo, Calm'
  PROVE  WellInv'
<1>1. PICK t : t = task[1]
  OBVIOUS
<1>2. /\ EndingWith(t) /\ Flying' = Flying /\ task # << >> /\ HandKinds(t)
      /\ Removed(t) \subseteq Targets(t) \cap Readable
  BY <1>1, HandEnding
<1>3. UNCHANGED interrupted
  BY DEF PrepareFails, NothingToDo
<1>4. \/ Conclude(t, FALSE) /\ on_disk' = on_disk \ Removed(t)
      \/ Conclude(t, TRUE) /\ on_disk' = on_disk /\ ~PrepareRaises(t)
  BY <1>1 DEF PrepareFails, NothingToDo
<1>5. /\ status = 0 /\ ~interrupted /\ Executed(Targets(t))
      /\ mode = "ignore" \/ ~PrepareRaises(t)
  BY <1>3, <1>4, CalmEnds
<1>6. mode \in Modes
  BY DEF Types, JobTypes
<1>7. ~t.exception
  <2>1. ~PrepareRaises(t) => ~t.exception
    BY DEF PrepareRaises, SourcesMissing
  <2>2. t.exception => graph.unscannable # {}
    BY <1>1, <1>2 DEF HandScan, Raised
  <2>3. QED
    BY <1>5, <1>6, <2>1, <2>2 DEF ScansMatter
<1>8. WellInv /\ ToSet(task) = {t}
  <2>1. Calm
    BY <1>1, <1>5, <1>7 DEF Calm, Raised
  <2>2. JobTypes
    BY DEF Types
  <2>3. QED
    BY <1>1, <1>2, <2>1, <2>2, AtHand DEF JobTypes
<1>9. \A f \in on_disk \ on_disk' : state[f] \notin SettledStates
  <2>1. ASSUME NEW f \in Removed(t) PROVE state[f] \notin SettledStates
    <3>1. state[f] # up_to_date /\ f \in Targets(t)
      BY <1>2 DEF Removed
    <3>2. QED
      BY <1>2, <3>1, Kinds DEF HandKinds
  <2>2. QED
    BY <1>4, <2>1
<1>10. \A n \in Targets(t) : state[n] = executing => \A c \in Uses(n) : state[c] \in SettledStates
  BY <1>2, <1>7, Kinds DEF HandKinds, DoneWith
<1>11. QED
  BY <1>2, <1>5, <1>9, <1>10, <1>8, EndRemembers

\* A result is taken.
LEMMA ResultRemembers ==
  ASSUME Types, SafeInv, CountInv, Calm => WellInv, TakeResult, Calm'
  PROVE  WellInv'
<1>1. PICK t : t = resultsQueue[1][1]
  OBVIOUS
<1>2. EndingWith(t) /\ Flying' = Flying \ {t} /\ t \in Flying /\ task = << >>
  BY <1>1, ResultEnding
<1>3. UNCHANGED <<interrupted, on_disk>> /\ \E ok : Conclude(t, ok)
  BY <1>1 DEF TakeResult
<1>4. Calm /\ Executed(Targets(t))
  BY <1>2, <1>3, CalmEnds DEF Calm, Raised
<1>5. \A n \in Targets(t) : \A c \in Uses(n) : state[c] \in SettledStates
  BY <1>2 DEF SafeInv, FlyInv, DoneWith
<1>6. ToSet(task) = {}
  BY <1>2 DEF ToSet
<1>7. QED
  BY <1>2, <1>3, <1>4, <1>5, <1>6, EndRemembers

\* The other steps leave the nodes alone, and keep the tasks.
Undisturbed ==
  /\ UNCHANGED <<graph, state, implicit, waiting_parents, waiting_s_e, candidates,
                 top_targets_left, pending_children, stopped>>
  /\ UNCHANGED <<mode, scanned, status, interrupted, broke>>
  /\ \A f \in Plains(graph) : state[f] \in SettledStates => (f \in on_disk' <=> f \in on_disk)
  /\ Flying \cup ToSet(task) \subseteq Flying' \cup ToSet(task')
  /\ task' = task \/ (task' = << >> /\ ~Raised)

\* A task is dispatched: the files removed are about to be made.
LEMMA DispatchRests ==
  ASSUME Types, SafeInv, Dispatch
  PROVE  Undisturbed
<1>1. PICK t : t = task[1]
  OBVIOUS
<1>2. JobTypes /\ PlaceInv /\ HandInv /\ graph \in Graphs /\ Ordinary(graph)
  BY DEF Types, JobTypes, SafeInv
<1>3. /\ task # << >> /\ t \in Task /\ ToSet(task) = {t} /\ state[t.targets[1]] = executing
      /\ task' = << >> /\ ~t.exception /\ on_disk' = on_disk \ Removed(t)
      /\ UNCHANGED <<graph, state, implicit, waiting_parents, waiting_s_e, candidates,
                     top_targets_left, pending_children, stopped>>
      /\ UNCHANGED <<mode, scanned, status, interrupted, broke>>
  BY <1>1, <1>2, AtHand
  DEF Dispatch, JobTypes, PrepareRaises, SourcesMissing, nodeVars, walkVars
<1>4. /\ HandKinds(t) /\ t.targets = graph.targets[t.node]
      /\ \A u \in Flying : OutOf(graph, t) \cap OutOf(graph, u) = {}
  BY <1>1, <1>2, <1>3 DEF HandInv
<1>5. t \notin Flying
  <2>1. t.node \in Targets(t)
    BY <1>2, <1>3, <1>4, TaskMates
  <2>2. QED
    BY <1>4, <2>1 DEF OutOf
<1>6. Flying' = Flying \cup {t}
  BY <1>1, <1>2, <1>5, MainPlaces
<1>7. \A f \in Removed(t) : state[f] \notin SettledStates
  <2>1. ASSUME NEW f \in Removed(t) PROVE state[f] \notin SettledStates
    <3>1. state[f] # up_to_date /\ f \in Targets(t)
      BY RemovedTargets DEF Removed
    <3>2. QED
      BY <1>4, <3>1, Kinds DEF HandKinds
  <2>2. QED
    BY <2>1
<1>8. QED
  BY <1>1, <1>3, <1>6, <1>7 DEF Undisturbed, Raised

\* Workers write the files of their tasks.
LEMMA WorkRests ==
  ASSUME Types, SafeInv, TakeTask \/ Execute
  PROVE  Undisturbed
<1>1. /\ graph \in Graphs /\ JobTypes /\ Ordinary(graph) /\ PlaceInv /\ FlyInv
  BY DEF Types, JobTypes, SafeInv
<1>2. Flying' = Flying
  BY <1>1, WorkerPlaces DEF Ordinary
<1>3. ASSUME NEW r \in running PROVE ~RetrieveFromCache(r) /\ ~RetrievedBuilt(r)
  <2>1. r.retrieved = FALSE
    BY <1>1 DEF PlaceInv
  <2>2. QED
    BY <1>1, <2>1 DEF RetrieveFromCache, RetrievedBuilt, Ordinary
<1>4. /\ UNCHANGED <<graph, state, implicit, waiting_parents, waiting_s_e, candidates,
                     top_targets_left, pending_children, stopped, task>>
      /\ UNCHANGED <<mode, scanned, status, interrupted, broke>>
  BY <1>3 DEF TakeTask, Execute, Build, BuildFails, tmVars, nodeVars, scanVars, walkVars
<1>5. ASSUME NEW f \in Plains(graph), state[f] \in SettledStates PROVE f \in on_disk' <=> f \in on_disk
  <2>1. CASE TakeTask \/ \E r \in running : BuildFails(r)
    BY <2>1 DEF TakeTask, BuildFails, tmVars
  <2>2. ASSUME NEW r \in running, Build(r) PROVE f \in on_disk' <=> f \in on_disk
    <3> DEFINE u == r.task
    <3>1. on_disk' = on_disk \cup Targets(u) \cup SideEffects(Targets(u)) /\ u \in Flying
      BY <2>2 DEF Build, Flying, Working
    <3>2. Targets(u) \in SUBSET Nodes /\ \A n \in Targets(u) : state[n] \notin SettledStates
      BY <1>1, <3>1, TaskFields, Kinds DEF FlyInv
    <3>3. f \notin SideEffects(Targets(u))
      BY <1>1, <3>2, SideSame, PlainDeps
    <3>4. QED
      BY <1>5, <3>1, <3>2, <3>3
  <2>3. QED
    BY <1>3, <2>1, <2>2 DEF Execute
<1>6. QED
  BY <1>2, <1>4, <1>5 DEF Undisturbed

\* Unless the build was stopped, nothing is given up when there is nothing left to look at.
LEMMA NoMoreRests ==
  ASSUME Types, SafeInv, ~stopped, NoMoreTasks
  PROVE  /\ Undisturbed
         /\ candidates = << >> /\ top_targets_left = << >> /\ task = << >>
         /\ Flying' = Flying /\ UNCHANGED on_disk
<1>1. JobTypes /\ WalkTypes /\ PlaceInv
  BY DEF Types, SafeInv
<1>2. candidates = << >> /\ top_targets_left = << >>
  BY DEF NoMoreTasks, NoNextCandidate, HasCandidate
<1>3. state' = MarkFailed({}) /\ pending_children' = pending_children \ ParentsOf({})
  BY <1>2 DEF NoMoreTasks, NoNextCandidate
<1>4. state' = state /\ pending_children' = pending_children
  BY <1>1, <1>3 DEF MarkFailed, ParentsOf, WalkTypes
<1>5. /\ candidates' = << >> /\ Flying' = Flying /\ task = << >>
      /\ UNCHANGED <<graph, on_disk, implicit, waiting_parents, waiting_s_e, top_targets_left,
                     stopped, task, mode, scanned, status, interrupted, broke>>
  BY <1>1, MainPlaces DEF NoMoreTasks, NoNextCandidate, scanVars
<1>6. QED
  BY <1>2, <1>4, <1>5 DEF Undisturbed

LEMMA RestSteps ==
  ASSUME Types, SafeInv, ~stopped,
         NoMoreTasks \/ Dispatch \/ TakeTask \/ Execute \/ UNCHANGED vars
  PROVE  Undisturbed
<1>1. CASE UNCHANGED vars
  <2>1. /\ UNCHANGED <<graph, on_disk, state, implicit, waiting_parents, waiting_s_e, candidates,
                       top_targets_left, pending_children, stopped, task>>
        /\ UNCHANGED <<mode, scanned, status, interrupted, broke>>
        /\ UNCHANGED <<requestQueue, running, resultsQueue>>
    BY <1>1 DEF vars, tmVars, jobVars, nodeVars, scanVars, walkVars
  <2>2. Flying' = Flying
    BY <2>1 DEF Flying, Working, TasksOf
  <2>3. QED
    BY <2>1, <2>2 DEF Undisturbed
<1>2. QED
  BY <1>1, NoMoreRests, DispatchRests, WorkRests

LEMMA RestAccounts ==
  ASSUME Accounted, HandScan, Remembering, Undisturbed
  PROVE  Accounted' /\ HandScan' /\ Remembering'
<1>1. HandScan' /\ Accounted'
  BY DEF HandScan, Raised, Accounted, Undisturbed
<1>2. ASSUME NEW m \in Nodes, Remembered(m) PROVE Remembered(m)'
  BY <1>2 DEF Remembered, WaitingFor, Undisturbed
<1>3. \A m \in Plains(graph) : m \in Nodes
  BY DEF Plains
<1>4. QED
  BY <1>1, <1>2, <1>3 DEF Remembering, WaitingFor, Undisturbed

LEMMA RestRemembers ==
  ASSUME Types, SafeInv, WellInv, Undisturbed
  PROVE  WellInv'
<1>1. /\ graph \in Graphs /\ Ordinary(graph) /\ KnowInv
      /\ NoneFailed /\ Closed /\ Accounted /\ HandScan /\ Remembering /\ CirclesSeen
  BY DEF Types, JobTypes, SafeInv, WellInv
<1>2. Accounted' /\ HandScan' /\ Remembering'
  BY <1>1, RestAccounts
<1>3. /\ UNCHANGED <<graph, state, implicit, waiting_parents, pending_children, stopped>>
      /\ \A f \in Plains(graph) : state[f] \in SettledStates => (f \in on_disk' <=> f \in on_disk)
  BY DEF Undisturbed
<1>4. NoneFailed' /\ Closed' /\ CirclesSeen'
  BY <1>1, <1>3, ClosedStays, CirclesStay DEF NoneFailed
<1>5. QED
  BY <1>2, <1>4 DEF WellInv

\* These steps change nothing of how the build goes.
LEMMA RestCalm ==
  ASSUME NoMoreTasks \/ Dispatch \/ TakeTask \/ Execute \/ UNCHANGED vars
  PROVE  UNCHANGED <<mode, status, interrupted, broke>>
<1>1. CASE Execute
  <2>1. PICK r \in running :
          RetrieveFromCache(r) \/ RetrievedBuilt(r) \/ Build(r) \/ BuildFails(r)
    BY <1>1 DEF Execute
  <2>2. CASE RetrieveFromCache(r)
    BY <2>2 DEF RetrieveFromCache
  <2>3. CASE RetrievedBuilt(r)
    BY <2>3 DEF RetrievedBuilt
  <2>4. CASE Build(r)
    BY <2>4 DEF Build
  <2>5. CASE BuildFails(r)
    BY <2>5 DEF BuildFails, tmVars
  <2>6. QED
    BY <2>1, <2>2, <2>3, <2>4, <2>5
<1>2. CASE NoMoreTasks \/ Dispatch \/ TakeTask \/ UNCHANGED vars
  BY <1>2 DEF NoMoreTasks, NoNextCandidate, Dispatch, TakeTask, vars, tmVars, jobVars
<1>3. QED
  BY <1>1, <1>2

\* Nor is a task whose scan raised dispatched.
LEMMA RestRaised ==
  ASSUME NoMoreTasks \/ Dispatch \/ TakeTask \/ Execute \/ UNCHANGED vars, ~Raised'
  PROVE  ~Raised
<1>1. CASE Dispatch
  BY <1>1 DEF Dispatch, PrepareRaises, SourcesMissing, Raised
<1>2. CASE NoMoreTasks \/ TakeTask \/ UNCHANGED vars
  <2>1. task' = task
    BY <1>2 DEF NoMoreTasks, NoNextCandidate, TakeTask, vars, tmVars
  <2>2. QED
    BY <2>1 DEF Raised
<1>3. CASE Execute
  <2>1. task' = task
    BY <1>3 DEF Execute, RetrieveFromCache, RetrievedBuilt, Build, BuildFails, tmVars
  <2>2. QED
    BY <2>1 DEF Raised
<1>4. QED
  BY <1>1, <1>2, <1>3

\* The steps after which the build goes on, and the one that stops it.
LEMMA StepKinds ==
  ASSUME [Next]_vars
  PROVE  \/ LookForTask \/ PrepareFails \/ NothingToDo \/ TakeResult \/ Interrupt
         \/ NoMoreTasks \/ Dispatch \/ TakeTask \/ Execute \/ UNCHANGED vars
BY DEF Next, Main, Ended

LEMMA WellStep ==
  ASSUME Types, SafeInv, CountInv, CompleteInv, [Next]_vars, Calm'
  PROVE  WellInv'
<1>1. (Calm => WellInv) /\ HandScan /\ ScansMatter(graph) /\ (Calm => ~stopped)
  BY DEF CompleteInv, WellInv, NoneFailed
<1>2. CASE LookForTask
  <2>1. Calm
    BY <1>2 DEF LookForTask, FindNextReadyNode, Calm, Raised
  <2>2. ~ScanRaises
    BY DEF ScanRaises, MakeReady, TaskFor, Calm, Raised
  <2>3. QED
    BY <1>1, <1>2, <2>1, <2>2, LookRemembers
<1>3. CASE PrepareFails \/ NothingToDo
  BY <1>1, <1>3, HandRemembers
<1>4. CASE TakeResult
  BY <1>1, <1>4, ResultRemembers
<1>5. CASE NoMoreTasks \/ Dispatch \/ TakeTask \/ Execute \/ UNCHANGED vars
  <2>1. status = 0 /\ ~interrupted
    BY <1>5, RestCalm DEF Calm
  <2>2. ~Raised
    BY <1>5, RestRaised DEF Calm
  <2>3. QED
    BY <1>1, <1>5, <2>1, <2>2, RestSteps, RestRemembers DEF Calm
<1>6. CASE Interrupt
  BY <1>6 DEF Interrupt, Calm
<1>7. QED
  BY <1>2, <1>3, <1>4, <1>5, <1>6, StepKinds

\* The task in hand was scanned when it was looked for.
LEMMA ScanStep ==
  ASSUME Types, HandScan, [Next]_vars
  PROVE  HandScan'
<1>1. CASE LookForTask
  <2>1. CASE AlreadyHandled \/ WaitForChildren \/ WaitForSideEffect
    <3>1. task' = << >>
      BY <1>1, <2>1 DEF LookForTask, AlreadyHandled, WaitForChildren, WaitForSideEffect
    <3>2. QED
      BY <3>1 DEF HandScan, Raised
  <2>2. CASE Evaluate
    <3>1. PICK t : task' = <<t>> /\ t.exception = FALSE
      BY <2>2 DEF Evaluate, MakeReady, TaskFor
    <3>2. QED
      BY <3>1 DEF HandScan, Raised
  <2>3. CASE ScanRaises
    <3>1. PICK t : task' = <<t>> /\ t.node \in graph.unscannable
      BY <2>3 DEF ScanRaises, ScanFails, MakeReady, TaskFor
    <3>2. UNCHANGED graph
      BY <1>1 DEF LookForTask, FindNextReadyNode
    <3>3. QED
      BY <3>1, <3>2 DEF HandScan
  <2>4. QED
    BY <1>1, <2>1, <2>2, <2>3 DEF LookForTask, FindNextReadyNode
<1>2. CASE PrepareFails \/ NothingToDo \/ Dispatch
  <2>1. task' = << >>
    BY <1>2 DEF PrepareFails, NothingToDo, Dispatch
  <2>2. QED
    BY <2>1 DEF HandScan, Raised
<1>3. CASE TakeResult \/ NoMoreTasks \/ TakeTask \/ Interrupt \/ UNCHANGED vars
  <2>1. UNCHANGED <<graph, task>>
    BY <1>3 DEF TakeResult, Conclude, NoMoreTasks, NoNextCandidate, TakeTask, Interrupt, vars, tmVars
  <2>2. QED
    BY <2>1 DEF HandScan, Raised
<1>4. CASE Execute
  <2>1. UNCHANGED <<graph, task>>
    BY <1>4 DEF Execute, RetrieveFromCache, RetrievedBuilt, Build, BuildFails, tmVars
  <2>2. QED
    BY <2>1 DEF HandScan, Raised
<1>5. QED
  BY <1>1, <1>2, <1>3, <1>4, StepKinds

\* Nothing is at work when no job is left.
LEMMA NoJobs ==
  ASSUME JobTypes, IsFiniteSet(running)
  PROVE  ~(jobs > 0) => Flying = {}
<1>1. Len(requestQueue) \in Nat /\ Cardinality(running) \in Nat /\ Len(resultsQueue) \in Nat
  BY FS_CardinalityType DEF JobTypes
<1>2. SUFFICES ASSUME ~(jobs > 0) PROVE Flying = {}
  OBVIOUS
<1>3. Len(requestQueue) = 0 /\ Cardinality(running) = 0 /\ Len(resultsQueue) = 0
  BY <1>1, <1>2 DEF jobs
<1>4. requestQueue = << >> /\ resultsQueue = << >>
  BY <1>3 DEF JobTypes
<1>5. running = {}
  BY <1>3, FS_EmptySet
<1>6. QED
  BY <1>4, <1>5 DEF Flying, Working, TasksOf, ToSet

\* A worker has something to do only while something is at work.
LEMMA WorkFlies ==
  ASSUME JobTypes, TakeTask \/ Execute
  PROVE  Flying # {}
<1>1. CASE TakeTask
  <2>1. requestQueue # << >> /\ requestQueue \in Seq(Task)
    BY <1>1 DEF TakeTask, JobTypes
  <2>2. Head(requestQueue) \in ToSet(requestQueue)
    BY ONLY <2>1, TailElements
  <2>3. QED
    BY <2>2 DEF Flying
<1>2. CASE Execute
  <2>1. PICK r \in running : TRUE
    BY <1>2 DEF Execute
  <2>2. r.task \in Working
    BY DEF Working
  <2>3. QED
    BY <2>2 DEF Flying
<1>3. QED
  BY <1>1, <1>2

\* The build ends once; then nothing happens.
LEMMA EndStep ==
  ASSUME Types, SafeInv, EndInv, [Next]_vars
  PROVE  /\ EndInv'
         /\ outcome # "none" => UNCHANGED vars
         /\ outcome' = outcome \/ NoMoreTasks
<1>1. /\ JobTypes /\ PlaceInv /\ IsFiniteSet(running) /\ (outcome # "none" => pc = "end")
      /\ pc = "end" => Flying = {}
  BY DEF Types, SafeInv, EndInv
<1>2. CASE LookForTask \/ PrepareFails \/ NothingToDo \/ Dispatch \/ TakeResult
  <2>1. pc # "end" /\ pc' # "end" /\ outcome' = outcome /\ running' = running
    BY <1>2 DEF LookForTask, PrepareFails, NothingToDo, Dispatch, TakeResult
  <2>2. QED
    BY <1>1, <2>1 DEF EndInv
<1>3. CASE NoMoreTasks
  <2>1. pc = "next_task" /\ UNCHANGED <<requestQueue, running, resultsQueue>>
    BY <1>3 DEF NoMoreTasks
  <2>2. \/ pc' = "wait" /\ outcome' = outcome
        \/ pc' = "end" /\ ~(jobs > 0)
    BY <1>3 DEF NoMoreTasks
  <2>3. Flying' = Flying
    BY <1>1, <2>1, MainPlaces
  <2>4. outcome = "none" /\ (pc' = "end" => Flying' = {})
    BY <1>1, <2>1, <2>2, <2>3, NoJobs
  <2>5. QED
    BY <1>1, <1>3, <2>1, <2>2, <2>4 DEF EndInv
<1>4. CASE TakeTask \/ Execute
  <2>1. pc # "end" /\ UNCHANGED <<pc, outcome>>
    <3>1. Flying # {}
      BY <1>1, <1>4, WorkFlies
    <3>2. QED
      BY <1>1, <1>4, <3>1 DEF TakeTask, Execute, RetrieveFromCache, RetrievedBuilt, Build, BuildFails
  <2>2. IsFiniteSet(running')
    <3>1. CASE TakeTask
      <4>1. running' = running \/ \E r : running' = running \cup {r}
        BY <3>1 DEF TakeTask
      <4>2. QED
        BY <1>1, <4>1, FS_AddElement
    <3>2. CASE Execute
      <4>1. \E r, new : running' = (running \ {r}) \cup new /\ (new = {} \/ \E s : new = {s})
        <5>1. PICK r \in running :
                RetrieveFromCache(r) \/ RetrievedBuilt(r) \/ Build(r) \/ BuildFails(r)
          BY <3>2 DEF Execute
        <5>2. CASE RetrieveFromCache(r)
          BY <5>2 DEF RetrieveFromCache, Replace
        <5>3. CASE RetrievedBuilt(r)
          BY <5>3 DEF RetrievedBuilt, Replace
        <5>4. CASE Build(r)
          BY <5>4 DEF Build, Replace
        <5>5. CASE BuildFails(r)
          BY <5>5 DEF BuildFails, Replace
        <5>6. QED
          BY <5>1, <5>2, <5>3, <5>4, <5>5
      <4>2. PICK r, new : running' = (running \ {r}) \cup new /\ (new = {} \/ \E s : new = {s})
        BY <4>1
      <4>3. IsFiniteSet(running \ {r})
        BY <1>1, FS_RemoveElement
      <4>4. CASE new = {}
        <5>1. running' = running \ {r}
          BY <4>2, <4>4
        <5>2. QED
          BY <4>3, <5>1
      <4>5. CASE \E s : new = {s}
        BY <4>2, <4>3, <4>5, FS_AddElement
      <4>6. QED
        BY <4>2, <4>4, <4>5
    <3>3. QED
      BY <1>4, <3>1, <3>2
  <2>3. QED
    BY <1>1, <2>1, <2>2 DEF EndInv
<1>5. CASE Interrupt
  <2>1. pc # "end" /\ UNCHANGED <<pc, outcome, running>>
    BY <1>5 DEF Interrupt
  <2>2. QED
    BY <1>1, <2>1 DEF EndInv
<1>6. CASE UNCHANGED vars
  <2>1. UNCHANGED <<pc, outcome, requestQueue, running, resultsQueue>>
    BY <1>6 DEF vars, jobVars
  <2>2. QED
    BY <1>1, <1>6, <2>1 DEF EndInv, Flying, Working, TasksOf
<1>7. QED
  BY <1>2, <1>3, <1>4, <1>5, <1>6 DEF Next, Main, Ended

\* With nothing to look at and nothing at work, only a circle can be left.
LEMMA NothingPending ==
  ASSUME Types, SafeInv, CountInv, WellInv, candidates = << >>, top_targets_left = << >>,
         task = << >>, Flying = {}, pending_children = {}, NEW n \in ToSet(graph.top)
  PROVE  state[n] \in SettledStates
<1>1. /\ graph \in Graphs /\ WalkTypes /\ Ordinary(graph) /\ WaitInv
      /\ NoneFailed /\ Accounted /\ Remembering /\ CirclesSeen /\ Plains(graph) \subseteq Nodes
      /\ ToSet(candidates) = {} /\ ToSet(top_targets_left) = {} /\ ToSet(task) = {}
  BY DEF Types, JobTypes, SafeInv, WellInv, Plains, ToSet
<1>2. \A m \in Nodes : state[m] # executing
  BY <1>1 DEF Accounted
<1>3. \A m \in Plains(graph) : state[m] \in {no_state, pending} \cup SettledStates
  <2>1. ASSUME NEW m \in Plains(graph) PROVE state[m] \in {no_state, pending} \cup SettledStates
    <3>1. state[m] \in 0 .. 5 /\ state[m] # executing /\ state[m] # failed
      BY <1>1, <1>2, States DEF WalkTypes, NoneFailed
    <3>2. QED
      BY <3>1, States DEF SettledStates
  <2>2. QED
    BY <2>1
<1> DEFINE S == {m \in Plains(graph) : state[m] = pending}
<1>4. ASSUME NEW m \in S PROVE \E c \in S : m \in waiting_parents[c]
  <2>1. Remembered(m)
    BY <1>1 DEF Remembering
  <2>2. PICK c \in Nodes : m \in waiting_parents[c]
    BY <1>1, <1>2, <2>1 DEF Remembered, WaitingFor
  <2>3. c \in Plains(graph) /\ state[c] \notin SettledStates
    BY <1>1, <2>2 DEF CountInv, WaitInv
  <2>4. state[c] # no_state
    BY <1>1, <2>2, <2>3 DEF Remembering
  <2>5. QED
    BY <1>3, <2>2, <2>3, <2>4
<1>5. S = {}
  <2>1. S \in SUBSET {m \in Plains(graph) : state[m] \in IdleStates}
    BY DEF IdleStates
  <2>2. ASSUME S # {} PROVE FALSE
    <3>1. PICK m \in S : \A c \in S : m \in waiting_parents[c] => c \in pending_children
      BY <1>1, <2>1, <2>2 DEF CirclesSeen
    <3>2. QED
      BY <1>4, <3>1
  <2>3. QED
    BY <2>2
<1>6. n \in Plains(graph) /\ state[n] # no_state /\ state[n] # pending
  BY <1>1, <1>5, PlainDeps DEF Remembering
<1>7. QED
  BY <1>3, <1>6

\* If what was asked for is settled, so is all below it.
LEMMA AllSettled ==
  ASSUME Types, SafeInv, Closed, SourcesHaveBuilders(graph),
         \A n \in ToSet(graph.top) : state[n] \in SettledStates
  PROVE  Asked \subseteq Settled
<1> DEFINE D == Settled \cap Plains(graph)
<1>1. /\ graph \in Graphs /\ Ordinary(graph) /\ KnowInv /\ Plains(graph) \subseteq Nodes
      /\ ToSet(graph.top) \subseteq Plains(graph)
  BY PlainDeps DEF Types, JobTypes, SafeInv, Plains
<1>2. \A n \in Nodes : n \in Settled <=> state[n] \in SettledStates
  BY DEF Settled, SettledStates
<1>3. ASSUME NEW m \in D PROVE Needs(m) \subseteq D
  <2>1. m \in Nodes /\ m \in Plains(graph) /\ state[m] \in SettledStates
    BY <1>1, <1>2
  <2>2. Uses(m) \subseteq Plains(graph) /\ \A c \in Uses(m) : state[c] \in SettledStates
    BY <1>1, <2>1, UsedArePlain DEF Closed
  <2>3. Needs(m) \subseteq Uses(m)
    <3>1. CASE m \in graph.derived
      BY <3>1, ThroughSame DEF Needs, Uses, UsesOf
    <3>2. CASE m \notin graph.derived
      <4>1. ToSet(graph.sources[m]) = {}
        BY <2>1, <3>2 DEF SourcesHaveBuilders, ToSet
      <4>2. {} \in SUBSET UNION {graph.includes[f] : f \in Nodes}
        OBVIOUS
      <4>3. ThroughOf(graph, m, on_disk) \subseteq {}
        BY <1>1, <2>1, <4>1, <4>2, ThroughLeast
      <4>4. IncludesThrough(m, on_disk) = {}
        BY <4>3, ThroughSame
      <4>5. QED
        BY <4>4 DEF Needs, Uses, UsesOf
    <3>3. QED
      BY <3>1, <3>2
  <2>4. QED
    BY <1>1, <1>2, <2>2, <2>3
<1>4. D \in SUBSET Nodes /\ ToSet(graph.top) \subseteq D
  BY <1>1, <1>2
<1> HIDE DEF D
<1>5. \A d \in Below(ToSet(graph.top)) : d \in D
  BY <1>3, <1>4 DEF Below
<1>6. QED
  BY <1>5 DEF Asked, D

LEMMA CompleteInit ==
  ASSUME \A g \in Graphs : Ordinary(g) /\ SourcesHaveBuilders(g) /\ ScansMatter(g)
  PROVE  Init => CompleteInv
<1> SUFFICES ASSUME Init PROVE CompleteInv
  OBVIOUS
<1>1. /\ graph \in Graphs /\ top_targets_left = graph.top
      /\ state = [n \in Nodes |-> no_state] /\ waiting_parents = [n \in Nodes |-> {}]
      /\ task = << >> /\ requestQueue = << >> /\ running = {} /\ resultsQueue = << >>
      /\ stopped = FALSE /\ outcome = "none" /\ pc = "next_task"
  BY DEF Init, TaskmasterInit
<1>2. \A n \in Nodes : state[n] = no_state /\ waiting_parents[n] = {}
  BY <1>1
<1>3. Plains(graph) \subseteq Nodes
  BY DEF Plains
<1>4. NoneFailed /\ Closed /\ Accounted /\ HandScan
  BY <1>1, <1>2, <1>3, Kinds, States DEF NoneFailed, Closed, Accounted, HandScan, Raised
<1>5. Remembering /\ CirclesSeen
  BY <1>1, <1>2, <1>3, States DEF Remembering, CirclesSeen, WaitingFor
<1>6. EndInv /\ NothingForgotten
  BY <1>1, FS_EmptySet DEF EndInv, NothingForgotten
<1>7. QED
  BY <1>1, <1>4, <1>5, <1>6 DEF CompleteInv, WellInv

LEMMA CompleteStep ==
  ASSUME Types, SafeInv, CountInv, CompleteInv, [Next]_vars
  PROVE  CompleteInv'
<1>1. /\ SourcesHaveBuilders(graph) /\ ScansMatter(graph) /\ HandScan
      /\ EndInv /\ NothingForgotten
  BY DEF CompleteInv
<1>2. UNCHANGED graph
  BY DEF Next, Main, LookForTask, FindNextReadyNode, NoMoreTasks, NoNextCandidate, PrepareFails,
         NothingToDo, Conclude, Dispatch, TakeResult, TakeTask, Execute, RetrieveFromCache,
         RetrievedBuilt, Build, BuildFails, Interrupt, Ended, vars, tmVars
<1>3. (Calm' => WellInv') /\ HandScan'
  BY <1>1, WellStep, ScanStep
<1>4. /\ EndInv' /\ (outcome # "none" => UNCHANGED vars)
      /\ outcome' = outcome \/ NoMoreTasks
  BY <1>1, EndStep
<1>5. NothingForgotten'
  <2>1. CASE outcome # "none"
    <3>1. UNCHANGED <<graph, on_disk, state, status, interrupted, outcome>>
      BY <1>4, <2>1 DEF vars, tmVars, jobVars, nodeVars
    <3>2. NothingForgotten
      BY <1>1
    <3>3. Settled' = Settled
      BY <3>1 DEF Settled
    <3>4. Asked' = Asked
      BY <3>1 DEF Asked, Below, Needs, IncludesThrough
    <3>5. QED
      BY <3>1, <3>2, <3>3, <3>4 DEF NothingForgotten
  <2>2. CASE outcome = "none" /\ outcome' = outcome
    BY <2>2 DEF NothingForgotten
  <2>3. CASE outcome = "none" /\ outcome' # outcome
    <3> SUFFICES ASSUME outcome' = "done", status' = 0, ~interrupted'
                 PROVE  Asked' \subseteq Settled'
      BY DEF NothingForgotten
    <3>1. NoMoreTasks /\ ~(jobs > 0) /\ pending_children' = {}
      BY <1>4, <2>3 DEF NoMoreTasks
    <3>2. Calm /\ task = << >> /\ UNCHANGED <<graph, on_disk>>
      BY <3>1 DEF NoMoreTasks, NoNextCandidate, Calm, Raised
    <3>3. WellInv
      BY <3>2 DEF CompleteInv
    <3>4. /\ candidates = << >> /\ top_targets_left = << >> /\ pending_children = {}
          /\ state' = state
      BY <3>1, <3>3, NoMoreRests DEF WellInv, NoneFailed, Undisturbed
    <3>5. Flying = {}
      BY <1>1, <3>1, NoJobs DEF EndInv, Types
    <3>6. \A n \in ToSet(graph.top) : state[n] \in SettledStates
      BY <3>2, <3>3, <3>4, <3>5, NothingPending
    <3>7. Asked \subseteq Settled
      BY <1>1, <3>3, <3>6, AllSettled DEF WellInv
    <3>8. Settled' = Settled
      BY <3>4 DEF Settled
    <3>9. Asked' = Asked
      BY <3>2 DEF Asked, Below, Needs, IncludesThrough
    <3>10. QED
      BY <3>7, <3>8, <3>9
  <2>4. QED
    BY <2>1, <2>2, <2>3
<1>6. QED
  BY <1>1, <1>2, <1>3, <1>4, <1>5 DEF CompleteInv, SourcesHaveBuilders, ScansMatter, Plains

\* NothingForgotten: a build that ends with status 0 and no error left nothing of
\* what was asked for undone (Job.py:371).
THEOREM NothingForgottenAlways ==
  ASSUME \A g \in Graphs : Ordinary(g) /\ SourcesHaveBuilders(g) /\ ScansMatter(g)
  PROVE  Spec => []NothingForgotten
<1>1. \A g \in Graphs : Ordinary(g) /\ NothingFromSideEffects(g)
  BY DEF Ordinary
<1>2. Init => Types /\ SafeInv /\ CountInv /\ CompleteInv
  BY <1>1, TypesInit, SafeInit, CountInit, CompleteInit
<1>3. Types /\ SafeInv /\ CountInv /\ CompleteInv /\ [Next]_vars
        => (Types /\ SafeInv /\ CountInv /\ CompleteInv)'
  BY <1>1, TypesStep, SafeStep, CountStep, CompleteStep
<1>4. CompleteInv => NothingForgotten
  BY DEF CompleteInv
<1>5. QED
  BY <1>2, <1>3, <1>4, PTL DEF Spec

-----------------------------------------------------------------------------
(***************************************************************************)
(* KeepGoing and CycleReported: builds that go on, of steady graphs.       *)
(***************************************************************************)
\* Only what has a builder is made from something.
RootsNeedNothing(g) == \A n \in Nodes \ g.derived : g.sources[n] = << >> /\ g.depends[n] = << >>

\* What a scan finds does not depend on when it is made: no file that is made during the
\* build includes anything, and no scan raises.
Steady(g) ==
  /\ Ordinary(g) /\ RootsNeedNothing(g)
  /\ \A f \in g.derived : g.includes[f] = {}
  /\ g.unscannable = {}

\* Nothing stopped the build.
Going == ~interrupted /\ (mode = "continue" \/ broke = {})

\* A scan has found all there is to find.
ScanDone == \A n \in scanned \cap graph.derived : implicit[n] = Inc(graph, n)

\* Only what broke, and what is made from it, fails.
FailInv ==
  /\ \A n \in broke : n \in Plains(graph) /\ state[n] = failed
  /\ broke = {} => status = 0 /\ \A n \in Plains(graph) : state[n] # failed
  /\ \A n \in Plains(graph) : state[n] = failed =>
       n \in broke \/ \E c \in Deps(graph, n) : state[c] = failed

\* What is settled was made from what is, and will be.
SteadyClosed ==
  \A n \in Plains(graph) : state[n] \in SettledStates =>
    \A c \in Deps(graph, n) :
      state[c] \in SettledStates /\ \A t \in ToSet(task) : c \notin Targets(t)

\* A node that was looked at waits for all that it is made from and is not finished.
WaitsForAll ==
  \A n \in Plains(graph) : state[n] = pending =>
    \A c \in Deps(graph, n) :
      state[c] \in SettledStates \cup {failed} \/ n \in waiting_parents[c]

\* What a node that was looked at is made from will be looked at, too.
LooksAtAll ==
  \A n \in Plains(graph) : state[n] # no_state =>
    \A c \in Deps(graph, n) : state[c] = no_state => c \in ToSet(candidates)

\* What holds of a build of a steady graph while nothing stops it.
GoInv ==
  /\ ~stopped /\ FailInv /\ SteadyClosed /\ WaitsForAll /\ LooksAtAll
  /\ Accounted /\ HandScan /\ Remembering

SteadyInv == Steady(graph) /\ ScanDone /\ (Going => GoInv)

\* The nodes ns of a graph and all below them, and the nodes on circles.
Under(g, ns) ==
  {d \in Nodes : \A D \in SUBSET Nodes :
     (ns \subseteq D /\ \A m \in D : Deps(g, m) \subseteq D) => d \in D}
Circular(g, n) == n \in Under(g, Deps(g, n))

\* Nothing it is made from is left to settle.
Cleared(n) == \A c \in Deps(graph, n) : state[c] \in SettledStates
Passed(n) == state[n] \notin IdleStates \/ Cleared(n)

\* It waits for a side effect that is being made.
HeldUp(n) == \E s \in Nodes \ Plains(graph) : n \in waiting_s_e[s] /\ state[s] = executing

\* It has nothing left to wait for.
Ready(n) == state[n] = pending /\ WaitingFor(n) = {} /\ ~HeldUp(n)

\* What is ready is on top of the candidates, below others like it.
OnTop(n) ==
  \E k \in DOMAIN candidates :
    candidates[k] = n /\ \A j \in DOMAIN candidates : j > k => Passed(candidates[j])
ReadyOnTop == \A n \in Plains(graph) : Ready(n) => OnTop(n)

\* No node is left among the pending children once it is ready.
NoneLeftPending ==
  \A c \in pending_children : c \in Plains(graph) /\ state[c] = pending /\ ~Ready(c)

\* Who waits for a side effect was looked at, and has that side effect.
HeldInv ==
  \A s \in Nodes : \A n \in waiting_s_e[s] : state[n] # no_state /\ s \in graph.side_effects[n]

\* Only what was asked for is looked at.
PendingAsked ==
  \A n \in Plains(graph) :
    \/ state[n] = pending
    \/ state[n] = no_state /\ n \in ToSet(candidates) \cup ToSet(top_targets_left)
    => n \in Under(graph, ToSet(graph.top))

\* Nothing on a circle is settled.
Apart == \A n \in Plains(graph) : state[n] \in SettledStates => ~Circular(graph, n)

\* What holds while nothing broke either: the candidates come round in order.
Rounds == ReadyOnTop /\ NoneLeftPending /\ HeldInv /\ PendingAsked /\ Apart
RoundInv == Going /\ broke = {} => Rounds

-----------------------------------------------------------------------------
\* In a steady graph all that a node needs is known from the start.
LEMMA SteadyFinds ==
  ASSUME graph \in Graphs, Steady(graph), KnowInv, NEW n \in graph.derived, NEW R,
         R = on_disk \/ R = on_disk \ absent
  PROVE  ThroughOf(graph, n, R) = Inc(graph, n)
<1>1. /\ n \in Nodes /\ n \in Plains(graph) /\ Ordinary(graph) /\ FileInv /\ AbsentInv
      /\ ToSet(graph.sources[n]) \subseteq Plains(graph)
      /\ ThroughOf(graph, n, R) \subseteq Plains(graph)
  <2>1. Ordinary(graph) /\ FileInv /\ AbsentInv
    BY DEF Steady, KnowInv, DiskInv
  <2>2. n \in Nodes
    BY GraphFields
  <2>3. QED
    BY <2>1, <2>2, PlainDeps DEF Deps
<1>2. ASSUME NEW f \in Plains(graph)
      PROVE  graph.includes[f] = {} \/ (f \in R <=> f \in graph.derived \cup graph.disk)
  <2>1. CASE f \in graph.derived
    BY <2>1 DEF Steady
  <2>2. CASE f \notin graph.derived
    <3>1. f \in on_disk <=> f \in graph.disk
      BY <1>1, <2>2 DEF FileInv, Plains
    <3>2. ~(f \in absent /\ f \in on_disk)
      BY <1>1, <2>2 DEF AbsentInv, Readable
    <3>3. QED
      BY <2>2, <3>1, <3>2
  <2>3. QED
    BY <2>1, <2>2
<1> DEFINE D == graph.derived \cup graph.disk
<1>3. \A f \in ToSet(graph.sources[n]) \cup ThroughOf(graph, n, R) :
        graph.includes[f] = {} \/ (f \in R <=> f \in D)
  BY <1>1, <1>2
<1> HIDE DEF D
<1>4. ThroughOf(graph, n, R) = ThroughOf(graph, n, D)
  BY <1>1, <1>3, ThroughReadable
<1>5. QED
  BY <1>4 DEF Inc, D

LEMMA SteadyDeps ==
  ASSUME graph \in Graphs, Steady(graph), KnowInv, NEW n \in Nodes
  PROVE  /\ Uses(n) = Deps(graph, n) /\ Needs(n) = Deps(graph, n)
         /\ ScanDone => ImplicitOf(n) = Inc(graph, n) /\ Children(n) = Deps(graph, n)
<1>1. /\ Ordinary(graph) /\ RootsNeedNothing(graph) /\ implicit[n] \subseteq Inc(graph, n)
  BY DEF Steady, KnowInv, ImplInv
<1>2. CASE n \in graph.derived
  <2>1. /\ ThroughOf(graph, n, on_disk) = Inc(graph, n)
        /\ ThroughOf(graph, n, on_disk \ absent) = Inc(graph, n)
    BY <1>2, SteadyFinds
  <2>2. IncludesThrough(n, on_disk) = Inc(graph, n) /\ FoundIncludes(n) = Inc(graph, n)
    BY <2>1, ThroughSame DEF FoundIncludes
  <2>3. Uses(n) = Deps(graph, n) /\ Needs(n) = Deps(graph, n)
    BY <1>1, <1>2, <2>1, <2>2 DEF Uses, UsesOf, Needs, Deps
  <2>4. ScanDone => ImplicitOf(n) = Inc(graph, n)
    BY <1>2, <2>2 DEF ScanDone, ImplicitOf, Readable, Steady
  <2>5. QED
    BY <2>3, <2>4 DEF Children, Deps
<1>3. CASE n \notin graph.derived
  <2>1. Inc(graph, n) = {} /\ implicit[n] = {}
    BY <1>1, <1>3 DEF Inc
  <2>2. ToSet(graph.sources[n]) = {} /\ ToSet(graph.depends[n]) = {}
    BY <1>1, <1>3 DEF RootsNeedNothing, ToSet
  <2>3. {} \in SUBSET UNION {graph.includes[f] : f \in Nodes}
    OBVIOUS
  <2>4. ThroughOf(graph, n, on_disk) \subseteq {}
    BY <2>2, <2>3, ThroughLeast
  <2>5. IncludesThrough(n, on_disk) = {}
    BY <2>4, ThroughSame
  <2>6. ImplicitOf(n) = {}
    BY <1>3, <2>1 DEF ImplicitOf, Readable
  <2>7. QED
    BY <1>3, <2>1, <2>2, <2>5, <2>6 DEF Uses, UsesOf, Needs, Deps, Children
<1>4. QED
  BY <1>2, <1>3

LEMMA ScanDoneScans ==
  ASSUME graph \in Graphs, Steady(graph), KnowInv, ScanDone, NEW k \in Nodes, Scan(k), UNCHANGED graph
  PROVE  ScanDone'
<1>1. ImplicitOf(k) = Inc(graph, k) /\ Ordinary(graph)
  BY SteadyDeps DEF Steady
<1>2. CASE k \in scanned
  BY <1>2 DEF Scan, scanVars, ScanDone
<1>3. CASE k \notin scanned
  <2> DEFINE ts == IF k \in graph.derived THEN ToSet(graph.targets[k]) ELSE {k}
  <2>1. /\ scanned' = scanned \cup ts
        /\ implicit' = [m \in Nodes |->
             IF m = k THEN ImplicitOf(k)
             ELSE IF m \notin ts THEN implicit[m]
             ELSE IF m \in scanned THEN implicit[m] \cup ImplicitOf(k)
             ELSE ImplicitOf(k)]
    BY <1>3 DEF Scan
  <2>2. \A m \in ts : m \in Nodes /\ Inc(graph, m) = Inc(graph, k)
    BY <1>1, Mates
  <2> HIDE DEF ts
  <2>3. ASSUME NEW m \in scanned' \cap graph.derived PROVE implicit'[m] = Inc(graph, m)
    <3>1. m \in Nodes
      BY GraphFields
    <3>2. CASE m = k
      BY <1>1, <2>1, <3>1, <3>2
    <3>3. CASE m # k /\ m \notin ts
      BY <2>1, <3>1, <3>3 DEF ScanDone
    <3>4. CASE m # k /\ m \in ts /\ m \in scanned
      BY <1>1, <2>1, <2>2, <3>1, <3>4 DEF ScanDone
    <3>5. CASE m # k /\ m \in ts /\ m \notin scanned
      BY <1>1, <2>1, <2>2, <3>1, <3>5
    <3>6. QED
      BY <3>2, <3>3, <3>4, <3>5
  <2>4. QED
    BY <2>3 DEF ScanDone
<1>4. QED
  BY <1>2, <1>3

LEMMA ScanDoneStep ==
  ASSUME Types, SafeInv, Steady(graph), ScanDone, [Next]_vars
  PROVE  ScanDone' /\ UNCHANGED graph
<1>1. graph \in Graphs /\ KnowInv /\ WalkTypes
  BY DEF Types, JobTypes, SafeInv
<1>2. UNCHANGED graph
  BY DEF Next, Main, LookForTask, FindNextReadyNode, NoMoreTasks, NoNextCandidate, PrepareFails,
         NothingToDo, Conclude, Dispatch, TakeResult, TakeTask, Execute, RetrieveFromCache,
         RetrievedBuilt, Build, BuildFails, Interrupt, Ended, vars, tmVars
<1>3. CASE LookForTask
  <2>1. CASE WaitForChildren \/ WaitForSideEffect \/ Evaluate
    <3>1. PICK k \in Nodes : Scan(k)
      BY <1>1, <2>1, CandidateTypes
      DEF WaitForChildren, WaitForSideEffect, Evaluate, ChildrenFinished, Considered
    <3>2. QED
      BY <1>1, <1>2, <3>1, ScanDoneScans
  <2>2. CASE AlreadyHandled
    BY <1>2, <2>2 DEF AlreadyHandled, scanVars, ScanDone
  <2>3. ~ScanRaises
    BY DEF ScanRaises, ScanFails, Steady
  <2>4. QED
    BY <1>2, <1>3, <2>1, <2>2, <2>3 DEF LookForTask, FindNextReadyNode
<1>4. ASSUME scanned' \subseteq scanned, UNCHANGED implicit PROVE ScanDone'
  BY <1>2, <1>4 DEF ScanDone
<1>5. CASE PrepareFails \/ NothingToDo \/ TakeResult
  <2>1. \E t : EndingWith(t)
    BY <1>5, HandEnding, ResultEnding
  <2>2. scanned' \subseteq scanned /\ UNCHANGED implicit
    BY <2>1 DEF EndingWith, EndOf
  <2>3. QED
    BY <1>2, <1>4, <2>2
<1>6. CASE Interrupt \/ NoMoreTasks \/ Dispatch \/ TakeTask \/ UNCHANGED vars
  <2>1. scanned' \subseteq scanned /\ UNCHANGED implicit
    BY <1>6 DEF Interrupt, NoMoreTasks, NoNextCandidate, Dispatch, TakeTask, vars, tmVars, scanVars
  <2>2. QED
    BY <1>2, <1>4, <2>1
<1>7. CASE Execute
  <2>1. scanned' \subseteq scanned /\ UNCHANGED implicit
    <3>1. PICK r \in running :
            RetrieveFromCache(r) \/ RetrievedBuilt(r) \/ Build(r) \/ BuildFails(r)
      BY <1>7 DEF Execute
    <3>2. CASE RetrieveFromCache(r)
      BY <3>2 DEF RetrieveFromCache, scanVars
    <3>3. CASE RetrievedBuilt(r)
      BY <3>3 DEF RetrievedBuilt
    <3>4. CASE Build(r)
      BY <3>4 DEF Build, scanVars
    <3>5. CASE BuildFails(r)
      BY <3>5 DEF BuildFails, tmVars, scanVars
    <3>6. QED
      BY <3>1, <3>2, <3>3, <3>4, <3>5
  <2>2. QED
    BY <1>2, <1>4, <2>1
<1>8. QED
  BY <1>2, <1>3, <1>5, <1>6, <1>7, StepKinds

\* A candidate is marked: it waits, or something it is made from has failed.
LEMMA MarkGoes ==
  ASSUME Types, SafeInv, Steady(graph), ScanDone, GoInv, LookForTask,
         WaitForChildren \/ WaitForSideEffect
  PROVE  FailInv' /\ SteadyClosed' /\ WaitsForAll' /\ LooksAtAll'
<1>1. PICK k : k = Candidate
  OBVIOUS
<1>2. /\ graph \in Graphs /\ WalkTypes /\ Ordinary(graph) /\ KnowInv /\ CandInv /\ GroupInv
      /\ DownInv /\ Plains(graph) \subseteq Nodes
      /\ FailInv /\ SteadyClosed /\ WaitsForAll /\ LooksAtAll
  BY DEF Types, JobTypes, SafeInv, GoInv, Plains
<1>3. /\ Considered /\ HasCandidate /\ PopCandidate /\ task' = << >>
      /\ UNCHANGED <<graph, status, broke>>
  BY DEF LookForTask, FindNextReadyNode, WaitForChildren, WaitForSideEffect, ChildrenFinished,
         Considered
<1>4. /\ k \in Nodes /\ k \in Plains(graph) /\ state[k] \in {no_state, pending}
      /\ \A m \in Nodes : Marked[m] = IF m = k THEN pending ELSE state[m]
      /\ state \in [Nodes -> NodeStates]
  BY <1>1, <1>2, <1>3, CandidateState DEF WalkTypes
<1>5. Children(k) = Deps(graph, k) /\ \A n \in Nodes : Deps(graph, n) \subseteq Plains(graph)
  BY <1>2, <1>4, SteadyDeps, PlainDeps
<1> DEFINE not_ready == {c \in Children(k) : Marked[c] <= executing}
           Given == /\ waiting_parents' = [c \in Nodes |->
                         IF c \in not_ready THEN waiting_parents[c] \cup {k} ELSE waiting_parents[c]]
                    /\ state' = Marked
<1>6. /\ \A m \in Nodes \ {k} : state'[m] = state[m]
      /\ \/ state'[k] = pending
         \/ state'[k] = failed /\ \E c \in Deps(graph, k) : state[c] = failed
  BY <1>1, <1>4, <1>5 DEF WaitForChildren, WaitForSideEffect
<1>7. /\ \A c \in Nodes : waiting_parents[c] \subseteq waiting_parents'[c]
      /\ ToSet(OtherCandidates) \subseteq ToSet(candidates')
      /\ \A c \in Deps(graph, k) : Marked[c] = no_state => c \in ToSet(candidates')
      /\ state'[k] = pending =>
           \A c \in Deps(graph, k) : state[c] \in SettledStates \cup {failed} \/ k \in waiting_parents'[c]
  <2>1. CASE WaitForChildren
    <3>1. /\ ToSet(OtherCandidates) \subseteq ToSet(candidates')
          /\ \A c \in Deps(graph, k) : Marked[c] = no_state => c \in ToSet(candidates')
      BY <1>1, <1>2, <1>5, <2>1, AllWaitingCandidates
    <3>2. (UNCHANGED waiting_parents /\ state' = [state EXCEPT ![k] = failed]) \/ Given
      BY <1>1, <2>1 DEF WaitForChildren
    <3>3. \A c \in Nodes : waiting_parents[c] \subseteq waiting_parents'[c]
      BY <3>2
    <3>4. ASSUME state'[k] = pending, NEW c \in Deps(graph, k)
          PROVE  state[c] \in SettledStates \cup {failed} \/ k \in waiting_parents'[c]
      <4>1. Given
        BY <1>4, <3>2, <3>4, States
      <4>2. c \in Nodes /\ state[c] \in 0 .. 5
        BY <1>2, <1>4, <1>5, <3>4, States
      <4>3. CASE c \in not_ready
        BY <4>1, <4>2, <4>3
      <4>4. CASE c \notin not_ready
        <5>1. ~(Marked[c] <= executing)
          BY <1>5, <3>4, <4>4
        <5>2. c # k /\ state[c] > executing
          BY <1>4, <4>2, <5>1, States
        <5>3. QED
          BY <4>2, <5>2, States DEF SettledStates
      <4>5. QED
        BY <4>3, <4>4
    <3>5. QED
      BY <3>1, <3>3, <3>4
  <2>2. CASE WaitForSideEffect
    <3>1. \A c \in Deps(graph, k) : state[c] \in SettledStates /\ Marked[c] # no_state
      <4>1. \A c \in Children(k) : c \in Plains(graph) /\ state[c] \in SettledStates
        BY <1>1, <1>2, <2>2, FinishedCandidate DEF WaitForSideEffect
      <4>2. \A c \in Children(k) : Marked[c] # no_state
        BY <1>2, <1>4, <4>1, Kinds, States
      <4>3. QED
        BY <1>5, <4>1, <4>2
    <3>2. candidates' = OtherCandidates /\ UNCHANGED waiting_parents
      BY <2>2 DEF WaitForSideEffect, ChildrenFinished
    <3>3. QED
      BY <3>1, <3>2
  <2>3. QED
    BY <2>1, <2>2
<1> HIDE DEF Given, not_ready
<1>8. \A m \in Plains(graph) : /\ state[m] \in SettledStates \cup {failed} => state'[m] = state[m]
                               /\ state'[m] \in SettledStates => state[m] \in SettledStates
                               /\ state'[m] = no_state => m # k /\ state[m] = no_state
  BY <1>2, <1>4, <1>6, Kinds, States
<1>9. FailInv'
  <2>1. \A n \in broke : n \in Plains(graph) /\ state'[n] = failed
    BY <1>2, <1>8 DEF FailInv
  <2>2. ASSUME NEW n \in Plains(graph), state'[n] = failed
        PROVE  n \in broke \/ \E c \in Deps(graph, n) : state'[c] = failed
    <3>1. n \in broke \/ \E c \in Deps(graph, n) : state[c] = failed
      BY <1>2, <1>4, <1>6, <2>2, Kinds DEF FailInv
    <3>2. n \in Nodes
      BY <1>2
    <3>3. QED
      BY <1>5, <1>8, <3>1, <3>2
  <2>3. ASSUME broke = {}, NEW n \in Plains(graph) PROVE state'[n] # failed
    BY <1>2, <1>4, <1>5, <1>6, <2>3, Kinds DEF FailInv
  <2>4. broke = {} => status = 0
    BY <1>2 DEF FailInv
  <2>5. QED
    BY <1>3, <2>1, <2>2, <2>3, <2>4 DEF FailInv
<1>10. SteadyClosed'
  <2>1. ToSet(task') = {}
    BY <1>3 DEF ToSet
  <2>2. QED
    BY <1>2, <1>3, <1>5, <1>8, <2>1 DEF SteadyClosed
<1>11. WaitsForAll'
  <2>1. ASSUME NEW n \in Plains(graph), state'[n] = pending, NEW c \in Deps(graph, n)
        PROVE  state'[c] \in SettledStates \cup {failed} \/ n \in waiting_parents'[c]
    <3>1. c \in Plains(graph) /\ c \in Nodes /\ n \in Nodes
      BY <1>2, <1>5, <2>1
    <3>2. state[c] \in SettledStates \cup {failed} \/ n \in waiting_parents'[c]
      <4>1. CASE n = k
        BY <1>7, <2>1, <4>1
      <4>2. CASE n # k
        BY <1>2, <1>6, <1>7, <2>1, <3>1, <4>2 DEF WaitsForAll
      <4>3. QED
        BY <4>1, <4>2
    <3>3. QED
      BY <1>8, <3>1, <3>2
  <2>2. QED
    BY <1>3, <2>1 DEF WaitsForAll
<1>12. LooksAtAll'
  <2>1. ASSUME NEW n \in Plains(graph), state'[n] # no_state, NEW c \in Deps(graph, n),
               state'[c] = no_state
        PROVE  c \in ToSet(candidates')
    <3>1. c \in Plains(graph) /\ c \in Nodes /\ n \in Nodes
      BY <1>2, <1>5, <2>1
    <3>2. c # k /\ state[c] = no_state
      BY <1>8, <2>1, <3>1
    <3>3. CASE n = k
      BY <1>4, <1>7, <2>1, <3>1, <3>2, <3>3
    <3>4. CASE n # k
      <4>1. c \in ToSet(candidates)
        BY <1>2, <1>6, <2>1, <3>1, <3>2, <3>4 DEF LooksAtAll
      <4>2. c \in ToSet(OtherCandidates)
        BY <1>1, <1>2, <1>3, <3>2, <4>1, OthersLeft
      <4>3. QED
        BY <1>7, <4>2
    <3>5. QED
      BY <3>3, <3>4
  <2>2. QED
    BY <1>3, <2>1 DEF LooksAtAll
<1>13. QED
  BY <1>9, <1>10, <1>11, <1>12

\* A candidate is evaluated: all that it is made from is settled.
LEMMA EvaluateGoes ==
  ASSUME Types, SafeInv, Steady(graph), ScanDone, GoInv, LookForTask, Evaluate
  PROVE  FailInv' /\ SteadyClosed' /\ WaitsForAll' /\ LooksAtAll'
<1>1. PICK k : k = Candidate
  OBVIOUS
<1>2. PICK ts : ts = ToSet(graph.targets[k]) /\ EvaluatedTo(k, ts)
  BY <1>1, Evaluated
<1>3. /\ graph \in Graphs /\ WalkTypes /\ Ordinary(graph) /\ KnowInv /\ Plains(graph) \subseteq Nodes
      /\ FailInv /\ SteadyClosed /\ WaitsForAll /\ LooksAtAll
  BY DEF Types, JobTypes, SafeInv, GoInv, Plains
<1>4. /\ HasCandidate /\ PopCandidate /\ candidates' = OtherCandidates /\ task = << >>
      /\ UNCHANGED <<graph, waiting_parents>>
      /\ k \in Nodes /\ k \in Plains(graph) /\ k \in ts /\ ts \in SUBSET Plains(graph)
      /\ \A c \in Children(k) : c \in Plains(graph) /\ state[c] \in SettledStates
      /\ \A m \in ts : state[m] \in {no_state, pending} /\ state'[m] \in ActiveStates
      /\ \A m \in Plains(graph) \ ts : state'[m] = state[m]
      /\ task' = <<TaskFor(k, FALSE)>>
  BY <1>2 DEF EvaluatedTo
<1>5. UNCHANGED <<status, broke>>
  BY DEF LookForTask, FindNextReadyNode
<1>6. /\ \A n \in Nodes : Deps(graph, n) \subseteq Plains(graph)
      /\ \A m \in ts : Deps(graph, m) = Children(k)
  <2>1. Children(k) = Deps(graph, k)
    BY <1>3, <1>4, SteadyDeps
  <2>2. \A m \in ts : Deps(graph, m) = Deps(graph, k)
    BY <1>2, <1>3, <1>4, Mates
  <2>3. QED
    BY <1>3, <2>1, <2>2, PlainDeps
<1>7. \A t \in ToSet(task') : Targets(t) = ts
  BY <1>2, <1>4 DEF ToSet, TaskFor, Targets
<1>8. \A m \in Plains(graph) : /\ state[m] \in SettledStates \cup {failed} => m \notin ts /\ state'[m] = state[m]
                               /\ state'[m] \in {no_state, pending, failed} =>
                                    m \notin ts /\ state'[m] = state[m]
  BY <1>4, Kinds, States
<1>9. FailInv'
  <2>1. \A n \in broke : n \in Plains(graph) /\ state'[n] = failed
    BY <1>3, <1>8 DEF FailInv
  <2>2. ASSUME NEW n \in Plains(graph), state'[n] = failed
        PROVE  broke # {} /\ (n \in broke \/ \E c \in Deps(graph, n) : state'[c] = failed)
    <3>1. state[n] = failed /\ n \in Nodes
      BY <1>3, <1>8, <2>2
    <3>2. broke # {} /\ (n \in broke \/ \E c \in Deps(graph, n) : state[c] = failed)
      BY <1>3, <3>1 DEF FailInv
    <3>3. QED
      BY <1>6, <1>8, <3>1, <3>2
  <2>3. broke = {} => status = 0
    BY <1>3 DEF FailInv
  <2>4. QED
    BY <1>4, <1>5, <2>1, <2>2, <2>3 DEF FailInv
<1>10. SteadyClosed'
  <2>1. ASSUME NEW n \in Plains(graph), state'[n] \in SettledStates, NEW c \in Deps(graph, n)
        PROVE  state'[c] \in SettledStates /\ c \notin ts
    <3>1. c \in Plains(graph) /\ n \in Nodes
      BY <1>3, <1>6, <2>1
    <3>2. state[c] \in SettledStates
      <4>1. CASE n \in ts
        BY <1>4, <1>6, <2>1, <4>1
      <4>2. CASE n \notin ts
        BY <1>3, <1>4, <2>1, <4>2 DEF SteadyClosed
      <4>3. QED
        BY <4>1, <4>2
    <3>3. QED
      BY <1>8, <3>1, <3>2
  <2>2. QED
    BY <1>4, <1>7, <2>1 DEF SteadyClosed
<1>11. WaitsForAll'
  <2>1. ASSUME NEW n \in Plains(graph), state'[n] = pending, NEW c \in Deps(graph, n)
        PROVE  state'[c] \in SettledStates \cup {failed} \/ n \in waiting_parents[c]
    <3>1. c \in Plains(graph) /\ state[n] = pending
      BY <1>3, <1>6, <1>8, <2>1
    <3>2. QED
      BY <1>3, <1>8, <2>1, <3>1 DEF WaitsForAll
  <2>2. QED
    BY <1>4, <2>1 DEF WaitsForAll
<1>12. LooksAtAll'
  <2>1. ASSUME NEW n \in Plains(graph), state'[n] # no_state, NEW c \in Deps(graph, n),
               state'[c] = no_state
        PROVE  c \in ToSet(candidates')
    <3>1. c \in Plains(graph) /\ c \notin ts /\ state[c] = no_state
      BY <1>3, <1>6, <1>8, <2>1
    <3>2. n \notin ts
      BY <1>4, <1>6, <2>1, <3>1, Kinds
    <3>3. c \in ToSet(candidates) /\ c # Candidate
      BY <1>1, <1>3, <1>4, <2>1, <3>1, <3>2 DEF LooksAtAll
    <3>4. QED
      BY <1>3, <1>4, <3>3, OthersLeft
  <2>2. QED
    BY <1>4, <2>1 DEF LooksAtAll
<1>13. QED
  BY <1>9, <1>10, <1>11, <1>12

LEMMA LookGoes ==
  ASSUME Types, SafeInv, Steady(graph), ScanDone, GoInv, LookForTask
  PROVE  GoInv'
<1>1. /\ WalkTypes /\ FailInv /\ SteadyClosed /\ WaitsForAll /\ LooksAtAll /\ ~stopped
      /\ Accounted /\ Remembering /\ Plains(graph) \subseteq Nodes
  BY DEF Types, GoInv, Plains
<1>2. ~ScanRaises
  BY DEF ScanRaises, ScanFails, Steady
<1>3. Accounted' /\ HandScan' /\ Remembering' /\ ~stopped'
  BY <1>1, <1>2, LookAccounts DEF LookForTask, FindNextReadyNode
<1>4. CASE AlreadyHandled
  <2>1. /\ HasCandidate /\ PopCandidate /\ candidates' = OtherCandidates /\ state[Candidate] > pending
        /\ task' = << >>
        /\ UNCHANGED <<graph, status, broke, state, waiting_parents>>
    BY <1>4 DEF LookForTask, FindNextReadyNode, AlreadyHandled, nodeVars
  <2>2. ToSet(task') = {}
    BY <2>1 DEF ToSet
  <2>3. FailInv' /\ SteadyClosed' /\ WaitsForAll'
    BY <1>1, <2>1, <2>2 DEF FailInv, SteadyClosed, WaitsForAll
  <2>4. ASSUME NEW c, c \in ToSet(candidates), state[c] = no_state PROVE c \in ToSet(candidates')
    <3>1. c # Candidate
      BY <2>1, <2>4, States
    <3>2. QED
      BY <1>1, <2>1, <2>4, <3>1, OthersLeft
  <2>5. LooksAtAll'
    BY <1>1, <2>1, <2>4 DEF LooksAtAll
  <2>6. QED
    BY <1>3, <2>3, <2>5 DEF GoInv
<1>5. CASE WaitForChildren \/ WaitForSideEffect
  BY <1>3, <1>5, MarkGoes DEF GoInv
<1>6. CASE Evaluate
  BY <1>3, <1>6, EvaluateGoes DEF GoInv
<1>7. QED
  BY <1>2, <1>4, <1>5, <1>6 DEF LookForTask, FindNextReadyNode

LEMMA RestGoes ==
  ASSUME GoInv, Undisturbed
  PROVE  GoInv'
<1>1. Accounted' /\ HandScan' /\ Remembering'
  BY RestAccounts DEF GoInv
<1>2. /\ UNCHANGED <<graph, state, waiting_parents, candidates, stopped, status, broke>>
      /\ ToSet(task') \subseteq ToSet(task)
  BY DEF Undisturbed, ToSet
<1>3. FailInv' /\ SteadyClosed' /\ WaitsForAll' /\ LooksAtAll' /\ ~stopped'
  BY <1>2 DEF GoInv, FailInv, SteadyClosed, WaitsForAll, LooksAtAll
<1>4. QED
  BY <1>1, <1>3 DEF GoInv

\* What a task that ends was to make, or has found to be there.
LEMMA SteadyTask ==
  ASSUME Types, SafeInv, Steady(graph), ~stopped, NEW t \in Flying \cup ToSet(task)
  PROVE  /\ t \in Task /\ t.targets = graph.targets[t.node]
         /\ Targets(t) # {} /\ Targets(t) \in SUBSET Plains(graph)
         /\ \A n \in Targets(t) : /\ state[n] = executing \/ (t \in ToSet(task) /\ state[n] = up_to_date)
                                  /\ \A c \in Deps(graph, n) : state[c] \in SettledStates
<1>1. /\ graph \in Graphs /\ JobTypes /\ Ordinary(graph) /\ KnowInv /\ HandInv /\ FlyInv
      /\ graph.derived \subseteq Plains(graph) /\ Plains(graph) \subseteq Nodes
      /\ graph.unscannable = {}
  BY PlainDeps DEF Types, JobTypes, SafeInv, Steady, Plains
<1>2. \A n \in Plains(graph) : Uses(n) = Deps(graph, n)
  BY <1>1, SteadyDeps
<1>3. CASE t \in ToSet(task)
  <2>1. task # << >> /\ t = task[1] /\ t \in Task
    BY <1>1, <1>3, AtHand DEF ToSet
  <2>2. t.targets = graph.targets[t.node] /\ Targets(t) \subseteq Plains(graph) /\ HandKinds(t)
    BY <1>1, <2>1 DEF HandInv
  <2>3. \A n \in Targets(t) : /\ state[n] = executing \/ state[n] = up_to_date
                              /\ \A c \in Uses(n) : state[c] \in SettledStates
    BY <1>1, <2>2 DEF HandKinds, DoneWith
  <2>4. t.node \in Targets(t)
    BY <1>1, <2>1, <2>2, TaskMates
  <2>5. QED
    BY <1>2, <1>3, <2>1, <2>2, <2>3, <2>4
<1>4. CASE t \in Flying
  <2>1. /\ t \in Task /\ t.targets = graph.targets[t.node] /\ Targets(t) \subseteq graph.derived
        /\ \A n \in Targets(t) : state[n] = executing /\ DoneWith(n)
    BY <1>1, <1>4 DEF FlyInv, Readable
  <2>2. t.node \in Targets(t)
    BY <1>1, <2>1, TaskMates
  <2>3. QED
    BY <1>1, <1>2, <2>1, <2>2 DEF DoneWith
<1>5. QED
  BY <1>3, <1>4

\* A task ends, in a build that goes on.
LEMMA EndGoes ==
  ASSUME Types, SafeInv, CountInv, Steady(graph), GoInv,
         NEW t \in Flying \cup ToSet(task), EndingWith(t), ~stopped',
         \E st \in [Nodes -> NodeStates], pend \in SUBSET Nodes : PostProcess(st, pend, Targets(t)),
         Flying \cup ToSet(task) \subseteq Flying' \cup {t},
         \/ Made(Targets(t)) /\ UNCHANGED <<broke, status>>
         \/ Lost(Targets(t)) /\ broke' = broke \cup Targets(t)
  PROVE  GoInv'
<1> DEFINE ts == Targets(t)
<1>1. /\ graph \in Graphs /\ WalkTypes /\ Ordinary(graph) /\ CandInv /\ WaitInv
      /\ Plains(graph) \subseteq Nodes /\ ~stopped
      /\ FailInv /\ SteadyClosed /\ WaitsForAll /\ LooksAtAll /\ Accounted /\ HandScan /\ Remembering
  BY DEF Types, JobTypes, SafeInv, GoInv, Plains
<1>2. /\ ts # {} /\ ts \in SUBSET Plains(graph)
      /\ \A n \in ts : /\ state[n] = executing \/ (t \in ToSet(task) /\ state[n] = up_to_date)
                       /\ \A c \in Deps(graph, n) : state[c] \in SettledStates
  BY <1>1, SteadyTask
<1>3. /\ EndOf(ts) /\ task' = << >> /\ UNCHANGED graph
      /\ \A c \in Nodes \ ts : waiting_parents'[c] = waiting_parents[c]
  BY DEF EndingWith, EndOf
<1>4. Accounted' /\ HandScan' /\ Remembering'
  BY <1>1, EndAccounts
<1>6. ToSet(candidates) \subseteq ToSet(candidates')
  <2>1. PICK st \in [Nodes -> NodeStates], pend \in SUBSET Nodes : PostProcess(st, pend, ts)
    OBVIOUS
  <2>2. ts \in SUBSET Nodes
    BY <1>1, <1>2
  <2> HIDE DEF ts
  <2>3. QED
    BY <1>1, <2>1, <2>2, PostWakes
<1>7. \A n \in Nodes : Deps(graph, n) \subseteq Plains(graph)
  BY <1>1, PlainDeps
<1> DEFINE WentWell == Made(ts) /\ UNCHANGED <<broke, status>>
           Failing == Lost(ts) /\ broke' = broke \cup ts
<1> HIDE DEF ts
<1>8. /\ WentWell => \A n \in Plains(graph) :
           state'[n] = IF n \in ts /\ state[n] = executing THEN executed ELSE state[n]
      /\ Failing => \A n \in Plains(graph) :
           \/ n \in ts /\ state'[n] = failed
           \/ n \notin ts /\ state'[n] = state[n]
           \/ /\ n \notin ts /\ state[n] = pending /\ state'[n] = failed
              /\ \E d \in Deps(graph, n) : state'[d] = failed
  BY DEF Made, Lost
<1>9. WentWell \/ Failing
  BY DEF ts
<1>10. ASSUME NEW n \in Plains(graph)
       PROVE  /\ state'[n] \in {no_state, pending} => n \notin ts /\ state'[n] = state[n]
              /\ state[n] = failed => state'[n] = failed
              /\ n \in ts => state'[n] \in SettledStates \cup {failed}
              /\ n \notin ts /\ state[n] \in SettledStates => state'[n] = state[n]
              /\ state[n] = no_state => n \notin ts /\ state'[n] = no_state
  BY <1>2, <1>8, <1>9, Kinds, States DEF SettledStates
<1>11. FailInv'
  <2>1. CASE WentWell
    <3>1. \A n \in Plains(graph) : state'[n] = failed <=> state[n] = failed
      BY <1>2, <1>8, <2>1, Kinds, States
    <3>2. QED
      BY <1>1, <1>3, <1>7, <2>1, <3>1 DEF FailInv
  <2>2. CASE Failing
    <3>1. \A n \in broke' : n \in Plains(graph) /\ state'[n] = failed
      BY <1>1, <1>2, <1>8, <1>10, <2>2 DEF FailInv
    <3>2. broke' # {}
      BY <1>2, <2>2
    <3>3. ASSUME NEW n \in Plains(graph), state'[n] = failed
          PROVE  n \in broke' \/ \E c \in Deps(graph, n) : state'[c] = failed
      <4>1. CASE n \in ts
        BY <2>2, <4>1
      <4>2. CASE n \notin ts /\ state'[n] = state[n]
        <5>1. n \in broke \/ \E c \in Deps(graph, n) : state[c] = failed
          BY <1>1, <3>3, <4>2 DEF FailInv
        <5>2. Deps(graph, n) \subseteq Plains(graph)
          BY <1>1, <1>7
        <5>3. QED
          BY <1>10, <2>2, <5>1, <5>2
      <4>3. QED
        BY <1>8, <2>2, <3>3, <4>1, <4>2
    <3>4. QED
      BY <1>3, <3>1, <3>2, <3>3 DEF FailInv
  <2>3. QED
    BY <1>9, <2>1, <2>2
<1>12. SteadyClosed'
  <2>1. ASSUME NEW n \in Plains(graph), state'[n] \in SettledStates, NEW c \in Deps(graph, n)
        PROVE  state'[c] \in SettledStates
    <3>1. c \in Plains(graph)
      BY <1>1, <1>7
    <3>2. state[c] \in SettledStates /\ (Failing => c \notin ts)
      <4>1. CASE n \in ts
        <5>1. state[c] \in SettledStates
          BY <1>2, <4>1
        <5>2. ~Failing
          BY <1>8, <2>1, <4>1, Kinds
        <5>3. QED
          BY <5>1, <5>2
      <4>2. CASE n \notin ts
        <5>1. state[n] \in SettledStates
          BY <1>8, <1>9, <2>1, <4>2, Kinds
        <5>2. state[c] \in SettledStates /\ \A u \in ToSet(task) : c \notin Targets(u)
          BY <1>1, <5>1 DEF SteadyClosed
        <5>3. c \notin ts
          BY <1>2, <5>2, Kinds DEF ts
        <5>4. QED
          BY <5>2, <5>3
      <4>3. QED
        BY <4>1, <4>2
    <3>3. QED
      BY <1>8, <1>9, <1>10, <3>1, <3>2, Kinds
  <2>2. ToSet(task') = {}
    BY <1>3 DEF ToSet
  <2>3. QED
    BY <1>3, <2>1, <2>2 DEF SteadyClosed
<1>13. WaitsForAll'
  <2>1. ASSUME NEW n \in Plains(graph), state'[n] = pending, NEW c \in Deps(graph, n)
        PROVE  state'[c] \in SettledStates \cup {failed} \/ n \in waiting_parents'[c]
    <3>1. c \in Plains(graph) /\ c \in Nodes /\ state[n] = pending
      BY <1>1, <1>7, <1>10, <2>1
    <3>2. state[c] \in SettledStates \cup {failed} \/ n \in waiting_parents[c]
      BY <1>1, <3>1 DEF WaitsForAll
    <3>3. QED
      BY <1>3, <1>10, <3>1, <3>2
  <2>2. QED
    BY <1>3, <2>1 DEF WaitsForAll
<1>14. LooksAtAll'
  <2>1. ASSUME NEW n \in Plains(graph), state'[n] # no_state, NEW c \in Deps(graph, n),
               state'[c] = no_state
        PROVE  c \in ToSet(candidates')
    <3>1. c \in Plains(graph) /\ n \in Plains(graph)
      BY <1>1, <1>7, <2>1
    <3>2. state[c] = no_state /\ state[n] # no_state
      BY <1>10, <2>1, <3>1
    <3>3. QED
      BY <1>1, <1>6, <3>2 DEF LooksAtAll
  <2>2. QED
    BY <1>3, <2>1 DEF LooksAtAll
<1>15. QED
  BY <1>4, <1>11, <1>12, <1>13, <1>14 DEF GoInv

\* A task ends, and the build goes on: it is executed, or given up with what depends on it.
GoesOn(t) ==
  /\ t \in Flying \cup ToSet(task) /\ EndingWith(t)
  /\ Flying \cup ToSet(task) \subseteq Flying' \cup {t}
  /\ Going /\ UNCHANGED <<mode, interrupted>>
  /\ \/ Executed(Targets(t)) /\ UNCHANGED broke
     \/ /\ mode = "continue" /\ FailContinue(Targets(t))
        /\ Targets(t) # {} /\ broke' = broke \cup Targets(t)

LEMMA EndingGoes ==
  ASSUME Types, SafeInv, PrepareFails \/ NothingToDo \/ TakeResult, Going'
  PROVE  \E t : GoesOn(t)
<1>1. /\ graph \in Graphs /\ JobTypes /\ Ordinary(graph) /\ FlyInv
      /\ mode \in {"stop", "continue", "ignore"}
  BY ModesAssumption DEF Types, JobTypes, SafeInv
<1>2. /\ ~interrupted' /\ UNCHANGED interrupted /\ (mode' = "continue" \/ broke' = {})
  BY DEF Going, PrepareFails, NothingToDo, TakeResult
<1>3. CASE PrepareFails \/ NothingToDo
  <2>1. PICK t : t = task[1]
    OBVIOUS
  <2>2. EndingWith(t) /\ Flying' = Flying /\ task # << >>
    BY <1>3, <2>1, HandEnding
  <2>3. ToSet(task) = {t} /\ Targets(t) # {} /\ UNCHANGED mode
    BY <1>1, <2>1, <2>2, AtHand, TaskMates DEF EndingWith, JobTypes
  <2>4. \/ /\ Conclude(t, FALSE) \/ (Conclude(t, TRUE) /\ NoWayToMake(t))
           /\ broke' = broke \cup Targets(t)
        \/ Conclude(t, TRUE) /\ ~NoWayToMake(t) /\ UNCHANGED broke
    BY <1>3, <2>1 DEF PrepareFails, NothingToDo
  <2>5. \/ Executed(Targets(t)) /\ UNCHANGED broke
        \/ mode = "continue" /\ FailContinue(Targets(t)) /\ broke' = broke \cup Targets(t)
    BY <1>2, <2>3, <2>4 DEF Conclude, DoFailed
  <2>6. Going
    BY <1>2, <2>3, <2>5 DEF Going
  <2>7. QED
    BY <1>2, <2>2, <2>3, <2>5, <2>6 DEF GoesOn
<1>4. CASE TakeResult
  <2>1. PICK t : t = resultsQueue[1][1]
    OBVIOUS
  <2>2. EndingWith(t) /\ Flying' = Flying \ {t} /\ t \in Flying /\ task = << >>
    BY <1>4, <2>1, ResultEnding
  <2>3. Targets(t) # {} /\ UNCHANGED mode /\ ToSet(task) = {} /\ t \in Task /\ t.node \in Nodes
    BY <1>1, <2>2, TaskMates, TaskFields DEF EndingWith, ToSet
  <2>4. ~NoWayToMake(t)
    <3>1. Targets(t) \subseteq graph.derived /\ t.node \in Targets(t) /\ t.targets \in Seq(Nodes)
      BY <1>1, <2>2, <2>3, TaskMates, TaskFields DEF FlyInv, Readable
    <3>2. t.targets # << >>
      BY <3>1 DEF Targets, ToSet
    <3>3. t.targets[1] \in Targets(t)
      BY <3>1, <3>2 DEF Targets, ToSet
    <3>4. QED
      BY <3>1, <3>3 DEF NoWayToMake, Missing, Derived
  <2>5. PICK ok : Conclude(t, ok) /\ IF ok THEN UNCHANGED broke ELSE broke' = broke \cup Targets(t)
    BY <1>4, <2>1 DEF TakeResult
  <2>6. \/ Executed(Targets(t)) /\ UNCHANGED broke
        \/ mode = "continue" /\ FailContinue(Targets(t)) /\ broke' = broke \cup Targets(t)
    BY <1>2, <2>3, <2>4, <2>5 DEF Conclude, DoFailed
  <2>7. Going
    BY <1>2, <2>3, <2>6 DEF Going
  <2>8. QED
    BY <1>2, <2>2, <2>3, <2>6, <2>7 DEF GoesOn
<1>5. QED
  BY <1>3, <1>4

LEMMA GoingOn ==
  ASSUME Types, SafeInv, CountInv, Steady(graph), GoInv, NEW t, GoesOn(t)
  PROVE  GoInv'
<1> DEFINE ts == Targets(t)
<1>1. /\ graph \in Graphs /\ WalkTypes /\ Ordinary(graph) /\ CandInv /\ WaitInv /\ ~stopped
  BY DEF Types, JobTypes, SafeInv, GoInv
<1>2. /\ t \in Flying \cup ToSet(task) /\ EndingWith(t) /\ ts \in SUBSET Plains(graph)
      /\ ts \in SUBSET Nodes /\ EndOf(ts)
  BY DEF GoesOn, EndingWith, Plains
<1>3. CASE Executed(ts) /\ UNCHANGED broke
  <2>1. Made(ts) /\ UNCHANGED status
    BY <1>1, <1>2, <1>3, ExecutedEnd DEF EndOf, Executed
  <2>2. /\ ~stopped'
        /\ \E st \in [Nodes -> NodeStates], pend \in SUBSET Nodes : PostProcess(st, pend, ts)
    BY <1>1, <1>3, ExecutedPosts
  <2>3. QED
    BY <1>2, <1>3, <2>1, <2>2, EndGoes DEF GoesOn
<1>4. CASE mode = "continue" /\ FailContinue(ts) /\ broke' = broke \cup ts
  <2>1. PICK doomed : doomed = WillNotBuild(ts, Unfailed)
    OBVIOUS
  <2>2. PostProcess(MarkFailed(doomed), pending_children \ ParentsOf(doomed), ts) /\ UNCHANGED stopped
    BY <1>4, <2>1 DEF FailContinue
  <2>3. MarkFailed(doomed) \in [Nodes -> NodeStates] /\ pending_children \ ParentsOf(doomed) \in SUBSET Nodes
    BY <1>1, States DEF MarkFailed, WalkTypes
  <2>4. Lost(ts)
    BY <1>1, <1>2, <1>4, FailedEnd DEF FailContinue, EndOf
  <2>5. QED
    BY <1>1, <1>2, <1>4, <2>2, <2>3, <2>4, EndGoes DEF GoesOn
<1>5. QED
  BY <1>3, <1>4 DEF GoesOn

\* An undisturbed build goes on if it did.
LEMMA SteadyStep ==
  ASSUME Types, SafeInv, CountInv, SteadyInv, [Next]_vars
  PROVE  SteadyInv'
<1>1. Steady(graph) /\ ScanDone /\ (Going => GoInv) /\ (GoInv => ~stopped)
  BY DEF SteadyInv, GoInv
<1>2. ScanDone' /\ UNCHANGED graph
  BY <1>1, ScanDoneStep
<1>3. ASSUME Going' PROVE GoInv'
  <2>1. CASE LookForTask
    <3>1. Going
      BY <1>3, <2>1 DEF LookForTask, FindNextReadyNode, Going
    <3>2. QED
      BY <1>1, <2>1, <3>1, LookGoes
  <2>2. CASE PrepareFails \/ NothingToDo \/ TakeResult
    <3>1. PICK t : GoesOn(t)
      BY <1>3, <2>2, EndingGoes
    <3>2. Going
      BY <3>1 DEF GoesOn
    <3>3. QED
      BY <1>1, <3>1, <3>2, GoingOn
  <2>3. CASE NoMoreTasks \/ Dispatch \/ TakeTask \/ Execute \/ UNCHANGED vars
    <3>1. Going
      BY <1>3, <2>3, RestCalm DEF Going
    <3>2. QED
      BY <1>1, <2>3, <3>1, RestSteps, RestGoes
  <2>4. CASE Interrupt
    BY <1>3, <2>4 DEF Interrupt, Going
  <2>5. QED
    BY <2>1, <2>2, <2>3, <2>4, StepKinds
<1>4. QED
  BY <1>1, <1>2, <1>3 DEF SteadyInv

LEMMA SteadyInit ==
  ASSUME \A g \in Graphs : Steady(g)
  PROVE  Init => SteadyInv
<1> SUFFICES ASSUME Init PROVE SteadyInv
  OBVIOUS
<1>1. /\ graph \in Graphs /\ top_targets_left = graph.top /\ broke = {} /\ status = 0
      /\ state = [n \in Nodes |-> no_state] /\ waiting_parents = [n \in Nodes |-> {}]
      /\ task = << >> /\ stopped = FALSE /\ scanned = {}
  BY DEF Init, TaskmasterInit
<1>2. \A n \in Nodes : state[n] = no_state /\ waiting_parents[n] = {}
  BY <1>1
<1>3. Plains(graph) \subseteq Nodes
  BY DEF Plains
<1>4. Accounted /\ HandScan /\ Remembering
  BY <1>1, <1>2, <1>3, Kinds, States DEF Accounted, HandScan, Raised, Remembering, WaitingFor
<1>5. FailInv /\ SteadyClosed /\ WaitsForAll /\ LooksAtAll
  BY <1>1, <1>2, <1>3, Kinds, States DEF FailInv, SteadyClosed, WaitsForAll, LooksAtAll
<1>6. QED
  BY <1>1, <1>4, <1>5 DEF SteadyInv, GoInv, ScanDone

-----------------------------------------------------------------------------
(***************************************************************************)
(* What is below a node, and circles.                                      *)
(***************************************************************************)
\* Under is the least set that holds the given nodes and all that its nodes are made from.
LEMMA UnderLeast ==
  ASSUME NEW g \in Graphs, Ordinary(g), NEW ns \in SUBSET Nodes
  PROVE  /\ ns \subseteq Under(g, ns) /\ Under(g, ns) \in SUBSET Nodes
         /\ \A m \in Under(g, ns) : Deps(g, m) \subseteq Under(g, ns)
         /\ \A D \in SUBSET Nodes :
              ns \subseteq D /\ (\A m \in D : Deps(g, m) \subseteq D) => Under(g, ns) \subseteq D
<1>1. \A m \in Nodes : Deps(g, m) \in SUBSET Nodes
  BY PlainDeps DEF Plains
<1>2. QED
  BY <1>1 DEF Under

\* What is below what is below a node is below it.
LEMMA UnderUnder ==
  ASSUME NEW g \in Graphs, Ordinary(g), NEW ns \in SUBSET Nodes, NEW n \in Under(g, ns)
  PROVE  Under(g, {n}) \subseteq Under(g, ns) /\ Under(g, Deps(g, n)) \subseteq Under(g, {n})
<1>1. n \in Nodes /\ {n} \in SUBSET Nodes
  BY UnderLeast
<1>2. Deps(g, n) \in SUBSET Nodes
  BY <1>1, PlainDeps DEF Plains
<1>3. Under(g, {n}) \subseteq Under(g, ns)
  BY <1>1, UnderLeast
<1>4. Deps(g, n) \subseteq Under(g, {n})
  BY <1>1, UnderLeast
<1>5. QED
  BY <1>1, <1>2, <1>3, <1>4, UnderLeast

\* Of nodes that each are made from another one of them, some are on a circle.
LEMMA Descent ==
  ASSUME NEW g \in Graphs, Ordinary(g), NEW S \in SUBSET Nodes, S # {},
         \A n \in S : \E c \in S : c \in Deps(g, n)
  PROVE  \E n \in S : Circular(g, n)
<1> DEFINE Lower(n) == Under(g, Deps(g, n))
           T == {Lower(n) : n \in S}
<1>1. \A n \in Nodes : Deps(g, n) \in SUBSET Nodes
  BY PlainDeps DEF Plains
<1>2. \A n \in Nodes : Lower(n) \in SUBSET Nodes
  BY <1>1, UnderLeast
<1>3. T \subseteq FiniteSubsetsOf(Nodes) /\ T # {}
  BY <1>2, NodeSets DEF FiniteSubsetsOf
<1>4. \E x \in T : \A y \in T : ~(<<y, x>> \in StrictSubsetOrdering(Nodes))
  <2> HIDE DEF T
  <2>1. IsWellFoundedOn(StrictSubsetOrdering(Nodes), FiniteSubsetsOf(Nodes))
    BY FS_StrictSubsetOrderingWellFounded
  <2>2. QED
    BY <1>3, <2>1, WFMin
<1>5. PICK n \in S : \A y \in T : ~(<<y, Lower(n)>> \in StrictSubsetOrdering(Nodes))
  BY <1>4
<1>6. PICK c \in S : c \in Deps(g, n)
  OBVIOUS
<1>7. c \in Lower(n) /\ Lower(c) \subseteq Lower(n)
  <2>1. c \in Lower(n)
    BY <1>1, <1>6, UnderLeast
  <2>2. QED
    BY <1>1, <2>1, UnderUnder
<1>8. Lower(c) = Lower(n)
  BY <1>2, <1>5, <1>7 DEF StrictSubsetOrdering
<1>9. QED
  BY <1>7, <1>8 DEF Circular

\* The same sets as the properties see them.
LEMMA SteadyUnder ==
  ASSUME Types, SafeInv, Steady(graph)
  PROVE  /\ \A ns : Below(ns) = Under(graph, ns)
         /\ \A n \in Nodes : OnCycle(n) <=> Circular(graph, n)
         /\ Asked = Under(graph, ToSet(graph.top))
<1>1. \A n \in Nodes : Needs(n) = Deps(graph, n)
  BY SteadyDeps DEF Types, JobTypes, SafeInv
<1>2. \A ns : Below(ns) = Under(graph, ns)
  <2>1. ASSUME NEW D \in SUBSET Nodes
        PROVE  (\A m \in D : Needs(m) \subseteq D) <=> (\A m \in D : Deps(graph, m) \subseteq D)
    BY <1>1
  <2>2. QED
    BY <2>1 DEF Below, Under
<1>3. QED
  BY <1>1, <1>2 DEF OnCycle, Circular, Asked

-----------------------------------------------------------------------------
(***************************************************************************)
(* KeepGoing: what is left when there is nothing to look at and nothing    *)
(* at work.                                                                *)
(***************************************************************************)
AllQuiet == candidates = << >> /\ top_targets_left = << >> /\ task = << >> /\ Flying = {}

\* All that was asked for was looked at, and is settled, waits, or was given up; what waits
\* is made from something that waits, or was given up.
LEMMA AllLookedAt ==
  ASSUME Types, SafeInv, CountInv, Steady(graph), GoInv, AllQuiet
  PROVE  /\ Under(graph, ToSet(graph.top)) \subseteq Plains(graph)
         /\ \A n \in Under(graph, ToSet(graph.top)) : state[n] \in SettledStates \cup {pending, failed}
         /\ \A n \in Plains(graph) : state[n] = pending =>
              \E c \in Deps(graph, n) : state[c] \in {pending, failed}
<1>1. /\ graph \in Graphs /\ WalkTypes /\ Ordinary(graph) /\ WaitInv
      /\ FailInv /\ LooksAtAll /\ Accounted /\ Remembering /\ Plains(graph) \subseteq Nodes
      /\ ToSet(candidates) = {} /\ ToSet(top_targets_left) = {} /\ ToSet(task) = {}
      /\ task = << >> /\ Flying = {} /\ ToSet(graph.top) \subseteq Plains(graph)
  BY PlainDeps DEF Types, JobTypes, SafeInv, GoInv, AllQuiet, Plains, ToSet
<1>2. \A m \in Nodes : state[m] \in 0 .. 5 /\ state[m] # executing
  BY <1>1, States DEF Accounted, WalkTypes
<1> DEFINE D == {m \in Plains(graph) : state[m] # no_state}
<1>3. ToSet(graph.top) \subseteq D
  BY <1>1 DEF Remembering
<1>4. \A m \in D : Deps(graph, m) \subseteq D
  BY <1>1, PlainDeps DEF LooksAtAll
<1>5. Under(graph, ToSet(graph.top)) \subseteq D
  <2>1. D \in SUBSET Nodes /\ ToSet(graph.top) \in SUBSET Nodes
    BY <1>1
  <2> HIDE DEF D
  <2>2. QED
    BY <1>1, <1>3, <1>4, <2>1, UnderLeast
<1>6. \A n \in D : state[n] \in SettledStates \cup {pending, failed}
  BY <1>1, <1>2, States DEF SettledStates
<1>7. ASSUME NEW n \in Plains(graph), state[n] = pending
      PROVE  \E c \in Deps(graph, n) : state[c] \in {pending, failed}
  <2>1. PICK c \in Nodes : n \in waiting_parents[c]
    BY <1>1, <1>2, <1>7 DEF Remembering, Remembered, WaitingFor
  <2>2. c \in Deps(graph, n) /\ c \in Plains(graph) /\ state[c] \notin SettledStates
    BY <1>1, <1>7, <2>1, PlainDeps DEF WaitInv
  <2>3. state[c] # no_state
    BY <1>1, <2>1, <2>2 DEF Remembering
  <2>4. QED
    BY <1>6, <2>2, <2>3
<1>8. QED
  BY <1>5, <1>6, <1>7

\* In a graph without circles, just what has nothing broken below it is settled.
LEMMA AllMade ==
  ASSUME Types, SafeInv, CountInv, Steady(graph), GoInv, AllQuiet,
         \A n \in Asked : ~OnCycle(n), NEW n \in Asked
  PROVE  n \in Settled <=> Below({n}) \cap broke = {}
<1> DEFINE all == Under(graph, ToSet(graph.top))
           low == Under(graph, {n})
<1>1. /\ graph \in Graphs /\ Ordinary(graph) /\ FailInv /\ SteadyClosed
      /\ Plains(graph) \subseteq Nodes /\ ToSet(graph.top) \in SUBSET Nodes
  BY PlainDeps DEF Types, JobTypes, SafeInv, GoInv, Plains
<1>2. n \in all /\ Below({n}) = low /\ (\A m \in all : ~Circular(graph, m))
  <2>1. Asked = all /\ Below({n}) = low
    BY SteadyUnder
  <2>2. all \in SUBSET Nodes
    BY <1>1, UnderLeast
  <2>3. QED
    BY <2>1, <2>2, SteadyUnder
<1>3. /\ all \subseteq Plains(graph)
      /\ \A m \in all : state[m] \in SettledStates \cup {pending, failed}
      /\ \A m \in Plains(graph) : state[m] = pending =>
           \E c \in Deps(graph, m) : state[c] \in {pending, failed}
  BY AllLookedAt
<1>4. /\ low \subseteq all /\ n \in low /\ low \in SUBSET Nodes
      /\ \A m \in low : Deps(graph, m) \subseteq low
  <2>1. {n} \in SUBSET Nodes
    BY <1>1, <1>2, <1>3
  <2>2. QED
    BY <1>1, <1>2, <2>1, UnderLeast, UnderUnder
<1>5. n \in Settled <=> state[n] \in SettledStates
  BY <1>1, <1>2, <1>3 DEF Settled, SettledStates
<1>6. ASSUME state[n] \in SettledStates PROVE low \cap broke = {}
  <2> DEFINE D == {m \in Plains(graph) : state[m] \in SettledStates}
  <2>1. \A m \in D : Deps(graph, m) \subseteq D
    BY <1>1, PlainDeps DEF SteadyClosed
  <2>2. {n} \subseteq D /\ D \in SUBSET Nodes
    BY <1>1, <1>2, <1>3, <1>6
  <2>3. \A m \in D : m \notin broke
    BY <1>1, Kinds DEF FailInv
  <2> HIDE DEF D
  <2>4. low \subseteq D
    BY <1>1, <2>1, <2>2, UnderLeast
  <2>5. QED
    BY <2>3, <2>4
<1>7. ASSUME low \cap broke = {}, state[n] \notin SettledStates PROVE FALSE
  <2> DEFINE S == {m \in low : state[m] \notin SettledStates}
  <2>1. ASSUME NEW m \in S PROVE \E c \in S : c \in Deps(graph, m)
    <3>1. m \in low /\ m \in all /\ m \in Plains(graph) /\ state[m] \in {pending, failed}
      BY <1>3, <1>4
    <3>2. PICK c \in Deps(graph, m) : state[c] \in {pending, failed}
      <4>1. CASE state[m] = pending
        BY <1>3, <3>1, <4>1
      <4>2. CASE state[m] = failed
        BY <1>1, <1>7, <3>1, <4>2 DEF FailInv
      <4>3. QED
        BY <3>1, <4>1, <4>2
    <3>3. c \in S
      BY <1>4, <3>1, <3>2, Kinds
    <3>4. QED
      BY <3>2, <3>3
  <2>2. S \in SUBSET Nodes /\ S # {} /\ S \subseteq all
    BY <1>4, <1>7
  <2> HIDE DEF S
  <2>3. \E m \in S : Circular(graph, m)
    BY <1>1, <2>1, <2>2, Descent
  <2>4. QED
    BY <1>2, <2>2, <2>3
<1>8. QED
  BY <1>2, <1>5, <1>6, <1>7

\* When the build ends there is nothing to look at, and nothing at work.
LEMMA Ends ==
  ASSUME Types, SafeInv, EndInv, [Next]_vars, pc' = "end"
  PROVE  \/ UNCHANGED vars
         \/ /\ NoMoreTasks /\ Flying = {} /\ pc # "end"
            /\ outcome' = IF pending_children' = {} THEN "done" ELSE "cycle"
<1>1. JobTypes /\ IsFiniteSet(running) /\ (pc = "end" => Flying = {})
  BY DEF Types, EndInv
<1>2. CASE pc = "end"
  <2>1. ~TakeTask /\ ~Execute
    BY <1>1, <1>2, WorkFlies
  <2>2. QED
    BY <1>2, <2>1 DEF Next, Main, LookForTask, NoMoreTasks, PrepareFails, NothingToDo, Dispatch,
                      TakeResult, Interrupt, Ended
<1>3. CASE pc # "end"
  <2>1. NoMoreTasks
    BY <1>3 DEF Next, Main, LookForTask, PrepareFails, NothingToDo, Dispatch, TakeResult, TakeTask,
                Execute, RetrieveFromCache, RetrievedBuilt, Build, BuildFails, Interrupt, Ended,
                vars, jobVars
  <2>2. ~(jobs > 0) /\ outcome' = IF pending_children' = {} THEN "done" ELSE "cycle"
    BY <2>1 DEF NoMoreTasks
  <2>3. QED
    BY <1>1, <1>3, <2>1, <2>2, NoJobs
<1>4. QED
  BY <1>2, <1>3

\* The step that ends a build that goes on.
LEMMA LastStep ==
  ASSUME Types, SafeInv, SteadyInv, NoMoreTasks, Flying = {}, Going'
  PROVE  /\ Going /\ GoInv /\ AllQuiet
         /\ UNCHANGED <<graph, on_disk, state, broke, mode, interrupted, status, pending_children>>
<1>1. UNCHANGED <<mode, interrupted, broke, status>>
  BY RestCalm
<1>2. Going /\ GoInv /\ ~stopped
  BY <1>1 DEF Going, SteadyInv, GoInv
<1>3. QED
  BY <1>1, <1>2, NoMoreRests DEF AllQuiet, Undisturbed

LEMMA KeepGoingStep ==
  ASSUME Types, SafeInv, CountInv, SteadyInv, EndInv, KeepGoing, [Next]_vars
  PROVE  KeepGoing'
<1> SUFFICES ASSUME pc' = "end", mode' = "continue", ~interrupted', \A n \in Asked' : ~OnCycle(n)'
             PROVE  \A n \in Asked' : n \in Settled' <=> (Below({n}) \cap broke)' = {}
  BY DEF KeepGoing
<1>1. CASE UNCHANGED vars
  <2>1. UNCHANGED <<graph, mode, on_disk, state, pc, broke, interrupted>>
    BY <1>1 DEF vars, tmVars, jobVars, nodeVars
  <2>2. /\ Asked' = Asked /\ Settled' = Settled
        /\ \A n : OnCycle(n)' = OnCycle(n) /\ Below({n})' = Below({n})
    BY <2>1 DEF Asked, OnCycle, Below, Needs, IncludesThrough, Settled
  <2>3. \A n \in Asked : n \in Settled <=> Below({n}) \cap broke = {}
    BY <2>1, <2>2 DEF KeepGoing
  <2>4. QED
    BY <2>1, <2>2, <2>3
<1>2. CASE NoMoreTasks /\ Flying = {}
  <2>1. /\ GoInv /\ AllQuiet /\ UNCHANGED <<graph, on_disk, state, broke>>
    BY <1>2, LastStep DEF Going
  <2>2. Steady(graph)
    BY DEF SteadyInv
  <2>3. /\ Asked' = Asked /\ Settled' = Settled
        /\ \A n : OnCycle(n)' = OnCycle(n) /\ Below({n})' = Below({n})
    BY <2>1 DEF Asked, OnCycle, Below, Needs, IncludesThrough, Settled
  <2>4. \A n \in Asked : n \in Settled <=> Below({n}) \cap broke = {}
    BY <2>1, <2>2, <2>3, AllMade
  <2>5. QED
    BY <2>1, <2>3, <2>4
<1>3. QED
  BY <1>1, <1>2, Ends

-----------------------------------------------------------------------------
(***************************************************************************)
(* CycleReported: builds in which nothing breaks.                          *)
(***************************************************************************)
\* What is on top stays so when the candidate above it is taken, which has nothing left
\* to settle.
LEMMA PopOnTop ==
  ASSUME WalkTypes, HasCandidate, NEW n, OnTop(n), n # Candidate
  PROVE  /\ Passed(Candidate)
         /\ candidates' = OtherCandidates /\ (\A m \in ToSet(candidates) : Passed(m) => Passed(m)')
              => OnTop(n)'
<1>1. candidates \in Seq(Nodes)
  BY DEF WalkTypes
<1>2. PICK k \in DOMAIN candidates :
        candidates[k] = n /\ \A j \in DOMAIN candidates : j > k => Passed(candidates[j])
  BY DEF OnTop
<1>3. /\ Candidate = candidates[Len(candidates)] /\ Len(candidates) \in Nat \ {0}
      /\ DOMAIN candidates = 1 .. Len(candidates)
      /\ OtherCandidates = [i \in 1 .. (Len(candidates) - 1) |-> candidates[i]]
  BY <1>1, <1>2 DEF Candidate, OtherCandidates, Last, Front
<1>4. Len(candidates) > k /\ k \in 1 .. (Len(candidates) - 1)
  BY <1>2, <1>3
<1>5. Passed(Candidate)
  BY <1>2, <1>3, <1>4
<1>6. ASSUME candidates' = OtherCandidates, \A m \in ToSet(candidates) : Passed(m) => Passed(m)'
      PROVE  OnTop(n)'
  <2>1. /\ DOMAIN candidates' = 1 .. (Len(candidates) - 1)
        /\ \A i \in DOMAIN candidates' : candidates'[i] = candidates[i] /\ i \in DOMAIN candidates
    BY <1>3, <1>6
  <2>2. \A j \in DOMAIN candidates' : j > k => Passed(candidates[j])'
    BY <1>2, <1>6, <2>1 DEF ToSet
  <2>3. k \in DOMAIN candidates' /\ candidates'[k] = n
    BY <1>2, <1>4, <2>1
  <2>4. QED
    BY <2>2, <2>3 DEF OnTop
<1>7. QED
  BY <1>5, <1>6

\* What has nothing left to settle stays so.
LEMMA PassedStays ==
  ASSUME graph \in Graphs, Ordinary(graph), UNCHANGED graph,
         \A m \in Plains(graph) : /\ state[m] \in SettledStates => state'[m] \in SettledStates
                                  /\ state[m] \notin IdleStates => state'[m] \notin IdleStates
  PROVE  \A m \in Plains(graph) : Passed(m) => Passed(m)'
<1>1. \A m \in Plains(graph) : Deps(graph, m) \subseteq Plains(graph)
  BY PlainDeps DEF Plains
<1>2. QED
  BY <1>1 DEF Passed, Cleared

\* What is made from nodes that are settled is on no circle with them.
LEMMA NotCircular ==
  ASSUME graph \in Graphs, Ordinary(graph), SteadyClosed, NEW n \in Plains(graph),
         Cleared(n), state[n] \notin SettledStates
  PROVE  ~Circular(graph, n)
<1> DEFINE D == {m \in Plains(graph) : state[m] \in SettledStates}
<1>1. Deps(graph, n) \subseteq D /\ D \in SUBSET Nodes /\ n \notin D
  BY PlainDeps DEF Cleared, Plains
<1>2. \A m \in D : Deps(graph, m) \subseteq D
  BY PlainDeps DEF SteadyClosed, Plains
<1>3. Deps(graph, n) \in SUBSET Nodes
  BY <1>1
<1> HIDE DEF D
<1>4. Under(graph, Deps(graph, n)) \subseteq D
  BY <1>1, <1>2, <1>3, UnderLeast
<1>5. QED
  BY <1>1, <1>4 DEF Circular

\* What was asked for stays so; so are the nodes that a candidate is made from.
LEMMA AskedStays ==
  ASSUME graph \in Graphs, Ordinary(graph), WalkTypes, CandInv, PendingAsked, UNCHANGED graph,
         HasCandidate, PopCandidate, NEW k, k = Candidate, state[k] \in IdleStates,
         ToSet(candidates') \subseteq ToSet(OtherCandidates) \cup Deps(graph, k),
         \A m \in Plains(graph) \ {k} : state'[m] \in IdleStates => state'[m] = state[m]
  PROVE  PendingAsked'
<1> DEFINE all == Under(graph, ToSet(graph.top))
<1>1. /\ k \in Plains(graph) /\ k \in ToSet(candidates) \cup ToSet(top_targets_left)
      /\ ToSet(OtherCandidates) \subseteq ToSet(candidates)
      /\ ToSet(top_targets_left') \subseteq ToSet(top_targets_left)
  BY CandidateLeft, PlainCandidate
<1>2. k \in all
  BY <1>1 DEF PendingAsked, IdleStates
<1>3. Deps(graph, k) \subseteq all
  <2>1. ToSet(graph.top) \in SUBSET Nodes
    BY PlainDeps DEF Plains
  <2>2. QED
    BY <1>2, <2>1, UnderLeast
<1>4. ASSUME NEW n \in Plains(graph),
             \/ state'[n] = pending
             \/ state'[n] = no_state /\ n \in ToSet(candidates') \cup ToSet(top_targets_left')
      PROVE  n \in all
  <2>1. CASE n = k \/ n \in Deps(graph, k)
    BY <1>2, <1>3, <2>1
  <2>2. CASE n # k /\ n \notin Deps(graph, k)
    <3>1. state'[n] = state[n]
      BY <1>4, <2>2 DEF IdleStates
    <3>2. n \in ToSet(candidates') => n \in ToSet(candidates)
      BY <1>1, <2>2
    <3>3. QED
      BY <1>1, <1>4, <3>1, <3>2 DEF PendingAsked
  <2>3. QED
    BY <2>1, <2>2
<1>5. QED
  BY <1>4 DEF PendingAsked

\* A candidate was looked at already.
LEMMA HandledRounds ==
  ASSUME Types, SafeInv, Rounds, LookForTask, AlreadyHandled
  PROVE  Rounds'
<1>1. /\ graph \in Graphs /\ Ordinary(graph) /\ WalkTypes /\ CandInv /\ Plains(graph) \subseteq Nodes
      /\ ReadyOnTop /\ NoneLeftPending /\ HeldInv /\ PendingAsked /\ Apart
  BY DEF Types, JobTypes, SafeInv, Rounds, Plains
<1>2. /\ HasCandidate /\ PopCandidate /\ candidates' = OtherCandidates /\ state[Candidate] > pending
      /\ UNCHANGED <<graph, state, waiting_parents, waiting_s_e, pending_children>>
  BY DEF LookForTask, FindNextReadyNode, AlreadyHandled, nodeVars
<1>3. \A n : (Ready(n)' <=> Ready(n)) /\ (Passed(n)' <=> Passed(n))
  BY <1>2 DEF Ready, HeldUp, WaitingFor, Passed, Cleared
<1>4. ReadyOnTop'
  <2>1. ASSUME NEW n \in Plains(graph), Ready(n)' PROVE OnTop(n)'
    <3>1. OnTop(n) /\ n # Candidate
      BY <1>1, <1>2, <1>3, <2>1, States DEF ReadyOnTop, Ready
    <3>2. QED
      BY <1>1, <1>2, <1>3, <3>1, PopOnTop
  <2>2. QED
    BY <1>2, <2>1 DEF ReadyOnTop
<1>5. NoneLeftPending' /\ HeldInv' /\ Apart'
  BY <1>1, <1>2, <1>3 DEF NoneLeftPending, HeldInv, Apart
<1>6. PendingAsked'
  <2>1. /\ ToSet(OtherCandidates) \subseteq ToSet(candidates)
        /\ ToSet(top_targets_left') \subseteq ToSet(top_targets_left)
    BY <1>1, <1>2, CandidateLeft
  <2>2. QED
    BY <1>1, <1>2, <2>1 DEF PendingAsked
<1>7. QED
  BY <1>4, <1>5, <1>6 DEF Rounds

\* The candidate waits for its children: so none that is ready was below it.
LEMMA WaitRounds ==
  ASSUME Types, SafeInv, Steady(graph), ScanDone, GoInv, broke = {}, Rounds,
         LookForTask, WaitForChildren
  PROVE  Rounds'
<1>1. PICK k : k = Candidate
  OBVIOUS
<1>2. /\ graph \in Graphs /\ Ordinary(graph) /\ WalkTypes /\ KnowInv /\ CandInv /\ GroupInv
      /\ Plains(graph) \subseteq Nodes /\ FailInv
      /\ ReadyOnTop /\ NoneLeftPending /\ HeldInv /\ PendingAsked /\ Apart
  BY DEF Types, JobTypes, SafeInv, GoInv, Rounds, Plains
<1>3. /\ Considered /\ HasCandidate /\ PopCandidate /\ UNCHANGED <<graph, waiting_s_e>>
  BY DEF LookForTask, FindNextReadyNode, WaitForChildren, Considered
<1>4. /\ k \in Nodes /\ k \in Plains(graph) /\ state[k] \in IdleStates
      /\ \A m \in Nodes : Marked[m] = IF m = k THEN pending ELSE state[m]
      /\ Children(k) = Deps(graph, k) /\ Deps(graph, k) \subseteq Plains(graph)
  BY <1>1, <1>2, <1>3, CandidateState, SteadyDeps, PlainDeps DEF IdleStates
<1> DEFINE not_ready == {c \in Children(k) : Marked[c] <= executing}
<1>5. /\ not_ready # {} /\ state' = Marked
      /\ waiting_parents' = [c \in Nodes |->
           IF c \in not_ready THEN waiting_parents[c] \cup {k} ELSE waiting_parents[c]]
      /\ pending_children' = pending_children \cup {c \in Children(k) : Marked[c] = pending}
  <2>1. \A c \in Children(k) : state[c] # failed
    BY <1>2, <1>4 DEF FailInv
  <2>2. QED
    BY <1>1, <2>1 DEF WaitForChildren
<1>6. ~Passed(k)
  <2>1. PICK c \in Deps(graph, k) : Marked[c] <= executing
    BY <1>4, <1>5
  <2>2. state[c] \notin SettledStates
    BY <1>2, <1>4, <2>1, States DEF SettledStates, IdleStates
  <2>3. QED
    BY <1>4, <2>2 DEF Passed, Cleared
<1>7. /\ \A m \in Nodes : state'[m] = IF m = k THEN pending ELSE state[m]
      /\ \A n \in Nodes : WaitingFor(n) \subseteq WaitingFor(n)'
      /\ WaitingFor(k)' # {}
  <2>1. not_ready \subseteq Nodes
    BY <1>2, <1>4
  <2> HIDE DEF not_ready
  <2>2. QED
    BY <1>4, <1>5, <2>1 DEF WaitingFor
<1> HIDE DEF not_ready
<1>8. \A n \in Nodes : HeldUp(n)' <=> HeldUp(n)
  BY <1>3, <1>4, <1>7 DEF HeldUp
<1>9. ASSUME NEW n \in Plains(graph), n # k, Ready(n) PROVE FALSE
  BY <1>1, <1>2, <1>3, <1>6, <1>9, PopOnTop DEF ReadyOnTop
<1>10. \A n \in Plains(graph) : ~Ready(n)'
  <2>1. ASSUME NEW n \in Plains(graph), Ready(n)' PROVE Ready(n) /\ n # k
    BY <1>2, <1>7, <1>8, <2>1 DEF Ready
  <2>2. QED
    BY <1>9, <2>1
<1>11. ReadyOnTop' /\ HeldInv' /\ Apart'
  <2>1. ReadyOnTop'
    BY <1>3, <1>10 DEF ReadyOnTop
  <2>2. HeldInv'
    BY <1>2, <1>3, <1>7, States DEF HeldInv, CandInv
  <2>3. Apart'
    BY <1>2, <1>3, <1>7, Kinds DEF Apart
  <2>4. QED
    BY <2>1, <2>2, <2>3
<1>12. NoneLeftPending'
  <2>1. ASSUME NEW c \in pending_children' PROVE c \in Plains(graph) /\ state'[c] = pending
    <3>1. CASE c \in pending_children
      BY <1>2, <1>7, <3>1 DEF NoneLeftPending
    <3>2. CASE c \in Children(k) /\ Marked[c] = pending
      BY <1>2, <1>4, <1>5, <3>2
    <3>3. QED
      BY <1>5, <2>1, <3>1, <3>2
  <2>2. QED
    BY <1>3, <1>10, <2>1 DEF NoneLeftPending
<1>13. PendingAsked'
  <2>1. ToSet(candidates') \subseteq ToSet(OtherCandidates) \cup Deps(graph, k)
    BY <1>1, <1>2, <1>4, WaitingCandidates
  <2>2. QED
    BY <1>1, <1>2, <1>3, <1>4, <1>7, <2>1, AskedStays
<1>14. QED
  BY <1>11, <1>12, <1>13 DEF Rounds

\* What was ready, and is not the candidate, stays on top when the candidate is taken.
LEMMA TopStays ==
  ASSUME graph \in Graphs, Ordinary(graph), WalkTypes, CandInv, HasCandidate, ReadyOnTop,
         UNCHANGED graph, candidates' = OtherCandidates,
         \A n \in Plains(graph) : Ready(n)' => Ready(n) /\ n # Candidate,
         \A m \in Plains(graph) : /\ state[m] \in SettledStates => state'[m] \in SettledStates
                                  /\ state[m] \notin IdleStates => state'[m] \notin IdleStates
  PROVE  ReadyOnTop'
<1>1. \A m \in ToSet(candidates) : Passed(m) => Passed(m)'
  BY PassedStays DEF CandInv
<1>2. ASSUME NEW n \in Plains(graph), Ready(n)' PROVE OnTop(n)'
  <2>1. OnTop(n) /\ n # Candidate
    BY <1>2 DEF ReadyOnTop
  <2>2. QED
    BY <1>1, <2>1, PopOnTop
<1>3. QED
  BY <1>2 DEF ReadyOnTop

\* The candidate waits for a side effect.
LEMMA PutOffRounds ==
  ASSUME Types, SafeInv, Rounds, LookForTask, WaitForSideEffect
  PROVE  Rounds'
<1>1. PICK k : k = Candidate
  OBVIOUS
<1>2. /\ graph \in Graphs /\ Ordinary(graph) /\ WalkTypes /\ KnowInv /\ CandInv /\ GroupInv
      /\ Plains(graph) \subseteq Nodes
      /\ ReadyOnTop /\ NoneLeftPending /\ HeldInv /\ PendingAsked /\ Apart
  BY DEF Types, JobTypes, SafeInv, Rounds, Plains
<1> DEFINE busy == BusySideEffects(k)
<1>3. /\ Considered /\ HasCandidate /\ PopCandidate /\ candidates' = OtherCandidates
      /\ UNCHANGED <<graph, waiting_parents, pending_children>>
      /\ state' = Marked /\ busy # {}
      /\ waiting_s_e' = [s \in Nodes |-> IF s \in busy THEN waiting_s_e[s] \cup {k} ELSE waiting_s_e[s]]
  BY <1>1 DEF LookForTask, FindNextReadyNode, WaitForSideEffect, ChildrenFinished, Considered
<1>4. /\ k \in Nodes /\ k \in Plains(graph) /\ state[k] \in IdleStates
      /\ \A m \in Nodes : state'[m] = IF m = k THEN pending ELSE state[m]
  BY <1>1, <1>2, <1>3, CandidateState DEF IdleStates
<1>5. /\ busy \subseteq graph.side_effects[k] /\ busy \subseteq Nodes \ Plains(graph)
      /\ \A s \in busy : state'[s] = executing
  <2>1. /\ graph.side_effects[k] = SideOf(graph, {k})
        /\ SideOf(graph, {k}) \subseteq Nodes \ Plains(graph)
    BY <1>2, <1>4, PlainDeps DEF SideOf
  <2>2. QED
    BY <1>3, <2>1 DEF BusySideEffects
<1> HIDE DEF busy
<1>6. /\ HeldUp(k)'
      /\ \A n \in Nodes \ {k} : HeldUp(n)' <=> HeldUp(n)
  <2>1. HeldUp(k)'
    BY <1>3, <1>5 DEF HeldUp
  <2>2. ASSUME NEW n \in Nodes \ {k} PROVE HeldUp(n)' <=> HeldUp(n)
    BY <1>3, <1>4 DEF HeldUp
  <2>3. QED
    BY <2>1, <2>2
<1>7. \A n \in Plains(graph) : Ready(n)' => Ready(n) /\ n # k
  BY <1>2, <1>3, <1>4, <1>6 DEF Ready, WaitingFor
<1>8. ReadyOnTop'
  <2>1. \A m \in Plains(graph) : /\ state[m] \in SettledStates => state'[m] \in SettledStates
                                 /\ state[m] \notin IdleStates => state'[m] \notin IdleStates
    BY <1>2, <1>4, Kinds DEF IdleStates
  <2>2. QED
    BY <1>1, <1>2, <1>3, <1>7, <2>1, TopStays
<1>9. NoneLeftPending'
  BY <1>2, <1>3, <1>4, <1>7 DEF NoneLeftPending
<1>10. HeldInv'
  BY <1>2, <1>3, <1>4, <1>5, States DEF HeldInv, CandInv
<1>11. Apart'
  BY <1>2, <1>3, <1>4, Kinds DEF Apart
<1>12. PendingAsked'
  BY <1>1, <1>2, <1>3, <1>4, AskedStays
<1>13. QED
  BY <1>8, <1>9, <1>10, <1>11, <1>12 DEF Rounds

\* The candidate is evaluated, which waited for nothing.
LEMMA EvaluateRounds ==
  ASSUME Types, SafeInv, Steady(graph), ScanDone, GoInv, Rounds, LookForTask, Evaluate
  PROVE  Rounds'
<1>1. PICK k : k = Candidate
  OBVIOUS
<1>2. PICK ts : ts = ToSet(graph.targets[k]) /\ EvaluatedTo(k, ts)
  BY <1>1, Evaluated
<1>3. /\ graph \in Graphs /\ Ordinary(graph) /\ WalkTypes /\ KnowInv /\ CandInv /\ WaitInv
      /\ Plains(graph) \subseteq Nodes /\ SteadyClosed
      /\ ReadyOnTop /\ NoneLeftPending /\ HeldInv /\ PendingAsked /\ Apart
  BY DEF Types, JobTypes, SafeInv, GoInv, Rounds, Plains
<1>4. /\ HasCandidate /\ PopCandidate /\ candidates' = OtherCandidates /\ task = << >>
      /\ UNCHANGED <<graph, waiting_parents, waiting_s_e, pending_children>>
      /\ k \in Nodes /\ k \in Plains(graph) /\ state[k] \in IdleStates
      /\ k \in ts /\ ts \in SUBSET Plains(graph)
      /\ \A c \in Children(k) : c \in Plains(graph) /\ state[c] \in SettledStates
      /\ \A m \in ts : state[m] \in IdleStates /\ state'[m] \notin IdleStates
      /\ \A m \in Plains(graph) \ ts : state'[m] = state[m]
      /\ \A s \in Nodes \ Plains(graph) : state[s] = executing => state'[s] = executing
  BY <1>2 DEF EvaluatedTo, IdleStates
<1>5. /\ Children(k) = Deps(graph, k)
      /\ \A m \in ts : Deps(graph, m) = Deps(graph, k) /\ graph.side_effects[m] = graph.side_effects[k]
  BY <1>2, <1>3, <1>4, SteadyDeps, Mates DEF Ordinary
<1>6. \A n \in Nodes : (WaitingFor(n)' = WaitingFor(n)) /\ (HeldUp(n) => HeldUp(n)')
  BY <1>4 DEF HeldUp, WaitingFor
<1>7. \A m \in Plains(graph) : /\ state[m] \in SettledStates => state'[m] \in SettledStates
                               /\ state[m] \notin IdleStates => state'[m] \notin IdleStates
                               /\ state'[m] \in IdleStates => m \notin ts /\ state'[m] = state[m]
  BY <1>4, Kinds DEF IdleStates
<1>8. \A n \in Plains(graph) : Ready(n)' => Ready(n) /\ n # k
  BY <1>3, <1>4, <1>6, <1>7 DEF Ready, IdleStates
<1>9. ReadyOnTop'
  BY <1>1, <1>3, <1>4, <1>7, <1>8, TopStays
<1>10. \A c \in pending_children : c \notin ts
  <2>1. ASSUME NEW c \in pending_children, c \in ts PROVE FALSE
    <3>1. c \in Nodes /\ (WaitingFor(c) # {} \/ HeldUp(c))
      BY <1>3, <2>1 DEF NoneLeftPending, Ready
    <3>2. CASE WaitingFor(c) # {}
      <4>1. PICK d \in Nodes : c \in waiting_parents[d]
        BY <3>2 DEF WaitingFor
      <4>2. d \in Deps(graph, k)
        BY <1>3, <1>5, <2>1, <4>1 DEF WaitInv
      <4>3. QED
        BY <1>3, <1>4, <1>5, <4>1, <4>2 DEF WaitInv
    <3>3. CASE HeldUp(c)
      <4>1. PICK s \in Nodes \ Plains(graph) : c \in waiting_s_e[s] /\ state[s] = executing
        BY <3>3 DEF HeldUp
      <4>2. s \in graph.side_effects[k] /\ Marked[s] = executing
        BY <1>1, <1>3, <1>4, <1>5, <2>1, <4>1 DEF HeldInv, Marked, WalkTypes
      <4>3. BusySideEffects(k) = {}
        BY <1>1 DEF Evaluate
      <4>4. QED
        BY <4>2, <4>3 DEF BusySideEffects
    <3>4. QED
      BY <3>1, <3>2, <3>3
  <2>2. QED
    BY <2>1
<1>11. NoneLeftPending'
  BY <1>3, <1>4, <1>8, <1>10 DEF NoneLeftPending
<1>12. HeldInv'
  BY <1>3, <1>4, <1>7 DEF HeldInv, CandInv, IdleStates
<1>13. PendingAsked'
  BY <1>1, <1>3, <1>4, <1>7, AskedStays
<1>14. Apart'
  <2>1. ASSUME NEW n \in Plains(graph), state'[n] \in SettledStates PROVE ~Circular(graph, n)
    <3>1. CASE n \in ts
      <4>1. Cleared(n) /\ state[n] \notin SettledStates
        BY <1>4, <1>5, <3>1, Kinds DEF Cleared, IdleStates
      <4>2. QED
        BY <1>3, <2>1, <4>1, NotCircular
    <3>2. CASE n \notin ts
      BY <1>3, <1>4, <2>1, <3>2 DEF Apart
    <3>3. QED
      BY <3>1, <3>2
  <2>2. QED
    BY <1>4, <2>1 DEF Apart
<1>15. QED
  BY <1>9, <1>11, <1>12, <1>13, <1>14 DEF Rounds

\* What is queued, having nothing left to settle, is on top, and leaves what was there on top.
LEMMA QueueOnTop ==
  ASSUME WalkTypes, NEW q \in Seq(Nodes), candidates' = candidates \o q,
         \A m \in ToSet(q) : Passed(m)', \A m \in ToSet(candidates) : Passed(m) => Passed(m)',
         NEW n, OnTop(n) \/ n \in ToSet(q)
  PROVE  OnTop(n)'
<1> DEFINE len == Len(candidates)
<1>1. /\ len \in Nat /\ Len(q) \in Nat /\ DOMAIN candidates = 1 .. len /\ DOMAIN q = 1 .. Len(q)
      /\ candidates' \in Seq(Nodes) /\ Len(candidates') = len + Len(q)
      /\ \A i \in 1 .. len : candidates'[i] = candidates[i]
      /\ \A i \in 1 .. Len(q) : candidates'[len + i] = q[i]
  <2>1. candidates \in Seq(Nodes)
    BY DEF WalkTypes
  <2>2. /\ candidates \o q \in Seq(Nodes) /\ Len(candidates \o q) = len + Len(q)
        /\ \A i \in 1 .. len : (candidates \o q)[i] = candidates[i]
        /\ \A i \in 1 .. Len(q) : (candidates \o q)[len + i] = q[i]
    BY ONLY <2>1, q \in Seq(Nodes), ConcatPlaces
  <2>3. QED
    BY <2>1, <2>2
<1>2. DOMAIN candidates' = 1 .. (len + Len(q))
  BY <1>1
<1> HIDE DEF len
<1>3. ASSUME NEW j \in DOMAIN candidates', j > len PROVE Passed(candidates[j])'
  <2>1. j - len \in 1 .. Len(q) /\ candidates'[j] = q[j - len]
    <3>1. j - len \in 1 .. Len(q) /\ len + (j - len) = j
      BY <1>1, <1>2, <1>3
    <3>2. QED
      BY <1>1, <3>1
  <2>2. candidates'[j] \in ToSet(q)
    BY <1>1, <2>1 DEF ToSet
  <2>3. QED
    BY <2>2
<1>4. CASE OnTop(n)
  <2>1. PICK k \in DOMAIN candidates :
          candidates[k] = n /\ \A j \in DOMAIN candidates : j > k => Passed(candidates[j])
    BY <1>4 DEF OnTop
  <2>2. k \in DOMAIN candidates' /\ candidates'[k] = n
    BY <1>1, <1>2, <2>1
  <2>3. ASSUME NEW j \in DOMAIN candidates', j > k PROVE Passed(candidates[j])'
    <3>1. CASE j \in 1 .. len
      BY <1>1, <2>1, <2>3, <3>1 DEF ToSet
    <3>2. CASE j \notin 1 .. len
      <4>1. j \in 1 .. (len + Len(q)) /\ len \in Nat /\ Len(q) \in Nat
        BY <1>1, <1>2
      <4>2. j > len
        BY <3>2, <4>1
      <4>3. QED
        BY <1>3, <4>2
    <3>3. QED
      BY <3>1, <3>2
  <2>4. QED
    BY <2>2, <2>3 DEF OnTop
<1>5. CASE n \in ToSet(q)
  <2>1. PICK i \in 1 .. Len(q) : q[i] = n
    BY <1>1, <1>5 DEF ToSet
  <2>2. len + i \in DOMAIN candidates' /\ candidates'[len + i] = n /\ len + i > len
    BY <1>1, <1>2, <2>1
  <2>3. \A j \in DOMAIN candidates' : j > len + i => j > len
    BY <1>1, <1>2, <2>1
  <2>4. QED
    BY <1>3, <2>2, <2>3 DEF OnTop
<1>6. QED
  BY <1>4, <1>5

\* A task ends that went well: what was waiting for it, and for nothing else, is queued.
LEMMA EndRounds ==
  ASSUME Types, SafeInv, CountInv, Steady(graph), GoInv, GoInv', Rounds, broke = {}, broke' = {},
         NEW t, GoesOn(t)
  PROVE  Rounds'
<1>1. PICK ts : ts = Targets(t)
  OBVIOUS
<1>2. /\ graph \in Graphs /\ Ordinary(graph) /\ WalkTypes /\ CandInv /\ WaitInv /\ ~stopped
      /\ Plains(graph) \subseteq Nodes /\ SteadyClosed /\ Remembering /\ ~stopped'
      /\ WaitsForAll' /\ FailInv'
      /\ ReadyOnTop /\ NoneLeftPending /\ HeldInv /\ PendingAsked /\ Apart
  BY DEF Types, JobTypes, SafeInv, GoInv, Rounds, Plains
<1>3. /\ t \in Flying \cup ToSet(task) /\ EndOf(ts) /\ ts \in SUBSET Plains(graph)
      /\ ts \in SUBSET Nodes /\ UNCHANGED <<graph, waiting_s_e, top_targets_left>>
  BY <1>1, <1>2 DEF GoesOn, EndingWith, EndOf
<1>4. /\ ts # {}
      /\ \A n \in ts : /\ state[n] \in {executing, up_to_date}
                       /\ \A c \in Deps(graph, n) : state[c] \in SettledStates
  BY <1>1, <1>2, <1>3, SteadyTask
<1>5. Executed(ts)
  BY <1>1, <1>4 DEF GoesOn
<1>6. Made(ts)
  BY <1>2, <1>3, <1>5, ExecutedEnd DEF EndOf
<1>7. /\ \A m \in ts : state'[m] \in SettledStates /\ state'[m] \notin IdleStates
      /\ \A m \in Plains(graph) \ ts : state'[m] = state[m]
  BY <1>4, <1>6, Kinds, States DEF Made, IdleStates
<1>8. PICK q \in Seq(Nodes) : Queued(q, pending_children, ts)
  <2>1. /\ ExecutedStates(ts) \in [Nodes -> NodeStates] /\ pending_children \in SUBSET Nodes
        /\ PostProcess(ExecutedStates(ts), pending_children, ts)
    BY <1>5, ExecutedPosts
  <2>2. QED
    BY <1>2, <1>3, <2>1, PostQueues
<1>9. /\ candidates' = candidates \o q /\ pending_children' = pending_children \ ToSet(q)
      /\ \A p \in ToSet(q) : /\ p \in Plains(graph) /\ WaitingFor(p)' = {}
                             /\ WaitingFor(p) # {} \/ \E s \in Nodes : p \in waiting_s_e[s]
      /\ \A p \in Nodes : WaitingFor(p) # {} /\ WaitingFor(p)' = {} => p \in ToSet(q)
      /\ \A s \in SideOf(graph, ts) : \A p \in waiting_s_e[s] : WaitingFor(p) = {} => p \in ToSet(q)
  BY <1>8 DEF Queued
<1>10. ASSUME NEW n \in Plains(graph), Ready(n)', n \notin ToSet(q) PROVE Ready(n) /\ n \notin ts
  <2>1. n \in Nodes /\ n \notin ts /\ state[n] = pending
    BY <1>2, <1>7, <1>10 DEF Ready, IdleStates
  <2>2. WaitingFor(n) = {}
    BY <1>9, <1>10, <2>1 DEF Ready
  <2>3. ASSUME HeldUp(n) PROVE FALSE
    <3>1. PICK s \in Nodes \ Plains(graph) : n \in waiting_s_e[s] /\ state[s] = executing
      BY <2>3 DEF HeldUp
    <3>2. state'[s] = state[s] \/ s \in SideOf(graph, ts)
      BY <1>2, <1>3 DEF EndOf
    <3>3. state'[s] # executing
      BY <1>3, <1>10, <3>1 DEF Ready, HeldUp
    <3>4. QED
      BY <1>9, <1>10, <2>2, <3>1, <3>2, <3>3
  <2>4. QED
    BY <2>1, <2>2, <2>3 DEF Ready
<1>11. ASSUME NEW p \in ToSet(q) PROVE p \in Plains(graph) /\ state'[p] # no_state /\ Passed(p)'
  <2>1. p \in Plains(graph) /\ WaitingFor(p)' = {}
    BY <1>9
  <2>2. state[p] # no_state
    BY <1>2, <1>9, <2>1 DEF Remembering, HeldInv
  <2>3. state'[p] # no_state
    BY <1>7, <2>1, <2>2 DEF IdleStates
  <2>4. ASSUME state'[p] = pending, NEW c \in Deps(graph, p) PROVE state'[c] \in SettledStates
    <3>1. c \in Plains(graph) /\ c \in Nodes
      BY <1>2, <2>1, PlainDeps
    <3>2. p \notin waiting_parents'[c]
      BY <2>1, <3>1 DEF WaitingFor
    <3>3. state'[c] # failed
      BY <1>2, <1>3, <3>1 DEF FailInv
    <3>4. QED
      BY <1>2, <1>3, <2>1, <2>4, <3>2, <3>3 DEF WaitsForAll
  <2>5. QED
    BY <1>3, <2>1, <2>3, <2>4 DEF Passed, Cleared, IdleStates
<1>12. ReadyOnTop'
  <2>1. \A m \in ToSet(candidates) : Passed(m) => Passed(m)'
    <3>1. \A m \in Plains(graph) : /\ state[m] \in SettledStates => state'[m] \in SettledStates
                                   /\ state[m] \notin IdleStates => state'[m] \notin IdleStates
      BY <1>7
    <3>2. QED
      BY <1>2, <1>3, <3>1, PassedStays DEF CandInv
  <2>2. ASSUME NEW n \in Plains(graph), Ready(n)' PROVE OnTop(n)'
    <3>1. OnTop(n) \/ n \in ToSet(q)
      BY <1>2, <1>10, <2>2 DEF ReadyOnTop
    <3>2. QED
      BY <1>2, <1>9, <1>11, <2>1, <3>1, QueueOnTop
  <2>3. QED
    BY <1>3, <2>2 DEF ReadyOnTop
<1>13. NoneLeftPending'
  <2>1. ASSUME NEW c \in pending_children'
        PROVE  c \in Plains(graph) /\ state'[c] = pending /\ ~Ready(c)'
    <3>1. c \in pending_children /\ c \notin ToSet(q)
      BY <1>9
    <3>2. c \in Plains(graph) /\ state[c] = pending /\ ~Ready(c)
      BY <1>2, <3>1 DEF NoneLeftPending
    <3>3. c \notin ts
      BY <1>4, <3>2, States
    <3>4. QED
      BY <1>7, <1>10, <3>1, <3>2, <3>3
  <2>2. QED
    BY <1>3, <2>1 DEF NoneLeftPending
<1>14. HeldInv'
  <2>1. ASSUME NEW s \in Nodes, NEW n \in waiting_s_e[s]
        PROVE  state'[n] # no_state /\ s \in graph.side_effects[n]
    <3>1. n \in Plains(graph) /\ state[n] # no_state /\ s \in graph.side_effects[n]
      BY <1>2 DEF CandInv, HeldInv
    <3>2. QED
      BY <1>7, <3>1 DEF IdleStates
  <2>2. QED
    BY <1>3, <2>1 DEF HeldInv
<1>15. PendingAsked'
  <2>1. ToSet(candidates') = ToSet(candidates) \cup ToSet(q)
    BY <1>2, <1>9, ConcatElements DEF WalkTypes
  <2>2. ASSUME NEW n \in Plains(graph),
               \/ state'[n] = pending
               \/ state'[n] = no_state /\ n \in ToSet(candidates') \cup ToSet(top_targets_left)
        PROVE  n \in Under(graph, ToSet(graph.top))
    <3>1. n \notin ts /\ state'[n] = state[n]
      BY <1>7, <2>2 DEF IdleStates
    <3>2. state'[n] = no_state => n \notin ToSet(q)
      BY <1>11
    <3>3. QED
      BY <1>2, <2>1, <2>2, <3>1, <3>2 DEF PendingAsked
  <2>3. QED
    BY <1>3, <2>2 DEF PendingAsked
<1>16. Apart'
  <2>1. ASSUME NEW n \in Plains(graph), state'[n] \in SettledStates PROVE ~Circular(graph, n)
    <3>1. CASE state[n] \in SettledStates
      BY <1>2, <3>1 DEF Apart
    <3>2. CASE state[n] \notin SettledStates
      <4>1. n \in ts
        BY <1>7, <2>1, <3>2
      <4>2. Cleared(n)
        BY <1>4, <4>1 DEF Cleared
      <4>3. QED
        BY <1>2, <3>2, <4>2, NotCircular
    <3>3. QED
      BY <3>1, <3>2
  <2>2. QED
    BY <1>3, <2>1 DEF Apart
<1>17. QED
  BY <1>12, <1>13, <1>14, <1>15, <1>16 DEF Rounds

\* While nothing breaks, each step leaves what is ready on top of the candidates.
LEMMA RoundStep ==
  ASSUME Types, SafeInv, CountInv, SteadyInv, SteadyInv', RoundInv, [Next]_vars
  PROVE  RoundInv'
<1> SUFFICES ASSUME Going', broke' = {} PROVE Rounds'
  BY DEF RoundInv
<1>1. /\ Steady(graph) /\ ScanDone /\ (Going => GoInv) /\ (GoInv => ~stopped) /\ GoInv'
      /\ graph.unscannable = {}
  BY DEF SteadyInv, GoInv, Steady
<1>2. CASE LookForTask
  <2>1. Going /\ broke = {}
    BY <1>2 DEF LookForTask, FindNextReadyNode, Going
  <2>2. GoInv /\ Rounds /\ ~ScanRaises
    BY <1>1, <2>1 DEF RoundInv, ScanRaises, ScanFails
  <2>3. AlreadyHandled \/ WaitForChildren \/ WaitForSideEffect \/ Evaluate
    BY <1>2, <2>2 DEF LookForTask, FindNextReadyNode
  <2>4. QED
    BY <1>1, <1>2, <2>1, <2>2, <2>3, HandledRounds, WaitRounds, PutOffRounds, EvaluateRounds
<1>3. CASE PrepareFails \/ NothingToDo \/ TakeResult
  <2>1. PICK t : GoesOn(t)
    BY <1>3, EndingGoes
  <2>2. Going /\ broke = {}
    BY <2>1 DEF GoesOn
  <2>3. QED
    BY <1>1, <2>1, <2>2, EndRounds DEF RoundInv
<1>4. CASE NoMoreTasks \/ Dispatch \/ TakeTask \/ Execute \/ UNCHANGED vars
  <2>1. Going /\ broke = {}
    BY <1>4, RestCalm DEF Going
  <2>2. Undisturbed /\ Rounds
    BY <1>1, <1>4, <2>1, RestSteps DEF RoundInv
  <2>3. UNCHANGED <<graph, state, waiting_parents, waiting_s_e, candidates, top_targets_left,
                    pending_children>>
    BY <2>2 DEF Undisturbed
  <2>4. \A n : (Ready(n)' <=> Ready(n)) /\ (Passed(n)' <=> Passed(n))
    BY <2>3 DEF Ready, HeldUp, WaitingFor, Passed, Cleared
  <2>5. \A n : OnTop(n)' <=> OnTop(n)
    BY <2>3, <2>4 DEF OnTop, Passed, Cleared
  <2>6. QED
    BY <2>2, <2>3, <2>4, <2>5
    DEF Rounds, ReadyOnTop, NoneLeftPending, HeldInv, PendingAsked, Apart
<1>5. CASE Interrupt
  BY <1>5 DEF Interrupt, Going
<1>6. QED
  BY <1>2, <1>3, <1>4, <1>5, StepKinds

LEMMA RoundInit ==
  ASSUME \A g \in Graphs : Steady(g)
  PROVE  Init => RoundInv
<1> SUFFICES ASSUME Init PROVE Rounds
  BY DEF RoundInv
<1>1. /\ graph \in Graphs /\ top_targets_left = graph.top /\ candidates = << >>
      /\ state = [n \in Nodes |-> no_state] /\ waiting_s_e = [n \in Nodes |-> {}]
      /\ pending_children = {}
  BY DEF Init, TaskmasterInit
<1>2. /\ Ordinary(graph) /\ Plains(graph) \subseteq Nodes
      /\ \A n \in Nodes : state[n] = no_state /\ waiting_s_e[n] = {}
  BY <1>1 DEF Steady, Plains
<1>3. ReadyOnTop /\ NoneLeftPending /\ HeldInv /\ Apart
  BY <1>1, <1>2, Kinds, States DEF ReadyOnTop, Ready, NoneLeftPending, HeldInv, Apart
<1>4. PendingAsked
  <2>1. ToSet(graph.top) \in SUBSET Nodes
    BY <1>1, <1>2, PlainDeps
  <2>2. ToSet(graph.top) \subseteq Under(graph, ToSet(graph.top))
    BY <1>1, <1>2, <2>1, UnderLeast
  <2>3. QED
    BY <1>1, <1>2, <2>2, States DEF PendingAsked, ToSet
<1>5. QED
  BY <1>3, <1>4 DEF Rounds

\* When nothing broke, some child is pending at the end just if there is a circle.
LEMMA CirclesPend ==
  ASSUME Types, SafeInv, CountInv, Steady(graph), GoInv, Rounds, AllQuiet, broke = {},
         pending_children = {} /\ status = 0 => Asked \subseteq Settled
  PROVE  pending_children # {} <=> \E n \in Asked : OnCycle(n)
<1> DEFINE all == Under(graph, ToSet(graph.top))
<1>1. /\ graph \in Graphs /\ Ordinary(graph) /\ FailInv /\ NoneLeftPending /\ PendingAsked /\ Apart
      /\ Plains(graph) \subseteq Nodes /\ ToSet(graph.top) \in SUBSET Nodes
  BY PlainDeps DEF Types, JobTypes, SafeInv, GoInv, Rounds, Plains
<1>2. all \in SUBSET Plains(graph) /\ Asked = all /\ \A n \in all : OnCycle(n) <=> Circular(graph, n)
  <2>1. all \subseteq Plains(graph)
    BY AllLookedAt
  <2>2. QED
    BY <1>1, <2>1, SteadyUnder
<1>3. ASSUME pending_children # {} PROVE \E n \in Asked : OnCycle(n)
  <2> DEFINE S == {n \in Plains(graph) : state[n] = pending}
  <2>1. S \in SUBSET Nodes /\ S # {}
    BY <1>1, <1>3 DEF NoneLeftPending
  <2>2. ASSUME NEW n \in S PROVE \E c \in S : c \in Deps(graph, n)
    <3>1. PICK c \in Deps(graph, n) : state[c] \in {pending, failed}
      BY AllLookedAt
    <3>2. c \in Plains(graph) /\ state[c] # failed
      BY <1>1, <3>1, PlainDeps DEF FailInv
    <3>3. QED
      BY <3>1, <3>2
  <2>3. S \subseteq all
    BY <1>1 DEF PendingAsked
  <2> HIDE DEF S
  <2>4. PICK n \in S : Circular(graph, n)
    BY <1>1, <2>1, <2>2, Descent
  <2>5. QED
    BY <1>2, <2>3, <2>4
<1>4. ASSUME NEW n \in Asked, OnCycle(n), pending_children = {} PROVE FALSE
  <2>1. n \in Plains(graph) /\ Circular(graph, n)
    BY <1>2, <1>4
  <2>2. state[n] \in SettledStates
    BY <1>1, <1>4 DEF FailInv, Settled, SettledStates
  <2>3. QED
    BY <1>1, <2>1, <2>2 DEF Apart
<1>5. QED
  BY <1>3, <1>4

LEMMA CycleReportedStep ==
  ASSUME Types, SafeInv, CountInv, SteadyInv, RoundInv, CompleteInv, CompleteInv', EndInv,
         CycleReported, [Next]_vars
  PROVE  CycleReported'
<1> SUFFICES ASSUME pc' = "end", broke' = {}, ~interrupted'
             PROVE  outcome' = "cycle" <=> \E n \in Asked' : OnCycle(n)'
  BY DEF CycleReported
<1>1. CASE UNCHANGED vars
  <2>1. UNCHANGED <<graph, on_disk, pc, broke, interrupted, outcome>>
    BY <1>1 DEF vars, tmVars, jobVars, nodeVars
  <2>2. Asked' = Asked /\ \A n : OnCycle(n)' = OnCycle(n)
    BY <2>1 DEF Asked, OnCycle, Below, Needs, IncludesThrough
  <2>3. outcome = "cycle" <=> \E n \in Asked : OnCycle(n)
    BY <2>1 DEF CycleReported
  <2>4. QED
    BY <2>1, <2>2, <2>3
<1>2. CASE /\ NoMoreTasks /\ Flying = {}
           /\ outcome' = IF pending_children' = {} THEN "done" ELSE "cycle"
  <2>1. /\ Going /\ GoInv /\ AllQuiet
        /\ UNCHANGED <<graph, on_disk, state, broke, interrupted, status, pending_children>>
    BY <1>2, LastStep DEF Going
  <2>2. Steady(graph) /\ Rounds
    BY <2>1 DEF SteadyInv, RoundInv
  <2>3. Asked' = Asked /\ Settled' = Settled /\ \A n : OnCycle(n)' = OnCycle(n)
    BY <2>1 DEF Asked, OnCycle, Below, Needs, IncludesThrough, Settled
  <2>4. pending_children = {} /\ status = 0 => Asked \subseteq Settled
    <3>1. outcome' = "done" /\ status' = 0 => Asked' \subseteq Settled'
      BY DEF CompleteInv, NothingForgotten
    <3>2. QED
      BY <1>2, <2>1, <2>3, <3>1
  <2>5. pending_children # {} <=> \E n \in Asked : OnCycle(n)
    BY <2>1, <2>2, <2>4, CirclesPend
  <2>6. QED
    BY <1>2, <2>1, <2>3, <2>5
<1>3. QED
  BY <1>1, <1>2, Ends

-----------------------------------------------------------------------------
(***************************************************************************)
(* The theorems.                                                           *)
(***************************************************************************)
\* All that is known of the builds of steady graphs.
SteadyAll ==
  /\ Types /\ SafeInv /\ CountInv /\ CompleteInv
  /\ SteadyInv /\ RoundInv /\ KeepGoing /\ CycleReported

LEMMA SteadyAllInit ==
  ASSUME \A g \in Graphs : Steady(g)
  PROVE  Init => SteadyAll
<1>1. \A g \in Graphs :
        Ordinary(g) /\ NothingFromSideEffects(g) /\ SourcesHaveBuilders(g) /\ ScansMatter(g)
  BY DEF Steady, Ordinary, RootsNeedNothing, SourcesHaveBuilders, ScansMatter, Plains
<1>2. Init => pc # "end"
  BY DEF Init
<1>3. Init => KeepGoing /\ CycleReported
  BY <1>2 DEF KeepGoing, CycleReported
<1>4. QED
  BY <1>1, <1>3, TypesInit, SafeInit, CountInit, CompleteInit, SteadyInit, RoundInit DEF SteadyAll

LEMMA SteadyAllStep ==
  ASSUME \A g \in Graphs : Steady(g)
  PROVE  SteadyAll /\ [Next]_vars => SteadyAll'
<1> SUFFICES ASSUME SteadyAll, [Next]_vars PROVE SteadyAll'
  OBVIOUS
<1>1. \A g \in Graphs : Ordinary(g) /\ NothingFromSideEffects(g)
  BY DEF Steady, Ordinary
<1>2. Types /\ SafeInv /\ CountInv /\ CompleteInv /\ EndInv
  BY DEF SteadyAll, CompleteInv
<1>3. Types' /\ SafeInv' /\ CountInv' /\ CompleteInv'
  BY <1>1, <1>2, TypesStep, SafeStep, CountStep, CompleteStep
<1>4. SteadyInv' /\ RoundInv'
  BY <1>2, SteadyStep, RoundStep DEF SteadyAll
<1>5. KeepGoing' /\ CycleReported'
  BY <1>2, <1>3, KeepGoingStep, CycleReportedStep DEF SteadyAll
<1>6. QED
  BY <1>3, <1>4, <1>5 DEF SteadyAll

\* KeepGoing: with -k, just what depends on no failure is built (Taskmaster.py:291),
\* of graphs in which nothing that is made during the build includes anything.
THEOREM KeepGoingAlways ==
  ASSUME \A g \in Graphs : Steady(g)
  PROVE  Spec => []KeepGoing
<1>1. Init => SteadyAll
  BY SteadyAllInit
<1>2. SteadyAll /\ [Next]_vars => SteadyAll'
  BY SteadyAllStep
<1>3. SteadyAll => KeepGoing
  BY DEF SteadyAll
<1>4. QED
  BY <1>1, <1>2, <1>3, PTL DEF Spec

\* CycleReported: when nothing failed, cleanup() reports a cycle just if there is one
\* below what was asked for (Taskmaster.py:783), in such graphs.
THEOREM CycleReportedAlways ==
  ASSUME \A g \in Graphs : Steady(g)
  PROVE  Spec => []CycleReported
<1>1. Init => SteadyAll
  BY SteadyAllInit
<1>2. SteadyAll /\ [Next]_vars => SteadyAll'
  BY SteadyAllStep
<1>3. SteadyAll => CycleReported
  BY DEF SteadyAll
<1>4. QED
  BY <1>1, <1>2, <1>3, PTL DEF Spec
=============================================================================
