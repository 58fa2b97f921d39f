---------------------------- MODULE GraphicsServer ----------------------------
(***************************************************************************)
(* The graphics server process (simpleprotographics/graphics_server.cpp):  *)
(* the network thread, which receives transactions and hands them over,    *)
(* and the GLUT thread, which paints them.                                 *)
(*                                                                         *)
(* waitQueueMutex protects what ProcessTransaction and Idle do; Idle's     *)
(* first look at isDirty and all of Display run without it.  A transaction *)
(* is known by its number in the order of receipt; 0 is NULL.  Of its      *)
(* contents the model keeps the flag, a scale and a map; the shapes it     *)
(* draws change nothing in the server.                                     *)
(***************************************************************************)
EXTENDS Naturals, Sequences

CONSTANTS
  Content,   \* what a transaction may carry
  MaxTrans   \* bound on the number of transactions received

ASSUME ContentAssumption ==
  Content \subseteq [persistent : BOOLEAN,
                     scale : Nat,                       \* 0: none
                     map : {"none", "data", "same"}]    \* "same": no new data

ASSUME MaxTransAssumption == MaxTrans \in Nat

VARIABLES
  process,      \* "running", "exited" or "crashed"
  rpc,          \* the global pointer: "null" until the server listens
  net,          \* where NetworkThreadRun is
  received,     \* the transactions parsed so far; the last may be in its hand
  deleted,      \* the transactions deleted
  cmd_wait,     \* the newest frame, when GLUT has not taken it
  cmd_process,  \* the frame GLUT paints
  isDirty,      \* says that cmd_wait is there
  persistent,   \* the persistent transactions
  glut,         \* where the GLUT thread is in its loop
  redisplay,    \* was glutPostRedisplay called?
  scale,        \* the server's scale
  map,          \* Map::map: the transaction that brought its data, or 0
  picture,      \* what the Display in progress has drawn
  scaled,       \* the scale it draws with
  screen        \* the picture last shown

netVars == <<rpc, net, received>>
queueVars == <<deleted, cmd_wait, isDirty, persistent>>
drawVars == <<scale, map, picture, scaled, screen>>
vars == <<process, netVars, queueVars, cmd_process, glut, redisplay, drawVars>>

Trans == 1 .. Len(received)
Frames == {n \in Trans : ~ received[n].persistent}

\* A transaction as it was drawn, with the map data that was drawn for it.
Item == [trans : Nat, map : Nat]

\* The types; cmd_wait and cmd_process hold frames only, the deque persistent
\* transactions only (graphics_server.cpp:285-293).
TypeOK ==
  /\ process \in {"running", "exited", "crashed"}
  /\ rpc \in {"null", "listening"}
  /\ net \in {"start", "poll", "process", "push"}
  /\ net \in {"process", "push"} => received # << >>
  /\ received \in Seq(Content)
  /\ deleted \subseteq Trans
  /\ cmd_wait \in {0} \cup Frames
  /\ cmd_process \in {0} \cup Frames
  /\ isDirty \in BOOLEAN
  /\ persistent \in Seq(Trans \ Frames)
  /\ glut \in {"events", "draw", "idle", "swap"}
  /\ redisplay \in BOOLEAN
  /\ scale \in Nat
  /\ map \in {0} \cup Trans
  /\ picture \in Seq(Item)
  /\ scaled \in Nat
  /\ screen \in [items : Seq(Item), scale : Nat]

\* GraphicsServer::GraphicsServer.
InitialScale == 10

Init ==
  /\ process = "running"
  /\ rpc = "null"
  /\ net = "start"
  /\ received = << >>
  /\ deleted = {}
  /\ cmd_wait = 0
  /\ cmd_process = 0
  /\ isDirty = FALSE
  /\ persistent = << >>
  /\ glut = "events"
  /\ redisplay = TRUE
  /\ scale = InitialScale
  /\ map = 0
  /\ picture = << >>
  /\ scaled = InitialScale
  /\ screen = [items |-> << >>, scale |-> InitialScale]

------------------------------------------------------------------------------
(***************************************************************************)
(* The network thread.                                                     *)
(***************************************************************************)

CreateServer ==
  /\ process = "running"
  /\ net = "start"
  /\ rpc' = "listening"
  /\ net' = "poll"
  /\ UNCHANGED <<process, received, queueVars, cmd_process, glut, redisplay,
                 drawVars>>

\* An RPCException: the socket cannot be bound, or select or accept fails.
NetworkFails ==
  /\ process = "running"
  /\ net \in {"start", "poll"}
  /\ process' = "exited"
  /\ UNCHANGED <<netVars, queueVars, cmd_process, glut, redisplay, drawVars>>

\* A map without data stands for the data of an earlier one: DrawMap leaves
\* the data out when the caller's pointer is the one of the call before.
Sendable(c) ==
  c.map = "same" => \E i \in Trans : received[i].map = "data"

\* PollMessage returned a message; it is parsed, whether that succeeds or not.
Receive ==
  /\ process = "running"
  /\ net = "poll"
  /\ Len(received) < MaxTrans
  /\ \E c \in Content :
       /\ Sendable(c)
       /\ received' = Append(received, c)
  /\ net' = "process"
  /\ UNCHANGED <<process, rpc, queueVars, cmd_process, glut, redisplay, drawVars>>

InHand == Len(received)

\* delete, of a pointer that may be NULL.
Deleting(n) == deleted \cup ({n} \ {0})

\* Mutated ProcessFrame: the flag is left as it is.
FrameUnflagged ==
  /\ process = "running"
  /\ net = "process"
  /\ ~ received[InHand].persistent
  /\ deleted' = Deleting(cmd_wait)
  /\ cmd_wait' = InHand
  /\ net' = "poll"
  /\ UNCHANGED <<process, rpc, received, isDirty, persistent, cmd_process, glut,
                 redisplay, drawVars>>

\* Mutated ProcessFrame: while a frame waits, the new one is deleted.
FrameRefused ==
  /\ process = "running"
  /\ net = "process"
  /\ ~ received[InHand].persistent
  /\ deleted' = IF cmd_wait # 0 THEN Deleting(InHand) ELSE deleted
  /\ cmd_wait' = IF cmd_wait # 0 THEN cmd_wait ELSE InHand
  /\ isDirty' = TRUE
  /\ net' = "poll"
  /\ UNCHANGED <<process, rpc, received, persistent, cmd_process, glut,
                 redisplay, drawVars>>

\* ProcessTransaction of a frame, all of it under waitQueueMutex, which the
\* GLUT thread never holds from one step to the next.
ProcessFrame ==
  /\ process = "running"
  /\ net = "process"
  /\ ~ received[InHand].persistent
  /\ deleted' = Deleting(cmd_wait)
  /\ cmd_wait' = InHand
  /\ isDirty' = TRUE
  /\ net' = "poll"
  /\ UNCHANGED <<process, rpc, received, persistent, cmd_process, glut,
                 redisplay, drawVars>>

\* ProcessTransaction of a persistent transaction: waitQueueMutex is taken and
\* persistent.push_back begins ...
BeginPush ==
  /\ process = "running"
  /\ net = "process"
  /\ received[InHand].persistent
  /\ net' = "push"
  /\ UNCHANGED <<process, rpc, received, queueVars, cmd_process, glut,
                 redisplay, drawVars>>

\* Mutated Pushed: push_front.
PushedFront == <<InHand>> \o persistent

Pushed == Append(persistent, InHand)

\* Mutated EndPush: no return after push_back, so the transaction also becomes
\* the frame that waits.
PushFallsThrough ==
  /\ process = "running"
  /\ net = "push"
  /\ persistent' = Pushed
  /\ deleted' = Deleting(cmd_wait)
  /\ cmd_wait' = InHand
  /\ isDirty' = TRUE
  /\ net' = "poll"
  /\ UNCHANGED <<process, rpc, received, cmd_process, glut, redisplay, drawVars>>

\* ... and ends, and the mutex is released.
EndPush ==
  /\ process = "running"
  /\ net = "push"
  /\ persistent' = Pushed
  /\ net' = "poll"
  /\ UNCHANGED <<process, rpc, received, deleted, cmd_wait, isDirty, cmd_process,
                 glut, redisplay, drawVars>>

------------------------------------------------------------------------------
(***************************************************************************)
(* The GLUT thread: glutMainLoop handles events, calls Display if one was  *)
(* posted, calls Idle, and starts again.                                   *)
(***************************************************************************)

\* Mutated StartTurn: the model-view matrix is set for good, by the first
\* Display.
ScaledOnce ==
  /\ process = "running"
  /\ glut = "events"
  /\ glut' = IF redisplay THEN "draw" ELSE "idle"
  /\ redisplay' = FALSE
  /\ UNCHANGED <<process, netVars, queueVars, cmd_process, drawVars>>

\* The events are done; Display sets the scale before it draws anything.
StartTurn ==
  /\ process = "running"
  /\ glut = "events"
  /\ glut' = IF redisplay THEN "draw" ELSE "idle"
  /\ scaled' = IF redisplay THEN scale ELSE scaled
  /\ redisplay' = FALSE
  /\ UNCHANGED <<process, netVars, queueVars, cmd_process, scale, map, picture,
                 screen>>

\* A mouse button while the network thread has not set rpc: SendMessage is
\* called on NULL.  (With rpc set, the event is queued and nothing here changes.)
MouseBeforeServer ==
  /\ process = "running"
  /\ glut = "events"
  /\ rpc = "null"
  /\ process' = "crashed"
  /\ UNCHANGED <<netVars, queueVars, cmd_process, glut, redisplay, drawVars>>

\* DrawTrans, message by message: what is left in the server's fields.
ScaleAfter(n) == IF received[n].scale = 0 THEN scale ELSE received[n].scale
MapAfter(n) == IF received[n].map = "data" THEN n ELSE map

ItemOf(n) ==
  [trans |-> n, map |-> IF received[n].map = "none" THEN 0 ELSE MapAfter(n)]

\* One turn of Display's loop, which compares its index with persistent.size().
DrawPersistent ==
  /\ process = "running"
  /\ glut = "draw"
  /\ Len(picture) < Len(persistent)
  /\ LET n == persistent[Len(picture) + 1]
     IN  /\ scale' = ScaleAfter(n)
         /\ map' = MapAfter(n)
         /\ picture' = Append(picture, ItemOf(n))
  /\ UNCHANGED <<process, netVars, queueVars, cmd_process, glut, redisplay,
                 scaled, screen>>

\* The same comparison, or the access to the element, while push_back moves
\* the deque's table of blocks: the pointers read may be anything.
DrawMovedDeque ==
  /\ process = "running"
  /\ glut = "draw"
  /\ net = "push"
  /\ process' = "crashed"
  /\ UNCHANGED <<netVars, queueVars, cmd_process, glut, redisplay, drawVars>>

\* The loop is over: draw cmd_process, if any, and swap the buffers.
DrawFrame ==
  /\ process = "running"
  /\ glut = "draw"
  /\ Len(picture) = Len(persistent)
  /\ IF cmd_process = 0
     THEN /\ screen' = [items |-> picture, scale |-> scaled]
          /\ UNCHANGED <<scale, map>>
     ELSE /\ screen' = [items |-> Append(picture, ItemOf(cmd_process)),
                        scale |-> scaled]
          /\ scale' = ScaleAfter(cmd_process)
          /\ map' = MapAfter(cmd_process)
  /\ picture' = << >>
  /\ glut' = "idle"
  /\ UNCHANGED <<process, netVars, queueVars, cmd_process, redisplay, scaled>>

\* Mutated Idle: a picture is posted only when there is a new frame.
IdlePostsFrames ==
  /\ process = "running"
  /\ glut = "idle"
  /\ glut' = IF isDirty THEN "swap" ELSE "events"
  /\ UNCHANGED <<process, netVars, queueVars, cmd_process, redisplay, drawVars>>

\* Idle looks at isDirty without the mutex; if it is false, it posts a picture.
Idle ==
  /\ process = "running"
  /\ glut = "idle"
  /\ glut' = IF isDirty THEN "swap" ELSE "events"
  /\ redisplay' = IF isDirty THEN redisplay ELSE TRUE
  /\ UNCHANGED <<process, netVars, queueVars, cmd_process, drawVars>>

\* Mutated Taken: the pointer stays in cmd_wait.
TakenAndKept == cmd_wait

\* cmd_wait = NULL.
Taken == 0

\* The rest of Idle, under waitQueueMutex.
TakeFrame ==
  /\ process = "running"
  /\ glut = "swap"
  /\ net # "push"
  /\ IF cmd_wait # 0
     THEN /\ deleted' = Deleting(cmd_process)
          /\ cmd_process' = cmd_wait
          /\ cmd_wait' = Taken
          /\ isDirty' = FALSE
     ELSE UNCHANGED <<deleted, cmd_process, cmd_wait, isDirty>>
  /\ redisplay' = TRUE
  /\ glut' = "events"
  /\ UNCHANGED <<process, netVars, persistent, drawVars>>

------------------------------------------------------------------------------
\* The network thread's handling of a message it has.
ProcessTransaction == ProcessFrame \/ BeginPush \/ EndPush

Display == DrawPersistent \/ DrawFrame

MainLoop == StartTurn \/ Display \/ Idle \/ TakeFrame

Next ==
  \/ CreateServer \/ NetworkFails \/ Receive \/ ProcessTransaction
  \/ MainLoop \/ MouseBeforeServer \/ DrawMovedDeque

Spec == Init /\ [][Next]_vars

\* Both threads are run by the scheduler; nothing is assumed of the clients.
\* TakeFrame waits for a mutex that is free again after one step.
FairSpec == Spec /\ WF_vars(ProcessTransaction) /\ WF_vars(MainLoop)

------------------------------------------------------------------------------
(* Properties *)

\* Where transaction n is kept.
Owns(o, n) ==
  \/ o = "hand" /\ net \in {"process", "push"} /\ n = InHand
  \/ o = "wait" /\ cmd_wait = n
  \/ o = "process" /\ cmd_process = n
  \/ o = "persistent" /\ \E i \in 1 .. Len(persistent) : persistent[i] = n
  \/ o = "nobody" /\ n \in deleted

Owner == {"hand", "wait", "process", "persistent", "nobody"}

\* Every transaction the network thread allocated has one owner until it is
\* deleted: none leaks, none is deleted twice, and what Display and Idle reach
\* without the mutex was not deleted under their feet
\* (graphics_server.cpp:151-157, 183-184 and 285-292).
OneOwner ==
  /\ \A n \in Trans : \E o \in Owner : \A p \in Owner : Owns(p, n) <=> p = o
  /\ \A i, j \in 1 .. Len(persistent) : persistent[i] = persistent[j] => i = j

\* isDirty, which Idle trusts without the mutex, tells of a frame that waits
\* and of nothing else: a true flag never outlives the frame and a frame never
\* waits behind a false one (graphics_server.cpp:179-186 and 289-293).
DirtyMeansWaiting == isDirty <=> cmd_wait # 0

Ids(items) == [i \in 1 .. Len(items) |-> items[i].trans]

FrameOf(items) ==
  {items[i].trans : i \in {j \in 1 .. Len(items) :
                             ~ received[items[j].trans].persistent}}

\* graphics.h:43-47: a frame on the screen lies over every persistent
\* transaction that was received before it, and all of them are drawn in the
\* order they were received, whatever was pushed while Display was drawing.
PersistentUnderFrame ==
  LET shown == Ids(screen.items)
  IN  /\ \A f \in FrameOf(screen.items) :
           /\ shown[Len(shown)] = f
           /\ \A n \in Trans : received[n].persistent /\ n < f =>
                \E i \in 1 .. Len(shown) : shown[i] = n
      /\ \A i, j \in 1 .. Len(shown) :
           /\ i < j
           /\ received[shown[i]].persistent
           /\ received[shown[j]].persistent
           => shown[i] < shown[j]

\* The scale of the last of these transactions to set one.
Scaling(items) == {i \in 1 .. Len(items) : received[items[i].trans].scale # 0}
LastScale(items) ==
  LET i == CHOOSE i \in Scaling(items) : \A j \in Scaling(items) : j <= i
  IN  received[items[i].trans].scale

\* Display scales before it draws, so a picture has the scale its predecessor
\* left: a picture shown twice in a row is, the second time, in the scale that
\* its own transactions set last (graphics_server.cpp:148-157).
ScaleCatchesUp ==
  [][screen.items # << >> /\ screen'.items = screen.items
       /\ picture' = << >> /\ glut = "draw" /\ glut' = "idle"
       /\ Scaling(screen.items) # {}
       => screen'.scale = LastScale(screen.items)]_vars

\* Is n on the screen, or below a newer frame that replaced it?
Shown(n) ==
  \E i \in 1 .. Len(screen.items) :
    LET m == screen.items[i].trans
    IN  m = n \/ (m > n /\ ~ received[n].persistent /\ ~ received[m].persistent)

\* Whatever is received is eventually on the screen, a frame unless a newer one
\* took its place, while the process lives.
EventuallyShown ==
  \A n \in 1 .. MaxTrans :
    n \in Trans ~> (process # "running" \/ (n \in Trans /\ Shown(n)))

\* What the canvas sees of the server.
Paints == INSTANCE Canvas
            WITH accepted <- IF net \in {"process", "push"}
                             THEN Len(received) - 1 ELSE Len(received),
                 base <- persistent,
                 newest <- IF cmd_wait # 0 THEN cmd_wait ELSE cmd_process,
                 front <- cmd_process,
                 painting <- Ids(screen.items)

\* graphics.h:42-48: the two threads, isDirty and the unlocked loop of Display
\* implement a canvas that is painted in one step.
ImplementsCanvas == Paints!Spec

------------------------------------------------------------------------------
(* What the repository's comments say, where the code differs. *)

\* graphics.h:37 "Draw a map with the given data.": a frame that stands for
\* the data of the last map sent before it is shown with that data.
MapWithGivenData ==
  \A i \in 1 .. Len(screen.items) :
    LET f == screen.items[i].trans
    IN  received[f].map = "same" /\ ~ received[f].persistent =>
          /\ screen.items[i].map # 0
          /\ \A n \in screen.items[i].map + 1 .. f : received[n].map # "data"
==============================================================================
