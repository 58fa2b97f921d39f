# simpleproto: specifications, model checking and proofs

simpleproto is a small C++ system: an RPC library that carries strings over TCP
(`simpleprotorpc/`), a client library that records drawing calls and sends them
frame by frame, and a GLUT server that shows them (`simpleprotographics/`).  The
repository ships the build engine that compiles it, SCons 1.1.0, as Python source
(`scons-local-1.1.0/`), by far the larger part of its code.  This directory specifies
the concurrent core of the three in TLA+, and the part of SCons that decides what is
built, in which order, and what is up to date.  TLC checks small instances, and TLAPS
proves for every size of instance the safety properties and refinements of the five
modules about simpleproto itself and, of the graphs and settings described below, those
about SCons builds.

Contents: [inventory](#inventory), [modules](#modules), [what the runs show](#runs),
[disagreements with the documentation](#disagreements), [what is proved](#proofs),
[what is not modelled](#limits), [plan](#plan).

<a name="inventory"></a>
## Inventory of the system

| component | state | operations | interacts with |
|---|---|---|---|
| asynchronous sending (`rpc.cpp:91-166`) | `messages`, `send_policy`, `async_send_thread_started`, `messages_mutex`, `send_policy_mutex`, `sending_mutex` | `SendMessage` (both modes), `AsyncSend`, `SetSendPolicy` | application threads call it; its own threads drain the deque into the sockets |
| framing and receiving (`rpc.cpp:143-163`, `168-251`) | the byte stream, `sock_list`, `async_recv_thread_started`, `async_recv_callback` | synchronous `SendMessage`, `PollMessage`, `AsyncRecv`, `StartAsyncRecv`, `StopAsyncRecv`, `CleanupSocket` | the other endpoint, the callback |
| connections (`rpc.cpp:45-89`, `144-147`, `172-203`) | `sock_list`, `server_sock`, `max_fd` | constructors, accept, broadcast, clean-up | several clients of one server |
| graphics server (`graphics_server.cpp`) | `cmd_wait`, `cmd_process`, `persistent`, `isDirty`, `scale`, `Map::map`, the global `rpc` | `NetworkThreadRun`, `ProcessTransaction`, `Idle`, `Display`, `DrawTrans`, `Map::DrawMap`, mouse and keyboard handlers | a network thread and the GLUT thread share it under `waitQueueMutex`, in part |
| graphics client (`graphics.cpp`) | `cur_trans`, `graphics_mutex`, the static `old_data`, `mouse_callback` | drawing calls, `DrawMap`, `DrawFrame`, `RegisterMouseCallback`, `InputCallback` | drawing threads, the RPC's receiving thread |
| schema (`graphics.proto`, generated `graphics.pb.*`) | none | serialisation | client and server |
| SCons taskmaster (`Taskmaster.py`, with `Node/__init__.py`, `Executor.py`) | the candidates, `pending_children`, of each node its state, `ref_count`, `waiting_parents`, `waiting_s_e` and implicit dependencies | `next_task`, `make_ready`, `postprocess`, `executed`, `failed`, `cleanup` | a job loop asks it for tasks and hands back results |
| SCons jobs (`Job.py`, `BuildTask` in `Script/Main.py`) | request and result queues, number of jobs, interrupt flag | `Serial.start`, `Parallel.start`, `Worker.run`, the signal handler | workers execute what the main thread prepared |
| SCons signatures (`Node/FS.py`, `SConsign.py`, `dblite.py`) | `ninfo` and `binfo` of each node, `.sconsign.dblite` | `get_csig`, the deciders, `changed`, `visited`, `built`, `merge`, `write`, `sync` | builds one after another, the user's edits meanwhile |
| the rest of SCons | environments, builders, tools, options, file system nodes | sequential configuration code | see [not modelled](#limits) |
| exceptions (`util.*`), test programs, build scripts | none of interest | | |

What is hard in it, and what has to be true (each hazard is listed at its line in
`PROJECT.json`):

* A flag tested and set without a lock decides whether a sending thread is
  started; a message is popped under one mutex and sent under another.  Order
  must survive, and nothing may be lost or sent twice.
* `SEND_LAST` drops messages: only ones nobody insisted on, and only for newer ones.
* A frame of bytes is sent and read in pieces, and the connection may end at any
  byte.  What is delivered must be what was sent.
* Receiving is stopped and started again by flipping a flag that the receiving
  thread reads between messages.
* A transaction moves from the network thread to `cmd_wait` to `cmd_process` and is
  deleted in two places by two threads, while the drawing loop and the first look
  at `isDirty` take no lock.  No transaction may leak, be deleted twice or be drawn
  after it was deleted, and a frame must not lose the background it was drawn for.
* `SendMessage` walks `sock_list` while `PollMessage` changes it, under different locks
  or none; a socket must not be lost, and a busy client must not hide that others wait.
* `DrawFrame` may fail after the frame was composed, and the data of a map goes along
  only when its address is new: nothing drawn may be lost, doubled, or shown with the
  data of another map.
* Everything accepted must eventually be sent, delivered and shown.
* A build node waits for others by a count and is woken by each: one decrement too few
  and it is never built, one too many and it is built too early.  Groups of targets,
  side effects, generated headers, failures and signals all take part in that.
* What is up to date is decided from signatures that an earlier build stored, while
  files are edited before, during and after builds that fail or are killed.

<a name="modules"></a>
## Modules

| module | models | proofs |
|---|---|---|
| `OrderedDelivery` | what `rpc.h:53-81` promises of queued messages: a line sent from the front that may skip | |
| `SendQueue` | asynchronous sending, with threads, flag, deque, mutexes, policies, failure | `SendQueueProofs` |
| `FrameStream` | messages as bytes of one connection, and the threads that read them | `FrameStreamProofs` |
| `Connections` | a server's list of sockets: accept, select, broadcast, clean-up | `ConnectionsProofs` |
| `Sketch` | what `graphics.h:22-48` promises of the drawing calls: pages turned over to a book | |
| `GraphicsClient` | the client library: drawing threads, `DrawMap`'s cached address, `DrawFrame` and its failure | `GraphicsClientProofs` |
| `Canvas` | what `graphics.h:42-48` promises of the window: a painting of everything persistent under one frame | |
| `GraphicsServer` | the server process: network thread and GLUT thread | `GraphicsServerProofs` |
| `BuildOrder` | what a build promises of its order: nodes worked on once, after all they need | |
| `Taskmaster` | SCons' walk over the dependency graph | |
| `Jobs` | extends `Taskmaster` with the main thread and the workers | `JobsProofs` |
| `Rebuild` | SCons' signatures over several builds, edits, failures and crashes | `RebuildProofs` |
| `SequenceLemmas` | facts about places, elements, parts and injectivity of sequences that the proofs share | is one |
| `MCGraphicsServer`, `MCJobs`, `MCRebuild` | symmetry, contents, graphs and settings for TLC | |

`SendQueue`, `FrameStream` and `Connections` look at one endpoint at three grains: its
messages, the bytes of one connection, and its connections.  What one of them takes for
one step (a message sent whole, a socket ready) another one opens up.

### SendQueue

`pc[c]` is where caller `c` is in `SendMessage`; `worker[c]` is where the `AsyncSend`
thread started by `c` is, and `cur_string[c]` the message it popped (a sequence of
length 0 or 1).  `OneThreadEach` shows that a caller starts at most one.  One action
is what a thread does up to the next point where another thread can matter:

| action | code |
|---|---|
| `CallAsync`, `Spawn`, `MarkStarted`, `Push` | `rpc.cpp:133-141`: the unlocked test, the thread, the flag, `push_back` |
| `CallSync`, `CallerLocks`, `CallerSends`, `CallerKilled` | `rpc.cpp:142-164`; a thread at `"send"` holds `sending_mutex` |
| `Dequeue` | `rpc.cpp:103-127`, one critical section: policy and `pop_front` |
| `WorkerLocks`, `WorkerSends`, `WorkerFails` | `rpc.cpp:128-129` and `143-164` |
| `SetSendPolicy` | `rpc.cpp:91-94` |

`FrontIs(q, policy, k)` says what the pruning loop leaves at the front without
writing the loop.  The socket is one action here: a whole message.  A failing
`send()` ends the process, by SIGPIPE or because an exception leaves the function of
an `AsyncSend` thread.  The strings of pruned messages are never deleted
(`rpc.cpp:117`); the model keeps the messages in `dropped`, which no code reads.

### GraphicsServer

A transaction is its number in the order of receipt, 0 being NULL, and `received`
keeps what matters of its contents: the persistent flag, a scale, a map.  `deleted`
is what was deleted.  `net` and `glut` are the positions of the two threads;
`waitQueueMutex` is held between steps only while `net = "push"`.

| action | code |
|---|---|
| `CreateServer`, `NetworkFails`, `Receive` | `graphics_server.cpp:366-382` |
| `ProcessFrame` | `282-294`, for a frame |
| `BeginPush`, `EndPush` | `284-287`: `push_back` in two steps, since `Display` reads the deque meanwhile |
| `StartTurn` | GLUT's turn and `Display`'s `glScaled`, `140-149` |
| `DrawPersistent`, `DrawFrame` | `151-159`, one step for each transaction drawn, with `DrawTrans` and `Map::DrawMap` |
| `DrawMovedDeque` | the data race: the deque is read while its table of blocks moves |
| `Idle`, `TakeFrame` | `179` without the mutex, `181-189` with it |
| `MouseBeforeServer` | `258` while `rpc` is NULL |

The GLUT loop is modelled as freeglut has it: events, then `Display` if posted, then
`Idle`.  `Idle` always posts, so pictures follow one another without end.  `screen` is
the picture last shown, with the scale it was drawn in.

### FrameStream

A byte is `<<message, place>>`; the first `Header` bytes of a frame are the length.
`outgoing` is what TCP took, `incoming` what it handed over; `Arrive` moves any piece,
and `header_cut` records whether one ever ended inside a header.
Receivers are threads in `PollMessage`: in `AsyncRecv` (`mode` `"async"`), or in a call
that blocks (`"wait"`) or does not (`"poll"`).

| action | code |
|---|---|
| `Lock`, `SendHeader`, `SendSome`, `SendFails` | `rpc.cpp:143-163` |
| `Select`, `SelectNothing`, `Pick` | `172-203`: `select()`, and the second walk over `sock_list` |
| `RecvHeader`, `RecvBadLength`, `RecvShortHeader` | `205-216` |
| `RecvPayload`, `RecvEnd` | `217-227` |
| `Deliver` | `228-230` and `235-238` |
| `StartAsyncRecv`, `StopAsyncRecv` | `241-251` |

A blocking `send()` of four bytes takes four or fails: the program installs no
signal handler and no timeout, so the test for a short count (`rpc.cpp:152`) has no
action.  Bytes that are read as a length and are none give any length up to
`MaxSize`, or a negative one that makes `new[]` throw.  `overlap` records whether two
receivers were ever at work at a time, and `late` counts callbacks since
`StopAsyncRecv`; no action tests these three.

### Connections

The network thread in `PollMessage` and a thread in `SendMessage` share `sock_list`.
A socket is known by its client; `fd` gives its descriptor, and no descriptor is ever
closed (`CleanupSocket` only erases), so each client has a new one.  A message has a begin,
its header with a part of what follows, and a rest: a client that is `"sending"` has sent the
begin of one, `inbox` counts the messages that are there to their end, and `reading` is the
socket whose payload `PollMessage` waits for, accepting and serving nobody else.

| action | code |
|---|---|
| `Connect`, `ClientBegins`, `ClientFinishes`, `ClientEnds` | the clients; `"cut"` is one that sent a part of a header in a segment of its own, `"closed"` one that is gone, be it in the middle of a message |
| `Accept` | `rpc.cpp:184-193` |
| `RecvHeader` | `194-217`: the first ready socket of the list (`FirstReady`), and the header |
| `RecvPayload` | `217-230`: the rest of the message is there, and it is returned |
| `GiveUp` | `206-213` and `220-225`: the stream has ended, in a header or a payload, and the socket is erased (`33-42`) |
| `StartSend`, `SendOne`, `EndSend` | `143-166`, the walk of the iterator `it` |
| `SendThrows`, `SendKills` | a send that fails, SIGPIPE, and an iterator that runs past the end |

`std::deque` closes the gap of an erased element from its shorter side, which moves what
the iterator points at; `GiveUp` does the same to `it`.  `select()` and the `recv()` of the
header are one step: with one thread in `PollMessage`, what is ready stays so.

### GraphicsClient

`call[t]` is where thread `t` is; one that is `"drawing"`, `"sending"` or `"skipping"` holds
`graphics_mutex`, one that is `"mapping"` holds nothing.

| action | code |
|---|---|
| `BeginDraw`, `EndDraw` | `graphics.cpp:26-78` and `115-118`: the item is added unset and then set, as `add_message()` and the setters do it |
| `BeginMap`, `EndMap` | `80-99`, and the cached address `old_data` |
| `BeginFrame` | `101-107`, up to the begin of the walk over `sock_list`, which has the socket or is empty |
| `EndFrame`, `SkipFrame` | `108-110`: the frame was sent; or the list was empty, nothing was sent, and the drawings are cleared all the same |
| `FrameThrows` | `SendMessage` throws before its first byte, or after some (`rpc.cpp:148-161`): from then on the stream is `torn` |
| `Overrun` | the socket is erased under the walk, which runs on behind the end of the deque; `send()` fails there |
| `ConnectionLost` | the receiving thread erases the socket (`rpc.cpp:211`, `222`) |

The refinement mapping reads the frames sent, and the one in progress, as the server does: a
map without data is drawn with the data that came last.  So `ImplementsSketch` says at once
that no call is lost, doubled or sent half done while the connection lasts, what becomes of a
frame that was not sent, and that the cached address of the data is right in all of these
cases.  When the socket has left the list, or a frame was torn, the promise ends (`Break` of
`Sketch`): all that is drawn afterwards is lost, whatever `DrawFrame` returns, and nothing
more reaches the server.

### Taskmaster and Jobs

A node is a file; a graph (`Graph`) says for each node its sources, other dependencies,
includes, the targets its action makes with it, its side effects, whether its scan
raises, whether its action may fail, and whether it is in the cache.  The variables are
the attributes of nodes and of the `Taskmaster` by their names.  `Jobs` has the main thread
(`pc` is its place in `start()`), the queues, and the workers.

| action or operator | code |
|---|---|
| `LookForTask` (`FindNextReadyNode`) | `Taskmaster.py:533-733`, one candidate in each step: `AlreadyHandled`, `ScanRaises` (`590-606`, and what `next_task()` does next: `MakeReady`, with the exception in the task), `WaitForChildren` (`LastFirst` is the order it leaves on the stack), `WaitForSideEffect`, or `Evaluate`: a task with the verdict of `MakeReady` (`313-348`) |
| `NoMoreTasks` | no candidate left; `cleanup()` (`783-798`) when no result is due |
| `PrepareFails`, `NothingToDo`, `Dispatch` | `Job.py:387-403`, with `prepare()` of task, executor, targets and side effects |
| `TakeTask`, `RetrieveFromCache`, `RetrievedBuilt`, `Build`, `BuildFails` | a worker: `Job.py:244-263`, `Taskmaster.py:204-230` |
| `TakeResult` (`Conclude`, `PostProcess`) | `Job.py:406-427`, `Main.py:193-293`, `Taskmaster.py:244-298` and `350-393` |
| `Interrupt` | the signal handler (`Job.py:118-151`) |

`children()` raises once: it leaves an empty list, so the second look at it, in
`make_ready()`, finds that.  The node is made ready without a look at its children or its side
effects; its task then fails to be prepared.  A node with a builder that exists may in between
be up to date and visited, which its failure takes back.  With `-i` the failure ends as a
success does: the node counts as executed, and its parents are built.

Abstractions.  A step of the main thread is atomic: only it touches what it changes,
apart from the states a worker sets in `retrieve()`, and a signal takes effect at the next
look at `stopped`.  A `make_ready()` that raises is not modelled, nor the second target of an
action whose scan raises (`GraphsAssumption`); prerequisites are among `depends`; a waiter
woken twice by a side effect is woken once.  Whether a target that exists is up to date is a
free choice here; `Rebuild` is about it.  One job stands for the `Serial` class.  In the
passing instance all targets of a group have the same dependencies and side effects, cached
targets are in no group and include nothing, a node that cannot be scanned has no children and
no side effects, and nothing is made from a side effect; the defects below are what
happens otherwise.

In `BuildOrder` a node's fate is final.  The mapping (`Fate`) has nothing final about the
targets of the task that the main thread is about to prepare (`InHand`): a node may be marked
up to date there and fail in the next step.

### Rebuild

Builds follow one another, each with one worker and an order that has sources first.
A content is the sequence of what went into it and is its own signature; every write
has a new time.  `db` is `.sconsign.dblite`; `ninfo` what a build knows of its nodes.

| action | code |
|---|---|
| `Edit`, `EditCommand`, `Age` | the user, also during a build, and the clock beyond `max_drift` |
| `Start` | `SConsign.py:187-225`, `dblite.py:53-83` |
| `VisitSource`, `UpToDate` | `FS.py:2786-2812` with `changed()` (`Node/__init__.py:1015-1069`) and the deciders (`FS.py:2745-2774`), `visited()` (`FS.py:2517-2538`) |
| `OutOfDate`, `Executed`, `Fails` | the target removed, the action run, `built()` and `visited()`, or a failure that leaves a part of a file |
| `Interrupt`, `Done` | `Main.py:1151-1174` |
| `Unlink`, `Rename` | `SConsign.py:97-251` (`Merged`, `Entry`) and `dblite.py:91-106` |
| `Crash` | the process is killed, at any step of a build |

`requested`, `edited`, `history`, `recorded` and `settled` record what happened for the
properties; no action tests them.  `recorded[t]` says whether the entry of `t` is about the
file that is there: it is lost when the target is removed, found again when information
about the new file is stored, unless a child was edited meanwhile (`Untouched`).

<a name="runs"></a>
## Runs

Deadlock is not checked where programs may stop, by a failure, or because no one calls
any more (calls, messages, transactions and edits are bounded).  It is checked in the
runs of `Jobs`, where a build that has ended stutters.

| run | instance | shows |
|---|---|---|
| `sendqueue_threads` | 2 callers, 4 calls | types, `OneThreadEach`, `SentInOrder`, `InOnePlace`, `DroppedForNewer`, `EventuallySettled` |
| `sendqueue_onecaller` | 1 caller, 5 calls | `ImplementsOrderedDelivery`, `AtMostOneBehind` |
| `frames_stream` | 2 senders, 2 receivers, one of which may poll, 2 messages of up to 2 bytes, headers of 2 bytes, 4 bytes of buffer | types, `FramesIntact`, `FewLate`, `GivenUpForCause`, `EventuallyDelivered` |
| `connections_service` | 3 clients, 1 message buffered for each and 1 begun, messages and broadcasts without end | types, `SocketsKept`, `BroadcastOnce`, `Served` |
| `client_threads` | 2 threads, 2 arrays of map data, 2 items in a frame, 2 frames and a third begun | types, `ImplementsSketch` |
| `server_painting` | 4 transactions of 4 kinds | types, `OneOwner`, `DirtyMeansWaiting`, `PersistentUnderFrame`, `ScaleCatchesUp`, `ImplementsCanvas`, `EventuallyShown` |
| `jobs_build` | all graphs of 3 nodes, all acyclic ones of 4, 10 graphs of up to 5; 1 and 2 jobs, 3 policies | types, `ChildrenSettled`, `ChildrenVisited`, `NoSharedOutput`, `NoStaleScan`, `RefCountExact`, `NothingForgotten`, `KeepGoing`, `CycleReported`, `Terminates`, `ImplementsBuildOrder` |
| `rebuild_builds` | 2 sources, 2 targets, 2 requests, 2 edits, 3 writes of a target, 12 settings | types, `Fresh`, `NotAgain` |
| `frames_split`, `server_map`, `jobs_sideeffect`, `jobs_cached` | | the disagreements below |

Every property of a passing run has a mutant in `PROJECT.json`: a definition of the
model changed the way a slip in the code would change it, under which TLC finds the
property violated.

*Bounds.*  Two callers are what the race on the flag takes, and a third message what
the threshold of `SEND_LAST` takes; four calls let one more arrive behind it while
two threads hold messages.  Four transactions make a persistent one arrive before,
between and after frames, and a waiting frame be replaced by a third.  A header of
two bytes is the shortest that can be cut, payloads of 0, 1 and 2 bytes are empty,
whole and cut, and a buffer of one frame makes senders wait.  Three clients put one
between two others in `sock_list`, so that an erased element shifts either side.  Two
items in each of two frames put the data of a map into the same frame, the frame before
and a frame that had to be sent again.  In `Jobs` three nodes can wait for each other in
every way, and the ten graphs of their own have each feature with a node above and
below it, and a cached file also with two parents.  In `Rebuild` an intermediate target makes a build see a change it made
itself, two contents can be edited there and back, and the third write is a rebuild
after a rebuild.  `MaxCalls`, `MaxTrans`, `MaxMessages`, `MaxSize`, `Capacity`, `MaxInbox`,
`MaxItems`, `MaxFrames`, `MaxContent`, `MaxEdits` and `MaxWrites` bound only the models; the
theorems hold for all values of theirs.

*Fairness.*  Weak fairness of the steps of each thread that is in a call or in its
loop: the scheduler runs it.  A thread that waits for `sending_mutex` gets it by
weak fairness once no one takes it any more, which happens since calls are bounded
by `MaxCalls`: `EventuallySettled` says nothing of a program whose synchronous calls
never pause, where a mutex that is not fair may starve `AsyncSend`.  That `send()` ends
assumes a peer that goes on reading, or a connection that breaks.  In
`GraphicsServer`, `waitQueueMutex` is free again one step after it was taken, and only
two threads use it.  `FrameStream` adds weak fairness of `Arrive`: TCP delivers while the
connection lasts.  `Connections` assumes that the server goes on calling `PollMessage`, and of a client only
that it finishes a message it began, or goes: one that stalls in the middle blocks the one
thread that receives, and with it everybody (below).  `Served` is as much as the service order
of the code allows.
`Jobs` assumes that the main thread and the workers run, so that actions end.  Nothing is
assumed of when applications call, send or stop, or when users edit.

<a name="disagreements"></a>
## Where code and documentation disagree

Each has a run in which TLC finds the sentence violated by what the code does.

* `frames_split`: `rpc.h:72` promises that all messages are sent; a header that `recv()`
  returns in parts (`rpc.cpp:207`) makes the receiver drop the socket, unclosed, and the
  sender never learns.  Messages are delivered as long as no header was cut (`EventuallyDelivered`).
* `server_map`: `graphics.h:37-38` has a TODO about maps not working; a frame with the map
  data that is replaced in `cmd_wait` takes the data with it
  (`graphics_server.cpp:289-292`), and the client sends the data of an array once
  (`graphics.cpp:93-98`).  `ImplementsSketch` shows that the client's half is right by
  itself: the data is lost between the two.
* `jobs_sideeffect`: `Taskmaster.py:543-545` says that a node that waits is put back on the
  candidates list when its children are built.  `executed()` resets a side effect to
  `no_state` (260) before `postprocess()` looks at it (376-380), so who waits for the side
  effect is never woken: a parallel build ends with status 0 and without the node.
* `jobs_cached`: `Taskmaster.py:341-344` says that `visited()` must be invoked "to ensure that the
  node information has been computed before allowing the parent nodes to execute"; `retrieve()`
  marks a file executed in the worker's thread (`CacheDir.py:205`), so the second of two parents
  (graph `CachedShared`) is dispatched before `visited()` is called of it.

Further ones were met while modelling and have no run of their own:

* `rpc.h:79-80` says `SEND_LAST` sends only the most recent packet; `rpc.cpp:112` prunes only
  above two messages, so of two queued ones the older is sent.  `AtMostOneBehind` is what
  does hold.
* `rpc.h:55-56` guarantees order among asynchronous messages; two first callers race on
  `async_send_thread_started` (`rpc.cpp:135-138`), start two threads, and these overtake one
  another.  `SentInOrder` holds while there is one thread.
* `rpc.h:61-63` says `PollMessage(false)` returns NULL when no message is waiting; it waits
  in `recv()` for the rest of one (`rpc.cpp:218-227`).  There is no timeout: a client that
  stalls in the middle of a message stops `PollMessage`, and no other client is served and
  none accepted until it goes on or goes.  Without the fairness of `ClientFinishes` or
  `ClientEnds`, TLC finds `Served` violated in this way.
* `graphics.h:42` says that `DrawFrame` sends the current frame off to the graphics server.  When
  the receiving thread has taken the socket off the list (`rpc.cpp:211`, `222`), the walk over
  the empty `sock_list` (`144`) sends nothing and throws nothing, and `graphics.cpp:109` clears
  the drawings: `DrawFrame` returns as if all were well.  When `SendMessage` throws in the
  middle of a frame, the next one is sent behind a part of it, and the server takes it for
  the rest.
* After `StopAsyncRecv` and `StartAsyncRecv` two threads may read one stream
  (`rpc.cpp:243`) and tear its frames; `FramesIntact` is of receivers that do not overlap.
* A broadcast during which the socket of one client is erased may pass over another one
  that is there, or send to it twice (`rpc.cpp:38`, `144`), against `rpc.h:72`; one that
  throws leaves the clients behind the failing one without the message (`rpc.cpp:151`).
  `BroadcastOnce` excludes both.
* `graphics.h:34` says `SetScale` is for this and later frames; `Display` applies the scale
  before it draws the frame that sets it (`graphics_server.cpp:148`).  `ScaleCatchesUp` is
  what does hold.
* `graphics.h:57-58` declares the mouse callback with (shift, alt, ctrl), while
  `graphics.cpp:134` passes (shift, ctrl, alt).  Two `Graphics` objects share `old_data`, so
  the second one's server never gets the data of an array that the first one drew, and an
  array whose contents change is never sent again.
* With `-k`, a node found to have a failed child is marked failed without a word to those
  that wait for it (`Taskmaster.py:657-663`); `cleanup()` may then report a cycle in a graph
  without one (graph `Chain` of `MCJobs`, with one job).  `CycleReported` is therefore about builds
  without a failure.
* So `-k` may also leave undone what depends on no failure, once there are generated headers.  In
  `SilentFailure` of `MCJobs`, with one job, `d` is given up in this way while `a` waits for it.
  Nobody looks at `a` again, which would now find that the header `c`, built meanwhile, includes
  `b`; and `b`, below which nothing broke, is not built.  `KeepGoing` holds of graphs in which no
  file made during the build includes anything (`KeepGoingAlways`), and of those of the run.
* Nor is `CycleReported` true of all graphs when nothing fails.  In `LateHeader` of `MCJobs`, with
  two jobs, building the header `d` makes `b` and `c` candidates at once.  `b` is scanned again, now
  finds `c`, which is pending, puts it into `pending_children` (`Taskmaster.py:640` ff.) and waits.
  `c` is looked at next and built, but only the parents of what was built leave
  `pending_children` (376-398).  All is made, and `cleanup()` (783-798) ends the build with
  "Internal Error: no cycle found".  It does hold of the graphs of the run, and without generated
  headers (`CycleReportedAlways`).
* A node whose scan raises is made ready without a look at its children (`Taskmaster.py:590-606`,
  `718-729`).  In `UnscannableParent` of `MCJobs`, `a` is such a node and made from `b`.  With `-i` the
  build ends with status 0 and without error although nobody ever looked at `b` (against
  `NothingForgotten`), and with `-k` it leaves `b` out, below which nothing broke (against
  `KeepGoing`).
* Nor does it wait for its side effects, and when its task has failed, `postprocess()`
  (`Taskmaster.py:376-380`) releases them though another task holds them.  In
  `UnscannableShared`, with `-k` and two jobs, two other tasks then write the side effect at a time
  (against `NoSharedOutput`).
* A worker that retrieves a cached file marks it executed while its task is at work
  (`CacheDir.py:205`), so a parent looked at now is dispatched before `visited()` and `built()`.
  `jobs_cached` shows what this does to `Taskmaster.py:341-344`.  `ChildrenVisited` is about
  children that are not cached, and `ChildrenSettled` allows a task at work to be the one that
  retrieved the child.  When the file is a header, the parent is also built with what was
  scanned before: in `CachedHeader` the cached `d` includes `c`, and `b` is built before it (against
  `NoStaleScan`).
* When only some targets of an action are in the cache, a worker marks those executed
  and a parent starts while the action makes them again (graph `HalfCached` of `MCJobs`
  violates `ChildrenSettled` with two jobs; `CacheDir.py:205`).
* A side effect belongs to the targets it was declared for (`Environment.py:1976-1982`), and
  `_find_next_ready_node` looks only at those of the candidate (`Taskmaster.py:676-683`), while
  `make_ready` marks those of all targets of the action.  Let `a` depend on `d` and `b`, one
  action make `b` and `c`, and `e` be a side effect of `c` and of `d`: with two jobs both
  actions write `e` at a time (against `NoSharedOutput`).
* What the scan of one target finds is given to all targets of its action
  (`Executor.py:228-261`), and what `built()` forgets are the lists of the parents that wait
  (`Node/__init__.py:380-381`).  A target of a group that waits for nothing itself keeps the
  old list.  Let `a` be made from `b` and `y`, one action make `b` and `c` from the generated
  header `h`, `y` be made from the generated `k`, `h` include `d` and `k` include `c`.  With two
  jobs the results of `h` and `k` can be taken together; then `c` is looked at first, with a
  list that lacks `d`, and is built before it (against `NoStaleScan` and `ChildrenSettled`).
* A node that no one builds is not checked when it is visited, so one with dependencies of its
  own may count as up to date, and be visited, although one of them is missing; its task
  then fails to be prepared (`Node/__init__.py:325-355`).  The same holds of a file that exists
  and whose scan raises.
* `visited()` stores a new timestamp, and `ninfo.merge` (`SConsign.py:177`) keeps the old
  content signature next to it when the build did not compute one: in a failed build, or
  for a node nobody asked about.  Once the file is older than `max_drift` that signature
  is trusted.  Adding `"failures"` to the faults of a `"positive"` setting of
  `SoundSettings` violates `Fresh`.  `--max-drift=0` does the same to rebuilt targets.
* The content of a target itself is never compared with anything.  When a source is
  edited during a build, and back before the next one, or a failed action leaves a part
  of a file and the edit that caused the build is undone, the file counts as up to date.
  `Fresh` excludes targets whose entry is about another file when a content came back.
* With the decider `MD5-timestamp`, a child whose time matches an entry takes over the
  signature in it (`FS.py:2755-2762`), also one that the build computed before from the
  content.  Let `t` and `u` be made of `a`, and a build have entries of two different edits of
  `a` for them.  When `a` is edited between the look at `t` and the look at `u`, the entry of
  `t` is stored with the signature that `u` had of `a`.  When `a` comes back to that content,
  `t` counts as up to date though it is made of another.  `Fresh` excludes such a `t` as well
  (`UpToDate` clears `recorded[t]`, as `Executed` does), and only when a content came back.

<a name="proofs"></a>
## What is proved

`SendQueueProofs`, for any set of callers and any `MaxCalls`:

* `TypeCorrect`.  That an `AsyncSend` thread is at `"lock"` or `"send"` exactly with one
  message in hand needs `ThreadInv`: a caller that started a thread is about to set the
  flag or has set it, so it never starts a second.  `OneThread` is the same fact.
* `SentInOrderAlways`.  `QueueInv` says the deque is in order and numbered up to `count`;
  `WireInv` says that while one thread exists the wire, then the message in its hand,
  then the deque are one increasing sequence.  Only the conjunction is inductive.
* `DroppedForNewerAlways`, from `QueueInv`: what the pruning loop drops is older than the
  front it leaves, and that front is taken in the same critical section.
* `InOnePlaceAlways`, for any number of threads that drain the deque.  `SomewhereInv` says
  that no message is lost; `SentOnceInv`, `HeldInv` and `DroppedInv` keep the four places
  apart, with the order of the deque for what a thread pops.
* `AtMostOneBehindAlways`, an action property, from the types and what `FrontIs` chooses.
* `ImplementsOrderedDeliveryAlways`, the refinement, for one caller (`OneCaller`; with two
  it is false): the message in hand, then the deque, are the line, whose front may skip.

`GraphicsServerProofs`, for any contents and any `MaxTrans`:

* `TypeCorrect`, which includes that `cmd_wait` and `cmd_process` hold only frames and the
  deque only persistent transactions; `PushInv` carries that from `BeginPush` to `EndPush`.
* `DirtyMeansWaitingAlways`, inductive with the types.
* `OneOwnerAlways`.  `OwnInv` is the inductive form: everything is kept somewhere, what
  is deleted are frames, and the places exclude one another pairwise.
* `ImplementsCanvasAlways`, the refinement.  `PictureInv` says that what `Display` has
  drawn is a prefix of `persistent`; since the loop compares with the length again in
  each turn, the prefix is all of it when the loop ends, whatever was pushed
  meanwhile, and the last step of `Display` is one `Paint`.
* `PersistentUnderFrameAlways`, from `OwnInv` and `BaseInv`: a persistent transaction older
  than the frame at hand is in the deque, and the deque is in the order of receipt.
* `ScaleCatchesUpAlways`, an action property.  `ScaleInv` says whose scale `scale` is
  between two pictures and during one; pictures of the same items leave the same scale.

`FrameStreamProofs`, for any senders and receivers, any sizes and any `Capacity`.  All is
about the line of bytes between the two ends: `StreamInv` says that any two of its bytes,
and the one to be written next, are at least as far apart in the stream as on the line
(`Follows`; frames that were torn may leave gaps).  `DueInv` and `ReadInv` say that while
receivers do not overlap the next byte is the one that is due, and the buffer the begin of
the message due.

* `TypeCorrect`, with `BufInv`: a buffer is empty outside of a payload, and shorter than
  its message within.
* `FramesIntactAlways`, from `StreamInv`, `DueInv` and `ReadInv`: a header that is due is one.
* `FewLateAlways`, from `OneInv` and `LateInv`: the thread that delivered late was the last.
* `GivenUpForCauseAlways`: `WholeInv` says that until TCP cuts a header, what waits to be read never
  ends inside one.

`ConnectionsProofs`, for any finite set of clients (`ClientAssumption`):

* `TypeCorrect`.  That descriptors stay under `max_fd`, the iterator within reach of the list
  and the copies a client gets within their number needs counting: `CountInv` says that a
  socket accepted is listed or given up, `IteratorInv` that the iterator went back at most
  once for each socket given up.
* `SocketsKeptAlways`, from `QueueInv` (a socket is listed once) and `KeptInv` (what is not
  listed any more had ended, and all it sent was delivered).
* `BroadcastOnceAlways`.  `CastInv`: while nothing disturbs a broadcast, exactly the sockets
  before the iterator have the message.

`GraphicsClientProofs`, for any threads, shapes, data and bounds:

* `TypeCorrect`, with `CallInv` (one call at a time holds the mutex or is before it) and
  `ItemInv` (only the last item may be unset, and exactly while its call is in progress).
* `ImplementsSketchAlways`, the refinement.  `DataInv` says that `old_data` is the data
  brought last, in whichever frame that was, sent or not; so a map without data is read
  with the data it was drawn with, and each step of the client is a step of `Sketch` or none.
  A frame that goes to nobody, or is cut, is no exception: losing the socket or tearing the
  stream is the step `Break` of `Sketch`, after which no step of the client adds to the book
  (`Open` says until when one may).  `NoneAssumption` says that "no data" is not one of the arrays.

`JobsProofs`, for any finite set of nodes, any graphs, policies and numbers of jobs:

* `TypeCorrect`, of all graphs.
* `RefCountExactAlways`, of graphs in which nothing is made from a side effect (otherwise it
  is false, see `jobs_sideeffect`).  `CountInv` adds that who waits is no side effect.
* `ChildrenSettledAlways`, `ChildrenVisitedAlways`, `NoSharedOutputAlways` and
  `NoStaleScanAlways`, of `Ordinary` graphs, generated headers included.  They have one
  inductive invariant, `SafeInv`:
  * of tasks: `FlyInv`, the targets of those dispatched, executed or posted are executing
    (or failed in a build that was stopped), and they are done with (`DoneWith`): all they
    were given, know to include, or would be found to include now is settled, and known.
    `HandInv` says the same of the task the main thread has in hand, unless its scan raised, `ApartInv` that no two
    write the same file, `PlaceInv` that a task is in one place, `ResultInv` that one that
    went well left its targets on disk.
  * of the nodes: one that is executing is no candidate and a settled one is never looked
    at again (`CandInv`, `VisitInv`); all targets of an action begin together (`GroupInv`)
    and are given up together, or because of something they need (`DownInv`); nobody waits
    for what is settled, and so no list of implicit dependencies is forgotten while its
    node is at work (`WaitInv`).
  * of the files: what was made is there (`DiskInv`), and one remembered as absent is there
    only while, or because, it is made anew (`AbsentInv`).
  * of the scans: they find only what there is to find (`ImplInv`), and a node that was
    scanned and knows of a file knows what that file includes, unless it is `Excused`
    (`ScanInv`): the file will never be there, or the node waits for it and will be scanned
    again when its task is postprocessed.  This is the argument for `NoStaleScan`: when the
    last child of a node is settled there is no excuse left (`FoundAll`).
* `ImplementsBuildOrderAlways`, the refinement, of `Ordinary` graphs, those with scans that raise
  included.  `FateInv` adds what makes a verdict final once the main thread let go of the task:
  failed nodes stay failed but with `-i` (`BrokeInv`), side effects have no fate
  (`SideFateInv`), and what is in hand is not made from itself, unless its scan raised and
  it has no say (`HandNeeds`).

* `NothingForgottenAlways`, of `Ordinary` graphs in which files without a builder are made of
  nothing (`SourcesHaveBuilders`) and, with `-i`, no scan raises (`ScansMatter`: what the node is
  made from is never looked at, see `UnscannableParent`).  The invariant is `WellInv`, of builds in
  which nothing failed or is about to and nobody interrupted (`Calm`); it rests on `SafeInv` and `CountInv`.
  * `Closed`: what is settled was made from what is settled, by its final includes.
  * `Accounted`: what is executing is a target of a task at work or in hand.
  * `Remembering`: whatever is asked for, or used by a node that was looked at, will be looked at
    again: it is a candidate or a target of the top level, belongs to a task, or waits
    (`Remembered`).  A step of the walk takes a node out of one of these places and
    puts it into another, with its children; the lemmas on `LastFirst`, `Wake` and
    `PostWakes` say that no wakeup loses a node.
  * `CirclesSeen`: a node that waits for a pending one left it in `pending_children`.
  When no candidate, top level target or task is left and `pending_children` is empty, all that
  was asked for is settled (`NothingPending`), and `Closed` is what the definition of `Below`, an
  intersection of closed sets, takes to carry this to all that is below (`AllSettled`).

* `KeepGoingAlways` and `CycleReportedAlways`, of `Steady` graphs: `Ordinary`, only what has a
  builder needs anything, no scan raises, and no file made during the build includes
  anything, so that a node finds all it needs (`Deps`) whenever it is scanned.  With generated
  headers both properties are false (`SilentFailure`, `LateHeader`).  If the scan of a node raises,
  its sources are never looked at, so `KeepGoing` is false of a node that cannot be scanned and
  has some to build; for `CycleReported` that no scan raises is a restriction of the proof.  Of the graphs of
  `MCJobs.SomeGraphs`, all but `Header`, `Unscannable`, `Cached` and `CachedShared` are `Steady`.
  * `SteadyInv` says of builds that nothing stopped (`Going`: with `-k`, or while nothing broke) that
    only what broke, and what is made from it, fails (`FailInv`), that what is settled was made
    from what is and will stay so (`SteadyClosed`), that who was looked at waits for all it
    needs that is not finished (`WaitsForAll`), which will be looked at as well (`LooksAtAll`), and
    what `Accounted` and `Remembering` say, which failures do not disturb.
  * At the end, then, all that was asked for is settled, failed or pending (`AllLookedAt`), and
    what is pending is made from something that is pending or failed.  `Descent` is the
    argument for circles: if each of finitely many nodes is made from another one of them,
    one of them is below itself, for the sets of what is below them cannot all shrink
    (`FS_StrictSubsetOrderingWellFounded`).  So without circles just what has something
    broken below it is not settled (`AllMade`), which is `KeepGoing`.
  * `RoundInv`, of builds in which nothing broke, says that the stack of candidates is in
    order.  A node that has nothing left to wait for (`Ready`) lies on it below nothing but nodes
    of the same kind (`ReadyOnTop`).  So when a candidate is found to wait for a pending child,
    and that child gets into `pending_children`, no node is ready, the child neither
    (`WaitRounds`): it will wake up with `postprocess()`, and leave `pending_children`.  Hence no
    child is left there once it is ready (`NoneLeftPending`): at the end whoever is there
    waits for something pending, and `Descent` gives the circle (`CirclesPend`).  The other half,
    that no circle is passed over, is that nothing on one is ever settled (`Apart`), with
    `NothingForgotten`.  `LateHeader` breaks `ReadyOnTop`: the two candidates that the header wakes
    are both ready until one of them is scanned anew.

Most of what `Ordinary` excludes is what the theorems would be false of.  Cached targets that
share an action (`HalfCached`) or include something (`CachedHeader`), files made from side effects
(`FromSideEffect`), side effects of only one target of an action or of one that cannot be scanned
(`UnscannableShared`), and targets of one action made from generated files that include
something are the defects described above.  That nothing comes from the cache at all is more than
that: of cached files each with an action of its own that include nothing, `VisitedBeforeParents`
is false (`CachedShared`), and what the other properties say of them is only checked.  Of the
graphs of `MCJobs.SomeGraphs` only `Cached` and `CachedShared` are not `Ordinary`.

`RebuildProofs`, for any files, dependencies, requests, contents and number of builds:

* `TypeCorrect`, with `BuildInv` (what a build has handled and has still to handle are apart,
  and children come before their targets) and `FileInv` (sources are there and their
  contents are remembered; a file that is there was written).
* `NotAgainAlways`, of `Trustworthy` settings.  `Exact` says what signatures are worth:
  `InfoInv`, what a build knows of a node is of the file as it is, unless the file was edited
  since; `SigInv`, what an entry has of a child is not about a later file, and at the time of
  the file that is there it is its signature; `DriftInv`, the same of what was stored of
  nodes themselves.  With these `SettledInv` is inductive: the entries of settled targets are
  about their children as they are (`Current`), so no decider finds a difference.
* `FreshAlways`, of `Trustworthy` settings.  A target is made of what its children were once,
  so the invariants are about contents that are gone.
  * `RecordedInv` is for contents that come back: while the entry of a target is about the
    file that is there (`recorded`), its signatures tell the contents it was made of
    (`RightStored`), and so do those that will be stored of it (`Firm`).  The attempt to prove
    this failed at first, and what it failed of is the defect of `MD5-timestamp` above.
  * `PastInv` is for builds after which no content came back.  It says that there is a past:
    a set of obsolete contents of each file, and its last one, such that everything obsolete
    was made of something obsolete or by another command (`HistoryInv`).  An entry that does
    not tell what its target was made of has another command, or a signature of a child that
    is obsolete and that no later look at that child finds again (`StaleInv`); and where
    signatures are in doubt, because a child was edited after it was visited, no entry has
    the signature of what it is now (`DoubtInv`).  So a stale target is found changed.
  * `FreshInv` then says that what a build handled is made of its children as they are.

`Trustworthy` is a condition on the settings.  Those it leaves out are the ones with which `Fresh`
is false, by the defect of `ninfo.merge` above: where contents count, a `max_drift` of zero, and a
positive one with failures or crashes, or with a source that is visited for nothing.
`MCRebuild` checks that the settings of the run meet it (`TrustworthySettings`).

The assumptions are the named `ASSUME`s of the modules: bounds are numbers, contents are
records of a flag, a scale and a map, nodes and clients are finite sets, every target of an
action is in the list of that action, only what has a builder is scanned, an action whose scan
raises has one target, and something is asked for.  `Rebuild` assumes that a
build has each of its nodes once and after its children, that a target may be written at
least once, and that no source is called `"command"`.

Contents in `Rebuild` are made with `FlattenSeq`, whose definition is recursive.  The
induction theorems of the library are of no use to the provers here, but induction over a set is:
`Induction` follows from `WFMin`, and gives the facts about `FlattenSeq` that the proofs need,
its type and that it tells sequences of the same lengths apart (`FlattenType`, `FlattenSame`).

Only model-checked: liveness (fairness and ENABLED are out of the prover's reach), and `KeepGoing`
and `CycleReported` of graphs with generated headers that include something or with scans that
raise: they hold of those of the run, but not of all (`SilentFailure`, `LateHeader`,
`UnscannableParent`); and all that is said of builds with cached files.

<a name="limits"></a>
## What is not modelled

* In the library: the callback objects and the destructor of `Graphics`, whose races are
  undefined behaviour with no outcome to claim anything of; `DrawMap` in parallel with
  other calls, for the same reason; several `Graphics` objects; lengths of 2^31 and more;
  the contents of messages beyond persistent flag, scale and map; drawing itself, the
  window's centre and size, the contents of mouse events.
* The generated protocol buffer code, exceptions' texts, test programs, build scripts.
* Of the taskmaster: `alter_targets`, ignore lists, directories as nodes, `--random`,
  `--implicit-cache`, interactive mode.  Of signatures: the decider `timestamp-newer` (which
  never notices an edit during a build), repositories, variant directories, source files
  that go missing, dependency lists that change, `.sconsign` files of single directories,
  more than one worker.
* The rest of SCons, most of its lines: construction environments and string
  substitution, builders and actions, some sixty tool modules that set variables for a
  compiler, project file generators, platform modules, option parsing, help texts,
  `Configure` contexts, copies of standard library modules, packaging, and the stand-alone
  scripts.  This is sequential code from strings to strings and from the disk to
  strings.  It shares no state between actors, and a model of it would repeat it line by
  line; this is why the modules cover a small part of the vendored lines.
* The file cache's own files (`CacheDir.py`): the temporary names of two builds that share
  a cache, and what a reader sees of a file that is being copied.

<a name="plan"></a>
## Plan

1. Done: `SendQueue` with `OrderedDelivery`, `GraphicsServer` with `Canvas`, `FrameStream`,
   `Connections`, `GraphicsClient` with `Sketch`, `Taskmaster` and `Jobs` with `BuildOrder`, and
   `Rebuild`, and their proofs.
2. Left: `CycleReported` of graphs in which scans raise, and, of generated headers, the half of it
   that `LateHeader` does not break, that a cycle is never passed over.
