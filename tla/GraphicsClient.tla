--------------------------- MODULE GraphicsClient ---------------------------
(***************************************************************************)
(* The client side of the graphics library (simpleprotographics/           *)
(* graphics.cpp): threads of a program draw on one Graphics object and     *)
(* send frames; graphics_mutex protects cur_trans from all of them but     *)
(* DrawMap, and DrawFrame holds it until the frame is sent.                *)
(*                                                                         *)
(* Shapes, colours, sizes and scales are items alike.  How a frame gets    *)
(* through the socket is the subject of FrameStream: here it is sent, or   *)
(* SendMessage throws before its first byte or after some.  The thread     *)
(* that receives takes the socket off the list when the server is gone     *)
(* (rpc.cpp), after which a frame goes to nobody.  DrawMap takes no lock:  *)
(* the model is of programs that call it while no other call is going on.  *)
(***************************************************************************)
EXTENDS Naturals, SequencesExt

CONSTANTS
  Thread,     \* the threads that draw
  Shape,      \* what they draw
  Data,       \* the arrays of map data, whose contents never change
  MaxItems,   \* bound on the items of a frame
  MaxFrames,  \* bound on the frames sent
  None        \* no thread, no data

ASSUME NoneAssumption ==
  None \notin Thread \cup Shape \cup Data \cup {"map"} /\ "map" \notin Shape
ASSUME BoundsAssumption == MaxItems \in Nat /\ MaxFrames \in Nat

VARIABLES
  enabled,         \* FALSE for the host "disabled"
  listed,          \* is the socket in sock_list?
  torn,            \* did SendMessage throw in the middle of a frame?
  graphics_mutex,  \* who holds it, or None
  call,            \* the call of each thread, as far as it has come
  cur_trans,       \* the transaction being filled: its items and its flag
  old_data,        \* the data of the last DrawMap
  wire             \* the transactions sent whole, at their place in the stream

connection == <<enabled, listed, torn>>
vars == <<connection, graphics_mutex, call, cur_trans, old_data, wire>>

\* An item has what add_message() gives it until it is set.
Unset == [shape |-> None, data |-> None]
ShapeItem(shape) == [shape |-> shape, data |-> None]
MapItem(data) == [shape |-> "map", data |-> data]
Item == [shape : Shape \cup {"map", None}, data : Data \cup {None}]
Transaction == [items : Seq(Item), persistent : BOOLEAN]

EmptyTransaction == [items |-> << >>, persistent |-> FALSE]

\* TypeOK: the sets the variables range over; the mutex is held by exactly the
\* thread that is in a call that takes it.
TypeOK ==
  /\ enabled \in BOOLEAN /\ listed \in BOOLEAN /\ torn \in BOOLEAN
  /\ call \in [Thread -> {"none", "drawing", "mapping", "sending", "skipping"}]
  /\ \A t \in Thread :
       graphics_mutex = t <=> call[t] \in {"drawing", "sending", "skipping"}
  /\ graphics_mutex \in Thread \cup {None}
  /\ cur_trans \in Transaction /\ wire \in Seq(Transaction)
  /\ old_data \in Data \cup {None}

Init ==
  /\ enabled \in BOOLEAN
  /\ listed = enabled
  /\ torn = FALSE
  /\ graphics_mutex = None
  /\ call = [t \in Thread |-> "none"]
  /\ cur_trans = EmptyTransaction
  /\ old_data = None
  /\ wire = << >>

-----------------------------------------------------------------------------
\* A call that takes the mutex; without a connection it returns at once.
Enter(t, name) ==
  /\ enabled
  /\ call[t] = "none" /\ graphics_mutex = None
  /\ \A u \in Thread : call[u] # "mapping"
  /\ graphics_mutex' = t
  /\ call' = [call EXCEPT ![t] = name]

Leave(t) ==
  /\ graphics_mutex' = None
  /\ call' = [call EXCEPT ![t] = "none"]

\* Mutated Throw: the mutex is unlocked after SendMessage, not by a destructor.
ThrowLocked(t) == call' = [call EXCEPT ![t] = "none"] /\ UNCHANGED graphics_mutex
Throw(t) == Leave(t)

AddMessage ==
  /\ Len(cur_trans.items) < MaxItems
  /\ cur_trans' = [cur_trans EXCEPT !.items = Append(@, Unset)]

SetMessage(item) == [cur_trans EXCEPT !.items[Len(cur_trans.items)] = item]

\* SetColor, DrawPoint, DrawLine, SetPointSize, DrawCircle and SetScale.
BeginDraw(t) ==
  /\ Enter(t, "drawing")
  /\ AddMessage
  /\ UNCHANGED <<connection, old_data, wire>>

EndDraw(t) ==
  /\ call[t] = "drawing"
  /\ Leave(t)
  /\ \E shape \in Shape : cur_trans' = SetMessage(ShapeItem(shape))
  /\ UNCHANGED <<connection, old_data, wire>>

BeginMap(t) ==
  /\ \A u \in Thread : call[u] = "none"
  /\ call' = [call EXCEPT ![t] = "mapping"]
  /\ AddMessage
  /\ UNCHANGED <<connection, graphics_mutex, old_data, wire>>

\* The data goes with the message only when it is not that of the call before.
EndMap(t) ==
  /\ call[t] = "mapping"
  /\ call' = [call EXCEPT ![t] = "none"]
  /\ \E data \in Data :
       /\ cur_trans' = SetMessage(MapItem(IF old_data # data THEN data ELSE None))
       /\ old_data' = data
  /\ UNCHANGED <<connection, graphics_mutex, wire>>

\* The flag is set and never taken back; msg is then cur_trans, which nobody
\* changes while DrawFrame holds the mutex.  SendMessage walks sock_list, which
\* has the socket or is empty.
BeginFrame(t, persistent) ==
  /\ Enter(t, IF listed THEN "sending" ELSE "skipping")
  /\ Len(wire) < MaxFrames
  /\ cur_trans' = [cur_trans EXCEPT !.persistent = @ \/ persistent]
  /\ UNCHANGED <<connection, old_data, wire>>

\* The bytes of a frame behind a torn one are no frame to the server.
Sent == IF torn THEN wire ELSE Append(wire, cur_trans)

EndFrame(t) ==
  /\ call[t] = "sending"
  /\ Leave(t)
  /\ wire' = Sent
  /\ cur_trans' = EmptyTransaction
  /\ UNCHANGED <<connection, old_data>>

\* The walk over an empty list sends nothing, and DrawFrame returns all the same.
SkipFrame(t) ==
  /\ call[t] = "skipping"
  /\ Leave(t)
  /\ cur_trans' = EmptyTransaction
  /\ UNCHANGED <<connection, old_data, wire>>

\* Mutated Unsent: Clear() before SendMessage.
ClearedFirst == EmptyTransaction
Unsent == cur_trans

\* SendMessage throws before it sent anything, or after a part of the frame.
FrameThrows(t) ==
  /\ call[t] = "sending"
  /\ Throw(t)
  /\ \E part \in BOOLEAN : torn' = (torn \/ part)
  /\ cur_trans' = Unsent
  /\ UNCHANGED <<enabled, listed, old_data, wire>>

\* The frame is sent, but the socket was taken off the list under the walk: it
\* goes on behind the end of the deque, where send() fails.
Overrun(t) ==
  /\ call[t] = "sending" /\ ~listed
  /\ Throw(t)
  /\ wire' = Sent
  /\ cur_trans' = Unsent
  /\ UNCHANGED <<connection, old_data>>

\* PollMessage, in the receiving thread, finds the connection ended.
ConnectionLost ==
  /\ listed
  /\ listed' = FALSE
  /\ UNCHANGED <<enabled, torn, graphics_mutex, call, cur_trans, old_data, wire>>

Next ==
  \/ \E t \in Thread :
       \/ BeginDraw(t) \/ EndDraw(t) \/ BeginMap(t) \/ EndMap(t)
       \/ \E persistent \in BOOLEAN : BeginFrame(t, persistent)
       \/ EndFrame(t) \/ SkipFrame(t) \/ FrameThrows(t) \/ Overrun(t)
  \/ ConnectionLost

Spec == Init /\ [][Next]_vars

-----------------------------------------------------------------------------
(***************************************************************************)
(* What the server makes of it.                                            *)
(***************************************************************************)
Frames == Append(wire, cur_trans)

\* The places of the items that bring data, up to item k of frame f.
BringData(f, k) ==
  {p \in (1 .. f) \X (1 .. MaxItems) :
     /\ p[2] \in DOMAIN Frames[p[1]].items
     /\ p[1] < f \/ p[2] <= k
     /\ Frames[p[1]].items[p[2]].data # None}

NotBefore(p, q) == q[1] < p[1] \/ (q[1] = p[1] /\ q[2] <= p[2])
Latest(places) == CHOOSE p \in places : \A q \in places : NotBefore(p, q)

\* A map is drawn with the data that came last (Map::DrawMap).
Shown(f, k) ==
  LET item == Frames[f].items[k]
      last == Latest(BringData(f, k))
  IN IF item.shape # "map" \/ BringData(f, k) = {} THEN item
     ELSE MapItem(Frames[last[1]].items[last[2]].data)

\* The item that a call in progress added to the current frame, the last one,
\* is not drawn yet; every other item is.
Complete(f) ==
  LET items == Frames[f].items
  IN IF f > Len(wire) /\ items # << >> /\ items[Len(items)] = Unset
     THEN Len(items) - 1 ELSE Len(items)

DrawnIn(f) == [k \in 1 .. Complete(f) |-> Shown(f, k)]

\* What is drawn can still reach the server: the stream is whole, and the socket
\* is listed or was when the frame being sent began.
Open == ~torn /\ (listed \/ \E t \in Thread : call[t] = "sending")

Promised == INSTANCE Sketch WITH
  Drawing <- {ShapeItem(shape) : shape \in Shape} \cup {MapItem(data) : data \in Data},
  open <- Open,
  page <- IF Open THEN DrawnIn(Len(wire) + 1) ELSE << >>,
  persistent <- Open /\ cur_trans.persistent,
  book <- [f \in DOMAIN wire |->
             [drawings |-> DrawnIn(f), persistent |-> wire[f].persistent]]

\* ImplementsSketch: whatever threads draw and however often a send fails, every
\* drawing is in exactly one frame, complete, in the order the calls ended; a
\* frame that failed goes with the next one, and keeps its flag; and a map whose
\* data was not sent again is shown with its data.  All this until the server is
\* gone or a frame was torn: what is drawn from then on is lost, though DrawFrame
\* may return as if it were sent, and what the server has stays as it is
\* (graphics.cpp:80-110, rpc.cpp:143-166).
ImplementsSketch == Promised!Spec
=============================================================================
