------------------------------ MODULE Rebuild ------------------------------
(***************************************************************************)
(* How the vendored SCons decides, in one build after another, what is up  *)
(* to date: the signatures of files (Node/FS.py, Node/__init__.py), their  *)
(* storage in .sconsign.dblite (SConsign.py, dblite.py), the deciders of   *)
(* an Environment, and edits, failures, interrupts and crashes meanwhile.  *)
(*                                                                         *)
(* One worker takes the nodes in an order that has sources first; Jobs and *)
(* Taskmaster are about that order.  A content is a sequence of the values *)
(* that went into it, and is its own signature.                            *)
(***************************************************************************)
EXTENDS Naturals, SequencesExt

CONSTANTS
  Source, Target,  \* the files
  Deps,            \* the children of each target, in order
  Requests,        \* the sequences of nodes that builds may ask for
  Settings,        \* the combinations of decider, max_drift and faults to look at
  MaxContent,      \* a source has one of the contents <<1>> .. <<MaxContent>>
  MaxEdits,        \* bound on the edits
  MaxWrites        \* bound on how often a target is written

File == Source \cup Target
Node == File

ASSUME GraphAssumption ==
  /\ Source \cap Target = {}
  /\ "command" \notin Source
  /\ Deps \in [Target -> Seq(Node)]
  /\ Requests \subseteq Seq(Node)
  /\ \A r \in Requests :
       /\ IsInjective(r)
       /\ \A k \in DOMAIN r :
            r[k] \in Target => \A c \in ToSet(Deps[r[k]]) : \E j \in 1 .. k - 1 : r[j] = c

\* The settings, and the bounds: a build starts only while no target was written
\* MaxWrites times.
ASSUME SettingsAssumption ==
  /\ MaxContent \in Nat \ {0} /\ MaxEdits \in Nat /\ MaxWrites \in Nat \ {0}
  /\ Settings \subseteq [decider : {"content", "timestamp-match", "MD5-timestamp"},
                        max_drift : {"negative", "zero", "positive"},
                        faults : SUBSET {"edits", "command", "failures", "crashes"}]

VARIABLES
  setting,     \* the member of Settings this behaviour is about
  command,     \* the action of the targets, as SConstruct has it
  content,     \* of each file; << >> when it does not exist
  mtime,       \* of each file: how often it was written, for it is new each time
  aged,        \* the files unmodified for longer than max_drift
  db,          \* the entries of .sconsign.dblite
  phase,       \* "idle", "taskmaster", "executing", "writing" or "renaming"
  todo,        \* the nodes the build has still to handle
  status,      \* of the last build: "ok", "failed" or "crashed"
  ninfo,       \* of each node: its csig, << >> before it is known, and timestamp
  to_be_merged,\* the nodes whose information is to be stored
  \* Observers, not in the code:
  requested,   \* what the last build was asked for
  edited,      \* was a source or the command edited since it began?
  had,         \* the contents each source had, and the commands there were
  reverted,    \* did one of them come back?
  edits,       \* how many edits there were
  recorded,    \* is the entry of each target about the file that is there? "no"
               \* from its removal on, "made" when it is, in memory, "yes"
  settled      \* the targets a whole build left up to date, nothing edited since

world == <<setting, command, content, mtime, aged>>
build == <<phase, todo, status, ninfo, to_be_merged>>
history == <<had, reverted>>
observers == <<requested, edited, edits, history, recorded, settled>>
vars == <<world, db, build, observers>>

NoInfo == [csig |-> << >>, timestamp |-> 0]
NoEntry == [ninfo |-> NoInfo, sigs |-> << >>, bactsig |-> 0]
NoEntries == [n \in Node |-> NoEntry]

Allowed(fault) == fault \in setting.faults

Init ==
  /\ setting \in Settings
  /\ command = 1
  /\ content = [f \in File |-> IF f \in Source THEN <<1>> ELSE << >>]
  /\ mtime = [f \in File |-> IF f \in Source THEN 1 ELSE 0]
  /\ aged = {}
  /\ db = NoEntries
  /\ phase = "idle" /\ todo = << >> /\ status = "ok"
  /\ ninfo = [n \in Node |-> NoInfo]
  /\ to_be_merged = {}
  /\ requested = {} /\ edited = FALSE /\ settled = {} /\ reverted = FALSE /\ edits = 0
  /\ had = [x \in Source \cup {"command"} |-> {1}]
  /\ recorded = [t \in Target |-> "yes"]

-----------------------------------------------------------------------------
(***************************************************************************)
(* Signatures, during a build: db is what was read when it began.          *)
(***************************************************************************)
\* get_max_drift_csig: the stored signature, where it may be trusted.
MaxDriftCsig(n) ==
  LET old == db[n].ninfo
  IN CASE setting.max_drift = "positive" ->
            IF n \in aged /\ old.timestamp = mtime[n] THEN old.csig ELSE << >>
       [] setting.max_drift = "zero" -> old.csig
       [] OTHER -> << >>

GetCsig(n) ==
  IF ninfo[n].csig # << >> THEN ninfo[n].csig
  ELSE IF MaxDriftCsig(n) # << >> THEN MaxDriftCsig(n)
  ELSE content[n]

\* What visited() makes of the information of a node.
Visited(n, info) ==
  [csig |-> IF MaxDriftCsig(n) # << >> THEN MaxDriftCsig(n) ELSE info.csig,
   timestamp |-> mtime[n]]

\* What the deciders say of a child, given what was stored for it with the target
\* (NoInfo: nothing)...
TimestampMatches(c, prev) == ninfo[c].timestamp = prev.timestamp
ContentChanged(c, prev) == GetCsig(c) # prev.csig
ChildChanged(c, prev) ==
  CASE setting.decider = "content" -> ContentChanged(c, prev)
    [] setting.decider = "timestamp-match" -> ~TimestampMatches(c, prev)
    [] setting.decider = "MD5-timestamp" ->
         ~TimestampMatches(c, prev) /\ ContentChanged(c, prev)

\* ...and what they leave behind as the signature of the child.
CsigAfter(c, prev) ==
  CASE setting.decider = "timestamp-match" -> ninfo[c].csig
    [] setting.decider = "MD5-timestamp" /\ TimestampMatches(c, prev) ->
         IF prev.csig # << >> THEN prev.csig ELSE ninfo[c].csig
    [] OTHER -> GetCsig(c)

Prev(t, k) == IF k \in DOMAIN db[t].sigs THEN db[t].sigs[k] ELSE NoInfo
DepsChanged(t) ==
  \/ Len(Deps[t]) # Len(db[t].sigs)
  \/ \E k \in DOMAIN Deps[t] : ChildChanged(Deps[t][k], Prev(t, k))
Changed(t) == DepsChanged(t) \/ db[t].bactsig # command

\* Mutated Looked: changed() returns as soon as it finds a difference.
LookedToFirst(t) ==
  {k \in DOMAIN Deps[t] :
     \A j \in 1 .. k - 1 : ~ChildChanged(Deps[t][j], Prev(t, j))}
\* Every child is looked at, changed or not.
Looked(t) == DOMAIN Deps[t]

\* The information of the nodes after changed(t).
AfterChanged(t) ==
  [n \in Node |->
     IF \E k \in Looked(t) : Deps[t][k] = n
     THEN [ninfo[n] EXCEPT !.csig =
             CsigAfter(n, Prev(t, CHOOSE k \in Looked(t) : Deps[t][k] = n))]
     ELSE ninfo[n]]

-----------------------------------------------------------------------------
(***************************************************************************)
(* The users, while a build runs or not.                                   *)
(***************************************************************************)
\* x gets a value, which it may have had.
Given(x, value) ==
  /\ had' = [had EXCEPT ![x] = @ \cup {value}]
  /\ reverted' = (reverted \/ value \in had[x])
  /\ edited' = TRUE /\ settled' = {}

Edit(s, value) ==
  /\ s \in Source
  /\ phase = "idle" \/ Allowed("edits")
  /\ edits < MaxEdits
  /\ edits' = edits + 1
  /\ content' = [content EXCEPT ![s] = <<value>>]
  /\ mtime' = [mtime EXCEPT ![s] = @ + 1]
  /\ aged' = aged \ {s}
  /\ IF content[s] = <<value>>
     THEN edited' = TRUE /\ settled' = {} /\ UNCHANGED history
     ELSE Given(s, value)
  /\ UNCHANGED <<setting, command, db, build, requested, recorded>>

EditCommand ==
  /\ phase = "idle"
  /\ Allowed("command")
  /\ edits < MaxEdits
  /\ edits' = edits + 1
  /\ command' = 3 - command
  /\ Given("command", command')
  /\ UNCHANGED <<setting, content, mtime, aged, db, build, requested, recorded>>

\* Time passes, max_drift and more.
Age ==
  /\ setting.max_drift = "positive"
  /\ aged' = File
  /\ UNCHANGED <<setting, command, content, mtime, db, build, observers>>

-----------------------------------------------------------------------------
(***************************************************************************)
(* A build.                                                                *)
(***************************************************************************)
Start(request) ==
  /\ phase = "idle"
  /\ \A t \in Target : mtime[t] < MaxWrites
  /\ phase' = "taskmaster"
  /\ todo' = request
  /\ ninfo' = [n \in Node |-> NoInfo]
  /\ to_be_merged' = {}
  /\ requested' = ToSet(request) \cap Target
  /\ edited' = FALSE
  /\ UNCHANGED <<world, db, status, edits, history, recorded, settled>>

\* Mutated Finish: the nodes that were not reached are kept.
FinishUnstopped(result) == phase' = "writing" /\ UNCHANGED todo /\ status' = result
Finish(result) == phase' = "writing" /\ todo' = << >> /\ status' = result

VisitSource ==
  /\ phase = "taskmaster" /\ todo # << >>
  /\ LET s == Head(todo)
     IN /\ s \in Source
        /\ ninfo' = [ninfo EXCEPT ![s] = Visited(s, @)]
        /\ to_be_merged' = to_be_merged \cup {s}
  /\ todo' = Tail(todo)
  /\ UNCHANGED <<world, db, phase, status, observers>>

\* No child of t was written since it was visited.
Untouched(t) == \A c \in ToSet(Deps[t]) : ninfo[c].timestamp = mtime[c]

\* With MD5-timestamp the signature stored of a child that was written meanwhile may
\* be one that another target had of it.
UpToDate ==
  /\ phase = "taskmaster" /\ todo # << >>
  /\ LET t == Head(todo)
     IN /\ t \in Target
        /\ content[t] # << >>
        /\ ~Changed(t)
        /\ ninfo' = [AfterChanged(t) EXCEPT ![t] = Visited(t, @)]
        /\ to_be_merged' = to_be_merged \cup {t}
        /\ recorded' = [recorded EXCEPT ![t] =
             IF setting.decider = "MD5-timestamp" /\ ~Untouched(t) THEN "no" ELSE @]
  /\ todo' = Tail(todo)
  /\ UNCHANGED <<world, db, phase, status, requested, edited, edits, history, settled>>

\* The target is removed before its action runs.
OutOfDate ==
  /\ phase = "taskmaster" /\ todo # << >>
  /\ LET t == Head(todo)
     IN /\ t \in Target
        /\ content[t] = << >> \/ Changed(t)
        /\ ninfo' = AfterChanged(t)
        /\ content' = [content EXCEPT ![t] = << >>]
        /\ recorded' = [recorded EXCEPT ![t] = "no"]
  /\ phase' = "executing"
  /\ UNCHANGED <<setting, command, mtime, aged, db, todo, status, to_be_merged,
                 requested, edited, edits, history, settled>>

\* What the action makes of a target now.
Made(t) == <<command>> \o FlattenSeq([k \in DOMAIN Deps[t] |-> content[Deps[t][k]]])

Written(t, c) ==
  /\ content' = [content EXCEPT ![t] = c]
  /\ mtime' = [mtime EXCEPT ![t] = @ + 1]
  /\ aged' = aged \ {t}

\* The action succeeds; built() and visited() look at the new file.
Executed ==
  /\ phase = "executing"
  /\ LET t == Head(todo)
     IN /\ Written(t, Made(t))
        /\ ninfo' = [ninfo EXCEPT ![t] =
             [csig |-> IF setting.max_drift = "zero" /\ db[t].ninfo.csig # << >>
                       THEN db[t].ninfo.csig ELSE Made(t),
              timestamp |-> mtime'[t]]]
        /\ to_be_merged' = to_be_merged \cup {t}
  /\ phase' = "taskmaster"
  /\ todo' = Tail(todo)
  /\ recorded' = [recorded EXCEPT ![Head(todo)] = IF Untouched(Head(todo)) THEN "made" ELSE "no"]
  /\ UNCHANGED <<setting, command, db, status, requested, edited, edits, history, settled>>

\* The action fails, or is interrupted, and leaves nothing or a part of a file:
\* the build stops and stores what it has.
Fails ==
  /\ phase = "executing"
  /\ Allowed("failures")
  /\ \/ Written(Head(todo), <<0>>)
     \/ UNCHANGED <<content, mtime, aged>>
  /\ Finish("failed")
  /\ UNCHANGED <<setting, command, db, ninfo, to_be_merged, observers>>

Interrupt ==
  /\ phase = "taskmaster"
  /\ Allowed("failures")
  /\ Finish("failed")
  /\ UNCHANGED <<world, db, ninfo, to_be_merged, observers>>

Done ==
  /\ phase = "taskmaster" /\ todo = << >>
  /\ Finish("ok")
  /\ UNCHANGED <<world, db, ninfo, to_be_merged, observers>>

-----------------------------------------------------------------------------
(***************************************************************************)
(* SConsign.write(): the information is merged with what was stored...     *)
(***************************************************************************)
Merged(old, new) ==
  [csig |-> IF new.csig # << >> THEN new.csig ELSE old.csig, timestamp |-> new.timestamp]

\* Mutated StoredSig: the files are looked at again when their signatures are stored.
SigAtWrite(c) == [csig |-> content[c], timestamp |-> mtime[c]]
\* What is stored of a child with its parent: what this build knows of it.
StoredSig(c) == ninfo[c]

Entry(n) ==
  IF n \notin to_be_merged THEN db[n]
  ELSE [ninfo |-> Merged(db[n].ninfo, ninfo[n]),
        sigs |-> IF n \in Source THEN db[n].sigs
                 ELSE [k \in DOMAIN Deps[n] |-> StoredSig(Deps[n][k])],
        bactsig |-> IF n \in Source THEN db[n].bactsig ELSE command]

\* ...and the old file goes before the new one gets its name.  What is to be
\* stored is in the temporary file, and in memory.
Unlink ==
  /\ phase = "writing"
  /\ phase' = "renaming"
  /\ UNCHANGED <<world, db, todo, status, ninfo, to_be_merged, observers>>

Rename ==
  /\ phase = "renaming"
  /\ phase' = "idle"
  /\ db' = [n \in Node |-> Entry(n)]
  /\ to_be_merged' = {}
  /\ ninfo' = [n \in Node |-> NoInfo]
  /\ recorded' = [t \in Target |-> IF recorded[t] = "made" THEN "yes" ELSE recorded[t]]
  /\ settled' = IF status = "ok" /\ ~edited THEN settled \cup requested ELSE settled
  /\ UNCHANGED <<world, todo, status, requested, edited, edits, history>>

\* Whatever is in memory is lost; between unlink and rename so is the file.
Crash ==
  /\ phase # "idle"
  /\ Allowed("crashes")
  /\ phase' = "idle" /\ todo' = << >> /\ status' = "crashed"
  /\ ninfo' = [n \in Node |-> NoInfo]
  /\ to_be_merged' = {}
  /\ db' = IF phase = "renaming" THEN NoEntries ELSE db
  /\ recorded' = [t \in Target |-> IF recorded[t] = "made" THEN "no" ELSE recorded[t]]
  /\ settled' = {}
  /\ UNCHANGED <<world, requested, edited, edits, history>>

Step ==
  \/ VisitSource \/ UpToDate \/ OutOfDate \/ Executed \/ Fails \/ Interrupt \/ Done
  \/ Unlink \/ Rename \/ Crash

Next ==
  \/ \E s \in Source, value \in 1 .. MaxContent : Edit(s, value)
  \/ EditCommand \/ Age
  \/ \E request \in Requests : Start(request)
  \/ Step

Spec == Init /\ [][Next]_vars

-----------------------------------------------------------------------------
(***************************************************************************)
(* What the builds promise.                                                *)
(***************************************************************************)
Times == 0 .. MaxWrites + MaxEdits
Infos == [csig : Seq(Nat), timestamp : Times]
Entries == [ninfo : Infos, sigs : Seq(Infos), bactsig : 0 .. 2]

\* TypeOK: the sets the variables range over; an entry has a signature for each
\* child or none; a build that is over, or stores its information, has no node left
\* to handle.
TypeOK ==
  /\ setting \in Settings /\ command \in {1, 2}
  /\ content \in [File -> Seq(Nat)] /\ mtime \in [File -> Times] /\ aged \subseteq File
  /\ db \in [Node -> Entries]
  /\ \A t \in Target : Len(db[t].sigs) \in {0, Len(Deps[t])}
  /\ phase \in {"idle", "taskmaster", "executing", "writing", "renaming"}
  /\ todo \in Seq(Node) /\ (phase \in {"idle", "writing", "renaming"} => todo = << >>)
  /\ status \in {"ok", "failed", "crashed"}
  /\ ninfo \in [Node -> Infos] /\ to_be_merged \subseteq Node
  /\ requested \subseteq Target /\ settled \subseteq Target
  /\ edited \in BOOLEAN /\ reverted \in BOOLEAN /\ edits \in 0 .. MaxEdits
  /\ had \in [Source \cup {"command"} -> SUBSET (1 .. MaxContent \cup {1, 2})]
  /\ recorded \in [Target -> {"yes", "made", "no"}]

\* Every source is followed by a target that depends on it, as the nodes of a build are
\* when nothing is asked for that nothing is made of.
Needed(nodes) ==
  \A k \in 1 .. Len(nodes) : nodes[k] \in Source =>
    \E j \in k + 1 .. Len(nodes) :
      nodes[j] \in Target /\ nodes[k] \in ToSet(Deps[nodes[j]])

\* The settings with which a stored signature is of the file it is compared with: a
\* timestamp decides, or every build looks at the contents, or no build was ever cut
\* short or looked at a source for nothing.
Trustworthy(s) ==
  \/ s.decider = "timestamp-match"
  \/ s.max_drift = "negative"
  \/ /\ s.max_drift = "positive"
     /\ s.faults \cap {"failures", "crashes"} = {}
     /\ \A r \in Requests : Needed(r)

\* Fresh: after a build that succeeded and during which nobody edited anything,
\* every target asked for is what its action makes of its children as they are,
\* whatever was edited, interrupted, failed or lost in the builds before; when
\* contents come back, for targets whose entry is about the file that is there
\* (Node/__init__.py:1015, Node/FS.py:2700, SConsign.py:166).
Fresh ==
  phase = "idle" /\ status = "ok" /\ ~edited =>
    \A t \in requested : ~reverted \/ recorded[t] = "yes" => content[t] = Made(t)

\* NotAgain: what a whole build left up to date is not built again before
\* something is edited or a build crashes: not by a build of something else, nor
\* by one that is interrupted and stores a part of the information
\* (Node/__init__.py:1023, SConsign.py:157).
NotAgain == phase = "executing" => Head(todo) \notin settled
=============================================================================
