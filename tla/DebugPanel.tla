----------------------------- MODULE DebugPanel -----------------------------
(***************************************************************************)
(* The test window of the frontend: debugStore (stores/debug.svelte.ts)    *)
(* and the editor that shows its source (TestWindow.svelte).               *)
(*                                                                         *)
(* Every key starts a chain of calls, and nothing but the toolbar's        *)
(* buttons, which the keys of the editor pass by, keeps two chains apart.  *)
(* A call reaches the sidecar at once; its answer takes time.  Steps and   *)
(* reads of values wait for each other on the debugger's connection        *)
(* (wire).  The sidecar's session is reduced to what the panel sees of it; *)
(* DebugSession models the rest.                                           *)
(***************************************************************************)
EXTENDS Naturals, Sequences, SequencesExt, FiniteSets

CONSTANTS
  Objects,     \* the objects a window is opened for
  Library,     \* those a step may enter besides
  Lines,       \* the lines of an object a program stops at
  MemberOf,    \* the members of a package, by object
  NameOf,      \* the name of an object, without its owner
  MaxFlying,   \* bounds: the chains at once, and
  MaxChains,   \* in a run, and its edits and breakpoints
  MaxTouches,
  Null

Chains == 1 .. MaxFlying
Anything == Objects \cup Library

VARIABLES
  opened,      \* owner and objectName of the store
  members,     \* its memberList
  status, frame, liveVars, localVars, errorMessage,
  script,      \* the text that is run: the object it is of, and its kind
  editor,      \* editorSource, editorObject, and the view that shows them
  breakpoints,
  chain,       \* chain[c]: a handler on its way, and the answer it was given
  dbg,         \* the sidecar's session: who started it, and where it stands
  wire,        \* the chains that wait for the debugger's connection
  unopened,    \* history: the script and the source are not of `opened'
  begun,       \* how many chains began, and how often the editor was touched
  touched,
  past         \* history: what happened that undoes a promise

shownVars == <<status, frame, liveVars, localVars, errorMessage>>
panelVars == <<opened, members, shownVars, script, editor, breakpoints, chain, dbg, wire, unopened, begun, touched, past>>

Text(o, kind) == [of |-> o, kind |-> kind, edited |-> FALSE]
NoText == Text(Null, "none")
(* What a call is answered besides a frame, and what is shown besides one. *)
Error == <<"error", 0>>
Completed == <<"completed", 0>>
Ok == <<"ok", 0>>
Nulls == <<"nulls", 0>>
Out == <<"out", 0>>

(* Whom a window is of, what a call is answered, and a session.            *)
Heads == Anything \cup {Null, "error", "completed", "ok", "nulls", "out"}
Answers == Heads \X (Lines \cup {0})
PanelSession == [of : Heads, at : Answers \cup {Null}]

(* No answer is Null, lines count from 1, and a member of a package is not *)
(* the package.                                                            *)
ASSUME PanelAssumption ==
  /\ Null \notin Answers \cup PanelSession /\ 0 \notin Lines
  /\ \A o \in Objects : o \notin MemberOf[o]

NoChain == [kind |-> "none", pc |-> "none", of |-> Null, at |-> Null, reply |-> Null]

PanelInit ==
  /\ opened = Null /\ members = {} /\ script = NoText /\ breakpoints = {}
  /\ status = "idle" /\ frame = Null /\ liveVars = Null /\ localVars = Null /\ errorMessage = FALSE
  /\ editor = [source |-> NoText, object |-> Null, view |-> Null]
  /\ chain = [c \in Chains |-> NoChain]
  /\ dbg = Null /\ wire = <<>>
  /\ past = [adrift |-> FALSE, unmarked |-> FALSE]
  /\ unopened = TRUE /\ begun \in 0 .. 1 /\ touched = 1 - begun

InFlight == {c \in Chains : chain[c] # NoChain}

-----------------------------------------------------------------------------
(* The editor.  Its effect runs again when the source changes and, if it   *)
(* built the view the last time, when the breakpoints or the object do: a  *)
(* view whose text is not the source is then built anew, with the marks of *)
(* the object shown.                                                       *)
MarksOf(o, bps) == {b.line : b \in {x \in bps : x.of = o}}

(* Mutation: a view that is built anew has no marks.                       *)
Shown_Unmarked(e, bps, due) ==
  IF e.view = Null \/ ~due THEN e
  ELSE IF e.view.text = e.source THEN [e EXCEPT !.view.watches = FALSE]
  ELSE [e EXCEPT !.view = [text |-> e.source, watches |-> TRUE, marks |-> {}]]

Shown(e, bps, due) ==
  IF e.view = Null \/ ~due THEN e
  ELSE IF e.view.text = e.source THEN [e EXCEPT !.view.watches = FALSE]
  ELSE [e EXCEPT !.view = [text |-> e.source, watches |-> TRUE, marks |-> MarksOf(e.object, bps)]]

Watches == editor.view # Null /\ editor.view.watches

(* History: the view is built anew where no object is shown, and loses its *)
(* marks.                                                                  *)
LosesMarks(e, bps, due) ==
  IF e.view = Null \/ ~due \/ e.view.text = e.source THEN past.unmarked
  ELSE e.object = Null /\ bps # {}

SourceSet(text, o) ==
  LET e == [editor EXCEPT !.source = text, !.object = o]
      due == text # editor.source \/ (Watches /\ o # editor.object) IN
  /\ editor' = Shown(e, breakpoints, due)
  /\ past' = [past EXCEPT !.unmarked = LosesMarks(e, breakpoints, due)]

(* An edit reaches the script only while the store is idle.                *)
Edited ==
  /\ touched < MaxTouches /\ touched' = touched + 1
  /\ editor.view # Null /\ editor.view.text # NoText /\ ~editor.view.text.edited
  /\ editor' = [editor EXCEPT !.view.text.edited = TRUE]
  /\ script' = IF status = "idle" THEN editor'.view.text ELSE script
  /\ UNCHANGED <<unopened, begun, opened, members, shownVars, breakpoints, chain, dbg, wire, past>>

(* Mutation: a breakpoint is found by its line.                            *)
SameBreakpoint_ByLine(b, o, line) == b.line = line
SameBreakpoint(b, o, line) == b.line = line /\ NameOf[b.of] = NameOf[o]

(* Of the object shown, or of the one the window is for.  History: that of *)
(* another's object of the same name is taken for it.                      *)
BreakpointToggled(line) ==
  LET o == IF editor.object = Null THEN opened ELSE editor.object
      here == {b \in breakpoints : SameBreakpoint(b, o, line)}
      bps == IF here = {} THEN breakpoints \cup {[of |-> o, line |-> line]} ELSE breakpoints \ here
      marks == editor.view.marks
      marked == IF line \in marks THEN marks \ {line} ELSE marks \cup {line} IN
  /\ touched < MaxTouches /\ touched' = touched + 1
  /\ editor.view # Null
  /\ breakpoints' = bps
  /\ editor' = Shown([editor EXCEPT !.view.marks = marked], bps, Watches)
  /\ past' = [past EXCEPT !.unmarked = LosesMarks(editor, bps, Watches) \/ \E b \in here : b.of # o]
  /\ UNCHANGED <<unopened, begun, opened, members, shownVars, script, chain, dbg, wire>>

-----------------------------------------------------------------------------
(* Chains, and what the sidecar does with their calls.                     *)
Fresh(c) ==
  /\ chain[c] = NoChain /\ \A b \in 1 .. c - 1 : chain[b] # NoChain
  /\ begun < MaxChains /\ begun' = begun + 1
Begun(chains, c, kind, pc, o, reply) ==
  [chains EXCEPT ![c] = [kind |-> kind, pc |-> pc, of |-> o, at |-> Null, reply |-> reply]]
Begins(c, chains) ==
  /\ editor.view # Null /\ Fresh(c) /\ chain' = chains
  /\ LET kind == chains[c].kind IN
     past' = [past EXCEPT !.adrift = InFlight # {} \/ (kind = "run" /\ dbg # Null)
                                                \/ (@ /\ kind \notin {"start", "stop"})]

Goes(c, pc, reply) == chain' = [chain EXCEPT ![c].pc = pc, ![c].reply = reply]
Ends(c) == chain' = [chain EXCEPT ![c] = NoChain]
Waiting(c, pc) == chain[c].pc = pc /\ chain[c].reply = Null
Replied(c, pc) == chain[c].pc = pc /\ chain[c].reply # Null

(* A session is stopped: what waits for its connection comes back, a step  *)
(* as completed, a start as failed, a read without values.                 *)
Stopped(chains) ==
  [c \in Chains |->
     IF ~Contains(wire, c) THEN chains[c]
     ELSE [chains[c] EXCEPT !.reply = CASE chains[c].pc = "step" -> Completed
                                        [] chains[c].pc = "sync" -> Error
                                        [] OTHER -> Nulls]]

(* A call about the session that is sent by a chain: it waits for the      *)
(* connection, or is refused at once where no session is.                  *)
CallsWire(c, pc) ==
  IF dbg = Null THEN Goes(c, pc, Error) /\ UNCHANGED wire
  ELSE Goes(c, pc, Null) /\ wire' = Append(wire, c)

(* What a program may stop at: its object, or what that calls.             *)
Frames == (Library \cup {dbg.of}) \X Lines

(* debug.start: the lock, the end of the session before, two connections.  *)
LockTaken(c) ==
  /\ Waiting(c, "lock") /\ \A b \in Chains : chain[b].pc # "build" /\ ~Waiting(b, "sync")
  /\ chain' = [Stopped(chain) EXCEPT ![c].pc = "build"]
  /\ dbg' = Null /\ wire' = <<>>
  /\ UNCHANGED <<unopened, begun, touched, opened, members, shownVars, script, editor, breakpoints, past>>
BuildFails(c) ==
  /\ Waiting(c, "build") /\ Goes(c, "sync", Error)
  /\ UNCHANGED <<unopened, begun, touched, opened, members, shownVars, script, editor, breakpoints, dbg, wire, past>>
SessionBuilt(c) ==
  /\ Waiting(c, "build") /\ Goes(c, "sync", Null)
  /\ dbg' = [of |-> chain[c].of, at |-> Null] /\ wire' = <<c>>
  /\ UNCHANGED <<unopened, begun, touched, opened, members, shownVars, script, editor, breakpoints, past>>

(* The call at the head of the wire: the program stops somewhere, or ends. *)
ProgramStops(c, f) ==
  /\ wire # <<>> /\ c = Head(wire) /\ chain[c].pc \in {"sync", "step"}
  /\ Goes(c, chain[c].pc, f)
  /\ dbg' = [dbg EXCEPT !.at = f] /\ wire' = Tail(wire)
  /\ UNCHANGED <<unopened, begun, touched, opened, members, shownVars, script, editor, breakpoints, past>>
ProgramEnds(c) ==
  /\ wire # <<>> /\ c = Head(wire) /\ chain[c].pc \in {"sync", "step"}
  /\ chain' = Stopped(chain)
  /\ dbg' = Null /\ wire' = <<>>
  /\ UNCHANGED <<unopened, begun, touched, opened, members, shownVars, script, editor, breakpoints, past>>
ValuesRead(c) ==
  /\ wire # <<>> /\ c = Head(wire) /\ chain[c].pc \in {"values", "locals"}
  /\ Goes(c, chain[c].pc, dbg.at) /\ wire' = Tail(wire)
  /\ UNCHANGED <<unopened, begun, touched, opened, members, shownVars, script, editor, breakpoints, dbg, past>>

-----------------------------------------------------------------------------
(* The store's operations.                                                 *)

(* open() of the object from the tree, which mounts the window, or of a    *)
(* member of the package from its list: what is shown is reset before the  *)
(* call, the script and the source are not.                                *)
Opens(c, o) ==
  /\ IF editor.view = Null THEN o \in Objects ELSE o \in members
  /\ LET e == IF editor.view # Null THEN editor
              ELSE [editor EXCEPT !.view = [text |-> editor.source, watches |-> FALSE, marks |-> {}]]
     IN editor' = Shown(e, {}, Watches /\ breakpoints # {})
  /\ Fresh(c) /\ chain' = Begun(chain, c, "open", "open", o, Null)
  /\ opened' = o /\ breakpoints' = {}
  /\ status' = "idle" /\ frame' = Null /\ liveVars' = Null /\ localVars' = Null /\ errorMessage' = FALSE
  /\ past' = [past EXCEPT !.adrift = @ \/ InFlight # {} \/ dbg # Null, !.unmarked = FALSE]
  /\ unopened' = TRUE
  /\ UNCHANGED <<touched, members, script, dbg, wire>>

(* The call's answer, whichever open() it is of.                           *)
OpenAnswered(c, ok) ==
  LET o == chain[c].of IN
  /\ Waiting(c, "open") /\ Ends(c)
  /\ IF ok THEN /\ script' = Text(o, "script") /\ members' = MemberOf[o]
                /\ SourceSet(Text(o, "script"), Null)
                /\ unopened' = (o # opened)
                /\ UNCHANGED errorMessage
     ELSE errorMessage' = TRUE /\ unopened' = TRUE /\ UNCHANGED <<script, members, editor, past>>
  /\ UNCHANGED <<opened, begun, touched, status, frame, liveVars, localVars, breakpoints, dbg, wire>>

Runs(c) ==
  /\ Begins(c, Begun(chain, c, "run", "run", opened, Null))
  /\ status' = "running" /\ errorMessage' = FALSE
  /\ UNCHANGED <<unopened, touched, opened, members, frame, liveVars, localVars, script, editor, breakpoints, dbg, wire>>

(* A run is answered: its output, an error, or a lost session, which stops *)
(* the debugger first.                                                     *)
RunAnswered(c, how) ==
  /\ Waiting(c, "run")
  /\ CASE how = "ok" ->
            /\ liveVars' = Out /\ status' = "completed" /\ Ends(c)
            /\ UNCHANGED <<errorMessage, dbg, wire>>
       [] how = "error" ->
            /\ errorMessage' = TRUE /\ status' = "error" /\ Ends(c)
            /\ UNCHANGED <<liveVars, dbg, wire>>
       [] how = "lost" ->
            /\ errorMessage' = TRUE
            /\ chain' = [Stopped(chain) EXCEPT ![c].pc = "stop", ![c].reply = Ok]
            /\ dbg' = Null /\ wire' = <<>>
            /\ UNCHANGED <<status, liveVars>>
  /\ UNCHANGED <<unopened, begun, touched, opened, members, frame, localVars, script, editor, breakpoints, past>>

Starts(c) ==
  /\ Begins(c, Begun(chain, c, "start", "lock", opened, Null))
  /\ status' = "running" /\ errorMessage' = FALSE /\ frame' = Null
  /\ UNCHANGED <<unopened, touched, opened, members, liveVars, localVars, script, editor, breakpoints, dbg, wire>>

(* Into, over, out and continue are the same to the panel.                 *)
Steps(c) ==
  /\ Begins(c, Begun(chain, c, "step", "step", opened, IF dbg = Null THEN Error ELSE Null))
  /\ wire' = IF dbg = Null THEN wire ELSE Append(wire, c)
  /\ UNCHANGED <<unopened, touched, opened, members, shownVars, script, editor, breakpoints, dbg>>

(* Stop, and the window's close, which unmounts the view and stops.        *)
Stops(c, closes) ==
  /\ Begins(c, Begun(Stopped(chain), c, "stop", "stop", opened, Ok))
  /\ dbg' = Null /\ wire' = <<>>
  /\ editor' = IF closes THEN [editor EXCEPT !.view = Null] ELSE editor
  /\ UNCHANGED <<unopened, touched, opened, members, shownVars, script, breakpoints>>

StopAnswered(c) ==
  /\ Replied(c, "stop") /\ Ends(c)
  /\ status' = IF chain[c].kind = "run" THEN "error" ELSE "idle"
  /\ frame' = Null /\ liveVars' = Null /\ localVars' = Null /\ errorMessage' = FALSE
  /\ UNCHANGED <<unopened, begun, touched, opened, members, script, editor, breakpoints, dbg, wire, past>>

-----------------------------------------------------------------------------
(* What is done with a stop of the program (_applyPauseInfo).              *)
Applies(c) ==
  IF chain[c].reply = Completed
  THEN /\ status' = "completed" /\ frame' = Null /\ Ends(c)
       /\ liveVars' = Out
       /\ UNCHANGED <<errorMessage, wire>>
  ELSE /\ status' = "paused" /\ frame' = chain[c].reply
       /\ chain' = [chain EXCEPT ![c].pc = "values", ![c].at = chain[c].reply,
                                 ![c].reply = IF dbg = Null THEN Error ELSE Null]
       /\ wire' = IF dbg = Null THEN wire ELSE Append(wire, c)
       /\ UNCHANGED <<liveVars, errorMessage>>

StartAnswered(c) ==
  /\ Replied(c, "sync")
  /\ IF status = "idle" THEN Ends(c) /\ UNCHANGED <<status, frame, liveVars, errorMessage, wire>>
     ELSE IF chain[c].reply = Error
       THEN status' = "error" /\ errorMessage' = TRUE /\ Ends(c) /\ UNCHANGED <<frame, liveVars, wire>>
     ELSE Applies(c)
  /\ UNCHANGED <<unopened, begun, touched, opened, members, localVars, script, editor, breakpoints, dbg, past>>

StepAnswered(c) ==
  /\ Replied(c, "step")
  /\ IF chain[c].reply = Error
     THEN errorMessage' = TRUE /\ Ends(c) /\ UNCHANGED <<status, frame, liveVars, wire>>
     ELSE Applies(c)
  /\ UNCHANGED <<unopened, begun, touched, opened, members, localVars, script, editor, breakpoints, dbg, past>>

(* _refreshLocalVars: of a program that is not stopped there are none.     *)
Locals(c) ==
  IF status # "paused" THEN localVars' = Null /\ Ends(c) /\ UNCHANGED wire
  ELSE CallsWire(c, "locals") /\ UNCHANGED localVars

(* The values, and the call stack after them, which is always empty.       *)
ValuesAnswered(c) ==
  /\ Replied(c, "values")
  /\ liveVars' = IF chain[c].reply = Error THEN liveVars ELSE chain[c].reply
  /\ IF editor.object # chain[c].at[1] THEN Goes(c, "source", Null) /\ UNCHANGED <<localVars, wire>>
     ELSE Locals(c)
  /\ UNCHANGED <<unopened, begun, touched, opened, members, status, frame, errorMessage, script, editor, breakpoints, dbg, past>>

SourceAnswered(c, ok) ==
  /\ Waiting(c, "source")
  /\ IF ok THEN SourceSet(Text(chain[c].at[1], "source"), chain[c].at[1])
     ELSE UNCHANGED <<editor, past>>
  /\ Locals(c)
  /\ UNCHANGED <<unopened, begun, touched, opened, members, status, frame, liveVars, errorMessage, script, breakpoints, dbg>>

LocalsAnswered(c) ==
  /\ Replied(c, "locals") /\ Ends(c)
  /\ localVars' = CASE chain[c].reply = Error -> localVars
                     [] chain[c].reply = Nulls -> Null
                     [] OTHER -> chain[c].reply
  /\ UNCHANGED <<unopened, begun, touched, opened, members, status, frame, liveVars, errorMessage, script, editor, breakpoints,
                 dbg, wire, past>>

-----------------------------------------------------------------------------
SidecarStep(c) ==
  \/ LockTaken(c) \/ BuildFails(c) \/ SessionBuilt(c)
  \/ wire # <<>> /\ \E f \in Frames : ProgramStops(c, f)
  \/ ProgramEnds(c) \/ ValuesRead(c)

PanelStep(c) ==
  \/ \E ok \in BOOLEAN : OpenAnswered(c, ok) \/ SourceAnswered(c, ok)
  \/ \E how \in {"ok", "error", "lost"} : RunAnswered(c, how)
  \/ StopAnswered(c) \/ StartAnswered(c) \/ StepAnswered(c)
  \/ ValuesAnswered(c) \/ LocalsAnswered(c)

UserStep(c) ==
  \/ \E o \in Objects : Opens(c, o)
  \/ Runs(c) \/ Starts(c) \/ Steps(c)
  \/ \E closes \in BOOLEAN : Stops(c, closes)

PanelNext ==
  \/ \E c \in Chains : SidecarStep(c) \/ PanelStep(c) \/ UserStep(c)
  \/ Edited
  \/ \E line \in Lines : BreakpointToggled(line)

-----------------------------------------------------------------------------
(* Properties.                                                             *)

(* A window that shows a program as running waits for a run or a start     *)
(* (debug.svelte.ts: every way out of run() and startDebug()).             *)
RunningHasCall ==
  status = "running" => \E c \in InFlight : chain[c].kind \in {"run", "start"}

(* Nothing is on its way, and the promises below were not undone.          *)
Steady == InFlight = {} /\ ~past.adrift

(* A window that shows a stopped program shows the one of the sidecar: its *)
(* frame, its values and its locals; and a program that is stopped is      *)
(* shown.  Undone by two chains at once, and by a member chosen while a    *)
(* program is stopped, until the next start or stop that is alone.         *)
StoppedProgramIsShown ==
  Steady =>
    /\ (status = "paused") <=> (dbg # Null)
    /\ status = "paused" => frame = dbg.at /\ liveVars = frame /\ localVars = frame

(* The marks in the editor are the breakpoints of what it shows.  Undone   *)
(* by a breakpoint that is set after an edit, in a view built anew, or     *)
(* where another's object of the same name has one, and by an open() that  *)
(* fails.                                                                  *)
MarksAreBreakpoints ==
  InFlight = {} /\ ~past.unmarked /\ ~unopened /\ editor.view # Null =>
    editor.view.marks = MarksOf(IF editor.object = Null THEN opened ELSE editor.object, breakpoints)

(* What is run is of the object of the window, unless it was edited where  *)
(* another was shown, or the last open() failed or was overtaken.          *)
ScriptIsOfTheObject ==
  InFlight = {} /\ ~unopened /\ ~script.edited => script.of = opened /\ script.kind = "script"

DebuggerTellsTheTruth ==
  RunningHasCall /\ StoppedProgramIsShown /\ MarksAreBreakpoints /\ ScriptIsOfTheObject

(* Statements the code does not keep: an error says what went wrong; what  *)
(* is run is what the editor shows; the edited script is the script.       *)
ErrorSaysWhy == status = "error" => errorMessage
WhatIsShownRuns ==
  InFlight = {} /\ editor.view # Null /\ status # "paused" => script = editor.view.text
ScriptIsNoSource == script.kind # "source"
SessionsAreShown == InFlight = {} /\ dbg # Null => status = "paused"
=============================================================================
