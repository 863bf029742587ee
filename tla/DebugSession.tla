---------------------------- MODULE DebugSession ----------------------------
(***************************************************************************)
(* The PL/SQL debugger of the sidecar: debug.ts, and traceProc of flow.ts, *)
(* which drives a debug session of its own.                                *)
(*                                                                         *)
(* A debug session is a pair of connections: the target runs the program,  *)
(* the wire waits for its events and answers questions about it.  Calls    *)
(* made on the wire run one after the other (wireq); SYNCHRONIZE and       *)
(* CONTINUE last until the program raises an event.  A session goes by the *)
(* name of the call that created it.                                       *)
(*                                                                         *)
(* A close is issued and not awaited.  Whether it waits for the calls      *)
(* before it or cuts them off is left open: calls behind it are rejected,  *)
(* those before it are answered or rejected.                               *)
(*                                                                         *)
(* Breakpoints are not kept here: removing the one set on entry, which     *)
(* nobody awaits, changes nothing else.                                    *)
(***************************************************************************)
EXTENDS Naturals, FiniteSets, Sequences, SequencesExt

CONSTANTS
  Starts,  \* bound: the RPC calls that may be debug.start,
  Traces,  \* bound: flow.trace_proc,
  Others,  \* bound: one of the others
  None     \* no session, no answer; in a wireq, its close

Calls == Starts \cup Traces \cup Others

(* What a call asks for, and what it may be answered.                      *)
Ops == {"start", "trace", "step", "ask", "stop"}
Answers == {"ok", "paused", "completed", "error", "noSession"}

ASSUME DebugAssumption == None \notin Calls \cup Ops \cup Answers

VARIABLES
  current,    \* _debugSession
  lockq,      \* _debugStartLock: the start that holds it and those waiting
  op,         \* op[c]: what c asked for
  pc,         \* pc[c]: the await c is in
  on,         \* on[c]: the session c works on
  result,     \* result[c]: what c was answered
  target,     \* target[s]: the connection that runs the program
  wired,      \* wired[s]: the other connection was built
  wireq,      \* wireq[s]: the calls on it, and its close
  exec,       \* exec[s]: the promise of the program's execution
  extracted,  \* extracted[s]: _completionResultsExtracted
  unread,     \* history: calls that could not fetch the rows of a cursor
  stopped,    \* history: starts under way when debug.stop found no session
  displaced   \* history: sessions a trace took the place of

call_ == <<op, pc, on, result>>
conn_ == <<target, wired, wireq, exec, extracted>>
history_ == <<unread, stopped, displaced>>
vars == <<current, lockq, call_, conn_, history_>>

(* Awaits of an answer on the wire: to the program's next event, or to a   *)
(* question.                                                               *)
Events == {"sync", "cont"}
Questions == {"attach", "userBp", "entryBp", "onlyBp", "values", "ask"}
Waits == {"new", "lock", "closeOld", "build", "buildWire", "preflight", "init",
          "step", "extract", "reading", "ending", "collect", "collecting",
          "collected", "closing", "done"} \cup Events \cup Questions

TypeOK ==
  /\ current \in Calls \cup {None}
  /\ lockq \in Seq(Calls)
  /\ Range(lockq) = {c \in Calls : op[c] = "start" /\ pc[c] # "done"}
  /\ op \in [Calls -> Ops \cup {None}]
  /\ pc \in [Calls -> Waits]
  /\ on \in [Calls -> Calls \cup {None}]
  /\ result \in [Calls -> Answers \cup {None}]
  /\ target \in [Calls -> {"none", "open", "closing"}]
  /\ wired \in [Calls -> BOOLEAN]
  /\ wireq \in [Calls -> Seq(Calls \cup {None})]
  /\ exec \in [Calls -> {"none", "running", "data", "null"}]
  /\ extracted \in [Calls -> BOOLEAN]
  /\ unread \in SUBSET Calls
  /\ stopped \in SUBSET Calls
  /\ displaced \in SUBSET Calls

Init ==
  /\ current = None
  /\ lockq = <<>>
  /\ op = [c \in Calls |-> None]
  /\ pc = [c \in Calls |-> "new"]
  /\ on = [c \in Calls |-> None]
  /\ result = [c \in Calls |-> None]
  /\ target = [s \in Calls |-> "none"]
  /\ wired = [s \in Calls |-> FALSE]
  /\ wireq = [s \in Calls |-> <<>>]
  /\ exec = [s \in Calls |-> "none"]
  /\ extracted = [s \in Calls |-> FALSE]
  /\ unread = {}
  /\ stopped = {}
  /\ displaced = {}

-----------------------------------------------------------------------------
(***************************************************************************)
(* Steps shared by the handlers.                                           *)
(***************************************************************************)

Goto(c, where) == pc' = [pc EXCEPT ![c] = where]

(* The answer of c; a start passes the lock on.                            *)
Answer(c, a) ==
  /\ Goto(c, "done")
  /\ result' = [result EXCEPT ![c] = a]
  /\ lockq' = IF op[c] = "start" THEN Tail(lockq) ELSE lockq

(* w is the wires, some call perhaps off its own.                          *)
Closing(w, s) ==
  [w EXCEPT ![s] = IF Contains(@, None) THEN @ ELSE Append(@, None)]
Asking(w, s, c) == [w EXCEPT ![s] = Append(@, c)]
OffWire(c) == [wireq EXCEPT ![on[c]] = Remove(@, c)]

(* stop(): no longer current, both connections closed.                     *)
Stop(s, w) ==
  /\ current' = IF current = s THEN None ELSE current
  /\ target' = [target EXCEPT ![s] = "closing"]
  /\ wireq' = Closing(w, s)

(* extractCompletionResults, up to its first await: nothing to do, or wait *)
(* for the program's own result.                                           *)
ToExtract(c, waiting, after) ==
  Goto(c, IF extracted[on[c]] \/ exec[on[c]] = "none" THEN after ELSE waiting)

-----------------------------------------------------------------------------
(***************************************************************************)
(* debug.start takes the lock, stops the session before it and creates its *)
(* own; flow.trace_proc creates one at once.                               *)
(***************************************************************************)

Asks(c, o) == pc[c] = "new" /\ op' = [op EXCEPT ![c] = o]

StartAsked(c) ==
  /\ c \in Starts /\ Asks(c, "start")
  /\ Goto(c, "lock")
  /\ lockq' = Append(lockq, c)
  /\ UNCHANGED <<current, on, result, conn_, history_>>

TraceAsked(c) ==
  /\ c \in Traces /\ Asks(c, "trace")
  /\ Goto(c, "build")
  /\ UNCHANGED <<current, lockq, on, result, conn_, history_>>

(* Mutation: the lock is not awaited.                                      *)
HoldsLockAtOnce(c) == pc[c] = "lock"

HoldsLock(c) == pc[c] = "lock" /\ Head(lockq) = c

StartStopsPrevious(c) ==
  /\ HoldsLock(c) /\ current # None
  /\ Stop(current, wireq)
  /\ Goto(c, "closeOld")
  /\ UNCHANGED <<lockq, op, on, result, wired, exec, extracted, history_>>

StartIsFirst(c) ==
  /\ HoldsLock(c) /\ current = None
  /\ Goto(c, "build")
  /\ UNCHANGED <<current, lockq, op, on, result, conn_, history_>>

(* closingPromise: the connections are closed, or five seconds are over.   *)
PreviousClosed(c) ==
  /\ pc[c] = "closeOld"
  /\ Goto(c, "build")
  /\ UNCHANGED <<current, lockq, op, on, result, conn_, history_>>

(* Mutation: the lock is released on success only.                         *)
BuildFailsKeepsLock(c) ==
  /\ pc[c] = "build"
  /\ Goto(c, "done")
  /\ result' = [result EXCEPT ![c] = "error"]
  /\ UNCHANGED <<current, lockq, op, on, conn_, history_>>

(* No workspace is open, or the database is out of reach.                  *)
BuildFails(c) ==
  /\ pc[c] = "build"
  /\ Answer(c, "error")
  /\ UNCHANGED <<current, op, on, conn_, history_>>

TargetBuilt(c) ==
  /\ pc[c] = "build"
  /\ target' = [target EXCEPT ![c] = "open"]
  /\ on' = [on EXCEPT ![c] = c]
  /\ Goto(c, "buildWire")
  /\ UNCHANGED <<current, lockq, op, result, wired, wireq, exec, extracted,
                 history_>>

(* The first connection stays open.                                        *)
WireBuildFails(c) ==
  /\ pc[c] = "buildWire"
  /\ Answer(c, "error")
  /\ UNCHANGED <<current, op, on, conn_, history_>>

WireBuilt(c) ==
  /\ pc[c] = "buildWire"
  /\ wired' = [wired EXCEPT ![on[c]] = TRUE]
  /\ current' = on[c]
  /\ displaced' = IF op[c] = "trace" /\ current # None
                  THEN displaced \cup {current} ELSE displaced
  /\ Goto(c, IF op[c] = "trace" THEN "preflight" ELSE "init")
  /\ UNCHANGED <<lockq, op, on, result, target, wireq, exec, extracted,
                 unread, stopped>>

(* A trace asks the workspace whether the program is valid.                *)
Preflight(c, ok) ==
  /\ pc[c] = "preflight"
  /\ IF ok THEN Goto(c, "init") /\ UNCHANGED <<current, target, wireq>>
     ELSE Goto(c, "closing") /\ Stop(on[c], wireq)
  /\ UNCHANGED <<lockq, op, on, result, wired, exec, extracted, history_>>

(* A step of the setup failed: a start stops its session and reports the   *)
(* error, a trace goes through its finally.                                *)
SetupFails(c, w) ==
  /\ Stop(on[c], w)
  /\ IF op[c] = "start" THEN Answer(c, "error")
     ELSE Goto(c, "closing") /\ UNCHANGED <<lockq, result>>

(* INITIALIZE and DEBUG_ON on the target, then ATTACH_SESSION.             *)
Initialized(c, ok) ==
  /\ pc[c] = "init"
  /\ IF ok
     THEN /\ Goto(c, "attach")
          /\ wireq' = Asking(wireq, on[c], c)
          /\ UNCHANGED <<current, target, lockq, result>>
     ELSE SetupFails(c, wireq)
  /\ UNCHANGED <<op, on, wired, exec, extracted, history_>>

(* The answer to a call on the wire comes in its turn; an error may also   *)
(* come once the wire was closed.                                          *)
Turn(c, where) == pc[c] \in where /\ Head(wireq[on[c]]) = c
Fails(c, where) ==
  pc[c] \in where /\ (Head(wireq[on[c]]) = c \/ Contains(wireq[on[c]], None))

(* One breakpoint of the user's stands for all: what counts is whether any *)
(* was set before the one on entry, or that is the only one.               *)
Attached(c) ==
  /\ Turn(c, {"attach"})
  /\ \E next \in {"userBp", "onlyBp"} :
       (next = "userBp" => op[c] = "start") /\ Goto(c, next)
  /\ wireq' = Asking(OffWire(c), on[c], c)
  /\ UNCHANGED <<current, lockq, op, on, result, target, wired, exec,
                 extracted, history_>>

AttachFails(c) ==
  /\ Fails(c, {"attach"})
  /\ SetupFails(c, OffWire(c))
  /\ UNCHANGED <<op, on, wired, exec, extracted, history_>>

UserBreakpoint(c, ok) ==
  /\ IF ok THEN Turn(c, {"userBp"}) ELSE Fails(c, {"userBp"})
  /\ Goto(c, IF ok THEN "entryBp" ELSE "onlyBp")
  /\ wireq' = Asking(OffWire(c), on[c], c)
  /\ UNCHANGED <<current, lockq, op, on, result, target, wired, exec,
                 extracted, history_>>

(* startTarget, and SYNCHRONIZE after it.                                  *)
Launch(c) ==
  /\ exec' = [exec EXCEPT ![on[c]] =
                IF target[on[c]] = "open" THEN "running" ELSE "null"]
  /\ extracted' = [extracted EXCEPT ![on[c]] = FALSE]
  /\ wireq' = Asking(OffWire(c), on[c], c)
  /\ Goto(c, "sync")
  /\ UNCHANGED <<current, target, lockq, result>>

EntryBreakpointSet(c) ==
  /\ Turn(c, {"entryBp", "onlyBp"})
  /\ Launch(c)
  /\ UNCHANGED <<op, on, wired, history_>>

(* Without any breakpoint a start gives up.  A trace has only this one,    *)
(* and then may still fail to describe the procedure.                      *)
EntryBreakpointFails(c) ==
  /\ Fails(c, {"entryBp", "onlyBp"})
  /\ IF pc[c] = "entryBp" THEN Launch(c)
     ELSE SetupFails(c, OffWire(c)) /\ UNCHANGED <<exec, extracted>>
  /\ UNCHANGED <<op, on, wired, history_>>

-----------------------------------------------------------------------------
(***************************************************************************)
(* Waiting for the program: synchronizeWithTimeout, safeStep and the loop  *)
(* of the trace.                                                           *)
(***************************************************************************)

(* A step of the debugger's own takes the session that is current.         *)
StepAsked(c) ==
  /\ c \in Others /\ Asks(c, "step")
  /\ IF current = None
     THEN Answer(c, "noSession") /\ UNCHANGED <<on, wireq>>
     ELSE /\ on' = [on EXCEPT ![c] = current]
          /\ wireq' = Asking(wireq, current, c)
          /\ Goto(c, "cont")
          /\ UNCHANGED <<lockq, result>>
  /\ UNCHANGED <<current, target, wired, exec, extracted, history_>>

(* The program stands at a named location.                                 *)
Paused(c) ==
  /\ Turn(c, Events) /\ exec[on[c]] = "running"
  /\ wireq' = OffWire(c)
  /\ IF op[c] = "trace" THEN Goto(c, "step") /\ UNCHANGED <<lockq, result>>
     ELSE Answer(c, "paused")
  /\ UNCHANGED <<current, op, on, target, wired, exec, extracted, history_>>

(* An event without a location, while starting: CONTINUE, behind the calls *)
(* that came in meanwhile.  The eleventh, like any in a step, is taken for *)
(* the end (EventIsLast); they are not counted here.                       *)
PassedOver(c) ==
  /\ Turn(c, {"sync"}) /\ exec[on[c]] = "running"
  /\ wireq' = Asking(OffWire(c), on[c], c)
  /\ UNCHANGED <<current, lockq, call_, target, wired, exec, extracted,
                 history_>>

(* What follows when the wait is over and the program is not at a pause: a *)
(* trace that was in its loop leaves it.                                   *)
ToEnding(c) ==
  IF op[c] = "trace" /\ pc[c] = "cont" THEN ToExtract(c, "collect", "collected")
  ELSE ToExtract(c, "extract", "ending")

(* The program ended, one more event has no location, or the call failed.  *)
EventIsLast(c) ==
  /\ Fails(c, Events)
  /\ wireq' = OffWire(c)
  /\ ToEnding(c)
  /\ UNCHANGED <<current, lockq, op, on, result, target, wired, exec,
                 extracted, history_>>

(* Thirty seconds: only the wire is closed.                                *)
SyncTimesOut(c) ==
  /\ pc[c] = "sync"
  /\ wireq' = Closing(wireq, on[c])
  /\ ToEnding(c)
  /\ UNCHANGED <<current, lockq, op, on, result, target, wired, exec,
                 extracted, history_>>

(* Sixty seconds.                                                          *)
StepTimesOut(c) ==
  /\ pc[c] = "cont" /\ op[c] = "step"
  /\ Stop(on[c], wireq)
  /\ ToEnding(c)
  /\ UNCHANGED <<lockq, op, on, result, wired, exec, extracted, history_>>

(* The loop of the trace: out of steps or of time, or look at the values   *)
(* and continue.                                                           *)
TraceStops(c) ==
  /\ pc[c] = "step"
  /\ ToExtract(c, "collect", "collected")
  /\ UNCHANGED <<current, lockq, op, on, result, conn_, history_>>

TraceLooks(c) ==
  /\ pc[c] = "step"
  /\ Goto(c, "values")
  /\ wireq' = Asking(wireq, on[c], c)
  /\ UNCHANGED <<current, lockq, op, on, result, target, wired, exec,
                 extracted, history_>>

TraceContinues(c) ==
  /\ Fails(c, {"values"})
  /\ Goto(c, "cont")
  /\ wireq' = Asking(OffWire(c), on[c], c)
  /\ UNCHANGED <<current, lockq, op, on, result, target, wired, exec,
                 extracted, history_>>

(* The program's execution settles: with its out binds, or with an error.  *)
(* When no call could ask for it any more that is left out.                *)
TargetSettles(s) ==
  /\ exec[s] = "running"
  /\ s = current \/ \E c \in Calls : on[c] = s /\ pc[c] # "done"
  /\ \E r \in {"data", "null"} : exec' = [exec EXCEPT ![s] = r]
  /\ UNCHANGED <<current, lockq, call_, target, wired, wireq, extracted,
                 history_>>

-----------------------------------------------------------------------------
(***************************************************************************)
(* The results of the program and the end of the call.                     *)
(***************************************************************************)

(* Out binds and cursors are there: read the rows.                         *)
Extracts(c) ==
  /\ pc[c] \in {"extract", "collect"} /\ exec[on[c]] = "data"
  /\ extracted' = [extracted EXCEPT ![on[c]] = TRUE]
  /\ Goto(c, IF pc[c] = "extract" THEN "reading" ELSE "collecting")
  /\ UNCHANGED <<current, lockq, op, on, result, target, wired, wireq, exec,
                 history_>>

(* The execution failed, or five seconds are over; or the rows are read,   *)
(* or a trace, in its second attempt, could not read them.                 *)
ExtractionEnds(c) ==
  /\ pc[c] \in {"extract", "collect", "reading", "collecting"}
  /\ Goto(c, IF pc[c] \in {"extract", "reading"} THEN "ending" ELSE "collected")
  /\ UNCHANGED <<current, lockq, op, on, result, conn_, history_>>

(* A row could not be fetched: the exception passes the stop() after the   *)
(* extraction by.  A start catches it and answers that the program is      *)
(* completed, a step rejects, and both leave their session current.        *)
ReadFails(c) ==
  /\ pc[c] = "reading"
  /\ unread' = unread \cup {c}
  /\ \/ /\ op[c] = "trace"
        /\ Stop(on[c], wireq)
        /\ Goto(c, "closing")
        /\ UNCHANGED <<lockq, result>>
     \/ /\ op[c] # "trace"
        /\ Answer(c, IF op[c] = "start" THEN "completed" ELSE "error")
        /\ UNCHANGED <<current, target, wireq>>
  /\ UNCHANGED <<op, on, wired, exec, extracted, stopped, displaced>>

(* A start whose program never paused is an error.                         *)
Ends(c) ==
  /\ pc[c] = "ending"
  /\ Stop(on[c], wireq)
  /\ \/ op[c] = "start" /\ Answer(c, "error")
     \/ op[c] = "step" /\ Answer(c, "completed")
     \/ /\ op[c] = "trace"
        /\ ToExtract(c, "collect", "collected")
        /\ UNCHANGED <<lockq, result>>
  /\ UNCHANGED <<op, on, wired, exec, extracted, history_>>

(* Mutation: the trace does not stop its session.                          *)
CollectedIsLeft(c) ==
  /\ pc[c] = "collected"
  /\ Goto(c, "closing")
  /\ UNCHANGED <<current, lockq, op, on, result, conn_, history_>>

Collected(c) ==
  /\ pc[c] = "collected"
  /\ Stop(on[c], wireq)
  /\ Goto(c, "closing")
  /\ UNCHANGED <<lockq, op, on, result, wired, exec, extracted, history_>>

TraceEnds(c) ==
  /\ pc[c] = "closing"
  /\ Answer(c, "completed")
  /\ UNCHANGED <<current, op, on, conn_, history_>>

(* debug.stop.                                                             *)
StopAsked(c) ==
  /\ c \in Others /\ Asks(c, "stop")
  /\ IF current = None THEN UNCHANGED <<current, target, wireq>>
     ELSE Stop(current, wireq)
  /\ Answer(c, "ok")
  /\ stopped' = stopped \cup
       {d \in Calls : op[d] = "start" /\ pc[d] # "done" /\ current = None}
  /\ UNCHANGED <<on, wired, exec, extracted, unread, displaced>>

(* debug.set_breakpoint, debug.remove_breakpoint, debug.get_values.        *)
AskAsked(c) ==
  /\ c \in Others /\ Asks(c, "ask")
  /\ IF current = None
     THEN Answer(c, "noSession") /\ UNCHANGED <<on, wireq>>
     ELSE /\ on' = [on EXCEPT ![c] = current]
          /\ wireq' = Asking(wireq, current, c)
          /\ Goto(c, "ask")
          /\ UNCHANGED <<lockq, result>>
  /\ UNCHANGED <<current, target, wired, exec, extracted, history_>>

AskAnswered(c) ==
  /\ Fails(c, {"ask"})
  /\ wireq' = OffWire(c)
  /\ Answer(c, "ok")
  /\ UNCHANGED <<current, op, on, target, wired, exec, extracted, history_>>

-----------------------------------------------------------------------------
Arrives(c) ==
  StartAsked(c) \/ TraceAsked(c) \/ StepAsked(c) \/ StopAsked(c) \/ AskAsked(c)

(* What the program under debug decides.                                   *)
Event(c) == Paused(c) \/ PassedOver(c) \/ TargetSettles(c)

(* What the handlers, their timers and the driver get done.                *)
Work(c) ==
  \/ StartStopsPrevious(c) \/ StartIsFirst(c) \/ PreviousClosed(c)
  \/ BuildFails(c) \/ TargetBuilt(c) \/ WireBuildFails(c) \/ WireBuilt(c)
  \/ \E ok \in BOOLEAN :
       Preflight(c, ok) \/ Initialized(c, ok) \/ UserBreakpoint(c, ok)
  \/ Attached(c) \/ AttachFails(c) \/ EntryBreakpointSet(c) \/ EntryBreakpointFails(c)
  \/ SyncTimesOut(c) \/ StepTimesOut(c)
  \/ TraceStops(c) \/ TraceLooks(c) \/ TraceContinues(c)
  \/ Extracts(c) \/ ExtractionEnds(c) \/ ReadFails(c) \/ Ends(c)
  \/ Collected(c) \/ TraceEnds(c) \/ AskAnswered(c)

Done == (\A c \in Calls : pc[c] = "done") /\ UNCHANGED vars

Next == (\E c \in Calls : Arrives(c) \/ Event(c) \/ EventIsLast(c) \/ Work(c)) \/ Done

(* The lock is released, timers fire, and the driver answers a question    *)
(* whose turn it is and rejects the calls of a connection that was closed. *)
(* The program under debug need not raise another event.                   *)
Spec == Init /\ [][Next]_vars /\ \A c \in Calls : WF_vars(Work(c))

-----------------------------------------------------------------------------
(***************************************************************************)
(* Properties.                                                             *)
(***************************************************************************)

(* Two starts never orphan each other's connections (the comment on        *)
(* _debugStartLock): a session that is open, that nothing would stop any   *)
(* more and on which no call works, was displaced by a trace, or lost its  *)
(* second connection in create().                                          *)
OrphansOnlyFromTraces ==
  \A s \in Calls :
    /\ target[s] = "open" /\ s # current
    /\ \A c \in Calls : on[c] = s => pc[c] = "done"
    => s \in displaced \/ ~wired[s]

(* Whoever is told that the program ended, or that it could not be         *)
(* started, leaves no connection behind, whatever the order of timeouts,   *)
(* closes and late events.  The one exception is a start or a step that    *)
(* could not fetch the rows of a cursor: the comment at debug.ts:575 says  *)
(* that the connections are released there, and they are not.              *)
EndedIsReleased ==
  \A c \in Calls :
    result[c] \in {"completed", "error"} /\ on[c] # None /\ wired[on[c]] =>
      \/ target[on[c]] = "closing" /\ current # on[c]
      \/ c \in unread /\ op[c] # "trace"

(* A start and a step are answered whatever the program does: waiting for  *)
(* the lock included.                                                      *)
StartsAndStepsSettle ==
  \A c \in Calls : (op[c] \in {"start", "step"}) ~> (pc[c] = "done")

(* The comment in index.ts on dispatching without waiting: debug.stop      *)
(* interrupts a debug.start that has not been answered, also while it      *)
(* connects.                                                               *)
StopInterruptsStart == \A c \in stopped : result[c] # "paused"

=============================================================================
