----------------------------- MODULE Workspace -----------------------------
(***************************************************************************)
(* What the application knows of the open session: the cells of the Rust   *)
(* host (commands.rs, tray.rs, lib.rs), the sidecar's session they stand   *)
(* for, and the page that opens and closes it (routes/workspace/[id]).     *)
(*                                                                         *)
(* workspace_open, workspace_close and the tray's Disconnect are tasks of  *)
(* an asynchronous runtime.  Each calls the sidecar, which takes the calls *)
(* one at a time, and once answered writes the cells one lock at a time:   *)
(* two tasks may write them in another order than the sidecar took them.   *)
(*                                                                         *)
(* The sidecar is seen from here as a session and the queue of its lock;   *)
(* OracleSession models what it does inside.                               *)
(***************************************************************************)
EXTENDS Naturals, Sequences

CONSTANTS
  Conns,      \* the saved connections
  Prod,       \* those whose env is prod
  AirGapped,  \* those stored with airgap_mode on, and
  Psdpm,      \* with psdpm_mode on
  MaxTasks,   \* bound: the opens and closes of a run
  Queries,    \* bound: the statements of a run
  None

ASSUME WorkspaceAssumption ==
  /\ Prod \subseteq Conns /\ AirGapped \subseteq Conns /\ Psdpm \subseteq Conns
  /\ None \notin Conns
  /\ MaxTasks \in Nat

Tasks == 1 .. MaxTasks  \* numbered in the order they start

VARIABLES
  up,       \* the sidecar's process lives
  cut,      \* the task that writes to it has ended as well
  session,  \* the connection its session is on
  lockq,    \* the tasks that wait for its session lock; the head holds it
  cells,    \* ActiveConnection, ActiveSessionEnv, AirGapState, PsdpmState
  tray,     \* the connection the tray's menu shows as open
  task,     \* task[t]: what it does, for which connection, and how far it is
  page,     \* the page shown: its route, the source it opened, the task
            \* that opens it, and its state
  query,    \* query[q]: a statement on its way, and its row in the audit log
  overlapped \* history: two tasks ran at once since one last started alone

sidecar == <<up, cut, session, lockq>>
cellVars == <<cells, tray>>
vars == <<sidecar, cellVars, task, page, query, overlapped>>

(* at: the cell a task that was answered writes next.                      *)
Idle == [kind |-> "none", conn |-> None, pc |-> "idle", at |-> 1]
NoPage == [route |-> None, source |-> None, by |-> 0, boot |-> "none"]
NoQuery == [pc |-> "new", ran |-> None, name |-> None, env |-> None, moved |-> FALSE]

(* What a connection in force puts into the cells: the environment as the  *)
(* connection it is of, and the two modes, which prod forces.              *)
Cell == <<"active", "env", "airgap", "psdpm">>
Values(c) == [active |-> c, env |-> c, airgap |-> c \in Prod \cup AirGapped,
              psdpm |-> c \in Prod \cup Psdpm]
Cleared == Values(None)

(* Mutations: the last mode is forgotten; a task writes the name alone.    *)
Writes_NoPsdpm(t) == IF task[t].kind = "disconnect" THEN 1 ELSE Len(Cell) - 1
Writes_NameOnly(t) == 1

(* A task writes all the cells, the tray's Disconnect the first alone.     *)
Writes(t) == IF task[t].kind = "disconnect" THEN 1 ELSE Len(Cell)
Running(t) == task[t].pc \notin {"idle", "done"}
Lifecycle == {t \in Tasks : Running(t)}

Init ==
  /\ up = TRUE /\ cut = FALSE /\ session = None /\ lockq = <<>>
  /\ cells = Cleared /\ tray = None
  /\ task = [t \in Tasks |-> Idle]
  /\ page = NoPage
  /\ query = [q \in Queries |-> NoQuery]
  /\ overlapped = FALSE

(* A statement whose row is not written when a cell changes.               *)
Moved == [q \in Queries |->
            IF query[q].pc \in {"running", "named"} THEN [query[q] EXCEPT !.moved = TRUE]
                                                    ELSE query[q]]

-----------------------------------------------------------------------------
(* Starting a task.                                                        *)

(* workspace_open redraws the tray as connecting before its call.          *)
StartTask(t, kind, c) ==
  /\ task[t] = Idle /\ \A s \in 1 .. t - 1 : task[s] # Idle
  /\ task' = [task EXCEPT ![t] = [kind |-> kind, conn |-> c, pc |-> "send", at |-> 1]]
  /\ overlapped' = (Lifecycle # {})
  /\ tray' = IF kind = "open" THEN cells.active ELSE tray

(* The page is left: it is reset, stops the debugger and closes its source. *)
(* Without a running debugger the close is sent at once.                   *)
Unmount(t) ==
  /\ page.route # None
  /\ StartTask(t, "close", None)
  /\ page' = NoPage
  /\ UNCHANGED <<sidecar, cells, query>>

(* Disconnect and Switch close the source and, when that has come back,    *)
(* leave (Unmount), which closes it once more.                             *)
DisconnectClicked(t) ==
  /\ page.route # None
  /\ StartTask(t, "close", None)
  /\ UNCHANGED <<sidecar, cells, page, query>>

(* A connection is opened from the list of connections or, by its menu,    *)
(* from the tray.                                                          *)
PageOpened(t, c) ==
  /\ page.route = None
  /\ StartTask(t, "open", c)
  /\ page' = [route |-> c, source |-> c, by |-> t, boot |-> "opening"]
  /\ UNCHANGED <<sidecar, cells, query>>

(* The tray's menu opens a connection while a workspace is shown: the      *)
(* route is the same, so the page stays mounted and opens nothing.         *)
RouteReplaced(c) ==
  /\ page.route \notin {None, c} /\ tray # c
  /\ page' = [page EXCEPT !.route = c]
  /\ UNCHANGED <<sidecar, cellVars, task, query, overlapped>>

(* Reconnect, offered when the session was found lost, opens the source of *)
(* the route shown.                                                        *)
Reconnect(t) ==
  /\ page.boot = "lost"
  /\ StartTask(t, "open", page.route)
  /\ page' = [page EXCEPT !.source = page.route, !.boot = "opening", !.by = t]
  /\ UNCHANGED <<sidecar, cells, query>>

LostSeen ==
  /\ page.boot = "ready" /\ session = None
  /\ page' = [page EXCEPT !.boot = "lost"]
  /\ UNCHANGED <<sidecar, cellVars, task, query, overlapped>>

(* The tray's menu closes the connection it shows as open.                 *)
TrayDisconnect(t) ==
  /\ tray # None
  /\ StartTask(t, "disconnect", None)
  /\ UNCHANGED <<sidecar, cells, page, query>>

-----------------------------------------------------------------------------
(* The call, and the sidecar's side of it.                                 *)

CallSent(t) ==
  /\ task[t].pc = "send" /\ up
  /\ lockq' = Append(lockq, t)
  /\ task' = [task EXCEPT ![t].pc = "called"]
  /\ UNCHANGED <<up, cut, session, cellVars, page, query, overlapped>>

Holds(t, kinds) == lockq # <<>> /\ Head(lockq) = t /\ task[t].kind \in kinds

(* Mutation: an open that failed returns without a word.                   *)
After_OpenFailsSilently(t, answered) ==
  IF answered \/ task[t].kind = "disconnect" THEN "writing" ELSE "done"

(* How a task goes on from an answer: after an error workspace_open and    *)
(* workspace_close return, and the tray's Disconnect carries on.           *)
After(t, answered) ==
  IF answered \/ task[t].kind = "disconnect" THEN "writing"
  ELSE IF task[t].kind = "open" THEN "failed" ELSE "done"

Answered(t, c, answered) ==
  /\ session' = c
  /\ lockq' = Tail(lockq)
  /\ task' = [task EXCEPT ![t].pc = After(t, answered)]
  /\ UNCHANGED <<up, cut, cellVars, page, query, overlapped>>

(* An open first closes the session in place; a close does that alone.     *)
SessionReplaced(t) ==
  /\ Holds(t, {"open"}) /\ session # None
  /\ session' = None
  /\ UNCHANGED <<up, cut, lockq, cellVars, task, page, query, overlapped>>

OpenSucceeds(t) ==
  Holds(t, {"open"}) /\ session = None /\ Answered(t, task[t].conn, TRUE)
OpenFails(t) == Holds(t, {"open"}) /\ session = None /\ Answered(t, None, FALSE)
Closes(t) == Holds(t, {"close", "disconnect"}) /\ Answered(t, None, TRUE)

(* The slot keeps a dead process, and its writer learns of the end by a    *)
(* write that fails: until then a call is taken on and never answered,     *)
(* since those that waited were let go before (SidecarDies).  Whose call   *)
(* it is that the writer fails on is left open.                            *)
CallUnanswered(t) ==
  /\ task[t].pc = "send" /\ ~up /\ ~cut
  /\ task' = [task EXCEPT ![t].pc = "hung"]
  /\ UNCHANGED <<sidecar, cellVars, page, query, overlapped>>

WriterEnds ==
  /\ ~up /\ ~cut
  /\ cut' = TRUE
  /\ UNCHANGED <<up, session, lockq, cellVars, task, page, query, overlapped>>

(* Every call after that fails at once.                                    *)
CallFails(t) ==
  /\ task[t].pc = "send" /\ ~up /\ cut
  /\ task' = [task EXCEPT ![t].pc = After(t, FALSE)]
  /\ UNCHANGED <<sidecar, cellVars, page, query, overlapped>>

SidecarDies ==
  /\ up
  /\ up' = FALSE /\ session' = None /\ lockq' = <<>>
  /\ task' = [t \in Tasks |-> IF task[t].pc = "called"
                                THEN [task[t] EXCEPT !.pc = After(t, FALSE)] ELSE task[t]]
  /\ UNCHANGED <<cut, cellVars, page, query, overlapped>>

(* A statement, or any other call, finds the session lost.                 *)
SessionLost ==
  /\ session # None /\ lockq = <<>>
  /\ session' = None
  /\ UNCHANGED <<up, cut, lockq, cellVars, task, page, query, overlapped>>

-----------------------------------------------------------------------------
(* The cells.                                                              *)

CellWritten(t) ==
  /\ task[t].pc = "writing"
  /\ LET c == Cell[task[t].at]
         new == Values(task[t].conn)  \* None for a close
     IN cells' = [cells EXCEPT ![c] = new[c]]
  /\ task' = [task EXCEPT ![t].pc = IF task[t].at = Writes(t) THEN "tray" ELSE @,
                           ![t].at = @ + 1]
  /\ query' = Moved
  /\ UNCHANGED <<sidecar, tray, page, overlapped>>

(* The tray is redrawn from the cell; the page learns how its open ended,  *)
(* and then lists the schemas, which may fail as well.                     *)
TrayUpdated(t) ==
  /\ task[t].pc \in {"tray", "failed"}
  /\ tray' = cells.active
  /\ task' = [task EXCEPT ![t].pc = "done"]
  /\ IF page.boot = "opening" /\ page.by = t
       THEN \E boot \in {"ready", "fatal"} :
              /\ task[t].pc = "failed" => boot = "fatal"
              /\ page' = [page EXCEPT !.boot = boot]
       ELSE page' = page
  /\ UNCHANGED <<sidecar, cells, query, overlapped>>

(* Whether a command that goes out to the network may run now.             *)
EgressAllowed == ~cells.airgap

-----------------------------------------------------------------------------
(* A statement: run by the sidecar, then entered into the audit log under  *)
(* the name and the environment the cells hold by then.                    *)

QuerySent(q) ==
  /\ query[q].pc = "new" /\ page.boot = "ready" /\ session # None
  /\ query' = [query EXCEPT ![q].pc = "running", ![q].ran = session,
                            ![q].moved = overlapped \/ Lifecycle # {}]
  /\ UNCHANGED <<sidecar, cellVars, task, page, overlapped>>

QueryStep(q, from, to, e) ==
  /\ query[q].pc = from
  /\ query' = [query EXCEPT ![q] = [e EXCEPT !.pc = to]]
  /\ UNCHANGED <<sidecar, cellVars, task, page, overlapped>>

RowNamed(q) ==
  QueryStep(q, "running", "named", [query[q] EXCEPT !.name = cells.active])
RowWritten(q) ==
  QueryStep(q, "named", "audited", [query[q] EXCEPT !.env = cells.env])

Next ==
  \/ \E t \in Tasks, c \in Conns : PageOpened(t, c)
  \/ \E t \in Tasks : \/ Unmount(t) \/ DisconnectClicked(t) \/ Reconnect(t)
                      \/ TrayDisconnect(t) \/ CallSent(t) \/ SessionReplaced(t)
                      \/ OpenSucceeds(t) \/ OpenFails(t) \/ Closes(t)
                      \/ CallUnanswered(t) \/ CallFails(t)
                      \/ CellWritten(t) \/ TrayUpdated(t)
  \/ \E c \in Conns : RouteReplaced(c)
  \/ SidecarDies \/ WriterEnds \/ SessionLost \/ LostSeen
  \/ \E q \in Queries : QuerySent(q) \/ RowNamed(q) \/ RowWritten(q)

(* The runtime schedules every task and the sidecar serves its queue.      *)
Fairness ==
  \A t \in Tasks :
    /\ WF_vars(CallSent(t) \/ CallUnanswered(t) \/ CallFails(t))
    /\ WF_vars(SessionReplaced(t) \/ OpenSucceeds(t) \/ OpenFails(t) \/ Closes(t))
    /\ WF_vars(CellWritten(t) \/ TrayUpdated(t))

Spec == Init /\ [][Next]_vars /\ Fairness

-----------------------------------------------------------------------------
(* Properties.                                                             *)

TypeOK ==
  /\ up \in BOOLEAN /\ cut \in BOOLEAN /\ session \in Conns \cup {None}
  /\ lockq \in Seq(Tasks)
  /\ cells \in [active : Conns \cup {None}, env : Conns \cup {None},
                airgap : BOOLEAN, psdpm : BOOLEAN]
  /\ tray \in Conns \cup {None}
  /\ task \in [Tasks -> [kind : {"none", "open", "close", "disconnect"},
                         conn : Conns \cup {None}, at : 1 .. Len(Cell) + 1,
                         pc : {"idle", "send", "called", "hung", "writing", "tray",
                               "failed", "done"}]]
  /\ page \in [route : Conns \cup {None}, source : Conns \cup {None}, by : 0 .. MaxTasks,
               boot : {"none", "opening", "ready", "fatal", "lost"}]
  /\ query \in [Queries -> [pc : {"new", "running", "named", "audited"},
                            ran : Conns \cup {None}, name : Conns \cup {None},
                            env : Conns \cup {None}, moved : BOOLEAN]]
  /\ overlapped \in BOOLEAN

Quiet == Lifecycle = {}

(* Once nothing is being opened or closed, the four cells and the tray's   *)
(* menu describe the session in place, and a page that is ready shows it,  *)
(* unless two opens or closes overlapped (commands.rs:430 writes the cells *)
(* after the sidecar answered, each under a lock of its own).              *)
CellsDescribeSession ==
  Quiet /\ session # None /\ ~overlapped =>
    /\ cells = Values(session) /\ tray = session
    /\ page.boot = "ready" => page.source = session

(* A row of the audit log names the connection its statement ran on, and   *)
(* its environment, unless a cell was written between the statement and    *)
(* its row (commands.rs:602 reads the cells when the statement is over).   *)
RowsNameTheirSession ==
  \A q \in Queries : query[q].pc = "audited" /\ ~query[q].moved =>
    query[q].name = query[q].ran /\ query[q].env = query[q].ran

(* "when env=prod, force airgap_mode and psdpm_mode ON regardless of       *)
(* stored value" (commands.rs:424): with a prod session in place and       *)
(* nothing being opened or closed, no command goes out to the network.     *)
ProdIsAirGapped == Quiet /\ session \in Prod => ~EgressAllowed

(* A page that opens its source gets to know how that ended, or is left,   *)
(* whatever else is opened and closed and even if the sidecar dies, before *)
(* the call, during it or, found out by another call, after it.  Only the  *)
(* call that was sent between the end of the process and that of its       *)
(* writer has no answer (sidecar.rs:206-213, 271-277): its page is stuck.  *)
PageLeavesLoading ==
  page.boot = "opening" ~> page.boot # "opening" \/ task[page.by].pc = "hung"
=============================================================================
