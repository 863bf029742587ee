--------------------------- MODULE WorkspaceProofs ---------------------------
(***************************************************************************)
(* Proofs about Workspace: what the cells say of the session when nothing  *)
(* is being opened or closed, and what a row of the audit log says of its  *)
(* statement.  Then about the other screens: the list of sandboxes, the    *)
(* tree of schemas, the dialogs around REST endpoints and the window of    *)
(* the debugger.                                                           *)
(*                                                                         *)
(* The first argument follows the one task that runs alone: since it       *)
(* started nothing else has written a cell, the tray or the page, so that  *)
(* what it has written so far describes the session its call left.  The    *)
(* task that ends last before everything is quiet is such a one, unless    *)
(* two of them overlapped.  For each of the other screens an invariant     *)
(* says of every call on its way what its answer will mean, whoever else   *)
(* was answered first.                                                     *)
(***************************************************************************)
EXTENDS MCWorkspace, Functions, TLAPS

(* What a queue holds, and that it holds nothing twice, after its head is  *)
(* taken ...                                                               *)
LEMMA TailHolds ==
  ASSUME NEW T, NEW s \in Seq(T), s # <<>>
  PROVE  /\ Head(s) \in T /\ Tail(s) \in Seq(T)
         /\ Range(s) = {Head(s)} \cup Range(Tail(s))
         /\ IsInjective(s) => Head(s) \notin Range(Tail(s)) /\ IsInjective(Tail(s))
<1>1. /\ Tail(s) \in Seq(T) /\ Len(s) \in Nat \ {0} /\ DOMAIN s = 1 .. Len(s)
      /\ DOMAIN Tail(s) = 1 .. Len(s) - 1 /\ Head(s) = s[1]
      /\ \A i \in 1 .. Len(s) - 1 : Tail(s)[i] = s[i + 1]
  OBVIOUS
<1>2. \A i \in 1 .. Len(s) : i = 1 \/ (i - 1 \in 1 .. Len(s) - 1 /\ Tail(s)[i - 1] = s[i])
  BY <1>1
<1>3. \A i \in 1 .. Len(s) - 1 : i + 1 \in 1 .. Len(s) /\ i + 1 # 1 /\ i + 1 - 1 = i
  BY <1>1
<1>4. Range(s) = {Head(s)} \cup Range(Tail(s))
  <2>1. ASSUME NEW x \in Range(s) PROVE x \in {Head(s)} \cup Range(Tail(s))
    <3>1. PICK i \in 1 .. Len(s) : x = s[i]
      BY <1>1 DEF Range
    <3> QED
      BY <1>1, <1>2, <3>1 DEF Range
  <2>2. Head(s) \in Range(s) /\ \A x \in Range(Tail(s)) : x \in Range(s)
    BY <1>1, <1>3 DEF Range
  <2> QED
    BY <2>1, <2>2
<1>5. IsInjective(s) => Head(s) \notin Range(Tail(s)) /\ IsInjective(Tail(s))
  BY <1>1, <1>3 DEF Range, IsInjective
<1> QED
  BY <1>1, <1>4, <1>5

(* ... and after an element is added.                                      *)
LEMMA AppendHolds ==
  ASSUME NEW T, NEW s \in Seq(T), NEW e \in T
  PROVE  /\ Append(s, e) \in Seq(T) /\ Range(Append(s, e)) = Range(s) \cup {e}
         /\ IsInjective(s) /\ e \notin Range(s) => IsInjective(Append(s, e))
<1>1. /\ Append(s, e) \in Seq(T) /\ Len(s) \in Nat /\ DOMAIN s = 1 .. Len(s)
      /\ DOMAIN Append(s, e) = 1 .. Len(s) + 1 /\ Append(s, e)[Len(s) + 1] = e
      /\ \A i \in 1 .. Len(s) : Append(s, e)[i] = s[i]
  OBVIOUS
<1>2. \A i \in 1 .. Len(s) + 1 : i \in 1 .. Len(s) \/ i = Len(s) + 1
  BY <1>1
<1>3. Range(Append(s, e)) = Range(s) \cup {e}
  BY <1>1, <1>2 DEF Range
<1>4. IsInjective(s) /\ e \notin Range(s) => IsInjective(Append(s, e))
  BY <1>1, <1>2 DEF Range, IsInjective
<1> QED
  BY <1>1, <1>3, <1>4

(* An empty one holds nothing.                                             *)
LEMMA EmptyHolds == Range(<<>>) = {} /\ IsInjective(<<>>)
  BY DEF Range, IsInjective

Somewhere == Conns \cup {None}
Task == [kind : {"none", "open", "close", "disconnect"}, conn : Somewhere,
         at : 1 .. 5,
         pc : {"idle", "send", "called", "hung", "writing", "tray", "failed", "done"}]

(* The cells a task writes; its connection is that of its kind, and its    *)
(* count of written cells that of its state.                               *)
Due(e) == IF e.kind = "disconnect" THEN 1 ELSE 4

Fits(e) ==
  /\ e.kind # "open" => e.conn = None
  /\ e.pc \in {"idle", "send", "called", "hung", "failed"} => e.at = 1
  /\ e.pc = "writing" => e.at <= Due(e)
  /\ e.pc = "tray" => e.at = Due(e) + 1

TaskInv == \A t \in Tasks : Fits(task[t])

(* The lock's queue holds tasks that wait for an answer, none twice, and   *)
(* nothing of a sidecar that is dead.                                      *)
QueueInv ==
  /\ IsInjective(lockq)
  /\ \A t \in Range(lockq) : task[t].pc = "called"
  /\ ~up => session = None /\ lockq = <<>>

(* A task that has run alone since it started: if it opens, the page waits *)
(* for it; what it has written so far is of its connection, and the        *)
(* session is either that or gone.                                         *)
Alone(t) ==
  /\ task[t].kind = "open" =>
       page.by = t /\ page.boot = "opening" /\ page.source = task[t].conn
  /\ task[t].pc \in {"writing", "tray"} =>
       /\ session \in {None, task[t].conn}
       /\ \A i \in 1 .. 4 : i < task[t].at =>
            cells[Cell[i]] = Values(task[t].conn)[Cell[i]]
  /\ task[t].pc = "failed" => session = None

AloneInv ==
  ~overlapped => /\ \A s, t \in Lifecycle : s = t
                 /\ \A t \in Lifecycle : Alone(t)

(* Until a cell is written, the cells name the connection a statement that *)
(* is on its way runs on.                                                  *)
RowInv ==
  \A q \in Queries : ~query[q].moved =>
    /\ query[q].pc \in {"running", "named"} =>
         cells.active = query[q].ran /\ cells.env = query[q].ran
    /\ query[q].pc \in {"named", "audited"} => query[q].name = query[q].ran
    /\ query[q].pc = "audited" => query[q].env = query[q].ran

-----------------------------------------------------------------------------
(***************************************************************************)
(* The cells.                                                              *)
(***************************************************************************)

CellValues == [active : Somewhere, env : Somewhere, airgap : BOOLEAN, psdpm : BOOLEAN]

LEMMA CellNames ==
  /\ Len(Cell) = 4
  /\ Cell[1] = "active" /\ Cell[2] = "env" /\ Cell[3] = "airgap" /\ Cell[4] = "psdpm"
  BY DEF Cell

(* What a connection, or none, puts into the cells.                        *)
LEMMA ValuesHold ==
  ASSUME NEW c \in Somewhere
  PROVE  /\ Values(c) \in CellValues
         /\ Values(c).active = c /\ Values(c).env = c
<1>1. (c \in Prod \cup AirGapped) \in BOOLEAN /\ (c \in Prod \cup Psdpm) \in BOOLEAN
  OBVIOUS
<1>2. QED BY <1>1 DEF Values, CellValues

(* The cells are equal if they are equal one by one.                       *)
LEMMA CellsEqual ==
  ASSUME NEW x \in CellValues, NEW y \in CellValues,
         \A i \in 1 .. 4 : x[Cell[i]] = y[Cell[i]]
  PROVE  x = y
<1>1. x.active = y.active /\ x.env = y.env /\ x.airgap = y.airgap /\ x.psdpm = y.psdpm
  <2>1. /\ x[Cell[1]] = y[Cell[1]] /\ x[Cell[2]] = y[Cell[2]]
        /\ x[Cell[3]] = y[Cell[3]] /\ x[Cell[4]] = y[Cell[4]]
    OBVIOUS
  <2>2. QED BY <2>1, CellNames
<1>2. QED BY <1>1 DEF CellValues

(* Writing the i-th cell gives it its value and leaves the others alone.   *)
CellNumbers == 1 .. 4

LEMMA CellSet ==
  ASSUME NEW x \in CellValues, NEW v \in CellValues, NEW i \in CellNumbers
  PROVE  \E y \in CellValues :
           /\ y = [x EXCEPT ![Cell[i]] = v[Cell[i]]]
           /\ y[Cell[i]] = v[Cell[i]]
           /\ \A j \in 1 .. 4 : j < i => y[Cell[j]] = x[Cell[j]]
<1> DEFINE y == [x EXCEPT ![Cell[i]] = v[Cell[i]]]
<1>1. CASE i = 1
  <2>1. y = [x EXCEPT !.active = v.active]
    BY <1>1, CellNames
  <2>2. QED BY <1>1, <2>1, CellNames DEF CellValues
<1>2. CASE i = 2
  <2>1. y = [x EXCEPT !.env = v.env]
    BY <1>2, CellNames
  <2>2. \A j \in 1 .. 4 : j < 2 => j = 1
    OBVIOUS
  <2>3. QED BY <1>2, <2>1, <2>2, CellNames DEF CellValues
<1>3. CASE i = 3
  <2>1. y = [x EXCEPT !.airgap = v.airgap]
    BY <1>3, CellNames
  <2>2. \A j \in 1 .. 4 : j < 3 => j = 1 \/ j = 2
    OBVIOUS
  <2>3. QED BY <1>3, <2>1, <2>2, CellNames DEF CellValues
<1>4. CASE i = 4
  <2>1. y = [x EXCEPT !.psdpm = v.psdpm]
    BY <1>4, CellNames
  <2>2. \A j \in 1 .. 4 : j < 4 => j = 1 \/ j = 2 \/ j = 3
    OBVIOUS
  <2>3. QED BY <1>4, <2>1, <2>2, CellNames DEF CellValues
<1>5. QED BY <1>1, <1>2, <1>3, <1>4 DEF CellNumbers

-----------------------------------------------------------------------------
(***************************************************************************)
(* Types, and how a task stands.                                           *)
(***************************************************************************)

TypeInv == TypeOK /\ TaskInv

Page == [route : Somewhere, source : Somewhere, by : 0 .. MaxTasks,
         boot : {"none", "opening", "ready", "fatal", "lost"}]
Query == [pc : {"new", "running", "named", "audited"}, ran : Somewhere,
          name : Somewhere, env : Somewhere, moved : BOOLEAN]

LEMMA TypesAre ==
  TypeOK <=> /\ up \in BOOLEAN /\ cut \in BOOLEAN /\ session \in Somewhere
             /\ lockq \in Seq(Tasks)
             /\ cells \in CellValues
             /\ tray \in Somewhere
             /\ task \in [Tasks -> Task]
             /\ page \in Page
             /\ query \in [Queries -> Query]
             /\ overlapped \in BOOLEAN
  BY CellNames DEF TypeOK, Somewhere, CellValues, Task, Page, Query

LEMMA WritesDue == \A t \in Tasks : Writes(t) = Due(task[t])
  BY CellNames DEF Writes, Due

LEMMA InitTypes == Init => TypeInv
<1> SUFFICES ASSUME Init PROVE TypeInv
  OBVIOUS
<1>1. None \in Somewhere /\ Values(None) \in CellValues
  BY ValuesHold DEF Somewhere
<1>2. /\ up \in BOOLEAN /\ cut \in BOOLEAN /\ session \in Somewhere /\ lockq \in Seq(Tasks)
      /\ cells \in CellValues /\ tray \in Somewhere /\ overlapped \in BOOLEAN
  <2>1. lockq \in Seq(Tasks)
    BY DEF Init
  <2>2. cells \in CellValues
    BY <1>1 DEF Init, Cleared
  <2>3. session \in Somewhere /\ tray \in Somewhere
    BY <1>1 DEF Init
  <2>4. QED BY <2>1, <2>2, <2>3 DEF Init
<1>3. Idle \in Task /\ Fits(Idle)
  BY <1>1 DEF Idle, Task, Fits
<1>4. NoPage \in Page /\ NoQuery \in Query
  BY <1>1, WorkspaceAssumption DEF NoPage, NoQuery, Page, Query
<1>5. TaskInv
  BY <1>3 DEF Init, TaskInv
<1>6. task \in [Tasks -> Task]
  BY <1>3 DEF Init
<1>7. TypeOK
  BY <1>2, <1>4, <1>6, TypesAre DEF Init
<1>8. QED BY <1>5, <1>7 DEF TypeInv

(* A task is replaced by one that fits.                                    *)
LEMMA TaskReplaced ==
  ASSUME TypeInv, NEW t \in Tasks, NEW e \in Task, Fits(e),
         task' = [task EXCEPT ![t] = e]
  PROVE  /\ task' \in [Tasks -> Task] /\ TaskInv'
         /\ task'[t] = e /\ \A s \in Tasks \ {t} : task'[s] = task[s]
<1>1. task \in [Tasks -> Task] /\ TaskInv
  BY TypesAre DEF TypeInv
<1>2. /\ task' \in [Tasks -> Task]
      /\ task'[t] = e /\ \A s \in Tasks \ {t} : task'[s] = task[s]
  BY <1>1
<1>3. TaskInv'
  BY <1>1, <1>2 DEF TaskInv
<1>4. QED BY <1>2, <1>3

(* A task that starts, sends its call, is answered, writes a cell and      *)
(* redraws the tray.                                                       *)
LEMMA StartHolds ==
  ASSUME NEW kind \in {"open", "close", "disconnect"}, NEW c \in Somewhere,
         kind # "open" => c = None
  PROVE  LET e == [kind |-> kind, conn |-> c, pc |-> "send", at |-> 1]
         IN  e \in Task /\ Fits(e) /\ e.pc = "send"
  BY DEF Task, Fits

LEMMA CallHolds ==
  ASSUME NEW x \in Task, Fits(x), x.pc = "send", NEW pc \in {"called", "hung"}
  PROVE  LET e == [x EXCEPT !.pc = pc]
         IN  e \in Task /\ Fits(e) /\ e.kind = x.kind /\ e.conn = x.conn
  BY DEF Task, Fits, Due

Outcomes == {"writing", "failed", "done"}

LEMMA AnswerHolds ==
  ASSUME NEW x \in Task, Fits(x), x.pc \in {"send", "called"}, NEW pc \in Outcomes
  PROVE  \E e \in Task : /\ e = [x EXCEPT !.pc = pc] /\ Fits(e)
                         /\ e.kind = x.kind /\ e.conn = x.conn /\ e.at = 1 /\ e.pc = pc
<1> DEFINE e == [x EXCEPT !.pc = pc]
<1>1. e \in Task /\ e.kind = x.kind /\ e.conn = x.conn /\ e.at = 1 /\ e.pc = pc
  BY DEF Task, Fits, Outcomes
<1>2. Fits(e)
  BY <1>1 DEF Fits, Due, Outcomes
<1>3. QED BY <1>1, <1>2

LEMMA WriteHolds ==
  ASSUME NEW x \in Task, Fits(x), x.pc = "writing"
  PROVE  /\ x.at \in 1 .. 4
         /\ \E e \in Task :
              /\ e = [x EXCEPT !.pc = IF x.at = Due(x) THEN "tray" ELSE @, !.at = @ + 1]
              /\ Fits(e) /\ e.kind = x.kind /\ e.conn = x.conn
              /\ e.pc \in {"writing", "tray"} /\ e.at = x.at + 1
<1>1. x.at \in 1 .. 4 /\ x.at <= Due(x) /\ Due(x) \in {1, 4}
  BY DEF Task, Fits, Due
<1>2. PICK n \in 1 .. 5 : n = x.at + 1
  BY <1>1
<1>3. PICK pc \in {"writing", "tray"} : pc = IF x.at = Due(x) THEN "tray" ELSE x.pc
  OBVIOUS
<1> DEFINE e == [x EXCEPT !.pc = pc, !.at = n]
<1>4. e \in Task /\ e.kind = x.kind /\ e.conn = x.conn /\ e.pc = pc /\ e.at = n
  BY <1>2, <1>3 DEF Task
<1>5. Fits(e)
  BY <1>1, <1>2, <1>3, <1>4 DEF Fits, Due
<1>6. e = [x EXCEPT !.pc = IF x.at = Due(x) THEN "tray" ELSE @, !.at = @ + 1]
  BY <1>2, <1>3
<1>7. QED BY <1>1, <1>2, <1>3, <1>4, <1>5, <1>6

LEMMA DoneHolds ==
  ASSUME NEW x \in Task, Fits(x)
  PROVE  LET e == [x EXCEPT !.pc = "done"]
         IN  e \in Task /\ Fits(e) /\ e.kind = x.kind /\ e.conn = x.conn /\ e.pc = "done"
  BY DEF Task, Fits

LEMMA StartTypes ==
  ASSUME TypeInv, NEW t \in Tasks, NEW kind \in {"open", "close", "disconnect"},
         NEW c \in Somewhere, kind # "open" => c = None, StartTask(t, kind, c)
  PROVE  /\ task' \in [Tasks -> Task] /\ TaskInv'
         /\ task[t].pc = "idle"
         /\ task'[t] = [kind |-> kind, conn |-> c, pc |-> "send", at |-> 1]
         /\ \A s \in Tasks \ {t} : task'[s] = task[s]
         /\ tray' \in Somewhere /\ overlapped' \in BOOLEAN
<1>1. PICK e : /\ e = [kind |-> kind, conn |-> c, pc |-> "send", at |-> 1]
               /\ e \in Task /\ Fits(e)
  BY StartHolds
<1>2. /\ task' = [task EXCEPT ![t] = e]
      /\ overlapped' = (Lifecycle # {})
      /\ tray' = IF kind = "open" THEN cells.active ELSE tray
      /\ task[t].pc = "idle"
  BY <1>1 DEF StartTask, Idle
<1>3. cells.active \in Somewhere /\ tray \in Somewhere
  BY TypesAre DEF TypeInv, CellValues
<1>4. QED BY <1>1, <1>2, <1>3, TaskReplaced

(* The answer to a call.                                                   *)
LEMMA AfterHolds ==
  \A t \in Tasks, answered \in BOOLEAN :
    /\ After(t, answered) \in Outcomes
    /\ answered => After(t, answered) = "writing"
  BY DEF After, Outcomes

LEMMA AnswerTypes ==
  ASSUME TypeInv, NEW t \in Tasks, task[t].pc \in {"send", "called"},
         NEW answered \in BOOLEAN,
         task' = [task EXCEPT ![t].pc = After(t, answered)]
  PROVE  /\ task' \in [Tasks -> Task] /\ TaskInv'
         /\ task'[t].kind = task[t].kind /\ task'[t].conn = task[t].conn
         /\ task'[t].at = 1 /\ task'[t].pc = After(t, answered)
         /\ \A s \in Tasks \ {t} : task'[s] = task[s]
<1>1. task \in [Tasks -> Task] /\ task[t] \in Task /\ Fits(task[t])
  BY TypesAre DEF TypeInv, TaskInv
<1>2. PICK pc \in Outcomes : pc = After(t, answered)
  BY AfterHolds
<1>3. PICK e : /\ e = [task[t] EXCEPT !.pc = pc] /\ e \in Task /\ Fits(e)
               /\ e.kind = task[t].kind /\ e.conn = task[t].conn /\ e.at = 1 /\ e.pc = pc
  BY <1>1, AnswerHolds
<1>4. task' = [task EXCEPT ![t] = e]
  BY <1>1, <1>2, <1>3
<1>5. QED BY <1>2, <1>3, <1>4, TaskReplaced

(* What every task comes to when the sidecar dies.                         *)
LEMMA DeathTypes ==
  ASSUME TypeInv, SidecarDies
  PROVE  /\ task' \in [Tasks -> Task] /\ TaskInv'
         /\ \A t \in Tasks : /\ task'[t].kind = task[t].kind /\ task'[t].conn = task[t].conn
                             /\ task[t].pc # "called" => task'[t] = task[t]
                             /\ task[t].pc = "called" =>
                                  task'[t].pc \in Outcomes /\ task'[t].at = 1
<1>1. ASSUME NEW t \in Tasks
      PROVE  /\ task'[t] \in Task /\ Fits(task'[t])
             /\ task'[t].kind = task[t].kind /\ task'[t].conn = task[t].conn
             /\ task[t].pc # "called" => task'[t] = task[t]
             /\ task[t].pc = "called" => task'[t].pc \in Outcomes /\ task'[t].at = 1
  <2>1. task[t] \in Task /\ Fits(task[t])
    BY TypesAre DEF TypeInv, TaskInv
  <2>2. PICK pc \in Outcomes : pc = After(t, FALSE)
    BY AfterHolds
  <2>3. task'[t] = IF task[t].pc = "called" THEN [task[t] EXCEPT !.pc = pc] ELSE task[t]
    BY <2>2 DEF SidecarDies
  <2>4. CASE task[t].pc = "called"
    <3>1. PICK e : /\ e = [task[t] EXCEPT !.pc = pc] /\ e \in Task /\ Fits(e)
                   /\ e.kind = task[t].kind /\ e.conn = task[t].conn /\ e.at = 1 /\ e.pc = pc
      BY <2>1, <2>4, AnswerHolds
    <3>2. task'[t] = e
      BY <2>3, <2>4, <3>1
    <3>3. QED BY <2>4, <3>1, <3>2
  <2>5. CASE task[t].pc # "called"
    BY <2>1, <2>3, <2>5
  <2>6. QED BY <2>4, <2>5
<1>2. task' \in [Tasks -> Task]
  <2>1. DOMAIN task' = Tasks /\ task' = [t \in DOMAIN task' |-> task'[t]]
    BY DEF SidecarDies
  <2>2. QED BY <1>1, <2>1
<1>3. TaskInv'
  BY <1>1 DEF TaskInv
<1>4. QED BY <1>1, <1>2, <1>3

LEMMA TypesNext ==
  /\ up' \in BOOLEAN /\ cut' \in BOOLEAN /\ session' \in Somewhere
  /\ lockq' \in Seq(Tasks)
  /\ cells' \in CellValues
  /\ tray' \in Somewhere
  /\ task' \in [Tasks -> Task]
  /\ page' \in Page
  /\ query' \in [Queries -> Query]
  /\ overlapped' \in BOOLEAN
  => TypeOK'
  BY CellNames DEF TypeOK, Somewhere, CellValues, Task, Page, Query

(* A task starts.                                                          *)
LEMMA StartsTyped ==
  ASSUME TypeInv,
         NEW t \in Tasks,
         \/ \E c \in Conns : PageOpened(t, c)
         \/ Unmount(t) \/ DisconnectClicked(t) \/ Reconnect(t) \/ TrayDisconnect(t)
  PROVE  TypeInv'
<1>1. None \in Somewhere /\ Conns \subseteq Somewhere /\ t \in 0 .. MaxTasks
  BY DEF Somewhere, Tasks
<1>2. page \in Page /\ page.route \in Somewhere
  BY TypesAre DEF TypeInv, Page
<1>3. PICK kind \in {"open", "close", "disconnect"}, c \in Somewhere :
        (kind # "open" => c = None) /\ StartTask(t, kind, c)
  BY <1>1, <1>2 DEF PageOpened, Unmount, DisconnectClicked, Reconnect, TrayDisconnect
<1>4. /\ task' \in [Tasks -> Task] /\ TaskInv'
      /\ tray' \in Somewhere /\ overlapped' \in BOOLEAN
  BY <1>3, StartTypes
<1>5. UNCHANGED <<up, cut, session, lockq, cells, query>>
  BY DEF PageOpened, Unmount, DisconnectClicked, Reconnect, TrayDisconnect, sidecar
<1>6. page' \in Page
  <2>1. CASE \E d \in Conns : PageOpened(t, d)
    BY <1>1, <2>1 DEF PageOpened, Page
  <2>2. CASE Unmount(t)
    BY <1>1, <2>2, WorkspaceAssumption DEF Unmount, NoPage, Page
  <2>3. CASE Reconnect(t)
    BY <1>1, <1>2, <2>3 DEF Reconnect, Page
  <2>4. CASE DisconnectClicked(t) \/ TrayDisconnect(t)
    BY <1>2, <2>4 DEF DisconnectClicked, TrayDisconnect
  <2>5. QED BY <2>1, <2>2, <2>3, <2>4
<1>7. QED BY <1>4, <1>5, <1>6, TypesAre, TypesNext DEF TypeInv

(* Its call, and the sidecar's side of it.                                 *)
LEMMA CallsTyped ==
  ASSUME TypeInv,
         NEW t \in Tasks,
         \/ CallSent(t) \/ CallUnanswered(t) \/ CallFails(t)
         \/ SessionReplaced(t) \/ OpenSucceeds(t) \/ OpenFails(t) \/ Closes(t),
         \A s \in Range(lockq) : task[s].pc = "called"
  PROVE  TypeInv'
<1>1. /\ None \in Somewhere /\ lockq \in Seq(Tasks)
      /\ task[t] \in Task /\ Fits(task[t]) /\ task[t].conn \in Somewhere
      /\ task \in [Tasks -> Task] /\ TaskInv
  BY TypesAre DEF TypeInv, TaskInv, Somewhere, Task
<1>2. UNCHANGED <<up, cut, cells, tray, page, query, overlapped>>
  BY DEF CallSent, CallUnanswered, CallFails, SessionReplaced, OpenSucceeds, OpenFails, Closes, Answered,
         sidecar, cellVars
<1>3. session' \in Somewhere
  BY <1>1, TypesAre
  DEF TypeInv, CallSent, CallUnanswered, CallFails, SessionReplaced, OpenSucceeds, OpenFails, Closes, Answered,
      sidecar
<1>4. CASE CallSent(t)
  <2>1. PICK e : e = [task[t] EXCEPT !.pc = "called"] /\ e \in Task /\ Fits(e)
    BY <1>1, <1>4, CallHolds DEF CallSent
  <2>2. task' = [task EXCEPT ![t] = e]
    BY <1>1, <1>4, <2>1 DEF CallSent
  <2>3. lockq' \in Seq(Tasks)
    BY <1>1, <1>4 DEF CallSent
  <2>4. QED BY <1>2, <1>3, <2>1, <2>2, <2>3, TaskReplaced, TypesAre, TypesNext DEF TypeInv
<1>5. CASE SessionReplaced(t)
  BY <1>1, <1>2, <1>3, <1>5, TypesAre, TypesNext DEF SessionReplaced, TypeInv, TaskInv
<1>6. CASE CallFails(t)
  <2>1. task' \in [Tasks -> Task] /\ TaskInv'
    BY <1>6, AnswerTypes DEF CallFails
  <2>2. QED BY <1>1, <1>2, <1>3, <1>6, <2>1, TypesAre, TypesNext DEF TypeInv, CallFails, sidecar
<1>7. CASE OpenSucceeds(t) \/ OpenFails(t) \/ Closes(t)
  <2>1. lockq # <<>> /\ Head(lockq) = t
    BY <1>7 DEF OpenSucceeds, OpenFails, Closes, Holds
  <2>2. task[t].pc = "called" /\ Tail(lockq) \in Seq(Tasks)
    BY <1>1, <2>1, TailHolds
  <2>3. PICK c \in Somewhere, answered \in BOOLEAN : Answered(t, c, answered)
    BY <1>1, <1>7 DEF OpenSucceeds, OpenFails, Closes
  <2>4. task' \in [Tasks -> Task] /\ TaskInv'
    BY <2>2, <2>3, AnswerTypes DEF Answered
  <2>5. lockq' \in Seq(Tasks)
    BY <2>2, <2>3 DEF Answered
  <2>6. QED BY <1>2, <1>3, <2>4, <2>5, TypesAre, TypesNext DEF TypeInv
<1>8. CASE CallUnanswered(t)
  <2>1. PICK e : e = [task[t] EXCEPT !.pc = "hung"] /\ e \in Task /\ Fits(e)
    BY <1>1, <1>8, CallHolds DEF CallUnanswered
  <2>2. task' = [task EXCEPT ![t] = e]
    BY <1>1, <1>8, <2>1 DEF CallUnanswered
  <2>3. lockq' \in Seq(Tasks)
    BY <1>1, <1>8 DEF CallUnanswered, sidecar
  <2>4. QED BY <1>2, <1>3, <2>1, <2>2, <2>3, TaskReplaced, TypesAre, TypesNext DEF TypeInv
<1>9. QED BY <1>4, <1>5, <1>6, <1>7, <1>8

(* A task writes a cell or redraws the tray, and the sidecar dies.         *)
LEMMA WritesTyped ==
  ASSUME TypeInv,
         \/ \E t \in Tasks : CellWritten(t) \/ TrayUpdated(t)
         \/ SidecarDies
  PROVE  TypeInv'
<1>1. /\ None \in Somewhere /\ cells \in CellValues /\ page \in Page
      /\ query \in [Queries -> Query]
      /\ task \in [Tasks -> Task] /\ TaskInv
  BY TypesAre DEF TypeInv, Somewhere
<1>2. ASSUME NEW t \in Tasks, CellWritten(t) PROVE TypeInv'
  <2>1. task[t] \in Task /\ Fits(task[t]) /\ task[t].conn \in Somewhere /\ task[t].pc = "writing"
    BY <1>1, <1>2 DEF TaskInv, Task, CellWritten
  <2>2. task[t].at \in 1 .. 4
    BY <2>1, WriteHolds
  <2>3. PICK e \in Task :
          /\ e = [task[t] EXCEPT !.pc = IF task[t].at = Due(task[t]) THEN "tray" ELSE @,
                                 !.at = @ + 1]
          /\ Fits(e)
    BY <2>1, WriteHolds
  <2>4. task' = [task EXCEPT ![t] = e]
    BY <1>1, <1>2, <2>3, WritesDue DEF CellWritten
  <2>5. cells' \in CellValues
    <3>1. PICK v \in CellValues : v = Values(task[t].conn)
      BY <2>1, ValuesHold
    <3>2. PICK i \in CellNumbers : i = task[t].at
      BY <2>2 DEF CellNumbers
    <3>3. PICK y \in CellValues : y = [cells EXCEPT ![Cell[i]] = v[Cell[i]]]
      BY <1>1, CellSet
    <3>4. QED BY <1>2, <3>1, <3>2, <3>3 DEF CellWritten
  <2>6. query' \in [Queries -> Query]
    <3>1. ASSUME NEW q \in Queries
          PROVE  [query[q] EXCEPT !.moved = TRUE] \in Query /\ query[q] \in Query
      BY <1>1 DEF Query
    <3>2. QED BY <1>2, <3>1 DEF CellWritten, Moved
  <2>7. QED
    BY <1>2, <2>3, <2>4, <2>5, <2>6, TaskReplaced, TypesAre, TypesNext
    DEF TypeInv, CellWritten, sidecar
<1>3. ASSUME NEW t \in Tasks, TrayUpdated(t) PROVE TypeInv'
  <2>1. task[t] \in Task /\ Fits(task[t])
    BY <1>1 DEF TaskInv
  <2>2. PICK e : e = [task[t] EXCEPT !.pc = "done"] /\ e \in Task /\ Fits(e)
    BY <2>1, DoneHolds
  <2>3. task' = [task EXCEPT ![t] = e]
    BY <1>1, <1>3, <2>2 DEF TrayUpdated
  <2>4. page' \in Page
    BY <1>1, <1>3 DEF TrayUpdated, Page
  <2>5. tray' \in Somewhere
    BY <1>1, <1>3 DEF TrayUpdated, CellValues
  <2>6. QED
    BY <1>3, <2>2, <2>3, <2>4, <2>5, TaskReplaced, TypesAre, TypesNext
    DEF TypeInv, TrayUpdated, sidecar
<1>4. CASE SidecarDies
  <2>1. up' \in BOOLEAN /\ cut' = cut /\ session' \in Somewhere /\ lockq' \in Seq(Tasks)
    <3>1. lockq' \in Seq(Tasks)
      BY <1>4 DEF SidecarDies
    <3>2. QED BY <1>1, <1>4, <3>1 DEF SidecarDies
  <2>2. task' \in [Tasks -> Task] /\ TaskInv'
    BY <1>4, DeathTypes
  <2>3. QED BY <1>4, <2>1, <2>2, TypesAre, TypesNext DEF TypeInv, SidecarDies, cellVars
<1>5. QED BY <1>2, <1>3, <1>4

(* The page, the session and the statements.                               *)
LEMMA OthersTyped ==
  ASSUME TypeInv,
         \/ UNCHANGED vars
         \/ \E c \in Conns : RouteReplaced(c)
         \/ SessionLost \/ LostSeen \/ WriterEnds
         \/ \E q \in Queries : QuerySent(q) \/ RowNamed(q) \/ RowWritten(q)
  PROVE  TypeInv'
<1>1. /\ None \in Somewhere /\ Conns \subseteq Somewhere
      /\ cells \in CellValues /\ cells.active \in Somewhere /\ cells.env \in Somewhere
      /\ page \in Page /\ query \in [Queries -> Query] /\ TaskInv
      /\ session \in Somewhere /\ overlapped \in BOOLEAN /\ cut \in BOOLEAN
  BY TypesAre DEF TypeInv, Somewhere, CellValues
<1>2. UNCHANGED <<up, lockq, cells, tray, task, overlapped>> /\ cut' \in BOOLEAN
  BY <1>1 DEF RouteReplaced, SessionLost, LostSeen, WriterEnds, QuerySent, RowNamed, RowWritten, QueryStep,
         vars, sidecar, cellVars
<1>3. session' \in Somewhere
  BY <1>1 DEF RouteReplaced, SessionLost, LostSeen, WriterEnds, QuerySent, RowNamed, RowWritten, QueryStep,
              vars, sidecar
<1>4. page' \in Page
  <2>1. CASE UNCHANGED page
    BY <1>1, <2>1
  <2>2. CASE \E c \in Conns : RouteReplaced(c)
    BY <1>1, <2>2 DEF RouteReplaced, Page
  <2>3. CASE LostSeen
    BY <1>1, <2>3 DEF LostSeen, Page
  <2>4. QED
    BY <2>1, <2>2, <2>3 DEF SessionLost, WriterEnds, QuerySent, RowNamed, RowWritten, QueryStep, vars
<1>5. query' \in [Queries -> Query]
  <2>1. CASE UNCHANGED query
    BY <1>1, <2>1
  <2>2. ASSUME NEW q \in Queries, QuerySent(q) PROVE query' \in [Queries -> Query]
    <3>1. PICK m \in BOOLEAN : m = (overlapped \/ Lifecycle # {})
      BY <1>1
    <3>2. [query[q] EXCEPT !.pc = "running", !.ran = session, !.moved = m] \in Query
      BY <1>1 DEF Query
    <3>3. QED BY <1>1, <2>2, <3>1, <3>2 DEF QuerySent
  <2>3. ASSUME NEW q \in Queries, RowNamed(q) PROVE query' \in [Queries -> Query]
    <3>1. [[query[q] EXCEPT !.name = cells.active] EXCEPT !.pc = "named"] \in Query
      BY <1>1 DEF Query
    <3>2. QED BY <1>1, <2>3, <3>1 DEF RowNamed, QueryStep
  <2>4. ASSUME NEW q \in Queries, RowWritten(q) PROVE query' \in [Queries -> Query]
    <3>1. [[query[q] EXCEPT !.env = cells.env] EXCEPT !.pc = "audited"] \in Query
      BY <1>1 DEF Query
    <3>2. QED BY <1>1, <2>4, <3>1 DEF RowWritten, QueryStep
  <2>5. QED
    BY <2>1, <2>2, <2>3, <2>4 DEF SessionLost, WriterEnds, RouteReplaced, LostSeen, vars
<1>6. QED BY <1>1, <1>2, <1>3, <1>4, <1>5, TypesAre, TypesNext DEF TypeInv, TaskInv

-----------------------------------------------------------------------------
(***************************************************************************)
(* The queue of the sidecar's lock.                                        *)
(***************************************************************************)

(* A step that changes no task which waits.                                *)
LEMMA QueueStays ==
  ASSUME QueueInv, lockq' = lockq, up' = up, ~up => session' = None,
         \A t \in Range(lockq) : task'[t].pc = task[t].pc
  PROVE  QueueInv'
  BY DEF QueueInv

LEMMA QueueStep ==
  ASSUME TypeInv, QueueInv, [Next]_vars
  PROVE  QueueInv'
<1>1. /\ lockq \in Seq(Tasks) /\ task \in [Tasks -> Task] /\ TaskInv
      /\ \A t \in Range(lockq) : task[t].pc = "called"
      /\ ~up => session = None /\ lockq = <<>>
  BY TypesAre DEF TypeInv, QueueInv
<1>2. ASSUME NEW t \in Tasks,
             \/ \E c \in Conns : PageOpened(t, c)
             \/ Unmount(t) \/ DisconnectClicked(t) \/ Reconnect(t) \/ TrayDisconnect(t)
      PROVE  QueueInv'
  <2>1. PICK e : task' = [task EXCEPT ![t] = e] /\ task[t].pc = "idle"
    BY <1>2 DEF PageOpened, Unmount, DisconnectClicked, Reconnect, TrayDisconnect, StartTask, Idle
  <2>2. UNCHANGED sidecar
    BY <1>2 DEF PageOpened, Unmount, DisconnectClicked, Reconnect, TrayDisconnect
  <2>3. \A s \in Range(lockq) : task'[s] = task[s]
    BY <1>1, <2>1
  <2>4. QED BY <1>1, <2>2, <2>3, QueueStays DEF sidecar
<1>3. ASSUME NEW t \in Tasks, CallSent(t) PROVE QueueInv'
  <2>1. t \notin Range(lockq)
    BY <1>1, <1>3 DEF CallSent
  <2>2. /\ Range(lockq') = Range(lockq) \cup {t} /\ IsInjective(lockq')
    BY <1>1, <1>3, <2>1, AppendHolds DEF CallSent, QueueInv
  <2>3. task'[t].pc = "called" /\ \A s \in Range(lockq) : task'[s] = task[s]
    BY <1>1, <1>3, <2>1 DEF CallSent, Task
  <2>4. up' /\ \A s \in Range(lockq') : task'[s].pc = "called"
    BY <1>1, <1>3, <2>2, <2>3 DEF CallSent
  <2>5. QED BY <2>2, <2>4 DEF QueueInv
<1>4. ASSUME NEW t \in Tasks, CallFails(t) \/ CallUnanswered(t) PROVE QueueInv'
  <2>1. \A s \in Range(lockq) : task'[s] = task[s]
    <3>1. lockq = <<>>
      BY <1>1, <1>4 DEF CallFails, CallUnanswered
    <3>2. QED BY <3>1, EmptyHolds
  <2>2. QED BY <1>1, <1>4, <2>1, QueueStays DEF CallFails, CallUnanswered, sidecar
<1>5. ASSUME NEW t \in Tasks, OpenSucceeds(t) \/ OpenFails(t) \/ Closes(t) PROVE QueueInv'
  <2>1. lockq # <<>> /\ t = Head(lockq) /\ up' = up /\ lockq' = Tail(lockq)
    BY <1>5 DEF OpenSucceeds, OpenFails, Closes, Holds, Answered
  <2>2. /\ Range(lockq) = {t} \cup Range(lockq') /\ t \notin Range(lockq')
        /\ IsInjective(lockq')
    BY <1>1, <2>1, TailHolds DEF QueueInv
  <2>3. \A s \in Range(lockq') : task'[s] = task[s]
    <3>1. PICK pc : task' = [task EXCEPT ![t].pc = pc]
      BY <1>5 DEF OpenSucceeds, OpenFails, Closes, Answered
    <3>2. QED BY <1>1, <2>2, <3>1
  <2>4. \A s \in Range(lockq') : task'[s].pc = "called"
    BY <1>1, <2>2, <2>3
  <2>5. up'
    BY <1>1, <2>1
  <2>6. QED BY <2>2, <2>4, <2>5 DEF QueueInv
<1>6. ASSUME NEW t \in Tasks, CellWritten(t) \/ TrayUpdated(t) PROVE QueueInv'
  <2>1. task[t].pc # "called" /\ UNCHANGED sidecar
    BY <1>6 DEF CellWritten, TrayUpdated
  <2>2. \A s \in Range(lockq) : task'[s] = task[s]
    <3>1. \A s \in Tasks \ {t} : task'[s] = task[s]
      BY <1>1, <1>6 DEF CellWritten, TrayUpdated
    <3>2. Range(lockq) \subseteq Tasks \ {t}
      BY <1>1, <2>1 DEF Range
    <3>3. QED BY <3>1, <3>2
  <2>3. QED BY <1>1, <2>1, <2>2, QueueStays DEF sidecar
<1>7. CASE SidecarDies
  BY <1>7, EmptyHolds DEF SidecarDies, QueueInv
<1>8. CASE \/ UNCHANGED vars
           \/ \E c \in Conns : RouteReplaced(c)
           \/ SessionLost \/ LostSeen \/ WriterEnds
           \/ \E t \in Tasks : SessionReplaced(t)
           \/ \E q \in Queries : QuerySent(q) \/ RowNamed(q) \/ RowWritten(q)
  <2>1. UNCHANGED <<up, lockq, task>> /\ (session' = session \/ session' = None)
    BY <1>8 DEF RouteReplaced, SessionLost, LostSeen, WriterEnds, SessionReplaced, QuerySent, RowNamed,
                RowWritten, QueryStep, vars, sidecar
  <2>2. QED BY <1>1, <2>1, QueueStays
<1>9. QED BY <1>2, <1>3, <1>4, <1>5, <1>6, <1>7, <1>8 DEF Next

(* Every step keeps the types.                                             *)
LEMMA TypesStep ==
  ASSUME TypeInv, QueueInv, [Next]_vars
  PROVE  TypeInv'
<1>1. CASE \E t \in Tasks :
             \/ \E c \in Conns : PageOpened(t, c)
             \/ Unmount(t) \/ DisconnectClicked(t) \/ Reconnect(t) \/ TrayDisconnect(t)
  BY <1>1, StartsTyped
<1>2. CASE \E t \in Tasks :
             \/ CallSent(t) \/ CallUnanswered(t) \/ CallFails(t)
             \/ SessionReplaced(t) \/ OpenSucceeds(t) \/ OpenFails(t) \/ Closes(t)
  BY <1>2, CallsTyped DEF QueueInv
<1>3. CASE \/ \E t \in Tasks : CellWritten(t) \/ TrayUpdated(t)
           \/ SidecarDies
  BY <1>3, WritesTyped
<1>4. CASE \/ UNCHANGED vars
           \/ \E c \in Conns : RouteReplaced(c)
           \/ SessionLost \/ LostSeen \/ WriterEnds
           \/ \E q \in Queries : QuerySent(q) \/ RowNamed(q) \/ RowWritten(q)
  BY <1>4, OthersTyped
<1>5. QED BY <1>1, <1>2, <1>3, <1>4 DEF Next

LEMMA InitQueue == Init => QueueInv
  BY EmptyHolds DEF Init, QueueInv

-----------------------------------------------------------------------------
(***************************************************************************)
(* The task that runs alone, and what is left when it is done.             *)
(***************************************************************************)

DescInv == AloneInv /\ CellsDescribeSession

(* A task starts while none runs.                                          *)
LEMMA StartsAlone ==
  ASSUME TypeInv, NEW t \in Tasks,
         \/ \E c \in Conns : PageOpened(t, c)
         \/ Unmount(t) \/ DisconnectClicked(t) \/ Reconnect(t) \/ TrayDisconnect(t)
  PROVE  DescInv'
<1>1. /\ overlapped' = (Lifecycle # {})
      /\ \E kind, c : task' = [task EXCEPT ![t] = [kind |-> kind, conn |-> c,
                                                   pc |-> "send", at |-> 1]]
  BY DEF PageOpened, Unmount, DisconnectClicked, Reconnect, TrayDisconnect, StartTask
<1>2. task \in [Tasks -> Task]
  BY TypesAre DEF TypeInv
<1>3. /\ task'[t].pc = "send"
      /\ \A s \in Tasks \ {t} : task'[s] = task[s]
  BY <1>1, <1>2
<1>4. task'[t].kind = "open" =>
        page'.by = t /\ page'.boot = "opening" /\ page'.source = task'[t].conn
  <2>1. page \in Page
    BY TypesAre DEF TypeInv
  <2>2. CASE \E c \in Conns : PageOpened(t, c)
    BY <1>2, <2>2 DEF PageOpened, StartTask
  <2>3. CASE Unmount(t) \/ DisconnectClicked(t) \/ TrayDisconnect(t)
    BY <1>2, <2>3 DEF Unmount, DisconnectClicked, TrayDisconnect, StartTask
  <2>4. CASE Reconnect(t)
    BY <1>2, <2>1, <2>4 DEF Reconnect, StartTask, Page
  <2>5. QED BY <2>2, <2>3, <2>4
<1>5. ~overlapped' => \A s \in Tasks : Running(s)' => s = t
  BY <1>1, <1>3 DEF Lifecycle, Running
<1>6. Alone(t)'
  BY <1>3, <1>4 DEF Alone
<1>7. AloneInv'
  BY <1>5, <1>6 DEF AloneInv, Lifecycle
<1>8. Running(t)'
  BY <1>3 DEF Running
<1>9. QED BY <1>7, <1>8 DEF DescInv, CellsDescribeSession, Quiet, Lifecycle

(* The session ends or a page that was ready is seen to have lost it.      *)
LEMMA OthersAlone ==
  ASSUME DescInv, UNCHANGED <<cells, tray, task, overlapped>>,
         session' = session \/ session' = None,
         page'.by = page.by, page'.source = page.source,
         page'.boot = page.boot \/ (page.boot = "ready" /\ page'.boot = "lost")
  PROVE  DescInv'
<1>1. Lifecycle' = Lifecycle
  BY DEF Lifecycle, Running
<1>2. \A t \in Tasks : Alone(t) => Alone(t)'
  BY DEF Alone
<1>3. AloneInv'
  BY <1>1, <1>2 DEF DescInv, AloneInv, Lifecycle
<1>4. CellsDescribeSession'
  BY <1>1 DEF DescInv, CellsDescribeSession, Quiet
<1>5. QED BY <1>3, <1>4 DEF DescInv

(* A step of a task that goes on.                                          *)
LEMMA GoesOn ==
  ASSUME DescInv, NEW t \in Tasks, Running(t), Running(t)',
         \A s \in Tasks \ {t} : task'[s] = task[s],
         overlapped' = overlapped, ~overlapped /\ Alone(t) => Alone(t)'
  PROVE  DescInv'
<1>1. Lifecycle' = Lifecycle
  BY DEF Lifecycle, Running
<1>2. ~overlapped => Lifecycle = {t} /\ Alone(t)'
  BY DEF DescInv, AloneInv, Lifecycle
<1>3. AloneInv'
  BY <1>1, <1>2 DEF AloneInv
<1>4. CellsDescribeSession'
  BY <1>1 DEF CellsDescribeSession, Quiet, Lifecycle
<1>5. QED BY <1>3, <1>4 DEF DescInv

(* A step of a task that ends.                                             *)
LEMMA GoesOut ==
  ASSUME DescInv, NEW t \in Tasks, Running(t), ~Running(t)',
         \A s \in Tasks \ {t} : task'[s] = task[s],
         overlapped' = overlapped,
         ~overlapped /\ Alone(t) /\ session' # None =>
           /\ cells' = Values(session') /\ tray' = session'
           /\ page'.boot = "ready" => page'.source = session'
  PROVE  DescInv'
<1>1. Lifecycle' = Lifecycle \ {t}
  BY DEF Lifecycle, Running
<1>2. ~overlapped => Lifecycle = {t} /\ Alone(t)
  BY DEF DescInv, AloneInv, Lifecycle
<1>3. AloneInv'
  BY <1>1, <1>2 DEF AloneInv
<1>4. CellsDescribeSession'
  BY <1>2 DEF CellsDescribeSession
<1>5. QED BY <1>3, <1>4 DEF DescInv

LEMMA CallAlone ==
  ASSUME TypeInv, DescInv, NEW t \in Tasks, CallSent(t) \/ CallUnanswered(t)
  PROVE  DescInv'
<1>1. task \in [Tasks -> Task] /\ task[t] \in Task /\ Fits(task[t])
  BY TypesAre DEF TypeInv, TaskInv
<1>2. /\ \E pc \in {"called", "hung"} : task'[t] = [task[t] EXCEPT !.pc = pc]
      /\ \A s \in Tasks \ {t} : task'[s] = task[s]
      /\ task[t].pc = "send"
      /\ UNCHANGED <<session, cells, tray, page, overlapped>>
  BY <1>1 DEF CallSent, CallUnanswered, sidecar, cellVars
<1>3. task'[t].kind = task[t].kind /\ task'[t].conn = task[t].conn /\ task'[t].pc \in {"called", "hung"}
  BY <1>1, <1>2 DEF Task
<1>4. Running(t) /\ Running(t)'
  BY <1>2, <1>3 DEF Running
<1>5. Alone(t) => Alone(t)'
  BY <1>2, <1>3 DEF Alone
<1>6. QED BY <1>2, <1>4, <1>5, GoesOn

(* An answer leaves the session a task asked for, or none.                 *)
LEMMA AnswerAlone ==
  ASSUME TypeInv, DescInv, NEW t \in Tasks, task[t].pc \in {"send", "called"},
         NEW answered \in BOOLEAN, task' = [task EXCEPT ![t].pc = After(t, answered)],
         UNCHANGED <<cells, tray, page, overlapped>>,
         session' = None \/ (answered /\ session' = task[t].conn)
  PROVE  DescInv'
<1>1. /\ task'[t].kind = task[t].kind /\ task'[t].conn = task[t].conn
      /\ task'[t].at = 1 /\ task'[t].pc = After(t, answered)
      /\ \A s \in Tasks \ {t} : task'[s] = task[s]
  BY AnswerTypes
<1>2. task'[t].pc \in Outcomes /\ (session' # None => task'[t].pc = "writing")
  BY <1>1, AfterHolds
<1>3. Running(t)
  BY DEF Running
<1>4. CASE task'[t].pc = "done"
  <2>1. ~Running(t)' /\ session' = None
    BY <1>2, <1>4 DEF Running
  <2>2. QED BY <1>1, <1>3, <2>1, GoesOut
<1>5. CASE task'[t].pc \in {"writing", "failed"}
  <2>1. Running(t)'
    BY <1>5 DEF Running
  <2>2. Alone(t) => Alone(t)'
    <3>1. \A i \in 1 .. 4 : ~(i < task'[t].at)
      BY <1>1
    <3>2. task'[t].pc = "failed" => session' = None
      BY <1>2
    <3>3. QED BY <1>1, <1>5, <3>1, <3>2 DEF Alone
  <2>3. QED BY <1>1, <1>3, <2>1, <2>2, GoesOn
<1>6. QED BY <1>2, <1>4, <1>5 DEF Outcomes

(* A task writes its next cell ...                                         *)
LEMMA WriteAlone ==
  ASSUME TypeInv, DescInv, NEW t \in Tasks, CellWritten(t)
  PROVE  DescInv'
<1>1. /\ task \in [Tasks -> Task] /\ task[t] \in Task /\ Fits(task[t])
      /\ task[t].pc = "writing" /\ task[t].conn \in Somewhere /\ cells \in CellValues
  BY TypesAre DEF TypeInv, TaskInv, CellWritten, Task
<1>2. task[t].at \in 1 .. 4
  BY <1>1, WriteHolds
<1>3. PICK e \in Task :
        /\ e = [task[t] EXCEPT !.pc = IF task[t].at = Due(task[t]) THEN "tray" ELSE @,
                               !.at = @ + 1]
        /\ e.kind = task[t].kind /\ e.conn = task[t].conn
        /\ e.pc \in {"writing", "tray"} /\ e.at = task[t].at + 1
  BY <1>1, WriteHolds
<1>4. task' = [task EXCEPT ![t] = e]
  BY <1>1, <1>3, WritesDue DEF CellWritten
<1>5. task'[t] = e /\ \A s \in Tasks \ {t} : task'[s] = task[s]
  BY <1>1, <1>4
<1>6. Running(t) /\ Running(t)'
  BY <1>1, <1>3, <1>5 DEF Running
<1>7. PICK i \in CellNumbers : i = task[t].at
  BY <1>2 DEF CellNumbers
<1>8. Values(task[t].conn) \in CellValues
  BY <1>1, ValuesHold
<1>9. /\ cells'[Cell[i]] = Values(task[t].conn)[Cell[i]]
      /\ \A j \in 1 .. 4 : j < i => cells'[Cell[j]] = cells[Cell[j]]
  <2>1. PICK v \in CellValues : v = Values(task[t].conn)
    BY <1>8
  <2>2. PICK x \in CellValues : x = cells
    BY <1>1
  <2>3. PICK y \in CellValues : /\ y = [x EXCEPT ![Cell[i]] = v[Cell[i]]]
                                /\ y[Cell[i]] = v[Cell[i]]
                                /\ \A j \in 1 .. 4 : j < i => y[Cell[j]] = x[Cell[j]]
    BY CellSet
  <2>4. cells' = y
    BY <1>7, <2>1, <2>2, <2>3 DEF CellWritten
  <2>5. QED BY <2>1, <2>2, <2>3, <2>4
<1>10. UNCHANGED <<session, page, overlapped>>
  BY DEF CellWritten, sidecar
<1>11. ASSUME Alone(t) PROVE Alone(t)'
  <2>1. session \in {None, task[t].conn}
    BY <1>1, <1>11 DEF Alone
  <2>2. ASSUME NEW j \in 1 .. 4, j < e.at
        PROVE  cells'[Cell[j]] = Values(e.conn)[Cell[j]]
    <3>1. j = i \/ j < i
      BY <1>2, <1>3, <1>7, <2>2
    <3>2. CASE j = i
      BY <1>3, <1>9, <3>2
    <3>3. CASE j < i
      <4>1. cells[Cell[j]] = Values(task[t].conn)[Cell[j]]
        BY <1>1, <1>7, <1>11, <3>3 DEF Alone
      <4>2. QED BY <1>3, <1>9, <3>3, <4>1
    <3>4. QED BY <3>1, <3>2, <3>3
  <2>3. task[t].kind = "open" =>
          page.by = t /\ page.boot = "opening" /\ page.source = task[t].conn
    BY <1>11 DEF Alone
  <2>4. QED BY <1>3, <1>5, <1>10, <2>1, <2>2, <2>3 DEF Alone
<1>12. QED BY <1>5, <1>6, <1>10, <1>11, GoesOn

(* ... or, with all of them written, redraws the tray and is done.         *)
LEMMA TrayAlone ==
  ASSUME TypeInv, DescInv, NEW t \in Tasks, TrayUpdated(t)
  PROVE  DescInv'
<1>1. /\ task \in [Tasks -> Task] /\ task[t] \in Task /\ Fits(task[t])
      /\ task[t].pc \in {"tray", "failed"} /\ task[t].conn \in Somewhere
      /\ cells \in CellValues /\ page \in Page
  BY TypesAre DEF TypeInv, TaskInv, TrayUpdated, Task
<1>2. /\ task'[t].pc = "done" /\ \A s \in Tasks \ {t} : task'[s] = task[s]
      /\ UNCHANGED <<session, cells, overlapped>> /\ tray' = cells.active
  BY <1>1 DEF TrayUpdated, Task, sidecar
<1>3. page'.source = page.source
  BY <1>1 DEF TrayUpdated, Page
<1>4. Running(t) /\ ~Running(t)'
  BY <1>1, <1>2 DEF Running
<1>5. ASSUME Alone(t), session # None
      PROVE  cells = Values(session) /\ page.source = session /\ cells.active = session
  <2>1. task[t].pc = "tray" /\ session = task[t].conn
    BY <1>1, <1>5 DEF Alone
  <2>2. task[t].kind = "open" /\ Due(task[t]) = 4 /\ task[t].at = 5
    BY <1>1, <1>5, <2>1 DEF Fits, Due
  <2>3. \A i \in 1 .. 4 : cells[Cell[i]] = Values(task[t].conn)[Cell[i]]
    BY <1>5, <2>1, <2>2 DEF Alone
  <2>4. cells = Values(task[t].conn)
    BY <1>1, <2>3, ValuesHold, CellsEqual
  <2>5. page.source = session
    BY <1>5, <2>1, <2>2 DEF Alone
  <2>6. QED BY <1>1, <2>1, <2>4, <2>5, ValuesHold
<1>6. QED
  <2>1. ~overlapped /\ Alone(t) /\ session' # None =>
          /\ cells' = Values(session') /\ tray' = session'
          /\ page'.boot = "ready" => page'.source = session'
    BY <1>2, <1>3, <1>5
  <2>2. QED BY <1>2, <1>4, <2>1, GoesOut

(* The sidecar's death ends the session, and with it every claim about it. *)
LEMMA DeathAlone ==
  ASSUME TypeInv, DescInv, SidecarDies
  PROVE  DescInv'
<1>1. session' = None /\ UNCHANGED <<cells, tray, page, overlapped>>
  BY DEF SidecarDies, cellVars
<1>2. \A t \in Tasks : /\ task'[t].kind = task[t].kind /\ task'[t].conn = task[t].conn
                       /\ task[t].pc # "called" => task'[t] = task[t]
                       /\ task[t].pc = "called" =>
                            task'[t].pc \in Outcomes /\ task'[t].at = 1
  BY DeathTypes
<1>3. Lifecycle' \subseteq Lifecycle
  BY <1>2 DEF Lifecycle, Running
<1>4. ASSUME NEW t \in Tasks, Alone(t) PROVE Alone(t)'
  <2>1. CASE task[t].pc # "called"
    <3>1. task'[t] = task[t]
      BY <1>2, <2>1
    <3>2. QED BY <1>1, <1>4, <3>1 DEF Alone
  <2>2. CASE task[t].pc = "called"
    <3>1. \A i \in 1 .. 4 : ~(i < task'[t].at)
      BY <1>2, <2>2
    <3>2. QED BY <1>1, <1>2, <1>4, <3>1 DEF Alone
  <2>3. QED BY <2>1, <2>2
<1>5. AloneInv'
  BY <1>1, <1>3, <1>4 DEF DescInv, AloneInv, Lifecycle
<1>6. QED BY <1>1, <1>5 DEF DescInv, CellsDescribeSession

LEMMA DescStep ==
  ASSUME TypeInv, QueueInv, DescInv, [Next]_vars
  PROVE  DescInv'
<1>1. ASSUME NEW t \in Tasks,
             \/ \E c \in Conns : PageOpened(t, c)
             \/ Unmount(t) \/ DisconnectClicked(t) \/ Reconnect(t) \/ TrayDisconnect(t)
      PROVE  DescInv'
  BY <1>1, StartsAlone
<1>2. ASSUME NEW t \in Tasks, OpenSucceeds(t) \/ OpenFails(t) \/ Closes(t) PROVE DescInv'
  <2>1. lockq # <<>> /\ t = Head(lockq) /\ lockq \in Seq(Tasks)
    BY <1>2, TypesAre DEF TypeInv, OpenSucceeds, OpenFails, Closes, Holds
  <2>2. task[t].pc = "called"
    BY <2>1, TailHolds DEF QueueInv
  <2>3. PICK answered \in BOOLEAN :
          /\ Answered(t, session', answered)
          /\ session' = None \/ (answered /\ session' = task[t].conn)
    BY <1>2 DEF OpenSucceeds, OpenFails, Closes, Answered
  <2>4. QED BY <2>2, <2>3, AnswerAlone DEF Answered, cellVars
<1>3. ASSUME NEW t \in Tasks, CallFails(t) PROVE DescInv'
  <2>1. session' = None
    BY <1>3 DEF CallFails, QueueInv, sidecar
  <2>2. QED BY <1>3, <2>1, AnswerAlone DEF CallFails, cellVars
<1>4. CASE \/ UNCHANGED vars
           \/ \E c \in Conns : RouteReplaced(c)
           \/ SessionLost \/ LostSeen \/ WriterEnds
           \/ \E t \in Tasks : SessionReplaced(t)
           \/ \E q \in Queries : QuerySent(q) \/ RowNamed(q) \/ RowWritten(q)
  <2>1. /\ UNCHANGED <<cells, tray, task, overlapped>>
        /\ session' = session \/ session' = None
    BY <1>4 DEF RouteReplaced, SessionLost, LostSeen, WriterEnds, SessionReplaced, QuerySent, RowNamed,
                RowWritten, QueryStep, vars, sidecar, cellVars
  <2>2. /\ page'.by = page.by /\ page'.source = page.source
        /\ page'.boot = page.boot \/ (page.boot = "ready" /\ page'.boot = "lost")
    <3>1. page \in Page
      BY TypesAre DEF TypeInv
    <3>2. CASE page' = page
      BY <3>2
    <3>3. CASE \E c \in Conns : RouteReplaced(c)
      BY <3>1, <3>3 DEF RouteReplaced, Page
    <3>4. CASE LostSeen
      BY <3>1, <3>4 DEF LostSeen, Page
    <3>5. QED
      BY <1>4, <3>2, <3>3, <3>4 DEF SessionLost, WriterEnds, SessionReplaced, QuerySent, RowNamed,
                                    RowWritten, QueryStep, vars
  <2>3. QED BY <2>1, <2>2, OthersAlone
<1>5. QED
  BY <1>1, <1>2, <1>3, <1>4, CallAlone, WriteAlone, TrayAlone, DeathAlone DEF Next

(* Once nothing is being opened or closed, the cells, the tray and a page  *)
(* that is ready describe the session in place, unless two opens or closes *)
(* overlapped (commands.rs:395-470, tray.rs:122).                          *)
THEOREM CellsAreRight == Spec => []CellsDescribeSession
<1>1. Init => TypeInv /\ QueueInv /\ DescInv
  <2> SUFFICES ASSUME Init PROVE DescInv
    BY InitTypes, InitQueue
  <2>1. Lifecycle = {} /\ session = None
    BY DEF Init, Lifecycle, Running, Idle
  <2>2. QED BY <2>1 DEF DescInv, AloneInv, CellsDescribeSession
<1>2. TypeInv /\ QueueInv /\ DescInv /\ [Next]_vars => (TypeInv /\ QueueInv /\ DescInv)'
  BY TypesStep, QueueStep, DescStep
<1>3. DescInv => CellsDescribeSession
  BY DEF DescInv
<1>4. QED BY <1>1, <1>2, <1>3, PTL DEF Spec

-----------------------------------------------------------------------------
(***************************************************************************)
(* The rows of the audit log.                                              *)
(***************************************************************************)

LEMMA RowsStep ==
  ASSUME TypeInv, DescInv, RowInv, [Next]_vars
  PROVE  RowInv'
<1>1. query \in [Queries -> Query] /\ overlapped \in BOOLEAN
  BY TypesAre DEF TypeInv
<1>2. ASSUME NEW t \in Tasks, CellWritten(t) PROVE RowInv'
  <2>1. ASSUME NEW q \in Queries, ~query'[q].moved
        PROVE  query'[q] = query[q] /\ query[q].pc \notin {"running", "named"}
    <3>1. query[q] \in Query /\ query'[q] = IF query[q].pc \in {"running", "named"}
                                              THEN [query[q] EXCEPT !.moved = TRUE]
                                              ELSE query[q]
      BY <1>1, <1>2 DEF CellWritten, Moved
    <3>2. QED BY <2>1, <3>1 DEF Query
  <2>2. QED BY <2>1 DEF RowInv
<1>3. ASSUME NEW q \in Queries, QuerySent(q) PROVE RowInv'
  <2>1. /\ session # None /\ page.boot = "ready" /\ cells' = cells
        /\ query' = [query EXCEPT ![q].pc = "running", ![q].ran = session,
                                  ![q].moved = overlapped \/ Lifecycle # {}]
    BY <1>3 DEF QuerySent, cellVars
  <2>2. \A p \in Queries \ {q} : query'[p] = query[p]
    BY <1>1, <2>1
  <2>3. /\ query'[q].pc = "running" /\ query'[q].ran = session
        /\ query'[q].moved <=> (overlapped \/ Lifecycle # {})
    <3>1. query[q] \in Query
      BY <1>1
    <3>2. PICK m \in BOOLEAN : m = (overlapped \/ Lifecycle # {})
      BY <1>1
    <3>3. query'[q] = [query[q] EXCEPT !.pc = "running", !.ran = session, !.moved = m]
      BY <1>1, <2>1, <3>2
    <3>4. query'[q].pc = "running" /\ query'[q].ran = session /\ query'[q].moved = m
      BY <3>1, <3>3 DEF Query
    <3>5. QED BY <3>2, <3>4
  <2>4. ~query'[q].moved => cells.active = session /\ cells.env = session
    <3> SUFFICES ASSUME ~overlapped, Lifecycle = {}
                 PROVE  cells.active = session /\ cells.env = session
      BY <2>3
    <3>1. cells = Values(session) /\ session \in Somewhere
      BY <2>1, TypesAre DEF TypeInv, DescInv, CellsDescribeSession, Quiet
    <3>2. QED BY <3>1, ValuesHold
  <2>5. ASSUME NEW p \in Queries \ {q}, ~query'[p].moved
        PROVE  /\ query'[p].pc \in {"running", "named"} =>
                    cells'.active = query'[p].ran /\ cells'.env = query'[p].ran
               /\ query'[p].pc \in {"named", "audited"} => query'[p].name = query'[p].ran
               /\ query'[p].pc = "audited" => query'[p].env = query'[p].ran
    <3>1. query'[p] = query[p]
      BY <2>2
    <3>2. QED BY <2>1, <2>5, <3>1 DEF RowInv
  <2>6. QED BY <2>1, <2>3, <2>4, <2>5 DEF RowInv
<1>4. ASSUME NEW q \in Queries, RowNamed(q) PROVE RowInv'
  <2>1. /\ query[q] \in Query /\ query[q].pc = "running" /\ cells' = cells
        /\ query'[q] = [[query[q] EXCEPT !.name = cells.active] EXCEPT !.pc = "named"]
        /\ \A p \in Queries \ {q} : query'[p] = query[p]
    BY <1>1, <1>4 DEF RowNamed, QueryStep, cellVars
  <2>2. /\ query'[q].pc = "named" /\ query'[q].name = cells.active
        /\ query'[q].ran = query[q].ran
        /\ query'[q].moved <=> query[q].moved
    BY <2>1 DEF Query
  <2>3. ASSUME NEW p \in Queries \ {q}, ~query'[p].moved
        PROVE  /\ query'[p].pc \in {"running", "named"} =>
                    cells'.active = query'[p].ran /\ cells'.env = query'[p].ran
               /\ query'[p].pc \in {"named", "audited"} => query'[p].name = query'[p].ran
               /\ query'[p].pc = "audited" => query'[p].env = query'[p].ran
    <3>1. query'[p] = query[p]
      BY <2>1
    <3>2. QED BY <2>1, <2>3, <3>1 DEF RowInv
  <2>4. ASSUME ~query'[q].moved
        PROVE  /\ cells'.active = query'[q].ran /\ cells'.env = query'[q].ran
               /\ query'[q].name = query'[q].ran
    BY <2>1, <2>2, <2>4 DEF RowInv
  <2>5. QED BY <2>2, <2>3, <2>4 DEF RowInv
<1>5. ASSUME NEW q \in Queries, RowWritten(q) PROVE RowInv'
  <2>1. /\ query[q] \in Query /\ query[q].pc = "named" /\ cells' = cells
        /\ query'[q] = [[query[q] EXCEPT !.env = cells.env] EXCEPT !.pc = "audited"]
        /\ \A p \in Queries \ {q} : query'[p] = query[p]
    BY <1>1, <1>5 DEF RowWritten, QueryStep, cellVars
  <2>2. /\ query'[q].pc = "audited" /\ query'[q].env = cells.env
        /\ query'[q].name = query[q].name /\ query'[q].ran = query[q].ran
        /\ query'[q].moved <=> query[q].moved
    BY <2>1 DEF Query
  <2>3. ASSUME NEW p \in Queries \ {q}, ~query'[p].moved
        PROVE  /\ query'[p].pc \in {"running", "named"} =>
                    cells'.active = query'[p].ran /\ cells'.env = query'[p].ran
               /\ query'[p].pc \in {"named", "audited"} => query'[p].name = query'[p].ran
               /\ query'[p].pc = "audited" => query'[p].env = query'[p].ran
    <3>1. query'[p] = query[p]
      BY <2>1
    <3>2. QED BY <2>1, <2>3, <3>1 DEF RowInv
  <2>4. ASSUME ~query'[q].moved
        PROVE  query'[q].name = query'[q].ran /\ query'[q].env = query'[q].ran
    BY <2>1, <2>2, <2>4 DEF RowInv
  <2>5. QED BY <2>2, <2>3, <2>4 DEF RowInv
<1>6. CASE UNCHANGED <<cells, query>>
  BY <1>6 DEF RowInv
<1>7. QED
  <2>1. \/ UNCHANGED <<cells, query>>
        \/ \E t \in Tasks : CellWritten(t)
        \/ \E q \in Queries : QuerySent(q) \/ RowNamed(q) \/ RowWritten(q)
    BY DEF Next, vars, cellVars, PageOpened, Unmount, DisconnectClicked, Reconnect,
           TrayDisconnect, CallSent, SessionReplaced, OpenSucceeds, OpenFails, Closes, Answered,
           CallUnanswered, CallFails, TrayUpdated, RouteReplaced, SidecarDies, WriterEnds, SessionLost, LostSeen
  <2>2. QED BY <1>2, <1>3, <1>4, <1>5, <1>6, <2>1

(* A row of the audit log names the connection its statement ran on, and   *)
(* that connection's environment, unless a cell was written between the    *)
(* statement and its row (commands.rs:594-660).                            *)
THEOREM RowsAreRight == Spec => []RowsNameTheirSession
<1>1. Init => TypeInv /\ QueueInv /\ DescInv /\ RowInv
  <2> SUFFICES ASSUME Init PROVE DescInv /\ RowInv
    BY InitTypes, InitQueue
  <2>1. Lifecycle = {} /\ session = None
    BY DEF Init, Lifecycle, Running, Idle
  <2>2. RowInv
    BY DEF Init, NoQuery, RowInv
  <2>3. QED BY <2>1, <2>2 DEF DescInv, AloneInv, CellsDescribeSession
<1>2. TypeInv /\ QueueInv /\ DescInv /\ RowInv /\ [Next]_vars
      => (TypeInv /\ QueueInv /\ DescInv /\ RowInv)'
  BY TypesStep, QueueStep, DescStep, RowsStep
<1>3. RowInv => RowsNameTheirSession
  BY DEF RowInv, RowsNameTheirSession
<1>4. QED BY <1>1, <1>2, <1>3, PTL DEF Spec

(* Every variable keeps its type, whatever the connections and however     *)
(* many the tasks.                                                         *)
THEOREM WorkspaceTypeCorrect == Spec => []TypeOK
<1>1. TypeInv /\ QueueInv /\ [Next]_vars => (TypeInv /\ QueueInv)'
  BY TypesStep, QueueStep
<1>2. TypeInv => TypeOK
  BY DEF TypeInv
<1>3. QED BY <1>1, <1>2, InitTypes, InitQueue, PTL DEF Spec

-----------------------------------------------------------------------------
(***************************************************************************)
(* The list of sandboxes.                                                  *)
(***************************************************************************)

Loadings == {"cached", "remote", "answer"}
ListOp == [kind : {"none", "load", "pull", "remove", "markAll"}, of : Sandboxes \cup {NoSandbox},
           pc : Loadings \cup {"none", "done", "api", "write", "pulled", "rm", "removed", "refused",
                               "mark", "seen"},
           cached : SUBSET Sandboxes, remote : SUBSET Sandboxes, seen : SUBSET Sandboxes, latest : BOOLEAN]
CardList == [cached : SUBSET Sandboxes, remote : SUBSET Sandboxes, seen : SUBSET Sandboxes,
          pulling : SUBSET Sandboxes, loading : BOOLEAN, error : BOOLEAN]
ListTold == [deleted : SUBSET Sandboxes, seen : SUBSET Sandboxes, newest : BOOLEAN, lostMark : BOOLEAN,
         pulledAcross : SUBSET Sandboxes, revoked : SUBSET Sandboxes]

ListTypeOK ==
  /\ granted \in SUBSET Sandboxes /\ cache \in SUBSET Sandboxes /\ seenFile \in SUBSET Sandboxes
  /\ list \in CardList /\ told \in ListTold /\ op \in [Ops -> ListOp]

OpIs(o) ==
  /\ o.kind = "none" => o \in {NoOp, Done}
  /\ o.kind = "load" => o.pc \in Loadings
  /\ o.kind = "markAll" => o.pc \in {"mark", "seen"}
  /\ o.kind = "pull" => o.pc \in Loadings \cup {"api", "write", "pulled", "mark", "seen"}
  /\ o.kind = "remove" => o.pc \in {"api", "rm", "removed", "refused"}
  /\ o.kind \in {"pull", "remove"} => o.of \in Sandboxes
  /\ o.kind \notin {"pull", "remove"} => o.of = NoSandbox
  /\ o.latest => o.pc \in Loadings
  /\ o.pc = "answer" => o.cached \cap o.remote = {}

(* A card turns for the pull of its sandbox, of which there is one.        *)
SpinOK ==
  /\ \A s \in list.pulling : \E i \in Ops : op[i].kind = "pull" /\ op[i].of = s
  /\ \A i \in Ops : op[i].kind = "pull" => op[i].of \in list.pulling
  /\ \A i, j \in Ops : op[i].kind = "pull" /\ op[j].kind = "pull" /\ op[i].of = op[j].of => i = j

(* What changed the cache loads the list when it is through.  What the     *)
(* load that began last read of the cache, and what was shown of it, is    *)
(* the cache, as long as there is no such operation.                       *)
WillLoad ==
  \E i \in Ops : \/ op[i].kind = "pull" /\ op[i].pc \in {"pulled", "mark", "seen"}
                 \/ op[i].kind = "remove" /\ op[i].pc = "removed"
LoadsOK ==
  /\ \A i, j \in Ops : op[i].latest /\ op[j].latest => i = j
  /\ \A i \in Ops : op[i].latest /\ op[i].pc # "cached" => op[i].cached = cache \/ WillLoad
  /\ told.newest => list.cached = cache \/ WillLoad \/ \E i \in Ops : op[i].latest

(* What was removed is not granted any more, so only a pull that was       *)
(* answered before can bring it back, and that one met the removal.        *)
GoneOK ==
  /\ told.deleted \cap granted = {}
  /\ \A i \in Ops : op[i].kind = "remove" /\ op[i].pc \in {"rm", "removed"} => op[i].of \notin granted
  /\ \A i, j \in Ops : op[i].kind = "pull" /\ op[j].kind = "remove" /\ op[i].of = op[j].of =>
       op[i].of \in told.pulledAcross
  /\ \A i \in Ops : op[i].kind = "pull" /\ op[i].pc = "write" /\ op[i].of \in told.deleted =>
       op[i].of \in told.pulledAcross
  /\ told.deleted \cap cache \subseteq told.pulledAcross

(* One mark at a time reads the file before it writes it.                  *)
SeenOK ==
  ~told.lostMark =>
    /\ told.seen \subseteq seenFile
    /\ \A i \in Ops : op[i].pc = "seen" => told.seen \subseteq op[i].seen
    /\ \A i, j \in Ops : op[i].pc = "seen" /\ op[j].pc = "seen" => i = j

ListInv ==
  /\ ListTypeOK /\ \A i \in Ops : OpIs(op[i])
  /\ CardsAreUnique /\ SpinOK /\ LoadsOK /\ GoneOK /\ SeenOK

(* What a step does to the operations: one changes, the others lose at     *)
(* most that they are the load that began last.                            *)
Follows(p, o) ==
  /\ p.kind = o.kind /\ p.of = o.of /\ p.pc = o.pc
  /\ p.cached = o.cached /\ p.remote = o.remote /\ p.seen = o.seen
  /\ p.latest => o.latest
OthersKeep(i) == \A j \in Ops \ {i} : Follows(op'[j], op[j])

(* The fields of an operation and of the list are of their types.          *)
LEMMA OpFields ==
  ASSUME NEW o \in ListOp
  PROVE  /\ o.kind \in {"none", "load", "pull", "remove", "markAll"}
         /\ o.of \in Sandboxes \cup {NoSandbox}
         /\ o.cached \subseteq Sandboxes /\ o.remote \subseteq Sandboxes /\ o.seen \subseteq Sandboxes
         /\ o.latest \in BOOLEAN
  BY DEF ListOp
LEMMA ListFields ==
  ASSUME ListTypeOK
  PROVE  /\ list.cached \subseteq Sandboxes /\ list.remote \subseteq Sandboxes
         /\ list.seen \subseteq Sandboxes /\ list.pulling \subseteq Sandboxes
         /\ list.loading \in BOOLEAN /\ list.error \in BOOLEAN
         /\ told.deleted \subseteq Sandboxes /\ told.seen \subseteq Sandboxes
         /\ told.pulledAcross \subseteq Sandboxes /\ told.revoked \subseteq Sandboxes
         /\ told.newest \in BOOLEAN /\ told.lostMark \in BOOLEAN
  BY DEF ListTypeOK, CardList, ListTold

(* An operation that is none of the four is over, or was never begun.      *)
LEMMA NoneIs ==
  /\ NoOp \in ListOp /\ Done \in ListOp /\ OpIs(NoOp) /\ OpIs(Done)
  /\ NoOp.kind = "none" /\ Done.kind = "none" /\ ~NoOp.latest /\ ~Done.latest
  /\ NoOp.pc = "none" /\ Done.pc = "done" /\ NoOp # Done
  BY DEF NoOp, Done, ListOp, OpIs, Loadings

LEMMA FollowerIs ==
  ASSUME NEW o \in ListOp, NEW p \in ListOp, Follows(p, o), OpIs(o)
  PROVE  OpIs(p)
<1>1. CASE o.kind = "none"
  <2>1. ~o.latest /\ o.latest \in BOOLEAN /\ p.latest \in BOOLEAN
    BY <1>1, NoneIs, OpFields DEF OpIs
  <2>2. p.latest = o.latest
    BY <2>1 DEF Follows
  <2>3. p = o
    BY <2>2 DEF Follows, ListOp
  <2> QED BY <2>3
<1>2. CASE o.kind # "none"
  BY <1>2, OpFields DEF OpIs, Follows
<1> QED BY <1>1, <1>2

LEMMA OpPut ==
  ASSUME op \in [Ops -> ListOp], NEW i \in Ops, NEW o \in ListOp, op' = [op EXCEPT ![i] = o]
  PROVE  op' \in [Ops -> ListOp] /\ op'[i] = o /\ OthersKeep(i)
<1>1. op' \in [Ops -> ListOp] /\ op'[i] = o /\ \A j \in Ops \ {i} : op'[j] = op[j]
  OBVIOUS
<1> QED BY <1>1 DEF OthersKeep, Follows

(* What stands of the operations when one of them changes.                 *)
LEMMA OpsAre ==
  ASSUME ListTypeOK, \A j \in Ops : OpIs(op[j]), op' \in [Ops -> ListOp],
         NEW i \in Ops, OthersKeep(i), OpIs(op'[i])
  PROVE  \A j \in Ops : OpIs(op'[j])
<1> SUFFICES ASSUME NEW j \in Ops, j # i
             PROVE  OpIs(op'[j])
  OBVIOUS
<1>1. op[j] \in ListOp /\ op'[j] \in ListOp /\ Follows(op'[j], op[j]) /\ OpIs(op[j])
  BY DEF ListTypeOK, OthersKeep
<1> QED BY <1>1, FollowerIs

(* A load that begins is the one that began last.                          *)
LEMMA LoadIsLatest ==
  ASSUME op \in [Ops -> ListOp], NEW i \in Ops, NEW o \in ListOp, LoadBegins(i, o)
  PROVE  /\ op' \in [Ops -> ListOp] /\ OthersKeep(i)
         /\ op'[i] = [o EXCEPT !.pc = "cached", !.latest = TRUE]
         /\ \A j \in Ops : op'[j].latest => j = i
<1>1. op' = [j \in Ops |-> IF j = i THEN [o EXCEPT !.pc = "cached", !.latest = TRUE]
                          ELSE [op[j] EXCEPT !.latest = FALSE]]
  BY DEF LoadBegins
<1>2. op'[i] = [o EXCEPT !.pc = "cached", !.latest = TRUE]
  BY <1>1
<1>3. op'[i] \in ListOp
  BY <1>2 DEF ListOp, Loadings
<1>4. ASSUME NEW j \in Ops, j # i
      PROVE  op'[j] \in ListOp /\ Follows(op'[j], op[j]) /\ ~op'[j].latest
  <2>1. op[j] \in ListOp /\ op'[j] = [op[j] EXCEPT !.latest = FALSE]
    BY <1>1, <1>4
  <2> QED BY <2>1 DEF ListOp, Follows
<1>5. op' \in [Ops -> ListOp]
  <2>1. DOMAIN op' = Ops /\ op' = [j \in Ops |-> op'[j]]
    BY <1>1
  <2> QED BY <2>1, <1>3, <1>4
<1> QED BY <1>2, <1>4, <1>5 DEF OthersKeep

(* A pull begins or ends with its spinner; no other step touches either.   *)
Pull(o) == o.kind = "pull"
SpinSame(i) == list'.pulling = list.pulling /\ Pull(op'[i]) = Pull(op[i]) /\ (Pull(op[i]) => op'[i].of = op[i].of)
SpinBegins(i) ==
  /\ op'[i].of \notin list.pulling /\ list'.pulling = list.pulling \cup {op'[i].of}
  /\ ~Pull(op[i]) /\ Pull(op'[i])
SpinEnds(i) ==
  /\ op[i].kind \in {"pull", "load"} /\ ~Pull(op'[i])
  /\ list'.pulling = list.pulling \ {op[i].of}

LEMMA SpinKeeps ==
  ASSUME ListInv, op' \in [Ops -> ListOp], NEW i \in Ops, OthersKeep(i),
         SpinSame(i) \/ SpinBegins(i) \/ SpinEnds(i)
  PROVE  SpinOK'
<1>1. \A j \in Ops \ {i} : op'[j].kind = op[j].kind /\ op'[j].of = op[j].of
  BY DEF OthersKeep, Follows
<1>2. SpinOK /\ OpIs(op[i]) /\ list.pulling \subseteq Sandboxes
  BY ListFields DEF ListInv
<1>3. CASE SpinSame(i)
  BY <1>1, <1>2, <1>3 DEF SpinOK, SpinSame, Pull
<1>4. CASE SpinBegins(i)
  BY <1>1, <1>2, <1>4 DEF SpinOK, SpinBegins, Pull
<1>5. CASE SpinEnds(i)
  <2>1. ~Pull(op[i]) => op[i].of \notin list.pulling
    BY <1>2, <1>5, ListAssumption DEF OpIs, Pull, SpinEnds
  <2>2. \A j \in Ops : op[j].kind = "pull" /\ j # i /\ Pull(op[i]) => op[j].of # op[i].of
    BY <1>2 DEF SpinOK, Pull
  <2>3. CASE Pull(op[i])
    BY <1>1, <1>2, <1>5, <2>2, <2>3 DEF SpinOK, SpinEnds, Pull
  <2>4. CASE ~Pull(op[i]) /\ op[i].of \notin list.pulling
    BY <1>1, <1>2, <1>5, <2>4 DEF SpinOK, SpinEnds, Pull
  <2> QED BY <2>1, <2>3, <2>4
<1> QED BY <1>3, <1>4, <1>5

(* The cache changes only under an operation that will load the list, and  *)
(* that goes on until it has begun a load.                                 *)
Will(o) ==
  \/ o.kind = "pull" /\ o.pc \in {"pulled", "mark", "seen"}
  \/ o.kind = "remove" /\ o.pc = "removed"
LatestRead(o) == o.latest /\ o.pc # "cached"

LEMMA WillIs ==
  ASSUME op' \in [Ops -> ListOp], NEW i \in Ops, OthersKeep(i)
  PROVE  /\ Will(op'[i]) => WillLoad'
         /\ WillLoad /\ ~Will(op[i]) => WillLoad'
  BY DEF OthersKeep, Follows, Will, WillLoad

LoadSame(i) ==
  /\ Will(op'[i]) \/ (cache' = cache /\ (Will(op[i]) => Will(op'[i])))
  /\ op'[i].latest => op[i].latest
  /\ LatestRead(op'[i]) => op'[i].cached = cache' \/ (LatestRead(op[i]) /\ op'[i].cached = op[i].cached)
  /\ told'.newest => \/ LatestRead(op[i]) /\ list'.cached = op[i].cached
                     \/ told.newest /\ list'.cached = list.cached /\ (op[i].latest => op'[i].latest)
  /\ \A j \in Ops \ {i} : op'[j] = op[j]
LoadIsNew(i) ==
  /\ \A j \in Ops : op'[j].latest => j = i
  /\ op'[i].latest /\ op'[i].pc = "cached"

LEMMA LoadsKeep ==
  ASSUME ListInv, op' \in [Ops -> ListOp], NEW i \in Ops, OthersKeep(i), LoadSame(i) \/ LoadIsNew(i)
  PROVE  LoadsOK'
<1>1. CASE LoadIsNew(i)
  BY <1>1 DEF LoadsOK, LoadIsNew
<1>2. CASE LoadSame(i)
  <2>1. LoadsOK
    BY DEF ListInv
  <2>2. \A j, k \in Ops : op'[j].latest /\ op'[k].latest => j = k
    BY <1>2, <2>1 DEF LoadsOK, LoadSame
  <2>3. WillLoad' \/ (cache' = cache /\ ~WillLoad)
    BY <1>2, WillIs DEF LoadSame
  <2>4. ASSUME NEW j \in Ops, op'[j].latest, op'[j].pc # "cached"
        PROVE  op'[j].cached = cache' \/ WillLoad'
    BY <1>2, <2>1, <2>3, <2>4 DEF LoadsOK, LoadSame, LatestRead
  <2>5. ASSUME told'.newest
        PROVE  list'.cached = cache' \/ WillLoad' \/ \E j \in Ops : op'[j].latest
    <3>1. CASE LatestRead(op[i]) /\ list'.cached = op[i].cached
      BY <2>1, <2>3, <3>1 DEF LoadsOK, LatestRead
    <3>2. CASE told.newest /\ list'.cached = list.cached /\ (op[i].latest => op'[i].latest)
      <4>1. \A j \in Ops : op[j].latest => op'[j].latest
        BY <1>2, <3>2 DEF LoadSame
      <4> QED BY <2>1, <2>3, <3>2, <4>1 DEF LoadsOK
    <3> QED BY <1>2, <2>5, <3>1, <3>2 DEF LoadSame
  <2> QED BY <2>2, <2>4, <2>5 DEF LoadsOK
<1> QED BY <1>1, <1>2

(* A removal takes from the cloud first; a pull that was answered before   *)
(* that is told to have met it.                                            *)
Taken(o) == o.kind = "remove" /\ o.pc \in {"rm", "removed"}
PullWrites(o) == o.kind = "pull" /\ o.pc = "write"
Meets(o, p) == o.of = p.of /\ <<o.kind, p.kind>> \in {<<"pull", "remove">>, <<"remove", "pull">>}

GoneSame(i) ==
  /\ granted' \subseteq granted /\ told.pulledAcross \subseteq told'.pulledAcross
  /\ \/ told'.deleted = told.deleted
     \/ Taken(op[i]) /\ told'.deleted = told.deleted \cup {op[i].of} /\ op[i].of \notin cache'
  /\ \/ cache' \subseteq cache
     \/ PullWrites(op[i]) /\ cache' = cache \cup {op[i].of}
  /\ Taken(op'[i]) => op'[i].of \notin granted'
  /\ PullWrites(op'[i]) => op'[i].of \in granted
  /\ \A j \in Ops \ {i} : Meets(op'[i], op[j]) => Meets(op[i], op[j]) \/ op'[i].of \in told'.pulledAcross
  /\ op'[i].of = op[i].of \/ op[i].kind = "none" \/ op'[i].kind \in {"none", "load"}

LEMMA GoneKeeps ==
  ASSUME ListInv, op' \in [Ops -> ListOp], NEW i \in Ops, OthersKeep(i), GoneSame(i),
         told'.deleted = told.deleted \/ op'[i].of = op[i].of
  PROVE  GoneOK'
<1>1. GoneOK /\ \A j \in Ops : OpIs(op[j])
  BY DEF ListInv
<1>2. ASSUME NEW j \in Ops \ {i}
      PROVE  op'[j].kind = op[j].kind /\ op'[j].of = op[j].of /\ op'[j].pc = op[j].pc
  BY DEF OthersKeep, Follows
<1>3. told'.deleted \cap granted' = {}
  BY <1>1 DEF GoneOK, GoneSame, Taken
<1>4. ASSUME NEW j \in Ops, Taken(op'[j])
      PROVE  op'[j].of \notin granted'
  BY <1>1, <1>2, <1>4 DEF GoneOK, GoneSame, Taken
<1>5. ASSUME NEW j \in Ops, NEW k \in Ops, op'[j].kind = "pull", op'[k].kind = "remove", op'[j].of = op'[k].of
      PROVE  op'[j].of \in told'.pulledAcross
  <2>1. j # k
    BY <1>5
  <2>2. CASE j # i /\ k # i
    BY <1>1, <1>2, <1>5, <2>2 DEF GoneOK, GoneSame
  <2>3. CASE j = i
    <3>0. k \in Ops \ {i} /\ op'[k].kind = op[k].kind /\ op'[k].of = op[k].of
      BY <1>2, <2>1, <2>3
    <3>1. Meets(op'[i], op[k]) /\ k \in Ops \ {i}
      <4>1. op'[i].kind = "pull" /\ op'[i].of = op'[k].of /\ op'[k].kind = "remove"
        BY <1>5, <2>3
      <4> QED BY <3>0, <4>1 DEF Meets
    <3>2. CASE Meets(op[i], op[k])
      BY <1>1, <1>2, <1>5, <2>3, <3>1, <3>2 DEF GoneOK, GoneSame, Meets
    <3> QED BY <2>3, <3>1, <3>2 DEF GoneSame
  <2>4. CASE k = i
    <3>1. Meets(op'[i], op[j]) /\ j \in Ops \ {i}
      BY <1>2, <1>5, <2>1, <2>4 DEF Meets
    <3>2. CASE Meets(op[i], op[j])
      BY <1>1, <1>2, <1>5, <2>4, <3>1, <3>2 DEF GoneOK, GoneSame, Meets
    <3> QED BY <1>5, <2>4, <3>1, <3>2 DEF GoneSame
  <2> QED BY <2>2, <2>3, <2>4
<1>6. ASSUME NEW j \in Ops, PullWrites(op'[j]), op'[j].of \in told'.deleted
      PROVE  op'[j].of \in told'.pulledAcross
  <2>1. CASE j = i
    <3>1. op'[i].of \in granted
      BY <1>6, <2>1 DEF GoneSame
    <3>2. op'[i].of \notin told.deleted
      BY <1>1, <3>1 DEF GoneOK
    <3>3. Taken(op[i]) /\ op'[i].of = op[i].of
      BY <1>6, <2>1, <3>2 DEF GoneSame
    <3> QED BY <1>1, <3>1, <3>3 DEF GoneOK, Taken
  <2>2. CASE j # i
    <3>1. op'[j].of = op[j].of /\ PullWrites(op[j])
      BY <1>2, <1>6, <2>2 DEF PullWrites
    <3>2. CASE op[j].of \in told.deleted
      BY <1>1, <3>1, <3>2 DEF GoneOK, GoneSame, PullWrites
    <3>3. CASE op[j].of \notin told.deleted
      <4>1. Taken(op[i]) /\ op[j].of = op[i].of
        BY <1>6, <3>1, <3>3 DEF GoneSame
      <4> QED BY <1>1, <3>1, <4>1 DEF GoneOK, GoneSame, Taken, PullWrites
    <3> QED BY <3>2, <3>3
  <2> QED BY <2>1, <2>2
<1>7. told'.deleted \cap cache' \subseteq told'.pulledAcross
  <2>1. CASE told'.deleted = told.deleted
    BY <1>1, <2>1 DEF GoneOK, GoneSame, PullWrites
  <2>2. CASE told'.deleted # told.deleted
    BY <1>1, <2>2 DEF GoneOK, GoneSame, Taken, PullWrites
  <2> QED BY <2>1, <2>2
<1> QED BY <1>3, <1>4, <1>5, <1>6, <1>7 DEF GoneOK, Taken, PullWrites

(* A mark is lost only where two read the file before either wrote it.     *)
SeenSame(i) ==
  /\ told'.seen = told.seen /\ seenFile' = seenFile
  /\ ~told'.lostMark => ~told.lostMark
  /\ op'[i].pc = "seen" => \/ op[i].pc = "seen" /\ op'[i].seen = op[i].seen
                           \/ ~told'.lostMark => op'[i].seen = seenFile /\ \A j \in Ops : op[j].pc # "seen"
SeenIs(i) ==
  /\ op[i].pc = "seen" /\ op'[i].pc # "seen"
  /\ told'.seen = told.seen \cup Marked(i) /\ seenFile' = op[i].seen \cup Marked(i)
  /\ told'.lostMark = told.lostMark

(* Where the file is lost nothing counts as marked any more.               *)
SeenGone(i) ==
  /\ told'.seen = {} /\ (~told'.lostMark => ~told.lostMark)
  /\ op'[i].pc = "seen" /\ ~told'.lostMark => \A j \in Ops : op[j].pc # "seen"

LEMMA SeenKeeps ==
  ASSUME ListInv, op' \in [Ops -> ListOp], NEW i \in Ops, OthersKeep(i),
         SeenSame(i) \/ SeenIs(i) \/ SeenGone(i)
  PROVE  SeenOK'
<1>1. SeenOK
  BY DEF ListInv
<1>2. ASSUME NEW j \in Ops \ {i}
      PROVE  op'[j].pc = op[j].pc /\ op'[j].seen = op[j].seen
  BY DEF OthersKeep, Follows
<1>3. CASE SeenSame(i)
  BY <1>1, <1>2, <1>3 DEF SeenOK, SeenSame
<1>4. CASE SeenIs(i)
  BY <1>1, <1>2, <1>4 DEF SeenOK, SeenIs
<1>5. CASE SeenGone(i)
  BY <1>1, <1>2, <1>5 DEF SeenOK, SeenGone
<1> QED BY <1>3, <1>4, <1>5

LEMMA ListStep ==
  ASSUME ListInv, ListTypeOK', CardsAreUnique', NEW i \in Ops, OthersKeep(i), OpIs(op'[i]),
         SpinSame(i) \/ SpinBegins(i) \/ SpinEnds(i),
         LoadSame(i) \/ LoadIsNew(i),
         GoneSame(i), told'.deleted = told.deleted \/ op'[i].of = op[i].of,
         SeenSame(i) \/ SeenIs(i) \/ SeenGone(i)
  PROVE  ListInv'
<1>1. op' \in [Ops -> ListOp] /\ ListTypeOK /\ \A j \in Ops : OpIs(op[j])
  BY DEF ListInv, ListTypeOK
<1>2. \A j \in Ops : OpIs(op'[j])
  BY <1>1, OpsAre
<1>3. SpinOK' /\ LoadsOK'
  BY <1>1, SpinKeeps, LoadsKeep
<1>4. GoneOK' /\ SeenOK'
  BY <1>1, GoneKeeps, SeenKeeps
<1> QED BY <1>2, <1>3, <1>4 DEF ListInv

-----------------------------------------------------------------------------
(* The actions, one by one.                                                *)
LEMMA OpEnded ==
  ASSUME ListInv, NEW i \in Ops, OpEnds(i)
  PROVE  op' \in [Ops -> ListOp] /\ op'[i] = Done /\ OthersKeep(i) /\ \A j \in Ops \ {i} : op'[j] = op[j]
<1>1. op \in [Ops -> ListOp] /\ op' = [op EXCEPT ![i] = Done]
  BY DEF ListInv, ListTypeOK, OpEnds
<1> QED BY <1>1, NoneIs, OpPut

LEMMA OpGone ==
  ASSUME ListInv, NEW i \in Ops, NEW pc, OpGoes(i, pc), [op[i] EXCEPT !.pc = pc] \in ListOp
  PROVE  /\ op' \in [Ops -> ListOp] /\ OthersKeep(i) /\ \A j \in Ops \ {i} : op'[j] = op[j]
         /\ Follows(op'[i], [op[i] EXCEPT !.pc = pc]) /\ op'[i].latest = op[i].latest
         /\ op'[i].pc = pc /\ op'[i].kind = op[i].kind /\ op'[i].of = op[i].of
         /\ op'[i].cached = op[i].cached /\ op'[i].remote = op[i].remote /\ op'[i].seen = op[i].seen
<1>1. op \in [Ops -> ListOp] /\ op[i] \in ListOp
  BY DEF ListInv, ListTypeOK
<1>2. op' = [op EXCEPT ![i] = [op[i] EXCEPT !.pc = pc]]
  BY <1>1 DEF OpGoes
<1>3. op'[i] = [op[i] EXCEPT !.pc = pc] /\ op' \in [Ops -> ListOp] /\ OthersKeep(i)
  BY <1>1, <1>2, OpPut
<1>4. \A j \in Ops \ {i} : op'[j] = op[j]
  BY <1>1, <1>2
<1>5. /\ op'[i].pc = pc /\ op'[i].kind = op[i].kind /\ op'[i].of = op[i].of /\ op'[i].latest = op[i].latest
      /\ op'[i].cached = op[i].cached /\ op'[i].remote = op[i].remote /\ op'[i].seen = op[i].seen
  BY <1>1, <1>3 DEF ListOp
<1> QED BY <1>3, <1>4, <1>5 DEF Follows

(* What a free operation is, and one that is at a place.                   *)
LEMMA OpFacts ==
  ASSUME ListInv, NEW i \in Ops
  PROVE  /\ op[i] \in ListOp /\ OpIs(op[i]) /\ op \in [Ops -> ListOp]
         /\ op[i].of \in Sandboxes \cup {NoSandbox} /\ op[i].latest \in BOOLEAN
         /\ op[i].cached \subseteq Sandboxes /\ op[i].remote \subseteq Sandboxes /\ op[i].seen \subseteq Sandboxes
         /\ granted \subseteq Sandboxes /\ cache \subseteq Sandboxes /\ seenFile \subseteq Sandboxes
         /\ list \in CardList /\ told \in ListTold /\ list.cached \cap list.remote = {}
  BY OpFields DEF ListInv, ListTypeOK, CardsAreUnique

LEMMA LoadsKeepsList ==
  ASSUME ListInv, NEW i \in Ops, Loads(i)
  PROVE  ListInv'
<1>1. /\ op[i] = NoOp /\ list' = Loading(list) /\ LoadBegins(i, [NoOp EXCEPT !.kind = "load"])
      /\ UNCHANGED <<granted, cache, seenFile, told>>
  BY DEF Loads, FreeOp
<1>2. PICK o : o = [NoOp EXCEPT !.kind = "load"]
  OBVIOUS
<1>3. o \in ListOp /\ o.kind = "load" /\ o.of = NoSandbox
  BY <1>2 DEF NoOp, ListOp
<1>4. /\ op' \in [Ops -> ListOp] /\ OthersKeep(i)
      /\ op'[i] = [o EXCEPT !.pc = "cached", !.latest = TRUE]
      /\ \A j \in Ops : op'[j].latest => j = i
  BY <1>1, <1>2, <1>3, OpFacts, LoadIsLatest
<1>5. op'[i].kind = "load" /\ op'[i].pc = "cached" /\ op'[i].latest /\ op'[i].of = NoSandbox
  BY <1>3, <1>4 DEF ListOp
<1>6. /\ list' \in CardList /\ list'.cached = list.cached /\ list'.remote = list.remote
      /\ list'.pulling = list.pulling
  BY <1>1, OpFacts DEF Loading, CardList
<1>7. ListTypeOK' /\ CardsAreUnique'
  BY <1>1, <1>4, <1>6, OpFacts DEF ListTypeOK, CardsAreUnique
<1>8. OpIs(op'[i])
  BY <1>5 DEF OpIs, Loadings
<1>9. SpinSame(i) /\ LoadIsNew(i) /\ SeenSame(i)
  BY <1>1, <1>4, <1>5, <1>6, NoneIs DEF SpinSame, LoadIsNew, SeenSame, Pull
<1>10. GoneSame(i)
  BY <1>1, <1>5, NoneIs DEF GoneSame, Taken, PullWrites, Meets
<1> QED BY <1>1, <1>4, <1>7, <1>8, <1>9, <1>10, ListStep

LEMMA CacheListedKeeps ==
  ASSUME ListInv, NEW i \in Ops, NEW ok \in BOOLEAN, CacheListed(i, ok)
  PROVE  ListInv'
<1>1. op[i].kind \in {"load", "pull"} /\ op[i].pc = "cached" /\ UNCHANGED <<granted, cache, seenFile>>
  BY DEF CacheListed, At
<1>2. CASE ok
  <2>1. op' = [op EXCEPT ![i].pc = "remote", ![i].cached = cache] /\ list' = list /\ told' = told
    BY <1>2 DEF CacheListed
  <2>2. PICK o : o = [op[i] EXCEPT !.pc = "remote", !.cached = cache]
    OBVIOUS
  <2>3. /\ o \in ListOp /\ o.kind = op[i].kind /\ o.of = op[i].of /\ o.pc = "remote" /\ o.cached = cache
        /\ o.latest = op[i].latest
    BY <2>2, OpFacts DEF ListOp, Loadings
  <2>4. op' = [op EXCEPT ![i] = o]
    BY <2>1, <2>2, OpFacts
  <2>5. op' \in [Ops -> ListOp] /\ op'[i] = o /\ OthersKeep(i) /\ \A j \in Ops \ {i} : op'[j] = op[j]
    BY <2>3, <2>4, OpFacts, OpPut
  <2>6. ListTypeOK' /\ CardsAreUnique'
    BY <1>1, <2>1, <2>5, OpFacts DEF ListTypeOK, CardsAreUnique
  <2>7. OpIs(op'[i])
    BY <1>1, <2>3, <2>5, OpFacts DEF OpIs, Loadings
  <2>8. SpinSame(i) /\ SeenSame(i)
    BY <1>1, <2>1, <2>3, <2>5 DEF SpinSame, SeenSame, Pull
  <2>9. LoadSame(i)
    BY <1>1, <2>1, <2>3, <2>5 DEF LoadSame, Will, LatestRead
  <2>10. GoneSame(i)
    BY <1>1, <2>1, <2>3, <2>5 DEF GoneSame, Taken, PullWrites, Meets
  <2> QED BY <2>1, <2>5, <2>6, <2>7, <2>8, <2>9, <2>10, ListStep
<1>3. CASE ~ok
  <2>1. /\ OpEnds(i) /\ list' = [list EXCEPT !.loading = FALSE, !.error = TRUE, !.pulling = @ \ {op[i].of}]
        /\ told' = [told EXCEPT !.newest = FALSE]
    BY <1>3 DEF CacheListed
  <2>2. op' \in [Ops -> ListOp] /\ op'[i] = Done /\ OthersKeep(i) /\ \A j \in Ops \ {i} : op'[j] = op[j]
    BY <2>1, OpEnded
  <2>3. /\ list' \in CardList /\ list'.cached = list.cached /\ list'.remote = list.remote
        /\ list'.pulling = list.pulling \ {op[i].of}
    BY <2>1, OpFacts DEF CardList
  <2>4. /\ told' \in ListTold /\ ~told'.newest /\ told'.deleted = told.deleted /\ told'.seen = told.seen
        /\ told'.lostMark = told.lostMark /\ told'.pulledAcross = told.pulledAcross
    BY <2>1, OpFacts DEF ListTold
  <2>5. ListTypeOK' /\ CardsAreUnique' /\ OpIs(op'[i])
    BY <1>1, <2>2, <2>3, <2>4, OpFacts, NoneIs DEF ListTypeOK, CardsAreUnique
  <2>6. SpinEnds(i) /\ SeenSame(i)
    BY <1>1, <2>2, <2>3, <2>4, NoneIs DEF SpinEnds, SeenSame, Pull
  <2>7. LoadSame(i)
    BY <1>1, <2>2, <2>4, NoneIs DEF LoadSame, Will, LatestRead
  <2>8. GoneSame(i)
    BY <1>1, <2>2, <2>4, NoneIs DEF GoneSame, Taken, PullWrites, Meets
  <2> QED BY <2>2, <2>4, <2>5, <2>6, <2>7, <2>8, ListStep
<1> QED BY <1>2, <1>3

LEMMA CloudListedKeeps ==
  ASSUME ListInv, NEW i \in Ops, NEW ok \in BOOLEAN, CloudListed(i, ok)
  PROVE  ListInv'
<1>1. op[i].kind \in {"load", "pull"} /\ op[i].pc = "remote" /\ UNCHANGED <<granted, cache, seenFile, list, told>>
  BY DEF CloudListed, At
<1>2. PICK r : r = IF ok THEN Uncached(i) ELSE {}
  OBVIOUS
<1>r. PICK readable \in BOOLEAN :
             op' = [op EXCEPT ![i].pc = "answer", ![i].remote = IF ok THEN Uncached(i) ELSE {},
                              ![i].seen = SeenIds(ok /\ readable)]
  BY DEF CloudListed
<1>3. PICK s : s = SeenIds(ok /\ readable)
  OBVIOUS
<1>4. r \subseteq Sandboxes /\ s \subseteq Sandboxes /\ op[i].cached \cap r = {}
  BY <1>2, <1>3, OpFacts DEF Uncached, SeenIds
<1>5. op' = [op EXCEPT ![i].pc = "answer", ![i].remote = r, ![i].seen = s]
  BY <1>r, <1>2, <1>3
<1>6. PICK o : o = [op[i] EXCEPT !.pc = "answer", !.remote = r, !.seen = s]
  OBVIOUS
<1>7. /\ o \in ListOp /\ o.kind = op[i].kind /\ o.of = op[i].of /\ o.pc = "answer"
      /\ o.cached = op[i].cached /\ o.latest = op[i].latest /\ o.remote = r
  BY <1>4, <1>6, OpFacts DEF ListOp, Loadings
<1>8. op' = [op EXCEPT ![i] = o]
  BY <1>5, <1>6, OpFacts
<1>9. op' \in [Ops -> ListOp] /\ op'[i] = o /\ OthersKeep(i) /\ \A j \in Ops \ {i} : op'[j] = op[j]
  BY <1>7, <1>8, OpFacts, OpPut
<1>10. ListTypeOK' /\ CardsAreUnique'
  BY <1>1, <1>9, OpFacts DEF ListTypeOK, CardsAreUnique
<1>11. OpIs(op'[i])
  BY <1>1, <1>4, <1>7, <1>9, OpFacts DEF OpIs, Loadings
<1>12. SpinSame(i) /\ SeenSame(i)
  BY <1>1, <1>7, <1>9 DEF SpinSame, SeenSame, Pull
<1>13. LoadSame(i)
  BY <1>1, <1>7, <1>9 DEF LoadSame, Will, LatestRead
<1>14. GoneSame(i)
  BY <1>1, <1>7, <1>9 DEF GoneSame, Taken, PullWrites, Meets
<1> QED BY <1>1, <1>9, <1>10, <1>11, <1>12, <1>13, <1>14, ListStep

LEMMA LoadShownKeeps ==
  ASSUME ListInv, NEW i \in Ops, LoadShown(i)
  PROVE  ListInv'
<1>1. /\ op[i].kind \in {"load", "pull"} /\ op[i].pc = "answer" /\ OpEnds(i)
      /\ UNCHANGED <<granted, cache, seenFile>>
  BY DEF LoadShown, At
<1>2. list' = [list EXCEPT !.cached = op[i].cached, !.remote = op[i].remote, !.seen = op[i].seen,
                          !.loading = FALSE, !.pulling = @ \ {op[i].of}]
  BY DEF LoadShown
<1>3. told' = [told EXCEPT !.newest = op[i].latest]
  BY DEF LoadShown
<1>4. op' \in [Ops -> ListOp] /\ op'[i] = Done /\ OthersKeep(i) /\ \A j \in Ops \ {i} : op'[j] = op[j]
  BY <1>1, OpEnded
<1>5. /\ list' \in CardList /\ list'.cached = op[i].cached /\ list'.remote = op[i].remote
      /\ list'.pulling = list.pulling \ {op[i].of}
  BY <1>2, OpFacts DEF CardList
<1>6. PICK b \in BOOLEAN : b = op[i].latest
  BY OpFacts
<1>7. /\ told' \in ListTold /\ told'.newest = b /\ told'.deleted = told.deleted /\ told'.seen = told.seen
      /\ told'.lostMark = told.lostMark /\ told'.pulledAcross = told.pulledAcross
  BY <1>3, <1>6, OpFacts DEF ListTold
<1>8. list'.cached \cap list'.remote = {}
  BY <1>1, <1>5, OpFacts DEF OpIs
<1>9. ListTypeOK' /\ CardsAreUnique' /\ OpIs(op'[i])
  BY <1>1, <1>4, <1>5, <1>7, <1>8, OpFacts, NoneIs DEF ListTypeOK, CardsAreUnique
<1>10. SpinEnds(i) /\ SeenSame(i)
  BY <1>1, <1>4, <1>5, <1>7, NoneIs DEF SpinEnds, SeenSame, Pull
<1>11. LoadSame(i)
  BY <1>1, <1>4, <1>5, <1>6, <1>7, NoneIs DEF LoadSame, Will, LatestRead
<1>12. GoneSame(i)
  BY <1>1, <1>4, <1>7, NoneIs DEF GoneSame, Taken, PullWrites, Meets
<1> QED BY <1>4, <1>7, <1>9, <1>10, <1>11, <1>12, ListStep

LEMMA AcrossIs ==
  ASSUME ListInv, NEW kinds \in SUBSET {"pull", "remove"}, NEW s \in Sandboxes
  PROVE  /\ told.pulledAcross \subseteq Across(kinds, s) /\ Across(kinds, s) \subseteq Sandboxes
         /\ \A j \in Ops : op[j].kind \in kinds /\ op[j].of = s => s \in Across(kinds, s)
<1>1. told.pulledAcross \subseteq Sandboxes
  BY ListFields DEF ListInv
<1>2. \A j \in Ops : op[j].kind \in kinds => j \in Pending
  BY NoneIs DEF Pending
<1> QED BY <1>1, <1>2 DEF Across

LEMMA OpBegun ==
  ASSUME ListInv, NEW i \in Ops, NEW kind \in {"pull", "remove"}, NEW s \in Sandboxes, OpBegins(i, kind, s, "api")
  PROVE  /\ op[i] = NoOp
         /\ op' \in [Ops -> ListOp] /\ OthersKeep(i) /\ \A j \in Ops \ {i} : op'[j] = op[j]
         /\ op'[i].kind = kind /\ op'[i].of = s /\ op'[i].pc = "api" /\ ~op'[i].latest
         /\ OpIs(op'[i])
<1>1. PICK o : o = [NoOp EXCEPT !.kind = kind, !.of = s, !.pc = "api"]
  OBVIOUS
<1>2. o \in ListOp /\ o.kind = kind /\ o.of = s /\ o.pc = "api" /\ ~o.latest
  BY <1>1 DEF NoOp, ListOp
<1>3. op[i] = NoOp /\ op' = [op EXCEPT ![i] = o]
  BY <1>1 DEF OpBegins, FreeOp
<1>4. op' \in [Ops -> ListOp] /\ op'[i] = o /\ OthersKeep(i) /\ \A j \in Ops \ {i} : op'[j] = op[j]
  BY <1>2, <1>3, OpFacts, OpPut
<1>5. OpIs(o)
  BY <1>2 DEF OpIs, Loadings
<1> QED BY <1>2, <1>3, <1>4, <1>5

LEMMA LoadBegun ==
  ASSUME ListInv, NEW i \in Ops, NEW o \in ListOp, LoadBegins(i, o),
         \/ o.kind = "pull" /\ o.of \in Sandboxes
         \/ o.kind = "load" /\ o.of = NoSandbox
  PROVE  /\ op' \in [Ops -> ListOp] /\ OthersKeep(i) /\ LoadIsNew(i) /\ OpIs(op'[i])
         /\ op'[i].kind = o.kind /\ op'[i].of = o.of /\ op'[i].pc = "cached"
<1>1. /\ op' \in [Ops -> ListOp] /\ OthersKeep(i)
      /\ op'[i] = [o EXCEPT !.pc = "cached", !.latest = TRUE]
      /\ \A j \in Ops : op'[j].latest => j = i
  BY OpFacts, LoadIsLatest
<1>2. op'[i].kind = o.kind /\ op'[i].of = o.of /\ op'[i].pc = "cached" /\ op'[i].latest
  BY <1>1 DEF ListOp
<1>3. OpIs(op'[i])
  BY <1>2 DEF OpIs, Loadings
<1> QED BY <1>1, <1>2, <1>3 DEF LoadIsNew

LEMMA PullsKeep ==
  ASSUME ListInv, NEW i \in Ops, NEW s \in Sandboxes, Pulls(i, s)
  PROVE  ListInv'
<1>1. /\ s \notin list.pulling /\ OpBegins(i, "pull", s, "api")
      /\ list' = [list EXCEPT !.pulling = @ \cup {s}]
      /\ UNCHANGED <<granted, cache, seenFile>>
  BY DEF Pulls
<1>2. PICK a : a = Across({"remove"}, s)
  OBVIOUS
<1>3. told' = [told EXCEPT !.pulledAcross = a]
  BY <1>2 DEF Pulls
<1>4. /\ told.pulledAcross \subseteq a /\ a \subseteq Sandboxes
      /\ \A j \in Ops : op[j].kind \in {"remove"} /\ op[j].of = s => s \in a
  BY <1>2, AcrossIs
<1>5. /\ op[i] = NoOp
      /\ op' \in [Ops -> ListOp] /\ OthersKeep(i) /\ \A j \in Ops \ {i} : op'[j] = op[j]
      /\ op'[i].kind = "pull" /\ op'[i].of = s /\ op'[i].pc = "api" /\ ~op'[i].latest
      /\ OpIs(op'[i])
  BY <1>1, OpBegun
<1>6. /\ list' \in CardList /\ list'.cached = list.cached /\ list'.remote = list.remote
      /\ list'.pulling = list.pulling \cup {s}
  BY <1>1, OpFacts DEF CardList
<1>7. /\ told' \in ListTold /\ told'.newest = told.newest /\ told'.deleted = told.deleted
      /\ told'.seen = told.seen /\ told'.lostMark = told.lostMark /\ told'.pulledAcross = a
  BY <1>3, <1>4, OpFacts DEF ListTold
<1>8. ListTypeOK' /\ CardsAreUnique'
  BY <1>1, <1>5, <1>6, <1>7, OpFacts DEF ListTypeOK, CardsAreUnique
<1>9. SpinBegins(i) /\ SeenSame(i)
  BY <1>1, <1>5, <1>6, <1>7, NoneIs DEF SpinBegins, SeenSame, Pull
<1>10. LoadSame(i)
  BY <1>1, <1>5, <1>6, <1>7, NoneIs DEF LoadSame, Will, LatestRead
<1>11. GoneSame(i)
  BY <1>1, <1>4, <1>5, <1>7, NoneIs DEF GoneSame, Taken, PullWrites, Meets
<1> QED BY <1>5, <1>7, <1>8, <1>9, <1>10, <1>11, ListStep

LEMMA RemovesKeep ==
  ASSUME ListInv, NEW i \in Ops, NEW s \in Sandboxes, Removes(i, s)
  PROVE  ListInv'
<1>1. OpBegins(i, "remove", s, "api") /\ UNCHANGED <<granted, cache, seenFile, list>>
  BY DEF Removes
<1>2. PICK a : a = Across({"pull"}, s)
  OBVIOUS
<1>3. told' = [told EXCEPT !.pulledAcross = a]
  BY <1>2 DEF Removes
<1>4. /\ told.pulledAcross \subseteq a /\ a \subseteq Sandboxes
      /\ \A j \in Ops : op[j].kind \in {"pull"} /\ op[j].of = s => s \in a
  BY <1>2, AcrossIs
<1>5. /\ op[i] = NoOp
      /\ op' \in [Ops -> ListOp] /\ OthersKeep(i) /\ \A j \in Ops \ {i} : op'[j] = op[j]
      /\ op'[i].kind = "remove" /\ op'[i].of = s /\ op'[i].pc = "api" /\ ~op'[i].latest
      /\ OpIs(op'[i])
  BY <1>1, OpBegun
<1>7. /\ told' \in ListTold /\ told'.newest = told.newest /\ told'.deleted = told.deleted
      /\ told'.seen = told.seen /\ told'.lostMark = told.lostMark /\ told'.pulledAcross = a
  BY <1>3, <1>4, OpFacts DEF ListTold
<1>8. ListTypeOK' /\ CardsAreUnique'
  BY <1>1, <1>5, <1>7, OpFacts DEF ListTypeOK, CardsAreUnique
<1>9. SpinSame(i) /\ SeenSame(i)
  BY <1>1, <1>5, <1>7, NoneIs DEF SpinSame, SeenSame, Pull
<1>10. LoadSame(i)
  BY <1>1, <1>5, <1>7, NoneIs DEF LoadSame, Will, LatestRead
<1>11. GoneSame(i)
  BY <1>1, <1>4, <1>5, <1>7, NoneIs DEF GoneSame, Taken, PullWrites, Meets
<1> QED BY <1>5, <1>7, <1>8, <1>9, <1>10, <1>11, ListStep

LEMMA PullAnsweredKeeps ==
  ASSUME ListInv, NEW i \in Ops, NEW ok \in BOOLEAN, PullAnswered(i, ok)
  PROVE  ListInv'
<1>1. op[i].kind = "pull" /\ op[i].pc = "api" /\ UNCHANGED <<granted, cache, seenFile, told>>
  BY DEF PullAnswered, At
<1>2. CASE ok /\ op[i].of \in granted
  <2>1. OpGoes(i, "write") /\ list' = list
    BY <1>2 DEF PullAnswered
  <2>2. [op[i] EXCEPT !.pc = "write"] \in ListOp
    BY OpFacts DEF ListOp
  <2>3. /\ op' \in [Ops -> ListOp] /\ OthersKeep(i) /\ \A j \in Ops \ {i} : op'[j] = op[j]
        /\ op'[i].pc = "write" /\ op'[i].kind = op[i].kind /\ op'[i].of = op[i].of /\ op'[i].latest = op[i].latest
    BY <2>1, <2>2, OpGone
  <2>4. ListTypeOK' /\ CardsAreUnique'
    BY <1>1, <2>1, <2>3, OpFacts DEF ListTypeOK, CardsAreUnique
  <2>5. OpIs(op'[i])
    BY <1>1, <2>3, OpFacts DEF OpIs, Loadings
  <2>6. SpinSame(i) /\ SeenSame(i)
    BY <1>1, <2>1, <2>3 DEF SpinSame, SeenSame, Pull
  <2>7. LoadSame(i)
    BY <1>1, <2>1, <2>3, OpFacts DEF LoadSame, Will, LatestRead, OpIs, Loadings
  <2>8. GoneSame(i)
    BY <1>1, <1>2, <2>3 DEF GoneSame, Taken, PullWrites, Meets
  <2> QED BY <1>1, <2>3, <2>4, <2>5, <2>6, <2>7, <2>8, ListStep
<1>3. CASE ~(ok /\ op[i].of \in granted)
  <2>1. OpEnds(i) /\ list' = [list EXCEPT !.pulling = @ \ {op[i].of}]
    BY <1>3 DEF PullAnswered
  <2>2. op' \in [Ops -> ListOp] /\ op'[i] = Done /\ OthersKeep(i) /\ \A j \in Ops \ {i} : op'[j] = op[j]
    BY <2>1, OpEnded
  <2>3. /\ list' \in CardList /\ list'.cached = list.cached /\ list'.remote = list.remote
        /\ list'.pulling = list.pulling \ {op[i].of}
    BY <2>1, OpFacts DEF CardList
  <2>4. ListTypeOK' /\ CardsAreUnique' /\ OpIs(op'[i])
    BY <1>1, <2>2, <2>3, OpFacts, NoneIs DEF ListTypeOK, CardsAreUnique
  <2>5. SpinEnds(i) /\ SeenSame(i)
    BY <1>1, <2>2, <2>3, NoneIs DEF SpinEnds, SeenSame, Pull
  <2>6. LoadSame(i)
    BY <1>1, <2>2, <2>3, NoneIs, OpFacts DEF LoadSame, Will, LatestRead, OpIs, Loadings
  <2>7. GoneSame(i)
    BY <1>1, <2>2, NoneIs DEF GoneSame, Taken, PullWrites, Meets
  <2> QED BY <1>1, <2>2, <2>4, <2>5, <2>6, <2>7, ListStep
<1> QED BY <1>2, <1>3

LEMMA PullWrittenKeeps ==
  ASSUME ListInv, NEW i \in Ops, PullWritten(i)
  PROVE  ListInv'
<1>1. /\ op[i].kind = "pull" /\ op[i].pc = "write" /\ OpGoes(i, "pulled")
      /\ cache' = cache \cup {op[i].of} /\ UNCHANGED <<granted, seenFile, list, told>>
  BY DEF PullWritten, At
<1>2. [op[i] EXCEPT !.pc = "pulled"] \in ListOp
  BY OpFacts DEF ListOp
<1>3. /\ op' \in [Ops -> ListOp] /\ OthersKeep(i) /\ \A j \in Ops \ {i} : op'[j] = op[j]
      /\ op'[i].pc = "pulled" /\ op'[i].kind = op[i].kind /\ op'[i].of = op[i].of /\ op'[i].latest = op[i].latest
  BY <1>1, <1>2, OpGone
<1>4. op[i].of \in Sandboxes /\ ~op[i].latest
  BY <1>1, OpFacts DEF OpIs, Loadings
<1>5. ListTypeOK' /\ CardsAreUnique'
  BY <1>1, <1>3, <1>4, OpFacts DEF ListTypeOK, CardsAreUnique
<1>6. OpIs(op'[i])
  BY <1>1, <1>3, <1>4 DEF OpIs, Loadings
<1>7. SpinSame(i) /\ SeenSame(i)
  BY <1>1, <1>3 DEF SpinSame, SeenSame, Pull
<1>8. LoadSame(i)
  BY <1>1, <1>3, <1>4 DEF LoadSame, Will, LatestRead
<1>9. GoneSame(i)
  BY <1>1, <1>3 DEF GoneSame, Taken, PullWrites, Meets
<1> QED BY <1>1, <1>3, <1>5, <1>6, <1>7, <1>8, <1>9, ListStep

LEMMA RemoveServedKeeps ==
  ASSUME ListInv, NEW i \in Ops, NEW ok \in BOOLEAN, RemoveServed(i, ok)
  PROVE  ListInv'
<1>1. op[i].kind = "remove" /\ op[i].pc = "api" /\ UNCHANGED <<cache, seenFile, list, told>>
  BY DEF RemoveServed, At
<1>2. PICK pc \in {"rm", "refused"} :
        /\ OpGoes(i, pc) /\ granted' \subseteq granted
        /\ pc = "rm" => op[i].of \notin granted'
  <2>1. CASE ok
    BY <2>1 DEF RemoveServed
  <2>2. CASE ~ok
    BY <2>2 DEF RemoveServed
  <2> QED BY <2>1, <2>2
<1>3. [op[i] EXCEPT !.pc = pc] \in ListOp
  BY OpFacts DEF ListOp
<1>4. /\ op' \in [Ops -> ListOp] /\ OthersKeep(i) /\ \A j \in Ops \ {i} : op'[j] = op[j]
      /\ op'[i].pc = pc /\ op'[i].kind = op[i].kind /\ op'[i].of = op[i].of /\ op'[i].latest = op[i].latest
  BY <1>2, <1>3, OpGone
<1>5. op[i].of \in Sandboxes /\ ~op[i].latest
  BY <1>1, OpFacts DEF OpIs, Loadings
<1>6. ListTypeOK' /\ CardsAreUnique'
  BY <1>1, <1>2, <1>4, OpFacts DEF ListTypeOK, CardsAreUnique
<1>7. OpIs(op'[i])
  BY <1>1, <1>4, <1>5 DEF OpIs, Loadings
<1>8. SpinSame(i) /\ SeenSame(i)
  BY <1>1, <1>4 DEF SpinSame, SeenSame, Pull
<1>9. LoadSame(i)
  BY <1>1, <1>4, <1>5 DEF LoadSame, Will, LatestRead
<1>10. GoneSame(i)
  BY <1>1, <1>2, <1>4 DEF GoneSame, Taken, PullWrites, Meets
<1> QED BY <1>1, <1>4, <1>6, <1>7, <1>8, <1>9, <1>10, ListStep

LEMMA CacheRemovedKeeps ==
  ASSUME ListInv, NEW i \in Ops, CacheRemoved(i)
  PROVE  ListInv'
<1>1. /\ op[i].kind = "remove" /\ op[i].pc = "rm" /\ OpGoes(i, "removed")
      /\ cache' = cache \ {op[i].of} /\ told' = [told EXCEPT !.deleted = @ \cup {op[i].of}]
      /\ UNCHANGED <<granted, seenFile, list>>
  BY DEF CacheRemoved, At, Emptied
<1>2. [op[i] EXCEPT !.pc = "removed"] \in ListOp
  BY OpFacts DEF ListOp
<1>3. /\ op' \in [Ops -> ListOp] /\ OthersKeep(i) /\ \A j \in Ops \ {i} : op'[j] = op[j]
      /\ op'[i].pc = "removed" /\ op'[i].kind = op[i].kind /\ op'[i].of = op[i].of /\ op'[i].latest = op[i].latest
  BY <1>1, <1>2, OpGone
<1>4. op[i].of \in Sandboxes /\ ~op[i].latest /\ op[i].of \notin granted
  <2>1. op[i].of \in Sandboxes /\ ~op[i].latest
    BY <1>1, OpFacts DEF OpIs, Loadings
  <2> QED BY <1>1, <2>1 DEF ListInv, GoneOK
<1>5. /\ told' \in ListTold /\ told'.newest = told.newest /\ told'.deleted = told.deleted \cup {op[i].of}
      /\ told'.seen = told.seen /\ told'.lostMark = told.lostMark /\ told'.pulledAcross = told.pulledAcross
  BY <1>1, <1>4, OpFacts DEF ListTold
<1>6. ListTypeOK' /\ CardsAreUnique'
  BY <1>1, <1>3, <1>5, OpFacts DEF ListTypeOK, CardsAreUnique
<1>7. OpIs(op'[i])
  BY <1>1, <1>3, <1>4 DEF OpIs, Loadings
<1>8. SpinSame(i) /\ SeenSame(i)
  BY <1>1, <1>3, <1>5 DEF SpinSame, SeenSame, Pull
<1>9. LoadSame(i)
  BY <1>1, <1>3, <1>4, <1>5 DEF LoadSame, Will, LatestRead
<1>10. GoneSame(i)
  BY <1>1, <1>3, <1>4, <1>5 DEF GoneSame, Taken, PullWrites, Meets
<1> QED BY <1>3, <1>5, <1>6, <1>7, <1>8, <1>9, <1>10, ListStep

LEMMA RemoveAnsweredKeeps ==
  ASSUME ListInv, NEW i \in Ops, RemoveAnswered(i)
  PROVE  ListInv'
<1>1. op[i].kind = "remove" /\ UNCHANGED <<granted, cache, seenFile, told>>
  BY DEF RemoveAnswered
<1>2. ~op[i].latest
  BY <1>1, OpFacts DEF OpIs, Loadings
<1>3. CASE op[i].pc = "removed"
  <2>1. PICK l : l = [list EXCEPT !.cached = @ \ {op[i].of}, !.remote = @ \ {op[i].of}]
    OBVIOUS
  <2>2. PICK o : o = [NoOp EXCEPT !.kind = "load"]
    OBVIOUS
  <2>3. list' = Loading(l) /\ LoadBegins(i, o)
    BY <1>3, <2>1, <2>2 DEF RemoveAnswered
  <2>4. o \in ListOp /\ o.kind = "load" /\ o.of = NoSandbox
    BY <2>2 DEF NoOp, ListOp
  <2>5. /\ op' \in [Ops -> ListOp] /\ OthersKeep(i) /\ LoadIsNew(i) /\ OpIs(op'[i])
        /\ op'[i].kind = "load" /\ op'[i].of = NoSandbox /\ op'[i].pc = "cached"
    BY <2>3, <2>4, LoadBegun
  <2>6. /\ l \in CardList /\ l.cached = list.cached \ {op[i].of} /\ l.remote = list.remote \ {op[i].of}
        /\ l.pulling = list.pulling
    BY <2>1, OpFacts DEF CardList
  <2>7. list' \in CardList /\ list'.cached = l.cached /\ list'.remote = l.remote /\ list'.pulling = l.pulling
    BY <2>3, <2>6 DEF Loading, CardList
  <2>8. ListTypeOK' /\ CardsAreUnique'
    BY <1>1, <2>5, <2>6, <2>7, OpFacts DEF ListTypeOK, CardsAreUnique
  <2>9. SpinSame(i) /\ SeenSame(i)
    BY <1>1, <2>5, <2>6, <2>7 DEF SpinSame, SeenSame, Pull
  <2>10. GoneSame(i)
    BY <1>1, <2>5 DEF GoneSame, Taken, PullWrites, Meets
  <2> QED BY <1>1, <2>5, <2>8, <2>9, <2>10, ListStep
<1>4. CASE op[i].pc # "removed"
  <2>1. op[i].pc = "refused" /\ list' = [list EXCEPT !.error = TRUE] /\ OpEnds(i)
    BY <1>4 DEF RemoveAnswered
  <2>2. op' \in [Ops -> ListOp] /\ op'[i] = Done /\ OthersKeep(i) /\ \A j \in Ops \ {i} : op'[j] = op[j]
    BY <2>1, OpEnded
  <2>3. /\ list' \in CardList /\ list'.cached = list.cached /\ list'.remote = list.remote
        /\ list'.pulling = list.pulling
    BY <2>1, OpFacts DEF CardList
  <2>4. ListTypeOK' /\ CardsAreUnique' /\ OpIs(op'[i])
    BY <1>1, <2>2, <2>3, OpFacts, NoneIs DEF ListTypeOK, CardsAreUnique
  <2>5. SpinSame(i) /\ SeenSame(i)
    BY <1>1, <2>2, <2>3, NoneIs DEF SpinSame, SeenSame, Pull
  <2>6. LoadSame(i)
    BY <1>1, <1>2, <2>1, <2>2, <2>3, NoneIs DEF LoadSame, Will, LatestRead
  <2>7. GoneSame(i)
    BY <1>1, <2>1, <2>2, NoneIs DEF GoneSame, Taken, PullWrites, Meets
  <2> QED BY <1>1, <2>2, <2>4, <2>5, <2>6, <2>7, ListStep
<1> QED BY <1>3, <1>4

(* What goes on to load the list when it has been marked as seen, or could *)
(* not be: a pull.                                                         *)
MarkLoads(i) ==
  /\ op[i].kind = "pull" /\ op[i].pc \in {"pulled", "mark", "seen"} /\ LoadBegins(i, op[i])
  /\ UNCHANGED <<granted, cache>>

LEMMA MarkLoadsIs ==
  ASSUME ListInv, NEW i \in Ops, MarkLoads(i)
  PROVE  /\ op' \in [Ops -> ListOp] /\ OthersKeep(i) /\ LoadIsNew(i) /\ OpIs(op'[i])
         /\ op'[i].kind = "pull" /\ op'[i].of = op[i].of /\ op'[i].pc = "cached" /\ op[i].of \in Sandboxes
<1>1. op[i].kind = "pull" /\ op[i].of \in Sandboxes /\ op[i] \in ListOp /\ LoadBegins(i, op[i])
  BY OpFacts DEF MarkLoads, OpIs
<1> QED BY <1>1, LoadBegun

LEMMA PulledIsSeenKeeps ==
  ASSUME ListInv, NEW i \in Ops, PulledIsSeen(i)
  PROVE  ListInv'
<1>1. op[i].kind = "pull" /\ op[i].pc = "pulled" /\ UNCHANGED <<granted, cache, seenFile, told>>
  BY DEF PulledIsSeen, At
<1>2. CASE op[i].of \in list.seen
  <2>1. MarkLoads(i) /\ list' = Loading(list)
    BY <1>1, <1>2 DEF PulledIsSeen, MarkLoads
  <2>2. /\ op' \in [Ops -> ListOp] /\ OthersKeep(i) /\ LoadIsNew(i) /\ OpIs(op'[i])
        /\ op'[i].kind = "pull" /\ op'[i].of = op[i].of /\ op'[i].pc = "cached"
    BY <2>1, MarkLoadsIs
  <2>3. /\ list' \in CardList /\ list'.cached = list.cached /\ list'.remote = list.remote
        /\ list'.pulling = list.pulling
    BY <2>1, OpFacts DEF Loading, CardList
  <2>4. ListTypeOK' /\ CardsAreUnique'
    BY <1>1, <2>2, <2>3, OpFacts DEF ListTypeOK, CardsAreUnique
  <2>5. SpinSame(i) /\ SeenSame(i)
    BY <1>1, <2>2, <2>3 DEF SpinSame, SeenSame, Pull
  <2>6. GoneSame(i)
    BY <1>1, <2>2 DEF GoneSame, Taken, PullWrites, Meets
  <2> QED BY <1>1, <2>2, <2>4, <2>5, <2>6, ListStep
<1>3. CASE op[i].of \notin list.seen
  <2>1. OpGoes(i, "mark") /\ list' = list
    BY <1>3 DEF PulledIsSeen
  <2>2. [op[i] EXCEPT !.pc = "mark"] \in ListOp
    BY OpFacts DEF ListOp
  <2>3. /\ op' \in [Ops -> ListOp] /\ OthersKeep(i) /\ \A j \in Ops \ {i} : op'[j] = op[j]
        /\ op'[i].pc = "mark" /\ op'[i].kind = op[i].kind /\ op'[i].of = op[i].of /\ op'[i].latest = op[i].latest
    BY <2>1, <2>2, OpGone
  <2>4. op[i].of \in Sandboxes /\ ~op[i].latest
    BY <1>1, OpFacts DEF OpIs, Loadings
  <2>5. ListTypeOK' /\ CardsAreUnique'
    BY <1>1, <2>1, <2>3, OpFacts DEF ListTypeOK, CardsAreUnique
  <2>6. OpIs(op'[i])
    BY <1>1, <2>3, <2>4 DEF OpIs, Loadings
  <2>7. SpinSame(i) /\ SeenSame(i)
    BY <1>1, <2>1, <2>3 DEF SpinSame, SeenSame, Pull
  <2>8. LoadSame(i)
    BY <1>1, <2>1, <2>3, <2>4 DEF LoadSame, Will, LatestRead
  <2>9. GoneSame(i)
    BY <1>1, <2>3 DEF GoneSame, Taken, PullWrites, Meets
  <2> QED BY <1>1, <2>3, <2>5, <2>6, <2>7, <2>8, <2>9, ListStep
<1> QED BY <1>2, <1>3

LEMMA MarksAllKeeps ==
  ASSUME ListInv, NEW i \in Ops, MarksAll(i)
  PROVE  ListInv'
<1>1. PICK o : o = [NoOp EXCEPT !.kind = "markAll", !.pc = "mark", !.remote = list.remote]
  OBVIOUS
<1>2. op[i] = NoOp /\ op' = [op EXCEPT ![i] = o] /\ UNCHANGED <<granted, cache, seenFile, list, told>>
  BY <1>1 DEF MarksAll, FreeOp
<1>3. list.remote \subseteq Sandboxes
  BY ListFields DEF ListInv
<1>4. o \in ListOp /\ o.kind = "markAll" /\ o.of = NoSandbox /\ o.pc = "mark" /\ ~o.latest
  BY <1>1, <1>3 DEF NoOp, ListOp
<1>5. op' \in [Ops -> ListOp] /\ op'[i] = o /\ OthersKeep(i) /\ \A j \in Ops \ {i} : op'[j] = op[j]
  BY <1>2, <1>4, OpFacts, OpPut
<1>6. ListTypeOK' /\ CardsAreUnique' /\ OpIs(op'[i])
  BY <1>2, <1>4, <1>5, OpFacts DEF ListTypeOK, CardsAreUnique, OpIs, Loadings
<1>7. SpinSame(i) /\ SeenSame(i)
  BY <1>2, <1>4, <1>5, NoneIs DEF SpinSame, SeenSame, Pull
<1>8. LoadSame(i)
  BY <1>2, <1>4, <1>5, NoneIs DEF LoadSame, Will, LatestRead
<1>9. GoneSame(i)
  BY <1>2, <1>4, <1>5, NoneIs DEF GoneSame, Taken, PullWrites, Meets
<1> QED BY <1>2, <1>5, <1>6, <1>7, <1>8, <1>9, ListStep

LEMMA SeenReadKeeps ==
  ASSUME ListInv, NEW i \in Ops, NEW readable \in BOOLEAN, SeenRead(i, readable)
  PROVE  ListInv'
<1>1. op[i].pc = "mark" /\ UNCHANGED <<granted, cache, seenFile, list>>
  BY DEF SeenRead
<1>0. PICK w : w = SeenIds(readable)
  OBVIOUS
<1>ids. w \in SUBSET Sandboxes /\ (readable => w = seenFile)
  BY <1>0, OpFacts DEF SeenIds
<1>2. PICK o : o = [op[i] EXCEPT !.pc = "seen", !.seen = w]
  OBVIOUS
<1>3. /\ o \in ListOp /\ o.kind = op[i].kind /\ o.of = op[i].of /\ o.pc = "seen" /\ o.seen = w
      /\ o.latest = op[i].latest
  BY <1>2, <1>ids, OpFacts DEF ListOp
<1>4. op' = [op EXCEPT ![i] = o]
  BY <1>0, <1>2, OpFacts DEF SeenRead
<1>5. op' \in [Ops -> ListOp] /\ op'[i] = o /\ OthersKeep(i) /\ \A j \in Ops \ {i} : op'[j] = op[j]
  BY <1>3, <1>4, OpFacts, OpPut
<1>6. PICK b \in BOOLEAN : b = (told.lostMark \/ \E j \in Pending : op[j].pc = "seen")
  BY ListFields DEF ListInv
<1>s. PICK m : m = IF readable THEN told.seen ELSE {}
  OBVIOUS
<1>7. told' = [told EXCEPT !.lostMark = b, !.seen = m]
  BY <1>6, <1>s DEF SeenRead
<1>ms. m \in SUBSET Sandboxes /\ (readable => m = told.seen) /\ (~readable => m = {})
  BY <1>s, OpFacts DEF ListTold
<1>8. /\ told' \in ListTold /\ told'.newest = told.newest /\ told'.deleted = told.deleted
      /\ told'.seen = m /\ told'.lostMark = b /\ told'.pulledAcross = told.pulledAcross
  BY <1>7, <1>ms, OpFacts DEF ListTold
<1>9. ~b => ~told.lostMark /\ \A j \in Ops : op[j].pc # "seen"
  BY <1>6, NoneIs DEF Pending
<1>10. op[i].kind \in {"pull", "markAll"} /\ ~op[i].latest
  BY <1>1, OpFacts, OpFields, NoneIs DEF OpIs, Loadings
<1>11. ListTypeOK' /\ CardsAreUnique'
  BY <1>1, <1>5, <1>8, OpFacts DEF ListTypeOK, CardsAreUnique
<1>12. OpIs(op'[i])
  BY <1>3, <1>5, <1>10, OpFacts DEF OpIs, Loadings
<1>13. SpinSame(i)
  BY <1>1, <1>3, <1>5 DEF SpinSame, Pull
<1>14. SeenSame(i) \/ SeenGone(i)
  <2>1. CASE readable
    BY <1>1, <1>3, <1>5, <1>8, <1>9, <1>ids, <1>ms, <2>1 DEF SeenSame
  <2>2. CASE ~readable
    BY <1>8, <1>9, <1>ms, <2>2 DEF SeenGone
  <2> QED BY <2>1, <2>2
<1>15. LoadSame(i)
  BY <1>1, <1>3, <1>5, <1>8, <1>10 DEF LoadSame, Will, LatestRead
<1>16. GoneSame(i)
  BY <1>1, <1>3, <1>5, <1>8, <1>10 DEF GoneSame, Taken, PullWrites, Meets
<1> QED BY <1>5, <1>8, <1>11, <1>12, <1>13, <1>14, <1>15, <1>16, ListStep

LEMMA SeenWrittenKeeps ==
  ASSUME ListInv, NEW i \in Ops, SeenWritten(i)
  PROVE  ListInv'
<1>1. PICK m : m = Marked(i)
  OBVIOUS
<1>2. m \subseteq Sandboxes
  <2>1. op[i].kind = "pull" => op[i].of \in Sandboxes
    BY OpFacts DEF OpIs
  <2> QED BY <1>1, <2>1, OpFacts DEF Marked
<1>3. PICK l : l = [list EXCEPT !.seen = @ \cup m]
  OBVIOUS
<1>4. /\ op[i].pc = "seen" /\ seenFile' = op[i].seen \cup m /\ told' = [told EXCEPT !.seen = @ \cup m]
      /\ UNCHANGED <<granted, cache>>
  BY <1>1 DEF SeenWritten
<1>5. /\ l \in CardList /\ l.cached = list.cached /\ l.remote = list.remote /\ l.pulling = list.pulling
  BY <1>2, <1>3, OpFacts DEF CardList
<1>6. /\ told' \in ListTold /\ told'.newest = told.newest /\ told'.deleted = told.deleted
      /\ told'.seen = told.seen \cup m /\ told'.lostMark = told.lostMark
      /\ told'.pulledAcross = told.pulledAcross
  BY <1>2, <1>4, OpFacts DEF ListTold
<1>7. op[i].kind \in {"pull", "markAll"} /\ ~op[i].latest
  BY <1>4, OpFacts, OpFields, NoneIs DEF OpIs, Loadings
<1>8. CASE op[i].kind = "pull"
  <2>1. MarkLoads(i) /\ list' = Loading(l)
    BY <1>1, <1>3, <1>4, <1>8 DEF SeenWritten, MarkLoads
  <2>2. /\ op' \in [Ops -> ListOp] /\ OthersKeep(i) /\ LoadIsNew(i) /\ OpIs(op'[i])
        /\ op'[i].kind = "pull" /\ op'[i].of = op[i].of /\ op'[i].pc = "cached"
    BY <2>1, MarkLoadsIs
  <2>3. /\ list' \in CardList /\ list'.cached = list.cached /\ list'.remote = list.remote
        /\ list'.pulling = list.pulling
    BY <1>5, <2>1 DEF Loading, CardList
  <2>4. ListTypeOK' /\ CardsAreUnique'
    BY <1>2, <1>4, <1>6, <2>2, <2>3, OpFacts DEF ListTypeOK, CardsAreUnique
  <2>5. SpinSame(i)
    BY <1>8, <2>2, <2>3 DEF SpinSame, Pull
  <2>6. SeenIs(i)
    BY <1>1, <1>4, <1>6, <2>2 DEF SeenIs
  <2>7. GoneSame(i)
    BY <1>4, <1>6, <1>8, <2>2 DEF GoneSame, Taken, PullWrites, Meets
  <2> QED BY <1>6, <2>2, <2>4, <2>5, <2>6, <2>7, ListStep
<1>9. CASE op[i].kind # "pull"
  <2>1. OpEnds(i) /\ list' = l
    BY <1>1, <1>3, <1>9 DEF SeenWritten
  <2>2. op' \in [Ops -> ListOp] /\ op'[i] = Done /\ OthersKeep(i) /\ \A j \in Ops \ {i} : op'[j] = op[j]
    BY <2>1, OpEnded
  <2>3. ListTypeOK' /\ CardsAreUnique' /\ OpIs(op'[i])
    BY <1>2, <1>4, <1>5, <1>6, <2>1, <2>2, OpFacts, NoneIs DEF ListTypeOK, CardsAreUnique
  <2>4. SpinSame(i)
    BY <1>5, <1>9, <2>1, <2>2, NoneIs DEF SpinSame, Pull
  <2>5. SeenIs(i)
    BY <1>1, <1>4, <1>6, <2>2, NoneIs DEF SeenIs
  <2>6. LoadSame(i)
    BY <1>4, <1>5, <1>6, <1>7, <1>9, <2>1, <2>2, NoneIs DEF LoadSame, Will, LatestRead
  <2>7. GoneSame(i)
    BY <1>4, <1>6, <2>2, NoneIs DEF GoneSame, Taken, PullWrites, Meets
  <2> QED BY <1>6, <2>2, <2>3, <2>4, <2>5, <2>6, <2>7, ListStep
<1> QED BY <1>8, <1>9

LEMMA SeenFailsKeeps ==
  ASSUME ListInv, NEW i \in Ops, SeenFails(i)
  PROVE  ListInv'
<1>1. /\ op[i].pc \in {"mark", "seen"} /\ UNCHANGED <<granted, cache>>
      /\ \/ seenFile' = seenFile /\ told' = told
         \/ seenFile' = {} /\ told' = [told EXCEPT !.seen = {}]
  BY DEF SeenFails
<1>f. /\ seenFile' \in SUBSET Sandboxes /\ told' \in ListTold
      /\ told'.newest = told.newest /\ told'.deleted = told.deleted /\ told'.lostMark = told.lostMark
      /\ told'.pulledAcross = told.pulledAcross
      /\ (seenFile' = seenFile /\ told'.seen = told.seen) \/ told'.seen = {}
  BY <1>1, OpFacts DEF ListTold
<1>2. op[i].kind \in {"pull", "markAll"} /\ ~op[i].latest
  BY <1>1, OpFacts, OpFields, NoneIs DEF OpIs, Loadings
<1>3. CASE op[i].kind = "pull"
  <2>1. MarkLoads(i) /\ list' = Loading(list)
    BY <1>1, <1>3 DEF SeenFails, MarkLoads
  <2>2. /\ op' \in [Ops -> ListOp] /\ OthersKeep(i) /\ LoadIsNew(i) /\ OpIs(op'[i])
        /\ op'[i].kind = "pull" /\ op'[i].of = op[i].of /\ op'[i].pc = "cached"
    BY <2>1, MarkLoadsIs
  <2>3. /\ list' \in CardList /\ list'.cached = list.cached /\ list'.remote = list.remote
        /\ list'.pulling = list.pulling
    BY <2>1, OpFacts DEF Loading, CardList
  <2>4. ListTypeOK' /\ CardsAreUnique'
    BY <1>1, <1>f, <2>2, <2>3, OpFacts DEF ListTypeOK, CardsAreUnique
  <2>5. SpinSame(i) /\ (SeenSame(i) \/ SeenGone(i))
    BY <1>1, <1>3, <1>f, <2>2, <2>3 DEF SpinSame, SeenSame, SeenGone, Pull
  <2>6. GoneSame(i)
    BY <1>1, <1>3, <1>f, <2>2 DEF GoneSame, Taken, PullWrites, Meets
  <2> QED BY <1>1, <1>f, <2>2, <2>4, <2>5, <2>6, ListStep
<1>4. CASE op[i].kind # "pull"
  <2>1. OpEnds(i) /\ list' = [list EXCEPT !.error = TRUE]
    BY <1>4 DEF SeenFails
  <2>2. op' \in [Ops -> ListOp] /\ op'[i] = Done /\ OthersKeep(i) /\ \A j \in Ops \ {i} : op'[j] = op[j]
    BY <2>1, OpEnded
  <2>3. /\ list' \in CardList /\ list'.cached = list.cached /\ list'.remote = list.remote
        /\ list'.pulling = list.pulling
    BY <2>1, OpFacts DEF CardList
  <2>4. ListTypeOK' /\ CardsAreUnique' /\ OpIs(op'[i])
    BY <1>1, <1>f, <2>2, <2>3, OpFacts, NoneIs DEF ListTypeOK, CardsAreUnique
  <2>5. SpinSame(i) /\ (SeenSame(i) \/ SeenGone(i))
    BY <1>1, <1>4, <1>f, <2>2, <2>3, NoneIs DEF SpinSame, SeenSame, SeenGone, Pull
  <2>6. LoadSame(i)
    BY <1>1, <1>2, <1>4, <1>f, <2>2, <2>3, NoneIs DEF LoadSame, Will, LatestRead
  <2>7. GoneSame(i)
    BY <1>1, <1>f, <2>2, NoneIs DEF GoneSame, Taken, PullWrites, Meets
  <2> QED BY <1>1, <1>f, <2>2, <2>4, <2>5, <2>6, <2>7, ListStep
<1> QED BY <1>3, <1>4

LEMMA ElsewhereKeeps ==
  ASSUME ListInv, NEW s \in Sandboxes, GrantEnds(s) \/ RevokedHeard(s)
  PROVE  ListInv'
<1>1. op' = op /\ cache' = cache /\ seenFile' = seenFile /\ granted' \subseteq granted
  BY DEF GrantEnds, RevokedHeard
<1>2. /\ list' \in CardList /\ list'.cached \subseteq list.cached /\ list'.remote \subseteq list.remote
      /\ list'.pulling = list.pulling
      /\ told' \in ListTold /\ told'.deleted = told.deleted /\ told'.seen = told.seen
      /\ told'.lostMark = told.lostMark /\ told'.pulledAcross = told.pulledAcross
      /\ told'.newest => told.newest /\ list'.cached = list.cached
  <2>1. list \in CardList /\ told \in ListTold
    BY DEF ListInv, ListTypeOK
  <2>2. CASE GrantEnds(s)
    BY <2>1, <2>2 DEF GrantEnds
  <2>3. CASE RevokedHeard(s)
    BY <2>1, <2>3 DEF RevokedHeard, CardList, ListTold
  <2> QED BY <2>2, <2>3
<1>3. ListTypeOK' /\ CardsAreUnique' /\ \A i \in Ops : OpIs(op'[i])
  BY <1>1, <1>2 DEF ListInv, ListTypeOK, CardsAreUnique
<1>4. SpinOK' /\ SeenOK'
  BY <1>1, <1>2 DEF ListInv, SpinOK, SeenOK
<1>5. GoneOK'
  BY <1>1, <1>2 DEF ListInv, GoneOK
<1>6. LoadsOK'
  BY <1>1, <1>2 DEF ListInv, LoadsOK, WillLoad
<1> QED BY <1>3, <1>4, <1>5, <1>6 DEF ListInv

LEMMA ListKeeps ==
  ASSUME ListInv, ListNext
  PROVE  ListInv'
<1>1. CASE \E s \in Sandboxes : GrantEnds(s) \/ RevokedHeard(s)
  BY <1>1, ElsewhereKeeps
<1>2. ASSUME NEW i \in Ops,
             \/ Loads(i) \/ LoadShown(i) \/ MarksAll(i)
             \/ \E ok \in BOOLEAN : \/ CacheListed(i, ok) \/ CloudListed(i, ok)
                                    \/ PullAnswered(i, ok) \/ RemoveServed(i, ok)
             \/ \E readable \in BOOLEAN : SeenRead(i, readable)
             \/ PullWritten(i) \/ PulledIsSeen(i) \/ SeenWritten(i) \/ SeenFails(i)
             \/ CacheRemoved(i) \/ RemoveAnswered(i)
             \/ \E s \in Sandboxes : Pulls(i, s) \/ Removes(i, s)
      PROVE  ListInv'
  <2>1. CASE \E s \in Sandboxes : Pulls(i, s) \/ Removes(i, s)
    BY <2>1, PullsKeep, RemovesKeep
  <2>2. CASE \E ok \in BOOLEAN : \/ CacheListed(i, ok) \/ CloudListed(i, ok)
                                 \/ PullAnswered(i, ok) \/ RemoveServed(i, ok)
    BY <2>2, CacheListedKeeps, CloudListedKeeps, PullAnsweredKeeps, RemoveServedKeeps
  <2>3. CASE Loads(i) \/ LoadShown(i) \/ MarksAll(i)
    BY <2>3, LoadsKeepsList, LoadShownKeeps, MarksAllKeeps
  <2>4. CASE (\E readable \in BOOLEAN : SeenRead(i, readable)) \/ SeenWritten(i) \/ SeenFails(i)
    BY <2>4, SeenReadKeeps, SeenWrittenKeeps, SeenFailsKeeps
  <2>5. CASE PullWritten(i) \/ PulledIsSeen(i) \/ CacheRemoved(i) \/ RemoveAnswered(i)
    BY <2>5, PullWrittenKeeps, PulledIsSeenKeeps, CacheRemovedKeeps, RemoveAnsweredKeeps
  <2> QED BY <1>2, <2>1, <2>2, <2>3, <2>4, <2>5
<1> QED BY <1>1, <1>2 DEF ListNext

LEMMA ListStays ==
  ASSUME ListInv, UNCHANGED listVars
  PROVE  ListInv'
<1>1. granted' = granted /\ cache' = cache /\ seenFile' = seenFile /\ list' = list /\ op' = op /\ told' = told
  BY DEF listVars
<1> QED
  BY <1>1 DEF ListInv, ListTypeOK, CardsAreUnique, SpinOK, LoadsOK, WillLoad, GoneOK, SeenOK

LEMMA ListStart == ListInit => ListInv
<1> SUFFICES ASSUME ListInit
             PROVE  ListInv
  OBVIOUS
<1>1. /\ granted = Sandboxes /\ cache \in SUBSET Sandboxes /\ seenFile = {}
      /\ op = [i \in Ops |-> NoOp] /\ \A i \in Ops : op[i] = NoOp
  BY DEF ListInit
<1>2. /\ list \in CardList /\ list.cached = {} /\ list.remote = {} /\ list.pulling = {}
      /\ told \in ListTold /\ told.deleted = {} /\ told.seen = {} /\ ~told.newest /\ ~told.lostMark
  BY DEF ListInit, CardList, ListTold
<1>3. ListTypeOK /\ CardsAreUnique /\ \A i \in Ops : OpIs(op[i])
  BY <1>1, <1>2, NoneIs DEF ListTypeOK, CardsAreUnique
<1>4. SpinOK /\ SeenOK /\ GoneOK /\ LoadsOK
  BY <1>1, <1>2, NoneIs DEF SpinOK, SeenOK, GoneOK, LoadsOK
<1> QED BY <1>3, <1>4 DEF ListInv

LEMMA ListHolds ==
  ASSUME ListInv
  PROVE  ListTellsTheTruth
<1>1. \A i \in Ops : i \in Pending <=> op[i].kind # "none"
  <2> SUFFICES ASSUME NEW i \in Ops
               PROVE  op[i] \notin {NoOp, Done} <=> op[i].kind # "none"
    BY DEF Pending
  <2> QED BY OpFacts, NoneIs DEF OpIs
<1>2. SpinnersPull
  <2>1. \A s : s \in list.pulling <=> \E i \in Pending : op[i].kind = "pull" /\ op[i].of = s
    BY <1>1 DEF ListInv, SpinOK, Pending
  <2> QED BY <2>1 DEF SpinnersPull
<1>3. CachedIsOnDisk
  <2> SUFFICES ASSUME Pending = {}, told.newest
               PROVE  list.cached = cache
    BY DEF CachedIsOnDisk
  <2>1. \A i \in Ops : op[i].kind = "none" /\ ~op[i].latest
    BY <1>1, OpFacts, NoneIs DEF OpIs
  <2> QED BY <2>1 DEF ListInv, LoadsOK, WillLoad
<1>4. CardsAreUnique /\ RemovedIsGone /\ SeenStaysSeen
  BY DEF ListInv, GoneOK, SeenOK, RemovedIsGone, SeenStaysSeen
<1> QED BY <1>2, <1>3, <1>4 DEF ListTellsTheTruth

-----------------------------------------------------------------------------
(***************************************************************************)
(* The schema tree and the previews over it.                               *)
(***************************************************************************)

KindStates == {"idle", "loading", "ok", "err"}
KindValues == SUBSET (Kinds \cup Configs)
TreeKind == [st : KindStates, value : KindValues, n : Nat, asked : Nat]
TreeNode == [expanded : BOOLEAN, kinds : [Kinds -> TreeKind], reopened : BOOLEAN]
TreeState == [gen : Nat, node : [Schemas -> TreeNode], search : Filters \cup {Nil}, lost : BOOLEAN,
              fatal : BOOLEAN, asks : Nat, listed : Nat]
TreeLoad == [n : Nat, gen : Nat, s : Schemas, k : Kinds, read : KindValues \cup {Nil}]
TreeList == [n : Nat, kind : {"refresh", "boot"}, open : SUBSET Schemas]
Builder == [open : BOOLEAN, sql : Configs \cup {Nil}, config : Configs \cup {Nil}, modal : Nat]
EndpointApply == [config : Configs, modal : Nat, pc : {"sent", "made", "failed", "reload"}, n : Nat]

(* The number a kind shows is not newer than the last one asked for, nor   *)
(* is any load that was begun.                                             *)
KindsCount(t) ==
  \A s \in Schemas, k \in Kinds :
    LET c == t.node[s].kinds[k] IN c.n <= c.asked /\ c.asked <= t.asks
LoadsCount(t, ls) ==
  \A l \in ls : l.n <= t.asks /\ l.gen <= t.gen /\ (l.gen = t.gen => l.n <= t.node[l.s].kinds[l.k].asked)
SpinnersOf(t, ls) ==
  \A s \in Schemas, k \in Kinds :
    t.node[s].kinds[k].st = "loading" => \E l \in ls : l.gen = t.gen /\ l.s = s /\ l.k = k
OpenedIsLoaded(t, but) ==
  \A s \in Schemas, k \in Kinds :
    t.node[s].expanded /\ t.node[s].kinds[k].st = "idle" => t.node[s].reopened \/ <<s, k>> \in but

(* The last load of the modules has not read them yet, or has read what    *)
(* was applied; and so has what is shown of it.                            *)
ListedOf(t, ls, ap) ==
  LET c == t.node[Own].kinds["REST_MODULE"] IN
  /\ \A l \in ls : l.gen = t.gen /\ l.s = Own /\ l.k = "REST_MODULE" /\ l.n = c.asked =>
       l.read = Nil \/ ap \subseteq l.read
  /\ c.st = "ok" /\ c.n = c.asked => ap \subseteq c.value

TreeIs(t, ls, ap, but) ==
  /\ t \in TreeState /\ ls \in SUBSET TreeLoad
  /\ KindsCount(t) /\ LoadsCount(t, ls) /\ SpinnersOf(t, ls) /\ OpenedIsLoaded(t, but) /\ ListedOf(t, ls, ap)

ApiIs ==
  /\ deployed \in SUBSET Configs /\ applied \subseteq deployed
  /\ lists \in SUBSET TreeList /\ builder \in Builder
  /\ applies \in SUBSET EndpointApply /\ \A a \in applies : a.pc = "made" => a.config \in deployed
  /\ PreviewIsOfConfig

TreeInv == TreeIs(tree, loads, applied, {}) /\ ApiIs /\ previews \in SUBSET [n : Nat, config : Configs] /\ asked \in Nat

LEMMA AskingIs ==
  ASSUME NEW c \in TreeKind, NEW n \in Nat
  PROVE  /\ Asking(c, n) \in TreeKind
         /\ Asking(c, n).st = "loading" /\ Asking(c, n).asked = n /\ Asking(c, n).n = c.n
         /\ Asking(c, n).value = c.value
  BY DEF Asking, TreeKind, KindStates

LEMMA KindIs ==
  ASSUME NEW t \in TreeState, NEW s \in Schemas, NEW k \in Kinds
  PROVE  /\ t.node[s] \in TreeNode /\ t.node[s].kinds[k] \in TreeKind
         /\ t.node[s].expanded \in BOOLEAN /\ t.node[s].reopened \in BOOLEAN
         /\ t.node[s].kinds[k].n \in Nat /\ t.node[s].kinds[k].asked \in Nat
         /\ t.node[s].kinds[k].st \in KindStates /\ t.node[s].kinds[k].value \in KindValues
         /\ t.gen \in Nat /\ t.asks \in Nat /\ t.listed \in Nat
  BY DEF TreeState, TreeNode, TreeKind

(* What asking for some kinds leaves of the tree.                          *)
LEMMA LoadKindIs ==
  ASSUME NEW t \in TreeState, NEW pairs \in SUBSET (Schemas \X Kinds), NEW u, u = loadKind(t, pairs)
  PROVE  /\ u \in TreeState /\ u.asks = t.asks + 1 /\ u.gen = t.gen
         /\ u.search = t.search /\ u.lost = t.lost /\ u.fatal = t.fatal /\ u.listed = t.listed
         /\ \A s \in Schemas : /\ u.node[s].expanded = t.node[s].expanded
                               /\ u.node[s].reopened = t.node[s].reopened
         /\ \A s \in Schemas, k \in Kinds :
              u.node[s].kinds[k] = IF <<s, k>> \in pairs THEN Asking(t.node[s].kinds[k], t.asks + 1)
                                   ELSE t.node[s].kinds[k]
<1> DEFINE ks(s) == [k \in Kinds |-> IF <<s, k>> \in pairs THEN Asking(t.node[s].kinds[k], t.asks + 1)
                                     ELSE t.node[s].kinds[k]]
           nd == [s \in Schemas |-> [t.node[s] EXCEPT !.kinds = ks(s)]]
<1>1. u = [t EXCEPT !.asks = @ + 1, !.node = nd]
  BY DEF loadKind
<1>2. t.asks + 1 \in Nat
  BY DEF TreeState
<1>3. ASSUME NEW s \in Schemas
      PROVE  /\ ks(s) \in [Kinds -> TreeKind] /\ nd[s] \in TreeNode /\ nd[s].kinds = ks(s)
             /\ nd[s].expanded = t.node[s].expanded /\ nd[s].reopened = t.node[s].reopened
  <2>1. ks(s) \in [Kinds -> TreeKind]
    BY <1>2, KindIs, AskingIs
  <2>2. t.node[s] \in TreeNode /\ nd[s] = [t.node[s] EXCEPT !.kinds = ks(s)]
    BY DEF TreeState
  <2> HIDE DEF ks, nd
  <2> QED BY <2>1, <2>2 DEF TreeNode
<1>4. nd \in [Schemas -> TreeNode]
  BY <1>3
<1>5. \A s \in Schemas, k \in Kinds :
        ks(s)[k] = IF <<s, k>> \in pairs THEN Asking(t.node[s].kinds[k], t.asks + 1) ELSE t.node[s].kinds[k]
  OBVIOUS
<1> HIDE DEF ks, nd
<1>6. /\ u \in TreeState /\ u.asks = t.asks + 1 /\ u.gen = t.gen /\ u.node = nd
      /\ u.search = t.search /\ u.lost = t.lost /\ u.fatal = t.fatal /\ u.listed = t.listed
  BY <1>1, <1>2, <1>4 DEF TreeState
<1> QED BY <1>3, <1>5, <1>6

Modules1 == <<Own, "REST_MODULE">>

LEMMA LoadsOfAre ==
  ASSUME NEW t \in TreeState, NEW pairs \in SUBSET (Schemas \X Kinds)
  PROVE  /\ LoadsOf(t, pairs) \in SUBSET TreeLoad
         /\ \A l \in LoadsOf(t, pairs) :
              /\ l.n = t.asks + 1 /\ l.gen = t.gen /\ <<l.s, l.k>> \in pairs
              /\ <<l.s, l.k>> = Modules1 => l.read = Nil
         /\ \A s \in Schemas, k \in Kinds :
              <<s, k>> \in pairs => \E l \in LoadsOf(t, pairs) : l.gen = t.gen /\ l.s = s /\ l.k = k
<1>1. t.asks + 1 \in Nat /\ t.gen \in Nat
  BY DEF TreeState
<1>2. ASSUME NEW p \in pairs, NEW r, r = (IF p = <<Own, "REST_MODULE">> THEN Nil ELSE {p[2]}),
             NEW l, l = [n |-> t.asks + 1, gen |-> t.gen, s |-> p[1], k |-> p[2], read |-> r]
      PROVE  /\ l \in TreeLoad /\ l.n = t.asks + 1 /\ l.gen = t.gen /\ l.s = p[1] /\ l.k = p[2]
             /\ <<l.s, l.k>> = p /\ (p = Modules1 => l.read = Nil)
  <2>1. PICK s \in Schemas, k \in Kinds : p = <<s, k>>
    OBVIOUS
  <2>2. r \in KindValues \cup {Nil} /\ (p = Modules1 => r = Nil)
    BY <1>2, <2>1 DEF KindValues, Modules1
  <2> QED BY <1>1, <1>2, <2>1, <2>2 DEF TreeLoad
<1>3. ASSUME NEW l \in LoadsOf(t, pairs)
      PROVE  /\ l \in TreeLoad /\ l.n = t.asks + 1 /\ l.gen = t.gen /\ <<l.s, l.k>> \in pairs
             /\ <<l.s, l.k>> = Modules1 => l.read = Nil
  <2>1. PICK p \in pairs : l = [n |-> t.asks + 1, gen |-> t.gen, s |-> p[1], k |-> p[2],
                                read |-> IF p = <<Own, "REST_MODULE">> THEN Nil ELSE {p[2]}]
    BY DEF LoadsOf
  <2>2. PICK r : r = IF p = <<Own, "REST_MODULE">> THEN Nil ELSE {p[2]}
    OBVIOUS
  <2>3. l = [n |-> t.asks + 1, gen |-> t.gen, s |-> p[1], k |-> p[2], read |-> r]
    BY <2>1, <2>2
  <2> QED BY <1>2, <2>2, <2>3
<1>4. ASSUME NEW s \in Schemas, NEW k \in Kinds, <<s, k>> \in pairs
      PROVE  \E l \in LoadsOf(t, pairs) : l.gen = t.gen /\ l.s = s /\ l.k = k
  <2>1. PICK p \in pairs : p = <<s, k>>
    BY <1>4
  <2>2. PICK r : r = IF p = <<Own, "REST_MODULE">> THEN Nil ELSE {p[2]}
    OBVIOUS
  <2>3. PICK l : l = [n |-> t.asks + 1, gen |-> t.gen, s |-> p[1], k |-> p[2], read |-> r]
    OBVIOUS
  <2>4. l \in LoadsOf(t, pairs)
    BY <2>2, <2>3 DEF LoadsOf
  <2>5. l.gen = t.gen /\ l.s = s /\ l.k = k
    BY <2>1, <2>3
  <2> QED BY <2>4, <2>5
<1> QED BY <1>3, <1>4

LEMMA LoadKindKeeps ==
  ASSUME NEW t \in TreeState, NEW ls \in SUBSET TreeLoad, NEW ap, NEW pairs \in SUBSET (Schemas \X Kinds),
         KindsCount(t), LoadsCount(t, ls), SpinnersOf(t, ls), OpenedIsLoaded(t, pairs),
         ListedOf(t, ls, ap) \/ Modules1 \in pairs
  PROVE  TreeIs(loadKind(t, pairs), ls \cup LoadsOf(t, pairs), ap, {})
<1>1. PICK u : u = loadKind(t, pairs)
  OBVIOUS
<1>2. PICK ms : ms = LoadsOf(t, pairs)
  OBVIOUS
<1>3. /\ u \in TreeState /\ u.asks = t.asks + 1 /\ u.gen = t.gen
      /\ \A s \in Schemas : u.node[s].expanded = t.node[s].expanded /\ u.node[s].reopened = t.node[s].reopened
      /\ \A s \in Schemas, k \in Kinds :
           u.node[s].kinds[k] = IF <<s, k>> \in pairs THEN Asking(t.node[s].kinds[k], t.asks + 1)
                                ELSE t.node[s].kinds[k]
  BY <1>1, LoadKindIs
<1>4. ASSUME NEW s \in Schemas, NEW k \in Kinds
      PROVE  /\ <<s, k>> \in pairs =>
                  /\ u.node[s].kinds[k].st = "loading" /\ u.node[s].kinds[k].asked = t.asks + 1
                  /\ u.node[s].kinds[k].n = t.node[s].kinds[k].n
             /\ <<s, k>> \notin pairs => u.node[s].kinds[k] = t.node[s].kinds[k]
             /\ t.node[s].kinds[k].n \in Nat /\ t.node[s].kinds[k].asked \in Nat
  <2>1. t.node[s].kinds[k] \in TreeKind
    BY KindIs
  <2>2. PICK n \in Nat : n = t.asks + 1
    BY KindIs
  <2>3. PICK c \in TreeKind : c = t.node[s].kinds[k]
    BY <2>1
  <2>4. Asking(c, n).st = "loading" /\ Asking(c, n).asked = n /\ Asking(c, n).n = c.n
    BY AskingIs
  <2>5. u.node[s].kinds[k] = IF <<s, k>> \in pairs THEN Asking(c, n) ELSE c
    BY <1>3, <2>2, <2>3
  <2>6. c.n \in Nat /\ c.asked \in Nat
    BY DEF TreeKind
  <2> QED BY <2>2, <2>3, <2>4, <2>5, <2>6
<1>5. /\ ms \in SUBSET TreeLoad
      /\ \A l \in ms : /\ l.n = t.asks + 1 /\ l.gen = t.gen /\ <<l.s, l.k>> \in pairs
                       /\ <<l.s, l.k>> = Modules1 => l.read = Nil
      /\ \A s \in Schemas, k \in Kinds :
           <<s, k>> \in pairs => \E l \in ms : l.gen = t.gen /\ l.s = s /\ l.k = k
  BY <1>2, LoadsOfAre
<1>6. t.asks \in Nat /\ t.gen \in Nat
  BY DEF TreeState
<1>7. \A l \in ls \cup ms : l.s \in Schemas /\ l.k \in Kinds /\ l.n \in Nat /\ l.gen \in Nat
  BY <1>5 DEF TreeLoad
<1>8. KindsCount(u)
  <2> SUFFICES ASSUME NEW s \in Schemas, NEW k \in Kinds
               PROVE  u.node[s].kinds[k].n <= u.node[s].kinds[k].asked /\ u.node[s].kinds[k].asked <= u.asks
    BY DEF KindsCount
  <2>1. t.node[s].kinds[k].n <= t.node[s].kinds[k].asked /\ t.node[s].kinds[k].asked <= t.asks
    BY DEF KindsCount
  <2>2. CASE <<s, k>> \in pairs
    BY <1>3, <1>4, <1>6, <2>1, <2>2
  <2>3. CASE <<s, k>> \notin pairs
    BY <1>3, <1>4, <1>6, <2>1, <2>3
  <2> QED BY <2>2, <2>3
<1>9. LoadsCount(u, ls \cup ms)
  <2> SUFFICES ASSUME NEW l \in ls \cup ms
               PROVE  l.n <= u.asks /\ l.gen <= u.gen /\ (l.gen = u.gen => l.n <= u.node[l.s].kinds[l.k].asked)
    BY DEF LoadsCount
  <2>1. l.s \in Schemas /\ l.k \in Kinds /\ l.n \in Nat
    BY <1>7
  <2>2. CASE l \in ls
    <3>1. l.n <= t.asks /\ l.gen <= t.gen /\ (l.gen = t.gen => l.n <= t.node[l.s].kinds[l.k].asked)
      BY <2>2 DEF LoadsCount
    <3>2. CASE <<l.s, l.k>> \in pairs
      BY <1>3, <1>4, <1>6, <2>1, <3>1, <3>2
    <3>3. CASE <<l.s, l.k>> \notin pairs
      BY <1>3, <1>4, <1>6, <2>1, <3>1, <3>3
    <3> QED BY <3>2, <3>3
  <2>3. CASE l \in ms
    <3>1. l.n = t.asks + 1 /\ l.gen = t.gen /\ <<l.s, l.k>> \in pairs
      BY <1>5, <2>3
    <3>2. u.node[l.s].kinds[l.k].asked = t.asks + 1
      BY <1>4, <2>1, <3>1
    <3> QED BY <1>3, <1>6, <3>1, <3>2
  <2> QED BY <2>2, <2>3
<1>10. SpinnersOf(u, ls \cup ms)
  <2> SUFFICES ASSUME NEW s \in Schemas, NEW k \in Kinds, u.node[s].kinds[k].st = "loading"
               PROVE  \E l \in ls \cup ms : l.gen = u.gen /\ l.s = s /\ l.k = k
    BY DEF SpinnersOf
  <2>1. CASE <<s, k>> \in pairs
    BY <1>3, <1>5, <2>1
  <2>2. CASE <<s, k>> \notin pairs
    BY <1>3, <1>4, <2>2 DEF SpinnersOf
  <2> QED BY <2>1, <2>2
<1>11. OpenedIsLoaded(u, {})
  <2> SUFFICES ASSUME NEW s \in Schemas, NEW k \in Kinds, u.node[s].expanded, u.node[s].kinds[k].st = "idle"
               PROVE  u.node[s].reopened
    BY DEF OpenedIsLoaded
  <2>1. <<s, k>> \notin pairs
    BY <1>4
  <2> QED BY <1>3, <1>4, <2>1 DEF OpenedIsLoaded
<1>12. ListedOf(u, ls \cup ms, ap)
  <2>1. Own \in Schemas /\ "REST_MODULE" \in Kinds
    BY TreeAssumption
  <2>2. CASE Modules1 \in pairs
    <3>1. u.node[Own].kinds["REST_MODULE"].st = "loading" /\ u.node[Own].kinds["REST_MODULE"].asked = t.asks + 1
      BY <1>4, <2>1, <2>2 DEF Modules1
    <3>2. \A l \in ls : l.n # t.asks + 1
      BY <1>6, <1>7 DEF LoadsCount
    <3> QED BY <1>5, <3>1, <3>2 DEF ListedOf, Modules1
  <2>3. CASE Modules1 \notin pairs
    <3>1. u.node[Own].kinds["REST_MODULE"] = t.node[Own].kinds["REST_MODULE"]
      BY <1>4, <2>1, <2>3 DEF Modules1
    <3>2. \A l \in ms : ~(l.s = Own /\ l.k = "REST_MODULE")
      BY <1>5, <2>3 DEF Modules1
    <3> QED BY <1>3, <2>3, <3>1, <3>2 DEF ListedOf
  <2> QED BY <2>2, <2>3
<1> QED BY <1>1, <1>2, <1>3, <1>5, <1>8, <1>9, <1>10, <1>11, <1>12 DEF TreeIs

LEMMA BeginLoadingKeeps ==
  ASSUME NEW t, NEW pairs \in SUBSET (Schemas \X Kinds), TreeIs(t, loads, applied, pairs),
         BeginLoading(t, pairs)
  PROVE  TreeIs(tree', loads', applied, {})
<1>1. CASE pairs = {}
  BY <1>1 DEF BeginLoading
<1>2. CASE pairs # {}
  <2>1. tree' = loadKind(t, pairs) /\ loads' = loads \cup LoadsOf(t, pairs)
    BY <1>2 DEF BeginLoading
  <2> QED BY <2>1, LoadKindKeeps DEF TreeIs
<1> QED BY <1>1, <1>2

-----------------------------------------------------------------------------
(* The actions of the tree.                                                *)
LEMMA ApiStays ==
  ASSUME ApiIs, UNCHANGED <<deployed, builder, applies, applied>>, lists' \in SUBSET TreeList
  PROVE  ApiIs'
  BY DEF ApiIs, PreviewIsOfConfig

LEMMA TreeSame ==
  ASSUME NEW t, NEW u \in TreeState, NEW ls, NEW ap, NEW but, NEW fewer,
         TreeIs(t, ls, ap, but),
         u.gen = t.gen, u.asks = t.asks, u.node = t.node, but \subseteq fewer
  PROVE  TreeIs(u, ls, ap, fewer)
  BY DEF TreeIs, KindsCount, LoadsCount, SpinnersOf, OpenedIsLoaded, ListedOf

LEMMA SearchedKeeps ==
  ASSUME TreeInv, NEW q \in {Nil} \cup Filters, Searched(q)
  PROVE  TreeInv'
<1>1. tree' = [tree EXCEPT !.search = q] /\ UNCHANGED <<deployed, loads, lists, ApiVars>>
  BY DEF Searched
<1>2. tree \in TreeState
  BY DEF TreeInv, TreeIs
<1>3. tree' \in TreeState /\ tree'.gen = tree.gen /\ tree'.asks = tree.asks /\ tree'.node = tree.node
  BY <1>1, <1>2 DEF TreeState
<1>a. TreeIs(tree, loads, applied, {})
  BY DEF TreeInv
<1>b. TreeIs(tree', loads, applied, {})
  BY <1>3, <1>a, TreeSame
<1>4. TreeIs(tree', loads', applied', {})
  BY <1>1, <1>b DEF ApiVars
<1>5. ApiIs'
  BY <1>1, ApiStays DEF TreeInv, ApiIs, ApiVars
<1> QED BY <1>1, <1>4, <1>5 DEF TreeInv, ApiVars

(* Loading from here on, in a tree that may lack these kinds.              *)
LEMMA LoadingKeeps ==
  ASSUME TreeInv, NEW t, NEW pairs \in SUBSET (Schemas \X Kinds), TreeIs(t, loads, applied, pairs),
         BeginLoading(t, pairs), UNCHANGED <<deployed, ApiVars>>, lists' \in SUBSET TreeList
  PROVE  TreeInv'
<1>1. TreeIs(tree', loads', applied, {})
  BY BeginLoadingKeeps
<1>2. ApiIs'
  BY ApiStays DEF TreeInv, ApiVars
<1> QED BY <1>1, <1>2 DEF TreeInv, ApiVars

LEMMA KindLoadsKeeps ==
  ASSUME TreeInv, NEW s \in Schemas, NEW k \in Kinds, onKindExpand(s, k) \/ onRetryKind(s, k)
  PROVE  TreeInv'
<1>0. <<s, k>> \in Schemas \X Kinds
  OBVIOUS
<1>1. PICK pairs \in SUBSET (Schemas \X Kinds) : pairs = {<<s, k>>}
  BY <1>0
<1>2. BeginLoading(tree, pairs) /\ UNCHANGED <<deployed, lists, ApiVars>>
  BY <1>1 DEF onKindExpand, onRetryKind
<1>3. TreeIs(tree, loads, applied, pairs)
  BY TreeSame DEF TreeInv, TreeIs
<1>4. lists' \in SUBSET TreeList
  BY <1>2 DEF TreeInv, ApiIs
<1> QED BY <1>2, <1>3, <1>4, LoadingKeeps

LEMMA IdleKindsAre ==
  ASSUME NEW t, NEW names \in SUBSET Schemas
  PROVE  /\ IdleKinds(t, names) \in SUBSET (Schemas \X Kinds)
         /\ \A s \in Schemas, k \in Kinds :
              <<s, k>> \in IdleKinds(t, names) <=> s \in names /\ t.node[s].kinds[k].st = "idle"
<1>1. IdleKinds(t, names) \in SUBSET (Schemas \X Kinds)
  BY DEF IdleKinds
<1>2. ASSUME NEW s \in Schemas, NEW k \in Kinds
      PROVE  <<s, k>> \in IdleKinds(t, names) <=> s \in names /\ t.node[s].kinds[k].st = "idle"
  <2>1. PICK p : p = <<s, k>>
    OBVIOUS
  <2>2. p[1] = s /\ p[2] = k /\ (p \in names \X Kinds <=> s \in names)
    BY <2>1
  <2>3. p \in IdleKinds(t, names) <=> p \in names \X Kinds /\ t.node[p[1]].kinds[p[2]].st = "idle"
    BY DEF IdleKinds
  <2> QED BY <2>1, <2>2, <2>3
<1> QED BY <1>1, <1>2

LEMMA ToggledKeeps ==
  ASSUME TreeInv, NEW s \in Schemas, onToggle(s)
  PROVE  TreeInv'
<1>1. PICK open \in BOOLEAN : open = ~tree.node[s].expanded
  OBVIOUS
<1>2. PICK re \in BOOLEAN : re = (tree.node[s].reopened /\ ~open)
  OBVIOUS
<1>3. PICK n : n = [tree.node[s] EXCEPT !.expanded = open, !.reopened = re]
  OBVIOUS
<1>4. PICK t : t = Toggled(s)
  OBVIOUS
<1>5. PICK pairs : pairs = IF t.node[s].expanded THEN IdleKinds(t, {s}) ELSE {}
  OBVIOUS
<1>6. BeginLoading(t, pairs) /\ UNCHANGED <<deployed, lists, ApiVars>>
  BY <1>4, <1>5 DEF onToggle
<1>7. tree \in TreeState /\ tree.node[s] \in TreeNode /\ tree.node \in [Schemas -> TreeNode]
  BY DEF TreeInv, TreeIs, TreeState
<1>8. n \in TreeNode /\ n.expanded = open /\ n.reopened = re /\ n.kinds = tree.node[s].kinds
  BY <1>3, <1>7 DEF TreeNode
<1>9. t = [tree EXCEPT !.node = [tree.node EXCEPT ![s] = n]]
  <2>1. t = [tree EXCEPT !.node[s].expanded = open, !.node[s].reopened = re]
    BY <1>1, <1>2, <1>4 DEF Toggled
  <2> QED BY <1>3, <1>7, <2>1 DEF TreeState
<1>10. PICK nd \in [Schemas -> TreeNode] : nd = [tree.node EXCEPT ![s] = n]
  BY <1>7, <1>8
<1>11. t \in TreeState /\ t.gen = tree.gen /\ t.asks = tree.asks /\ t.node = nd
  BY <1>7, <1>9, <1>10 DEF TreeState
<1>12. t.node[s] = n /\ \A x \in Schemas \ {s} : t.node[x] = tree.node[x]
  BY <1>7, <1>10, <1>11
<1>13. \A x \in Schemas : t.node[x].kinds = tree.node[x].kinds
  BY <1>8, <1>12
<1>14. /\ pairs \in SUBSET (Schemas \X Kinds)
       /\ t.node[s].expanded => \A k \in Kinds : t.node[s].kinds[k].st = "idle" => <<s, k>> \in pairs
  BY <1>5, IdleKindsAre
<1>15. KindsCount(tree) /\ LoadsCount(tree, loads) /\ SpinnersOf(tree, loads) /\ OpenedIsLoaded(tree, {})
       /\ ListedOf(tree, loads, applied) /\ loads \in SUBSET TreeLoad
  BY DEF TreeInv, TreeIs
<1>16. KindsCount(t)
  BY <1>11, <1>13, <1>15 DEF KindsCount
<1>17. LoadsCount(t, loads)
  BY <1>11, <1>13, <1>15 DEF LoadsCount, TreeLoad
<1>18. SpinnersOf(t, loads)
  BY <1>11, <1>13, <1>15 DEF SpinnersOf
<1>19. ListedOf(t, loads, applied)
  BY <1>11, <1>13, <1>15, TreeAssumption DEF ListedOf
<1>20. OpenedIsLoaded(t, pairs)
  <2> SUFFICES ASSUME NEW x \in Schemas, NEW k \in Kinds, t.node[x].expanded, t.node[x].kinds[k].st = "idle"
               PROVE  t.node[x].reopened \/ <<x, k>> \in pairs
    BY DEF OpenedIsLoaded
  <2>1. CASE x = s
    BY <1>8, <1>12, <1>14, <2>1
  <2>2. CASE x # s
    BY <1>12, <1>15, <2>2 DEF OpenedIsLoaded
  <2> QED BY <2>1, <2>2
<1>21. TreeIs(t, loads, applied, pairs)
  BY <1>11, <1>15, <1>16, <1>17, <1>18, <1>19, <1>20 DEF TreeIs
<1>22. lists' \in SUBSET TreeList
  BY <1>6 DEF TreeInv, ApiIs
<1> QED BY <1>6, <1>14, <1>21, <1>22, LoadingKeeps

LEMMA LoadReadKeeps ==
  ASSUME TreeInv, NEW l \in loads, LoadRead(l)
  PROVE  TreeInv'
<1>1. PICK m : m = [l EXCEPT !.read = deployed]
  OBVIOUS
<1>2. loads' = (loads \ {l}) \cup {m} /\ UNCHANGED <<deployed, tree, lists, ApiVars>>
  BY <1>1 DEF LoadRead
<1>3. l \in TreeLoad /\ deployed \in KindValues /\ applied \subseteq deployed
  BY DEF TreeInv, TreeIs, ApiIs, KindValues
<1>4. m \in TreeLoad /\ m.n = l.n /\ m.gen = l.gen /\ m.s = l.s /\ m.k = l.k /\ m.read = deployed
  BY <1>1, <1>3 DEF TreeLoad
<1>5. /\ tree \in TreeState /\ loads \in SUBSET TreeLoad /\ KindsCount(tree) /\ LoadsCount(tree, loads)
      /\ SpinnersOf(tree, loads) /\ OpenedIsLoaded(tree, {}) /\ ListedOf(tree, loads, applied)
  BY DEF TreeInv, TreeIs
<1>6. LoadsCount(tree, loads')
  BY <1>2, <1>4, <1>5 DEF LoadsCount
<1>7. SpinnersOf(tree, loads')
  BY <1>2, <1>4, <1>5 DEF SpinnersOf
<1>8. ListedOf(tree, loads', applied)
  BY <1>2, <1>3, <1>4, <1>5 DEF ListedOf
<1>9. TreeIs(tree, loads', applied, {})
  BY <1>2, <1>4, <1>5, <1>6, <1>7, <1>8 DEF TreeIs
<1>10. ApiIs'
  BY <1>2, ApiStays DEF TreeInv, ApiIs, ApiVars
<1> QED BY <1>2, <1>9, <1>10 DEF TreeInv, ApiVars

LEMMA LoadAnsweredKeeps ==
  ASSUME TreeInv, NEW l \in loads, NEW how \in {"ok", "err", "lost"}, LoadAnswered(l, how)
  PROVE  TreeInv'
<1>1. PICK st \in {"ok", "err"} : st = (IF how = "ok" THEN "ok" ELSE "err")
  OBVIOUS
<1>2. PICK b \in BOOLEAN : b = (tree.lost \/ how = "lost")
  BY DEF TreeInv, TreeIs, TreeState
<1>3. PICK nd : nd = Written(l, st)
  OBVIOUS
<1>4. /\ how = "ok" => l.read # Nil
      /\ loads' = loads \ {l} /\ UNCHANGED <<deployed, lists, ApiVars>>
  BY DEF LoadAnswered
<1>5. tree' = [tree EXCEPT !.node = nd, !.lost = b]
  BY <1>1, <1>2, <1>3 DEF LoadAnswered
<1>6. /\ tree \in TreeState /\ loads \in SUBSET TreeLoad /\ KindsCount(tree) /\ LoadsCount(tree, loads)
      /\ SpinnersOf(tree, loads) /\ OpenedIsLoaded(tree, {}) /\ ListedOf(tree, loads, applied)
  BY DEF TreeInv, TreeIs
<1>7. /\ l \in TreeLoad /\ l.s \in Schemas /\ l.k \in Kinds /\ l.n \in Nat
      /\ l.read \in KindValues \cup {Nil}
  BY <1>6 DEF TreeLoad
<1>8. tree.node \in [Schemas -> TreeNode] /\ tree.node[l.s].kinds[l.k] \in TreeKind
  BY <1>6, <1>7, KindIs DEF TreeState
<1>9. PICK v \in KindValues : v = IF st = "ok" THEN l.read ELSE {}
  BY <1>1, <1>4, <1>7 DEF KindValues
<1>10. PICK c : c = KindRead(l, st)
  OBVIOUS
<1>11. c = [tree.node[l.s].kinds[l.k] EXCEPT !.st = st, !.n = l.n, !.value = v]
  BY <1>9, <1>10 DEF KindRead
<1>12. /\ c \in TreeKind /\ c.st = st /\ c.n = l.n /\ c.value = v
       /\ c.asked = tree.node[l.s].kinds[l.k].asked
  BY <1>7, <1>8, <1>11 DEF TreeKind, KindStates
<1>13. CASE l.gen = tree.gen
  <2>1. nd = [tree.node EXCEPT ![l.s].kinds[l.k] = c]
    BY <1>3, <1>10, <1>13 DEF Written, Shows
  <2>2. PICK ks : ks = [tree.node[l.s].kinds EXCEPT ![l.k] = c]
    OBVIOUS
  <2>3. PICK n : n = [tree.node[l.s] EXCEPT !.kinds = ks]
    OBVIOUS
  <2>4. tree.node[l.s] \in TreeNode /\ tree.node[l.s].kinds \in [Kinds -> TreeKind]
    BY <1>7, <1>8 DEF TreeNode
  <2>5. ks \in [Kinds -> TreeKind] /\ ks[l.k] = c /\ \A k \in Kinds \ {l.k} : ks[k] = tree.node[l.s].kinds[k]
    BY <1>7, <1>12, <2>2, <2>4
  <2>6. /\ n \in TreeNode /\ n.kinds = ks /\ n.expanded = tree.node[l.s].expanded
        /\ n.reopened = tree.node[l.s].reopened
    BY <2>3, <2>4, <2>5 DEF TreeNode
  <2>7. nd = [tree.node EXCEPT ![l.s] = n]
    BY <1>7, <1>8, <2>1, <2>2, <2>3, <2>4
  <2>8. nd \in [Schemas -> TreeNode] /\ nd[l.s] = n /\ \A s \in Schemas \ {l.s} : nd[s] = tree.node[s]
    BY <1>7, <1>8, <2>6, <2>7
  <2>9. /\ tree' \in TreeState /\ tree'.gen = tree.gen /\ tree'.asks = tree.asks /\ tree'.node = nd
    BY <1>5, <1>6, <2>8 DEF TreeState
  <2>10. \A s \in Schemas : nd[s].expanded = tree.node[s].expanded /\ nd[s].reopened = tree.node[s].reopened
    BY <2>6, <2>8
  <2>11. ASSUME NEW s \in Schemas, NEW k \in Kinds
         PROVE  nd[s].kinds[k] = IF s = l.s /\ k = l.k THEN c ELSE tree.node[s].kinds[k]
    BY <2>5, <2>6, <2>8
  <2>12. l.n <= c.asked
    BY <1>6, <1>12, <1>13 DEF LoadsCount
  <2>13. KindsCount(tree')
    BY <1>6, <1>7, <1>12, <2>9, <2>11, <2>12 DEF KindsCount
  <2>14. LoadsCount(tree', loads')
    <3> SUFFICES ASSUME NEW m \in loads'
                 PROVE  /\ m.n <= tree'.asks /\ m.gen <= tree'.gen
                        /\ m.gen = tree'.gen => m.n <= tree'.node[m.s].kinds[m.k].asked
      BY DEF LoadsCount
    <3>1. m \in loads /\ m.s \in Schemas /\ m.k \in Kinds
      BY <1>4, <1>6 DEF TreeLoad
    <3>2. nd[m.s].kinds[m.k].asked = tree.node[m.s].kinds[m.k].asked
      BY <1>12, <2>11, <3>1
    <3> QED BY <1>6, <2>9, <3>1, <3>2 DEF LoadsCount
  <2>15. SpinnersOf(tree', loads')
    <3> SUFFICES ASSUME NEW s \in Schemas, NEW k \in Kinds, tree'.node[s].kinds[k].st = "loading"
                 PROVE  \E m \in loads' : m.gen = tree'.gen /\ m.s = s /\ m.k = k
      BY DEF SpinnersOf
    <3>1. ~(s = l.s /\ k = l.k) /\ tree.node[s].kinds[k].st = "loading"
      BY <1>12, <2>9, <2>11
    <3>2. PICK m \in loads : m.gen = tree.gen /\ m.s = s /\ m.k = k
      BY <1>6, <3>1 DEF SpinnersOf
    <3> QED BY <1>4, <2>9, <3>1, <3>2
  <2>16. OpenedIsLoaded(tree', {})
    <3> SUFFICES ASSUME NEW s \in Schemas, NEW k \in Kinds, tree'.node[s].expanded,
                        tree'.node[s].kinds[k].st = "idle"
                 PROVE  tree'.node[s].reopened
      BY DEF OpenedIsLoaded
    <3>1. tree.node[s].kinds[k].st = "idle" /\ tree.node[s].expanded
      BY <1>12, <2>9, <2>10, <2>11
    <3> QED BY <1>6, <2>9, <2>10, <3>1 DEF OpenedIsLoaded
  <2>17. ListedOf(tree', loads', applied)
    <3>1. Own \in Schemas /\ "REST_MODULE" \in Kinds
      BY TreeAssumption
    <3>2. PICK d : d = tree'.node[Own].kinds["REST_MODULE"]
      OBVIOUS
    <3>3. PICK e : e = tree.node[Own].kinds["REST_MODULE"]
      OBVIOUS
    <3>4. d.asked = e.asked /\ (d = e \/ (d = c /\ l.s = Own /\ l.k = "REST_MODULE"))
      BY <1>12, <2>9, <2>11, <3>1, <3>2, <3>3
    <3>5. \A m \in loads : m.gen = tree.gen /\ m.s = Own /\ m.k = "REST_MODULE" /\ m.n = e.asked =>
            m.read = Nil \/ applied \subseteq m.read
      BY <1>6, <3>3 DEF ListedOf
    <3>6. e.st = "ok" /\ e.n = e.asked => applied \subseteq e.value
      BY <1>6, <3>3 DEF ListedOf
    <3>7. d.st = "ok" /\ d.n = d.asked => applied \subseteq d.value
      <4>1. CASE d = e
        BY <3>6, <4>1
      <4>2. CASE d = c /\ l.s = Own /\ l.k = "REST_MODULE"
        <5> SUFFICES ASSUME d.st = "ok", d.n = d.asked
                     PROVE  applied \subseteq d.value
          OBVIOUS
        <5>1. st = "ok" /\ l.n = e.asked /\ d.value = l.read /\ l.read # Nil
          BY <1>1, <1>4, <1>9, <1>12, <3>4, <4>2
        <5> QED BY <1>13, <3>5, <4>2, <5>1
      <4> QED BY <3>4, <4>1, <4>2
    <3> QED BY <1>4, <2>9, <3>2, <3>4, <3>5, <3>7 DEF ListedOf
  <2>18. loads' \in SUBSET TreeLoad
    BY <1>4, <1>6
  <2>19. TreeIs(tree', loads', applied, {})
    BY <2>9, <2>13, <2>14, <2>15, <2>16, <2>17, <2>18 DEF TreeIs
  <2>20. ApiIs'
    BY <1>4, ApiStays DEF TreeInv, ApiIs, ApiVars
  <2> QED BY <1>4, <2>19, <2>20 DEF TreeInv, ApiVars
<1>14. CASE l.gen # tree.gen
  <2>1. nd = tree.node
    BY <1>3, <1>14 DEF Written, Shows
  <2>2. tree' \in TreeState /\ tree'.gen = tree.gen /\ tree'.asks = tree.asks /\ tree'.node = tree.node
    BY <1>5, <1>6, <2>1 DEF TreeState
  <2>3. /\ LoadsCount(tree, loads') /\ SpinnersOf(tree, loads') /\ ListedOf(tree, loads', applied)
        /\ loads' \in SUBSET TreeLoad
    BY <1>4, <1>6, <1>14 DEF LoadsCount, SpinnersOf, ListedOf
  <2>4. TreeIs(tree, loads', applied, {})
    BY <1>6, <2>3 DEF TreeIs
  <2>5. TreeIs(tree', loads', applied, {})
    BY <2>2, <2>4, TreeSame
  <2>6. ApiIs'
    BY <1>4, ApiStays DEF TreeInv, ApiIs, ApiVars
  <2> QED BY <1>4, <2>5, <2>6 DEF TreeInv, ApiVars
<1> QED BY <1>13, <1>14

LEMMA ListedKeeps ==
  ASSUME TreeInv, NEW kind \in {"refresh", "boot"}, NEW t \in TreeState, Listed(kind, t),
         t.gen = tree.gen, t.asks = tree.asks, t.node = tree.node
  PROVE  TreeInv'
<1>1. PICK r : r = [n |-> tree.listed + 1, kind |-> kind, open |-> Expanded]
  OBVIOUS
<1>2. /\ lists' = lists \cup {r} /\ tree' = [t EXCEPT !.listed = @ + 1]
      /\ UNCHANGED <<deployed, loads, ApiVars>>
  BY <1>1 DEF Listed
<1>3. PICK n \in Nat : n = tree.listed + 1
  BY DEF TreeInv, TreeIs, TreeState
<1>4. PICK m \in Nat : m = t.listed + 1
  BY DEF TreeState
<1>5. r \in TreeList
  BY <1>1, <1>3 DEF TreeList, Expanded
<1>6. tree' \in TreeState /\ tree'.gen = t.gen /\ tree'.asks = t.asks /\ tree'.node = t.node
  BY <1>2, <1>4 DEF TreeState
<1>7. TreeIs(tree', loads, applied, {})
  BY <1>6, TreeSame DEF TreeInv
<1>8. lists' \in SUBSET TreeList
  BY <1>2, <1>5 DEF TreeInv, ApiIs
<1>9. ApiIs'
  BY <1>2, <1>8, ApiStays DEF TreeInv, ApiVars
<1> QED BY <1>2, <1>7, <1>9 DEF TreeInv, ApiVars

LEMMA ListsAskedKeeps ==
  ASSUME TreeInv, refreshSchemas \/ onReconnect
  PROVE  TreeInv'
<1>1. tree \in TreeState
  BY DEF TreeInv, TreeIs
<1>2. CASE refreshSchemas
  BY <1>1, <1>2, ListedKeeps DEF refreshSchemas
<1>3. CASE onReconnect
  <2>1. PICK t : t = [tree EXCEPT !.lost = FALSE]
    OBVIOUS
  <2>2. Listed("boot", t)
    BY <1>3, <2>1 DEF onReconnect
  <2>3. t \in TreeState /\ t.gen = tree.gen /\ t.asks = tree.asks /\ t.node = tree.node
    BY <1>1, <2>1 DEF TreeState
  <2> QED BY <2>2, <2>3, ListedKeeps
<1> QED BY <1>2, <1>3

(* A tree of new nodes: none has loaded anything, and those that come open *)
(* are asked for.                                                          *)
LEMMA NewNodesAre ==
  ASSUME NEW r \in TreeList, NEW nd, nd = NewNodes(r)
  PROVE  /\ nd \in [Schemas -> TreeNode]
         /\ \A s \in Schemas, k \in Kinds : nd[s].kinds[k] = IdleKind
         /\ \A s \in Schemas : nd[s].expanded => s \in ToExpand(r) \/ nd[s].reopened
         /\ ToExpand(r) \in SUBSET Schemas
<1>1. r.kind \in {"refresh", "boot"} /\ r.open \in SUBSET Schemas
  BY DEF TreeList
<1>2. IdleKind \in TreeKind
  BY DEF IdleKind, TreeKind, KindStates, KindValues
<1>3. ASSUME NEW s \in Schemas
      PROVE  /\ nd[s] \in TreeNode /\ \A k \in Kinds : nd[s].kinds[k] = IdleKind
             /\ nd[s].expanded => s \in ToExpand(r) \/ nd[s].reopened
  <2>1. PICK x \in BOOLEAN : x = (s = Own)
    OBVIOUS
  <2>2. PICK e \in BOOLEAN : e = (x \/ (r.kind = "refresh" /\ s \in r.open))
    OBVIOUS
  <2>3. PICK o \in BOOLEAN : o = (s = Own /\ r.kind = "refresh" /\ s \notin r.open)
    OBVIOUS
  <2>4. PICK ks : ks = [k \in Kinds |-> IdleKind]
    OBVIOUS
  <2>5. ks \in [Kinds -> TreeKind] /\ \A k \in Kinds : ks[k] = IdleKind
    BY <1>2, <2>4
  <2>6. PICK n : n = newSchemaNode(s)
    OBVIOUS
  <2>7. n = [expanded |-> x, kinds |-> ks, reopened |-> FALSE]
    BY <2>1, <2>4, <2>6 DEF newSchemaNode
  <2>8. n \in TreeNode /\ n.expanded = x /\ n.kinds = ks
    BY <2>5, <2>7 DEF TreeNode
  <2>9. nd[s] = [n EXCEPT !.expanded = n.expanded \/ (r.kind = "refresh" /\ s \in r.open),
                          !.reopened = s = Own /\ r.kind = "refresh" /\ s \notin r.open]
    BY <2>6 DEF NewNodes
  <2>10. nd[s] = [n EXCEPT !.expanded = e, !.reopened = o]
    BY <2>2, <2>3, <2>8, <2>9
  <2>11. nd[s] \in TreeNode /\ nd[s].kinds = ks /\ nd[s].expanded = e /\ nd[s].reopened = o
    BY <2>8, <2>10 DEF TreeNode
  <2>12. e => s \in ToExpand(r) \/ o
    BY <1>1, <2>1, <2>2, <2>3 DEF ToExpand
  <2> QED BY <2>5, <2>11, <2>12
<1>4. nd \in [Schemas -> TreeNode]
  <2>1. nd = [s \in Schemas |-> nd[s]]
    BY DEF NewNodes
  <2> QED BY <1>3, <2>1
<1>5. ToExpand(r) \in SUBSET Schemas
  BY <1>1, TreeAssumption DEF ToExpand
<1> QED BY <1>3, <1>4, <1>5

LEMMA ListAnsweredKeeps ==
  ASSUME TreeInv, NEW r \in lists, NEW ok \in BOOLEAN, ListAnswered(r, ok)
  PROVE  TreeInv'
<1>1. lists' = lists \ {r} /\ UNCHANGED <<deployed, ApiVars>>
  BY DEF ListAnswered
<1>2. lists' \in SUBSET TreeList /\ r \in TreeList
  BY <1>1 DEF TreeInv, ApiIs
<1>3. /\ tree \in TreeState /\ loads \in SUBSET TreeLoad /\ LoadsCount(tree, loads)
      /\ tree.gen \in Nat /\ tree.asks \in Nat
  BY DEF TreeInv, TreeIs, TreeState
<1>4. CASE ok
  <2>1. PICK nd : nd = NewNodes(r)
    OBVIOUS
  <2>2. PICK g \in Nat : g = tree.gen + 1
    BY <1>3
  <2>3. PICK t : t = [tree EXCEPT !.gen = g, !.node = nd]
    OBVIOUS
  <2>4. PICK pairs : pairs = IdleKinds(t, ToExpand(r))
    OBVIOUS
  <2>5. BeginLoading(t, pairs)
    BY <1>4, <2>1, <2>2, <2>3, <2>4 DEF ListAnswered
  <2>6. /\ nd \in [Schemas -> TreeNode]
        /\ \A s \in Schemas, k \in Kinds : nd[s].kinds[k] = IdleKind
        /\ \A s \in Schemas : nd[s].expanded => s \in ToExpand(r) \/ nd[s].reopened
        /\ ToExpand(r) \in SUBSET Schemas
    BY <1>2, <2>1, NewNodesAre
  <2>7. t \in TreeState /\ t.gen = g /\ t.node = nd /\ t.asks = tree.asks
    BY <1>3, <2>3, <2>6 DEF TreeState
  <2>8. IdleKind.st = "idle" /\ IdleKind.n = 0 /\ IdleKind.asked = 0
    BY DEF IdleKind
  <2>9. \A s \in Schemas, k \in Kinds :
          /\ t.node[s].kinds[k].st = "idle" /\ t.node[s].kinds[k].n = 0 /\ t.node[s].kinds[k].asked = 0
    BY <2>6, <2>7, <2>8
  <2>10. /\ pairs \in SUBSET (Schemas \X Kinds)
         /\ \A s \in Schemas, k \in Kinds :
              <<s, k>> \in pairs <=> s \in ToExpand(r) /\ t.node[s].kinds[k].st = "idle"
    BY <2>4, <2>6, IdleKindsAre
  <2>11. KindsCount(t)
    BY <1>3, <2>7, <2>9 DEF KindsCount
  <2>12. \A l \in loads : l.gen < t.gen /\ l.gen \in Nat
    BY <1>3, <2>2, <2>7 DEF LoadsCount, TreeLoad
  <2>13. LoadsCount(t, loads)
    BY <1>3, <2>2, <2>7, <2>12 DEF LoadsCount
  <2>14. SpinnersOf(t, loads)
    BY <2>9 DEF SpinnersOf
  <2>15. ListedOf(t, loads, applied)
    BY <2>7, <2>9, <2>12, TreeAssumption DEF ListedOf
  <2>16. OpenedIsLoaded(t, pairs)
    BY <2>6, <2>7, <2>9, <2>10 DEF OpenedIsLoaded
  <2>17. TreeIs(t, loads, applied, pairs)
    BY <1>3, <2>7, <2>11, <2>13, <2>14, <2>15, <2>16 DEF TreeIs
  <2> QED BY <1>1, <1>2, <2>5, <2>10, <2>17, LoadingKeeps
<1>5. CASE ~ok
  <2>1. PICK b \in BOOLEAN : b = (tree.fatal \/ r.kind = "boot")
    BY <1>3 DEF TreeState
  <2>2. tree' = [tree EXCEPT !.fatal = b] /\ loads' = loads
    BY <1>5, <2>1 DEF ListAnswered
  <2>3. tree' \in TreeState /\ tree'.gen = tree.gen /\ tree'.asks = tree.asks /\ tree'.node = tree.node
    BY <1>3, <2>2 DEF TreeState
  <2>4. TreeIs(tree', loads, applied, {})
    BY <2>3, TreeSame DEF TreeInv
  <2>5. ApiIs'
    BY <1>1, <1>2, ApiStays DEF TreeInv, ApiVars
  <2> QED BY <1>1, <2>2, <2>4, <2>5 DEF TreeInv, ApiVars
<1> QED BY <1>4, <1>5

-----------------------------------------------------------------------------
(* The actions of the builder and of the previews leave the tree alone,    *)
(* but for the modules that are loaded again.                              *)
LEMMA TreeApart ==
  ASSUME TreeInv, tree' = tree, loads' = loads, applied' = applied, ApiIs',
         previews' \in SUBSET [n : Nat, config : Configs], asked' \in Nat
  PROVE  TreeInv'
  BY DEF TreeInv

LEMMA ApiFacts ==
  ASSUME TreeInv
  PROVE  /\ deployed \in SUBSET Configs /\ applied \subseteq deployed /\ lists \in SUBSET TreeList
         /\ builder \in Builder /\ applies \in SUBSET EndpointApply
         /\ \A a \in applies : a.pc = "made" => a.config \in deployed
         /\ (builder.sql # Nil => builder.config = builder.sql)
         /\ builder.sql \in Configs \cup {Nil} /\ builder.config \in Configs \cup {Nil} /\ builder.modal \in Nat
         /\ previews \in SUBSET [n : Nat, config : Configs] /\ asked \in Nat
  BY DEF TreeInv, ApiIs, PreviewIsOfConfig, Builder

LEMMA BuilderKeeps ==
  ASSUME TreeInv, openApiBuilder \/ BuilderClosed \/ PreviewClosed
  PROVE  TreeInv'
<1>1. UNCHANGED <<deployed, tree, loads, lists, previews, applies, asked, applied>>
  BY DEF openApiBuilder, BuilderClosed, PreviewClosed
<1>2. builder' \in Builder /\ (builder'.sql = Nil \/ (builder'.sql = builder.sql /\ builder'.config = builder.config))
  <2>1. builder \in Builder
    BY ApiFacts
  <2>2. \/ builder' = [builder EXCEPT !.open = TRUE] \/ builder' = [builder EXCEPT !.open = FALSE]
        \/ builder' = [builder EXCEPT !.sql = Nil] \/ builder' = [builder EXCEPT !.sql = Nil, !.open = FALSE]
    BY DEF openApiBuilder, BuilderClosed, PreviewClosed
  <2> QED BY <2>1, <2>2 DEF Builder
<1>3. ApiIs'
  BY <1>1, <1>2, ApiFacts DEF ApiIs, PreviewIsOfConfig
<1> QED BY <1>1, <1>3, ApiFacts, TreeApart

LEMMA PreviewKeeps ==
  ASSUME TreeInv, NEW c \in Configs, onPreview(c)
  PROVE  TreeInv'
<1>1. PICK n \in Nat : n = asked + 1
  BY ApiFacts
<1>2. /\ previews' = previews \cup {[n |-> n, config |-> c]} /\ asked' = n
      /\ UNCHANGED <<deployed, tree, loads, lists, builder, applies, applied>>
  BY <1>1 DEF onPreview
<1>3. ApiIs'
  BY <1>2, ApiFacts DEF ApiIs, PreviewIsOfConfig
<1> QED BY <1>2, <1>3, ApiFacts, TreeApart

LEMMA PreviewShownKeeps ==
  ASSUME TreeInv, NEW p \in previews, NEW ok \in BOOLEAN, handleBuilderPreview(p, ok)
  PROVE  TreeInv'
<1>1. /\ previews' = previews \ {p}
      /\ UNCHANGED <<deployed, tree, loads, lists, applies, asked, applied>>
  BY DEF handleBuilderPreview
<1>2. p.config \in Configs
  BY ApiFacts
<1>3. builder' \in Builder /\ (builder'.sql # Nil => builder'.config = builder'.sql)
  <2>1. CASE ok
    <3>1. PICK m \in Nat : m = IF builder.sql = Nil THEN builder.modal + 1 ELSE builder.modal
      BY ApiFacts
    <3>2. builder' = [builder EXCEPT !.sql = p.config, !.config = p.config,
                                     !.modal = IF builder.sql = Nil THEN builder.modal + 1 ELSE builder.modal]
      BY <2>1 DEF handleBuilderPreview, ConfigOf
    <3>3. builder' = [builder EXCEPT !.sql = p.config, !.config = p.config, !.modal = m]
      BY <3>1, <3>2
    <3> QED BY <1>2, <3>3, ApiFacts DEF Builder
  <2>2. CASE ~ok
    BY <2>2, ApiFacts DEF handleBuilderPreview
  <2> QED BY <2>1, <2>2
<1>4. ApiIs'
  BY <1>1, <1>3, ApiFacts DEF ApiIs, PreviewIsOfConfig
<1> QED BY <1>1, <1>4, ApiFacts, TreeApart

LEMMA ApplyKeeps ==
  ASSUME TreeInv, handlePreviewApply
  PROVE  TreeInv'
<1>1. PICK a : a = [config |-> builder.config, modal |-> builder.modal, pc |-> "sent", n |-> 0]
  OBVIOUS
<1>2. /\ builder.sql # Nil /\ applies' = applies \cup {a}
      /\ UNCHANGED <<deployed, tree, loads, lists, builder, previews, asked, applied>>
  BY <1>1 DEF handlePreviewApply
<1>3. a \in EndpointApply /\ a.pc = "sent"
  BY <1>1, <1>2, ApiFacts DEF EndpointApply
<1>4. ApiIs'
  BY <1>2, <1>3, ApiFacts DEF ApiIs, PreviewIsOfConfig
<1> QED BY <1>2, <1>4, ApiFacts, TreeApart

LEMMA ApplyServedKeeps ==
  ASSUME TreeInv, NEW a \in applies, NEW ok \in BOOLEAN, ApplyServed(a, ok)
  PROVE  TreeInv'
<1>1. PICK pc \in {"made", "failed"} : pc = IF ok THEN "made" ELSE "failed"
  OBVIOUS
<1>2. PICK b : b = [a EXCEPT !.pc = pc]
  OBVIOUS
<1>3. /\ applies' = (applies \ {a}) \cup {b}
      /\ UNCHANGED <<tree, loads, lists, builder, previews, asked, applied>>
  BY <1>1, <1>2 DEF ApplyServed
<1>4. b \in EndpointApply /\ b.pc = pc /\ b.config = a.config /\ a.config \in Configs
  BY <1>2, ApiFacts DEF EndpointApply
<1>5. /\ deployed' \in SUBSET Configs /\ deployed \subseteq deployed'
      /\ pc = "made" => a.config \in deployed'
  BY <1>1, <1>4, ApiFacts DEF ApplyServed
<1>6. ApiIs'
  BY <1>3, <1>4, <1>5, ApiFacts DEF ApiIs, PreviewIsOfConfig
<1> QED BY <1>3, <1>6, ApiFacts, TreeApart

LEMMA ApplyAnsweredKeeps ==
  ASSUME TreeInv, NEW a \in applies, ApplyAnswered(a)
  PROVE  TreeInv'
<1>1. UNCHANGED <<deployed, lists, builder, previews, asked>>
  BY DEF ApplyAnswered
<1>2. CASE a.pc = "made"
  <2>1. PICK n \in Nat : n = tree.asks + 1
    BY DEF TreeInv, TreeIs, TreeState
  <2>2. PICK b : b = [a EXCEPT !.pc = "reload", !.n = n]
    OBVIOUS
  <2>3. /\ BeginLoading(tree, Reloaded) /\ applied' = applied \cup {a.config}
        /\ applies' = (applies \ {a}) \cup {b}
    BY <1>2, <2>1, <2>2 DEF ApplyAnswered
  <2>4. b \in EndpointApply /\ b.pc = "reload"
    BY <2>2, ApiFacts DEF EndpointApply
  <2>5. ApiIs'
    BY <1>1, <1>2, <2>3, <2>4, ApiFacts DEF ApiIs, PreviewIsOfConfig
  <2>6. PICK pairs : pairs = Reloaded
    OBVIOUS
  <2>7. Modules1 \in pairs /\ pairs \in SUBSET (Schemas \X Kinds)
    BY <2>6, TreeAssumption DEF Reloaded, Modules1
  <2>8. tree' = loadKind(tree, pairs) /\ loads' = loads \cup LoadsOf(tree, pairs)
    BY <2>3, <2>6, <2>7 DEF BeginLoading
  <2>9. /\ tree \in TreeState /\ loads \in SUBSET TreeLoad /\ KindsCount(tree) /\ LoadsCount(tree, loads)
        /\ SpinnersOf(tree, loads) /\ OpenedIsLoaded(tree, pairs)
    BY DEF TreeInv, TreeIs, OpenedIsLoaded
  <2>10. TreeIs(loadKind(tree, pairs), loads \cup LoadsOf(tree, pairs), applied', {})
    BY <2>7, <2>9, LoadKindKeeps
  <2>11. TreeIs(tree', loads', applied', {})
    BY <2>8, <2>10
  <2> QED BY <1>1, <2>5, <2>11, ApiFacts DEF TreeInv
<1>3. CASE a.pc # "made"
  <2>1. applies' = applies \ {a} /\ UNCHANGED <<tree, loads, applied>>
    BY <1>3 DEF ApplyAnswered
  <2>2. ApiIs'
    BY <1>1, <2>1, ApiFacts DEF ApiIs, PreviewIsOfConfig
  <2> QED BY <1>1, <2>1, <2>2, ApiFacts, TreeApart
<1> QED BY <1>2, <1>3

LEMMA ApplyEndsKeeps ==
  ASSUME TreeInv, NEW a \in applies, ApplyEnds(a)
  PROVE  TreeInv'
<1>1. /\ applies' = applies \ {a} /\ builder' = [builder EXCEPT !.open = FALSE, !.sql = Nil, !.config = Nil]
      /\ UNCHANGED <<deployed, tree, loads, lists, previews, asked, applied>>
  BY DEF ApplyEnds
<1>2. builder' \in Builder /\ builder'.sql = Nil
  BY <1>1, ApiFacts DEF Builder
<1>3. ApiIs'
  BY <1>1, <1>2, ApiFacts DEF ApiIs, PreviewIsOfConfig
<1> QED BY <1>1, <1>3, ApiFacts, TreeApart

LEMMA TreeKeeps ==
  ASSUME TreeInv, TreeNext
  PROVE  TreeInv'
<1>1. CASE \/ \E q \in {Nil} \cup Filters : Searched(q)
           \/ \E s \in Schemas : onToggle(s) \/ \E k \in Kinds : onKindExpand(s, k) \/ onRetryKind(s, k)
  BY <1>1, SearchedKeeps, ToggledKeeps, KindLoadsKeeps
<1>2. CASE \E l \in loads : LoadRead(l) \/ \E how \in {"ok", "err", "lost"} : LoadAnswered(l, how)
  BY <1>2, LoadReadKeeps, LoadAnsweredKeeps
<1>3. CASE \/ refreshSchemas \/ onReconnect
           \/ \E r \in lists, ok \in BOOLEAN : ListAnswered(r, ok)
  BY <1>3, ListsAskedKeeps, ListAnsweredKeeps
<1>4. CASE \/ openApiBuilder \/ BuilderClosed \/ PreviewClosed \/ handlePreviewApply
           \/ \E c \in Configs : onPreview(c)
           \/ \E p \in previews, ok \in BOOLEAN : handleBuilderPreview(p, ok)
  BY <1>4, BuilderKeeps, ApplyKeeps, PreviewKeeps, PreviewShownKeeps
<1>5. CASE \E a \in applies : ApplyAnswered(a) \/ ApplyEnds(a) \/ \E ok \in BOOLEAN : ApplyServed(a, ok)
  BY <1>5, ApplyAnsweredKeeps, ApplyEndsKeeps, ApplyServedKeeps
<1> QED BY <1>1, <1>2, <1>3, <1>4, <1>5 DEF TreeNext

LEMMA TreeStays ==
  ASSUME TreeInv, UNCHANGED treeVars
  PROVE  TreeInv'
<1>1. /\ deployed' = deployed /\ tree' = tree /\ loads' = loads /\ lists' = lists /\ builder' = builder
      /\ previews' = previews /\ applies' = applies /\ asked' = asked /\ applied' = applied
  BY DEF treeVars
<1>2. ApiIs'
  BY <1>1, ApiStays, ApiFacts DEF TreeInv
<1> QED BY <1>1, <1>2 DEF TreeInv

LEMMA TreeStart == TreeInit => TreeInv
<1> SUFFICES ASSUME TreeInit
             PROVE  TreeInv
  OBVIOUS
<1>1. PICK t : t = FirstTree
  OBVIOUS
<1>2. PICK pairs : pairs = IdleKinds(t, {Own})
  OBVIOUS
<1>3. /\ tree = loadKind(t, pairs) /\ loads = LoadsOf(t, pairs)
      /\ deployed = {} /\ lists = {} /\ previews = {} /\ applies = {} /\ asked = 0 /\ applied = {}
      /\ builder = [open |-> FALSE, sql |-> Nil, config |-> Nil, modal |-> 0]
  BY <1>1, <1>2 DEF TreeInit
<1>4. PICK nd : nd = [s \in Schemas |-> newSchemaNode(s)]
  OBVIOUS
<1>5. IdleKind \in TreeKind /\ IdleKind.st = "idle" /\ IdleKind.n = 0 /\ IdleKind.asked = 0
  BY DEF IdleKind, TreeKind, KindStates, KindValues
<1>6. ASSUME NEW s \in Schemas
      PROVE  nd[s] \in TreeNode /\ (nd[s].expanded => s = Own) /\ \A k \in Kinds : nd[s].kinds[k] = IdleKind
  <2>1. PICK x \in BOOLEAN : x = (s = Own)
    OBVIOUS
  <2>2. PICK ks : ks = [k \in Kinds |-> IdleKind]
    OBVIOUS
  <2>3. ks \in [Kinds -> TreeKind] /\ \A k \in Kinds : ks[k] = IdleKind
    BY <1>5, <2>2
  <2>a. PICK n : n = newSchemaNode(s)
    OBVIOUS
  <2>b. n = [expanded |-> x, kinds |-> ks, reopened |-> FALSE]
    BY <2>1, <2>2, <2>a DEF newSchemaNode
  <2>4. nd[s] = [expanded |-> x, kinds |-> ks, reopened |-> FALSE]
    <3>1. nd[s] = newSchemaNode(s)
      BY <1>4, Zenon
    <3> QED BY <2>a, <2>b, <3>1
  <2>5. PICK m : m = nd[s]
    OBVIOUS
  <2>6. m \in TreeNode /\ m.expanded = x /\ m.kinds = ks
    BY <2>3, <2>4, <2>5 DEF TreeNode
  <2> QED BY <2>1, <2>3, <2>5, <2>6
<1>7. nd \in [Schemas -> TreeNode]
  BY <1>4, <1>6
<1>8. t = [gen |-> 0, node |-> nd, search |-> Nil, lost |-> FALSE, fatal |-> FALSE, asks |-> 0, listed |-> 0]
  BY <1>1, <1>4 DEF FirstTree
<1>9. t \in TreeState /\ t.node = nd /\ t.asks = 0 /\ t.gen = 0
  BY <1>7, <1>8 DEF TreeState
<1>10. /\ pairs \in SUBSET (Schemas \X Kinds)
       /\ \A s \in Schemas, k \in Kinds :
            <<s, k>> \in pairs <=> s \in {Own} /\ t.node[s].kinds[k].st = "idle"
  BY <1>2, IdleKindsAre, TreeAssumption
<1>11. \A s \in Schemas, k \in Kinds :
         /\ t.node[s].kinds[k].st = "idle" /\ t.node[s].kinds[k].n = 0 /\ t.node[s].kinds[k].asked = 0
  BY <1>5, <1>6, <1>9
<1>12. KindsCount(t) /\ LoadsCount(t, {}) /\ SpinnersOf(t, {}) /\ ListedOf(t, {}, {})
  BY <1>9, <1>11, TreeAssumption DEF KindsCount, LoadsCount, SpinnersOf, ListedOf
<1>13. OpenedIsLoaded(t, pairs)
  BY <1>6, <1>9, <1>10, <1>11 DEF OpenedIsLoaded
<1>14. TreeIs(loadKind(t, pairs), {} \cup LoadsOf(t, pairs), {}, {})
  BY <1>9, <1>10, <1>12, <1>13, LoadKindKeeps
<1>15. TreeIs(tree, loads, applied, {})
  BY <1>3, <1>14
<1>16. ApiIs
  BY <1>3 DEF ApiIs, PreviewIsOfConfig, Builder
<1> QED BY <1>3, <1>15, <1>16 DEF TreeInv

LEMMA TreeHolds ==
  ASSUME TreeInv
  PROVE  TreeTellsTheTruth
<1>1. /\ KindsCount(tree) /\ SpinnersOf(tree, loads) /\ OpenedIsLoaded(tree, {}) /\ ListedOf(tree, loads, applied)
      /\ PreviewIsOfConfig /\ tree \in TreeState
  BY DEF TreeInv, TreeIs, ApiIs
<1>2. SpinnersLoad
  BY <1>1 DEF SpinnersLoad, KindsCount, SpinnersOf
<1>3. ExpandedIsLoaded
  <2> SUFFICES ASSUME NEW s \in Expanded, IdleKinds(tree, {s}) # {}
               PROVE  tree.node[s].reopened
    BY DEF ExpandedIsLoaded
  <2>1. s \in Schemas /\ tree.node[s].expanded
    BY DEF Expanded
  <2>2. PICK p \in {s} \X Kinds : tree.node[p[1]].kinds[p[2]].st = "idle"
    BY DEF IdleKinds
  <2>3. PICK k \in Kinds : p = <<s, k>>
    OBVIOUS
  <2>4. tree.node[s].kinds[k].st = "idle"
    BY <2>2, <2>3
  <2> QED BY <1>1, <2>1, <2>4 DEF OpenedIsLoaded
<1>4. AppliedIsListed
  BY <1>1 DEF AppliedIsListed, ListedOf
<1> QED BY <1>1, <1>2, <1>3, <1>4 DEF TreeTellsTheTruth

-----------------------------------------------------------------------------
(***************************************************************************)
(* The dialogs around REST endpoints.                                      *)
(***************************************************************************)

Named == Clients \cup {Nothing}
OauthCall == [n : Nat, panel : Nat, kind : {"list", "create", "revoke"}, of : Named,
              pc : {"asked", "ok", "half", "refused"}, rows : SUBSET Clients]
OauthPanel == [open : BOOLEAN, number : Nat, rows : SUBSET Clients, loading : BOOLEAN, error : BOOLEAN,
               name : Named, creating : BOOLEAN,
               secret : {Nothing} \cup [of : Named, name : Named], confirm : Named,
               shown : Nat, asked : Nat, stale : BOOLEAN, calls : SUBSET OauthCall, count : Nat]

OauthTypeOK ==
  /\ registered \in SUBSET Clients /\ oauth \in OauthPanel
  /\ \A c \in oauth.calls : /\ c.n <= oauth.count /\ c.panel <= oauth.number
                            /\ c.kind = "create" => c.of \in Clients
  /\ \A c, d \in oauth.calls : c.n = d.n => c = d
  /\ oauth.asked <= oauth.count /\ oauth.shown <= oauth.count

(* A client was created, and the panel has still to hear of it.            *)
Creating == \E c \in oauth.calls : OfPanel(c) /\ c.kind = "create" /\ c.pc = "ok"

OauthOK ==
  oauth.open =>
    /\ \A c \in oauth.calls :
         /\ c.kind = "revoke" => c.panel # oauth.number
         /\ c.kind = "list" => /\ c.panel = oauth.number
                               /\ c.n = oauth.asked => oauth.shown # oauth.asked
                               /\ c.n = oauth.asked /\ c.pc = "ok" /\ ~oauth.stale
                                    => c.rows = registered \/ Creating
    /\ oauth.shown = oauth.asked /\ ~oauth.stale => oauth.rows = registered \/ Creating

OauthInv == OauthTypeOK /\ OauthOK

ModuleCall == [n : Nat, kind : {"load", "export"}, of : Modules \cup {Nothing}]
ModulePanel == [selected : Modules \cup {Nothing}, shown : Modules \cup {Nothing}, loading : BOOLEAN,
                failed : BOOLEAN, last : Nat, asked : Nat, count : Nat, calls : SUBSET ModuleCall,
                exported : SUBSET ((Modules \cup {Nothing}) \X (Modules \cup {Nothing}))]
ModuleTypeOK ==
  /\ module \in ModulePanel
  /\ \A c \in module.calls : c.n <= module.count
  /\ \A c, d \in module.calls : c.n = d.n => c = d
  /\ module.asked <= module.count /\ module.last <= module.count

ModuleOK ==
  /\ module.loading => \E c \in module.calls : c.kind = "load" /\ c.n = module.asked
  /\ \A c \in module.calls : c.kind = "load" /\ c.n = module.asked => c.of = module.selected
                                                                      /\ module.last # module.asked
  /\ module.last = module.asked /\ module.shown # Nothing /\ ~module.failed
       => module.shown = module.selected

ModuleInv == ModuleTypeOK /\ ModuleOK

TesterCall == [panel : Nat, kind : {"send", "token"}, of : Modules \cup Named]
TesterPanel == [url : Modules, sending : BOOLEAN, response : Modules \cup Named,
                sent : Modules \cup Named, token : Modules \cup Named, client : Named, fetching : BOOLEAN,
                panel : Nat, calls : SUBSET TesterCall, count : Nat]
TesterTypeOK ==
  /\ tester \in TesterPanel
  /\ \A c \in tester.calls : c.panel <= tester.panel

TesterOK ==
  /\ tester.response \in {Nothing, tester.sent}
  /\ \A c \in tester.calls : c.panel = tester.panel /\ c.kind = "send" =>
       tester.sending /\ c.of = tester.sent
  /\ tester.sending => \E c \in tester.calls : c.panel = tester.panel /\ c.kind = "send"

TesterInv == TesterTypeOK /\ TesterOK

FormKinds == {Nothing, "TABLE", "VIEW", "PROCEDURE", "FUNCTION"}
FormPanel == [type : {"none", "auto-crud", "procedure", "custom-sql"}, source : FormKinds, key : FormKinds,
              has : SUBSET Lists, full : SUBSET Lists, answered : SUBSET Lists,
              calls : SUBSET [n : Nat, kind : Lists \cup {"suggest"}], count : Nat,
              sheep : {Nothing} \cup Suggestions]
FormInv == form \in FormPanel /\ SelectShowsSource

OrdsCall == [n : Nat, kind : {"boot", "again", "enable"}, visit : Nat, modal : Nat,
             of : Pages \cup {Nothing}, pc : {"asked", "ok", "failed"}, enabled : BOOLEAN]
OrdsPanel == [page : Pages, boot : {"opening", "listing", "up"}, session : Pages \cup {Nothing},
              connectionId : Pages \cup {Nothing},
              state : {Nothing} \cup [of : Pages \cup {Nothing}, enabled : BOOLEAN, url : BOOLEAN],
              shown : Nat, asked : Nat, visit : Nat, modal : BOOLEAN, modals : Nat,
              saved : [Pages -> BOOLEAN], enabled : SUBSET (Pages \cup {Nothing}),
              calls : SUBSET OrdsCall, count : Nat, misplaced : BOOLEAN]
OrdsTypeOK ==
  /\ ords \in OrdsPanel
  /\ \A c \in ords.calls : c.n <= ords.count
  /\ \A c, d \in ords.calls : c.n = d.n => c = d
  /\ ords.asked <= ords.count /\ ords.shown <= ords.count

(* A schema was enabled, and the dialog has still to hear of it.           *)
Enabling == \E c \in ords.calls : c.kind = "enable" /\ c.pc = "ok"

OrdsOK ==
  /\ ords.boot \in {"listing", "up"} => ords.session = ords.page
  /\ ords.boot = "up" =>
       /\ ords.connectionId = ords.page
       /\ \A c \in ords.calls : c.kind # "enable" /\ c.n = ords.asked =>
            /\ c.of = ords.page /\ ords.shown # ords.asked
            /\ c.pc = "ok" => (c.enabled <=> ords.page \in ords.enabled) \/ Enabling
       /\ ords.state # Nothing /\ ords.shown = ords.asked =>
            /\ ords.state.of = ords.page
            /\ (ords.state.enabled <=> ords.page \in ords.enabled) \/ Enabling
            /\ ords.saved[ords.page] => ords.state.url

OrdsInv == OrdsTypeOK /\ OrdsOK

(* A call the panel makes, and a panel that goes.                          *)
LEMMA AsksIs ==
  ASSUME NEW o \in OauthPanel, NEW k \in {"list", "create", "revoke"}, NEW x \in Named
  PROVE  LET c == [n |-> o.count + 1, panel |-> o.number, kind |-> k, of |-> x,
                   pc |-> "asked", rows |-> {}]
             p == OauthAsks(o, k, x)
         IN /\ c \in OauthCall /\ p \in OauthPanel
            /\ p.calls = o.calls \cup {c} /\ p.count = o.count + 1
            /\ p.open = o.open /\ p.number = o.number /\ p.rows = o.rows /\ p.shown = o.shown
            /\ p.asked = o.asked /\ p.stale = o.stale
<1> DEFINE c == [n |-> o.count + 1, panel |-> o.number, kind |-> k, of |-> x,
                 pc |-> "asked", rows |-> {}]
<1>1. o.count \in Nat /\ o.number \in Nat /\ o.calls \in SUBSET OauthCall
  BY DEF OauthPanel
<1>2. c \in OauthCall
  BY <1>1 DEF OauthCall, Named
<1>3. o.count + 1 \in Nat /\ o.calls \cup {c} \in SUBSET OauthCall
  BY <1>1, <1>2
<1>4. OauthAsks(o, k, x) = [o EXCEPT !.count = o.count + 1, !.calls = o.calls \cup {c}]
  BY DEF OauthAsks
<1> HIDE DEF c
<1>5. QED
  BY <1>1, <1>2, <1>3, <1>4 DEF OauthPanel, c

LEMMA LoadAskedIs ==
  ASSUME NEW o \in OauthPanel
  PROVE  LET c == [n |-> o.count + 1, panel |-> o.number, kind |-> "list", of |-> Nothing,
                   pc |-> "asked", rows |-> {}]
             p == LoadAsked(o)
         IN /\ c \in OauthCall /\ p \in OauthPanel
            /\ p.calls = o.calls \cup {c} /\ p.count = o.count + 1 /\ p.asked = o.count + 1
            /\ p.open = o.open /\ p.number = o.number /\ p.rows = o.rows /\ p.shown = o.shown
            /\ p.stale = o.stale
<1>1. Nothing \in Named /\ o.count \in Nat
  BY DEF Named, OauthPanel
<1>2. LoadAsked(o) = [OauthAsks(o, "list", Nothing) EXCEPT !.loading = TRUE, !.error = FALSE,
                                                          !.asked = o.count + 1]
  BY DEF LoadAsked
<1>3. OauthAsks(o, "list", Nothing) \in OauthPanel
  BY <1>1, AsksIs
<1>4. o.count + 1 \in Nat
  BY <1>1
<1>5. LoadAsked(o) \in OauthPanel
  BY <1>2, <1>3, <1>4 DEF OauthPanel
<1> QED
  BY <1>1, <1>2, <1>3, <1>5, AsksIs DEF OauthPanel

LEMMA KeepIs ==
  ASSUME NEW o \in OauthPanel
  PROVE  LET p == Keep(o) IN
         /\ p \in OauthPanel /\ p.calls = {c \in o.calls : c.kind # "list"} /\ p.count = o.count
         /\ ~p.open /\ p.number = o.number /\ p.asked = 0 /\ p.shown = 0 /\ ~p.stale
<1>1. o.number \in Nat /\ o.count \in Nat /\ {c \in o.calls : c.kind # "list"} \in SUBSET OauthCall
  BY DEF OauthPanel
<1>2. Panel(o.number) \in OauthPanel
  BY <1>1 DEF Panel, OauthPanel, Named
<1>3. Keep(o) = [Panel(o.number) EXCEPT !.calls = {c \in o.calls : c.kind # "list"}, !.count = o.count]
  BY DEF Keep
<1> QED
  BY <1>1, <1>2, <1>3 DEF OauthPanel, Panel

LEMMA OauthStart == RestInit => OauthInv
<1> SUFFICES ASSUME RestInit PROVE OauthInv
  OBVIOUS
<1>1. registered \in SUBSET Clients /\ oauth = Panel(0)
  BY DEF RestInit
<1>2. Panel(0) \in OauthPanel
  BY DEF Panel, OauthPanel, Named
<1>3. oauth.calls = {} /\ ~oauth.open /\ oauth.asked = 0 /\ oauth.shown = 0 /\ oauth.count = 0
  BY <1>1 DEF Panel
<1> QED
  BY <1>1, <1>2, <1>3 DEF OauthInv, OauthTypeOK, OauthOK

(* A panel that opens, closes, or asks for a revocation and goes.          *)
LEMMA OauthOpenedKeeps ==
  ASSUME OauthInv, OAuthOpened PROVE OauthInv'
<1> DEFINE k == [Keep(oauth) EXCEPT !.open = TRUE, !.number = oauth.number + 1]
<1>1. oauth \in OauthPanel /\ oauth.number \in Nat /\ oauth.count \in Nat /\ registered' = registered
  BY DEF OauthInv, OauthTypeOK, OauthPanel, OAuthOpened
<1>2. Keep(oauth).number = oauth.number
  BY <1>1, KeepIs
<1>3. oauth' = LoadAsked(k)
  BY <1>2 DEF OAuthOpened, Oauth
<1>4. /\ k \in OauthPanel /\ k.calls = {c \in oauth.calls : c.kind # "list"} /\ k.count = oauth.count
      /\ k.number = oauth.number + 1 /\ k.asked = 0 /\ k.shown = 0 /\ ~k.stale
  <2>1. PICK p : p = Keep(oauth)
    OBVIOUS
  <2>2. /\ p \in OauthPanel /\ p.calls = {c \in oauth.calls : c.kind # "list"} /\ p.count = oauth.count
        /\ p.asked = 0 /\ p.shown = 0 /\ ~p.stale
    BY <1>1, <2>1, KeepIs
  <2>3. k = [p EXCEPT !.open = TRUE, !.number = oauth.number + 1]
    BY <2>1
  <2>4. ASSUME NEW m \in Nat, NEW q, q = [p EXCEPT !.open = TRUE, !.number = m]
        PROVE  /\ q \in OauthPanel /\ q.calls = p.calls /\ q.count = p.count
               /\ q.number = m /\ q.asked = p.asked /\ q.shown = p.shown /\ q.stale = p.stale
    BY <2>2, <2>4 DEF OauthPanel
  <2>5. oauth.number + 1 \in Nat
    BY <1>1
  <2> HIDE DEF k
  <2> QED
    BY <2>2, <2>3, <2>4, <2>5
<1> HIDE DEF k
<1> DEFINE d == [n |-> k.count + 1, panel |-> k.number, kind |-> "list", of |-> Nothing,
                 pc |-> "asked", rows |-> {}]
<1>5. /\ oauth' \in OauthPanel /\ oauth'.calls = k.calls \cup {d} /\ oauth'.count = k.count + 1
      /\ oauth'.asked = k.count + 1 /\ oauth'.number = k.number /\ oauth'.shown = k.shown
  BY <1>3, <1>4, LoadAskedIs
<1>6. d.n = oauth.count + 1 /\ d.panel = oauth.number + 1 /\ d.kind = "list" /\ d.pc = "asked"
  BY <1>4
<1> HIDE DEF d
<1>7. \A c \in k.calls : /\ c.n <= oauth.count /\ c.panel <= oauth.number /\ c.kind # "list"
                         /\ c.n \in Nat /\ c.panel \in Nat /\ c \in oauth.calls
  BY <1>1, <1>4 DEF OauthInv, OauthTypeOK, OauthPanel, OauthCall
<1>8. OauthTypeOK'
  BY <1>1, <1>4, <1>5, <1>6, <1>7 DEF OauthInv, OauthTypeOK
<1>9. OauthOK'
  BY <1>1, <1>4, <1>5, <1>6, <1>7 DEF OauthOK
<1> QED
  BY <1>8, <1>9 DEF OauthInv

LEMMA OauthKept ==
  ASSUME OauthInv, NEW o \in OauthPanel, oauth' = Keep(o), registered' = registered,
         \A c \in o.calls : c.n <= o.count /\ c.panel <= o.number /\ (c.kind = "create" => c.of \in Clients),
         \A c, d \in o.calls : c.n = d.n => c = d
  PROVE  OauthInv'
<1>1. /\ oauth' \in OauthPanel /\ oauth'.calls \subseteq o.calls /\ oauth'.count = o.count
      /\ oauth'.number = o.number /\ ~oauth'.open /\ oauth'.asked = 0 /\ oauth'.shown = 0
  BY KeepIs
<1>2. o.count \in Nat /\ registered' \in SUBSET Clients
  BY DEF OauthPanel, OauthInv, OauthTypeOK
<1>3. OauthTypeOK'
  BY <1>1, <1>2 DEF OauthTypeOK
<1> QED
  BY <1>1, <1>3 DEF OauthInv, OauthOK

LEMMA OauthClosedKeeps ==
  ASSUME OauthInv, OAuthClosed \/ \E escaped \in BOOLEAN : cancelRevoke(escaped)
  PROVE  OauthInv'
<1>1. oauth \in OauthPanel /\ oauth.confirm \in Named /\ registered' = registered
  BY DEF OauthInv, OauthTypeOK, OauthPanel, OAuthClosed, cancelRevoke
<1>2. CASE oauth' = Keep(oauth)
  BY <1>1, <1>2, OauthKept DEF OauthInv, OauthTypeOK
<1>3. CASE oauth' = [oauth EXCEPT !.confirm = Nothing]
  <2>1. /\ oauth' \in OauthPanel /\ oauth'.calls = oauth.calls /\ oauth'.count = oauth.count
        /\ oauth'.number = oauth.number /\ oauth'.open = oauth.open /\ oauth'.asked = oauth.asked
        /\ oauth'.shown = oauth.shown /\ oauth'.stale = oauth.stale /\ oauth'.rows = oauth.rows
    BY <1>1, <1>3 DEF OauthPanel, Named
  <2> QED
    BY <1>1, <2>1 DEF OauthInv, OauthTypeOK, OauthOK, Creating, OfPanel
<1> QED
  BY <1>2, <1>3 DEF OAuthClosed, cancelRevoke, Oauth

LEMMA OauthRevokeKeeps ==
  ASSUME OauthInv, confirmRevoke PROVE OauthInv'
<1> DEFINE o == OauthAsks(oauth, "revoke", oauth.confirm)
           d == [n |-> oauth.count + 1, panel |-> oauth.number, kind |-> "revoke", of |-> oauth.confirm,
                 pc |-> "asked", rows |-> {}]
<1>1. /\ oauth \in OauthPanel /\ oauth.confirm \in Named /\ oauth.count \in Nat /\ oauth.number \in Nat
      /\ \A c \in oauth.calls : c.n \in Nat
      /\ registered' = registered /\ oauth' = Keep(o)
  BY DEF OauthInv, OauthTypeOK, OauthPanel, OauthCall, confirmRevoke, Oauth
<1>2. /\ o \in OauthPanel /\ o.calls = oauth.calls \cup {d}
      /\ o.count = oauth.count + 1 /\ o.number = oauth.number
  BY <1>1, AsksIs
<1>3. d.n = oauth.count + 1 /\ d.panel = oauth.number /\ d.kind = "revoke"
  OBVIOUS
<1> HIDE DEF o, d
<1>4. \A c \in o.calls : c.n <= o.count /\ c.panel <= o.number /\ (c.kind = "create" => c.of \in Clients)
  BY <1>1, <1>2, <1>3 DEF OauthInv, OauthTypeOK
<1>5. \A c, e \in o.calls : c.n = e.n => c = e
  BY <1>1, <1>2, <1>3 DEF OauthInv, OauthTypeOK
<1> QED
  BY <1>1, <1>2, <1>4, <1>5, OauthKept

(* What the panel says of itself.                                          *)
LEMMA OauthSaidKeeps ==
  ASSUME OauthInv, SecretNoted \/ \E c \in Named : NameTyped(c) \/ (c \in Clients /\ requestRevoke(c))
  PROVE  OauthInv'
<1>1. oauth \in OauthPanel /\ registered' = registered
  BY DEF OauthInv, OauthTypeOK, SecretNoted, NameTyped, requestRevoke
<1>2. /\ oauth' \in OauthPanel /\ oauth'.calls = oauth.calls /\ oauth'.count = oauth.count
      /\ oauth'.number = oauth.number /\ oauth'.open = oauth.open /\ oauth'.asked = oauth.asked
      /\ oauth'.shown = oauth.shown /\ oauth'.stale = oauth.stale /\ oauth'.rows = oauth.rows
  <2>1. CASE oauth' = [oauth EXCEPT !.secret = Nothing]
    BY <1>1, <2>1 DEF OauthPanel
  <2>2. ASSUME NEW c \in Named, oauth' = [oauth EXCEPT !.name = c] \/ oauth' = [oauth EXCEPT !.confirm = c]
        PROVE  /\ oauth' \in OauthPanel /\ oauth'.calls = oauth.calls /\ oauth'.count = oauth.count
               /\ oauth'.number = oauth.number /\ oauth'.open = oauth.open /\ oauth'.asked = oauth.asked
               /\ oauth'.shown = oauth.shown /\ oauth'.stale = oauth.stale /\ oauth'.rows = oauth.rows
    BY <1>1, <2>2 DEF OauthPanel
  <2> QED
    BY <2>1, <2>2 DEF SecretNoted, NameTyped, requestRevoke, Oauth
<1> QED
  BY <1>1, <1>2 DEF OauthInv, OauthTypeOK, OauthOK, Creating, OfPanel

LEMMA OauthCreateKeeps ==
  ASSUME OauthInv, handleCreate PROVE OauthInv'
<1> DEFINE o == OauthAsks(oauth, "create", oauth.name)
           d == [n |-> oauth.count + 1, panel |-> oauth.number, kind |-> "create", of |-> oauth.name,
                 pc |-> "asked", rows |-> {}]
<1>1. /\ oauth \in OauthPanel /\ oauth.name \in Clients /\ oauth.name \in Named /\ oauth.count \in Nat /\ oauth.number \in Nat
      /\ oauth.asked \in Nat /\ oauth.shown \in Nat
      /\ \A c \in oauth.calls : c.n \in Nat
      /\ registered' = registered /\ oauth' = [o EXCEPT !.creating = TRUE, !.error = FALSE]
  BY DEF OauthInv, OauthTypeOK, OauthPanel, OauthCall, handleCreate, Oauth, Named
<1>2. /\ d \in OauthCall /\ o \in OauthPanel /\ o.calls = oauth.calls \cup {d} /\ o.count = oauth.count + 1
      /\ o.open = oauth.open /\ o.number = oauth.number /\ o.rows = oauth.rows /\ o.shown = oauth.shown
      /\ o.asked = oauth.asked /\ o.stale = oauth.stale
  BY <1>1, AsksIs
<1>3. d.n = oauth.count + 1 /\ d.panel = oauth.number /\ d.kind = "create" /\ d.pc = "asked" /\ d.of = oauth.name
  OBVIOUS
<1> HIDE DEF o, d
<1>4. /\ oauth' \in OauthPanel /\ oauth'.calls = oauth.calls \cup {d} /\ oauth'.count = oauth.count + 1
      /\ oauth'.open = oauth.open /\ oauth'.number = oauth.number /\ oauth'.rows = oauth.rows
      /\ oauth'.shown = oauth.shown /\ oauth'.asked = oauth.asked /\ oauth'.stale = oauth.stale
  BY <1>1, <1>2 DEF OauthPanel
<1>5. OauthTypeOK'
  BY <1>1, <1>3, <1>4 DEF OauthInv, OauthTypeOK
<1>6. Creating => Creating'
  BY <1>4 DEF Creating, OfPanel
<1>7. OauthOK'
  BY <1>1, <1>3, <1>4, <1>6 DEF OauthInv, OauthOK
<1> QED
  BY <1>5, <1>7 DEF OauthInv

(* A call is served.                                                       *)
LEMMA ServedKeeps ==
  ASSUME OauthInv, NEW c \in oauth.calls, NEW how \in {"ok", "half", "refused"}, Served(c, how)
  PROVE  OauthInv'
<1> DEFINE e == [c EXCEPT !.pc = how, !.rows = registered]
           new == (oauth.calls \ {c}) \cup {e}
<1>1. oauth \in OauthPanel /\ c \in OauthCall /\ c.pc = "asked" /\ registered \in SUBSET Clients
  BY DEF OauthInv, OauthTypeOK, OauthPanel, Served
<1>2. /\ e \in OauthCall /\ e.n = c.n /\ e.panel = c.panel /\ e.kind = c.kind /\ e.of = c.of /\ e.pc = how
      /\ e.rows = registered
  BY <1>1 DEF OauthCall
<1>3. how = "half" => c.kind = "create"
  BY DEF Served
<1> DEFINE now == CASE c.kind = "create" /\ how # "refused" -> registered \cup {c.of}
                    [] c.kind = "revoke" /\ how = "ok" -> registered \ {c.of}
                    [] OTHER -> registered
           blind == now # registered /\ (~OfPanel(c) \/ how = "half")
<1>4. registered' = now
  BY DEF Served
<1>5. PICK s : s = (IF c.kind = "list" /\ c.n = oauth.asked /\ how = "ok" THEN FALSE ELSE oauth.stale \/ blind)
  OBVIOUS
<1>6. oauth' = [oauth EXCEPT !.calls = new, !.stale = s]
  BY <1>5 DEF Served, Oauth
<1>7. s \in BOOLEAN
  BY <1>1, <1>5 DEF OauthPanel
<1>8. /\ oauth' \in OauthPanel /\ oauth'.calls = new /\ oauth'.stale = s /\ oauth'.open = oauth.open
      /\ oauth'.number = oauth.number /\ oauth'.rows = oauth.rows /\ oauth'.shown = oauth.shown
      /\ oauth'.asked = oauth.asked /\ oauth'.count = oauth.count
  <2>1. new \in SUBSET OauthCall
    BY <1>1, <1>2 DEF OauthPanel
  <2> HIDE DEF new
  <2> QED
    BY <1>1, <1>6, <1>7, <2>1 DEF OauthPanel
<1> HIDE DEF e
<1>9. c.kind = "create" => c.of \in Clients
  BY DEF OauthInv, OauthTypeOK
<1>10. now \in SUBSET Clients
  BY <1>1, <1>9
<1>11. \A d \in new : d = e \/ (d \in oauth.calls /\ d # c)
  OBVIOUS
<1>12. OauthTypeOK'
  BY <1>2, <1>4, <1>8, <1>9, <1>10, <1>11 DEF OauthInv, OauthTypeOK
<1>13. Creating => Creating'
  BY <1>1, <1>8 DEF Creating, OfPanel
<1>14. oauth.open /\ now # registered /\ ~blind => Creating'
  BY <1>1, <1>2, <1>3, <1>8 DEF OauthInv, OauthOK, Creating, OfPanel
<1> HIDE DEF now
<1>15. ASSUME oauth.open, NEW d \in new
       PROVE  /\ d.kind = "revoke" => d.panel # oauth.number
              /\ d.kind = "list" => d.panel = oauth.number /\ (d.n = oauth.asked => oauth.shown # oauth.asked)
  BY <1>2, <1>11, <1>15 DEF OauthInv, OauthOK
<1> HIDE DEF now, blind
<1>16. ASSUME oauth.open, now = registered, ~s, NEW d \in new, d.kind = "list", d.n = oauth.asked, d.pc = "ok"
       PROVE  d.rows = registered \/ Creating
  <2>1. CASE d = e
    BY <1>2, <2>1
  <2>2. CASE d \in oauth.calls /\ d # c
    <3>1. c.n # d.n
      BY <2>2 DEF OauthInv, OauthTypeOK
    <3>2. ~oauth.stale
      BY <1>5, <1>16, <3>1
    <3> QED
      BY <1>16, <2>2, <3>2 DEF OauthInv, OauthOK
  <2> QED
    BY <1>11, <2>1, <2>2
<1>17. ASSUME oauth.open, now = registered, ~s, oauth.shown = oauth.asked
       PROVE  oauth.rows = registered \/ Creating
  <2>1. ~(c.kind = "list" /\ c.n = oauth.asked)
    BY <1>17 DEF OauthInv, OauthOK
  <2> QED
    BY <1>5, <1>17, <2>1 DEF OauthInv, OauthOK
<1>18. oauth.open /\ now # registered /\ ~s => Creating'
  BY <1>5, <1>14 DEF now
<1>19. OauthOK'
  BY <1>4, <1>8, <1>13, <1>15, <1>16, <1>17, <1>18 DEF OauthOK
<1> QED
  BY <1>12, <1>19 DEF OauthInv

(* An answer comes: to a panel that is gone, of a list, of a client that   *)
(* was made, or of one that was not.                                       *)
LEMMA OauthAnsweredKeeps ==
  ASSUME OauthInv, NEW c \in oauth.calls, OauthAnswered(c)
  PROVE  OauthInv'
<1> DEFINE o == [oauth EXCEPT !.calls = oauth.calls \ {c}]
<1>1. /\ oauth \in OauthPanel /\ c \in OauthCall /\ c.pc # "asked" /\ registered \in SUBSET Clients
      /\ registered' = registered /\ oauth.number \in Nat /\ oauth.count \in Nat /\ oauth.asked \in Nat
      /\ oauth.shown \in Nat /\ oauth.calls \in SUBSET OauthCall /\ oauth.name \in Named
  BY DEF OauthInv, OauthTypeOK, OauthPanel, OauthAnswered
<1>2. /\ c.kind \in {"list", "create", "revoke"} /\ c.pc \in {"ok", "half", "refused"} /\ c.n \in Nat
      /\ c.rows \in SUBSET Clients /\ c.of \in Named /\ c.n <= oauth.count
  BY <1>1 DEF OauthCall, OauthInv, OauthTypeOK
<1>3. /\ o \in OauthPanel /\ o.calls = oauth.calls \ {c} /\ o.count = oauth.count /\ o.number = oauth.number
      /\ o.open = oauth.open /\ o.asked = oauth.asked /\ o.shown = oauth.shown /\ o.stale = oauth.stale
      /\ o.rows = oauth.rows /\ o.error = oauth.error
  BY <1>1 DEF OauthPanel
<1>4. \A d \in o.calls : d \in oauth.calls /\ d # c /\ d.n # c.n
  BY <1>3 DEF OauthInv, OauthTypeOK
<1> HIDE DEF o
<1>5. CASE ~OfPanel(c)
  <2>1. oauth' = o
    BY <1>5 DEF OauthAnswered, Oauth, o
  <2>2. Creating => Creating'
    BY <1>3, <1>5, <2>1 DEF Creating, OfPanel
  <2>3. OauthTypeOK'
    BY <1>1, <1>3, <1>4, <2>1 DEF OauthInv, OauthTypeOK
  <2>4. OauthOK'
    BY <1>1, <1>3, <1>4, <2>1, <2>2 DEF OauthInv, OauthOK
  <2> QED
    BY <2>3, <2>4 DEF OauthInv
<1>6. CASE OfPanel(c) /\ c.kind = "list"
  <2>1. PICK r, x, s :
          /\ r = (IF c.pc = "ok" THEN c.rows ELSE oauth.rows) /\ x = (oauth.error \/ c.pc # "ok")
          /\ s = (oauth.stale \/ c.pc # "ok")
    OBVIOUS
  <2>2. oauth' = [o EXCEPT !.loading = FALSE, !.shown = c.n, !.rows = r, !.error = x, !.stale = s]
    BY <1>3, <1>6, <2>1 DEF OauthAnswered, Oauth, o
  <2>3. r \in SUBSET Clients /\ x \in BOOLEAN /\ s \in BOOLEAN
    BY <1>1, <1>2, <2>1 DEF OauthPanel
  <2>4. /\ oauth' \in OauthPanel /\ oauth'.calls = o.calls /\ oauth'.count = o.count
        /\ oauth'.number = o.number /\ oauth'.open = o.open /\ oauth'.asked = o.asked
        /\ oauth'.shown = c.n /\ oauth'.stale = s /\ oauth'.rows = r
    BY <1>2, <1>3, <2>2, <2>3 DEF OauthPanel
  <2>5. OauthTypeOK'
    BY <1>1, <1>2, <1>3, <1>4, <2>4 DEF OauthInv, OauthTypeOK
  <2>6. Creating => Creating'
    BY <1>3, <1>6, <2>4 DEF Creating, OfPanel
  <2>7. s => s
    OBVIOUS
  <2>8. ASSUME oauth.open, c.n = oauth.asked, ~s PROVE r = registered \/ Creating
    BY <1>2, <1>6, <2>1, <2>8 DEF OauthInv, OauthOK
  <2>9. \A d \in o.calls : oauth.open =>
          /\ d.kind = "revoke" => d.panel # oauth.number
          /\ d.kind = "list" => d.panel = oauth.number /\ (d.n = oauth.asked => c.n # oauth.asked)
    BY <1>4 DEF OauthInv, OauthOK
  <2>10. \A d \in o.calls : oauth.open /\ d.kind = "list" /\ d.n = oauth.asked /\ d.pc = "ok" /\ ~s =>
           d.rows = registered \/ Creating
    BY <1>4, <2>1 DEF OauthInv, OauthOK
  <2>11. OauthOK'
    BY <1>1, <1>3, <2>4, <2>6, <2>8, <2>9, <2>10 DEF OauthOK
  <2> QED
    BY <2>5, <2>11 DEF OauthInv
<1>7. CASE OfPanel(c) /\ c.kind # "list" /\ c.pc = "ok"
  <2> DEFINE k == [o EXCEPT !.creating = FALSE, !.name = Nothing, !.error = FALSE,
                            !.secret = [of |-> c.of, name |-> oauth.name]]
  <2>1. oauth' = LoadAsked(k)
    BY <1>7 DEF OauthAnswered, Oauth, AfterCreate, o
  <2>2. [of |-> c.of, name |-> oauth.name] \in [of : Named, name : Named] /\ Nothing \in Named
    BY <1>1, <1>2 DEF Named
  <2>3. /\ k \in OauthPanel /\ k.calls = o.calls /\ k.count = o.count /\ k.number = o.number
        /\ k.open = o.open /\ k.shown = o.shown
    BY <1>3, <2>2 DEF OauthPanel
  <2> HIDE DEF k
  <2> DEFINE d == [n |-> k.count + 1, panel |-> k.number, kind |-> "list", of |-> Nothing,
                   pc |-> "asked", rows |-> {}]
  <2>4. /\ oauth' \in OauthPanel /\ oauth'.calls = k.calls \cup {d} /\ oauth'.count = k.count + 1
        /\ oauth'.asked = k.count + 1 /\ oauth'.number = k.number /\ oauth'.shown = k.shown
        /\ oauth'.open = k.open
    BY <2>1, <2>3, LoadAskedIs
  <2>5. d.n = oauth.count + 1 /\ d.panel = oauth.number /\ d.kind = "list" /\ d.pc = "asked"
    BY <1>3, <2>3
  <2> HIDE DEF d
  <2>6. \A e \in oauth.calls : e.n \in Nat /\ e.n # oauth.count + 1
    BY <1>1 DEF OauthInv, OauthTypeOK, OauthCall
  <2>7. OauthTypeOK'
    BY <1>1, <1>3, <1>4, <2>3, <2>4, <2>5, <2>6 DEF OauthInv, OauthTypeOK
  <2>8. oauth.shown # oauth.count + 1
    BY <1>1 DEF OauthInv, OauthTypeOK
  <2>9. \A e \in oauth'.calls : e = d \/ (e \in oauth.calls /\ e.n # oauth.count + 1)
    BY <1>4, <2>3, <2>4, <2>6
  <2>10. OauthOK'
    BY <1>3, <2>3, <2>4, <2>5, <2>8, <2>9 DEF OauthInv, OauthOK
  <2> QED
    BY <2>7, <2>10 DEF OauthInv
<1>8. CASE OfPanel(c) /\ c.kind # "list" /\ c.pc # "ok"
  <2>1. oauth' = [o EXCEPT !.creating = FALSE, !.error = TRUE]
    BY <1>8 DEF OauthAnswered, Oauth, o
  <2>2. /\ oauth' \in OauthPanel /\ oauth'.calls = o.calls /\ oauth'.count = o.count
        /\ oauth'.number = o.number /\ oauth'.open = o.open /\ oauth'.asked = o.asked
        /\ oauth'.shown = o.shown /\ oauth'.stale = o.stale /\ oauth'.rows = o.rows
    BY <1>3, <2>1 DEF OauthPanel
  <2>3. Creating => Creating'
    BY <1>3, <1>8, <2>2 DEF Creating, OfPanel
  <2>4. OauthTypeOK'
    BY <1>1, <1>3, <1>4, <2>2 DEF OauthInv, OauthTypeOK
  <2>5. OauthOK'
    BY <1>1, <1>3, <1>4, <2>2, <2>3 DEF OauthInv, OauthOK
  <2> QED
    BY <2>4, <2>5 DEF OauthInv
<1> QED
  BY <1>5, <1>6, <1>7, <1>8

LEMMA OauthKeeps == ASSUME OauthInv, OauthNext PROVE OauthInv'
<1>1. CASE \E c \in oauth.calls : OauthAnswered(c) \/ \E how \in {"ok", "half", "refused"} : Served(c, how)
  BY <1>1, OauthAnsweredKeeps, ServedKeeps
<1>2. CASE NameTyped(Nothing) \/ \E c \in Clients : NameTyped(c) \/ requestRevoke(c)
  BY <1>2, OauthSaidKeeps DEF Named
<1> QED
  BY <1>1, <1>2, OauthOpenedKeeps, OauthClosedKeeps, OauthCreateKeeps, OauthRevokeKeeps, OauthSaidKeeps
  DEF OauthNext

(* The details of a module.                                                *)
LEMMA ModuleStart == RestInit => ModuleInv
<1> SUFFICES ASSUME RestInit PROVE ModuleInv
  OBVIOUS
<1>1. module = [selected |-> Nothing, shown |-> Nothing, loading |-> FALSE, failed |-> FALSE, last |-> 0,
                asked |-> 0, count |-> 0, calls |-> {}, exported |-> {}]
  BY DEF RestInit
<1> QED
  BY <1>1 DEF ModuleInv, ModuleTypeOK, ModuleOK, ModulePanel

LEMMA ModuleSelectedKeeps ==
  ASSUME ModuleInv, NEW m \in Modules, ModuleSelected(m) PROVE ModuleInv'
<1> DEFINE d == [n |-> module.count + 1, kind |-> "load", of |-> m]
<1>1. /\ module \in ModulePanel /\ module.count \in Nat /\ module.count + 1 \in Nat /\ module.last \in Nat
      /\ module.calls \in SUBSET ModuleCall /\ module.last <= module.count
      /\ \A c \in module.calls : c.n <= module.count
      /\ \A c, e \in module.calls : c.n = e.n => c = e
  BY DEF ModuleInv, ModuleTypeOK, ModulePanel
<1>2. module' = [module EXCEPT !.selected = m, !.count = module.count + 1, !.calls = module.calls \cup {d},
                               !.shown = Nothing, !.loading = TRUE, !.failed = FALSE,
                               !.asked = module.count + 1]
  BY <1>1 DEF ModuleSelected, Module, ModuleShown, DetailAsked, ModuleAsks, ModulePanel
<1>3. d \in ModuleCall /\ d.n = module.count + 1 /\ d.kind = "load" /\ d.of = m
  BY <1>1 DEF ModuleCall
<1> HIDE DEF d
<1>4. /\ module' \in ModulePanel /\ module'.selected = m /\ module'.count = module.count + 1
      /\ module'.calls = module.calls \cup {d} /\ module'.shown = Nothing /\ module'.asked = module.count + 1
      /\ module'.last = module.last
  BY <1>1, <1>2, <1>3 DEF ModulePanel
<1>5. \A c \in module.calls : c.n \in Nat
  BY <1>1 DEF ModuleCall
<1>6. ModuleTypeOK'
  BY <1>1, <1>3, <1>4, <1>5 DEF ModuleTypeOK, ModulePanel
<1>7. ModuleOK'
  BY <1>1, <1>3, <1>4, <1>5 DEF ModuleOK
<1> QED
  BY <1>6, <1>7 DEF ModuleInv

LEMMA ModuleExportKeeps == ASSUME ModuleInv, onExportSql PROVE ModuleInv'
<1> DEFINE d == [n |-> module.count + 1, kind |-> "export", of |-> module.selected]
<1>1. /\ module \in ModulePanel /\ module.count \in Nat /\ module.count + 1 \in Nat /\ module.last \in Nat
      /\ module.asked \in Nat /\ module.asked <= module.count
      /\ module.calls \in SUBSET ModuleCall /\ module.last <= module.count
      /\ module.selected \in Modules \cup {Nothing}
      /\ \A c \in module.calls : c.n <= module.count
      /\ \A c, e \in module.calls : c.n = e.n => c = e
  BY DEF ModuleInv, ModuleTypeOK, ModulePanel
<1>2. module' = [module EXCEPT !.count = module.count + 1, !.calls = module.calls \cup {d}]
  BY <1>1 DEF onExportSql, Module, ModuleAsks
<1>3. d \in ModuleCall /\ d.n = module.count + 1 /\ d.kind = "export"
  BY <1>1 DEF ModuleCall
<1> HIDE DEF d
<1>4. /\ module' \in ModulePanel /\ module'.selected = module.selected /\ module'.count = module.count + 1
      /\ module'.calls = module.calls \cup {d} /\ module'.shown = module.shown
      /\ module'.asked = module.asked /\ module'.last = module.last /\ module'.loading = module.loading
      /\ module'.failed = module.failed
  BY <1>1, <1>2, <1>3 DEF ModulePanel
<1>5. \A c \in module.calls : c.n \in Nat
  BY <1>1 DEF ModuleCall
<1>6. ModuleTypeOK'
  BY <1>1, <1>3, <1>4, <1>5 DEF ModuleTypeOK, ModulePanel
<1>7. ModuleOK'
  BY <1>1, <1>3, <1>4 DEF ModuleInv, ModuleOK
<1> QED
  BY <1>6, <1>7 DEF ModuleInv

LEMMA ModuleAnsweredKeeps ==
  ASSUME ModuleInv, NEW c \in module.calls, NEW ok \in BOOLEAN, ModuleAnswered(c, ok) PROVE ModuleInv'
<1> DEFINE m == [module EXCEPT !.calls = module.calls \ {c}]
<1>1. /\ module \in ModulePanel /\ module.calls \in SUBSET ModuleCall /\ c \in ModuleCall
      /\ c.n \in Nat /\ c.n <= module.count /\ c.of \in Modules \cup {Nothing}
      /\ module.selected \in Modules \cup {Nothing}
      /\ \A e \in module.calls : e.n <= module.count
      /\ \A d, e \in module.calls : d.n = e.n => d = e
  BY DEF ModuleInv, ModuleTypeOK, ModulePanel, ModuleCall
<1>2. /\ m \in ModulePanel /\ m.calls = module.calls \ {c} /\ m.selected = module.selected
      /\ m.count = module.count /\ m.shown = module.shown /\ m.asked = module.asked /\ m.last = module.last
      /\ m.loading = module.loading /\ m.failed = module.failed /\ m.exported = module.exported
  BY <1>1 DEF ModulePanel
<1>3. module.asked <= module.count /\ module.last <= module.count
  BY DEF ModuleInv, ModuleTypeOK
<1> HIDE DEF m
<1>4. CASE c.kind = "load"
  <2>1. PICK f, x : f = (module.failed \/ ~ok) /\ x = (IF ok THEN c.of ELSE module.shown)
    OBVIOUS
  <2>2. module' = [m EXCEPT !.loading = FALSE, !.failed = f, !.last = c.n, !.shown = x]
    BY <1>2, <1>4, <2>1 DEF ModuleAnswered, Module, m
  <2>3. f \in BOOLEAN /\ x \in Modules \cup {Nothing}
    BY <1>1, <2>1 DEF ModulePanel
  <2>4. /\ module' \in ModulePanel /\ module'.selected = m.selected /\ module'.count = m.count
        /\ module'.calls = m.calls /\ module'.shown = x /\ module'.failed = f
        /\ module'.asked = m.asked /\ module'.last = c.n /\ ~module'.loading
    BY <1>1, <1>2, <2>2, <2>3 DEF ModulePanel
  <2>5. ModuleTypeOK'
    BY <1>1, <1>2, <1>3, <2>4 DEF ModuleTypeOK, ModulePanel
  <2>6. ModuleOK'
    BY <1>1, <1>2, <1>4, <2>1, <2>4 DEF ModuleInv, ModuleOK
  <2> QED
    BY <2>5, <2>6 DEF ModuleInv
<1>5. CASE c.kind # "load"
  <2>1. PICK x : x = (IF ok THEN module.exported \cup {<<c.of, module.selected>>} ELSE module.exported)
    OBVIOUS
  <2>2. x \in SUBSET ((Modules \cup {Nothing}) \X (Modules \cup {Nothing}))
    BY <1>1, <2>1 DEF ModulePanel
  <2>3. module' = [m EXCEPT !.exported = x]
    <3>1. m = [m EXCEPT !.exported = m.exported]
      BY <1>2 DEF ModulePanel
    <3> QED
      BY <1>2, <1>5, <2>1, <3>1 DEF ModuleAnswered, Module, m
  <2>4. /\ module' \in ModulePanel /\ module'.selected = m.selected /\ module'.count = m.count
        /\ module'.calls = m.calls /\ module'.shown = m.shown /\ module'.failed = m.failed
        /\ module'.asked = m.asked /\ module'.last = m.last /\ module'.loading = m.loading
    BY <1>2, <2>2, <2>3 DEF ModulePanel
  <2>5. ModuleTypeOK'
    BY <1>1, <1>2, <1>3, <2>4 DEF ModuleTypeOK, ModulePanel
  <2>6. ModuleOK'
    BY <1>1, <1>2, <1>5, <2>4 DEF ModuleInv, ModuleOK
  <2> QED
    BY <2>5, <2>6 DEF ModuleInv
<1> QED
  BY <1>4, <1>5

LEMMA ModuleKeeps == ASSUME ModuleInv, ModuleNext PROVE ModuleInv'
BY ModuleSelectedKeeps, ModuleExportKeeps, ModuleAnsweredKeeps DEF ModuleNext

(* The test of an endpoint.                                                *)
LEMMA TesterStart == RestInit => TesterInv
<1> SUFFICES ASSUME RestInit PROVE TesterInv
  OBVIOUS
<1>1. PICK u : u = (CHOOSE x \in Modules : TRUE)
  OBVIOUS
<1>2. u \in Modules
  BY <1>1, RestAssumption
<1>3. tester = [url |-> u, sending |-> FALSE, response |-> Nothing, sent |-> Nothing, token |-> Nothing,
                client |-> Nothing, fetching |-> FALSE, panel |-> 0, calls |-> {}, count |-> 0]
  BY <1>1 DEF RestInit
<1> QED
  BY <1>2, <1>3 DEF TesterInv, TesterTypeOK, TesterOK, TesterPanel, Named

(* What changes only the entries, or opens the panel again.                *)
LEMMA TesterEntriesKeep ==
  ASSUME TesterInv,
         \/ \E u \in Modules : UrlChanged(u)
         \/ \E c \in Clients : ClientTyped(c)
  PROVE  TesterInv'
<1>1. tester \in TesterPanel
  BY DEF TesterInv, TesterTypeOK, TesterPanel
<1>2. /\ tester' \in TesterPanel /\ tester'.sending = tester.sending /\ tester'.response = tester.response
      /\ tester'.sent = tester.sent /\ tester'.panel = tester.panel /\ tester'.calls = tester.calls
  <2>1. ASSUME NEW u \in Modules, tester' = [tester EXCEPT !.url = u]
        PROVE  /\ tester' \in TesterPanel /\ tester'.sending = tester.sending /\ tester'.response = tester.response
               /\ tester'.sent = tester.sent /\ tester'.panel = tester.panel /\ tester'.calls = tester.calls
    BY <1>1, <2>1 DEF TesterPanel
  <2>2. ASSUME NEW c \in Clients, tester' = [tester EXCEPT !.client = c]
        PROVE  /\ tester' \in TesterPanel /\ tester'.sending = tester.sending /\ tester'.response = tester.response
               /\ tester'.sent = tester.sent /\ tester'.panel = tester.panel /\ tester'.calls = tester.calls
    BY <1>1, <2>2 DEF TesterPanel, Named
  <2> QED
    BY <2>1, <2>2 DEF UrlChanged, ClientTyped, Tester
<1> QED
  BY <1>2 DEF TesterInv, TesterTypeOK, TesterOK, TesterPanel

LEMMA TesterReopenedKeeps == ASSUME TesterInv, TesterReopened PROVE TesterInv'
<1>1. tester \in TesterPanel /\ tester.panel \in Nat /\ \A c \in tester.calls : c.panel <= tester.panel
      /\ c.panel \in Nat
  BY DEF TesterInv, TesterTypeOK, TesterPanel, TesterCall
<1> DEFINE number == tester.panel + 1
<1>4. number \in Nat /\ Nothing \in Named
  BY <1>1 DEF Named
<1>5. tester' = [tester EXCEPT !.panel = number, !.sending = FALSE, !.response = Nothing, !.sent = Nothing,
                               !.token = Nothing, !.client = Nothing, !.fetching = FALSE]
  BY DEF TesterReopened, Tester
<1> HIDE DEF number
<1>2. /\ tester' \in TesterPanel /\ ~tester'.sending /\ tester'.response = Nothing
      /\ tester'.panel = number /\ tester'.calls = tester.calls
  BY <1>1, <1>4, <1>5 DEF TesterPanel
<1>3. \A c \in tester.calls : c.panel # number /\ c.panel <= number
  BY <1>1 DEF number
<1> QED
  BY <1>2, <1>3 DEF TesterInv, TesterTypeOK, TesterOK, TesterPanel

LEMMA TesterSendKeeps == ASSUME TesterInv, send PROVE TesterInv'
<1> DEFINE d == [panel |-> tester.panel, kind |-> "send", of |-> tester.url]
<1>1. /\ tester \in TesterPanel /\ tester.panel \in Nat /\ tester.count + 1 \in Nat
      /\ tester.url \in Modules /\ tester.calls \in SUBSET TesterCall /\ ~tester.sending
      /\ \A c \in tester.calls : c.panel <= tester.panel
  BY DEF TesterInv, TesterTypeOK, TesterPanel, send
<1>2. tester' = [tester EXCEPT !.sending = TRUE, !.response = Nothing, !.sent = tester.url,
                               !.count = tester.count + 1, !.calls = tester.calls \cup {d}]
  BY <1>1 DEF send, Tester, TesterAsks, TesterPanel
<1>3. d \in TesterCall /\ d.panel = tester.panel /\ d.kind = "send" /\ d.of = tester.url
  BY <1>1 DEF TesterCall
<1> HIDE DEF d
<1>4. /\ tester' \in TesterPanel /\ tester'.sending /\ tester'.response = Nothing
      /\ tester'.sent = tester.url /\ tester'.panel = tester.panel /\ tester'.calls = tester.calls \cup {d}
  BY <1>1, <1>2, <1>3 DEF TesterPanel, Named
<1>5. TesterTypeOK'
  BY <1>1, <1>3, <1>4 DEF TesterTypeOK, TesterPanel
<1>6. TesterOK'
  BY <1>1, <1>3, <1>4 DEF TesterInv, TesterOK
<1> QED
  BY <1>5, <1>6 DEF TesterInv

LEMMA TesterFetchKeeps == ASSUME TesterInv, fetchToken PROVE TesterInv'
<1> DEFINE d == [panel |-> tester.panel, kind |-> "token", of |-> tester.client]
<1>1. /\ tester \in TesterPanel /\ tester.panel \in Nat /\ tester.count + 1 \in Nat
      /\ tester.client \in Named /\ tester.calls \in SUBSET TesterCall
      /\ \A c \in tester.calls : c.panel <= tester.panel
  BY DEF TesterInv, TesterTypeOK, TesterPanel
<1>2. tester' = [tester EXCEPT !.fetching = TRUE, !.count = tester.count + 1,
                               !.calls = tester.calls \cup {d}]
  BY <1>1 DEF fetchToken, Tester, TesterAsks, TesterPanel
<1>3. d \in TesterCall /\ d.panel = tester.panel /\ d.kind = "token"
  BY <1>1 DEF TesterCall
<1> HIDE DEF d
<1>4. /\ tester' \in TesterPanel /\ tester'.sending = tester.sending /\ tester'.response = tester.response
      /\ tester'.sent = tester.sent /\ tester'.panel = tester.panel /\ tester'.calls = tester.calls \cup {d}
  BY <1>1, <1>2, <1>3 DEF TesterPanel
<1>5. TesterTypeOK'
  BY <1>1, <1>3, <1>4 DEF TesterTypeOK, TesterPanel
<1>6. TesterOK'
  BY <1>1, <1>3, <1>4 DEF TesterInv, TesterOK
<1> QED
  BY <1>5, <1>6 DEF TesterInv

LEMMA TesterAnsweredKeeps ==
  ASSUME TesterInv, NEW c \in tester.calls, NEW ok \in BOOLEAN, TesterAnswered(c, ok) PROVE TesterInv'
<1> DEFINE t == [tester EXCEPT !.calls = tester.calls \ {c}]
<1>1. /\ tester \in TesterPanel /\ tester.calls \in SUBSET TesterCall /\ c.of \in Modules \cup Named
      /\ \A e \in tester.calls : e.panel <= tester.panel
      /\ tester.response \in {Nothing, tester.sent}
      /\ \A e \in tester.calls : e.panel = tester.panel /\ e.kind = "send" =>
           tester.sending /\ e.of = tester.sent
      /\ tester.sending => \E e \in tester.calls : e.panel = tester.panel /\ e.kind = "send"
  BY DEF TesterInv, TesterTypeOK, TesterOK, TesterPanel, TesterCall
<1>2. /\ t \in TesterPanel /\ t.calls = tester.calls \ {c} /\ t.sending = tester.sending
      /\ t.response = tester.response /\ t.sent = tester.sent /\ t.panel = tester.panel
  BY <1>1 DEF TesterPanel
<1> HIDE DEF t
<1>3. CASE ~OfTester(c)
  <2>1. tester' = t
    BY <1>3 DEF TesterAnswered, Tester, t
  <2>2. c.panel # tester.panel
    BY <1>3 DEF OfTester
  <2> QED
    BY <1>1, <1>2, <2>1, <2>2 DEF TesterInv, TesterTypeOK, TesterOK, TesterPanel
<1>4. CASE OfTester(c) /\ c.kind = "send"
  <2>1. PICK x : x = (IF ok THEN c.of ELSE tester.response)
    OBVIOUS
  <2>2. tester' = [t EXCEPT !.sending = FALSE, !.response = x]
    BY <1>2, <1>4, <2>1 DEF TesterAnswered, Tester, t
  <2>3. c.panel = tester.panel /\ c.of = tester.sent
    BY <1>1, <1>4 DEF OfTester
  <2>4. x \in Modules \cup Named /\ x \in {Nothing, tester.sent}
    BY <1>1, <2>1, <2>3 DEF TesterPanel
  <2>5. /\ tester' \in TesterPanel /\ ~tester'.sending /\ tester'.response = x
        /\ tester'.sent = t.sent /\ tester'.panel = t.panel /\ tester'.calls = t.calls
    BY <1>2, <2>2, <2>4 DEF TesterPanel
  <2>6. \A e \in t.calls : ~(e.panel = tester.panel /\ e.kind = "send")
    <3>1. ASSUME NEW e \in t.calls, e.panel = tester.panel, e.kind = "send" PROVE e = c
      <4>1. e \in TesterCall /\ c \in TesterCall /\ e.of = tester.sent
        BY <1>1, <1>2, <3>1
      <4> QED
        BY <1>4, <2>3, <3>1, <4>1 DEF TesterCall
    <3> QED
      BY <1>2, <3>1
  <2>7. TesterTypeOK'
    BY <1>1, <1>2, <2>5 DEF TesterTypeOK, TesterPanel
  <2> QED
    BY <1>2, <2>4, <2>5, <2>6, <2>7 DEF TesterInv, TesterOK
<1>5. CASE OfTester(c) /\ c.kind # "send"
  <2>1. tester' = (IF ok THEN [t EXCEPT !.fetching = FALSE, !.token = c.of, !.client = Nothing]
                   ELSE [t EXCEPT !.fetching = FALSE])
    BY <1>5 DEF TesterAnswered, Tester, t
  <2>2. /\ tester' \in TesterPanel /\ tester'.sending = t.sending /\ tester'.response = t.response
        /\ tester'.sent = t.sent /\ tester'.panel = t.panel /\ tester'.calls = t.calls
    BY <1>1, <1>2, <2>1 DEF TesterPanel, Named
  <2>3. TesterTypeOK'
    BY <1>1, <1>2, <2>2 DEF TesterTypeOK, TesterPanel
  <2>4. TesterOK'
    BY <1>1, <1>2, <1>5, <2>2 DEF TesterOK
  <2> QED
    BY <2>3, <2>4 DEF TesterInv
<1> QED
  BY <1>3, <1>4, <1>5

LEMMA TesterKeeps == ASSUME TesterInv, TesterNext PROVE TesterInv'
BY TesterEntriesKeep, TesterReopenedKeeps, TesterSendKeeps, TesterFetchKeeps, TesterAnsweredKeeps
DEF TesterNext

(* The form of the builder.                                                *)
LEMMA FillsIs ==
  ASSUME NEW f \in FormPanel PROVE Fills(f) \in FormPanel /\ Fills(f).key = f.key /\ Fills(f).source = f.source
<1> DEFINE d == [n |-> f.count + 1, kind |-> ListOf[f.type]]
           calls == f.calls \cup {d}
<1>1. f.count \in Nat /\ f.count + 1 \in Nat /\ f.calls \in SUBSET [n : Nat, kind : Lists \cup {"suggest"}]
  BY DEF FormPanel
<1>2. CASE f.type \in DOMAIN ListOf /\ ListOf[f.type] \notin f.full
  <2>1. ListOf[f.type] \in Lists
    BY <1>2 DEF ListOf, Lists
  <2>2. d \in [n : Nat, kind : Lists \cup {"suggest"}]
    BY <1>1, <2>1
  <2>3. calls \in SUBSET [n : Nat, kind : Lists \cup {"suggest"}]
    BY <1>1, <2>2
  <2>4. Fills(f) = [f EXCEPT !.count = f.count + 1, !.calls = calls]
    BY <1>2 DEF Fills
  <2> HIDE DEF calls
  <2> QED
    BY <1>1, <2>3, <2>4 DEF FormPanel
<1> QED
  BY <1>2 DEF Fills

LEMMA FormStart == RestInit => FormInv
<1> SUFFICES ASSUME RestInit PROVE FormInv
  OBVIOUS
<1>1. form \in [type : {"none"}, source : {Nothing}, key : {Nothing}, has : SUBSET Lists,
                full : {{}}, answered : {{}}, calls : {{}}, count : {0}, sheep : {Nothing}]
  BY DEF RestInit
<1> QED
  BY <1>1 DEF FormInv, FormPanel, FormKinds, SelectShowsSource

(* A new value of the form, filled or not.                                 *)
LEMMA FormIs ==
  ASSUME NEW f \in FormPanel, f.key = f.source, form' = f \/ form' = Fills(f) \/ form' = Fills(Fills(f))
  PROVE  FormInv'
BY FillsIs DEF FormInv, SelectShowsSource

LEMMA FormTypedKeeps ==
  ASSUME FormInv,
         \/ \E kind \in {Nothing, "TABLE", "PROCEDURE"} : BuilderShown(kind)
         \/ \E t \in {"auto-crud", "procedure", "custom-sql"} : TypeChosen(t)
         \/ \E kind \in {"TABLE", "VIEW", "PROCEDURE", "FUNCTION"} : onObjectChange(kind)
         \/ TriedAgain
  PROVE  FormInv'
<1>1. form \in FormPanel /\ form.key = form.source
  BY DEF FormInv, SelectShowsSource
<1>2. ASSUME NEW kind \in {Nothing, "TABLE", "PROCEDURE"}, BuilderShown(kind) PROVE FormInv'
  <2>1. PICK t : t = IF kind \in {"PROCEDURE", "FUNCTION"} THEN "procedure" ELSE "auto-crud"
    OBVIOUS
  <2> DEFINE f == [form EXCEPT !.type = t, !.source = kind, !.key = kind]
  <2>2. form' = Fills(f)
    BY <1>2, <2>1 DEF BuilderShown, Form
  <2>3. t \in {"auto-crud", "procedure"}
    BY <2>1
  <2>4. f \in FormPanel /\ f.key = f.source
    BY <1>1, <2>3 DEF FormPanel, FormKinds
  <2> HIDE DEF f
  <2> QED
    BY <2>2, <2>4, FormIs
<1>3. ASSUME NEW t \in {"auto-crud", "procedure", "custom-sql"}, TypeChosen(t) PROVE FormInv'
  <2> DEFINE f == [form EXCEPT !.type = t]
  <2>1. form' = Fills(f)
    BY <1>3 DEF TypeChosen, Form
  <2>2. f \in FormPanel /\ f.key = f.source
    BY <1>1 DEF FormPanel
  <2> HIDE DEF f
  <2> QED
    BY <2>1, <2>2, FormIs
<1>4. ASSUME NEW kind \in {"TABLE", "VIEW", "PROCEDURE", "FUNCTION"}, onObjectChange(kind) PROVE FormInv'
  <2> DEFINE f == [form EXCEPT !.source = kind, !.key = kind]
  <2>1. form' = f
    BY <1>4 DEF onObjectChange, Form
  <2>2. f \in FormPanel /\ f.key = f.source
    BY <1>1 DEF FormPanel, FormKinds
  <2> HIDE DEF f
  <2> QED
    BY <2>1, <2>2, FormIs
<1>5. ASSUME TriedAgain PROVE FormInv'
  <2> DEFINE f == [form EXCEPT !.sheep = Nothing]
  <2>1. form' = f
    BY <1>5 DEF TriedAgain, Form
  <2>2. f \in FormPanel /\ f.key = f.source
    BY <1>1 DEF FormPanel
  <2> HIDE DEF f
  <2> QED
    BY <2>1, <2>2, FormIs
<1> QED
  BY <1>2, <1>3, <1>4, <1>5

LEMMA FormHeardKeeps ==
  ASSUME FormInv, NEW c \in form.calls,
         \/ \E ok \in BOOLEAN : ListCame(c, ok)
         \/ \E s \in Suggestions \cup {Nothing} : SuggestionCame(c, s)
  PROVE  FormInv'
<1> DEFINE f == [form EXCEPT !.calls = form.calls \ {c}]
<1>1. form \in FormPanel /\ form.key = form.source
  BY DEF FormInv, SelectShowsSource
<1>2. f \in FormPanel /\ f.key = f.source /\ f.answered \in SUBSET Lists /\ f.full \in SUBSET Lists
  BY <1>1 DEF FormPanel
<1>3. ASSUME NEW ok \in BOOLEAN, ListCame(c, ok) PROVE FormInv'
  <2>1. c.kind \in Lists
    BY <1>3 DEF ListCame
  <2> DEFINE full == f.full \cup {c.kind}
             answered == f.answered \cup {c.kind}
             g == [f EXCEPT !.full = full, !.answered = answered]
             h == [f EXCEPT !.answered = answered]
  <2>2. form' \in {f, g, h, Fills(h)}
    BY <1>3 DEF ListCame, Form
  <2>3. full \in SUBSET Lists /\ answered \in SUBSET Lists
    BY <1>2, <2>1
  <2> HIDE DEF f, full, answered
  <2>4. g \in FormPanel /\ g.key = g.source
    BY <1>2, <2>3 DEF FormPanel
  <2>5. h \in FormPanel /\ h.key = h.source
    BY <1>2, <2>3 DEF FormPanel
  <2> HIDE DEF g, h
  <2> QED
    BY <1>2, <2>2, <2>4, <2>5, FormIs
<1>4. ASSUME NEW s \in Suggestions \cup {Nothing}, SuggestionCame(c, s) PROVE FormInv'
  <2> DEFINE g == [f EXCEPT !.sheep = s]
  <2>1. form' = g
    BY <1>4 DEF SuggestionCame, Form
  <2> HIDE DEF f
  <2>2. g \in FormPanel /\ g.key = g.source
    BY <1>2 DEF FormPanel
  <2> HIDE DEF g
  <2> QED
    BY <2>1, <2>2, FormIs
<1> QED
  BY <1>3, <1>4

LEMMA FormSuggestedKeeps ==
  ASSUME FormInv, requestSuggestion \/ applySuggestion PROVE FormInv'
<1>1. form \in FormPanel /\ form.key = form.source /\ form.count + 1 \in Nat
  BY DEF FormInv, SelectShowsSource, FormPanel
<1>2. ASSUME requestSuggestion PROVE FormInv'
  <2> DEFINE d == [n |-> form.count + 1, kind |-> "suggest"]
             calls == form.calls \cup {d}
             f == [form EXCEPT !.count = form.count + 1, !.calls = calls]
  <2>1. form' = f
    BY <1>2 DEF requestSuggestion, Form
  <2>2. calls \in SUBSET [n : Nat, kind : Lists \cup {"suggest"}]
    BY <1>1 DEF FormPanel
  <2> HIDE DEF calls
  <2>3. f \in FormPanel /\ f.key = f.source
    BY <1>1, <2>2 DEF FormPanel
  <2> HIDE DEF f
  <2> QED
    BY <2>1, <2>3, FormIs
<1>3. ASSUME applySuggestion PROVE FormInv'
  <2>1. PICK s, t, x : /\ s = form.sheep
                       /\ t = (IF s.type = Nothing THEN form.type ELSE s.type)
                       /\ x = (IF s.source = Nothing THEN form.source ELSE s.source)
    OBVIOUS
  <2>2. s \in Suggestions
    BY <1>1, <1>3, <2>1 DEF applySuggestion, FormPanel
  <2>3. t \in {"none", "auto-crud", "procedure", "custom-sql"} /\ x \in FormKinds
    BY <1>1, <2>1, <2>2 DEF FormPanel, FormKinds, Suggestions
  <2> DEFINE f == [form EXCEPT !.type = t, !.source = x, !.key = x, !.sheep = Nothing]
  <2>4. x = (IF s.source = Nothing THEN form.key ELSE KeyOf(form, s.source))
    BY <1>1, <2>1 DEF KeyOf
  <2>5. form' \in {Fills(f), Fills(Fills(f))}
    BY <1>3, <2>1, <2>4 DEF applySuggestion, Form
  <2>6. f \in FormPanel /\ f.key = f.source
    BY <1>1, <2>3 DEF FormPanel
  <2> HIDE DEF f
  <2> QED
    BY <2>5, <2>6, FormIs
<1> QED
  BY <1>2, <1>3

LEMMA FormKeeps == ASSUME FormInv, FormNext PROVE FormInv'
BY FormTypedKeeps, FormHeardKeeps, FormSuggestedKeeps DEF FormNext

(* What is known of ORDS.                                                  *)
LEMMA OrdsStart == RestInit => OrdsInv
<1> SUFFICES ASSUME RestInit PROVE OrdsInv
  OBVIOUS
<1>1. PICK p : p = (CHOOSE x \in Pages : TRUE)
  OBVIOUS
<1>2. p \in Pages
  BY <1>1, RestAssumption
<1>3. ords = [page |-> p, boot |-> "opening", session |-> Nothing, connectionId |-> Nothing,
              state |-> Nothing, shown |-> 0, asked |-> 0, visit |-> 0, modal |-> FALSE, modals |-> 0,
              saved |-> [q \in Pages |-> FALSE], enabled |-> {}, calls |-> {}, count |-> 0,
              misplaced |-> FALSE]
  BY <1>1 DEF RestInit
<1>4. [q \in Pages |-> FALSE] \in [Pages -> BOOLEAN]
  OBVIOUS
<1> QED
  BY <1>2, <1>3, <1>4 DEF OrdsInv, OrdsTypeOK, OrdsPanel, OrdsOK

OrdsRest(o, p) ==
  /\ p.page = o.page /\ p.boot = o.boot /\ p.session = o.session /\ p.connectionId = o.connectionId
  /\ p.state = o.state /\ p.shown = o.shown /\ p.saved = o.saved /\ p.enabled = o.enabled

OrdsAsked(o, p, c) ==
  /\ p \in OrdsPanel /\ OrdsRest(o, p)
  /\ c \in OrdsCall /\ p.calls = o.calls \cup {c} /\ p.count = o.count + 1
  /\ p.asked = IF c.kind = "enable" THEN o.asked ELSE o.count + 1

LEMMA OrdsAsksIs ==
  ASSUME NEW o \in OrdsPanel, NEW k \in {"boot", "again", "enable"}, NEW v \in Nat, NEW m \in Nat
  PROVE  OrdsAsked(o, OrdsAsks(o, k, v, m),
                   [n |-> o.count + 1, kind |-> k, visit |-> v, modal |-> m, of |-> o.session,
                    pc |-> "asked", enabled |-> FALSE])
<1> DEFINE c == [n |-> o.count + 1, kind |-> k, visit |-> v, modal |-> m, of |-> o.session,
                 pc |-> "asked", enabled |-> FALSE]
<1>1. o.count + 1 \in Nat /\ o.session \in Pages \cup {Nothing} /\ o.calls \in SUBSET OrdsCall /\ o.asked \in Nat
  BY DEF OrdsPanel
<1>2. c \in OrdsCall /\ c.kind = k
  BY <1>1 DEF OrdsCall
<1>3. PICK a : a = (IF k = "enable" THEN o.asked ELSE o.count + 1)
  OBVIOUS
<1>4. a \in Nat /\ o.calls \cup {c} \in SUBSET OrdsCall
  BY <1>1, <1>2, <1>3
<1>5. OrdsAsks(o, k, v, m) = [o EXCEPT !.count = o.count + 1, !.asked = a, !.calls = o.calls \cup {c}]
  BY <1>3 DEF OrdsAsks
<1> HIDE DEF c
<1>6. OrdsAsked(o, OrdsAsks(o, k, v, m), c)
  BY <1>1, <1>2, <1>3, <1>4, <1>5 DEF OrdsPanel, OrdsAsked, OrdsRest
<1> QED
  BY <1>6 DEF c

(* The page opens its session and asks.                                    *)
LEMMA OrdsPageKeeps ==
  ASSUME OrdsInv, SessionOpened \/ \E p \in Pages : PageEntered(p) PROVE OrdsInv'
<1>1. ords \in OrdsPanel /\ ords.visit + 1 \in Nat /\ ords.page \in Pages
  BY DEF OrdsInv, OrdsTypeOK, OrdsPanel
<1>2. CASE SessionOpened
  <2>1. ords' = [ords EXCEPT !.boot = "listing", !.session = ords.page]
    BY <1>2 DEF SessionOpened, Ords
  <2>2. /\ ords' \in OrdsPanel /\ ords'.boot = "listing" /\ ords'.session = ords'.page
        /\ ords'.calls = ords.calls /\ ords'.count = ords.count /\ ords'.asked = ords.asked
        /\ ords'.shown = ords.shown
    BY <1>1, <2>1 DEF OrdsPanel
  <2> QED
    BY <2>2 DEF OrdsInv, OrdsTypeOK, OrdsOK
<1>3. ASSUME NEW p \in Pages, PageEntered(p) PROVE OrdsInv'
  <2>1. PICK v \in Nat : v = ords.visit + 1
    BY <1>1
  <2>2. ords' = [ords EXCEPT !.page = p, !.boot = "opening", !.visit = v, !.modal = FALSE]
    BY <1>3, <2>1 DEF PageEntered, Ords
  <2>3. /\ ords' \in OrdsPanel /\ ords'.boot = "opening"
        /\ ords'.calls = ords.calls /\ ords'.count = ords.count /\ ords'.asked = ords.asked
        /\ ords'.shown = ords.shown
    BY <1>1, <2>2 DEF OrdsPanel
  <2> QED
    BY <2>3 DEF OrdsInv, OrdsTypeOK, OrdsOK
<1> QED
  BY <1>2, <1>3

LEMMA OrdsListedKeeps == ASSUME OrdsInv, SchemasListed PROVE OrdsInv'
<1> DEFINE k == [ords EXCEPT !.boot = "up", !.connectionId = ords.page]
           c == [n |-> k.count + 1, kind |-> "boot", visit |-> ords.visit, modal |-> 0, of |-> k.session,
                 pc |-> "asked", enabled |-> FALSE]
<1>1. /\ ords \in OrdsPanel /\ ords.visit \in Nat /\ ords.page \in Pages /\ ords.count \in Nat
      /\ ords.session = ords.page /\ ords.shown \in Nat /\ ords.shown <= ords.count
      /\ ords.calls \in SUBSET OrdsCall
  BY DEF OrdsInv, OrdsTypeOK, OrdsPanel, OrdsOK, SchemasListed
<1>2. /\ k \in OrdsPanel /\ k.boot = "up" /\ k.connectionId = ords.page /\ k.page = ords.page
      /\ k.session = ords.page /\ k.calls = ords.calls /\ k.count = ords.count /\ k.shown = ords.shown
  BY <1>1 DEF OrdsPanel
<1>3. ords' = OrdsAsks(k, "boot", ords.visit, 0)
  BY DEF SchemasListed, Ords
<1> HIDE DEF k
<1>4. /\ ords' \in OrdsPanel /\ ords'.calls = k.calls \cup {c} /\ ords'.count = k.count + 1
      /\ ords'.asked = k.count + 1 /\ ords'.page = k.page /\ ords'.boot = k.boot
      /\ ords'.session = k.session /\ ords'.connectionId = k.connectionId /\ ords'.shown = k.shown
  <2>1. /\ "boot" \in {"boot", "again", "enable"} /\ "boot" # "enable" /\ 0 \in Nat
        /\ k \in OrdsPanel /\ ords.visit \in Nat
    BY <1>1, <1>2
  <2>2. OrdsAsked(k, ords', c)
    BY <1>3, <2>1, OrdsAsksIs
  <2> QED
    BY <2>2 DEF OrdsAsked, OrdsRest
<1>5. c.n = ords.count + 1 /\ c.of = ords.page /\ c.pc = "asked"
  BY <1>2
<1> HIDE DEF c
<1>6. \A d \in ords.calls : d.n \in Nat /\ d.n <= ords.count
  BY <1>1 DEF OrdsInv, OrdsTypeOK, OrdsCall
<1>7. OrdsTypeOK'
  BY <1>1, <1>2, <1>4, <1>5, <1>6 DEF OrdsInv, OrdsTypeOK
<1>8. OrdsOK'
  BY <1>1, <1>2, <1>4, <1>5, <1>6 DEF OrdsOK
<1> QED
  BY <1>7, <1>8 DEF OrdsInv

(* The dialog opens and closes.                                            *)
LEMMA ModalIs ==
  ASSUME NEW o \in OrdsPanel
  PROVE  LET p == Modal(o) IN
         /\ p \in OrdsPanel /\ p.calls = o.calls /\ p.count = o.count /\ p.asked = o.asked
         /\ p.page = o.page /\ p.boot = o.boot /\ p.session = o.session
         /\ p.connectionId = o.connectionId /\ p.state = o.state /\ p.shown = o.shown
         /\ p.saved = o.saved /\ p.enabled = o.enabled
<1>1. PICK m : m = (IF ords.modal THEN o.modals ELSE o.modals + 1)
  OBVIOUS
<1>2. m \in Nat
  BY <1>1 DEF OrdsPanel
<1>3. Modal(o) = [o EXCEPT !.modal = TRUE, !.modals = m]
  BY <1>1 DEF Modal
<1> QED
  BY <1>2, <1>3 DEF OrdsPanel

(* What the invariant says of a value of ords.                             *)
OrdsSame(o, p) ==
  /\ p \in OrdsPanel /\ p.calls = o.calls /\ p.count = o.count /\ p.asked = o.asked
  /\ p.page = o.page /\ p.boot = o.boot /\ p.session = o.session
  /\ p.connectionId = o.connectionId /\ p.state = o.state /\ p.shown = o.shown
  /\ p.saved = o.saved /\ p.enabled = o.enabled

LEMMA OrdsModalKeeps == ASSUME OrdsInv, onOpenBootstrap \/ ModalClosed PROVE OrdsInv'
<1>1. ords \in OrdsPanel
  BY DEF OrdsInv, OrdsTypeOK
<1>2. OrdsSame(ords, ords')
  <2>1. CASE ords' = Modal(ords)
    BY <1>1, <2>1, ModalIs DEF OrdsSame
  <2>2. CASE ords' = [ords EXCEPT !.modal = FALSE]
    BY <1>1, <2>2 DEF OrdsSame, OrdsPanel
  <2> QED
    BY <2>1, <2>2 DEF onOpenBootstrap, ModalClosed, Ords
<1> QED
  BY <1>2 DEF OrdsSame, OrdsInv, OrdsTypeOK, OrdsOK, Enabling

LEMMA OrdsEnableKeeps == ASSUME OrdsInv, onEnableSchema PROVE OrdsInv'
<1> DEFINE c == [n |-> ords.count + 1, kind |-> "enable", visit |-> ords.visit, modal |-> ords.modals,
                 of |-> ords.session, pc |-> "asked", enabled |-> FALSE]
<1>1. /\ ords \in OrdsPanel /\ ords.visit \in Nat /\ ords.modals \in Nat /\ ords.count \in Nat
      /\ ords.calls \in SUBSET OrdsCall /\ ords.asked \in Nat /\ ords.shown \in Nat
  BY DEF OrdsInv, OrdsTypeOK, OrdsPanel
<1>2. ords' = OrdsAsks(ords, "enable", ords.visit, ords.modals)
  BY DEF onEnableSchema, Ords
<1>3. /\ ords' \in OrdsPanel /\ ords'.calls = ords.calls \cup {c} /\ ords'.count = ords.count + 1
      /\ ords'.asked = ords.asked /\ ords'.page = ords.page /\ ords'.boot = ords.boot
      /\ ords'.session = ords.session /\ ords'.connectionId = ords.connectionId
      /\ ords'.state = ords.state /\ ords'.shown = ords.shown /\ ords'.saved = ords.saved
      /\ ords'.enabled = ords.enabled
  <2>1. /\ "enable" \in {"boot", "again", "enable"}
        /\ ords \in OrdsPanel /\ ords.visit \in Nat /\ ords.modals \in Nat
    BY <1>1
  <2>2. OrdsAsked(ords, ords', c)
    BY <1>2, <2>1, OrdsAsksIs
  <2> QED
    BY <2>2 DEF OrdsAsked, OrdsRest
<1>4. c.n = ords.count + 1 /\ c.kind = "enable"
  OBVIOUS
<1> HIDE DEF c
<1>5. \A d \in ords.calls : d.n \in Nat /\ d.n <= ords.count
  BY <1>1 DEF OrdsInv, OrdsTypeOK, OrdsCall
<1>6. OrdsTypeOK'
  BY <1>1, <1>3, <1>4, <1>5 DEF OrdsInv, OrdsTypeOK
<1>7. Enabling => Enabling'
  BY <1>3 DEF Enabling
<1>8. OrdsOK'
  BY <1>3, <1>4, <1>7 DEF OrdsInv, OrdsOK
<1> QED
  BY <1>6, <1>8 DEF OrdsInv

(* The address is saved for the connection the store is about.             *)
LEMMA OrdsUrlKeeps == ASSUME OrdsInv, setBaseUrl PROVE OrdsInv'
<1>1. /\ ords \in OrdsPanel /\ ords.saved \in [Pages -> BOOLEAN] /\ ords.connectionId \in Pages \cup {Nothing}
      /\ ords.state \in [of : Pages \cup {Nothing}, enabled : BOOLEAN, url : BOOLEAN]
  BY DEF OrdsInv, OrdsTypeOK, OrdsPanel, setBaseUrl, ModalShown
<1>2. PICK st, sv, mis :
        /\ st = [ords.state EXCEPT !.url = TRUE]
        /\ sv = (IF ords.connectionId = Nothing THEN ords.saved
                 ELSE [ords.saved EXCEPT ![ords.connectionId] = TRUE])
        /\ mis = (ords.misplaced \/ ords.page # ords.connectionId)
  OBVIOUS
<1>3. ords' = [ords EXCEPT !.state = st, !.modal = FALSE, !.misplaced = mis, !.saved = sv]
  BY <1>1, <1>2 DEF setBaseUrl, Ords, OrdsPanel
<1>4. /\ st \in [of : Pages \cup {Nothing}, enabled : BOOLEAN, url : BOOLEAN] /\ st.url
      /\ st.of = ords.state.of /\ st.enabled = ords.state.enabled
  BY <1>1, <1>2
<1>5. sv \in [Pages -> BOOLEAN] /\ mis \in BOOLEAN
  BY <1>1, <1>2, RestAssumption DEF OrdsPanel
<1>6. /\ ords' \in OrdsPanel /\ ords'.calls = ords.calls /\ ords'.count = ords.count
      /\ ords'.asked = ords.asked /\ ords'.page = ords.page /\ ords'.boot = ords.boot
      /\ ords'.session = ords.session /\ ords'.connectionId = ords.connectionId
      /\ ords'.state = st /\ ords'.shown = ords.shown /\ ords'.saved = sv /\ ords'.enabled = ords.enabled
  BY <1>1, <1>3, <1>4, <1>5 DEF OrdsPanel
<1>7. ords.state # Nothing
  BY DEF setBaseUrl, ModalShown
<1> QED
  BY <1>4, <1>6, <1>7 DEF OrdsInv, OrdsTypeOK, OrdsOK, Enabling

LEMMA OrdsServedKeeps ==
  ASSUME OrdsInv, NEW c \in ords.calls, NEW ok \in BOOLEAN, OrdsServed(c, ok) PROVE OrdsInv'
<1> DEFINE has == c.of \in ords.enabled
           how == IF ok THEN "ok" ELSE "failed"
           e == [c EXCEPT !.pc = how, !.enabled = has]
           new == (ords.calls \ {c}) \cup {e}
<1>1. /\ ords \in OrdsPanel /\ c \in OrdsCall /\ c.pc = "asked" /\ ords.calls \in SUBSET OrdsCall
      /\ c.of \in Pages \cup {Nothing} /\ ords.enabled \in SUBSET (Pages \cup {Nothing})
  BY DEF OrdsInv, OrdsTypeOK, OrdsPanel, OrdsCall, OrdsServed
<1>2. PICK en : en = (IF ok /\ c.kind = "enable" THEN ords.enabled \cup {c.of} ELSE ords.enabled)
  OBVIOUS
<1>3. ords' = [ords EXCEPT !.enabled = en, !.calls = new]
  BY <1>2 DEF OrdsServed, Ords
<1>4. en \in SUBSET (Pages \cup {Nothing})
  BY <1>1, <1>2
<1> HIDE DEF has
<1>5. has \in BOOLEAN
  BY DEF has
<1>6. e \in OrdsCall /\ e.n = c.n /\ e.kind = c.kind /\ e.of = c.of /\ e.pc = how /\ (e.enabled <=> has)
  BY <1>1, <1>5 DEF OrdsCall
<1>7. new \in SUBSET OrdsCall
  BY <1>1, <1>6
<1>8. \A d \in new : d = e \/ (d \in ords.calls /\ d # c)
  OBVIOUS
<1> HIDE DEF e
<1>9. (ords.calls \ {c}) \subseteq new /\ e \in new
  OBVIOUS
<1> HIDE DEF new
<1>10. /\ ords' \in OrdsPanel /\ ords'.calls = new /\ ords'.count = ords.count
       /\ ords'.asked = ords.asked /\ ords'.page = ords.page /\ ords'.boot = ords.boot
       /\ ords'.session = ords.session /\ ords'.connectionId = ords.connectionId
       /\ ords'.state = ords.state /\ ords'.shown = ords.shown /\ ords'.saved = ords.saved
       /\ ords'.enabled = en
  BY <1>1, <1>3, <1>4, <1>7 DEF OrdsPanel
<1>11. OrdsTypeOK'
  BY <1>6, <1>8, <1>10 DEF OrdsInv, OrdsTypeOK
<1>12. Enabling => Enabling'
  BY <1>1, <1>9, <1>10 DEF Enabling
<1>13. ok /\ c.kind = "enable" => Enabling'
  BY <1>6, <1>9, <1>10 DEF Enabling
<1>14. ~(ok /\ c.kind = "enable") => en = ords.enabled
  BY <1>2
<1>15. OrdsOK'
  BY <1>6, <1>8, <1>10, <1>12, <1>13, <1>14 DEF OrdsInv, OrdsOK, has
<1> QED
  BY <1>11, <1>15 DEF OrdsInv

(* An answer comes: of what is there, of a schema that was enabled.        *)
LEMMA OrdsAnsweredKeeps ==
  ASSUME OrdsInv, NEW c \in ords.calls, OrdsAnswered(c) PROVE OrdsInv'
<1> DEFINE o == [ords EXCEPT !.calls = ords.calls \ {c}]
           st == IF c.pc = "ok" THEN [of |-> c.of, enabled |-> c.enabled, url |-> Url(o)] ELSE Nothing
           d == [o EXCEPT !.shown = c.n, !.state = st]
<1>1. /\ ords \in OrdsPanel /\ c \in OrdsCall /\ c.pc # "asked" /\ ords.calls \in SUBSET OrdsCall
      /\ c.of \in Pages \cup {Nothing} /\ c.enabled \in BOOLEAN /\ c.n \in Nat /\ c.n <= ords.count
      /\ c.kind \in {"boot", "again", "enable"} /\ c.visit \in Nat /\ c.modal \in Nat
      /\ ords.connectionId \in Pages \cup {Nothing} /\ ords.saved \in [Pages -> BOOLEAN]
      /\ ords.count \in Nat /\ ords.asked \in Nat /\ ords.shown \in Nat
      /\ ords.asked <= ords.count /\ ords.shown <= ords.count
  BY DEF OrdsInv, OrdsTypeOK, OrdsPanel, OrdsCall, OrdsAnswered
<1>2. /\ o \in OrdsPanel /\ o.calls = ords.calls \ {c} /\ o.count = ords.count /\ o.asked = ords.asked
      /\ o.page = ords.page /\ o.boot = ords.boot /\ o.session = ords.session
      /\ o.connectionId = ords.connectionId /\ o.state = ords.state /\ o.shown = ords.shown
      /\ o.saved = ords.saved /\ o.enabled = ords.enabled
  BY <1>1 DEF OrdsPanel
<1>3. \A e \in o.calls : e \in ords.calls /\ e # c /\ e.n # c.n /\ e.n \in Nat /\ e.n <= ords.count
  BY <1>1, <1>2 DEF OrdsInv, OrdsTypeOK, OrdsCall
<1>4. o = [ords EXCEPT !.calls = ords.calls \ {c}]
  OBVIOUS
<1> HIDE DEF o
<1>5. Url(o) \in BOOLEAN /\ (ords.connectionId \in Pages => (Url(o) <=> ords.saved[ords.connectionId]))
  BY <1>1, <1>2, RestAssumption DEF Url
<1>6. st \in {Nothing} \cup [of : Pages \cup {Nothing}, enabled : BOOLEAN, url : BOOLEAN]
  BY <1>1, <1>5
<1>7. c.pc = "ok" => st.of = c.of /\ st.enabled = c.enabled /\ st.url = Url(o)
  OBVIOUS
<1>8. c.pc # "ok" => st = Nothing
  OBVIOUS
<1>9. Detected(o, c) = d
  BY DEF Detected
<1> HIDE DEF st
<1>10. /\ d \in OrdsPanel /\ d.calls = o.calls /\ d.count = ords.count /\ d.asked = ords.asked
       /\ d.page = ords.page /\ d.boot = ords.boot /\ d.session = ords.session
       /\ d.connectionId = ords.connectionId /\ d.state = st /\ d.shown = c.n
       /\ d.saved = ords.saved /\ d.enabled = ords.enabled
  BY <1>1, <1>2, <1>6 DEF OrdsPanel
<1> HIDE DEF d
<1>11. CASE c.kind \in {"boot", "again"}
  <2>1. ords' \in {d, Modal(d), [d EXCEPT !.modal = FALSE]}
    BY <1>4, <1>9, <1>11 DEF OrdsAnswered, Ords
  <2>2. OrdsSame(d, ords')
    <3>1. CASE ords' = d
      BY <1>10, <3>1 DEF OrdsSame
    <3>2. CASE ords' = Modal(d)
      BY <1>10, <3>2, ModalIs DEF OrdsSame
    <3>3. CASE ords' = [d EXCEPT !.modal = FALSE]
      BY <1>10, <3>3 DEF OrdsSame, OrdsPanel
    <3> QED
      BY <2>1, <3>1, <3>2, <3>3
  <2>3. OrdsTypeOK'
    BY <1>1, <1>3, <1>10, <2>2 DEF OrdsInv, OrdsTypeOK, OrdsSame
  <2>4. Enabling => Enabling'
    BY <1>2, <1>10, <1>11, <2>2 DEF Enabling, OrdsSame
  <2>5. ASSUME ords.boot = "up", c.n = ords.asked, st # Nothing
        PROVE  /\ st.of = ords.page
               /\ (st.enabled <=> ords.page \in ords.enabled) \/ Enabling
               /\ ords.saved[ords.page] => st.url
    <3>1. c.of = ords.page /\ c.pc = "ok" /\ ords.connectionId = ords.page /\ ords.page \in Pages
      BY <1>1, <1>8, <1>11, <2>5 DEF OrdsInv, OrdsOK, OrdsPanel
    <3>2. (c.enabled <=> ords.page \in ords.enabled) \/ Enabling
      BY <1>11, <2>5, <3>1 DEF OrdsInv, OrdsOK
    <3> QED
      BY <1>5, <1>7, <3>1, <3>2
  <2>6. OrdsOK'
    BY <1>3, <1>10, <2>2, <2>4, <2>5 DEF OrdsInv, OrdsOK, OrdsSame
  <2> QED
    BY <2>3, <2>6 DEF OrdsInv
<1>12. CASE c.kind = "enable" /\ c.pc = "ok"
  <2> DEFINE e == [n |-> o.count + 1, kind |-> "again", visit |-> c.visit, modal |-> c.modal, of |-> o.session,
                   pc |-> "asked", enabled |-> FALSE]
  <2>1. ords' = OrdsAsks(o, "again", c.visit, c.modal)
    BY <1>4, <1>12 DEF OrdsAnswered, Ords
  <2>2. /\ "again" \in {"boot", "again", "enable"} /\ "again" # "enable"
        /\ o \in OrdsPanel /\ c.visit \in Nat /\ c.modal \in Nat
    BY <1>1, <1>2
  <2>3. OrdsAsked(o, ords', e)
    BY <2>1, <2>2, OrdsAsksIs
  <2>4. /\ ords' \in OrdsPanel /\ ords'.calls = o.calls \cup {e} /\ ords'.count = o.count + 1
        /\ ords'.asked = o.count + 1
    BY <2>3 DEF OrdsAsked
  <2>5. /\ ords'.page = o.page /\ ords'.boot = o.boot
        /\ ords'.session = o.session /\ ords'.connectionId = o.connectionId /\ ords'.shown = o.shown
    BY <2>3 DEF OrdsAsked, OrdsRest
  <2>6. e.n = ords.count + 1 /\ e.of = ords.session /\ e.pc = "asked"
    BY <1>2
  <2> HIDE DEF e
  <2>7. OrdsTypeOK'
    BY <1>1, <1>2, <1>3, <2>4, <2>5, <2>6 DEF OrdsInv, OrdsTypeOK
  <2>8. OrdsOK'
    BY <1>1, <1>2, <1>3, <2>4, <2>5, <2>6 DEF OrdsInv, OrdsOK
  <2> QED
    BY <2>7, <2>8 DEF OrdsInv
<1>13. CASE c.kind = "enable" /\ c.pc # "ok"
  <2>1. ords' = o
    BY <1>4, <1>13 DEF OrdsAnswered, Ords
  <2>2. Enabling => Enabling'
    BY <1>2, <1>13, <2>1 DEF Enabling
  <2>3. OrdsTypeOK'
    BY <1>1, <1>2, <1>3, <2>1 DEF OrdsInv, OrdsTypeOK
  <2>4. OrdsOK'
    BY <1>2, <1>3, <2>1, <2>2 DEF OrdsInv, OrdsOK
  <2> QED
    BY <2>3, <2>4 DEF OrdsInv
<1> QED
  BY <1>1, <1>11, <1>12, <1>13

LEMMA OrdsKeeps == ASSUME OrdsInv, OrdsNext PROVE OrdsInv'
BY OrdsPageKeeps, OrdsListedKeeps, OrdsModalKeeps, OrdsEnableKeeps, OrdsUrlKeeps, OrdsServedKeeps,
   OrdsAnsweredKeeps DEF OrdsNext

(* The dialogs together.                                                   *)
RestInv == OauthInv /\ ModuleInv /\ TesterInv /\ FormInv /\ OrdsInv

LEMMA RestStart == RestInit => RestInv
BY OauthStart, ModuleStart, TesterStart, FormStart, OrdsStart DEF RestInv

LEMMA RestStays == ASSUME RestInv, UNCHANGED restVars PROVE RestInv'
<1> USE DEF restVars
<1>1. OauthInv'
  BY DEF RestInv, OauthInv, OauthTypeOK, OauthOK, Creating, OfPanel
<1>2. ModuleInv' /\ TesterInv'
  BY DEF RestInv, ModuleInv, ModuleTypeOK, ModuleOK, TesterInv, TesterTypeOK, TesterOK
<1>3. FormInv' /\ OrdsInv'
  BY DEF RestInv, FormInv, SelectShowsSource, OrdsInv, OrdsTypeOK, OrdsOK, Enabling
<1> QED
  BY <1>1, <1>2, <1>3 DEF RestInv

LEMMA RestHolds == RestInv => RestTellsTheTruth
<1> SUFFICES ASSUME RestInv PROVE RestTellsTheTruth
  OBVIOUS
<1>1. ClientsAreRegistered
  BY DEF RestInv, OauthInv, OauthOK, Creating, ClientsAreRegistered
<1>2. DetailsAreOfModule
  BY DEF RestInv, ModuleInv, ModuleOK, DetailsAreOfModule, Detailed
<1>3. ResponseWasSent /\ SelectShowsSource
  BY DEF RestInv, TesterInv, TesterOK, ResponseWasSent, FormInv
<1>4. DetectionIsOfPage
  BY DEF RestInv, OrdsInv, OrdsOK, Enabling, DetectionIsOfPage
<1> QED
  BY <1>1, <1>2, <1>3, <1>4 DEF RestTellsTheTruth

-----------------------------------------------------------------------------
(***************************************************************************)
(* The window of the debugger.                                             *)
(***************************************************************************)

(* A place the program stops at.                                           *)
IsFrame(f) == f \in Heads \X Lines
PanelText == [of : Heads, kind : {"none", "script", "source"}, edited : BOOLEAN]
PanelView == [text : PanelText, watches : BOOLEAN, marks : SUBSET Lines]
PanelEditor == [source : PanelText, object : Heads, view : PanelView \cup {Null}]
PanelChain == [kind : {"none", "open", "run", "start", "step", "stop"},
               pc : {"none", "open", "run", "stop", "lock", "build", "sync", "step", "values", "source", "locals"},
               of : Heads, at : Answers \cup {Null}, reply : Answers \cup {Null}]

PanelTypeOK ==
  /\ opened \in Heads /\ script \in PanelText /\ editor \in PanelEditor
  /\ breakpoints \in SUBSET [of : Heads, line : Lines]
  /\ chain \in [Chains -> PanelChain] /\ dbg \in PanelSession \cup {Null} /\ wire \in Seq(Chains)
  /\ past \in [adrift : BOOLEAN, unmarked : BOOLEAN] /\ unopened \in BOOLEAN

PanelAfterStop == {"values", "source", "locals"}
ChainIs(x) ==
  /\ x.kind = "none" => x = NoChain
  /\ x.kind = "open" => x.pc = "open" /\ x.of \in Objects
  /\ x.kind = "run" => x.pc \in {"run", "stop"}
  /\ x.kind = "start" => x.pc \in {"lock", "build", "sync"} \cup PanelAfterStop
  /\ x.kind = "step" => x.pc \in {"step"} \cup PanelAfterStop
  /\ x.kind = "stop" => x.pc = "stop"
  /\ x.pc \in {"values", "source"} => x.at \in Answers

(* Who waits for the connection is not answered yet, and waits once, and   *)
(* for a session.                                                          *)
OnWire(x) == x.pc \in {"sync", "step", "values", "locals"} /\ x.reply = Null
WireIs ==
  /\ \A i \in 1 .. Len(wire) : OnWire(chain[wire[i]])
  /\ \A i, j \in 1 .. Len(wire) : wire[i] = wire[j] => i = j
  /\ wire # <<>> => dbg # Null

(* What is shown as running is what will tell otherwise.                   *)
Runner(x) == x.kind = "run" \/ (x.kind = "start" /\ x.pc \in {"lock", "build", "sync"})
RunningIs == status = "running" => \E c \in Chains : Runner(chain[c])

ScriptIs == ~unopened /\ ~script.edited => script.of = opened /\ script.kind = "script"

(* The editor's object is that of its source; the view shows the source,   *)
(* edited or not; the members are those of the package opened last.        *)
EditorIs ==
  LET t == editor.source IN
  /\ ~t.edited
  /\ t.kind = "source" => editor.object = t.of
  /\ t.kind # "source" => editor.object = Null
  /\ editor.view # Null => editor.view.text \in {t, [t EXCEPT !.edited = TRUE]}
  /\ t.kind = "script" => t.of \in Objects /\ members = MemberOf[t.of]
  /\ ~unopened => t.kind = "source" \/ t = Text(opened, "script")
ObjectShown == IF editor.object = Null THEN opened ELSE editor.object
MarksAre ==
  ~past.unmarked /\ editor.view # Null /\ (~unopened \/ editor.source = Text(opened, "script")) =>
    editor.view.marks = MarksOf(ObjectShown, breakpoints)

(* Where a chain that is alone, and was not begun adrift, stands.          *)
Asked(c) ==
  \/ chain[c].reply = Null /\ dbg # Null /\ wire = <<c>>
  \/ chain[c].reply \in {Error, Completed} /\ dbg = Null /\ wire = <<>>
  \/ dbg # Null /\ IsFrame(dbg.at) /\ chain[c].reply = dbg.at /\ wire = <<>>
Halted == dbg # Null /\ IsFrame(dbg.at) /\ status = "paused" /\ frame = dbg.at
Reading(c) ==
  \/ chain[c].reply = Null /\ wire = <<c>>
  \/ chain[c].reply = dbg.at /\ wire = <<>>
NoSession == dbg = Null /\ wire = <<>>
StageIs(c) ==
  LET pc == chain[c].pc IN
  /\ pc \in {"open", "run"} => NoSession /\ status # "paused"
  /\ pc = "stop" => NoSession
  /\ pc = "lock" => wire = <<>> /\ status = "running"
  /\ pc = "build" => NoSession /\ status = "running"
  /\ pc = "sync" => Asked(c) /\ status = "running"
  /\ pc = "step" => Asked(c) /\ (chain[c].reply = Error => status # "paused")
  /\ pc = "values" => Halted /\ Reading(c)
  /\ pc = "source" => Halted /\ liveVars = frame /\ wire = <<>>
  /\ pc = "locals" => Halted /\ liveVars = frame /\ Reading(c)
StoppedIsShown ==
  /\ (status = "paused") <=> (dbg # Null)
  /\ status = "paused" => frame = dbg.at /\ liveVars = frame /\ localVars = frame
StageInv ==
  ~past.adrift =>
    /\ \A b, c \in Chains : chain[b] # NoChain /\ chain[c] # NoChain => b = c
    /\ (\A c \in Chains : chain[c] = NoChain) => StoppedIsShown
    /\ \A c \in Chains : chain[c] # NoChain => StageIs(c)

WindowIs == ScriptIs /\ EditorIs /\ MarksAre
ProgramIs == (\A c \in Chains : ChainIs(chain[c])) /\ WireIs /\ RunningIs /\ StageInv
PanelInv == PanelTypeOK /\ WindowIs /\ ProgramIs

-----------------------------------------------------------------------------
(* What the operators leave of the chains.                                 *)
Pcs == {"open", "run", "stop", "lock", "build", "sync", "step", "values", "source", "locals"}

LEMMA SpecialsAre ==
  /\ Error \in Answers /\ Completed \in Answers /\ Ok \in Answers /\ Nulls \in Answers /\ Out \in Answers
  /\ Error # Completed /\ Nulls # Error /\ Nulls # Completed
  /\ Null \notin Answers
  /\ \A f : IsFrame(f) => f \in Answers /\ f \notin {Error, Completed, Nulls, Null} /\ f[1] \in Heads
<1>1. /\ Error \in Answers /\ Completed \in Answers /\ Ok \in Answers /\ Nulls \in Answers /\ Out \in Answers
      /\ Error # Completed /\ Nulls # Error /\ Nulls # Completed
  BY DEF Error, Completed, Ok, Nulls, Out, Answers, Heads
<1>2. Null \notin Answers
  BY PanelAssumption
<1>3. ASSUME NEW f, IsFrame(f)
      PROVE  f \in Answers /\ f \notin {Error, Completed, Nulls, Null} /\ f[1] \in Heads
  <2>1. PICK h \in Heads, l \in Lines : f = <<h, l>>
    BY <1>3 DEF IsFrame
  <2>2. l # 0
    BY PanelAssumption
  <2> QED BY <1>2, <2>1, <2>2 DEF Answers, Error, Completed, Nulls
<1> QED BY <1>1, <1>2, <1>3

LEMMA ChainFacts ==
  ASSUME PanelInv, NEW c \in Chains
  PROVE  /\ chain[c] \in PanelChain /\ ChainIs(chain[c])
         /\ chain[c].kind \in {"none", "open", "run", "start", "step", "stop"}
         /\ chain[c].of \in Heads /\ chain[c].at \in Answers \cup {Null} /\ chain[c].reply \in Answers \cup {Null}
         /\ chain \in [Chains -> PanelChain] /\ wire \in Seq(Chains)
         /\ dbg \in PanelSession \cup {Null} /\ past \in [adrift : BOOLEAN, unmarked : BOOLEAN]
         /\ past.adrift \in BOOLEAN /\ past.unmarked \in BOOLEAN
         /\ opened \in Heads /\ script \in PanelText /\ editor \in PanelEditor /\ unopened \in BOOLEAN
         /\ breakpoints \in SUBSET [of : Heads, line : Lines]
<1>1. PanelTypeOK /\ ChainIs(chain[c]) /\ chain[c] \in PanelChain
  BY DEF PanelInv, ProgramIs, PanelTypeOK
<1> QED BY <1>1 DEF PanelTypeOK, PanelChain

LEMMA NoChainIs ==
  /\ NoChain \in PanelChain /\ ChainIs(NoChain) /\ NoChain.kind = "none" /\ NoChain.pc = "none"
  /\ ~Runner(NoChain) /\ ~OnWire(NoChain)
  BY DEF NoChain, PanelChain, ChainIs, Runner, OnWire, Heads, PanelAfterStop

LEMMA GoesIs ==
  ASSUME PanelInv, NEW c \in Chains, NEW pc \in Pcs, NEW reply \in Answers \cup {Null}, Goes(c, pc, reply)
  PROVE  /\ chain' \in [Chains -> PanelChain] /\ \A b \in Chains \ {c} : chain'[b] = chain[b]
         /\ chain'[c].pc = pc /\ chain'[c].reply = reply
         /\ chain'[c].kind = chain[c].kind /\ chain'[c].of = chain[c].of /\ chain'[c].at = chain[c].at
<1>1. chain \in [Chains -> PanelChain] /\ chain[c] \in PanelChain
  BY ChainFacts
<1>2. PICK x : x = [chain[c] EXCEPT !.pc = pc, !.reply = reply]
  OBVIOUS
<1>3. chain' = [chain EXCEPT ![c] = x]
  BY <1>1, <1>2 DEF Goes
<1>4. /\ x \in PanelChain /\ x.pc = pc /\ x.reply = reply /\ x.kind = chain[c].kind /\ x.of = chain[c].of
      /\ x.at = chain[c].at
  BY <1>1, <1>2 DEF PanelChain, Pcs
<1> QED BY <1>1, <1>3, <1>4

LEMMA EndsIs ==
  ASSUME PanelInv, NEW c \in Chains, Ends(c)
  PROVE  /\ chain' \in [Chains -> PanelChain] /\ \A b \in Chains \ {c} : chain'[b] = chain[b]
         /\ chain'[c] = NoChain
  BY ChainFacts, NoChainIs DEF Ends

LEMMA BegunIs ==
  ASSUME NEW f \in [Chains -> PanelChain], NEW g, NEW c \in Chains,
         NEW kind \in {"open", "run", "start", "step", "stop"}, NEW pc \in Pcs, NEW o \in Heads,
         NEW reply \in Answers \cup {Null}, g = Begun(f, c, kind, pc, o, reply)
  PROVE  /\ g \in [Chains -> PanelChain] /\ \A b \in Chains \ {c} : g[b] = f[b]
         /\ g[c].kind = kind /\ g[c].pc = pc /\ g[c].reply = reply /\ g[c].of = o
<1>1. PICK x : x = [kind |-> kind, pc |-> pc, of |-> o, at |-> Null, reply |-> reply]
  OBVIOUS
<1>2. x \in PanelChain /\ x.kind = kind /\ x.pc = pc /\ x.reply = reply /\ x.of = o
  BY <1>1 DEF PanelChain, Pcs
<1>3. g = [f EXCEPT ![c] = x]
  BY <1>1 DEF Begun
<1> QED BY <1>2, <1>3

(* Who waits is answered, and nobody else.                                 *)
Waits(c) == Contains(wire, c)
LEMMA StoppedIs ==
  ASSUME PanelInv, NEW g, g = Stopped(chain)
  PROVE  /\ g \in [Chains -> PanelChain]
         /\ \A b \in Chains : /\ ~Waits(b) => g[b] = chain[b]
                              /\ g[b].kind = chain[b].kind /\ g[b].pc = chain[b].pc /\ g[b].of = chain[b].of
                              /\ g[b].at = chain[b].at
                              /\ Waits(b) => g[b].reply = (IF chain[b].pc = "step" THEN Completed
                                                           ELSE IF chain[b].pc = "sync" THEN Error ELSE Nulls)
<1>1. ASSUME NEW b \in Chains
      PROVE  /\ g[b] \in PanelChain
             /\ ~Waits(b) => g[b] = chain[b]
             /\ g[b].kind = chain[b].kind /\ g[b].pc = chain[b].pc /\ g[b].of = chain[b].of
             /\ g[b].at = chain[b].at
             /\ Waits(b) => g[b].reply = (IF chain[b].pc = "step" THEN Completed
                                          ELSE IF chain[b].pc = "sync" THEN Error ELSE Nulls)
  <2>1. chain[b] \in PanelChain
    BY ChainFacts
  <2>2. PICK r \in Answers : r = IF chain[b].pc = "step" THEN Completed
                                 ELSE IF chain[b].pc = "sync" THEN Error ELSE Nulls
    BY SpecialsAre
  <2>3. CASE ~Waits(b)
    <3>1. g[b] = chain[b]
      BY <2>3 DEF Stopped, Waits
    <3> QED BY <2>1, <2>3, <3>1
  <2>4. CASE Waits(b)
    <3>1. r = CASE chain[b].pc = "step" -> Completed [] chain[b].pc = "sync" -> Error [] OTHER -> Nulls
      BY <2>2
    <3>2. g[b] = [chain[b] EXCEPT !.reply = CASE chain[b].pc = "step" -> Completed
                                              [] chain[b].pc = "sync" -> Error [] OTHER -> Nulls]
      BY <2>4 DEF Stopped, Waits
    <3>3. g[b] = [chain[b] EXCEPT !.reply = r]
      BY <3>1, <3>2
    <3>4. g[b] \in PanelChain /\ g[b].reply = r /\ g[b].kind = chain[b].kind /\ g[b].pc = chain[b].pc
          /\ g[b].of = chain[b].of /\ g[b].at = chain[b].at
      BY <2>1, <3>3 DEF PanelChain
    <3> QED BY <2>2, <2>4, <3>4
  <2> QED BY <2>3, <2>4
<1>2. g = [b \in Chains |-> g[b]]
  BY DEF Stopped
<1>3. g \in [Chains -> PanelChain]
  BY <1>1, <1>2
<1> QED BY <1>1, <1>3

LEMMA WaitsAre ==
  ASSUME PanelInv, NEW b \in Chains, Waits(b)
  PROVE  OnWire(chain[b])
<1>1. PICK i \in 1 .. Len(wire) : wire[i] = b
  BY DEF Waits, Contains
<1> QED BY <1>1 DEF PanelInv, ProgramIs, WireIs

(* A chain that another's step leaves where it stands.                     *)
Like(p, o) == p.kind = o.kind /\ p.pc = o.pc /\ p.of = o.of /\ p.at = o.at /\ (o = NoChain => p = o)

LEMMA StoppedAreLike ==
  ASSUME PanelInv, NEW g, g = Stopped(chain), NEW b \in Chains
  PROVE  Like(g[b], chain[b])
<1>1. g[b].kind = chain[b].kind /\ g[b].pc = chain[b].pc /\ g[b].of = chain[b].of
      /\ g[b].at = chain[b].at /\ (~Waits(b) => g[b] = chain[b])
  BY StoppedIs
<1>2. chain[b] = NoChain => ~Waits(b)
  BY WaitsAre, NoChainIs
<1> QED BY <1>1, <1>2 DEF Like

LEMMA LikeIs ==
  ASSUME NEW o, NEW p, Like(p, o), ChainIs(o)
  PROVE  ChainIs(p) /\ (p = NoChain <=> o = NoChain) /\ (Runner(p) <=> Runner(o))
BY NoChainIs DEF Like, ChainIs, Runner

RunStep(c) ==
  \/ status' # "running" \/ Runner(chain'[c])
  \/ status' = status /\ ~Runner(chain[c])
StageStep(c) ==
  \/ /\ chain[c] # NoChain /\ past'.adrift = past.adrift
     /\ ~past.adrift => IF chain'[c] = NoChain THEN StoppedIsShown' ELSE StageIs(c)'
  \/ /\ chain[c] = NoChain /\ chain'[c] # NoChain
     /\ ~past'.adrift => StageIs(c)' /\ \A b \in Chains : chain[b] = NoChain

LEMMA ProgramStep ==
  ASSUME PanelInv, NEW c \in Chains, chain' \in [Chains -> PanelChain],
         \A b \in Chains \ {c} : Like(chain'[b], chain[b]), ChainIs(chain'[c]),
         WireIs', RunStep(c), StageStep(c)
  PROVE  ProgramIs'
<1>1. ASSUME NEW b \in Chains \ {c}
      PROVE  /\ ChainIs(chain'[b]) /\ (chain'[b] = NoChain <=> chain[b] = NoChain)
             /\ Runner(chain'[b]) <=> Runner(chain[b])
  <2>1. Like(chain'[b], chain[b]) /\ ChainIs(chain[b])
    BY ChainFacts
  <2> QED BY <2>1, LikeIs
<1>2. \A b \in Chains : ChainIs(chain'[b])
  BY <1>1
<1>3. RunningIs'
  <2> SUFFICES ASSUME status' = "running"
               PROVE  \E b \in Chains : Runner(chain'[b])
    BY DEF RunningIs
  <2>1. CASE Runner(chain'[c])
    BY <2>1
  <2>2. CASE ~Runner(chain'[c])
    <3>1. status = "running" /\ ~Runner(chain[c])
      BY <2>2 DEF RunStep
    <3>2. PICK b \in Chains : Runner(chain[b])
      BY <3>1 DEF PanelInv, ProgramIs, RunningIs
    <3> QED BY <1>1, <3>1, <3>2
  <2> QED BY <2>1, <2>2
<1>4. StageInv'
  <2> SUFFICES ASSUME ~past'.adrift
               PROVE  /\ \A a, b \in Chains : chain'[a] # NoChain /\ chain'[b] # NoChain => a = b
                      /\ (\A b \in Chains : chain'[b] = NoChain) => StoppedIsShown'
                      /\ \A b \in Chains : chain'[b] # NoChain => StageIs(b)'
    BY DEF StageInv
  <2>1. \A b \in Chains \ {c} : chain[b] = NoChain
    <3>1. CASE chain[c] # NoChain
      <4>1. ~past.adrift
        BY <3>1 DEF StageStep
      <4> QED BY <3>1, <4>1 DEF PanelInv, ProgramIs, StageInv
    <3>2. CASE chain[c] = NoChain
      BY <3>2 DEF StageStep
    <3> QED BY <3>1, <3>2
  <2>2. \A b \in Chains \ {c} : chain'[b] = NoChain
    BY <1>1, <2>1
  <2>3. chain'[c] = NoChain => StoppedIsShown'
    BY DEF StageStep
  <2>4. chain'[c] # NoChain => StageIs(c)'
    BY DEF StageStep
  <2> QED BY <2>2, <2>3, <2>4
<1> QED BY <1>2, <1>3, <1>4 DEF ProgramIs

(* A chain that is alone stands somewhere; the others do not wait.         *)
LEMMA AloneStands ==
  ASSUME PanelInv, NEW c \in Chains, chain[c] # NoChain, ~past.adrift
  PROVE  StageIs(c)
  BY DEF PanelInv, ProgramIs, StageInv

LEMMA WireEmpty ==
  ASSUME wire' = <<>>
  PROVE  WireIs'
  BY DEF WireIs

(* Nobody who waits is stepped, and the wire stays.                        *)
LEMMA WireSame ==
  ASSUME PanelInv, NEW c \in Chains, ~OnWire(chain[c]), wire' = wire, dbg # Null => dbg' # Null,
         \A b \in Chains \ {c} : chain'[b] = chain[b]
  PROVE  WireIs'
<1>1. WireIs /\ wire \in Seq(Chains)
  BY ChainFacts DEF PanelInv, ProgramIs
<1>2. \A i \in 1 .. Len(wire) : wire[i] \in Chains \ {c}
  BY <1>1 DEF WireIs
<1> QED BY <1>1, <1>2 DEF WireIs

LEMMA WireGrows ==
  ASSUME PanelInv, NEW c \in Chains, ~OnWire(chain[c]), wire' = Append(wire, c), OnWire(chain'[c]), dbg' # Null,
         \A b \in Chains \ {c} : chain'[b] = chain[b]
  PROVE  WireIs'
<1>1. WireIs /\ wire \in Seq(Chains)
  BY ChainFacts DEF PanelInv, ProgramIs
<1>2. \A i \in 1 .. Len(wire) : wire[i] \in Chains \ {c}
  BY <1>1 DEF WireIs
<1>3. Len(wire') = Len(wire) + 1 /\ Len(wire) \in Nat
  BY <1>1
<1>4. \A i \in 1 .. Len(wire') : wire'[i] = IF i = Len(wire) + 1 THEN c ELSE wire[i]
  BY <1>1, <1>3
<1> QED BY <1>1, <1>2, <1>3, <1>4 DEF WireIs

LEMMA WireServed ==
  ASSUME PanelInv, NEW c \in Chains, wire # <<>>, c = Head(wire), wire' = Tail(wire), dbg # Null => dbg' # Null,
         \A b \in Chains \ {c} : chain'[b] = chain[b]
  PROVE  WireIs' /\ OnWire(chain[c]) /\ dbg # Null
<1>1. WireIs /\ wire \in Seq(Chains)
  BY ChainFacts DEF PanelInv, ProgramIs
<1>2. Len(wire) \in Nat /\ Len(wire) > 0 /\ wire[1] = c
  BY <1>1
<1>3. Len(wire') = Len(wire) - 1 /\ \A i \in 1 .. Len(wire') : wire'[i] = wire[i + 1]
  BY <1>1, <1>2
<1>4. \A i \in 1 .. Len(wire) : i # 1 => wire[i] \in Chains \ {c}
  BY <1>1, <1>2 DEF WireIs
<1> QED BY <1>1, <1>2, <1>3, <1>4 DEF WireIs

WindowVars == <<opened, members, script, editor, breakpoints, unopened>>

LEMMA WindowSame ==
  ASSUME PanelInv, UNCHANGED WindowVars, past'.unmarked = past.unmarked
  PROVE  WindowIs'
<1>1. /\ opened' = opened /\ members' = members /\ script' = script /\ editor' = editor
      /\ breakpoints' = breakpoints /\ unopened' = unopened
  BY DEF WindowVars
<1> QED BY <1>1 DEF PanelInv, WindowIs, ScriptIs, EditorIs, MarksAre, ObjectShown

(* A step of a chain that leaves the window alone.                         *)
LEMMA ChainStep ==
  ASSUME PanelInv, UNCHANGED WindowVars, past' \in [adrift : BOOLEAN, unmarked : BOOLEAN],
         past'.unmarked = past.unmarked, dbg' \in PanelSession \cup {Null}, wire' \in Seq(Chains),
         NEW c \in Chains, chain' \in [Chains -> PanelChain],
         \A b \in Chains \ {c} : Like(chain'[b], chain[b]), ChainIs(chain'[c]),
         WireIs', RunStep(c), StageStep(c)
  PROVE  PanelInv'
<1>1. WindowIs' /\ ProgramIs'
  BY WindowSame, ProgramStep
<1>2. PanelTypeOK'
  BY DEF PanelInv, PanelTypeOK, WindowVars
<1> QED BY <1>1, <1>2 DEF PanelInv

LEMMA SameIsLike ==
  ASSUME NEW c \in Chains, \A b \in Chains \ {c} : chain'[b] = chain[b]
  PROVE  \A b \in Chains \ {c} : Like(chain'[b], chain[b])
  BY DEF Like

LEMMA LockTakenKeeps ==
  ASSUME PanelInv, NEW c \in Chains, LockTaken(c)
  PROVE  PanelInv'
<1>1. PICK g : g = Stopped(chain)
  OBVIOUS
<1>2. /\ chain[c].pc = "lock" /\ chain[c].reply = Null /\ chain' = [g EXCEPT ![c].pc = "build"]
      /\ dbg' = Null /\ wire' = <<>> /\ UNCHANGED <<WindowVars, past, status>>
  BY <1>1 DEF LockTaken, Waiting, WindowVars, shownVars
<1>3. g \in [Chains -> PanelChain] /\ g[c] = chain[c] /\ \A b \in Chains : Like(g[b], chain[b])
  <2>1. ~Waits(c)
    BY <1>2, WaitsAre DEF OnWire
  <2> QED BY <1>1, <2>1, StoppedIs, StoppedAreLike
<1>4. PICK x : x = [chain[c] EXCEPT !.pc = "build"]
  OBVIOUS
<1>5. x \in PanelChain /\ x.pc = "build" /\ x.kind = chain[c].kind /\ x.reply = Null
  BY <1>2, <1>4, ChainFacts DEF PanelChain
<1>6. chain' = [g EXCEPT ![c] = x]
  BY <1>2, <1>3, <1>4
<1>7. chain' \in [Chains -> PanelChain] /\ chain'[c] = x /\ \A b \in Chains \ {c} : chain'[b] = g[b]
  BY <1>3, <1>5, <1>6
<1>8. chain[c].kind = "start" /\ chain[c] # NoChain
  BY <1>2, ChainFacts, NoChainIs DEF ChainIs, PanelAfterStop
<1>9. ChainIs(x) /\ Runner(x) /\ x # NoChain
  BY <1>5, <1>8, NoChainIs DEF ChainIs, Runner
<1>10. StageStep(c)
  <2>1. ~past.adrift => status = "running"
    BY <1>2, <1>8, AloneStands DEF StageIs
  <2>2. ~past.adrift => StageIs(c)'
    BY <1>2, <1>5, <1>7, <2>1 DEF StageIs, NoSession
  <2> QED BY <1>2, <1>7, <1>8, <1>9, <2>2 DEF StageStep
<1>11. RunStep(c)
  BY <1>7, <1>9 DEF RunStep
<1>12. wire' \in Seq(Chains) /\ WireIs'
  BY <1>2, WireEmpty
<1>13. \A b \in Chains \ {c} : Like(chain'[b], chain[b])
  BY <1>3, <1>7
<1> QED BY <1>2, <1>7, <1>9, <1>10, <1>11, <1>12, <1>13, ChainFacts, ChainStep

LEMMA BuildFailsKeeps ==
  ASSUME PanelInv, NEW c \in Chains, BuildFails(c)
  PROVE  PanelInv'
<1>1. /\ chain[c].pc = "build" /\ chain[c].reply = Null /\ Goes(c, "sync", Error)
      /\ UNCHANGED <<WindowVars, past, status, dbg, wire>>
  BY DEF BuildFails, Waiting, WindowVars, shownVars
<1>2. /\ chain' \in [Chains -> PanelChain] /\ \A b \in Chains \ {c} : chain'[b] = chain[b]
      /\ chain'[c].pc = "sync" /\ chain'[c].reply = Error /\ chain'[c].kind = chain[c].kind
  BY <1>1, GoesIs, SpecialsAre DEF Pcs
<1>3. chain[c].kind = "start" /\ chain[c] # NoChain /\ ~OnWire(chain[c])
  BY <1>1, ChainFacts, NoChainIs DEF ChainIs, PanelAfterStop, OnWire
<1>4. ChainIs(chain'[c]) /\ Runner(chain'[c]) /\ chain'[c] # NoChain
  BY <1>2, <1>3, NoChainIs DEF ChainIs, Runner
<1>5. StageStep(c)
  <2>1. ~past.adrift => status = "running" /\ NoSession
    BY <1>1, <1>3, AloneStands DEF StageIs
  <2>2. ~past.adrift => StageIs(c)'
    BY <1>1, <1>2, <2>1 DEF StageIs, NoSession, Asked
  <2> QED BY <1>1, <1>3, <1>4, <2>2 DEF StageStep
<1>6. RunStep(c) /\ WireIs'
  BY <1>1, <1>2, <1>3, <1>4, WireSame DEF RunStep
<1> QED BY <1>1, <1>2, <1>4, <1>5, <1>6, ChainFacts, SameIsLike, ChainStep

LEMMA SessionBuiltKeeps ==
  ASSUME PanelInv, NEW c \in Chains, SessionBuilt(c)
  PROVE  PanelInv'
<1>1. PICK d : d = [of |-> chain[c].of, at |-> Null]
  OBVIOUS
<1>2. /\ chain[c].pc = "build" /\ Goes(c, "sync", Null) /\ dbg' = d /\ wire' = <<c>>
      /\ UNCHANGED <<WindowVars, past, status>>
  BY <1>1 DEF SessionBuilt, Waiting, WindowVars, shownVars
<1>3. /\ chain' \in [Chains -> PanelChain] /\ \A b \in Chains \ {c} : chain'[b] = chain[b]
      /\ chain'[c].pc = "sync" /\ chain'[c].reply = Null /\ chain'[c].kind = chain[c].kind
  BY <1>2, GoesIs DEF Pcs
<1>4. d \in PanelSession /\ d # Null
  BY <1>1, ChainFacts, PanelAssumption DEF PanelSession
<1>5. chain[c].kind = "start" /\ chain[c] # NoChain
  BY <1>2, ChainFacts, NoChainIs DEF ChainIs, PanelAfterStop
<1>6. ChainIs(chain'[c]) /\ Runner(chain'[c]) /\ chain'[c] # NoChain /\ OnWire(chain'[c])
  BY <1>3, <1>5, NoChainIs DEF ChainIs, Runner, OnWire
<1>7. StageStep(c)
  <2>1. ~past.adrift => status = "running"
    BY <1>2, <1>5, AloneStands DEF StageIs
  <2>2. ~past.adrift => StageIs(c)'
    BY <1>2, <1>3, <1>4, <2>1 DEF StageIs, Asked
  <2> QED BY <1>2, <1>5, <1>6, <2>2 DEF StageStep
<1>8. RunStep(c)
  BY <1>6 DEF RunStep
<1>9. wire' \in Seq(Chains) /\ Len(wire') = 1 /\ wire'[1] = c
  BY <1>2
<1>10. WireIs'
  BY <1>2, <1>4, <1>6, <1>9 DEF WireIs
<1> QED BY <1>2, <1>3, <1>4, <1>6, <1>7, <1>8, <1>9, <1>10, ChainFacts, SameIsLike, ChainStep

LEMMA ProgramStopsKeeps ==
  ASSUME PanelInv, NEW c \in Chains, wire # <<>>, NEW f \in Frames, ProgramStops(c, f)
  PROVE  PanelInv'
<1>1. /\ c = Head(wire) /\ chain[c].pc \in {"sync", "step"} /\ Goes(c, chain[c].pc, f)
      /\ dbg' = [dbg EXCEPT !.at = f] /\ wire' = Tail(wire) /\ UNCHANGED <<WindowVars, past, status>>
  BY DEF ProgramStops, WindowVars, shownVars
<1>2. PICK pc \in {"sync", "step"} : pc = chain[c].pc
  BY <1>1
<1>3. dbg # Null /\ dbg \in PanelSession /\ dbg.of \in Heads
  BY ChainFacts DEF PanelInv, ProgramIs, WireIs, PanelSession
<1>4. IsFrame(f) /\ f \in Answers
  <2>1. f \in Heads \X Lines
    BY <1>3 DEF Frames, Heads, Anything
  <2> QED BY <2>1, SpecialsAre DEF IsFrame
<1>5. dbg' \in PanelSession /\ dbg'.at = f /\ dbg' # Null
  BY <1>1, <1>3, <1>4, PanelAssumption DEF PanelSession
<1>6. /\ chain' \in [Chains -> PanelChain] /\ \A b \in Chains \ {c} : chain'[b] = chain[b]
      /\ chain'[c].pc = chain[c].pc /\ chain'[c].reply = f /\ chain'[c].kind = chain[c].kind
  <2>1. pc \in Pcs /\ Goes(c, pc, f)
    BY <1>1, <1>2 DEF Pcs
  <2> QED BY <1>2, <1>4, <2>1, GoesIs
<1>7. chain[c].kind \in {"start", "step"} /\ chain[c] # NoChain /\ ChainIs(chain[c])
  BY <1>1, ChainFacts, NoChainIs DEF ChainIs, PanelAfterStop
<1>8. ChainIs(chain'[c]) /\ chain'[c] # NoChain
  BY <1>1, <1>6, <1>7, NoChainIs DEF ChainIs
<1>9. WireIs' /\ OnWire(chain[c])
  BY <1>1, <1>5, <1>6, WireServed
<1>10. StageStep(c)
  <2>1. ASSUME ~past.adrift
        PROVE  wire = <<c>> /\ (chain[c].pc = "sync" => status = "running")
    <3>1. Asked(c) /\ (chain[c].pc = "sync" => status = "running")
      BY <1>1, <1>7, <2>1, AloneStands DEF StageIs
    <3> QED BY <1>9, <3>1, SpecialsAre DEF Asked, OnWire
  <2>2. ASSUME ~past.adrift
        PROVE  StageIs(c)'
    <3>1. wire' = <<>> /\ (chain[c].pc = "sync" => status = "running")
      <4>1. wire = <<c>> /\ wire' = Tail(wire)
        BY <1>1, <2>1, <2>2
      <4>2. wire' = <<>>
        BY <4>1, ChainFacts
      <4> QED BY <2>1, <2>2, <4>2
    <3>2. Asked(c)' /\ f # Error
      BY <1>4, <1>5, <1>6, <3>1, SpecialsAre DEF Asked
    <3> QED BY <1>1, <1>6, <3>1, <3>2 DEF StageIs
  <2> QED BY <1>1, <1>7, <1>8, <2>2 DEF StageStep
<1>11. RunStep(c)
  BY <1>1, <1>6 DEF RunStep, Runner
<1>12. wire' \in Seq(Chains)
  BY <1>1, ChainFacts
<1> QED BY <1>1, <1>5, <1>6, <1>8, <1>9, <1>10, <1>11, <1>12, ChainFacts, SameIsLike, ChainStep

LEMMA ProgramEndsKeeps ==
  ASSUME PanelInv, NEW c \in Chains, ProgramEnds(c)
  PROVE  PanelInv'
<1>1. PICK g : g = Stopped(chain)
  OBVIOUS
<1>2. /\ wire # <<>> /\ c = Head(wire) /\ chain[c].pc \in {"sync", "step"} /\ chain' = g
      /\ dbg' = Null /\ wire' = <<>> /\ UNCHANGED <<WindowVars, past, status>>
  BY <1>1 DEF ProgramEnds, WindowVars, shownVars
<1>3. Waits(c)
  <2>1. wire \in Seq(Chains) /\ Len(wire) > 0 /\ wire[1] = c
    BY <1>2, ChainFacts
  <2>2. 1 \in 1 .. Len(wire)
    BY <2>1
  <2> QED BY <2>1, <2>2 DEF Waits, Contains
<1>4. g \in [Chains -> PanelChain] /\ \A b \in Chains : Like(g[b], chain[b])
  BY <1>1, StoppedIs, StoppedAreLike
<1>5. /\ g[c].kind = chain[c].kind /\ g[c].pc = chain[c].pc
      /\ g[c].reply = (IF chain[c].pc = "step" THEN Completed ELSE Error)
  BY <1>1, <1>2, <1>3, StoppedIs
<1>6. ChainIs(g[c]) /\ g[c] # NoChain /\ chain[c] # NoChain
  BY <1>2, <1>4, ChainFacts, LikeIs, NoChainIs
<1>7. StageStep(c)
  <2>1. ASSUME ~past.adrift
        PROVE  StageIs(c)'
    <3>1. chain[c].pc = "sync" => status = "running"
      BY <1>6, <2>1, AloneStands DEF StageIs
    <3>2. Asked(c)' /\ (chain[c].pc = "step" => chain'[c].reply # Error)
      BY <1>2, <1>5, SpecialsAre DEF Asked
    <3> QED BY <1>2, <1>5, <3>1, <3>2 DEF StageIs
  <2> QED BY <1>2, <1>6, <2>1 DEF StageStep
<1>8. RunStep(c)
  BY <1>2, <1>5 DEF RunStep, Runner
<1>9. wire' \in Seq(Chains) /\ WireIs'
  BY <1>2, WireEmpty
<1> QED BY <1>2, <1>4, <1>6, <1>7, <1>8, <1>9, ChainFacts, ChainStep

LEMMA ValuesReadKeeps ==
  ASSUME PanelInv, NEW c \in Chains, ValuesRead(c)
  PROVE  PanelInv'
<1>1. /\ wire # <<>> /\ c = Head(wire) /\ chain[c].pc \in {"values", "locals"} /\ Goes(c, chain[c].pc, dbg.at)
      /\ wire' = Tail(wire) /\ UNCHANGED <<WindowVars, past, status, frame, liveVars, localVars, dbg>>
  BY DEF ValuesRead, WindowVars, shownVars
<1>2. PICK pc \in {"values", "locals"} : pc = chain[c].pc
  BY <1>1
<1>3. dbg # Null /\ dbg \in PanelSession
  BY <1>1, ChainFacts DEF PanelInv, ProgramIs, WireIs
<1>4. PICK r \in Answers \cup {Null} : r = dbg.at
  BY <1>3 DEF PanelSession
<1>5. /\ chain' \in [Chains -> PanelChain] /\ \A b \in Chains \ {c} : chain'[b] = chain[b]
      /\ chain'[c].pc = chain[c].pc /\ chain'[c].reply = dbg.at /\ chain'[c].kind = chain[c].kind
      /\ chain'[c].at = chain[c].at
  <2>1. pc \in Pcs /\ Goes(c, pc, r)
    BY <1>1, <1>2, <1>4 DEF Pcs
  <2> QED BY <1>2, <1>4, <2>1, GoesIs
<1>6. chain[c].kind \in {"start", "step"} /\ chain[c] # NoChain /\ ChainIs(chain[c])
  BY <1>1, ChainFacts, NoChainIs DEF ChainIs, PanelAfterStop
<1>7. ChainIs(chain'[c]) /\ chain'[c] # NoChain
  BY <1>5, <1>6, NoChainIs DEF ChainIs
<1>8. WireIs' /\ OnWire(chain[c])
  BY <1>1, <1>3, <1>5, WireServed
<1>9. StageStep(c)
  <2>1. ASSUME ~past.adrift
        PROVE  StageIs(c)'
    <3>1. Halted /\ Reading(c) /\ (chain[c].pc = "locals" => liveVars = frame)
      BY <1>1, <1>6, <2>1, AloneStands DEF StageIs
    <3>2. wire = <<c>>
      BY <1>8, <3>1, SpecialsAre DEF Reading, Halted, OnWire
    <3>3. wire' = <<>>
      BY <1>1, <3>2, ChainFacts
    <3>4. Halted' /\ Reading(c)'
      BY <1>1, <1>5, <3>1, <3>3 DEF Halted, Reading
    <3> QED BY <1>1, <1>5, <3>1, <3>4 DEF StageIs
  <2> QED BY <1>1, <1>6, <1>7, <2>1 DEF StageStep
<1>10. RunStep(c)
  BY <1>1, <1>5 DEF RunStep, Runner
<1>11. wire' \in Seq(Chains)
  BY <1>1, ChainFacts
<1> QED BY <1>1, <1>5, <1>7, <1>8, <1>9, <1>10, <1>11, ChainFacts, SameIsLike, ChainStep

(* A chain begins: where it is alone, nobody waits.                        *)
LEMMA FreshIs ==
  ASSUME PanelInv, \A b \in Chains : chain[b] = NoChain
  PROVE  wire = <<>> /\ (~past.adrift => StoppedIsShown)
<1>1. wire \in Seq(Chains) /\ WireIs /\ StageInv
  BY WireEmpty DEF PanelInv, PanelTypeOK, ProgramIs
<1>2. ~(Len(wire) > 0)
  <2> SUFFICES ASSUME Len(wire) > 0
               PROVE  FALSE
    OBVIOUS
  <2>1. 1 \in 1 .. Len(wire) /\ wire[1] \in Chains
    BY <1>1
  <2>2. OnWire(chain[wire[1]]) /\ chain[wire[1]] = NoChain
    BY <1>1, <2>1 DEF WireIs
  <2> QED BY <2>2, NoChainIs
<1> QED BY <1>1, <1>2 DEF StageInv

LEMMA BeginsIs ==
  ASSUME PanelInv, NEW c \in Chains, NEW chains, Begins(c, chains)
  PROVE  /\ editor.view # Null /\ chain[c] = NoChain /\ chain' = chains
         /\ past' \in [adrift : BOOLEAN, unmarked : BOOLEAN] /\ past'.unmarked = past.unmarked
         /\ ~past'.adrift => /\ \A b \in Chains : chain[b] = NoChain
                             /\ chains[c].kind = "run" => dbg = Null
                             /\ chains[c].kind \notin {"start", "stop"} => ~past.adrift
<1>1. /\ past \in [adrift : BOOLEAN, unmarked : BOOLEAN] /\ past.adrift \in BOOLEAN
  BY ChainFacts
<1>2. PICK k : k = chains[c].kind
  OBVIOUS
<1>3. PICK a \in BOOLEAN :
        a = (InFlight # {} \/ (k = "run" /\ dbg # Null) \/ (past.adrift /\ k \notin {"start", "stop"}))
  OBVIOUS
<1>4. /\ editor.view # Null /\ Fresh(c) /\ chain' = chains
      /\ past' = [past EXCEPT !.adrift = InFlight # {} \/ (k = "run" /\ dbg # Null)
                                                        \/ (past.adrift /\ k \notin {"start", "stop"})]
  BY <1>2 DEF Begins
<1>5. past' = [past EXCEPT !.adrift = a]
  BY <1>3, <1>4
<1>6. past' \in [adrift : BOOLEAN, unmarked : BOOLEAN] /\ past'.unmarked = past.unmarked /\ past'.adrift = a
  BY <1>1, <1>5
<1>7. chain[c] = NoChain
  BY <1>4 DEF Fresh
<1>8. ~a => /\ InFlight = {} /\ (k = "run" => dbg = Null) /\ (k \notin {"start", "stop"} => ~past.adrift)
  BY <1>3
<1>9. InFlight = {} => \A b \in Chains : chain[b] = NoChain
  BY DEF InFlight
<1> QED BY <1>2, <1>4, <1>6, <1>7, <1>8, <1>9

LEMMA RunsKeeps ==
  ASSUME PanelInv, NEW c \in Chains, Runs(c)
  PROVE  PanelInv'
<1>1. PICK g : g = Begun(chain, c, "run", "run", opened, Null)
  OBVIOUS
<1>2. Begins(c, g) /\ status' = "running" /\ UNCHANGED <<WindowVars, dbg, wire>>
  BY <1>1 DEF Runs, WindowVars
<1>3. /\ g \in [Chains -> PanelChain] /\ \A b \in Chains \ {c} : g[b] = chain[b]
      /\ g[c].kind = "run" /\ g[c].pc = "run"
  BY <1>1, ChainFacts, BegunIs DEF Pcs
<1>4. /\ chain' = g /\ chain[c] = NoChain /\ past' \in [adrift : BOOLEAN, unmarked : BOOLEAN]
      /\ past'.unmarked = past.unmarked
      /\ ~past'.adrift => (\A b \in Chains : chain[b] = NoChain) /\ dbg = Null
  BY <1>2, <1>3, BeginsIs
<1>5. ChainIs(g[c]) /\ g[c] # NoChain /\ Runner(g[c])
  BY <1>3, NoChainIs DEF ChainIs, Runner
<1>6. StageStep(c)
  <2>1. ASSUME ~past'.adrift
        PROVE  StageIs(c)'
    <3>1. NoSession'
      BY <1>2, <1>4, <2>1, FreshIs DEF NoSession
    <3> QED BY <1>2, <1>3, <1>4, <3>1 DEF StageIs
  <2> QED BY <1>4, <1>5, <2>1 DEF StageStep
<1>7. RunStep(c)
  BY <1>4, <1>5 DEF RunStep
<1>8. WireIs'
  BY <1>2, <1>3, <1>4, NoChainIs, WireSame
<1> QED BY <1>2, <1>3, <1>4, <1>5, <1>6, <1>7, <1>8, ChainFacts, SameIsLike, ChainStep

LEMMA StartsKeeps ==
  ASSUME PanelInv, NEW c \in Chains, Starts(c)
  PROVE  PanelInv'
<1>1. PICK g : g = Begun(chain, c, "start", "lock", opened, Null)
  OBVIOUS
<1>2. Begins(c, g) /\ status' = "running" /\ UNCHANGED <<WindowVars, dbg, wire>>
  BY <1>1 DEF Starts, WindowVars
<1>3. /\ g \in [Chains -> PanelChain] /\ \A b \in Chains \ {c} : g[b] = chain[b]
      /\ g[c].kind = "start" /\ g[c].pc = "lock"
  <2>1. chain \in [Chains -> PanelChain] /\ opened \in Heads /\ Null \in Answers \cup {Null}
    BY ChainFacts
  <2>2. "lock" \in Pcs
    BY DEF Pcs
  <2> QED BY <1>1, <2>1, <2>2, BegunIs
<1>4. /\ chain' = g /\ chain[c] = NoChain /\ past' \in [adrift : BOOLEAN, unmarked : BOOLEAN]
      /\ past'.unmarked = past.unmarked
      /\ ~past'.adrift => \A b \in Chains : chain[b] = NoChain
  BY <1>2, <1>3, BeginsIs
<1>5. ChainIs(g[c]) /\ g[c] # NoChain /\ Runner(g[c])
  BY <1>3, NoChainIs DEF ChainIs, Runner
<1>6. StageStep(c)
  <2>1. ASSUME ~past'.adrift
        PROVE  StageIs(c)'
    <3>1. wire' = <<>>
      BY <1>2, <1>4, <2>1, FreshIs
    <3> QED BY <1>2, <1>3, <1>4, <3>1 DEF StageIs
  <2> QED BY <1>4, <1>5, <2>1 DEF StageStep
<1>7. RunStep(c)
  BY <1>4, <1>5 DEF RunStep
<1>8. WireIs'
  BY <1>2, <1>3, <1>4, NoChainIs, WireSame
<1> QED BY <1>2, <1>3, <1>4, <1>5, <1>6, <1>7, <1>8, ChainFacts, SameIsLike, ChainStep

LEMMA StepsKeeps ==
  ASSUME PanelInv, NEW c \in Chains, Steps(c)
  PROVE  PanelInv'
<1>1. PICK r \in Answers \cup {Null} : r = IF dbg = Null THEN Error ELSE Null
  BY SpecialsAre
<1>2. PICK g : g = Begun(chain, c, "step", "step", opened, r)
  OBVIOUS
<1>3. /\ Begins(c, g) /\ wire' = (IF dbg = Null THEN wire ELSE Append(wire, c))
      /\ UNCHANGED <<WindowVars, status, frame, liveVars, localVars, dbg>>
  BY <1>1, <1>2 DEF Steps, WindowVars, shownVars
<1>4. /\ g \in [Chains -> PanelChain] /\ \A b \in Chains \ {c} : g[b] = chain[b]
      /\ g[c].kind = "step" /\ g[c].pc = "step" /\ g[c].reply = r
  <2>1. chain \in [Chains -> PanelChain] /\ opened \in Heads /\ Null \in Answers \cup {Null}
    BY ChainFacts
  <2>2. "step" \in Pcs
    BY DEF Pcs
  <2> QED BY <1>2, <2>1, <2>2, BegunIs
<1>5. /\ chain' = g /\ chain[c] = NoChain /\ past' \in [adrift : BOOLEAN, unmarked : BOOLEAN]
      /\ past'.unmarked = past.unmarked
      /\ ~past'.adrift => (\A b \in Chains : chain[b] = NoChain) /\ ~past.adrift
  BY <1>3, <1>4, BeginsIs
<1>6. ChainIs(g[c]) /\ g[c] # NoChain
  BY <1>4, NoChainIs DEF ChainIs
<1>7. StageStep(c)
  <2>1. ASSUME ~past'.adrift
        PROVE  StageIs(c)'
    <3>1. wire = <<>> /\ StoppedIsShown
      BY <1>5, <2>1, FreshIs
    <3>2. CASE dbg = Null
      <4>1. r = Error /\ wire' = <<>> /\ dbg' = Null /\ status' # "paused"
        BY <1>1, <1>3, <3>1, <3>2 DEF StoppedIsShown
      <4> QED BY <1>4, <1>5, <4>1 DEF StageIs, Asked
    <3>3. CASE dbg # Null
      <4>1. r = Null /\ wire' = <<c>> /\ dbg' # Null
        BY <1>1, <1>3, <3>1, <3>3
      <4> QED BY <1>4, <1>5, <4>1, SpecialsAre DEF StageIs, Asked
    <3> QED BY <3>2, <3>3
  <2> QED BY <1>5, <1>6, <2>1 DEF StageStep
<1>8. RunStep(c)
  BY <1>3, <1>5, NoChainIs DEF RunStep
<1>9. WireIs' /\ wire' \in Seq(Chains)
  <2>1. CASE dbg = Null
    BY <1>3, <1>4, <1>5, <2>1, ChainFacts, NoChainIs, WireSame
  <2>2. CASE dbg # Null
    <3>1. OnWire(g[c]) /\ wire' = Append(wire, c) /\ dbg' # Null
      BY <1>1, <1>3, <1>4, <2>2 DEF OnWire
    <3> QED BY <1>4, <1>5, <3>1, ChainFacts, NoChainIs, WireGrows
  <2> QED BY <2>1, <2>2
<1> QED BY <1>3, <1>4, <1>5, <1>6, <1>7, <1>8, <1>9, ChainFacts, SameIsLike, ChainStep

(* A chain ends, and leaves the window and the session alone.              *)
LEMMA EndStep ==
  ASSUME PanelInv, NEW c \in Chains, chain[c] # NoChain, ~OnWire(chain[c]), Ends(c),
         UNCHANGED <<WindowVars, past, dbg, wire>>,
         status' # "running" \/ (status' = status /\ ~Runner(chain[c])),
         ~past.adrift => StoppedIsShown'
  PROVE  PanelInv'
<1>1. /\ chain' \in [Chains -> PanelChain] /\ \A b \in Chains \ {c} : chain'[b] = chain[b]
      /\ chain'[c] = NoChain
  BY EndsIs
<1>2. ChainIs(chain'[c]) /\ WireIs'
  BY <1>1, NoChainIs, WireSame
<1>3. StageStep(c) /\ RunStep(c)
  BY <1>1 DEF StageStep, RunStep
<1> QED BY <1>1, <1>2, <1>3, ChainFacts, SameIsLike, ChainStep

LEMMA RunAnsweredKeeps ==
  ASSUME PanelInv, NEW c \in Chains, NEW how \in {"ok", "error", "lost"}, RunAnswered(c, how)
  PROVE  PanelInv'
<1>1. chain[c].pc = "run" /\ UNCHANGED <<WindowVars, past, frame, localVars>>
  BY DEF RunAnswered, Waiting, WindowVars
<1>2. chain[c].kind = "run" /\ chain[c] # NoChain /\ ~OnWire(chain[c])
  BY <1>1, ChainFacts, NoChainIs DEF ChainIs, PanelAfterStop, OnWire
<1>3. ~past.adrift => NoSession
  BY <1>1, <1>2, AloneStands DEF StageIs
<1>4. CASE how \in {"ok", "error"}
  <2>1. Ends(c) /\ status' \in {"completed", "error"} /\ UNCHANGED <<dbg, wire>>
    BY <1>4 DEF RunAnswered
  <2>2. ~past.adrift => StoppedIsShown'
    BY <1>3, <2>1 DEF StoppedIsShown, NoSession
  <2> QED BY <1>1, <1>2, <2>1, <2>2, EndStep
<1>5. CASE how = "lost"
  <2>1. PICK g : g = Stopped(chain)
    OBVIOUS
  <2>2. /\ chain' = [g EXCEPT ![c].pc = "stop", ![c].reply = Ok] /\ dbg' = Null /\ wire' = <<>>
        /\ status' = status
    BY <1>5, <2>1 DEF RunAnswered
  <2>3. g \in [Chains -> PanelChain] /\ g[c] = chain[c] /\ \A b \in Chains : Like(g[b], chain[b])
    BY <1>2, <2>1, WaitsAre, StoppedIs, StoppedAreLike
  <2>4. PICK x : x = [chain[c] EXCEPT !.pc = "stop", !.reply = Ok]
    OBVIOUS
  <2>5. x \in PanelChain /\ x.pc = "stop" /\ x.kind = "run"
    BY <1>2, <2>4, ChainFacts, SpecialsAre DEF PanelChain
  <2>6. chain' = [g EXCEPT ![c] = x]
    BY <2>2, <2>3, <2>4
  <2>7. chain' \in [Chains -> PanelChain] /\ chain'[c] = x /\ \A b \in Chains \ {c} : chain'[b] = g[b]
    BY <2>3, <2>5, <2>6
  <2>8. ChainIs(x) /\ Runner(x) /\ x # NoChain
    BY <2>5, NoChainIs DEF ChainIs, Runner
  <2>9. StageIs(c)'
    BY <2>2, <2>5, <2>7 DEF StageIs, NoSession
  <2>10. StageStep(c) /\ RunStep(c)
    BY <1>1, <1>2, <2>7, <2>8, <2>9 DEF StageStep, RunStep
  <2>11. wire' \in Seq(Chains) /\ WireIs'
    BY <2>2, WireEmpty
  <2>12. \A b \in Chains \ {c} : Like(chain'[b], chain[b])
    BY <2>3, <2>7
  <2> QED BY <1>1, <2>2, <2>7, <2>8, <2>10, <2>11, <2>12, ChainFacts, ChainStep
<1> QED BY <1>4, <1>5

LEMMA StopAnsweredKeeps ==
  ASSUME PanelInv, NEW c \in Chains, StopAnswered(c)
  PROVE  PanelInv'
<1>1. /\ chain[c].pc = "stop" /\ Ends(c) /\ status' \in {"error", "idle"}
      /\ UNCHANGED <<WindowVars, past, dbg, wire>>
  BY DEF StopAnswered, Replied, WindowVars
<1>2. chain[c] # NoChain /\ ~OnWire(chain[c])
  BY <1>1, NoChainIs DEF OnWire
<1>3. ~past.adrift => StoppedIsShown'
  BY <1>1, <1>2, AloneStands DEF StageIs, NoSession, StoppedIsShown
<1> QED BY <1>1, <1>2, <1>3, EndStep

(* What is done with a stop of the program.                                *)
LEMMA AppliesKeeps ==
  ASSUME PanelInv, NEW c \in Chains, Applies(c), chain[c].pc \in {"sync", "step"},
         chain[c].reply \notin {Null, Error}, UNCHANGED <<WindowVars, past, dbg>>
  PROVE  PanelInv'
<1>1. chain[c] # NoChain /\ ~OnWire(chain[c]) /\ chain[c].kind \in {"start", "step"}
  BY ChainFacts, NoChainIs DEF OnWire, ChainIs, PanelAfterStop
<1>2. ~past.adrift => Asked(c)
  BY <1>1, AloneStands DEF StageIs
<1>3. CASE chain[c].reply = Completed
  <2>1. status' = "completed" /\ Ends(c) /\ wire' = wire
    BY <1>3 DEF Applies
  <2>2. ~past.adrift => dbg = Null
    BY <1>2, <1>3, SpecialsAre DEF Asked
  <2>3. ~past.adrift => StoppedIsShown'
    BY <2>1, <2>2 DEF StoppedIsShown
  <2> QED BY <1>1, <2>1, <2>3, EndStep
<1>4. CASE chain[c].reply # Completed
  <2>1. PICK f \in Answers : f = chain[c].reply
    BY ChainFacts
  <2>2. PICK r \in Answers \cup {Null} : r = IF dbg = Null THEN Error ELSE Null
    BY SpecialsAre
  <2>3. /\ status' = "paused" /\ frame' = f
        /\ chain' = [chain EXCEPT ![c].pc = "values", ![c].at = f, ![c].reply = r]
        /\ wire' = (IF dbg = Null THEN wire ELSE Append(wire, c)) /\ liveVars' = liveVars
    BY <1>4, <2>1, <2>2 DEF Applies
  <2>4. PICK x : x = [chain[c] EXCEPT !.pc = "values", !.at = f, !.reply = r]
    OBVIOUS
  <2>5. /\ x \in PanelChain /\ x.pc = "values" /\ x.at = f /\ x.reply = r /\ x.kind = chain[c].kind
    BY <2>1, <2>2, <2>4, ChainFacts DEF PanelChain
  <2>6. chain' = [chain EXCEPT ![c] = x]
    BY <2>3, <2>4, ChainFacts
  <2>7. chain' \in [Chains -> PanelChain] /\ chain'[c] = x /\ \A b \in Chains \ {c} : chain'[b] = chain[b]
    BY <2>5, <2>6, ChainFacts
  <2>8. ChainIs(x) /\ x # NoChain
    BY <1>1, <2>1, <2>5, NoChainIs DEF ChainIs, PanelAfterStop
  <2>9. ASSUME ~past.adrift
        PROVE  StageIs(c)'
    <3>1. dbg # Null /\ IsFrame(dbg.at) /\ f = dbg.at /\ wire = <<>>
      BY <1>2, <1>4, <2>1, <2>9 DEF Asked
    <3>2. r = Null /\ wire' = <<c>> /\ dbg' = dbg
      BY <2>2, <2>3, <3>1
    <3>3. Halted' /\ Reading(c)'
      BY <2>3, <2>5, <2>7, <3>1, <3>2 DEF Halted, Reading
    <3> QED BY <2>5, <2>7, <3>3 DEF StageIs
  <2>10. StageStep(c) /\ RunStep(c)
    BY <1>1, <2>3, <2>7, <2>8, <2>9 DEF StageStep, RunStep
  <2>11. WireIs' /\ wire' \in Seq(Chains)
    <3>1. CASE dbg = Null
      BY <1>1, <2>3, <2>7, <3>1, ChainFacts, WireSame
    <3>2. CASE dbg # Null
      <4>1. OnWire(chain'[c]) /\ wire' = Append(wire, c) /\ dbg' # Null
        BY <2>2, <2>3, <2>5, <2>7, <3>2 DEF OnWire
      <4> QED BY <1>1, <2>7, <4>1, ChainFacts, WireGrows
    <3> QED BY <3>1, <3>2
  <2> QED BY <2>7, <2>8, <2>10, <2>11, ChainFacts, SameIsLike, ChainStep
<1> QED BY <1>3, <1>4

LEMMA StartAnsweredKeeps ==
  ASSUME PanelInv, NEW c \in Chains, StartAnswered(c)
  PROVE  PanelInv'
<1>1. chain[c].pc = "sync" /\ chain[c].reply # Null /\ UNCHANGED <<WindowVars, past, dbg>>
  BY DEF StartAnswered, Replied, WindowVars
<1>2. chain[c] # NoChain /\ ~OnWire(chain[c])
  BY <1>1, NoChainIs DEF OnWire
<1>3. ~past.adrift => Asked(c) /\ status = "running"
  BY <1>1, <1>2, AloneStands DEF StageIs
<1>4. CASE status = "idle"
  <2>1. Ends(c) /\ UNCHANGED <<status, wire>>
    BY <1>4 DEF StartAnswered
  <2> QED BY <1>1, <1>2, <1>3, <1>4, <2>1, EndStep
<1>5. CASE status # "idle" /\ chain[c].reply = Error
  <2>1. status' = "error" /\ Ends(c) /\ wire' = wire
    BY <1>5 DEF StartAnswered
  <2>2. ~past.adrift => dbg = Null
    BY <1>3, <1>5, SpecialsAre DEF Asked
  <2>3. ~past.adrift => StoppedIsShown'
    BY <1>1, <2>1, <2>2 DEF StoppedIsShown
  <2> QED BY <1>1, <1>2, <2>1, <2>3, EndStep
<1>6. CASE status # "idle" /\ chain[c].reply # Error
  <2>1. Applies(c)
    BY <1>6 DEF StartAnswered
  <2> QED BY <1>1, <1>6, <2>1, AppliesKeeps
<1> QED BY <1>4, <1>5, <1>6

LEMMA StepAnsweredKeeps ==
  ASSUME PanelInv, NEW c \in Chains, StepAnswered(c)
  PROVE  PanelInv'
<1>1. chain[c].pc = "step" /\ chain[c].reply # Null /\ UNCHANGED <<WindowVars, past, dbg>>
  BY DEF StepAnswered, Replied, WindowVars
<1>2. chain[c] # NoChain /\ ~OnWire(chain[c]) /\ ~Runner(chain[c])
  BY <1>1, ChainFacts, NoChainIs DEF OnWire, ChainIs, Runner
<1>3. ~past.adrift => Asked(c) /\ (chain[c].reply = Error => status # "paused")
  BY <1>1, <1>2, AloneStands DEF StageIs
<1>4. CASE chain[c].reply = Error
  <2>1. Ends(c) /\ UNCHANGED <<status, wire>>
    BY <1>4 DEF StepAnswered
  <2>2. ~past.adrift => dbg = Null /\ status # "paused"
    BY <1>3, <1>4, SpecialsAre DEF Asked
  <2>3. ~past.adrift => StoppedIsShown'
    BY <1>1, <2>1, <2>2 DEF StoppedIsShown
  <2> QED BY <1>1, <1>2, <2>1, <2>3, EndStep
<1>5. CASE chain[c].reply # Error
  <2>1. Applies(c)
    BY <1>5 DEF StepAnswered
  <2> QED BY <1>1, <1>5, <2>1, AppliesKeeps
<1> QED BY <1>4, <1>5

(* The values of a program that is still stopped are read.                 *)
LEMMA LocalsKeeps ==
  ASSUME PanelInv, NEW c \in Chains, Locals(c), chain[c].pc \in {"values", "source"}, ~OnWire(chain[c]),
         UNCHANGED <<status, frame, dbg>>, past'.adrift = past.adrift,
         ~past.adrift => Halted /\ wire = <<>> /\ liveVars' = frame
  PROVE  ProgramIs' /\ chain' \in [Chains -> PanelChain] /\ wire' \in Seq(Chains)
<1>1. chain[c] # NoChain /\ ChainIs(chain[c]) /\ chain[c].kind \in {"start", "step"} /\ ~Runner(chain[c])
  BY ChainFacts, NoChainIs DEF ChainIs, PanelAfterStop, Runner
<1>2. RunStep(c)
  BY <1>1 DEF RunStep
<1>3. CASE status # "paused"
  <2>1. Ends(c) /\ wire' = wire
    BY <1>3 DEF Locals
  <2>2. /\ chain' \in [Chains -> PanelChain] /\ \A b \in Chains \ {c} : chain'[b] = chain[b]
        /\ chain'[c] = NoChain
    BY <2>1, EndsIs
  <2>3. ChainIs(chain'[c]) /\ WireIs' /\ wire' \in Seq(Chains)
    BY <2>1, <2>2, NoChainIs, ChainFacts, WireSame
  <2>4. past.adrift
    BY <1>3 DEF Halted
  <2>5. StageStep(c)
    BY <1>1, <2>2, <2>4 DEF StageStep
  <2> QED BY <1>2, <2>2, <2>3, <2>5, SameIsLike, ProgramStep
<1>4. CASE status = "paused"
  <2>1. PICK r \in Answers \cup {Null} : r = IF dbg = Null THEN Error ELSE Null
    BY SpecialsAre
  <2>2. Goes(c, "locals", r) /\ wire' = (IF dbg = Null THEN wire ELSE Append(wire, c))
    BY <1>4, <2>1 DEF Locals, CallsWire
  <2>3. /\ chain' \in [Chains -> PanelChain] /\ \A b \in Chains \ {c} : chain'[b] = chain[b]
        /\ chain'[c].pc = "locals" /\ chain'[c].reply = r /\ chain'[c].kind = chain[c].kind
    BY <2>1, <2>2, GoesIs DEF Pcs
  <2>4. ChainIs(chain'[c]) /\ chain'[c] # NoChain
    BY <1>1, <2>3, NoChainIs DEF ChainIs, PanelAfterStop
  <2>5. WireIs' /\ wire' \in Seq(Chains)
    <3>1. CASE dbg = Null
      BY <2>2, <2>3, <3>1, ChainFacts, WireSame
    <3>2. CASE dbg # Null
      <4>1. OnWire(chain'[c]) /\ wire' = Append(wire, c) /\ dbg' # Null
        BY <2>1, <2>2, <2>3, <3>2 DEF OnWire
      <4> QED BY <2>3, <4>1, ChainFacts, WireGrows
    <3> QED BY <3>1, <3>2
  <2>6. ASSUME ~past.adrift
        PROVE  StageIs(c)'
    <3>1. dbg # Null /\ wire = <<>> /\ liveVars' = frame /\ Halted
      BY <2>6 DEF Halted
    <3>2. r = Null /\ wire' = <<c>> /\ frame' = frame
      BY <2>1, <2>2, <3>1
    <3>3. Halted' /\ Reading(c)' /\ liveVars' = frame'
      BY <2>3, <3>1, <3>2 DEF Halted, Reading
    <3> QED BY <2>3, <3>3 DEF StageIs
  <2>7. StageStep(c)
    BY <1>1, <2>4, <2>6 DEF StageStep
  <2> QED BY <1>2, <2>3, <2>4, <2>5, <2>7, SameIsLike, ProgramStep
<1> QED BY <1>3, <1>4

LEMMA ValuesAnsweredKeeps ==
  ASSUME PanelInv, NEW c \in Chains, ValuesAnswered(c)
  PROVE  PanelInv'
<1>1. /\ chain[c].pc = "values" /\ chain[c].reply # Null
      /\ liveVars' = (IF chain[c].reply = Error THEN liveVars ELSE chain[c].reply)
      /\ UNCHANGED <<WindowVars, past, dbg, status, frame>>
  BY DEF ValuesAnswered, Replied, WindowVars
<1>2. chain[c] # NoChain /\ ~OnWire(chain[c]) /\ ChainIs(chain[c]) /\ chain[c].kind \in {"start", "step"}
  BY <1>1, ChainFacts, NoChainIs DEF OnWire, ChainIs, PanelAfterStop
<1>3. ~past.adrift => Halted /\ wire = <<>> /\ liveVars' = frame
  <2> SUFFICES ASSUME ~past.adrift
               PROVE  Halted /\ wire = <<>> /\ liveVars' = frame
    OBVIOUS
  <2>1. Halted /\ Reading(c)
    BY <1>1, <1>2, AloneStands DEF StageIs
  <2>2. wire = <<>> /\ chain[c].reply = dbg.at /\ dbg.at # Error /\ frame = dbg.at
    BY <1>1, <2>1, SpecialsAre DEF Reading, Halted
  <2> QED BY <1>1, <2>1, <2>2
<1>4. CASE editor.object # chain[c].at[1]
  <2>1. Goes(c, "source", Null) /\ UNCHANGED <<localVars, wire>>
    BY <1>4 DEF ValuesAnswered
  <2>2. /\ chain' \in [Chains -> PanelChain] /\ \A b \in Chains \ {c} : chain'[b] = chain[b]
        /\ chain'[c].pc = "source" /\ chain'[c].kind = chain[c].kind /\ chain'[c].at = chain[c].at
    BY <2>1, GoesIs DEF Pcs
  <2>3. ChainIs(chain'[c]) /\ chain'[c] # NoChain
    BY <1>1, <1>2, <2>2, NoChainIs DEF ChainIs, PanelAfterStop
  <2>4. WireIs'
    BY <1>1, <1>2, <2>1, <2>2, WireSame
  <2>5. ~past.adrift => StageIs(c)'
    BY <1>1, <1>3, <2>1, <2>2 DEF StageIs, Halted
  <2>6. StageStep(c) /\ RunStep(c)
    BY <1>1, <1>2, <2>3, <2>5 DEF StageStep, RunStep, Runner
  <2> QED BY <1>1, <2>1, <2>2, <2>3, <2>4, <2>6, ChainFacts, SameIsLike, ChainStep
<1>5. CASE editor.object = chain[c].at[1]
  <2>1. Locals(c)
    BY <1>5 DEF ValuesAnswered
  <2>2. ProgramIs' /\ chain' \in [Chains -> PanelChain] /\ wire' \in Seq(Chains)
    BY <1>1, <1>2, <1>3, <2>1, LocalsKeeps
  <2>3. WindowIs'
    BY <1>1, WindowSame
  <2>4. PanelTypeOK'
    BY <1>1, <2>2 DEF PanelInv, PanelTypeOK, WindowVars
  <2> QED BY <2>2, <2>3, <2>4 DEF PanelInv
<1> QED BY <1>4, <1>5

LEMMA LocalsAnsweredKeeps ==
  ASSUME PanelInv, NEW c \in Chains, LocalsAnswered(c)
  PROVE  PanelInv'
<1>1. /\ chain[c].pc = "locals" /\ chain[c].reply # Null /\ Ends(c)
      /\ chain[c].reply \notin {Error, Nulls} => localVars' = chain[c].reply
      /\ UNCHANGED <<WindowVars, past, dbg, wire, status, frame, liveVars>>
  BY DEF LocalsAnswered, Replied, WindowVars
<1>2. chain[c] # NoChain /\ ~OnWire(chain[c]) /\ ~Runner(chain[c])
  BY <1>1, ChainFacts, NoChainIs DEF OnWire, ChainIs, Runner
<1>3. ASSUME ~past.adrift
      PROVE  StoppedIsShown'
  <2>1. Halted /\ Reading(c) /\ liveVars = frame
    BY <1>1, <1>2, <1>3, AloneStands DEF StageIs
  <2>2. chain[c].reply = dbg.at /\ dbg.at \notin {Error, Nulls}
    BY <1>1, <2>1, SpecialsAre DEF Reading, Halted
  <2> QED BY <1>1, <2>1, <2>2 DEF StoppedIsShown, Halted
<1> QED BY <1>1, <1>2, <1>3, EndStep

-----------------------------------------------------------------------------
(* The window.                                                             *)
LEMMA EditorFacts ==
  ASSUME PanelInv
  PROVE  /\ editor \in PanelEditor /\ editor.source \in PanelText /\ editor.object \in Heads
         /\ editor.view # Null =>
              /\ editor.view \in PanelView /\ editor.view.text \in PanelText /\ editor.view.watches \in BOOLEAN
              /\ editor.view.marks \in SUBSET Lines
              /\ editor.view.text \in {editor.source, [editor.source EXCEPT !.edited = TRUE]}
         /\ Watches \in BOOLEAN /\ (Watches => editor.view # Null)
         /\ ~editor.source.edited
<1>1. editor \in PanelEditor /\ EditorIs
  BY DEF PanelInv, PanelTypeOK, WindowIs
<1>2. editor.source \in PanelText /\ editor.object \in Heads /\ editor.view \in PanelView \cup {Null}
  BY <1>1 DEF PanelEditor
<1>3. \A v \in PanelView : v.text \in PanelText /\ v.watches \in BOOLEAN /\ v.marks \in SUBSET Lines
  BY DEF PanelView
<1>4. Watches \in BOOLEAN /\ (Watches => editor.view # Null)
  BY <1>2, <1>3 DEF Watches
<1> QED BY <1>1, <1>2, <1>3, <1>4 DEF EditorIs

LEMMA MarksFacts ==
  ASSUME NEW o, NEW bps \in SUBSET [of : Heads, line : Lines]
  PROVE  MarksOf(o, bps) \in SUBSET Lines /\ (bps = {} => MarksOf(o, bps) = {})
  BY DEF MarksOf

LEMMA TextIs ==
  ASSUME NEW o \in Heads, NEW kind \in {"none", "script", "source"}
  PROVE  Text(o, kind) \in PanelText /\ Text(o, kind).of = o /\ Text(o, kind).kind = kind /\ ~Text(o, kind).edited
  BY DEF Text, PanelText

LEMMA ShownIs ==
  ASSUME NEW e \in PanelEditor, NEW bps \in SUBSET [of : Heads, line : Lines], NEW due \in BOOLEAN,
         NEW r, r = Shown(e, bps, due)
  PROVE  /\ r \in PanelEditor /\ r.source = e.source /\ r.object = e.object
         /\ e.view = Null \/ ~due => r = e
         /\ e.view # Null /\ due =>
              r.view.text = e.source /\ r.view.marks = IF e.view.text = e.source THEN e.view.marks
                                                       ELSE MarksOf(e.object, bps)
<1>1. e.source \in PanelText /\ e.object \in Heads /\ e.view \in PanelView \cup {Null}
  BY DEF PanelEditor
<1>2. CASE e.view = Null \/ ~due
  BY <1>2 DEF Shown
<1>3. CASE e.view # Null /\ due /\ e.view.text = e.source
  <2>1. PICK v : v = [e.view EXCEPT !.watches = FALSE]
    OBVIOUS
  <2>2. v \in PanelView /\ v.text = e.view.text /\ v.marks = e.view.marks
    BY <1>1, <1>3, <2>1 DEF PanelView
  <2>3. r = [e EXCEPT !.view = v]
    BY <1>3, <2>1 DEF Shown
  <2>4. r \in PanelEditor /\ r.source = e.source /\ r.object = e.object /\ r.view = v
    BY <1>1, <2>2, <2>3 DEF PanelEditor
  <2> QED BY <1>3, <2>2, <2>4
<1>4. CASE e.view # Null /\ due /\ e.view.text # e.source
  <2>1. PICK m \in SUBSET Lines : m = MarksOf(e.object, bps)
    BY MarksFacts
  <2>2. PICK v : v = [text |-> e.source, watches |-> TRUE, marks |-> m]
    OBVIOUS
  <2>3. v \in PanelView /\ v.text = e.source /\ v.marks = m
    BY <1>1, <2>1, <2>2 DEF PanelView
  <2>4. r = [e EXCEPT !.view = v]
    BY <1>4, <2>1, <2>2 DEF Shown
  <2>5. r \in PanelEditor /\ r.source = e.source /\ r.object = e.object /\ r.view = v
    BY <1>1, <2>3, <2>4 DEF PanelEditor
  <2> QED BY <1>4, <2>1, <2>3, <2>5
<1> QED BY <1>2, <1>3, <1>4

(* The source is set: the same shows nothing new, another has a view of    *)
(* its own, with its marks.                                                *)
LEMMA SourceSetIs ==
  ASSUME PanelInv, NEW text \in PanelText, ~text.edited, NEW o \in Heads, SourceSet(text, o),
         text = editor.source => o = editor.object
  PROVE  /\ editor' \in PanelEditor /\ editor'.source = text /\ editor'.object = o
         /\ editor'.view # Null => editor'.view.text \in {text, [text EXCEPT !.edited = TRUE]}
         /\ past' \in [adrift : BOOLEAN, unmarked : BOOLEAN] /\ past'.adrift = past.adrift
         /\ \/ text = editor.source /\ editor'.view = editor.view /\ past'.unmarked = past.unmarked
            \/ editor'.view = Null
            \/ /\ editor'.view.marks = MarksOf(o, breakpoints)
               /\ past'.unmarked = (o = Null /\ breakpoints # {})
<1>1. PICK e : e = [editor EXCEPT !.source = text, !.object = o]
  OBVIOUS
<1>2. e \in PanelEditor /\ e.source = text /\ e.object = o /\ e.view = editor.view
  BY <1>1, EditorFacts DEF PanelEditor
<1>3. PICK due \in BOOLEAN : due = (text # editor.source \/ (Watches /\ o # editor.object))
  BY EditorFacts
<1>4. PICK u : u = LosesMarks(e, breakpoints, due)
  OBVIOUS
<1>5. editor' = Shown(e, breakpoints, due) /\ past' = [past EXCEPT !.unmarked = u]
  BY <1>1, <1>3, <1>4 DEF SourceSet
<1>6. breakpoints \in SUBSET [of : Heads, line : Lines] /\ past \in [adrift : BOOLEAN, unmarked : BOOLEAN]
      /\ past.unmarked \in BOOLEAN
  BY DEF PanelInv, PanelTypeOK
<1>7. /\ editor' \in PanelEditor /\ editor'.source = text /\ editor'.object = o
      /\ e.view = Null \/ ~due => editor' = e
      /\ e.view # Null /\ due =>
           editor'.view.text = text /\ editor'.view.marks = IF e.view.text = text THEN e.view.marks
                                                            ELSE MarksOf(o, breakpoints)
  BY <1>2, <1>5, <1>6, ShownIs
<1>8. CASE text = editor.source
  <2>1. ~due /\ u = past.unmarked
    BY <1>3, <1>4, <1>8 DEF LosesMarks
  <2>2. editor' = e
    BY <1>7, <2>1
  <2>3. past' \in [adrift : BOOLEAN, unmarked : BOOLEAN] /\ past'.adrift = past.adrift /\ past'.unmarked = u
    BY <1>5, <1>6, <2>1
  <2>4. editor'.view # Null => editor'.view.text \in {text, [text EXCEPT !.edited = TRUE]}
    BY <1>2, <1>8, <2>2, EditorFacts
  <2> QED BY <1>2, <1>7, <1>8, <2>1, <2>2, <2>3, <2>4
<1>9. CASE text # editor.source /\ editor.view = Null
  <2>1. due /\ u = past.unmarked /\ editor'.view = Null
    BY <1>2, <1>3, <1>4, <1>7, <1>9 DEF LosesMarks
  <2>2. past' \in [adrift : BOOLEAN, unmarked : BOOLEAN] /\ past'.adrift = past.adrift
    BY <1>5, <1>6, <2>1
  <2> QED BY <1>7, <2>1, <2>2
<1>10. CASE text # editor.source /\ editor.view # Null
  <2>1. e.view.text # text
    <3>1. e.view.text \in {editor.source, [editor.source EXCEPT !.edited = TRUE]}
      BY <1>2, <1>10, EditorFacts
    <3>2. [editor.source EXCEPT !.edited = TRUE].edited
      BY EditorFacts DEF PanelText
    <3> QED BY <1>10, <3>1, <3>2
  <2>2. due /\ u = (o = Null /\ breakpoints # {})
    BY <1>2, <1>3, <1>4, <1>10, <2>1 DEF LosesMarks
  <2>3. editor'.view.text = text /\ editor'.view.marks = MarksOf(o, breakpoints)
    BY <1>2, <1>7, <1>10, <2>1, <2>2
  <2>4. past' \in [adrift : BOOLEAN, unmarked : BOOLEAN] /\ past'.adrift = past.adrift /\ past'.unmarked = u
    BY <1>5, <1>6, <2>2
  <2> QED BY <1>7, <2>2, <2>3, <2>4
<1> QED BY <1>8, <1>9, <1>10

(* The window's own steps leave the program alone.                         *)
LEMMA ProgramSame ==
  ASSUME PanelInv, UNCHANGED <<chain, dbg, wire, status, frame, liveVars, localVars>>, past'.adrift = past.adrift
  PROVE  ProgramIs'
<1>1. /\ chain' = chain /\ dbg' = dbg /\ wire' = wire /\ status' = status /\ frame' = frame
      /\ liveVars' = liveVars /\ localVars' = localVars
  OBVIOUS
<1> QED BY <1>1 DEF PanelInv, ProgramIs, WireIs, RunningIs, StageInv, StageIs, StoppedIsShown, Asked, Halted,
                    Reading, NoSession

LEMMA EditedKeeps ==
  ASSUME PanelInv, Edited
  PROVE  PanelInv'
<1>1. /\ editor.view # Null /\ ~editor.view.text.edited
      /\ editor' = [editor EXCEPT !.view.text.edited = TRUE]
      /\ script' = (IF status = "idle" THEN editor'.view.text ELSE script)
      /\ UNCHANGED <<opened, members, breakpoints, unopened, past, chain, dbg, wire, status, frame, liveVars,
                     localVars>>
  BY DEF Edited, shownVars
<1>2. /\ editor.view \in PanelView /\ editor.view.text \in PanelText /\ editor \in PanelEditor
      /\ editor.view.text = editor.source /\ editor.source \in PanelText
  <2>1. [editor.source EXCEPT !.edited = TRUE].edited
    BY EditorFacts DEF PanelText
  <2> QED BY <1>1, <2>1, EditorFacts
<1>3. PICK t : t = [editor.source EXCEPT !.edited = TRUE]
  OBVIOUS
<1>4. t \in PanelText /\ t.edited
  BY <1>2, <1>3 DEF PanelText
<1>5. PICK v : v = [editor.view EXCEPT !.text = t]
  OBVIOUS
<1>6. v \in PanelView /\ v.text = t /\ v.marks = editor.view.marks
  BY <1>2, <1>4, <1>5 DEF PanelView
<1>7. editor' = [editor EXCEPT !.view = v]
  BY <1>1, <1>2, <1>3, <1>5
<1>8. editor' \in PanelEditor /\ editor'.source = editor.source /\ editor'.object = editor.object /\ editor'.view = v
  BY <1>2, <1>6, <1>7 DEF PanelEditor
<1>9. script' \in PanelText /\ (script'.edited \/ script' = script)
  BY <1>1, <1>4, <1>6, <1>8, ChainFacts DEF PanelInv, PanelTypeOK
<1>10. ScriptIs'
  BY <1>1, <1>9 DEF PanelInv, WindowIs, ScriptIs
<1>11. EditorIs'
  BY <1>1, <1>3, <1>6, <1>8 DEF PanelInv, WindowIs, EditorIs
<1>12. MarksAre'
  BY <1>1, <1>6, <1>8 DEF PanelInv, WindowIs, MarksAre, ObjectShown
<1>13. ProgramIs'
  BY <1>1, ProgramSame
<1>14. PanelTypeOK'
  BY <1>1, <1>8, <1>9 DEF PanelInv, PanelTypeOK
<1> QED BY <1>10, <1>11, <1>12, <1>13, <1>14 DEF PanelInv, WindowIs

(* A mark is set where a breakpoint is, unless another object's was taken  *)
(* for it.                                                                 *)
LEMMA BreakpointToggledKeeps ==
  ASSUME PanelInv, NEW line \in Lines, BreakpointToggled(line)
  PROVE  PanelInv'
<1>1. PICK o : o = ObjectShown
  OBVIOUS
<1>2. PICK here : here = {b \in breakpoints : SameBreakpoint(b, o, line)}
  OBVIOUS
<1>3. PICK bps : bps = IF here = {} THEN breakpoints \cup {[of |-> o, line |-> line]} ELSE breakpoints \ here
  OBVIOUS
<1>4. PICK marked : marked = IF line \in editor.view.marks THEN editor.view.marks \ {line}
                             ELSE editor.view.marks \cup {line}
  OBVIOUS
<1>5. PICK due \in BOOLEAN : due = Watches
  BY EditorFacts
<1>6. PICK u \in BOOLEAN : u = (LosesMarks(editor, bps, due) \/ \E b \in here : b.of # o)
  OBVIOUS
<1>7. /\ editor.view # Null /\ breakpoints' = bps
      /\ editor' = Shown([editor EXCEPT !.view.marks = marked], bps, due)
      /\ past' = [past EXCEPT !.unmarked = u]
      /\ UNCHANGED <<opened, members, script, unopened, chain, dbg, wire, status, frame, liveVars, localVars>>
  BY <1>1, <1>2, <1>3, <1>4, <1>5, <1>6 DEF BreakpointToggled, ObjectShown, shownVars
<1>8. /\ editor.view \in PanelView /\ editor \in PanelEditor /\ editor.view.marks \in SUBSET Lines
      /\ breakpoints \in SUBSET [of : Heads, line : Lines] /\ o \in Heads
      /\ past \in [adrift : BOOLEAN, unmarked : BOOLEAN] /\ past.unmarked \in BOOLEAN
  BY <1>1, <1>7, EditorFacts DEF PanelInv, PanelTypeOK, ObjectShown
<1>9. bps \in SUBSET [of : Heads, line : Lines]
  BY <1>3, <1>8
<1>10. PICK v : v = [editor.view EXCEPT !.marks = marked]
  OBVIOUS
<1>11. v \in PanelView /\ v.marks = marked /\ v.text = editor.view.text
  BY <1>4, <1>8, <1>10 DEF PanelView
<1>12. PICK e : e = [editor EXCEPT !.view = v]
  OBVIOUS
<1>13. e = [editor EXCEPT !.view.marks = marked]
  BY <1>8, <1>10, <1>12
<1>14. e \in PanelEditor /\ e.source = editor.source /\ e.object = editor.object /\ e.view = v
  BY <1>8, <1>11, <1>12 DEF PanelEditor
<1>15. editor' = Shown(e, bps, due)
  BY <1>7, <1>13
<1>16. /\ editor' \in PanelEditor /\ editor'.source = editor.source /\ editor'.object = editor.object
       /\ v = Null \/ ~due => editor' = e
       /\ v # Null /\ due =>
            editor'.view.text = editor.source /\ editor'.view.marks = IF v.text = editor.source THEN v.marks
                                                                      ELSE MarksOf(editor.object, bps)
  BY <1>9, <1>14, <1>15, ShownIs
<1>17. past' \in [adrift : BOOLEAN, unmarked : BOOLEAN] /\ past'.adrift = past.adrift /\ past'.unmarked = u
  BY <1>7, <1>8
<1>18. EditorIs'
  <2>1. editor'.view # Null => editor'.view.text \in {editor.source, [editor.source EXCEPT !.edited = TRUE]}
    BY <1>7, <1>11, <1>14, <1>16, EditorFacts
  <2> QED BY <1>7, <1>16, <2>1 DEF PanelInv, WindowIs, EditorIs
<1>19. MarksAre'
  <2> SUFFICES ASSUME ~u, editor'.view # Null, ~unopened' \/ editor'.source = Text(opened', "script")
               PROVE  editor'.view.marks = MarksOf(o, bps)
    BY <1>1, <1>7, <1>16, <1>17 DEF MarksAre, ObjectShown
  <2>1. ~LosesMarks(editor, bps, due) /\ \A b \in here : b.of = o
    BY <1>6
  <2>2. CASE v # Null /\ due /\ v.text # editor.source
    <3>1. editor.object # Null \/ bps = {}
      BY <1>7, <1>11, <2>1, <2>2 DEF LosesMarks
    <3>2. editor'.view.marks = MarksOf(editor.object, bps)
      BY <1>16, <2>2
    <3> QED BY <1>1, <3>1, <3>2, MarksFacts DEF ObjectShown
  <2>3. CASE ~(v # Null /\ due /\ v.text # editor.source)
    <3>1. editor'.view.marks = marked
      BY <1>11, <1>14, <1>16, <2>3
    <3>2. CASE due /\ editor.view.text # editor.source
      <4>1. v = Null
        BY <1>11, <2>3, <3>2
      <4>2. editor'.view = Null
        BY <1>14, <1>16, <4>1
      <4> QED BY <4>2
    <3>3. CASE ~due \/ editor.view.text = editor.source
      <4>1. ~past.unmarked
        BY <1>7, <1>8, <2>1, <3>3 DEF LosesMarks
      <4>2. editor.view.marks = MarksOf(o, breakpoints)
        BY <1>1, <1>7, <1>16, <4>1 DEF PanelInv, WindowIs, MarksAre
      <4>3. here = {b \in breakpoints : b.of = o /\ b.line = line}
        <5>1. \A b \in breakpoints : b \in here <=> b.line = line /\ NameOf[b.of] = NameOf[o]
          BY <1>2 DEF SameBreakpoint
        <5>2. here \subseteq breakpoints
          BY <1>2
        <5> QED BY <2>1, <5>1, <5>2
      <4>4. line \in MarksOf(o, breakpoints) <=> here # {}
        BY <4>3 DEF MarksOf
      <4>5. CASE here = {}
        <5>1. PICK n : n = [of |-> o, line |-> line]
          OBVIOUS
        <5>2. n.of = o /\ n.line = line /\ bps = breakpoints \cup {n}
          BY <1>3, <4>5, <5>1
        <5>3. MarksOf(o, breakpoints \cup {n}) = MarksOf(o, breakpoints) \cup {line}
          BY <5>2 DEF MarksOf
        <5> QED BY <1>4, <3>1, <4>2, <4>4, <4>5, <5>2, <5>3
      <4>6. CASE here # {}
        <5>1. MarksOf(o, breakpoints \ here) = MarksOf(o, breakpoints) \ {line}
          BY <4>3 DEF MarksOf
        <5>2. bps = breakpoints \ here
          BY <1>3, <4>6
        <5> QED BY <1>4, <3>1, <4>2, <4>4, <4>6, <5>1, <5>2
      <4> QED BY <4>5, <4>6
    <3> QED BY <3>2, <3>3
  <2> QED BY <2>2, <2>3
<1>20. ScriptIs'
  BY <1>7 DEF PanelInv, WindowIs, ScriptIs
<1>21. ProgramIs'
  BY <1>7, <1>17, ProgramSame
<1>22. PanelTypeOK'
  BY <1>7, <1>9, <1>16, <1>17 DEF PanelInv, PanelTypeOK
<1> QED BY <1>18, <1>19, <1>20, <1>21, <1>22 DEF PanelInv, WindowIs

LEMMA StopsKeeps ==
  ASSUME PanelInv, NEW c \in Chains, NEW closes \in BOOLEAN, Stops(c, closes)
  PROVE  PanelInv'
<1>1. PICK f : f = Stopped(chain)
  OBVIOUS
<1>2. PICK g : g = Begun(f, c, "stop", "stop", opened, Ok)
  OBVIOUS
<1>3. /\ Begins(c, g) /\ dbg' = Null /\ wire' = <<>>
      /\ editor' = (IF closes THEN [editor EXCEPT !.view = Null] ELSE editor)
      /\ UNCHANGED <<unopened, opened, members, status, script, breakpoints>>
  BY <1>1, <1>2 DEF Stops, shownVars
<1>4. f \in [Chains -> PanelChain] /\ \A b \in Chains : Like(f[b], chain[b])
  BY <1>1, StoppedIs, StoppedAreLike
<1>5. /\ g \in [Chains -> PanelChain] /\ \A b \in Chains \ {c} : g[b] = f[b]
      /\ g[c].kind = "stop" /\ g[c].pc = "stop"
  <2>1. "stop" \in Pcs /\ opened \in Heads /\ Ok \in Answers \cup {Null}
    BY ChainFacts, SpecialsAre DEF Pcs
  <2> QED BY <1>2, <1>4, <2>1, BegunIs
<1>6. /\ chain' = g /\ chain[c] = NoChain /\ past' \in [adrift : BOOLEAN, unmarked : BOOLEAN]
      /\ past'.unmarked = past.unmarked
      /\ ~past'.adrift => \A b \in Chains : chain[b] = NoChain
  BY <1>3, <1>5, BeginsIs
<1>7. ChainIs(g[c]) /\ g[c] # NoChain
  BY <1>5, NoChainIs DEF ChainIs
<1>8. StageStep(c)
  <2>1. StageIs(c)'
    BY <1>3, <1>5, <1>6 DEF StageIs, NoSession
  <2> QED BY <1>6, <1>7, <2>1 DEF StageStep
<1>9. RunStep(c) /\ WireIs'
  BY <1>3, <1>6, NoChainIs, WireEmpty DEF RunStep
<1>10. ProgramIs'
  <2>1. \A b \in Chains \ {c} : Like(chain'[b], chain[b])
    BY <1>4, <1>5, <1>6
  <2> QED BY <1>5, <1>6, <1>7, <1>8, <1>9, <2>1, ProgramStep
<1>11. /\ editor' \in PanelEditor /\ editor'.source = editor.source /\ editor'.object = editor.object
       /\ editor'.view \in {editor.view, Null}
  BY <1>3, EditorFacts DEF PanelEditor
<1>12. ScriptIs'
  BY <1>3 DEF PanelInv, WindowIs, ScriptIs
<1>13. EditorIs'
  BY <1>3, <1>11 DEF PanelInv, WindowIs, EditorIs
<1>14. MarksAre'
  BY <1>3, <1>6, <1>11 DEF PanelInv, WindowIs, MarksAre, ObjectShown
<1>15. PanelTypeOK'
  <2>1. wire' \in Seq(Chains)
    BY <1>3
  <2> QED BY <1>3, <1>5, <1>6, <1>11, <2>1 DEF PanelInv, PanelTypeOK
<1> QED BY <1>10, <1>12, <1>13, <1>14, <1>15 DEF PanelInv, WindowIs

(* A member that is opened is not the package it is of: the view that      *)
(* stays does not show it yet.                                             *)
LEMMA OpensKeeps ==
  ASSUME PanelInv, NEW c \in Chains, NEW o \in Objects, Opens(c, o)
  PROVE  PanelInv'
<1>1. PICK g : g = Begun(chain, c, "open", "open", o, Null)
  OBVIOUS
<1>2. PICK e : e = IF editor.view # Null THEN editor
                   ELSE [editor EXCEPT !.view = [text |-> editor.source, watches |-> FALSE, marks |-> {}]]
  OBVIOUS
<1>3. PICK due \in BOOLEAN : due = (Watches /\ breakpoints # {})
  OBVIOUS
<1>4. PICK a \in BOOLEAN : a = (past.adrift \/ InFlight # {} \/ dbg # Null)
  OBVIOUS
<1>5. /\ editor.view = Null \/ o \in members
      /\ editor' = Shown(e, {}, due)
      /\ chain[c] = NoChain /\ chain' = g /\ opened' = o /\ breakpoints' = {} /\ status' = "idle"
      /\ past' = [past EXCEPT !.adrift = a, !.unmarked = FALSE]
      /\ unopened' = TRUE /\ UNCHANGED <<members, script, dbg, wire>>
  BY <1>1, <1>2, <1>3, <1>4 DEF Opens, Fresh
<1>6. o \in Heads
  BY DEF Heads, Anything
<1>7. /\ g \in [Chains -> PanelChain] /\ \A b \in Chains \ {c} : g[b] = chain[b]
      /\ g[c].kind = "open" /\ g[c].pc = "open" /\ g[c].of = o
  <2>1. "open" \in Pcs /\ chain \in [Chains -> PanelChain] /\ Null \in Answers \cup {Null}
    BY ChainFacts DEF Pcs
  <2> QED BY <1>1, <1>6, <2>1, BegunIs
<1>8. ChainIs(g[c]) /\ g[c] # NoChain
  BY <1>7, NoChainIs DEF ChainIs
<1>9. past' \in [adrift : BOOLEAN, unmarked : BOOLEAN] /\ past'.adrift = a /\ past'.unmarked = FALSE
  BY <1>5, ChainFacts
<1>10. ~a => (\A b \in Chains : chain[b] = NoChain) /\ dbg = Null
  BY <1>4 DEF InFlight
<1>11. StageStep(c)
  <2>1. ASSUME ~a
        PROVE  StageIs(c)'
    <3>1. NoSession'
      BY <1>5, <1>10, <2>1, FreshIs DEF NoSession
    <3> QED BY <1>5, <1>7, <3>1 DEF StageIs
  <2> QED BY <1>5, <1>8, <1>9, <1>10, <2>1 DEF StageStep
<1>12. RunStep(c)
  BY <1>5 DEF RunStep
<1>13. WireIs'
  BY <1>5, <1>7, NoChainIs, WireSame
<1>14. ProgramIs'
  BY <1>5, <1>7, <1>8, <1>11, <1>12, <1>13, SameIsLike, ProgramStep
<1>15. /\ e \in PanelEditor /\ e.source = editor.source /\ e.object = editor.object
       /\ editor.view # Null => e.view = editor.view
       /\ editor.view = Null => e.view.text = editor.source /\ e.view.marks = {} /\ ~due
  <2>1. CASE editor.view # Null
    BY <1>2, <2>1, EditorFacts
  <2>2. CASE editor.view = Null
    <3>1. PICK v : v = [text |-> editor.source, watches |-> FALSE, marks |-> {}]
      OBVIOUS
    <3>2. v \in PanelView /\ v.text = editor.source /\ v.marks = {}
      BY <3>1, EditorFacts DEF PanelView
    <3>3. e = [editor EXCEPT !.view = v]
      BY <1>2, <2>2, <3>1
    <3>4. e \in PanelEditor /\ e.source = editor.source /\ e.object = editor.object /\ e.view = v
      BY <3>2, <3>3, EditorFacts DEF PanelEditor
    <3> QED BY <1>3, <2>2, <3>2, <3>4, EditorFacts
  <2> QED BY <2>1, <2>2
<1>16. /\ editor' \in PanelEditor /\ editor'.source = editor.source /\ editor'.object = editor.object
       /\ e.view = Null \/ ~due => editor' = e
       /\ e.view # Null /\ due => editor'.view.text = editor.source
  <2>1. {} \in SUBSET [of : Heads, line : Lines]
    OBVIOUS
  <2> QED BY <1>5, <1>15, <2>1, ShownIs
<1>17. EditorIs'
  <2>1. editor'.view # Null => editor'.view.text \in {editor.source, [editor.source EXCEPT !.edited = TRUE]}
    BY <1>15, <1>16, EditorFacts
  <2> QED BY <1>5, <1>16, <2>1 DEF PanelInv, WindowIs, EditorIs
<1>18. MarksAre'
  <2> SUFFICES ASSUME editor'.view # Null, editor.source = Text(o, "script")
               PROVE  editor'.view.marks = MarksOf(ObjectShown', {})
    BY <1>5, <1>16 DEF MarksAre
  <2>1. editor.source.kind = "script" /\ editor.source.of = o
    BY <1>6, TextIs
  <2>2. members = MemberOf[o]
    BY <2>1 DEF PanelInv, WindowIs, EditorIs
  <2>3. editor.view = Null
    BY <1>5, <2>2, PanelAssumption
  <2>4. editor'.view.marks = {}
    BY <1>15, <1>16, <2>3
  <2> QED BY <2>4, MarksFacts
<1>19. ScriptIs'
  BY <1>5 DEF ScriptIs
<1>20. PanelTypeOK'
  BY <1>5, <1>6, <1>7, <1>9, <1>16 DEF PanelInv, PanelTypeOK
<1> QED BY <1>14, <1>17, <1>18, <1>19, <1>20 DEF PanelInv, WindowIs

LEMMA OpenAnsweredKeeps ==
  ASSUME PanelInv, NEW c \in Chains, NEW ok \in BOOLEAN, OpenAnswered(c, ok)
  PROVE  PanelInv'
<1>1. PICK o : o = chain[c].of
  OBVIOUS
<1>2. /\ chain[c].pc = "open" /\ Ends(c)
      /\ UNCHANGED <<opened, breakpoints, status, frame, liveVars, localVars, dbg, wire>>
  BY DEF OpenAnswered, Waiting
<1>3. chain[c] # NoChain /\ ~OnWire(chain[c]) /\ ~Runner(chain[c]) /\ o \in Objects /\ o \in Heads
  <2>1. chain[c].kind = "open" /\ ChainIs(chain[c]) /\ chain[c] # NoChain
    BY <1>2, ChainFacts, NoChainIs DEF ChainIs, PanelAfterStop
  <2> QED BY <1>1, <1>2, <2>1 DEF ChainIs, OnWire, Runner, Heads, Anything
<1>4. /\ chain' \in [Chains -> PanelChain] /\ \A b \in Chains \ {c} : chain'[b] = chain[b]
      /\ chain'[c] = NoChain
  BY <1>2, EndsIs
<1>5. ASSUME past'.adrift = past.adrift
      PROVE  ProgramIs'
  <2>1. ChainIs(chain'[c]) /\ WireIs' /\ RunStep(c)
    BY <1>2, <1>3, <1>4, NoChainIs, WireSame DEF RunStep
  <2>2. ~past.adrift => StoppedIsShown'
    BY <1>2, <1>3, AloneStands DEF StageIs, NoSession, StoppedIsShown
  <2>3. StageStep(c)
    BY <1>3, <1>4, <1>5, <2>2 DEF StageStep
  <2> QED BY <1>4, <2>1, <2>3, SameIsLike, ProgramStep
<1>6. CASE ~ok
  <2>1. unopened' = TRUE /\ UNCHANGED <<script, members, editor, past>>
    BY <1>6 DEF OpenAnswered
  <2>2. ScriptIs'
    BY <2>1 DEF ScriptIs
  <2>3. EditorIs'
    BY <2>1 DEF PanelInv, WindowIs, EditorIs
  <2>4. MarksAre'
    BY <1>2, <2>1 DEF PanelInv, WindowIs, MarksAre, ObjectShown
  <2>5. PanelTypeOK'
    BY <1>2, <1>4, <2>1 DEF PanelInv, PanelTypeOK
  <2> QED BY <1>5, <2>1, <2>2, <2>3, <2>4, <2>5 DEF PanelInv, WindowIs
<1>7. CASE ok
  <2>1. PICK t : t = Text(o, "script")
    OBVIOUS
  <2>2. t \in PanelText /\ t.of = o /\ t.kind = "script" /\ ~t.edited
    BY <1>3, <2>1, TextIs
  <2>3. script' = t /\ members' = MemberOf[o] /\ SourceSet(t, Null) /\ unopened' = (o # opened)
    BY <1>1, <1>7, <2>1 DEF OpenAnswered
  <2>4. Null \in Heads /\ (t = editor.source => Null = editor.object)
    BY <2>2 DEF PanelInv, WindowIs, EditorIs, Heads
  <2>5. /\ editor' \in PanelEditor /\ editor'.source = t /\ editor'.object = Null
        /\ editor'.view # Null => editor'.view.text \in {t, [t EXCEPT !.edited = TRUE]}
        /\ past' \in [adrift : BOOLEAN, unmarked : BOOLEAN] /\ past'.adrift = past.adrift
        /\ \/ t = editor.source /\ editor'.view = editor.view /\ past'.unmarked = past.unmarked
           \/ editor'.view = Null
           \/ /\ editor'.view.marks = MarksOf(Null, breakpoints)
              /\ past'.unmarked = (Null = Null /\ breakpoints # {})
    BY <2>2, <2>3, <2>4, SourceSetIs
  <2>6. ScriptIs'
    BY <1>2, <2>2, <2>3 DEF ScriptIs
  <2>7. EditorIs'
    BY <1>2, <1>3, <2>1, <2>2, <2>3, <2>5 DEF EditorIs
  <2>8. MarksAre'
    <3> SUFFICES ASSUME ~past'.unmarked, editor'.view # Null, ~unopened' \/ t = Text(opened, "script")
                 PROVE  editor'.view.marks = MarksOf(opened, breakpoints)
      BY <1>2, <2>5 DEF MarksAre, ObjectShown
    <3>1. t = Text(opened, "script")
      BY <2>1, <2>3
    <3>2. CASE t = editor.source /\ editor'.view = editor.view /\ past'.unmarked = past.unmarked
      <4>1. editor.view.marks = MarksOf(ObjectShown, breakpoints)
        BY <3>1, <3>2 DEF PanelInv, WindowIs, MarksAre
      <4>2. ObjectShown = opened
        BY <2>4, <3>2 DEF ObjectShown
      <4> QED BY <3>2, <4>1, <4>2
    <3>3. CASE editor'.view.marks = MarksOf(Null, breakpoints) /\ past'.unmarked = (Null = Null /\ breakpoints # {})
      <4>1. breakpoints = {} /\ breakpoints \in SUBSET [of : Heads, line : Lines]
        BY <3>3
      <4> QED BY <3>3, <4>1, MarksFacts
    <3> QED BY <2>5, <3>2, <3>3
  <2>9. PanelTypeOK'
    BY <1>2, <1>4, <2>2, <2>3, <2>5 DEF PanelInv, PanelTypeOK
  <2> QED BY <1>5, <2>5, <2>6, <2>7, <2>8, <2>9 DEF PanelInv, WindowIs
<1> QED BY <1>6, <1>7

LEMMA SourceAnsweredKeeps ==
  ASSUME PanelInv, NEW c \in Chains, NEW ok \in BOOLEAN, SourceAnswered(c, ok)
  PROVE  PanelInv'
<1>1. PICK o : o = chain[c].at[1]
  OBVIOUS
<1>2. /\ chain[c].pc = "source" /\ Locals(c)
      /\ UNCHANGED <<unopened, opened, members, status, frame, liveVars, script, breakpoints, dbg>>
  BY DEF SourceAnswered, Waiting
<1>3. chain[c] # NoChain /\ ~OnWire(chain[c]) /\ o \in Heads
  <2>1. chain[c].at \in Answers
    BY <1>2, ChainFacts DEF ChainIs
  <2>2. \A r \in Answers : r[1] \in Heads
    BY DEF Answers
  <2> QED BY <1>1, <1>2, <2>1, <2>2, NoChainIs DEF OnWire
<1>4. ~past.adrift => Halted /\ wire = <<>> /\ liveVars' = frame
  BY <1>2, <1>3, AloneStands DEF StageIs
<1>5. ASSUME past'.adrift = past.adrift
      PROVE  ProgramIs' /\ chain' \in [Chains -> PanelChain] /\ wire' \in Seq(Chains)
  BY <1>2, <1>3, <1>4, <1>5, LocalsKeeps
<1>6. ScriptIs'
  BY <1>2 DEF PanelInv, WindowIs, ScriptIs
<1>7. CASE ~ok
  <2>1. UNCHANGED <<editor, past>>
    BY <1>7 DEF SourceAnswered
  <2>2. WindowIs'
    BY <1>2, <2>1, WindowSame DEF WindowVars
  <2>3. PanelTypeOK'
    BY <1>2, <1>5, <2>1 DEF PanelInv, PanelTypeOK
  <2> QED BY <1>5, <2>1, <2>2, <2>3 DEF PanelInv
<1>8. CASE ok
  <2>1. PICK t : t = Text(o, "source")
    OBVIOUS
  <2>2. t \in PanelText /\ t.of = o /\ t.kind = "source" /\ ~t.edited
    BY <1>3, <2>1, TextIs
  <2>3. SourceSet(t, o)
    BY <1>1, <1>8, <2>1 DEF SourceAnswered
  <2>4. t = editor.source => o = editor.object
    BY <2>2 DEF PanelInv, WindowIs, EditorIs
  <2>5. /\ editor' \in PanelEditor /\ editor'.source = t /\ editor'.object = o
        /\ editor'.view # Null => editor'.view.text \in {t, [t EXCEPT !.edited = TRUE]}
        /\ past' \in [adrift : BOOLEAN, unmarked : BOOLEAN] /\ past'.adrift = past.adrift
        /\ \/ t = editor.source /\ editor'.view = editor.view /\ past'.unmarked = past.unmarked
           \/ editor'.view = Null
           \/ /\ editor'.view.marks = MarksOf(o, breakpoints)
              /\ past'.unmarked = (o = Null /\ breakpoints # {})
    BY <1>3, <2>2, <2>3, <2>4, SourceSetIs
  <2>6. EditorIs'
    BY <1>2, <2>2, <2>5 DEF EditorIs
  <2>7. MarksAre'
    <3> SUFFICES ASSUME ~past'.unmarked, editor'.view # Null, ~unopened \/ t = Text(opened, "script")
                 PROVE  editor'.view.marks = MarksOf(IF o = Null THEN opened ELSE o, breakpoints)
      BY <1>2, <2>5 DEF MarksAre, ObjectShown
    <3>1. CASE t = editor.source /\ editor'.view = editor.view /\ past'.unmarked = past.unmarked
      BY <2>4, <3>1 DEF PanelInv, WindowIs, MarksAre, ObjectShown
    <3>2. CASE editor'.view.marks = MarksOf(o, breakpoints) /\ past'.unmarked = (o = Null /\ breakpoints # {})
      <4>1. (o # Null \/ breakpoints = {}) /\ breakpoints \in SUBSET [of : Heads, line : Lines]
        BY <3>2 DEF PanelInv, PanelTypeOK
      <4> QED BY <3>2, <4>1, MarksFacts
    <3> QED BY <2>5, <3>1, <3>2
  <2>8. PanelTypeOK'
    BY <1>2, <1>5, <2>5 DEF PanelInv, PanelTypeOK
  <2> QED BY <1>5, <1>6, <2>5, <2>6, <2>7, <2>8 DEF PanelInv, WindowIs
<1> QED BY <1>7, <1>8

-----------------------------------------------------------------------------
LEMMA PanelStart ==
  ASSUME PanelInit
  PROVE  PanelInv
<1>1. /\ opened = Null /\ members = {} /\ script = NoText /\ breakpoints = {} /\ status = "idle"
      /\ editor = [source |-> NoText, object |-> Null, view |-> Null]
      /\ chain = [c \in Chains |-> NoChain] /\ dbg = Null /\ wire = <<>>
      /\ past = [adrift |-> FALSE, unmarked |-> FALSE] /\ unopened = TRUE
  BY DEF PanelInit
<1>2. NoText \in PanelText /\ NoText.kind = "none" /\ NoText.of = Null /\ ~NoText.edited
  BY DEF NoText, Text, PanelText, Heads
<1>3. editor \in PanelEditor /\ editor.source = NoText /\ editor.object = Null /\ editor.view = Null
  BY <1>1, <1>2 DEF PanelEditor, Heads
<1>4. PanelTypeOK
  BY <1>1, <1>2, <1>3, NoChainIs DEF PanelTypeOK, Heads
<1>5. WindowIs
  BY <1>1, <1>2, <1>3 DEF WindowIs, ScriptIs, EditorIs, MarksAre
<1>6. \A c \in Chains : chain[c] = NoChain
  BY <1>1
<1>7. ProgramIs
  BY <1>1, <1>6, NoChainIs DEF ProgramIs, WireIs, RunningIs, StageInv, StoppedIsShown
<1> QED BY <1>4, <1>5, <1>7 DEF PanelInv

LEMMA PanelKeeps ==
  ASSUME PanelInv, PanelNext
  PROVE  PanelInv'
<1>1. ASSUME NEW c \in Chains, SidecarStep(c)
      PROVE  PanelInv'
  BY <1>1, LockTakenKeeps, BuildFailsKeeps, SessionBuiltKeeps, ProgramStopsKeeps, ProgramEndsKeeps, ValuesReadKeeps
     DEF SidecarStep
<1>2. ASSUME NEW c \in Chains, PanelStep(c)
      PROVE  PanelInv'
  <2>1. ASSUME NEW ok \in BOOLEAN, OpenAnswered(c, ok) \/ SourceAnswered(c, ok)
        PROVE  PanelInv'
    BY <2>1, OpenAnsweredKeeps, SourceAnsweredKeeps
  <2>2. ASSUME NEW how \in {"ok", "error", "lost"}, RunAnswered(c, how)
        PROVE  PanelInv'
    BY <2>2, RunAnsweredKeeps
  <2>3. ASSUME StopAnswered(c) \/ StartAnswered(c) \/ StepAnswered(c) \/ ValuesAnswered(c) \/ LocalsAnswered(c)
        PROVE  PanelInv'
    BY <2>3, StopAnsweredKeeps, StartAnsweredKeeps, StepAnsweredKeeps, ValuesAnsweredKeeps, LocalsAnsweredKeeps
  <2> QED BY <1>2, <2>1, <2>2, <2>3 DEF PanelStep
<1>3. ASSUME NEW c \in Chains, UserStep(c)
      PROVE  PanelInv'
  BY <1>3, OpensKeeps, RunsKeeps, StartsKeeps, StepsKeeps, StopsKeeps DEF UserStep
<1> QED BY <1>1, <1>2, <1>3, EditedKeeps, BreakpointToggledKeeps DEF PanelNext

LEMMA PanelStays ==
  ASSUME PanelInv, UNCHANGED panelVars
  PROVE  PanelInv'
<1>1. /\ UNCHANGED WindowVars /\ past' = past
      /\ UNCHANGED <<chain, dbg, wire, status, frame, liveVars, localVars>>
  BY DEF panelVars, shownVars, WindowVars
<1>2. WindowIs' /\ ProgramIs'
  BY <1>1, WindowSame, ProgramSame
<1>3. PanelTypeOK'
  BY <1>1 DEF PanelInv, PanelTypeOK, WindowVars
<1> QED BY <1>2, <1>3 DEF PanelInv

LEMMA PanelHolds ==
  ASSUME PanelInv
  PROVE  DebuggerTellsTheTruth
<1>1. WindowIs /\ ProgramIs
  BY DEF PanelInv
<1>2. RunningHasCall
  <2> SUFFICES ASSUME status = "running"
               PROVE  \E c \in InFlight : chain[c].kind \in {"run", "start"}
    BY DEF RunningHasCall
  <2>1. PICK c \in Chains : Runner(chain[c])
    BY <1>1 DEF ProgramIs, RunningIs
  <2>2. chain[c] # NoChain /\ chain[c].kind \in {"run", "start"}
    BY <2>1, NoChainIs DEF Runner
  <2> QED BY <2>2 DEF InFlight
<1>3. InFlight = {} => \A c \in Chains : chain[c] = NoChain
  BY DEF InFlight
<1>4. StoppedProgramIsShown
  BY <1>1, <1>3 DEF StoppedProgramIsShown, Steady, ProgramIs, StageInv, StoppedIsShown
<1>5. MarksAreBreakpoints
  BY <1>1 DEF MarksAreBreakpoints, WindowIs, MarksAre, ObjectShown
<1>6. ScriptIsOfTheObject
  BY <1>1 DEF ScriptIsOfTheObject, WindowIs, ScriptIs
<1> QED BY <1>2, <1>4, <1>5, <1>6 DEF DebuggerTellsTheTruth

-----------------------------------------------------------------------------
(***************************************************************************)
(* The screens together: what one does, the others do not see.             *)
(***************************************************************************)
ScreenInv ==
  /\ part \in {"session", "debugger", "sandboxes", "tree"} \cup Dialogs
  /\ PanelInv /\ ListInv /\ TreeInv /\ RestInv

LEMMA DialogKeeps ==
  ASSUME RestInv, DialogPart
  PROVE  RestInv'
<1>1. CASE OauthNext
  <2>1. UNCHANGED <<module, tester, form, ords>>
    BY <1>1 DEF OauthNext, OAuthOpened, OAuthClosed, handleCreate, confirmRevoke, SecretNoted, cancelRevoke,
                NameTyped, requestRevoke, OauthAnswered, Served, Oauth
  <2>2. OauthInv'
    BY <1>1, OauthKeeps DEF RestInv
  <2>3. ModuleInv' /\ TesterInv'
    BY <2>1 DEF RestInv, ModuleInv, ModuleTypeOK, ModuleOK, TesterInv, TesterTypeOK, TesterOK
  <2>4. FormInv' /\ OrdsInv'
    BY <2>1 DEF RestInv, FormInv, SelectShowsSource, OrdsInv, OrdsTypeOK, OrdsOK, Enabling
  <2> QED BY <2>2, <2>3, <2>4 DEF RestInv
<1>2. ASSUME UNCHANGED <<registered, oauth>>
      PROVE  OauthInv'
  BY <1>2 DEF RestInv, OauthInv, OauthTypeOK, OauthOK, Creating, OfPanel
<1>3. CASE ModuleNext
  <2>1. UNCHANGED <<registered, oauth, tester, form, ords>>
    BY <1>3 DEF ModuleNext, ModuleSelected, onExportSql, ModuleAnswered, Module
  <2>2. ModuleInv'
    BY <1>3, ModuleKeeps DEF RestInv
  <2>3. TesterInv'
    BY <2>1 DEF RestInv, TesterInv, TesterTypeOK, TesterOK
  <2>4. FormInv' /\ OrdsInv'
    BY <2>1 DEF RestInv, FormInv, SelectShowsSource, OrdsInv, OrdsTypeOK, OrdsOK, Enabling
  <2> QED BY <1>2, <2>1, <2>2, <2>3, <2>4 DEF RestInv
<1>4. CASE TesterNext
  <2>1. UNCHANGED <<registered, oauth, module, form, ords>>
    BY <1>4 DEF TesterNext, UrlChanged, ClientTyped, TesterReopened, send, fetchToken, TesterAnswered, Tester
  <2>2. TesterInv'
    BY <1>4, TesterKeeps DEF RestInv
  <2>3. ModuleInv'
    BY <2>1 DEF RestInv, ModuleInv, ModuleTypeOK, ModuleOK
  <2>4. FormInv' /\ OrdsInv'
    BY <2>1 DEF RestInv, FormInv, SelectShowsSource, OrdsInv, OrdsTypeOK, OrdsOK, Enabling
  <2> QED BY <1>2, <2>1, <2>2, <2>3, <2>4 DEF RestInv
<1>5. CASE FormNext
  <2>1. UNCHANGED <<registered, oauth, module, tester, ords>>
    BY <1>5 DEF FormNext, BuilderShown, TypeChosen, onObjectChange, ListCame, requestSuggestion, SuggestionCame,
                TriedAgain, applySuggestion, Form
  <2>2. FormInv'
    BY <1>5, FormKeeps DEF RestInv
  <2>3. ModuleInv' /\ TesterInv'
    BY <2>1 DEF RestInv, ModuleInv, ModuleTypeOK, ModuleOK, TesterInv, TesterTypeOK, TesterOK
  <2>4. OrdsInv'
    BY <2>1 DEF RestInv, OrdsInv, OrdsTypeOK, OrdsOK, Enabling
  <2> QED BY <1>2, <2>1, <2>2, <2>3, <2>4 DEF RestInv
<1>6. CASE OrdsNext
  <2>1. UNCHANGED <<registered, oauth, module, tester, form>>
    BY <1>6 DEF OrdsNext, PageEntered, SessionOpened, SchemasListed, onOpenBootstrap, ModalClosed, onEnableSchema,
                setBaseUrl, OrdsServed, OrdsAnswered, Ords
  <2>2. OrdsInv'
    BY <1>6, OrdsKeeps DEF RestInv
  <2>3. ModuleInv' /\ TesterInv'
    BY <2>1 DEF RestInv, ModuleInv, ModuleTypeOK, ModuleOK, TesterInv, TesterTypeOK, TesterOK
  <2>4. FormInv'
    BY <2>1 DEF RestInv, FormInv, SelectShowsSource
  <2> QED BY <1>2, <2>1, <2>2, <2>3, <2>4 DEF RestInv
<1> QED BY <1>1, <1>3, <1>4, <1>5, <1>6 DEF DialogPart

(* On every screen: the window of the debugger shows what the sidecar's    *)
(* debugger does (debug.svelte.ts), the cards are those of the cloud and   *)
(* of the cache (sandboxes.svelte.ts), the tree shows what was loaded and  *)
(* applied (+page.svelte), and the dialogs around REST what they asked for *)
(* (OAuthClientsPanel, RestModuleDetails, RestTestPanel, RestApiBuilder,   *)
(* ords.svelte.ts).                                                        *)
THEOREM ScreensAreRight == ScreenSpec => []ScreensTellTheTruth
<1>1. ScreenInit => ScreenInv
  BY PanelStart, ListStart, TreeStart, RestStart DEF ScreenInit, ScreenInv
<1>2. ScreenInv /\ [ScreenNext]_screenVars => ScreenInv'
  <2> SUFFICES ASSUME ScreenInv, [ScreenNext]_screenVars
               PROVE  ScreenInv'
    OBVIOUS
  <2>1. /\ part' = part /\ part' \in {"session", "debugger", "sandboxes", "tree"} \cup Dialogs
        /\ PanelInv /\ ListInv /\ TreeInv /\ RestInv
    BY DEF ScreenInv, ScreenNext, screenVars
  <2>2. PanelNext \/ UNCHANGED panelVars
    BY DEF ScreenNext, screenVars, PanelPart
  <2>3. ListNext \/ UNCHANGED listVars
    BY DEF ScreenNext, screenVars
  <2>4. TreeNext \/ UNCHANGED treeVars
    BY DEF ScreenNext, screenVars, TreePart
  <2>5. DialogPart \/ UNCHANGED restVars
    BY DEF ScreenNext, screenVars
  <2>6. PanelInv' /\ ListInv' /\ TreeInv' /\ RestInv'
    BY <2>1, <2>2, <2>3, <2>4, <2>5, PanelKeeps, PanelStays, ListKeeps, ListStays, TreeKeeps, TreeStays,
       DialogKeeps, RestStays
  <2> QED BY <2>1, <2>6 DEF ScreenInv
<1>3. ScreenInv => ScreensTellTheTruth
  BY PanelHolds, ListHolds, TreeHolds, RestHolds DEF ScreenInv, ScreensTellTheTruth
<1> QED BY <1>1, <1>2, <1>3, PTL DEF ScreenSpec

(* What is proved of Workspace holds of its page among the screens, with   *)
(* what holds of it in the long run.                                       *)
LEMMA ScreensAreOfWorkspace == ScreenSpec => Spec
<1>1. ScreenInit => Init
  BY DEF ScreenInit
<1>2. [ScreenNext]_screenVars => [Next]_vars
  BY DEF ScreenNext, SessionPart, screenVars
<1> QED BY <1>1, <1>2, PTL DEF ScreenSpec, Spec
=============================================================================
