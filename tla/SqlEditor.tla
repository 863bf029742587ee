----------------------------- MODULE SqlEditor -----------------------------
(***************************************************************************)
(* The SQL editor's store (stores/sql-editor.svelte.ts): the tabs, the     *)
(* runs they start, the three questions a run may put to the user, the     *)
(* rows a run leaves in the history, and the view of the open transaction. *)
(*                                                                         *)
(* A run is a chain of asynchronous calls.  Between two of them the user   *)
(* may edit, start another run, commit, or leave for another connection;   *)
(* what a run goes on with is the tab object it took at its start and the  *)
(* variables of the module as they are by then.                            *)
(*                                                                         *)
(* The sidecar is seen from here as a set of calls it has not served and   *)
(* the answers it gave, which come back in that order.                     *)
(***************************************************************************)
EXTENDS Naturals, FiniteSets, Sequences, SequencesExt

CONSTANTS
  Conns,     \* the connections
  Prod,      \* those whose env is prod
  Menu,      \* the runs the user may start
  MaxTabs, MaxRuns, MaxEnds, MaxLeaves, \* bounds
  None

VARIABLES
  ctx,     \* the connection the workspace page set, None on the other pages
  epoch,   \* how often a workspace page was left
  tab,     \* tab[t]: the live object of the t-th tab opened on this page
  tabs,    \* the tabs that are open, in order
  active,
  run,     \* run[r]: the r-th run started
  ask,     \* the run whose question is in each of the three slots
  pending, \* the calls the sidecar has not served
  answers, \* its answers on their way back
  tx       \* the transaction: open in fact, counted by the sidecar, shown as
           \* open, the commits and rollbacks asked, and (history) who was not
           \* told of what happened to it: the sidecar, or the store

tabVars == <<tab, tabs, active>>
wire == <<pending, answers>>
vars == <<ctx, epoch, tabVars, run, ask, wire, tx>>

(* A run the user may start.  how: "one" for the buffer, "all" for a       *)
(* script, "selection" for the selection or the statement at the cursor    *)
(* and "fetch" for all the rows of a result, which know of no DDL window,  *)
(* and "command" for the Command Window, which has no tab, leaves no row   *)
(* and looks after no transaction.  Of its statement: whether              *)
(* detectDestructive asks about it, what it does to the transaction, what  *)
(* classifySqlOptimistic makes of its first word, whether the sidecar      *)
(* wants a DDL window for it, and what classifySql makes of it: after a    *)
(* DML, a DDL or a block it asks the database and counts the statement,    *)
(* after COMMIT, SAVEPOINT or SET TRANSACTION it only asks, and after any  *)
(* other (CALL, LOCK TABLE) it does neither.                               *)
Kind == [how : {"one", "all", "selection", "fetch", "command"}, asks : BOOLEAN,
         does : {"reads", "changes", "ends"}, word : {"modifying", "tcl_close", "other"},
         ddl : BOOLEAN, sync : {"counts", "asks", "none"}]

ASSUME SqlEditorAssumption ==
  /\ Prod \subseteq Conns /\ None \notin Conns
  /\ Menu \subseteq Kind
  /\ {MaxTabs, MaxRuns, MaxEnds, MaxLeaves} \subseteq Nat

NewTab == [copy |-> 0, running |-> FALSE, by |-> 0, torn |-> FALSE]
NoAsk == [confirm |-> 0, unsafe |-> 0, ddl |-> 0]
NoTx == [open |-> FALSE, counted |-> FALSE, shown |-> FALSE, ends |-> 0, untold |-> {}]

Init ==
  /\ ctx = None /\ epoch = 0
  /\ tab = <<>> /\ tabs = <<>> /\ active = 0
  /\ run = <<>> /\ ask = NoAsk
  /\ pending = {} /\ answers = <<>>
  /\ tx = NoTx

Open(t) == t \in Range(tabs)

-----------------------------------------------------------------------------
(* The workspace page.                                                     *)

PageEntered(c) ==
  /\ ctx = None
  /\ ctx' = c
  /\ UNCHANGED <<epoch, tabVars, run, ask, wire, tx>>

(* Leaving resets the store; the session is closed behind it.  reset()     *)
(* empties the first two slots and leaves the third as it is.              *)
PageLeft ==
  /\ ctx # None /\ epoch < MaxLeaves
  /\ ctx' = None /\ epoch' = epoch + 1
  /\ tab' = <<>> /\ tabs' = <<>> /\ active' = 0
  /\ ask' = [NoAsk EXCEPT !.ddl = ask.ddl]
  /\ tx' = [NoTx EXCEPT !.ends = tx.ends]
  /\ UNCHANGED <<run, wire>>

-----------------------------------------------------------------------------
(* Tabs.                                                                   *)

TabOpened ==
  /\ ctx # None /\ Len(tab) < MaxTabs
  /\ tab' = Append(tab, NewTab)
  /\ tabs' = Append(tabs, Len(tab'))
  /\ active' = Len(tab')
  /\ UNCHANGED <<ctx, epoch, run, ask, wire, tx>>

Place(t) == CHOOSE i \in DOMAIN tabs : tabs[i] = t

TabClosed(t) ==
  /\ Open(t)
  /\ tabs' = RemoveAt(tabs, Place(t))
  /\ active' = IF active # t THEN active
               ELSE IF tabs' = <<>> THEN 0
               ELSE IF Place(t) = 1 THEN tabs'[1] ELSE tabs'[Place(t) - 1]
  /\ UNCHANGED <<ctx, epoch, tab, run, ask, wire, tx>>

TabSelected(t) ==
  /\ Open(t) /\ t # active
  /\ active' = t
  /\ UNCHANGED <<ctx, epoch, tab, tabs, run, ask, wire, tx>>

-----------------------------------------------------------------------------
(* Runs: their calls and how they end.                                     *)

(* A run holds the object its tab was at its start (copy); conn: the       *)
(* connection it was started on, row: the connection its row in the        *)
(* history and the upload names.  No component shows the DDL question, so  *)
(* that a run which puts it never goes on.                                 *)
NewRun(kind, t) ==
  [pc |-> "sent", kind |-> kind, tab |-> t, copy |-> IF t = 0 THEN 0 ELSE tab[t].copy,
   conn |-> ctx, epoch |-> epoch, acked |-> FALSE, row |-> None]

(* What is still of interest of a run that ended.                          *)
Done(e) == [pc |-> "done", tab |-> e.tab, epoch |-> e.epoch, conn |-> e.conn,
            row |-> e.row]

Call(what, r) == [call |-> what, n |-> r, epoch |-> epoch]
RunAlone == UNCHANGED <<ctx, epoch, tabs, active>>

(* What a run does to its tab it does to the object it holds, which a      *)
(* commit may have replaced in the store.                                  *)
Holds(e, t) == e.tab = t /\ e.epoch = epoch /\ e.copy = tab[t].copy
Taken(r, e) ==
  [t \in DOMAIN tab |->
     IF Holds(e, t) THEN [tab[t] EXCEPT !.running = TRUE, !.by = r] ELSE tab[t]]

(* Mutation: a run that ends leaves its tab as it is.                      *)
Freed_NoFinally(e) == tab

Freed(e) ==
  [t \in DOMAIN tab |->
     IF Holds(e, t) THEN [tab[t] EXCEPT !.running = FALSE, !.by = 0] ELSE tab[t]]

Gated(e) == e.kind.how \notin {"selection", "fetch"}

-----------------------------------------------------------------------------
(* Runs.                                                                   *)

RunStarted(kind) ==
  /\ ctx # None /\ Len(run) < MaxRuns
  /\ kind.how # "command" => active # 0
  /\ LET r == Len(run) + 1
         e == NewRun(kind, IF kind.how = "command" THEN 0 ELSE active)
     IN IF kind.asks /\ kind.how # "fetch"
          THEN /\ run' = Append(run,
                    IF ask.confirm = 0 THEN [e EXCEPT !.pc = "confirm"] ELSE Done(e))
               /\ ask' = IF ask.confirm = 0 THEN [ask EXCEPT !.confirm = r] ELSE ask
               /\ UNCHANGED <<tab, pending>>
          ELSE /\ run' = Append(run, e) /\ tab' = Taken(r, e)
               /\ pending' = pending \cup {Call("run", r)}
               /\ UNCHANGED ask
  /\ RunAlone /\ UNCHANGED <<answers, tx>>

(* A run goes on with a call, or ends through its `finally`.               *)
Calls(r, e, what) ==
  /\ run' = [run EXCEPT ![r] = e]
  /\ pending' = pending \cup {Call(what, r)}
Ends(r, e) ==
  /\ run' = [run EXCEPT ![r] = Done(e)]
  /\ tab' = Freed(e)

ConfirmAnswered(yes) ==
  /\ ask.confirm # 0
  /\ LET r == ask.confirm
     IN IF yes THEN Calls(r, [run[r] EXCEPT !.pc = "sent"], "run") /\ tab' = Taken(r, run[r])
        ELSE Ends(r, run[r]) /\ UNCHANGED pending
  /\ ask' = [ask EXCEPT !.confirm = 0]
  /\ RunAlone /\ UNCHANGED <<answers, tx>>

UnsafeAnswered(yes) ==
  /\ ask.unsafe # 0
  /\ LET r == ask.unsafe
     IN IF yes THEN Calls(r, [run[r] EXCEPT !.pc = "sent", !.acked = TRUE], "run")
                    /\ UNCHANGED tab
        ELSE Ends(r, run[r]) /\ UNCHANGED pending
  /\ ask' = [ask EXCEPT !.unsafe = 0]
  /\ RunAlone /\ UNCHANGED <<answers, tx>>

-----------------------------------------------------------------------------
(* The sidecar.                                                            *)

Served(c, value, after) ==
  /\ c \in pending
  /\ pending' = pending \ {c}
  /\ answers' = Append(answers, [call |-> c.call, n |-> c.n, epoch |-> c.epoch,
                                 value |-> value])
  /\ tx' = after
  /\ RunAlone /\ UNCHANGED <<tab, run, ask>>

(* The session a call was sent to is closed when its page has been left.   *)
Gone(c) == c.epoch # epoch \/ ctx = None

(* Whether the store will take notice of what a run did.                   *)
Seen(e) == e.kind.how \in {"one", "all", "selection"} /\ e.kind.word # "other"

(* What a run may have done to the transaction: a script may stop at any   *)
(* statement, and one that fails may have committed (a DDL) or done a part *)
(* of its work all the same.                                               *)
Effects(kind, value) ==
  CASE value = "ok" /\ kind.how # "all" -> {kind.does}
    [] value \in {"ok", "error"}         -> {"reads", kind.does}
    [] OTHER                             -> {"reads"}

(* Whether the sidecar asked the database after it, and was told: it does  *)
(* not ask after a statement that failed.                                  *)
Asked(kind, value) ==
  IF value # "ok" \/ kind.sync = "none" THEN {"none"}
  ELSE {"told", "unheard"} \cup IF kind.how = "all" THEN {"none"} ELSE {}

Opened(effect) == (tx.open /\ effect # "ends") \/ effect = "changes"

(* An answer that does not come is taken for no transaction.               *)
Counted(kind, effect, heard) ==
  CASE heard = "none"    -> tx.counted
    [] heard = "unheard" -> FALSE
    [] heard = "told"    -> Opened(effect) /\ (tx.counted \/ kind.sync = "counts")

Untold(e, value, effect, heard) ==
  LET found == heard = "told" /\ (e.kind.sync = "counts" \/ ~Opened(effect))
      missed == \/ heard = "unheard"
                \/ effect # "reads" /\ (heard = "none" \/ e.kind.sync = "asks")
      news == effect # "reads" \/ "sidecar" \in tx.untold
  IN (IF found THEN tx.untold \ {"sidecar"}
      ELSE IF missed THEN tx.untold \cup {"sidecar"} ELSE tx.untold)
     \cup (IF news /\ ~(value = "ok" /\ Seen(e)) THEN {"store"} ELSE {})

RunServed(c, value, effect, heard) ==
  /\ c.call = "run"
  /\ LET e == run[c.n]
     IN /\ Gone(c) => value = "error" /\ effect = "reads"
        /\ value = "unsafe" => ~e.acked /\ e.kind.does = "changes"
        /\ value = "ddl" => e.kind.ddl
        /\ effect \in Effects(e.kind, value) /\ heard \in Asked(e.kind, value)
        /\ Served(c, value,
             [tx EXCEPT !.open = Opened(effect), !.counted = Counted(e.kind, effect, heard),
                        !.untold = Untold(e, value, effect, heard)])

(* The store is told the sidecar's count, which the sidecar holds against  *)
(* the database only when it is not zero.  It may not be heard there: the  *)
(* session refuses the call, which leaves the count, or the statement      *)
(* fails, which resets it.                                                 *)
StateServed(c, heard) ==
  /\ c.call = "state"
  /\ heard # "none" => tx.counted /\ ~Gone(c)
  /\ LET counted == CASE heard = "told" -> tx.open [] heard = "unheard" -> FALSE
                       [] heard = "none" -> tx.counted
     IN Served(c, IF counted THEN "open" ELSE "closed",
          [tx EXCEPT !.counted = counted,
                     !.untold = CASE Gone(c) -> @
                                  [] heard = "told" -> {}
                                  [] heard = "unheard" -> {"sidecar"}
                                  [] heard = "none" -> @ \ {"store"}])

(* The call fails, and what is shown stays as it is.                       *)
StateRefused(c) ==
  /\ c.call = "state"
  /\ Served(c, "error", [tx EXCEPT !.untold = @ \cup {"store"}])

(* A commit or rollback that fails may be over in the database all the     *)
(* same.                                                                   *)
EndServed(c, value, over) ==
  /\ c.call = "end" /\ value \in {"ok", "error"}
  /\ Gone(c) => value = "error" /\ ~over
  /\ value = "ok" => over
  /\ Served(c, value,
       [tx EXCEPT !.open = @ /\ ~over, !.counted = @ /\ value = "error",
                  !.untold = CASE value = "ok" -> @ \ {"sidecar"}
                               [] value = "error" -> IF over THEN {"sidecar", "store"} ELSE @])

(* The session is lost, and its transaction with it; another is opened.    *)
SessionLost ==
  /\ ctx # None /\ (tx.open \/ tx.counted)
  /\ tx' = [tx EXCEPT !.open = FALSE, !.counted = FALSE, !.untold = {"store"}]
  /\ RunAlone /\ UNCHANGED <<tab, run, ask, wire>>

-----------------------------------------------------------------------------
(* The answers.                                                            *)

Answered(what, values) ==
  /\ answers # <<>> /\ Head(answers).call = what /\ Head(answers).value \in values
  /\ answers' = Tail(answers)
Told == Head(answers)

(* Mutation: a question takes the slot, whoever is in it.                  *)
UnsafeSlotFree_Always == TRUE
UnsafeSlotFree == ask.unsafe = 0

UnsafeWarned ==
  /\ Answered("run", {"unsafe"})
  /\ LET r == Told.n
     IN IF UnsafeSlotFree
          THEN /\ run' = [run EXCEPT ![r].pc = "unsafe"]
               /\ ask' = [ask EXCEPT !.unsafe = r]
               /\ UNCHANGED tab
          ELSE Ends(r, run[r]) /\ UNCHANGED ask
  /\ RunAlone /\ UNCHANGED <<pending, tx>>

(* The third slot is taken from whoever is in it.                          *)
DdlRefused ==
  /\ Answered("run", {"ddl"}) /\ Gated(run[Told.n])
  /\ run' = [run EXCEPT ![Told.n].pc = "ddl"]
  /\ ask' = [ask EXCEPT !.ddl = Told.n]
  /\ RunAlone /\ UNCHANGED <<tab, pending, tx>>

(* Mutation: the store does not ask for the transaction.                   *)
Reconciles_Never(e, value) == FALSE

Reconciles(e, value) == value = "ok" /\ Seen(e)
RowOf(e) == IF e.kind.how \in {"command", "fetch"} THEN None ELSE ctx

(* A run that was executed leaves its row under the connection the store   *)
(* has by then, and for a statement that modifies shows the transaction as *)
(* open at once, and asks.                                                 *)
RunAnswered ==
  /\ Answered("run", {"ok", "error", "ddl"})
  /\ LET r == Told.n
         e == run[r]
     IN /\ Told.value = "ddl" => ~Gated(e)
        /\ Ends(r, [e EXCEPT !.row = RowOf(e)])
        /\ pending' = IF Reconciles(e, Told.value) THEN pending \cup {Call("state", r)}
                      ELSE pending
        /\ tx' = [tx EXCEPT !.shown = @ \/ (Reconciles(e, Told.value) /\ e.kind.how # "all"
                                             /\ e.kind.word = "modifying")]
  /\ RunAlone /\ UNCHANGED ask

StateAnswered ==
  /\ Answered("state", {"open", "closed", "error"})
  /\ tx' = IF Told.value = "error" THEN tx
           ELSE [tx EXCEPT !.shown = Told.value = "open",
                           !.untold = IF Told.epoch = epoch THEN @ ELSE @ \cup {"store"}]
  /\ RunAlone /\ UNCHANGED <<tab, run, ask, pending>>

(* Commit and rollback, by button or key.                                  *)
EndAsked ==
  /\ ctx # None /\ tx.shown /\ tx.ends < MaxEnds
  /\ pending' = pending \cup {Call("end", tx.ends + 1)}
  /\ tx' = [tx EXCEPT !.ends = @ + 1]
  /\ RunAlone /\ UNCHANGED <<tab, run, ask, answers>>

(* The tab that is active by then is replaced by a copy of itself, which   *)
(* the run that holds the old one does not know.                           *)
EndAnswered ==
  /\ Answered("end", {"ok", "error"})
  /\ IF Told.value = "ok"
       THEN /\ tx' = [tx EXCEPT !.shown = FALSE]
            /\ tab' = IF active = 0 THEN tab
                      ELSE [tab EXCEPT ![active].copy = @ + 1,
                                       ![active].torn = tab[active].running]
       ELSE UNCHANGED <<tx, tab>>
  /\ RunAlone /\ UNCHANGED <<run, ask, pending>>

Next ==
  \/ \E c \in Conns : PageEntered(c)
  \/ PageLeft
  \/ TabOpened
  \/ \E t \in DOMAIN tab : TabClosed(t) \/ TabSelected(t)
  \/ \E kind \in Menu : RunStarted(kind)
  \/ \E yes \in BOOLEAN : ConfirmAnswered(yes) \/ UnsafeAnswered(yes)
  \/ \E c \in pending :
       \/ \E value \in {"ok", "error", "unsafe", "ddl"}, effect \in {"reads", "changes", "ends"},
            heard \in {"none", "told", "unheard"} : RunServed(c, value, effect, heard)
       \/ \E value \in {"ok", "error"}, over \in BOOLEAN : EndServed(c, value, over)
       \/ \E heard \in {"none", "told", "unheard"} : StateServed(c, heard)
       \/ StateRefused(c)
  \/ SessionLost
  \/ UnsafeWarned \/ DdlRefused \/ RunAnswered
  \/ StateAnswered \/ EndAsked \/ EndAnswered

(* The sidecar serves the runs (whatever it answers, the call is no longer *)
(* there to be refused), its answers arrive, and the user answers the      *)
(* questions that are shown.                                               *)
Fairness ==
  /\ WF_vars(\E c \in pending : RunServed(c, "error", "reads", "none"))
  /\ WF_vars(UnsafeWarned \/ DdlRefused \/ RunAnswered \/ StateAnswered \/ EndAnswered)
  /\ WF_vars(\E yes \in BOOLEAN : ConfirmAnswered(yes) \/ UnsafeAnswered(yes))

Spec == Init /\ [][Next]_vars /\ Fairness

-----------------------------------------------------------------------------
(* Properties.                                                             *)

TypeOK ==
  /\ ctx \in Conns \cup {None} /\ epoch \in 0 .. MaxLeaves
  /\ Len(tab) <= MaxTabs /\ Range(tabs) \subseteq DOMAIN tab
  /\ active \in Range(tabs) \cup {0}
  /\ \A t \in DOMAIN tab : tab[t].by \in DOMAIN run \cup {0}
  /\ \A r \in DOMAIN run : run[r].pc \in {"sent", "confirm", "unsafe", "ddl", "done"}
  /\ \A k \in DOMAIN ask : ask[k] \in DOMAIN run \cup {0}
  /\ tx.ends <= MaxEnds

Waits(r) == run[r].pc \in DOMAIN ask
Dropped(r) == Waits(r) /\ ask[run[r].pc] # r

(* A question that is shown is one its run waits for, and a run whose      *)
(* question is not shown lost it by leaving the page or to a later DDL     *)
(* question (sql-editor.svelte.ts:161 takes the slot without a look).      *)
QuestionsAreOwned ==
  /\ \A k \in DOMAIN ask : ask[k] # 0 => run[ask[k]].pc = k
  /\ \A r \in DOMAIN run : Dropped(r) =>
       \/ run[r].epoch < epoch
       \/ run[r].pc = "ddl" /\ \E q \in DOMAIN run \ {r} : run[q].pc = "ddl"

OnTab(t) == {r \in DOMAIN run : run[r].tab = t /\ run[r].epoch = epoch}
InFlight(r) == run[r].pc \notin {"confirm", "done"}

(* A tab that shows a run has one in flight, and one that shows none has   *)
(* none, unless a commit was answered while it ran or two of its runs      *)
(* overlapped.                                                             *)
FlagsTellTheTruth ==
  \A t \in Range(tabs) :
    /\ tab[t].running =>
         tab[t].torn \/ \E r \in OnTab(t) : InFlight(r) /\ tab[t].by = r
    /\ (\E r \in OnTab(t) : InFlight(r) /\ Holds(run[r], t)) =>
         tab[t].running \/ Cardinality(OnTab(t)) > 1

(* Both together: what the store keeps beside a run belongs to that run.   *)
EditorTellsTheTruth == QuestionsAreOwned /\ FlagsTellTheTruth

(* Once no call is under way, the transaction is shown as it is, unless    *)
(* the store or the sidecar was not told of it: since the store was last   *)
(* answered, something it does not ask about happened to the transaction   *)
(* (a command, a statement that failed, a loss), its question failed or an *)
(* answer came from a page left before; or, since the sidecar last heard   *)
(* of it, it did not ask the database (CALL, a failed DDL) or was not      *)
(* answered.                                                               *)
TxViewSettles ==
  pending = {} /\ answers = <<>> /\ tx.untold = {} => tx.shown = tx.open

(* What ran on a prod connection is uploaded as metadata only              *)
(* (CloudAuditService.ts:11): its row names a prod connection.             *)
ProdTextStaysHome ==
  \A r \in DOMAIN run : run[r].conn \in Prod /\ run[r].row # None => run[r].row \in Prod

(* Every run that is under way ends, unless its question is no longer      *)
(* shown to anyone (DdlConfirmModal.svelte is imported by no component).   *)
EveryRunSettles ==
  \A r \in 1 .. MaxRuns :
    (r \in DOMAIN run /\ run[r].pc # "done") ~>
      (r \in DOMAIN run /\ (run[r].pc = "done" \/ Dropped(r)))

(* What the user is asked and can answer is settled: there is always a     *)
(* time to come when every run has ended, but for those that were refused  *)
(* for want of a DDL window and those whose question went with their page  *)
(* (sql-editor.svelte.ts:442, 1446).                                       *)
Settled(r) ==
  run[r].pc \in {"done", "ddl"} \/ (Waits(r) /\ run[r].epoch < epoch)
AskedRunsSettle == []<>(\A r \in DOMAIN run : Settled(r))
=============================================================================
