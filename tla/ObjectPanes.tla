------------------------------ MODULE ObjectPanes ------------------------------
(***************************************************************************)
(* The selected object and the panes that describe it: the workspace page  *)
(* (routes/workspace/[id]/+page.svelte), the inspector                     *)
(* (ObjectDetails.svelte) and the drawer of a node of the object graph     *)
(* (VisionDetailDrawer.svelte).                                            *)
(*                                                                         *)
(* A pane asks the sidecar for its contents and writes whatever answer it  *)
(* gets; the sidecar works on its calls at once, and answers in any order. *)
(* What keeps one object's contents from another's panes is that a         *)
(* selection empties them.                                                 *)
(***************************************************************************)
EXTENDS Integers, Sequences, FiniteSets

CONSTANTS
  Things, KindOf,  \* the objects, and the kind of each
  MaxSelects, MaxClicks, MaxLoops, MaxBatches,
  None

Detailed == {"table", "mview", "synonym", "dblink", "directory", "queue", "job",
             "legacy", "user", "privilege"}

VARIABLES
  selected,
  content,   \* content[p]: the object whose answer pane p shows
  loading,   \* the panes that have not been answered and ask no more until then
  requests,  \* the requests under way: for which pane, about which object
  outrun,    \* (history) those that were under way when another object was selected
  late,      \* (history) the panes that such a request's answer came to
  ddlLoading,
  gen,       \* the generation of embeddings: what the panel says of it, the column
             \* chosen, the loops (of each, whether the panel lost sight of it, the
             \* selection moved under it, it was told to stop), what the batches wrote
  acting,    \* the actions on a job and on a view that are under way
  counts

paneVars ==
  <<selected, content, loading, requests, outrun, late, ddlLoading, gen, acting, counts>>

-----------------------------------------------------------------------------
(* The panes: for which kinds, when they are loaded, and which pane is     *)
(* loaded after them, for the same object ("own") or for the one that is   *)
(* selected by then.                                                       *)
OnSelect(kinds) == [kinds |-> kinds, on |-> "select", from |-> None, next |-> None, for |-> "own"]
OnClick(kinds) == [OnSelect(kinds) EXCEPT !.on = "click"]
OnTab(kinds) == [OnSelect(kinds) EXCEPT !.on = "tab"]
Then(p, next, for) == [p EXCEPT !.next = next, !.for = for]
Afterwards(kinds) == [OnSelect(kinds) EXCEPT !.on = "after"]
(* what is asked for is named by what pane q shows *)
Of(p, q) == [p EXCEPT !.from = q]

details == Then(OnSelect(Detailed), "dataflow", "own")
dataflow == OnSelect({"plsql", "sequence"})
ddl == OnSelect({"plsql"})
liveCount == OnClick({"table"})
mviewData == OnSelect({"mview"})
synonymData == OnSelect({"synonym"})
dbLinkDdlText == OnSelect({"dblink"})
directoryData == OnSelect({"directory"})
queueData == Then(OnSelect({"queue"}), "queueDdlText", "selected")
queueDdlText == Afterwards({"queue"})
schedulerJobData == Then(OnSelect({"job"}), "schedulerJobDdlText", "selected")
schedulerJobDdlText == Afterwards({"job"})
legacyJobData == OnSelect({"legacy"})
expandedProgram == Of(OnClick({"job"}), "schedulerJobData")
expandedSchedule == Of(OnClick({"job"}), "schedulerJobData")
dbUserData == OnSelect({"user"})
dbUserProfileData == Of(OnClick({"user"}), "dbUserData")
dbUserQuotasData == Of(OnClick({"user"}), "dbUserData")
privData == OnSelect({"privilege"})
vectorIndexes == OnTab({"table"})
persistEmbed == Then(OnClick({"table"}), "searchResult", "selected")
searchResult == Afterwards({"table"})

(* The drawer's.                                                           *)
nodeDdl == OnSelect({"node"})
versions == OnTab({"node"})
errors == OnTab({"node"})
auditEntries == OnTab({"node"})

Pane ==
  [details |-> details, dataflow |-> dataflow, ddl |-> ddl, liveCount |-> liveCount,
   mviewData |-> mviewData, synonymData |-> synonymData, dbLinkDdlText |-> dbLinkDdlText,
   directoryData |-> directoryData, queueData |-> queueData, queueDdlText |-> queueDdlText,
   schedulerJobData |-> schedulerJobData, schedulerJobDdlText |-> schedulerJobDdlText,
   legacyJobData |-> legacyJobData, expandedProgram |-> expandedProgram,
   expandedSchedule |-> expandedSchedule, dbUserData |-> dbUserData,
   dbUserProfileData |-> dbUserProfileData, dbUserQuotasData |-> dbUserQuotasData,
   privData |-> privData, vectorIndexes |-> vectorIndexes, persistEmbed |-> persistEmbed,
   searchResult |-> searchResult, nodeDdl |-> nodeDdl, versions |-> versions,
   errors |-> errors, auditEntries |-> auditEntries]
Panes == DOMAIN Pane

(* What they show for the selected object; dataflow is shown for all.      *)
Shown(p) ==
  /\ selected # None
  /\ \/ KindOf[selected] \in Pane[p].kinds
     \/ p = "dataflow" /\ KindOf[selected] # "node"

-----------------------------------------------------------------------------
PanesInit ==
  /\ selected = None
  /\ content = [p \in Panes |-> None] /\ loading = {} /\ requests = {}
  /\ outrun = {} /\ late = {} /\ ddlLoading = None
  /\ gen = [running |-> FALSE, abort |-> FALSE, column |-> None, loops |-> <<>>,
            written |-> {}]
  /\ acting = {}
  /\ counts = [selects |-> 0, clicks |-> 0, batches |-> 0]

(* A request, numbered among those alike.                                  *)
Request(fs, p, o) ==
  LET Alike(n) == [pane |-> p, of |-> o, n |-> n]
  IN Alike(CHOOSE n \in 1 .. Cardinality(fs) + 1 : Alike(n) \notin fs)
Sent(fs, p, o) == fs \cup {Request(fs, p, o)}

Emptied(ps) == [p \in Panes |-> IF p \in ps THEN None ELSE content[p]]

(* The panes a selection empties.  The drawer does not reset its flags.    *)
Cleared_AllButIndexes == Panes \ {"vectorIndexes"}
Cleared == Panes
Reset == {"vectorIndexes"}

LoopsRunning == {i \in DOMAIN gen.loops : gen.loops[i].pc # "done"}

(* The selection resets the panel, and the loops go on.                    *)
Interrupted(o) ==
  [i \in DOMAIN gen.loops |->
     IF gen.loops[i].pc = "done" THEN gen.loops[i]
     ELSE [gen.loops[i] EXCEPT !.lost = TRUE, !.moved = @ \/ o # gen.loops[i].asked]]

(* selectObject, also of the object that is selected, and the effects that *)
(* follow the selection.                                                   *)
Select(o) ==
  LET loads == {p \in Panes : Pane[p].on = "select" /\ KindOf[o] \in Pane[p].kinds}
      n == counts.selects + 1 IN
  /\ n <= MaxSelects
  /\ selected # None => (KindOf[o] = "node") = (KindOf[selected] = "node")
  /\ selected' = o
  /\ content' = Emptied(Cleared \cup loads)
  /\ late' = late \ Cleared /\ outrun' = {f \in requests : f.of # o}
  /\ loading' = (loading \ Reset)
  /\ requests' = requests \cup {Request(requests, p, o) : p \in loads}
  /\ ddlLoading' = IF KindOf[o] = "plsql" THEN o ELSE ddlLoading
  /\ gen' = [gen EXCEPT !.running = FALSE, !.abort = FALSE, !.column = None,
                        !.loops = Interrupted(o)]
  /\ counts' = [counts EXCEPT !.selects = n]
  /\ UNCHANGED acting

Click == counts.clicks < MaxClicks /\ counts' = [counts EXCEPT !.clicks = @ + 1]

(* A button of a pane, or its details are tried again.  A load empties its *)
(* pane when it starts, that of the row count excepted.                    *)
Asked(p) ==
  LET of == IF Pane[p].from = None THEN selected ELSE content[Pane[p].from]
      anew == CASE p = "persistEmbed" -> {"searchResult"} [] p = "liveCount" -> {} [] OTHER -> {p}
  IN
  /\ Shown(p) /\ of # None
  /\ Pane[p].on = "click" \/ p = "details"
  /\ Click
  /\ requests' = Sent(requests, p, of)
  /\ outrun' = IF Pane[p].from \in late THEN outrun \cup (requests' \ requests) ELSE outrun
  /\ content' = Emptied(anew) /\ late' = late \ anew
  /\ UNCHANGED <<selected, loading, ddlLoading, gen, acting>>

(* A tab that loads when it is shown, unless it is loaded or loading.  The *)
(* tab of the vectors takes the first vector column.                       *)
TabShown(p) ==
  /\ Shown(p) /\ Pane[p].on = "tab"
  /\ p = "vectorIndexes" =>
       content["details"] # None  \* the tab needs the columns
  /\ Click
  /\ gen' = IF p = "vectorIndexes" /\ gen.column = None
              THEN [gen EXCEPT !.column = content["details"]] ELSE gen
  /\ IF content[p] = None /\ p \notin loading
       THEN requests' = Sent(requests, p, selected) /\ loading' = loading \cup {p}
       ELSE UNCHANGED <<requests, loading>>
  /\ UNCHANGED <<selected, content, outrun, late, ddlLoading, acting>>

(* An answer, about whatever is selected now.                              *)
Answer(f, ok) ==
  LET p == f.pane
      of == IF Pane[p].for = "own" THEN f.of ELSE selected
      writes == /\ p # "ddl"  \* which opens a tab of the editor
                /\ ok \/ Pane[p].on = "tab" \/ p = "details"  \* an error keeps the others
      rest == requests \ {f}
      next == Pane[p].next IN
  /\ requests' = IF next = None THEN rest ELSE Sent(rest, next, of)
  /\ loading' = (loading \ {p})
  /\ content' = [Emptied({next} \cap Panes) EXCEPT
                   ![p] = IF ~writes THEN @ ELSE IF p = "details" /\ ~ok THEN None ELSE f.of]
  /\ outrun' = (outrun \ {f}) \cup
                (IF f \in outrun /\ Pane[p].for = "own" THEN requests' \ rest ELSE {})
  /\ late' = IF ~writes THEN late ELSE IF f \in outrun THEN late \cup {p} ELSE late \ {p}
  /\ ddlLoading' = IF p = "ddl" /\ ddlLoading = f.of THEN None ELSE ddlLoading
  /\ UNCHANGED <<selected, gen, acting, counts>>

(* Run, enable, disable or break a job, and refresh a view: one of each at *)
(* a time.  Once answered, the pane is loaded for what is selected by then.*)
Act(what) ==
  /\ IF what = "view" THEN Shown("mviewData")
     ELSE Shown("schedulerJobData") \/ Shown("legacyJobData")
  /\ what \notin acting /\ Click
  /\ acting' = acting \cup {what}
  /\ UNCHANGED <<selected, content, loading, requests, outrun, late, ddlLoading, gen>>

ActAnswered(what, ok) ==
  LET p == IF what = "view" THEN "mviewData"
           ELSE IF KindOf[selected] = "legacy" THEN "legacyJobData" ELSE "schedulerJobData"
      anew == {p} \cup (IF what = "job" THEN {"expandedProgram", "expandedSchedule"} ELSE {}) IN
  /\ what \in acting /\ acting' = acting \ {what}
  /\ IF ok THEN /\ requests' = Sent(requests, p, selected)
                /\ content' = Emptied(anew) /\ late' = late \ anew
           ELSE UNCHANGED <<requests, content, late>>
  /\ UNCHANGED <<selected, loading, outrun, ddlLoading, gen, counts>>

-----------------------------------------------------------------------------
(* Embeddings: startGenerate counts the rows, then embeds them in batches  *)
(* of the table that is selected at each.                                  *)
MayStart_Always == TRUE
MayStart == ~gen.running

NewLoop(o) == [asked |-> o, pc |-> "counting", lost |-> FALSE, moved |-> FALSE, told |-> FALSE]

StartGenerate ==
  /\ selected # None /\ KindOf[selected] = "table" /\ gen.column # None
  /\ MayStart /\ Len(gen.loops) < MaxLoops
  /\ gen' = [gen EXCEPT !.running = TRUE, !.abort = FALSE,
                        !.loops = Append(@, NewLoop(selected))]
  /\ UNCHANGED <<selected, content, loading, requests, outrun, late, ddlLoading, acting, counts>>

StopGenerate ==
  /\ gen.running /\ ~gen.abort
  /\ gen' = [gen EXCEPT !.abort = TRUE,
               !.loops = [i \in DOMAIN gen.loops |-> [gen.loops[i] EXCEPT !.told = TRUE]]]
  /\ UNCHANGED <<selected, content, loading, requests, outrun, late, ddlLoading, acting, counts>>

(* The loop's end, which the panel takes for that of all: the indexes are  *)
(* loaded anew when their tab is shown.                                    *)
Ends(i) ==
  /\ gen' = [gen EXCEPT !.running = FALSE,
               !.loops = [j \in DOMAIN gen.loops |->
                            IF j = i THEN [gen.loops[i] EXCEPT !.pc = "done"]
                                     ELSE [gen.loops[j] EXCEPT !.lost = TRUE]]]
  /\ content' = Emptied({"vectorIndexes"}) /\ late' = late \ {"vectorIndexes"}
  /\ loading' = loading \ {"vectorIndexes"}

LoopContinues(i) ==
  LET l == gen.loops[i]
      onto == [asked |-> l.asked, on |-> selected, moved |-> l.moved,
               stopped |-> l.told /\ ~l.lost] IN
  /\ l.pc # "done"
  /\ \/ l.pc = "counting" /\ ~gen.abort
        /\ gen' = [gen EXCEPT !.loops[i].pc = "batch"] /\ UNCHANGED <<content, late, loading>>
     \/ l.pc = "counting" /\ Ends(i)
     \/ l.pc = "batch" /\ (gen.abort \/ gen.column = None) /\ Ends(i)
     \/ /\ l.pc = "batch" /\ ~gen.abort /\ gen.column # None /\ counts.batches < MaxBatches
        /\ gen' = [gen EXCEPT !.loops[i].pc = "answer", !.written = @ \cup {onto}]
        /\ UNCHANGED <<content, late, loading>>
     \/ l.pc = "answer"
        /\ gen' = [gen EXCEPT !.loops[i].pc = "batch"] /\ UNCHANGED <<content, late, loading>>
     \/ l.pc = "answer" /\ Ends(i)
  /\ counts' = IF l.pc = "batch" /\ gen' # gen /\ gen'.loops[i].pc = "answer"
                 THEN [counts EXCEPT !.batches = @ + 1] ELSE counts
  /\ UNCHANGED <<selected, requests, outrun, ddlLoading, acting>>

PanesNext ==
  \/ \E o \in Things : Select(o)
  \/ \E p \in Panes : Asked(p) \/ TabShown(p)
  \/ \E f \in requests, ok \in BOOLEAN : Answer(f, ok)
  \/ \E what \in {"job", "view"} :
       Act(what) \/ \E ok \in BOOLEAN : ActAnswered(what, ok)
  \/ StartGenerate \/ StopGenerate \/ \E i \in DOMAIN gen.loops : LoopContinues(i)

-----------------------------------------------------------------------------
(* What a pane shows is of the selected object, unless it is the answer to *)
(* a request that was under way when another object was selected; and the  *)
(* spinner of a DDL has a request (ObjectDetails.svelte:74,                *)
(* VisionDetailDrawer:99).                                                 *)
PanesShowSelection ==
  /\ \A p \in Panes : Shown(p) /\ content[p] # None => content[p] = selected \/ p \in late
  /\ ddlLoading # None => \E f \in requests : f.pane = "ddl" /\ f.of = ddlLoading

(* Of the loops that no selection and no other loop's end hid from the     *)
(* panel there is one at most, which the panel offers to stop, and which   *)
(* sends no batch once it was told to; a batch is of the table its loop    *)
(* was started for, unless another object was selected since then          *)
(* (ObjectDetails.svelte:598).                                             *)
Known == {i \in LoopsRunning : ~gen.loops[i].lost}
LoopStaysOnItsTable ==
  /\ Cardinality(Known) <= 1
  /\ Known # {} => gen.running
  /\ \A w \in gen.written : (w.on = w.asked \/ w.moved) /\ ~w.stopped

(* What the reader takes for granted, and the selection of an object while *)
(* a call is under way refutes: what is shown is of the selected object    *)
(* once nothing is in flight; a batch is of the table it was started for;  *)
(* there is one loop.                                                      *)
QuietPanesShowSelection ==
  requests = {} => \A p \in Panes : Shown(p) /\ content[p] # None => content[p] = selected
BatchesStayOnTheirTable == \A w \in gen.written : w.on = w.asked
OneLoopAtATime == Cardinality(LoopsRunning) <= 1
=============================================================================
