------------------------------ MODULE MCServices ------------------------------
(***************************************************************************)
(* Components of the frontend for TLC that have no state in common: an     *)
(* editor's document with the history of its object, the cloud session,    *)
(* the command window, the panes of the selected object, the panels that   *)
(* keep asking and the assistant.  `part` says which of them acts; the     *)
(* others stay in their initial states.  The first two and the last are    *)
(* explored in two parts each, which cut their counters in different ways, *)
(* each panel in a part.                                                   *)
(***************************************************************************)
EXTENDS ObjectPanes, TLC

CONSTANTS
  Objects, Text, Labels, BadLabels, MaxCommits, Body, Broken,
  MaxSaves, MaxRuns, MaxEdits, MaxOpens,
  Users, BATCH_SIZE, MAX_BUFFER, MaxEntries, MaxLogins, MaxFlushes, MaxGaps,
  Conns, MAX_DEPTH, MaxLines, MaxWindows,
  Seeds, PAGE_SIZE, Recent, Kept, MaxGens, MaxRows, MaxFetches, MaxRefreshes,
  MaxAnalyses, MAX_SESSIONS, MaxTasks, MaxSaid, MaxMounts, AnswerMixed, ChartTypes

VARIABLES
  part,
  rows, commits, index, tags, spoilt,
  doc, disk, saves, runs, captures, source, did,
  token, features, stored, timer, gap, refresh, signout, polls,
  buffer, flights, cloud, seen,
  wins, conn, sent, history,
  vision, ran, panel, logged, auditlog, tail, activity, monitor,
  chat, mounts, analyses, charted, errands, charts, said, mixed, site

(* Scripts of a statement after another script, after the end, and alone;  *)
(* pastes of a statement of two lines, and of a block.                     *)
Word(kind) == [kind |-> kind, semi |-> FALSE, note |-> FALSE]
Sql(semi) == [kind |-> "sql", semi |-> semi, note |-> FALSE]
Scripts == {<<Word("start"), Sql(TRUE)>>, <<Word("exit"), Sql(TRUE)>>, <<Sql(TRUE)>>}
Pastes == {<<Sql(FALSE), Sql(TRUE), Sql(TRUE)>>,
           <<Word("begin"), Sql(TRUE), Word("slash"), Word("set")>>}

Doc == INSTANCE EditorDocument
Cloud == INSTANCE CloudSession
Command == INSTANCE CommandWindow
Live == INSTANCE LivePanels
Sheep == INSTANCE Assistant

(* Two objects of each kind.                                               *)
MCThings == (UNION {Pane[p].kinds : p \in Panes}) \X {1, 2}
MCKindOf == [o \in MCThings |-> o[1]]

(* None is nobody, no text, no label and no answer; a batch has an entry.  *)
ASSUME ServicesAssumption ==
  /\ None \notin Users \cup Text \cup Labels \cup {"ok", "error"}
  /\ BATCH_SIZE \in Nat \ {0} /\ MAX_BUFFER \in Nat
  /\ Body \in Objects

versionVars == <<rows, commits, index, tags, spoilt>>
docVars == <<doc, disk, saves, runs, captures, source, did>>
cloudVars == <<token, features, stored, timer, gap, refresh, signout, polls,
               buffer, flights, cloud, seen>>
commandVars == <<wins, conn, sent, history>>
liveVars == <<vision, ran, panel, logged, auditlog, tail, activity, monitor>>
sheepVars == <<chat, mounts, analyses, charted, errands, charts, said, mixed, site>>

ServicesVars == <<part, versionVars, docVars, cloudVars, commandVars, paneVars, liveVars, sheepVars>>

ServicesInit ==
  /\ Doc!DocInit /\ Cloud!CloudInit
  /\ Command!CommandInit /\ conn = CHOOSE c \in Conns : TRUE
  /\ PanesInit /\ Live!LiveInit
  /\ part \in {"history", "files", "signin", "upload", "command", "panes",
               "vision", "past", "auditlog", "activity", "monitor", "charts", "chat"}
  /\ Sheep!AssistantInit
  /\ part # "signin" => stored = "on" /\ ~seen.refused
  /\ part \notin {"signin", "upload"} => token = None
  /\ part = "upload" => token \in {None, CHOOSE u \in Users : TRUE}
  /\ part = "chat" => analyses = MaxAnalyses - 1 /\ said = 0
  /\ part # "chat" => analyses = 0 /\ said = MaxSaid /\ site = [prod |-> FALSE, cloud |-> FALSE, airgap |-> FALSE]
  /\ part \notin {"history", "files"} => doc.text[Body] = CHOOSE x \in Text \ Broken : TRUE
  /\ part # "history" => source.own

HistoryPart ==
  /\ Doc!DocNext /\ did'.edits + did'.opens <= 1 /\ did'.runs <= 2 /\ did'.saves = 0
  /\ ~source.own => did'.runs <= 1 /\ UNCHANGED <<tags, spoilt>>
  /\ spoilt'.tags # {} => Len(commits') <= 2 /\ did'.runs = 0
  /\ did'.runs = 2 => Len(commits') + Cardinality(spoilt'.objects) + Cardinality(spoilt'.rows) <= 1
  /\ UNCHANGED <<cloudVars, commandVars, paneVars, liveVars, sheepVars>>

FilesPart ==
  /\ Doc!DocNext /\ did'.runs = 0
  /\ UNCHANGED <<versionVars, cloudVars, commandVars, paneVars, liveVars, sheepVars>>

SignInPart ==
  /\ Cloud!CloudNext /\ seen'.entries <= 1 /\ seen'.flushes <= 2
  /\ UNCHANGED <<versionVars, docVars, commandVars, paneVars, liveVars, sheepVars>>

UploadPart ==
  /\ Cloud!CloudNext /\ UNCHANGED <<token, polls, signout>>
  /\ UNCHANGED <<versionVars, docVars, commandVars, paneVars, liveVars, sheepVars>>

(* Another connection is opened once, while the first window's script runs;*)
(* the history takes a command.                                            *)
CommandPart ==
  /\ Command!CommandNext /\ Len(history') <= 1
  /\ conn' # conn => conn' # (CHOOSE c \in Conns : TRUE) /\ Len(wins) = 1 /\ wins[1].script # <<>>
  /\ UNCHANGED <<versionVars, docVars, cloudVars, paneVars, liveVars, sheepVars>>

(* The second object is of the kind of the first, or a table, or the first *)
(* again; embeddings are generated with what they need on the screen, and  *)
(* one request beside them.                                                *)
PanesPart ==
  /\ PanesNext
  /\ selected' # selected => IF selected = None THEN selected'[2] = 1
                             ELSE selected'[1] \in {"table", selected[1]} /\ selected'[2] = 2
  /\ Cardinality(requests') <= 3
  /\ gen'.loops # <<>> =>
       /\ counts'.clicks <= counts'.selects /\ Cardinality(requests') <= 1
       /\ \A p \in Panes \ {"details", "dataflow", "vectorIndexes"} :
            content'[p] = None /\ \A f \in requests' : f.pane # p
  /\ UNCHANGED <<versionVars, docVars, cloudVars, commandVars, liveVars, sheepVars>>

LivePart ==
  /\ \/ part = "vision" /\ Live!VisionNext
     \/ part = "past" /\ Live!HistoryNext
     \/ part = "auditlog" /\ Live!AuditLogNext
     \/ part = "activity" /\ Live!ActivityNext
     \/ part = "monitor" /\ Live!MonitorNext
  /\ UNCHANGED <<versionVars, docVars, cloudVars, commandVars, paneVars, sheepVars>>

(* Two analyses in one opening of the panel, the second from the last      *)
(* question of the first, or one in two with a message.                    *)
SheepPart ==
  /\ Sheep!AssistantNext
  /\ part = "charts" => mounts' <= 1
  /\ analyses' = 2 /\ analyses = 1 => chat.step = "confirm" \/ part = "chat"
  /\ UNCHANGED <<versionVars, docVars, cloudVars, commandVars, paneVars, liveVars>>

ServicesNext ==
  /\ \/ part = "history" /\ HistoryPart
     \/ part = "files" /\ FilesPart
     \/ part = "signin" /\ SignInPart
     \/ part = "upload" /\ UploadPart
     \/ part = "command" /\ CommandPart
     \/ part = "panes" /\ PanesPart
     \/ LivePart
     \/ part \in {"charts", "chat"} /\ SheepPart
  /\ UNCHANGED part

Symmetry == Permutations(Text \ Broken)

ServicesSpec == ServicesInit /\ [][ServicesNext]_ServicesVars

-----------------------------------------------------------------------------
(* The properties of the instances, which their modules state and explain. *)

(* ObjectVersions: a version is the text its row stands for, the branch    *)
(* ends with the newest rows, and the tags are the labels                  *)
(* (object_versions.rs).  EditorDocument: a clean tab is on disk, and what *)
(* is captured as compiled did compile (sql-editor.svelte.ts, sql-files.ts)*)
DocumentsTellTheTruth ==
  /\ part = "history" => Doc!RowsAreCommits /\ Doc!BranchFollowsRows /\ Doc!TagsAreLabels
  /\ part \in {"history", "files"} => Doc!CleanMeansSaved /\ Doc!CompiledVersionsCompiled

(* CloudSession: no entry is lost without a reason, or sent twice, or out  *)
(* of order (CloudAuditService.ts), and the upload is on only while        *)
(* somebody is signed in, and then as the stored features say (auth.ts).   *)
UploadIsRight ==
  part \in {"signin", "upload"} => Cloud!EntriesAreKept /\ Cloud!UploadFollowsSignIn

(* CommandWindow: every line once, in order (executor.ts).                 *)
LinesRunOnceInOrder == part = "command" => Command!LinesRunOnceInOrder

(* CommandWindow: a statement is sent whole (parser.ts).                   *)
StatementsAreWhole == Command!StatementsAreWhole

(* CommandWindow: the up arrow begins with the newest command.             *)
RecallIsNewestFirst == Command!RecallIsNewestFirst

(* ObjectPanes: a pane shows the selected object's contents, and a loop of *)
(* embeddings that the panel knows is one, can be stopped and stays on its *)
(* table (ObjectDetails.svelte).                                           *)
PanesTellTheTruth == part = "panes" => PanesShowSelection /\ LoopStaysOnItsTable

(* LivePanels: what the panels list is of what they are shown for, in its  *)
(* order (VisionTab, QueryHistory, AuditLogPanel, ActivityTab, SessionTab).*)
(* Assistant: a chart that is added can be drawn, and a panel that waits   *)
(* has a message under way (SheepChat.svelte).                             *)
PanelsTellTheTruth ==
  /\ Live!LivePanelsTellTheTruth
  /\ part \in {"charts", "chat"} => Sheep!ChartsAreReady /\ Sheep!WaitsForAnAnswer

(* Assistant: the two statements its comments call refuted.                *)
EveryChartIsReady == Sheep!EveryChartIsReady
PanelGetsOver == Sheep!PanelGetsOver

(* LivePanels: the two statements its comments call refuted.               *)
AuditPagesAdjoin == Live!AuditPagesAdjoin
SpinnerAlwaysHasRefresh == Live!SpinnerAlwaysHasRefresh
=============================================================================
