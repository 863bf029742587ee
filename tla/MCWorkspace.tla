---------------------------- MODULE MCWorkspace ----------------------------
(***************************************************************************)
(* Instances of Workspace, DebugPanel, SandboxList, SchemaBrowser and      *)
(* RestPanels for TLC: the page of a connection, the window of the         *)
(* debugger, the cards of the home page, the tree of schemas and the       *)
(* dialogs around REST endpoints.  They have no state in common; `part`    *)
(* says which of them acts, and the others stay in their initial states.   *)
(***************************************************************************)
EXTENDS Workspace, DebugPanel, SandboxList, SchemaBrowser, RestPanels

VARIABLE part

screenVars == <<part, vars, panelVars, listVars, treeVars, restVars>>

Dialogs == {"clients", "module", "tester", "builder", "ords"}

(* A package with a member, and a member that is no package; and a package *)
(* of the same name in another schema, which a step may enter.             *)
MCMemberOf == [o \in Objects |-> IF o = "pkg" THEN {"mem"} ELSE {}]
MCNameOf == [o \in Anything |-> IF o \in Library THEN "pkg" ELSE o]

ScreenInit ==
  /\ part \in {"session", "debugger", "sandboxes", "tree"} \cup Dialogs
  /\ Init /\ PanelInit /\ ListInit /\ TreeInit /\ RestInit
  /\ part # "debugger" => begun = 0
  /\ part # "sandboxes" => cache = {}
  /\ part # "clients" => registered = {}
  /\ part # "builder" => form.has = {}

(* A bound: the opens and closes under way at once.                        *)
SessionPart ==
  /\ Next
  /\ Lifecycle' # Tasks

(* A bound: the chains and the edits of a run together.                    *)
PanelPart ==
  /\ PanelNext
  /\ begun' + touched' <= MaxChains + 1

(* Bounds: what is asked of the tree together; a second preview only       *)
(* before the tree loads or lists again.                                   *)
TreePart ==
  /\ TreeNext
  /\ tree'.asks + tree'.listed + asked' <= MaxLoads + 1
  /\ tree'.listed + asked' <= MaxPreviews /\ (asked' = MaxPreviews => tree'.asks < MaxLoads)

(* Bounds: the requests of the tester, the dialogs about ORDS.             *)
DialogPart ==
  \/ part = "clients" /\ OauthNext
  \/ part = "module" /\ ModuleNext
  \/ part = "tester" /\ TesterNext /\ tester'.count < MaxCalls
  \/ part = "builder" /\ FormNext
  \/ part = "ords" /\ OrdsNext /\ ords'.modals <= 2

ScreenNext ==
  /\ \/ part = "session" /\ SessionPart /\ UNCHANGED <<panelVars, listVars, treeVars, restVars>>
     \/ part = "debugger" /\ PanelPart /\ UNCHANGED <<vars, listVars, treeVars, restVars>>
     \/ part = "sandboxes" /\ ListNext /\ UNCHANGED <<vars, panelVars, treeVars, restVars>>
     \/ part = "tree" /\ TreePart /\ UNCHANGED <<vars, panelVars, listVars, restVars>>
     \/ DialogPart /\ UNCHANGED <<vars, panelVars, listVars, treeVars>>
  /\ UNCHANGED part

(* The fairness is that of Workspace.                                      *)
ScreenSpec == ScreenInit /\ [][ScreenNext]_screenVars /\ Fairness

-----------------------------------------------------------------------------
(* The window of the debugger shows what the sidecar's debugger does       *)
(* (debug.svelte.ts), the cards are those of the cloud and of the cache    *)
(* (sandboxes.svelte.ts), the tree shows what was loaded and applied       *)
(* (+page.svelte), and the dialogs what they asked for (OAuthClientsPanel, *)
(* RestModuleDetails, RestTestPanel, RestApiBuilder, ords.svelte.ts).      *)
ScreensTellTheTruth ==
  /\ part = "debugger" => DebuggerTellsTheTruth
  /\ part = "sandboxes" => ListTellsTheTruth
  /\ part = "tree" => TreeTellsTheTruth
  /\ part \in Dialogs => RestTellsTheTruth
=============================================================================
