------------------------------ MODULE Commands ------------------------------
(***************************************************************************)
(* The commands of the Rust host (commands.rs): what the page may ask of   *)
(* it.  A command is the sequence of its steps, each of which another task *)
(* may come before: it reads the air gap, takes a secret from the keychain *)
(* or the passwords of a connection, calls the sidecar on the session that *)
(* is open by then, goes out to the network, writes the audit log.  A step *)
(* that fails ends the command.                                            *)
(*                                                                         *)
(* Workspace has the commands that open and close the session, and         *)
(* query_execute; CloudSession has cloud_api_get and cloud_api_post.       *)
(***************************************************************************)
EXTENDS Naturals, Sequences

CONSTANTS
  Bases,      \* the saved connections
  Gapped,     \* those whose airgap_mode is on
  People,     \* who may be signed in
  MaxChanges, \* bound: what others change while a command runs
  Nobody

VARIABLES
  opened,  \* the connection of the sidecar's session
  gap,     \* AirGapState
  due,     \* the session was opened or closed, and the cell is not yet set
  account, \* whose token the keychain has
  saved,   \* the connections that are still saved
  asked,    \* the command that runs
  changes  \* changes so far

commandsVars == <<opened, gap, due, account, saved, asked, changes>>

-----------------------------------------------------------------------------
(* The commands, in the order of the file.                                 *)

OnSession == <<"session">>   \* call_sidecar, on the session that is open
InSidecar == <<"sidecar">>   \* call_sidecar, of what is not the session
InStore == <<"store">>       \* ConnectionService: the local database
Gated(steps) == <<"gate">> \o steps

(* connection_test opens a connection of its own, with what the form has.  *)
OfConnections ==
  [connection_test |-> <<"path", "sidecar">>,
   connection_list |-> InStore, connection_get |-> InStore,
   connection_save |-> <<"path", "store">>, connection_delete |-> InStore,
   connection_sandbox_oracle_check |-> <<"oracle">>,
   wallet_inspect |-> <<"path", "store">>]

OfTheTree ==
  [n \in {"schema_list", "objects_list", "table_describe", "table_count_rows",
          "table_related"} |-> OnSession]

OfHistory ==
  [query_cancel |-> InSidecar, history_list |-> InStore]

HistorySave == [history_save |-> <<"row", "store">>]

HistoryClear == [history_clear |-> InStore]

OfObjects ==
  [n \in {"objects_list_plsql", "compile_errors_get", "object_ddl_get", "objects_search",
          "schema_kind_counts"} |-> OnSession]

(* A model answers from outside; embed_count_pending only counts rows, and *)
(* is refused in an air gap all the same.                                  *)
OfModels ==
  [ai_chat |-> Gated(<<"leave">>), ai_suggest_endpoint |-> Gated(<<"leave">>),
   vector_index_create |-> OnSession, vector_index_drop |-> OnSession,
   embed_count_pending |-> Gated(OnSession),
   embed_batch |-> Gated(<<"session", "leave", "session">>),
   ai_key_save |-> Gated(<<"key">>), ai_key_get |-> Gated(<<"key">>)]

(* vector_search asks a model for the vector of what is searched first.    *)
VectorSearch == <<"leave", "session">>

OfTransactions ==
  [connection_commit |-> OnSession, connection_rollback |-> OnSession,
   connection_tx_state |-> OnSession,
   tx_keep_open_record |-> InStore, tx_keep_open_clear |-> InStore,
   tx_modal_audit |-> <<"lookup", "row">>, driver_mode |-> InSidecar]

OfVectors ==
  [vector_search |-> VectorSearch, vector_tables_in_schema |-> OnSession,
   vector_index_list |-> OnSession, object_dataflow_get |-> OnSession,
   vision_graph |-> OnSession, explain_plan_get |-> OnSession,
   proc_describe |-> OnSession, proc_execute |-> OnSession,
   flow_trace_proc |-> InSidecar, flow_trace_sql |-> OnSession,
   chart_configure |-> InSidecar, chart_reset |-> InSidecar]

OfTheDebugger ==
  [n \in {"debug_open", "debug_get_source", "debug_start", "debug_stop", "debug_step_into",
          "debug_step_over", "debug_step_out", "debug_continue", "debug_set_breakpoint",
          "debug_remove_breakpoint", "debug_get_values", "debug_get_call_stack",
          "debug_run"} |-> InSidecar]

OfORDS ==
  [n \in {"ords_detect", "session_self", "ords_modules_list", "ords_module_get",
          "ords_enable_schema", "ords_module_export_sql", "ords_roles_list",
          "ords_generate_sql", "ords_apply"} |-> OnSession]

OfApproval == [ai_approval_resolve |-> InSidecar]

(* The address must lie under the base that the open session has, or, when *)
(* that has none, under the one the page gives.                            *)
OrdsTest == [ords_test_http |-> <<"session", "address", "leave">>]

OfClients ==
  [n \in {"ords_clients_list", "ords_clients_create", "ords_clients_revoke", "perf_stats",
          "dml_preview"} |-> OnSession]

(* Mutation: the window is logged before the sidecar has opened it.        *)
DdlConfirm_LogsFirst == <<"event", "session">>
DdlConfirm == <<"session", "event">>

OfConfirmations ==
  [unsafe_dml_confirm |-> <<"ask">>, ddl_confirm |-> DdlConfirm, ddl_unlock |-> DdlConfirm,
   audit_ddl_event |-> <<"event">>, confirm_rollback_tx |-> <<"ask">>]

(* object_version_set_remote writes a token of the remote's own.           *)
OfVersions ==
  [object_version_capture |-> InStore, object_version_list |-> InStore,
   object_version_diff |-> InStore, object_version_load |-> InStore,
   object_version_label |-> InStore, object_version_set_remote |-> <<"store", "remote">>,
   object_version_push |-> Gated(<<"store", "remote", "leave">>),
   object_version_get_remote |-> Gated(InStore)]

OfTheToken ==
  [n \in {"auth_token_get", "auth_token_set", "auth_token_clear"} |-> Gated(<<"key">>)]

(* inject_cloud_envelope: the token goes along, who it is of is read from  *)
(* it.                                                                     *)
Enveloped == <<"gate", "token">>

(* Mutations: a call to the cloud does not ask for the air gap; the        *)
(* passwords are looked up before the build's own connection is known.     *)
SandboxCloud_NotGated == <<"token", "cloud">>
SandboxRepublish_Unordered == Enveloped \o <<"folder", "oracle", "config", "own", "cloud">>

SandboxCloud == Enveloped \o <<"cloud">>
SandboxLocal == Enveloped \o <<"sidecar">>

(* The builds folder, the connection the saved build is of, its passwords. *)
SandboxRepublish == Enveloped \o <<"folder", "config", "oracle", "own", "cloud">>

OfSandboxes ==
  [sandbox_ensure_keypair |-> SandboxCloud,
   sandbox_publish |-> Enveloped \o <<"folder", "cloud">>,
   sandbox_republish |-> SandboxRepublish]

OfSharing ==
  [n \in {"sandbox_pull", "sandbox_list", "sandbox_grant", "sandbox_revoke", "sandbox_delete",
          "sandbox_open", "sandbox_leave", "sandbox_list_cached"} |-> SandboxCloud]

OfOpenSandboxes ==
  [n \in {"sandbox_query", "sandbox_close", "sandbox_mark_seen",
          "sandbox_list_last_seen"} |-> SandboxLocal]

(* The wizard's questions open connections of their own; a build asks the  *)
(* cloud who the owner is, before it does.                                 *)
OfTheWizard ==
  [n \in {"sandbox_list_schema_tables", "sandbox_compute_fk_closure",
          "sandbox_discover_plsql"} |-> <<"oracle", "own">>]

DryRun == [sandbox_build_dry_run |-> Enveloped \o <<"folder", "oracle", "cloud", "own">>]
Build == [sandbox_build |-> Enveloped \o <<"oracle", "folder", "cloud", "own">>]

OfTheCommandWindow ==
  [command_history_load |-> InStore, command_history_append |-> InStore,
   command_history_clear_inaccessible |-> InStore, command_script_read |-> <<"path", "file">>]

OfMoreObjects ==
  [n \in {"mview_details", "mview_refresh", "synonym_details", "objects_list_dblinks",
          "object_ddl_dblink", "objects_list_directories", "directory_details",
          "objects_list_queues", "queue_details", "queue_ddl"} |-> OnSession]

OfJobs ==
  [n \in {"objects_list_scheduler_jobs", "scheduler_job_details", "legacy_job_details",
          "scheduler_job_ddl", "scheduler_program_details", "scheduler_schedule_details",
          "scheduler_job_priv_check", "scheduler_job_run", "scheduler_job_enable",
          "scheduler_job_disable", "dbms_job_run", "dbms_job_broken",
          "dbms_job_unbroken"} |-> OnSession]

OfUsersAndSessions ==
  [n \in {"user_details", "user_profile_details", "user_quotas", "sessions_list_all",
          "session_sql_preview", "session_priv_check", "session_kill", "privileges_list",
          "sessions_blocking_chain"} |-> OnSession]

Handlers ==
  {OfConnections, OfTheTree, OfHistory, HistorySave, HistoryClear, OfObjects, OfModels,
   OfTransactions, OfVectors, OfTheDebugger, OfORDS, OfApproval, OrdsTest, OfClients,
   OfConfirmations, OfVersions, OfTheToken, OfSandboxes, OfSharing, OfOpenSandboxes,
   OfTheWizard, DryRun, Build, OfTheCommandWindow, OfMoreObjects, OfJobs, OfUsersAndSessions}

(* Two commands with the same steps are one here.                          *)
Commands == UNION {{group[n] : n \in DOMAIN group} : group \in Handlers}

-----------------------------------------------------------------------------
(* A command at work.                                                      *)

(* arg, built: the connection the page names, and the one the file of the  *)
(* sandbox it names was built from; took, acct, creds: the secrets taken,  *)
(* whose the token is, which connection the passwords are of; ran: the     *)
(* connection the sidecar's session was of; left: it went out; gapped: the *)
(* air gap has been on ever since it began.                                *)
NoCall ==
  [cmd |-> <<>>, todo |-> <<>>, res |-> "none", arg |-> Nobody, built |-> Nobody, took |-> {},
   acct |-> Nobody, creds |-> Nobody, ran |-> Nobody, left |-> FALSE, logged |-> FALSE,
   gapped |-> FALSE]

CommandsInit ==
  /\ opened = Nobody /\ gap = FALSE /\ due = FALSE
  /\ account \in People \cup {Nobody} /\ saved = Bases
  /\ asked = NoCall /\ changes = 0

Issue(cmd, arg, built) ==
  /\ asked = NoCall
  /\ asked' = [NoCall EXCEPT !.cmd = cmd, !.todo = cmd, !.res = "runs", !.arg = arg,
                            !.built = built, !.gapped = gap]
  /\ UNCHANGED <<opened, gap, due, account, saved, changes>>

Ended(res) == [asked EXCEPT !.res = res, !.todo = <<>>]

(* What a step leaves behind, when nothing stops it.                       *)
Taken(step) ==
  CASE step = "token" -> [asked EXCEPT !.took = @ \cup {step}, !.acct = account]
    [] step = "key" -> [asked EXCEPT !.took = @ \cup {step}]
    [] step = "config" -> [asked EXCEPT !.arg = asked.built]
    [] step = "oracle" -> [asked EXCEPT !.creds = asked.arg]
    [] step = "session" -> [asked EXCEPT !.ran = opened]
    [] step \in {"leave", "cloud"} -> [asked EXCEPT !.left = TRUE]
    [] step \in {"row", "event"} -> [asked EXCEPT !.logged = TRUE]
    [] OTHER -> asked

(* What a step refuses by itself.                                          *)
Refuses(step) ==
  \/ step = "gate" /\ gap
  \/ step = "token" /\ account = Nobody
  \/ step = "config" /\ asked.built = Nobody
  \/ step = "oracle" /\ asked.arg \notin saved
  \/ step = "session" /\ opened = Nobody

(* Every other step may fail; a line that cannot be written, or a name     *)
(* that is not found for it, does not stop a command.                      *)
Fallible == {"token", "oracle", "session", "leave", "cloud", "own", "sidecar", "store", "path",
             "file", "folder", "remote", "key", "address"}
Swallowed == {"row", "event", "lookup"}

Step ==
  /\ asked.todo # <<>>
  /\ LET step == Head(asked.todo)
         rest == Tail(asked.todo)
         Goes(c) == [c EXCEPT !.todo = rest, !.res = IF rest = <<>> THEN "done" ELSE @]
     IN \/ Refuses(step) /\ asked' = Ended("refused")
        \/ ~Refuses(step) /\ asked' = Goes(Taken(step))
        \/ step \in Fallible /\ asked' = Ended("failed")
        \/ step \in Swallowed /\ asked' = Goes(asked)
  /\ UNCHANGED <<opened, gap, due, account, saved, changes>>

-----------------------------------------------------------------------------
(* What goes on beside it.                                                 *)

Changes == changes < MaxChanges /\ changes' = changes + 1

(* workspace_open and workspace_close: the sidecar first, then the cells.  *)
SessionChanges(c) ==
  /\ Changes /\ ~due /\ c # opened
  /\ opened' = c /\ due' = TRUE
  /\ UNCHANGED <<gap, account, saved, asked>>

CellFollows ==
  /\ due /\ due' = FALSE
  /\ gap' = (opened \in Gapped)
  /\ asked' = [asked EXCEPT !.gapped = @ /\ gap']
  /\ UNCHANGED <<opened, account, saved, changes>>

SignsInOrOut(a) ==
  /\ Changes /\ a # account /\ account' = a
  /\ UNCHANGED <<opened, gap, due, saved, asked>>

Removed(c) ==
  /\ Changes /\ c \in saved /\ saved' = saved \ {c}
  /\ UNCHANGED <<opened, gap, due, account, asked>>

CommandsNext ==
  \/ Step
  \/ CellFollows
  \/ \E cmd \in Commands, arg, built \in Bases \cup {Nobody} : Issue(cmd, arg, built)
  \/ \E c \in Bases \cup {Nobody} : SessionChanges(c)
  \/ \E a \in People \cup {Nobody} : SignsInOrOut(a)
  \/ \E c \in Bases : Removed(c)

-----------------------------------------------------------------------------
(* Properties.                                                             *)

(* The commands that go out without asking for the air gap.                *)
NotGated == {OrdsTest.ords_test_http, VectorSearch}

(* An air gap that was on before a command began, and stays on, lets       *)
(* nothing out, the two commands apart that do not ask for it              *)
(* (commands.rs:51, AirGapState).                                          *)
GapHolds == asked.left /\ asked.gapped => asked.cmd \in NotGated

(* Under such a gap no secret leaves the keychain either (commands.rs: the *)
(* gate is the first line of whatever reads a token or a key).             *)
SecretsBehindTheGate == asked.gapped => asked.took = {}

(* Whatever asks the cloud about sandboxes does so with a token            *)
(* (commands.rs:2336, inject_cloud_envelope).                              *)
CloudCallsAreSigned ==
  asked.left /\ "cloud" \in {asked.cmd[i] : i \in DOMAIN asked.cmd} => asked.acct # Nobody

(* Publishing again reads with the passwords of the connection the sandbox *)
(* was built from, whatever the page names (commands.rs:2444).             *)
RepublishReadsItsOwn ==
  asked.cmd = SandboxRepublish /\ asked.creds # Nobody => asked.creds = asked.built

(* The log tells of a window that the sidecar has opened (commands.rs,     *)
(* ddl_confirm).                                                           *)
WindowsLoggedWereOpened == asked.cmd = DdlConfirm /\ asked.logged => asked.ran # Nobody

(* Refuted: every command that goes out asks for the air gap               *)
(* (commands.rs:51-53).                                                    *)
EveryWayOutIsGated == asked.left => asked.cmd[1] = "gate"

(* Refuted: the data of an air-gapped connection is not published          *)
(* (StatusBar.svelte:114).  The wizard is a page of its own, where no      *)
(* workspace is open, or the open one is of another connection.            *)
AirGappedStaysHome ==
  asked.left /\ asked.cmd = OfSandboxes.sandbox_publish => asked.built \notin Gapped
=============================================================================
