------------------------------ MODULE MCBackend ------------------------------
(***************************************************************************)
(* Components for TLC that have no state in common: the audit log, the     *)
(* saved connections, the file of the local store and the commands, of the *)
(* Rust core, and of the sidecar the calls on the workspace's connection   *)
(* and the publishing of a sandbox.  `part` says which of them acts; the   *)
(* others stay in their initial states.  The last is explored in two       *)
(* parts, which cut its counters in different ways.                        *)
(***************************************************************************)
EXTENDS AuditChain, SharedCalls, Commands

CONSTANTS
  Names, Wallets, MaxTasks,
  MaxKeys, MaxRows,
  Owned, Shared, MaxSetups, MaxRuns

VARIABLES
  part,
  row, secret, dir, task, form, torn,
  db, copies, entry, start, past,
  keychain, registered, setups, wizard, publishes, files, boxes, made

(* The machines: the owner's, on the first of which the wizard is, and the *)
(* one of a member.                                                        *)
Devices == Owned \cup Shared
Account == [d \in Devices |-> IF d \in Owned THEN "owner" ELSE "member"]
Publisher == CHOOSE d \in Owned : TRUE
Members == {"member"}

Store == INSTANCE ConnectionStore
StoreFile == INSTANCE StoreFile
Publish == INSTANCE SandboxPublish

(* None is no connection, no wallet, no directory of one, no database and  *)
(* no key; an owner and a member have a machine.                           *)
ASSUME StoreAssumption ==
  /\ MaxTasks \in Nat /\ MaxKeys \in Nat
  /\ None \notin StoreFile!File
  /\ None \notin Store!Row \cup Store!Dir \cup Wallets
  /\ None \notin Nat /\ Owned # {} /\ Shared \ Owned # {}

storeVars == <<row, secret, dir, task, form, torn>>
fileVars == <<db, copies, entry, start, past>>
publishVars == <<keychain, registered, setups, wizard, publishes, files, boxes, made>>
BackendVars == <<part, vars, storeVars, fileVars, callVars, publishVars, commandsVars>>

BackendInit ==
  /\ Init /\ Store!ConnInit /\ StoreFile!FileInit /\ CallsInit /\ Publish!PublishInit
  /\ CommandsInit
  /\ part \in {"audit", "connections", "start", "calls", "keys", "wizard", "commands"}
  /\ part # "start" => db = None
  /\ part # "commands" => account = Nobody

TheFirst(S) == CHOOSE x \in S : TRUE

(* The first connection has the first name and no other wallet than the    *)
(* first; nothing but prod turns the air gap on; the third save or delete  *)
(* is of the first connection, after the first one and, when the second    *)
(* one is of another connection, after that.                               *)
ConnectionsPart ==
  /\ Store!ConnNext
  /\ task = <<>> /\ task' # <<>> =>
       task'[1].name = TheFirst(Names) /\ task'[1].alias \in {None, TheFirst(Wallets)}
  /\ \A t \in DOMAIN task' : ~task'[t].toggled
  /\ Len(task') = 3 => /\ task'[1].pc = "done" /\ task'[3].conn = 1
                       /\ torn'["keys"] \cup torn'["wallet"] \subseteq {1}
                       /\ task'[2].conn = 1 \/ task'[2].pc = "done"
  /\ UNCHANGED <<vars, fileVars, callVars, publishVars>>

KeysPart == Publish!PublishNext /\ made'.runs <= 1 /\ (made'.setups = 3 => made'.runs = 0)

(* The member has registered a key, or not, when the wizard is entered.    *)
WizardPart ==
  /\ Publish!PublishNext
  /\ made.runs = 0 \/ UNCHANGED <<registered, setups>>
  /\ made'.setups <= 1 /\ made'.crossed = {} /\ (made'.runs > 0 => setups' = {})

CommandsPart ==
  /\ CommandsNext
  /\ UNCHANGED <<vars, storeVars, fileVars, callVars, publishVars>>

OthersPart ==
  /\ \/ part = "audit" /\ Next /\ UNCHANGED <<storeVars, fileVars, callVars, publishVars>>
     \/ part = "connections" /\ ConnectionsPart
     \/ part = "start" /\ StoreFile!FileNext /\ UNCHANGED <<vars, storeVars, callVars, publishVars>>
     \/ part = "calls" /\ CallsNext /\ UNCHANGED <<vars, storeVars, fileVars, publishVars>>
     \/ part = "keys" /\ KeysPart /\ UNCHANGED <<vars, storeVars, fileVars, callVars>>
     \/ part = "wizard" /\ WizardPart /\ UNCHANGED <<vars, storeVars, fileVars, callVars>>
  /\ UNCHANGED commandsVars

BackendNext ==
  /\ \/ OthersPart
     \/ part = "commands" /\ CommandsPart
  /\ UNCHANGED part

BackendSpec == BackendInit /\ [][BackendNext]_BackendVars

-----------------------------------------------------------------------------
(* The properties of the instances, which their modules state and explain. *)

(* AuditChain: what nothing disturbed verifies, the verifier counts a      *)
(* sub-chain for each run, and what was written is read                    *)
(* (commands.rs, verify_chain_file).                                       *)
LogIsRight ==
  part = "audit" => UndisturbedVerifies /\ SubChainsAreRuns /\ WrittenIsRead

(* ConnectionStore: row, passwords and wallet are of one save              *)
(* (persistence/connections.rs).  StoreFile: a start cut short anywhere     *)
(* loses nothing, and the keychain has the keys (crypto.rs).               *)
StoreIsWhole ==
  /\ part = "connections" => Store!ConnectionsAreWhole
  /\ part = "start" => StoreFile!StoreIsKept /\ StoreFile!KeychainOpensStore

(* ConnectionStore: prod is for ever (persistence/connections.rs:786).     *)
ProdStaysProd == Store!ProdStaysProd

(* ConnectionStore: the air gap changes with its toggle.                   *)
GapFollowsToggle == Store!GapFollowsToggle

(* StoreFile: a key that is there is not replaced (crypto.rs).             *)
OnlyFirstRunMakesKeys == StoreFile!OnlyFirstRunMakesKeys

(* SandboxPublish: a sandbox that is ready can be opened by those it is    *)
(* for, the keychain and the cloud have the same key, and a publish makes  *)
(* one sandbox, and can be tried again (publish.ts, handlers.ts).          *)
SandboxesOpen ==
  part \in {"keys", "wizard"} =>
  Publish!ReadyCanBeOpened /\ Publish!KeysAgree /\ Publish!OneSandboxPerPublish

(* Commands: the air gap lets nothing out and no secret is taken under it, *)
(* the cloud is asked with a token, publishing again reads the connection  *)
(* the sandbox is of, and the log tells of windows that were opened        *)
(* (commands.rs).                                                          *)
CommandsKeepTheirOrder ==
  part = "commands" =>
  GapHolds /\ SecretsBehindTheGate /\ CloudCallsAreSigned /\ RepublishReadsItsOwn
    /\ WindowsLoggedWereOpened

(* SandboxPublish: publishing again replaces a sandbox.                    *)
RepublishMakesNoSandbox == Publish!RepublishMakesNoSandbox

(* SandboxPublish: the wizard's grants succeed.                            *)
GrantsAreMade == Publish!GrantsAreMade
=============================================================================
