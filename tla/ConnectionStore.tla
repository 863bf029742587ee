--------------------------- MODULE ConnectionStore ---------------------------
(***************************************************************************)
(* Saving and deleting a connection: the form (ConnectionForm.svelte and   *)
(* its two pages), ConnectionService::save and delete                      *)
(* (persistence/connections.rs), and what they keep: a row of the          *)
(* database, two entries of the keychain, a directory for the wallet.      *)
(*                                                                         *)
(* The commands run beside one another: only a single statement on the     *)
(* database is under a lock, the rest of a save is steps that may fail     *)
(* one by one, with another save, a delete or the end of the process in    *)
(* between.  What the user typed is known by the number of its save.       *)
(***************************************************************************)
EXTENDS Naturals, Sequences

CONSTANTS
  Names,
  Wallets,  \* the wallets the user has, each with one alias, named like it
  MaxTasks, \* bound
  None

(* staging and local are kept apart from prod as dev is.                   *)
Envs == {"dev", "prod"}

VARIABLES
  row,    \* row[c]: the connection in the database; by: the save it is of
  secret, \* secret[c]: the saves its password and its wallet's are of, or 0
  dir,    \* dir[c]: the wallet in its directory: the alias its tnsnames.ora
          \* has by now, and whether every file is there
  task,   \* the saves and deletes; a new connection has its save's number
  form,   \* the page shown, and what the form was filled with
  torn    \* (history) the connections whose passwords ("keys"), whose wallet
          \* an operation that failed, or that met another one, may have left
          \* in disagreement with the row

connVars == <<row, secret, dir, task, form, torn>>

Ids == 1 .. MaxTasks
Row == [name : Names, env : Envs, alias : Wallets \cup {None}, airgap : BOOLEAN, by : Ids]
Dir == [alias : Wallets \cup {None}, whole : BOOLEAN]
WholeWallet(a) == [alias |-> a, whole |-> TRUE]
PartWallet(a) == [alias |-> a, whole |-> FALSE]
Parts == {"keys", "wallet"}
List == [page |-> "list", conn |-> 0, env |-> None, alias |-> None,
         airgap |-> FALSE, saving |-> 0]

ConnInit ==
  /\ row = [c \in Ids |-> None]
  /\ secret = [c \in Ids |-> [user |-> 0, wallet |-> 0]]
  /\ dir = [c \in Ids |-> None]
  /\ task = <<>> /\ form = List /\ torn = [p \in Parts |-> {}]

Running(c) == {t \in DOMAIN task : task[t].conn = c /\ task[t].pc # "done"}

TornWith(c, parts) == [p \in Parts |-> IF p \in parts THEN torn[p] \cup {c} ELSE torn[p]]

(* An operation on c is given its number; alone: (history) no other one on *)
(* c has been under way at the same time.                                  *)
Starts(c, e) ==
  /\ Len(task) < MaxTasks
  /\ task' = Append([t \in DOMAIN task |-> IF t \in Running(c)
                                            THEN [task[t] EXCEPT !.alone = FALSE] ELSE task[t]],
                    e)
  /\ torn' = TornWith(c, IF Running(c) = {} THEN {} ELSE Parts)

-----------------------------------------------------------------------------
(* The form.                                                               *)

NewOpened ==
  /\ form.page = "list"
  /\ form' = [List EXCEPT !.page = "new"]
  /\ UNCHANGED <<row, secret, dir, task, torn>>

(* The edit page loads the row without its modes: the form has the air gap *)
(* off.                                                                    *)
EditOpened(c) ==
  /\ form.page = "list" /\ row[c] # None
  /\ form' = [page |-> "edit", conn |-> c, env |-> row[c].env,
              alias |-> row[c].alias, airgap |-> FALSE, saving |-> 0]
  /\ UNCHANGED <<row, secret, dir, task, torn>>

Cancelled ==
  /\ form.page # "list"
  /\ form' = List
  /\ UNCHANGED <<row, secret, dir, task, torn>>

(* Save: a new connection may be of either kind (alias = None: basic); a   *)
(* new wallet is picked (zip), or the one that is there is kept.  The      *)
(* passwords are always typed.  The air gap is sent as the form has it.    *)
Submitted(name, env, alias, zip, toggled) ==
  /\ form.page # "list" /\ form.saving = 0
  /\ form.page = "edit" => /\ (alias = None) = (form.alias = None)
                           /\ form.env = "prod" => env = "prod"
                           /\ ~zip => alias = form.alias
  /\ form.page = "new" => (zip <=> alias # None)
  /\ zip => alias # None
  /\ LET t == Len(task) + 1
         c == IF form.page = "new" THEN t ELSE form.conn
     IN /\ Starts(c, [kind |-> "save", pc |-> "begin", new |-> form.page = "new",
                      name |-> name, env |-> env, alias |-> alias, zip |-> zip,
                      airgap |-> env = "prod" \/ form.airgap # toggled,
                      toggled |-> toggled, conn |-> c, alone |-> Running(c) = {}])
        /\ form' = [form EXCEPT !.saving = t]
  /\ UNCHANGED <<row, secret, dir>>

(* A save that went well leads to the list from whatever page is shown by  *)
(* then; one that failed leaves the form as it is, to be tried again.      *)
FormAfter(t, ok) ==
  IF ok THEN List
  ELSE IF form.saving = t THEN [form EXCEPT !.saving = 0] ELSE form

-----------------------------------------------------------------------------
(* A save.                                                                 *)

Goes(t, pc) == task' = [task EXCEPT ![t].pc = pc]
At(t, kind, pc) == t \in DOMAIN task /\ task[t].pc = pc /\ task[t].kind = kind

Over(c, toggled) == [conn |-> c, toggled |-> toggled, pc |-> "done"]

Ends(t, ok) ==
  /\ task' = [task EXCEPT ![t] = Over(@.conn, @.toggled)]
  /\ form' = FormAfter(t, ok)

(* Mutation: a connection may be taken back from prod.                     *)
EnvMayBecome_Any(old, new) == TRUE
EnvMayBecome(old, new) == old = new \/ new = "prod"

(* The row is read under the lock, which is let go.                        *)
Assembled(t) ==
  /\ At(t, "save", "begin")
  /\ LET s == task[t]
         ok == s.new \/ (row[s.conn] # None /\ EnvMayBecome(row[s.conn].env, s.env))
     IN IF ~ok THEN Ends(t, FALSE)
        ELSE Goes(t, IF s.alias = None THEN "persist" ELSE "files") /\ UNCHANGED form
  /\ UNCHANGED <<row, secret, dir, torn>>

(* A wallet that is kept must be there, and its tnsnames.ora have the      *)
(* alias: nothing asks for the other files (connections.rs:714-729).  Of a *)
(* new one the directory is emptied first.                                 *)
WalletChecked(t) ==
  /\ At(t, "save", "files") /\ ~task[t].zip
  /\ IF dir[task[t].conn] # None /\ dir[task[t].conn].alias = task[t].alias THEN Goes(t, "persist") /\ UNCHANGED form
     ELSE Ends(t, FALSE)
  /\ UNCHANGED <<row, secret, dir, torn>>

WalletRefused(t) ==
  /\ At(t, "save", "files") /\ task[t].zip
  /\ Ends(t, FALSE)
  /\ UNCHANGED <<row, secret, dir, torn>>

WalletEmptied(t) ==
  /\ At(t, "save", "files") /\ task[t].zip
  /\ dir' = [dir EXCEPT ![task[t].conn] = PartWallet(None)]
  /\ Goes(t, "extract")
  /\ UNCHANGED <<row, secret, form, torn>>

(* The files are written one after the other, tnsnames.ora among them.     *)
NamesExtracted(t) ==
  /\ At(t, "save", "extract")
  /\ LET c == task[t].conn
     IN /\ dir[c] # None /\ dir[c].alias # task[t].alias
        /\ dir' = [dir EXCEPT ![c] = PartWallet(task[t].alias)]
  /\ UNCHANGED <<row, secret, task, form, torn>>

(* All of the wallet; or what is left of two that were written at once.    *)
Extracted(t) ==
  {WholeWallet(task[t].alias)} \cup
    IF task[t].alone THEN {} ELSE {PartWallet(dir[task[t].conn].alias)}

WalletExtracted(t, ok) ==
  /\ At(t, "save", "extract")
  /\ LET c == task[t].conn
     IN IF ok /\ dir[c] # None
          THEN /\ \E d \in Extracted(t) : dir' = [dir EXCEPT ![c] = d]
               /\ Goes(t, "persist")
               /\ UNCHANGED <<form, torn>>
          ELSE /\ Ends(t, FALSE)
               /\ torn' = TornWith(c, {"wallet"})
               /\ UNCHANGED dir
  /\ UNCHANGED <<row, secret>>

NameTaken(t) ==
  \E c \in Ids \ {task[t].conn} : row[c] # None /\ row[c].name = task[t].name

Refuses(t) == NameTaken(t) \/ (~task[t].new /\ row[task[t].conn] = None)

(* The row is created or updated: by now the wallet has been replaced.     *)
Persisted(t) ==
  /\ At(t, "save", "persist")
  /\ LET s == task[t]
     IN IF Refuses(t)
          THEN /\ Ends(t, FALSE)
               /\ torn' = TornWith(s.conn, IF s.zip THEN {"wallet"} ELSE {})
               /\ UNCHANGED row
          ELSE /\ row' = [row EXCEPT ![s.conn] = [name |-> s.name, env |-> s.env,
                            alias |-> s.alias, airgap |-> s.airgap, by |-> t]]
               /\ Goes(t, "user")
               /\ UNCHANGED <<form, torn>>
  /\ UNCHANGED <<secret, dir>>

(* A password is put into the keychain: the user's, then the wallet's.     *)
(* A save that goes through leaves the passwords whole, and the wallet if  *)
(* it brought a new one.                                                   *)
PasswordSet(t, which, ok) ==
  /\ At(t, "save", which)
  /\ LET c == task[t].conn
         last == which = "wallet" \/ task[t].alias = None
     IN /\ secret' = IF ok THEN [secret EXCEPT ![c][which] = t] ELSE secret
        /\ IF ok /\ ~last THEN Goes(t, "wallet") /\ UNCHANGED form ELSE Ends(t, ok)
        /\ torn' = IF ~ok THEN TornWith(c, {"keys"})
                   ELSE IF last /\ task[t].alone
                     THEN [p \in Parts |-> IF p = "keys" \/ task[t].zip THEN torn[p] \ {c}
                                           ELSE torn[p]]
                   ELSE torn
  /\ UNCHANGED <<row, dir>>

-----------------------------------------------------------------------------
(* A delete: the row first; what fails after that is only logged.          *)

DeleteConfirmed(c) ==
  /\ form.page = "list" /\ row[c] # None
  /\ Starts(c, [kind |-> "delete", pc |-> "row", toggled |-> FALSE, alias |-> None,
                conn |-> c, alone |-> Running(c) = {}])
  /\ UNCHANGED <<row, secret, dir, form>>

RowDeleted(t) ==
  /\ At(t, "delete", "row")
  /\ LET c == task[t].conn
     IN /\ row' = [row EXCEPT ![c] = None]
        /\ task' = IF row[c] = None THEN [task EXCEPT ![t] = Over(c, FALSE)]
                   ELSE [task EXCEPT ![t].pc = "keys", ![t].alias = row[c].alias]
  /\ UNCHANGED <<secret, dir, form, torn>>

(* Mutation: the wallet's directory is left.                               *)
DirAfterDelete_Left(c) == dir
DirAfterDelete(c) == [dir EXCEPT ![c] = None]

SecretsDeleted(t, user, wallet, files) ==
  /\ At(t, "delete", "keys")
  /\ LET c == task[t].conn
         isWallet == task[t].alias # None
     IN /\ secret' = [secret EXCEPT ![c].user = IF user THEN 0 ELSE @,
                                    ![c].wallet = IF isWallet /\ wallet THEN 0 ELSE @]
        /\ dir' = IF isWallet /\ files THEN DirAfterDelete(c) ELSE dir
        /\ torn' = TornWith(c, (IF user /\ (isWallet => wallet) THEN {} ELSE {"keys"})
                                 \cup (IF isWallet /\ ~files THEN {"wallet"} ELSE {}))
        /\ task' = [task EXCEPT ![t] = Over(c, FALSE)]
  /\ UNCHANGED <<row, form>>

(* The end of the process: an operation may have come to the middle of the *)
(* passwords, or of the wallet.                                            *)
Midway(t, p) ==
  \/ task[t].pc = "keys"
  \/ p = "keys" /\ task[t].pc \in {"user", "wallet"}
  \/ p = "wallet" /\ (task[t].pc = "extract" \/ (task[t].pc = "persist" /\ task[t].zip))

Killed ==
  /\ \E t \in DOMAIN task : task[t].pc # "done"
  /\ torn' = [p \in Parts |->
                torn[p] \cup {task[t].conn : t \in {u \in DOMAIN task : Midway(u, p)}}]
  /\ task' = [t \in DOMAIN task |-> [task[t] EXCEPT !.pc = "done"]]
  /\ form' = List
  /\ UNCHANGED <<row, secret, dir>>

ConnNext ==
  \/ NewOpened \/ Cancelled \/ Killed
  \/ \E c \in Ids : EditOpened(c) \/ DeleteConfirmed(c)
  \/ \E name \in Names, env \in Envs, alias \in Wallets \cup {None} :
       \E zip, toggled \in BOOLEAN : Submitted(name, env, alias, zip, toggled)
  \/ \E t \in DOMAIN task :
       \/ Assembled(t) \/ WalletChecked(t) \/ WalletRefused(t) \/ WalletEmptied(t)
       \/ NamesExtracted(t) \/ Persisted(t) \/ RowDeleted(t)
       \/ \E ok \in BOOLEAN :
            \/ WalletExtracted(t, ok)
            \/ \E which \in {"user", "wallet"} : PasswordSet(t, which, ok)
       \/ \E user, wallet, files \in BOOLEAN : SecretsDeleted(t, user, wallet, files)

ConnSpec == ConnInit /\ [][ConnNext]_connVars

-----------------------------------------------------------------------------
(* Properties.                                                             *)

(* A connection nothing is done to is whole, its passwords and its wallet  *)
(* those of the save its row is of, or it is gone without a trace: unless  *)
(* a step of an operation failed or was cut short, or two operations on it *)
(* overlapped.  A save that goes through mends the passwords; the wallet   *)
(* only one that brings a new one: a half-extracted wallet passes a save   *)
(* that keeps it (connections.rs:707 replaces the wallet before the row is *)
(* written, 714-729 look for one file of it, 732 writes the row before the *)
(* passwords).                                                             *)
KeysAreWhole(c) ==
  IF row[c] = None THEN secret[c] = [user |-> 0, wallet |-> 0]
  ELSE secret[c].user = row[c].by /\ (row[c].alias # None => secret[c].wallet = row[c].by)

WalletIsWhole(c) ==
  IF row[c] = None THEN dir[c] = None
  ELSE row[c].alias # None => dir[c] = WholeWallet(row[c].alias)

ConnectionsAreWhole ==
  \A c \in Ids : Running(c) = {} =>
    /\ c \notin torn["keys"] => KeysAreWhole(c)
    /\ c \notin torn["wallet"] => WalletIsWhole(c)

(* A connection stays in prod until it is deleted, whatever form a save is *)
(* of (one that failed half-way keeps the env it was filled with), unless  *)
(* the save met another operation on it: the row is read, and let go,      *)
(* before it is written (connections.rs:786).                              *)
ProdStaysProd ==
  [][\A c \in Ids :
       row[c] # None /\ row'[c] # None /\ row[c].env = "prod" /\ row'[c].env # "prod" =>
         ~task[row'[c].by].alone]_connVars

(* "persistence is the truth" (connections.rs:146): the air gap of a       *)
(* connection changes only with its toggle, or with prod.                  *)
GapFollowsToggle ==
  [][\A c \in Ids :
       row[c] # None /\ row'[c] # None /\ row'[c].airgap # row[c].airgap =>
         row'[c].env = "prod" \/ task[row'[c].by].toggled]_connVars
=============================================================================
