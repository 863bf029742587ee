------------------------------ MODULE StoreFile ------------------------------
(***************************************************************************)
(* The start of the local store: the keys of the keychain (crypto.rs), the *)
(* database file, opened or first encrypted (persistence/connections.rs,   *)
(* ConnectionService::open), its migrations (store.rs), and the rows of    *)
(* the command history, which have an envelope and a key of their own      *)
(* (command_history.rs).                                                   *)
(*                                                                         *)
(* A start is a sequence of steps; the process may be killed between any   *)
(* two of them, and a step may fail, which ends the process (lib.rs: the   *)
(* service is `expect`ed).  The keychain may refuse to read or to write.   *)
(***************************************************************************)
EXTENDS Naturals, Sequences, SequencesExt

CONSTANTS
  MaxKeys,    \* bound: keys generated for one entry of the keychain
  MaxRows,    \* bound: connections, and commands, in the database
  None

(* The shape of the connections table in the versions of the program:      *)
(* before wallets, before the safety columns, with an env "sandbox", now.  *)
Shapes == {"empty", "legacy", "v2", "sandbox", "current"}

VARIABLES
  db,     \* the file: enc, its key or 0 (plaintext), shape, rows: how many
          \* connections, typed: the key of each command's envelope, or 0
  copies, \* the copies of a migration: the encrypted one, and the legacy one
  entry,  \* the keychain: the keys of the database and of the history, or 0
  start,  \* where the process is, and the keys it has
  past    \* (history) the rows and commands there should be; made, the keys
          \* so far; rekeyed, the entries that were replaced; cut, whether
          \* the file has been left under its legacy name since it was up

fileVars == <<db, copies, entry, start, past>>

File == [enc : 0 .. MaxKeys, shape : Shapes, rows : Nat, typed : Seq(0 .. MaxKeys)]

Off == [pc |-> "down", db |-> 0, hist |-> 0]

FileInit ==
  /\ db \in {None} \cup [enc : {0}, shape : Shapes \ {"empty", "current"}, rows : {1},
                         typed : {<<>>}]
              \cup [enc : {0}, shape : {"current"}, rows : {1}, typed : {<<0, 0>>}]
  /\ copies = [migrated |-> None, legacy |-> None]
  /\ entry = [db |-> 0, hist |-> 0]
  /\ start = Off
  /\ past = [rows |-> IF db = None THEN 0 ELSE 1, made |-> 0, rekeyed |-> {}, cut |-> FALSE,
             typed |-> IF db = None THEN 0 ELSE Len(db.typed)]

Goes(pc) == start' = [start EXCEPT !.pc = pc]
Fails == start' = Off

-----------------------------------------------------------------------------
(* A key is read; any error of the read, not only a missing entry, makes a *)
(* new one, which replaces the entry, and is used if that went well.       *)

KeyOf(e) == IF e = "db" THEN "key" ELSE "histKey"
AfterKey(e) == IF e = "db" THEN "probe" ELSE "envelopes"

KeyRead(e) ==
  /\ start.pc = KeyOf(e) /\ entry[e] # 0
  /\ start' = [start EXCEPT !.pc = AfterKey(e), ![e] = entry[e]]
  /\ UNCHANGED <<db, copies, entry, past>>

(* Mutation: the new key is used, and not kept.                            *)
EntryWith_Old(e, fresh) == entry
EntryWith(e, fresh) == [entry EXCEPT ![e] = fresh]

KeyMade(e) ==
  /\ start.pc = KeyOf(e) /\ past.made < MaxKeys
  /\ LET fresh == past.made + 1
     IN /\ entry' = EntryWith(e, fresh)
        /\ start' = [start EXCEPT !.pc = AfterKey(e), ![e] = fresh]
        /\ past' = [past EXCEPT !.made = fresh,
                      !.rekeyed = IF entry[e] = 0 THEN @ ELSE @ \cup {e}]
  /\ UNCHANGED <<db, copies>>

(* Without its key the database is not opened; the history is done without.*)
KeyRefused(e) ==
  /\ start.pc = KeyOf(e)
  /\ IF e = "db" THEN Fails ELSE Goes("envelopes")
  /\ UNCHANGED <<db, copies, entry, past>>

-----------------------------------------------------------------------------
(* The file.                                                               *)

StartAsked ==
  /\ start.pc = "down"
  /\ Goes("key")
  /\ UNCHANGED <<db, copies, entry, past>>

Probed ==
  /\ start.pc = "probe"
  /\ Goes(IF db # None /\ db.enc = 0 THEN "export" ELSE "open")
  /\ UNCHANGED <<db, copies, entry, past>>

Exported(ok) ==
  /\ start.pc = "export"
  /\ copies' = [copies EXCEPT !.migrated = IF ok THEN [db EXCEPT !.enc = start.db] ELSE None]
  /\ IF ok THEN Goes("aside") ELSE Fails
  /\ UNCHANGED <<db, entry, past>>

(* The plaintext file is renamed; from here there is no file until the     *)
(* encrypted one has the name.                                             *)
MovedAside(ok) ==
  /\ start.pc = "aside"
  /\ IF ok THEN /\ copies' = [copies EXCEPT !.legacy = db]
                /\ db' = None
                /\ Goes("place")
           ELSE /\ copies' = [copies EXCEPT !.migrated = None]
                /\ Fails /\ UNCHANGED db
  /\ UNCHANGED <<entry, past>>

(* Mutation: the plaintext file is not given its name back.                *)
AfterFailedMove_Left(restored) == IF restored THEN None ELSE db

(* When the encrypted one cannot be moved, the plaintext file is given its *)
(* name back, if that can be done.                                         *)
AfterFailedMove(restored) == IF restored THEN copies.legacy ELSE db

MovedIntoPlace(ok, restored) ==
  /\ start.pc = "place"
  /\ IF ok THEN /\ db' = copies.migrated
                /\ copies' = [copies EXCEPT !.migrated = None]
                /\ Goes("open") /\ UNCHANGED past
           ELSE /\ db' = AfterFailedMove(restored)
                /\ copies' = [copies EXCEPT !.legacy = IF restored THEN None ELSE @]
                /\ past' = [past EXCEPT !.cut = ~restored]
                /\ Fails
  /\ UNCHANGED entry

(* A file that is not there is made; another key than the file's is told   *)
(* by the first read.                                                      *)
Opened ==
  /\ start.pc = "open"
  /\ IF db = None
       THEN /\ db' = [enc |-> start.db, shape |-> "empty", rows |-> 0, typed |-> <<>>]
            /\ Goes("migrate")
       ELSE /\ IF db.enc = start.db THEN Goes("migrate") ELSE Fails
            /\ UNCHANGED db
  /\ UNCHANGED <<copies, entry, past>>

(* The table is made, rebuilt in a transaction, or given its missing       *)
(* columns one by one: each step can be done again after a cut.            *)
Migrated(ok) ==
  /\ start.pc = "migrate"
  /\ IF ~ok THEN Fails /\ UNCHANGED db
     ELSE IF db.shape # "current" THEN db' = [db EXCEPT !.shape = "current"] /\ UNCHANGED start
     ELSE Goes("histKey") /\ UNCHANGED db
  /\ UNCHANGED <<copies, entry, past>>

Plain == {i \in DOMAIN db.typed : db.typed[i] = 0}

(* The commands of an older version are given their envelopes, one by one. *)
Enveloped ==
  /\ start.pc = "envelopes"
  /\ IF Plain # {} /\ start.hist # 0
       THEN /\ \E i \in Plain : db' = [db EXCEPT !.typed[i] = start.hist]
            /\ UNCHANGED <<start, past>>
       ELSE /\ Goes("up")
            /\ past' = IF past.cut THEN [past EXCEPT !.rows = db.rows, !.typed = Len(db.typed),
                                                    !.cut = FALSE]
                       ELSE past
            /\ UNCHANGED db
  /\ UNCHANGED <<copies, entry>>

-----------------------------------------------------------------------------
(* The store is up.                                                        *)

ConnectionSaved ==
  /\ start.pc = "up" /\ db.rows < MaxRows
  /\ db' = [db EXCEPT !.rows = @ + 1]
  /\ past' = [past EXCEPT !.rows = @ + 1]
  /\ UNCHANGED <<copies, entry, start>>

(* Without a key nothing is written.                                       *)
CommandAppended ==
  /\ start.pc = "up" /\ Len(db.typed) < MaxRows /\ start.hist # 0
  /\ db' = [db EXCEPT !.typed = Append(@, start.hist)]
  /\ past' = [past EXCEPT !.typed = @ + 1]
  /\ UNCHANGED <<copies, entry, start>>

Accessible(k) == k \in {0, start.hist}

(* The commands that do not open are deleted, one by one.                  *)
InaccessibleCleared ==
  /\ start.pc = "up" /\ start.hist # 0
  /\ \E i \in DOMAIN db.typed :
       ~Accessible(db.typed[i]) /\ db' = [db EXCEPT !.typed = RemoveAt(@, i)]
  /\ UNCHANGED <<copies, entry, start, past>>

(* The end of the process, whatever it was doing.                          *)
Killed ==
  /\ start.pc # "down"
  /\ Fails
  /\ past' = [past EXCEPT !.cut = @ \/ start.pc = "place"]
  /\ UNCHANGED <<db, copies, entry>>

FileNext ==
  \/ StartAsked \/ Probed \/ Opened \/ Enveloped \/ ConnectionSaved \/ CommandAppended
  \/ InaccessibleCleared \/ Killed
  \/ \E e \in {"db", "hist"} : KeyRead(e) \/ KeyMade(e) \/ KeyRefused(e)
  \/ \E ok \in BOOLEAN :
       \/ Exported(ok) \/ MovedAside(ok) \/ Migrated(ok)
       \/ \E restored \in BOOLEAN : MovedIntoPlace(ok, restored)

FileSpec == FileInit /\ [][FileNext]_fileVars

-----------------------------------------------------------------------------
(* Properties.                                                             *)

(* A store that comes up has every connection and every command that was   *)
(* there, whatever start was cut short before: unless a start was cut      *)
(* between the two renames of the migration, after which there is no file, *)
(* and the next start makes an empty one (connections.rs:1272-1278).       *)
StoreIsKept ==
  start.pc = "up" /\ ~past.cut =>
    /\ db.shape = "current" /\ db.rows = past.rows
    /\ "hist" \notin past.rekeyed => Len(db.typed) = past.typed

(* The keychain opens the file and the envelopes: unless a read it refused *)
(* had an entry replaced (crypto.rs:163).                                  *)
KeychainOpensStore ==
  db # None =>
    /\ "db" \notin past.rekeyed => db.enc \in {0, entry.db}
    /\ "hist" \notin past.rekeyed => \A i \in DOMAIN db.typed : db.typed[i] \in {0, entry.hist}

(* "First-run path: no stored entry yet, generate one" (crypto.rs:162): an *)
(* entry that is there is not replaced.                                    *)
OnlyFirstRunMakesKeys ==
  [][\A e \in {"db", "hist"} : entry[e] # 0 => entry'[e] = entry[e]]_fileVars
=============================================================================
