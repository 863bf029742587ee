----------------------------- MODULE AuditChain -----------------------------
(***************************************************************************)
(* The local audit log: write_audit_entry and verify_chain_file of         *)
(* src-tauri/src/commands.rs with the key handling of                      *)
(* src-tauri/src/audit/chain.rs.                                           *)
(*                                                                         *)
(* Every executed statement becomes one line of the file of its UTC day.   *)
(* A line is chained: its prevHash is the hmac of the line written before  *)
(* it, held in memory behind a mutex and reset to "genesis" when the       *)
(* process starts.  The date of a line is read before the mutex is taken.  *)
(* The mutex is never held across an await, so the locked part of a write  *)
(* is one step; the keychain may refuse either key at any read, and the    *)
(* read may then have put a new key over the old one; an append may fail   *)
(* or be cut short, and the process may restart at any moment.             *)
(***************************************************************************)
EXTENDS Naturals, FiniteSets, Sequences, SequencesExt

CONSTANTS
  Entries,      \* one value per call of write_audit_entry
  MaxDay,       \* bound: days that pass
  MaxRun,       \* bound: runs of the process
  MaxKey        \* bound: keys ever generated, of each kind

ASSUME AuditAssumption ==
  /\ MaxDay \in Nat \ {0} /\ MaxRun \in Nat \ {0} /\ MaxKey \in Nat \ {0}
  /\ "genesis" \notin Entries /\ "none" \notin Entries

Days == 1..MaxDay

VARIABLES
  day,      \* the UTC date
  run,      \* which run of the process this is
  hmacKey,  \* generation of the HMAC key in the keychain
  cipherKey,\* generation of the key that seals the lines
  prev,     \* prev_hash_guard: what the next line will link to
  stage,    \* stage[e]: how far the call that writes e has got
  stamp,    \* stamp[e]: the day and the time it took before the mutex
  clock,    \* source of the times
  file,     \* file[d]: the lines of the file of day d
  last,     \* history: the day whose file this run appended to last, or 0
  causes    \* history: causes[d]: what disturbed the chain in file d

vars == <<day, run, hmacKey, cipherKey, prev, stage, stamp, clock, file, last, causes>>

(* The hmac of a line is named by its entry: bodies are unique (their      *)
(* timestamp is part of them), so equal hmacs mean the same line.  "none"  *)
(* stands for the empty string.  seal is the key a line is sealed with, or *)
(* 0: it is plain.                                                         *)
Hash == Entries \cup {"genesis", "none"}
Line == [kind : {"keyed", "no-chain", "torn", "garbled"}, entry : Entries,
         prev : Hash, key : 1..MaxKey, seal : 0..MaxKey, run : 1..MaxRun]
Cause == {"keychain", "midnight", "torn", "rekeyed", "resealed"}

TypeOK ==
  /\ day \in Days
  /\ run \in 1..MaxRun
  /\ hmacKey \in 1..MaxKey /\ cipherKey \in 1..MaxKey
  /\ prev \in Hash
  /\ stage \in [Entries -> {"new", "stamped", "written", "failed"}]
  /\ stamp \in [Entries -> [day : Days, ts : Nat]]
  /\ clock \in Nat
  /\ file \in [Days -> Seq(Line)]
  /\ last \in 0..MaxDay
  /\ causes \in [Days -> SUBSET Cause]

Init ==
  /\ day = 1
  /\ run = 1
  /\ hmacKey = 1 /\ cipherKey = 1
  /\ prev = "genesis"
  /\ stage = [e \in Entries |-> "new"]
  /\ stamp = [e \in Entries |-> [day |-> 1, ts |-> 0]]
  /\ clock = 0
  /\ file = [d \in Days |-> <<>>]
  /\ last = 0
  /\ causes = [d \in Days |-> {}]

-----------------------------------------------------------------------------
(***************************************************************************)
(* The environment.                                                        *)
(***************************************************************************)

Midnight ==
  /\ day < MaxDay
  /\ day' = day + 1
  /\ UNCHANGED <<run, hmacKey, cipherKey, prev, stage, stamp, clock, file, last, causes>>

(* Mutation: the head of the chain survives a restart.                     *)
RestartKeepsPrev ==
  /\ run < MaxRun
  /\ run' = run + 1
  /\ last' = 0
  /\ stage' = [e \in Entries |-> IF stage[e] = "stamped" THEN "failed"
                                 ELSE stage[e]]
  /\ UNCHANGED <<day, hmacKey, cipherKey, prev, stamp, clock, file, causes>>

(* The process ends and starts again: calls in progress are gone.          *)
Restart ==
  /\ run < MaxRun
  /\ run' = run + 1
  /\ prev' = "genesis"
  /\ last' = 0
  /\ stage' = [e \in Entries |-> IF stage[e] = "stamped" THEN "failed"
                                 ELSE stage[e]]
  /\ UNCHANGED <<day, hmacKey, cipherKey, stamp, clock, file, causes>>

(* A key is lost.  The read that finds it so, in a write or in a check,    *)
(* takes every error for a first run: the entry is gone, damaged, or only  *)
(* refused this once, a new key is stored in its place, and the process    *)
(* goes on with that one.  No older line verifies any more                 *)
(* (audit/chain.rs:39-58).                                                 *)
LoseKey ==
  /\ hmacKey < MaxKey
  /\ hmacKey' = hmacKey + 1
  /\ causes' = [d \in Days |->
       IF \E i \in DOMAIN file[d] : file[d][i].kind = "keyed"
       THEN causes[d] \cup {"rekeyed"} ELSE causes[d]]
  /\ UNCHANGED <<day, run, cipherKey, prev, stage, stamp, clock, file, last>>

(* No older sealed line can be read any more (crypto.rs:140-182).          *)
LoseCipher ==
  /\ cipherKey < MaxKey
  /\ cipherKey' = cipherKey + 1
  /\ causes' = [d \in Days |->
       IF \E i \in DOMAIN file[d] : file[d][i].seal = cipherKey
       THEN causes[d] \cup {"resealed"} ELSE causes[d]]
  /\ UNCHANGED <<day, run, hmacKey, prev, stage, stamp, clock, file, last>>

-----------------------------------------------------------------------------
(***************************************************************************)
(* write_audit_entry.                                                      *)
(***************************************************************************)

(* The time and the file of an entry are fixed before the mutex is taken.  *)
Stamp(e) ==
  /\ stage[e] = "new"
  /\ clock' = clock + 1
  /\ stamp' = [stamp EXCEPT ![e] = [day |-> day, ts |-> clock + 1]]
  /\ stage' = [stage EXCEPT ![e] = "stamped"]
  /\ UNCHANGED <<day, run, hmacKey, cipherKey, prev, file, last, causes>>

(* Mutation: the file is opened for writing, not for appending.            *)
AppendedOver(s, line) == <<line>>

(* Bytes appended to a file whose last line has no newline join that line. *)
Appended(s, line) ==
  IF s # <<>> /\ Last(s).kind = "torn"
  THEN Append(Front(s), [line EXCEPT !.kind = IF @ = "torn" THEN "torn"
                                              ELSE "garbled"])
  ELSE Append(s, line)

LineOf(e, kind, sealed) ==
  [kind |-> kind, entry |-> e, prev |-> prev, key |-> hmacKey,
   seal |-> IF sealed THEN cipherKey ELSE 0, run |-> run]

(* What this append does to the chain of the file it goes to: the line it  *)
(* links to is in another file, or carries no hmac, or the file ends in    *)
(* the middle of a line.                                                   *)
Disturbs(e, keyed) ==
  LET d == stamp[e].day IN
    (IF keyed /\ prev = "none" THEN {"keychain"} ELSE {})
      \cup (IF keyed /\ last \notin {0, d} THEN {"midnight"} ELSE {})
      \cup (IF file[d] # <<>> /\ Last(file[d]).kind = "torn" THEN {"torn"} ELSE {})

(* The locked part, when the append succeeds.  hmacUp and sealed: the      *)
(* keychain gave the HMAC key, the cipher key.                             *)
Write(e, hmacUp, sealed) ==
  LET d == stamp[e].day IN
  /\ stage[e] = "stamped"
  /\ file' = [file EXCEPT ![d] =
       Appended(@, LineOf(e, IF hmacUp THEN "keyed" ELSE "no-chain", sealed))]
  /\ prev' = IF hmacUp THEN e ELSE "none"
  /\ stage' = [stage EXCEPT ![e] = "written"]
  /\ last' = d
  /\ causes' = [causes EXCEPT ![d] = @ \cup Disturbs(e, hmacUp)]
  /\ UNCHANGED <<day, run, hmacKey, cipherKey, stamp, clock>>

(* The file cannot be opened: nothing is written, the chain stays.         *)
OpenFails(e) ==
  /\ stage[e] = "stamped"
  /\ stage' = [stage EXCEPT ![e] = "failed"]
  /\ UNCHANGED <<day, run, hmacKey, cipherKey, prev, stamp, clock, file, last, causes>>

(* write_all stops in the middle: a piece of the line stays in the file.   *)
WriteCutShort(e, sealed) ==
  LET d == stamp[e].day IN
  /\ stage[e] = "stamped"
  /\ file' = [file EXCEPT ![d] = Appended(@, LineOf(e, "torn", sealed))]
  /\ stage' = [stage EXCEPT ![e] = "failed"]
  /\ causes' = [causes EXCEPT ![d] = @ \cup {"torn"}]
  /\ UNCHANGED <<day, run, hmacKey, cipherKey, prev, stamp, clock, last>>

Next ==
  \/ Midnight \/ Restart \/ LoseKey \/ LoseCipher
  \/ \E e \in Entries :
       \/ Stamp(e)
       \/ \E hmacUp, sealed \in BOOLEAN : Write(e, hmacUp, sealed)
       \/ OpenFails(e)
       \/ \E sealed \in BOOLEAN : WriteCutShort(e, sealed)

Spec == Init /\ [][Next]_vars

-----------------------------------------------------------------------------
(***************************************************************************)
(* Reading the log.                                                        *)
(***************************************************************************)

(* A line that parses: it is whole, and plain, or sealed with the key the  *)
(* keychain has and gives.                                                 *)
Readable(l, cipherUp) ==
  l.kind \in {"keyed", "no-chain"} /\ (l.seal # 0 => cipherUp /\ l.seal = cipherKey)

(* Mutation: "genesis" does not reset the expected link.                   *)
VerifyLineNoReset(r, l, cipherUp) ==
  IF ~r.ok \/ ~Readable(l, cipherUp) THEN r
  ELSE IF l.kind = "no-chain" THEN [r EXCEPT !.skipped = @ + 1]
  ELSE IF (r.expected # "none" /\ l.prev # r.expected) \/ l.key # hmacKey
       THEN [r EXCEPT !.ok = FALSE]
  ELSE [r EXCEPT !.expected = l.entry, !.checked = @ + 1,
                 !.subChains = @ + IF l.prev = "genesis" THEN 1 ELSE 0]

(* verify_chain_file: lines that do not parse and lines without hmac are   *)
(* passed over; "genesis" starts a new sub-chain; the first line that does *)
(* not link to the line before it, or whose hmac is not reproduced, ends   *)
(* the check.                                                              *)
VerifyLine(r, l, cipherUp) ==
  LET expected == IF l.prev = "genesis" THEN "genesis" ELSE r.expected IN
  IF ~r.ok \/ ~Readable(l, cipherUp) THEN r
  ELSE IF l.kind = "no-chain" THEN [r EXCEPT !.skipped = @ + 1]
  ELSE IF l.prev # expected \/ l.key # hmacKey THEN [r EXCEPT !.ok = FALSE]
  ELSE [r EXCEPT !.expected = l.entry, !.checked = @ + 1,
                 !.subChains = @ + IF l.prev = "genesis" THEN 1 ELSE 0]

Unchecked == [ok |-> TRUE, expected |-> "none", checked |-> 0, skipped |-> 0, subChains |-> 0]

Verify(d, cipherUp) ==
  LET after[n \in 0 .. Len(file[d])] ==
        IF n = 0 THEN Unchecked ELSE VerifyLine(after[n - 1], file[d][n], cipherUp)
  IN after[Len(file[d])]

-----------------------------------------------------------------------------
(***************************************************************************)
(* Properties.                                                             *)
(***************************************************************************)

Keyed(d) == {i \in DOMAIN file[d] : file[d][i].kind = "keyed"}

(* "Verify Chain" reports no break in a file that nothing disturbed,       *)
(* however many calls raced and however often the process restarted, and   *)
(* it has then checked every chained line.                                 *)
UndisturbedVerifies ==
  \A d \in Days : causes[d] = {} =>
    /\ Verify(d, TRUE).ok
    /\ Verify(d, TRUE).checked = Cardinality(Keyed(d))

(* The sub-chains it counts are the runs of the process that wrote to the  *)
(* file: no restart goes unnoticed and none is invented.                   *)
SubChainsAreRuns ==
  \A d \in Days : causes[d] = {} =>
    Verify(d, TRUE).subChains =
      Cardinality({file[d][i].run : i \in Keyed(d)})

(* An entry that write_audit_entry returned, and that the renderer was     *)
(* shown, is in the file of its day exactly once, and is lost only when    *)
(* the file ended in the middle of a line, or the key that sealed it was   *)
(* replaced.                                                               *)
WrittenIsRead ==
  \A e \in Entries : stage[e] = "written" =>
    LET d == stamp[e].day
        found == {i \in DOMAIN file[d] :
                    Readable(file[d][i], TRUE) /\ file[d][i].entry = e}
    IN \/ Cardinality(found) = 1
       \/ found = {} /\ {"torn", "resealed"} \cap causes[d] # {}

(* The chain in a file: a chained line starts a sub-chain or links to the  *)
(* chained line before it.                                                 *)
Linked(s) ==
  \A i \in DOMAIN s : s[i].kind = "keyed" =>
    \/ s[i].prev = "genesis"
    \/ i > 1 /\ s[i-1].kind = "keyed" /\ s[i].prev = s[i-1].entry

(* The part of UndisturbedVerifies that does not mention the check itself. *)
UndisturbedIsLinked == \A d \in Days : causes[d] = {} => Linked(file[d])

(***************************************************************************)
(* What the comments and documents say.                                    *)
(***************************************************************************)

(* commands.rs 775-777: a line written without the keychain is outside the *)
(* chain, and not a break of it.                                           *)
NoChainIsNotABreak ==
  \A d \in Days : causes[d] \subseteq {"keychain"} => Verify(d, TRUE).ok
=============================================================================
