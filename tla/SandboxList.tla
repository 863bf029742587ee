----------------------------- MODULE SandboxList -----------------------------
(***************************************************************************)
(* The list of sandboxes: the store of the frontend                        *)
(* (stores/sandboxes.svelte.ts), its cards (SandboxCard.svelte, on the     *)
(* home page), the sidecar's handlers behind it, the cache on disk and the *)
(* file of what was seen (last-seen.ts).  SandboxSession models what       *)
(* happens to a sandbox once it is open.                                   *)
(*                                                                         *)
(* A load asks for the cache, then for the cloud's list, and replaces what *)
(* is shown; nothing keeps loads in their order.                           *)
(***************************************************************************)
EXTENDS Naturals

CONSTANTS
  Sandboxes, Owned,   \* those of the cloud, and of these the user's own
  MaxOps,             \* bound: the operations of a run
  NoSandbox

ASSUME ListAssumption == NoSandbox \notin Sandboxes

Ops == 1 .. MaxOps    \* numbered as they begin

VARIABLES
  granted,   \* the sandboxes the cloud lists for the user
  cache,     \* the entries of sandbox-cache
  seenFile,  \* the ids last-seen.ts keeps
  list,      \* cached, remote, lastSeenIds, pulling, loading, error
  op,        \* op[i]: an operation on its way
  told       \* history; told.seen begins anew where the file is lost

listVars == <<granted, cache, seenFile, list, op, told>>

NoOp == [kind |-> "none", of |-> NoSandbox, pc |-> "none", cached |-> {}, remote |-> {}, seen |-> {},
         latest |-> FALSE]   \* history: the load that began last
Done == [NoOp EXCEPT !.pc = "done"]

ListInit ==
  /\ granted = Sandboxes
  /\ cache \in SUBSET Sandboxes /\ seenFile = {}
  /\ list = [cached |-> {}, remote |-> {}, seen |-> {}, pulling |-> {}, loading |-> FALSE, error |-> FALSE]
  /\ op = [i \in Ops |-> NoOp]
  /\ told = [deleted |-> {}, seen |-> {}, newest |-> FALSE, lostMark |-> FALSE,
             pulledAcross |-> {}, revoked |-> {}]

Pending == {i \in Ops : op[i] \notin {NoOp, Done}}
FreeOp(i) == op[i] = NoOp /\ (i > 1 => op[i - 1] # NoOp)
At(i, kinds, pc) == op[i].kind \in kinds /\ op[i].pc = pc
OpGoes(i, pc) == op' = [op EXCEPT ![i].pc = pc]
OpEnds(i) == op' = [op EXCEPT ![i] = Done]

-----------------------------------------------------------------------------
(* load(): on the way in, when the window gets the focus, and at the end   *)
(* of what changes the list.                                               *)
Loading(l) == [l EXCEPT !.loading = TRUE, !.error = FALSE]
LoadBegins(i, o) ==
  op' = [j \in Ops |-> IF j = i THEN [o EXCEPT !.pc = "cached", !.latest = TRUE]
                      ELSE [op[j] EXCEPT !.latest = FALSE]]

Loads(i) ==
  /\ FreeOp(i) /\ list' = Loading(list)
  /\ LoadBegins(i, [NoOp EXCEPT !.kind = "load"])
  /\ UNCHANGED <<granted, cache, seenFile, told>>

(* The cache is listed; without a session of the cloud that already fails. *)
CacheListed(i, ok) ==
  /\ At(i, {"load", "pull"}, "cached")
  /\ IF ok THEN op' = [op EXCEPT ![i].pc = "remote", ![i].cached = cache] /\ UNCHANGED <<list, told>>
     ELSE /\ OpEnds(i)
          /\ list' = [list EXCEPT !.loading = FALSE, !.error = TRUE, !.pulling = @ \ {op[i].of}]
          /\ told' = [told EXCEPT !.newest = FALSE]
  /\ UNCHANGED <<granted, cache, seenFile>>

(* Mutation: what is cached is listed as remote as well.                   *)
Uncached_Both(i) == granted
Uncached(i) == granted \ op[i].cached

(* What a read of the file of the seen ids gives: one that fails, or finds *)
(* no JSON, gives none.                                                    *)
SeenIds(readable) == IF readable THEN seenFile ELSE {}

(* A list that cannot be had is taken as empty.                            *)
CloudListed(i, ok) ==
  /\ At(i, {"load", "pull"}, "remote")
  /\ \E readable \in BOOLEAN :
       op' = [op EXCEPT ![i].pc = "answer", ![i].remote = IF ok THEN Uncached(i) ELSE {},
                        ![i].seen = SeenIds(ok /\ readable)]
  /\ UNCHANGED <<granted, cache, seenFile, list, told>>

LoadShown(i) ==
  /\ At(i, {"load", "pull"}, "answer") /\ OpEnds(i)
  /\ list' = [list EXCEPT !.cached = op[i].cached, !.remote = op[i].remote, !.seen = op[i].seen,
                          !.loading = FALSE, !.pulling = @ \ {op[i].of}]
  /\ told' = [told EXCEPT !.newest = op[i].latest]
  /\ UNCHANGED <<granted, cache, seenFile>>

-----------------------------------------------------------------------------
(* The cards.  One that is busy is not clicked; its other buttons work.    *)
OpBegins(i, kind, s, pc) ==
  /\ FreeOp(i)
  /\ op' = [op EXCEPT ![i] = [NoOp EXCEPT !.kind = kind, !.of = s, !.pc = pc]]

(* History: a pull and a removal of one sandbox at once.                   *)
Across(kinds, s) ==
  IF \E i \in Pending : op[i].kind \in kinds /\ op[i].of = s THEN told.pulledAcross \cup {s}
  ELSE told.pulledAcross

Pulls(i, s) ==
  /\ s \in list.remote \ list.pulling
  /\ OpBegins(i, "pull", s, "api")
  /\ list' = [list EXCEPT !.pulling = @ \cup {s}]
  /\ told' = [told EXCEPT !.pulledAcross = Across({"remove"}, s)]
  /\ UNCHANGED <<granted, cache, seenFile>>

(* A pull that fails ends without a word.                                  *)
PullAnswered(i, ok) ==
  /\ At(i, {"pull"}, "api")
  /\ IF ok /\ op[i].of \in granted THEN OpGoes(i, "write") /\ UNCHANGED list
     ELSE OpEnds(i) /\ list' = [list EXCEPT !.pulling = @ \ {op[i].of}]
  /\ UNCHANGED <<granted, cache, seenFile, told>>
PullWritten(i) ==
  /\ At(i, {"pull"}, "write") /\ OpGoes(i, "pulled")
  /\ cache' = cache \cup {op[i].of}
  /\ UNCHANGED <<granted, seenFile, list, told>>

(* The owner deletes, a member leaves: the cloud first, then the cache,    *)
(* then the list, which is loaded again.                                   *)
Removes(i, s) ==
  /\ s \in list.cached \cup list.remote
  /\ OpBegins(i, "remove", s, "api")
  /\ told' = [told EXCEPT !.pulledAcross = Across({"pull"}, s)]
  /\ UNCHANGED <<granted, cache, seenFile, list>>

(* Of a sandbox that is gone both succeed; a member's grant may be refused.*)
RemoveServed(i, ok) ==
  /\ At(i, {"remove"}, "api")
  /\ IF ok THEN OpGoes(i, "rm") /\ granted' = granted \ {op[i].of}
     ELSE OpGoes(i, "refused") /\ UNCHANGED granted
  /\ UNCHANGED <<cache, seenFile, list, told>>

(* Mutation: the cache of one's own is kept.                               *)
Emptied_Kept(s) == IF s \in Owned THEN cache ELSE cache \ {s}
Emptied(s) == cache \ {s}

CacheRemoved(i) ==
  /\ At(i, {"remove"}, "rm") /\ OpGoes(i, "removed")
  /\ cache' = Emptied(op[i].of)
  /\ told' = [told EXCEPT !.deleted = @ \cup {op[i].of}]
  /\ UNCHANGED <<granted, seenFile, list>>
RemoveAnswered(i) ==
  LET s == op[i].of IN
  /\ op[i].kind = "remove"
  /\ \/ /\ op[i].pc = "removed"
        /\ list' = Loading([list EXCEPT !.cached = @ \ {s}, !.remote = @ \ {s}])
        /\ LoadBegins(i, [NoOp EXCEPT !.kind = "load"])
     \/ op[i].pc = "refused" /\ list' = [list EXCEPT !.error = TRUE] /\ OpEnds(i)
  /\ UNCHANGED <<granted, cache, seenFile, told>>

(* Marking as seen: what was pulled, or all that is remote.  The sidecar   *)
(* reads the file, and writes it whole: ids it could not read are gone.    *)
PulledIsSeen(i) ==
  /\ At(i, {"pull"}, "pulled")
  /\ IF op[i].of \in list.seen
     THEN LoadBegins(i, op[i]) /\ list' = Loading(list)
     ELSE OpGoes(i, "mark") /\ UNCHANGED list
  /\ UNCHANGED <<granted, cache, seenFile, told>>
MarksAll(i) ==
  /\ list.remote \ list.seen # {}
  /\ FreeOp(i)
  /\ op' = [op EXCEPT ![i] = [NoOp EXCEPT !.kind = "markAll", !.pc = "mark", !.remote = list.remote]]
  /\ UNCHANGED <<granted, cache, seenFile, list, told>>
Marked(i) == IF op[i].kind = "pull" THEN {op[i].of} ELSE op[i].remote

SeenRead(i, readable) ==
  /\ op[i].pc = "mark"
  /\ op' = [op EXCEPT ![i].pc = "seen", ![i].seen = SeenIds(readable)]
  /\ told' = [told EXCEPT !.lostMark = @ \/ \E j \in Pending : op[j].pc = "seen",
                          !.seen = IF readable THEN @ ELSE {}]
  /\ UNCHANGED <<granted, cache, seenFile, list>>
SeenWritten(i) ==
  LET l == [list EXCEPT !.seen = @ \cup Marked(i)] IN
  /\ op[i].pc = "seen"
  /\ seenFile' = op[i].seen \cup Marked(i)
  /\ told' = [told EXCEPT !.seen = @ \cup Marked(i)]
  /\ IF op[i].kind = "pull" THEN LoadBegins(i, op[i]) /\ list' = Loading(l)
     ELSE OpEnds(i) /\ list' = l
  /\ UNCHANGED <<granted, cache>>
(* The call fails; a write that does may leave the file cut short.         *)
SeenFails(i) ==
  /\ op[i].pc \in {"mark", "seen"}
  /\ \/ UNCHANGED <<seenFile, told>>
     \/ op[i].pc = "seen" /\ seenFile' = {} /\ told' = [told EXCEPT !.seen = {}]
  /\ IF op[i].kind = "pull" THEN LoadBegins(i, op[i]) /\ list' = Loading(list)
     ELSE OpEnds(i) /\ list' = [list EXCEPT !.error = TRUE]
  /\ UNCHANGED <<granted, cache>>

-----------------------------------------------------------------------------
(* The owner deletes or revokes elsewhere; the sidecar, asked once an open,*)
(* says so of a sandbox that is open, and the card goes.                   *)
GrantEnds(s) ==
  /\ s \in granted \ Owned /\ granted' = granted \ {s}
  /\ UNCHANGED <<cache, seenFile, list, op, told>>
RevokedHeard(s) ==
  /\ s \in list.cached \ granted
  /\ list' = [list EXCEPT !.cached = @ \ {s}, !.remote = @ \ {s}]
  /\ told' = [told EXCEPT !.newest = FALSE, !.revoked = @ \cup {s}]
  /\ UNCHANGED <<granted, cache, seenFile, op>>

ListNext ==
  \/ \E i \in Ops :
       \/ Loads(i) \/ LoadShown(i) \/ MarksAll(i)
       \/ \E ok \in BOOLEAN : \/ CacheListed(i, ok) \/ CloudListed(i, ok)
                              \/ PullAnswered(i, ok) \/ RemoveServed(i, ok)
       \/ \E readable \in BOOLEAN : SeenRead(i, readable)
       \/ PullWritten(i) \/ PulledIsSeen(i) \/ SeenWritten(i) \/ SeenFails(i)
       \/ CacheRemoved(i) \/ RemoveAnswered(i)
       \/ \E s \in Sandboxes : Pulls(i, s) \/ Removes(i, s)
  \/ \E s \in Sandboxes : GrantEnds(s) \/ RevokedHeard(s)

-----------------------------------------------------------------------------
(* Properties.                                                             *)

(* No sandbox has two cards: a key that comes twice breaks the list        *)
(* (routes/+page.svelte:378).                                              *)
CardsAreUnique == list.cached \cap list.remote = {}

(* A card turns while its sandbox is pulled, and only then.                *)
SpinnersPull == list.pulling = {op[i].of : i \in {j \in Pending : op[j].kind = "pull"}}

(* Once nothing is on its way the cards that say cached are the cache,     *)
(* unless an older load was shown last, or none could be.                  *)
CachedIsOnDisk == Pending = {} /\ told.newest => list.cached = cache

(* What the user deleted or left is not on disk, unless it was being       *)
(* pulled meanwhile.                                                       *)
RemovedIsGone == Pending = {} => told.deleted \cap cache \subseteq told.pulledAcross

(* What was marked stays marked as long as no mark of another crosses it   *)
(* and the file can be read and written: told.seen is what was marked      *)
(* since it last could not.                                                *)
SeenStaysSeen == told.lostMark \/ told.seen \subseteq seenFile

ListTellsTheTruth ==
  CardsAreUnique /\ SpinnersPull /\ CachedIsOnDisk /\ RemovedIsGone /\ SeenStaysSeen

(* Statements the code does not keep: a card that went with a revocation   *)
(* stays away; a load is shown as loading.                                 *)
RevokedStaysGone == list.cached \cap told.revoked = {}
LoadsAreShown == \A i \in Pending : op[i].kind = "load" => list.loading
=============================================================================
