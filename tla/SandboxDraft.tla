---------------------------- MODULE SandboxDraft ----------------------------
(***************************************************************************)
(* The draft of a sandbox in the publish wizard (publish-wizard.svelte.ts  *)
(* and the pages of workspace/publish): the source, the tables, the spec,  *)
(* the review with its dry run, the PL/SQL review, and the build of the    *)
(* last page, up to the file that SandboxPublish uploads.                  *)
(*                                                                         *)
(* A page is made when its step is entered and destroyed when it is left;  *)
(* the wizard's store outlives the pages, and so do their calls.  What the *)
(* calls answer is what SandboxBuild shows their walks to compute, on a    *)
(* schema that does not change.  Recipients, the days to live and the      *)
(* masks chosen for columns change nothing here.                           *)
(***************************************************************************)
EXTENDS SandboxBuild

CONSTANTS
  Schemas,      \* the schema of each connection, connections being 1, 2, ..
  Levels,       \* levels of PII detection among those the user tries
  MaxEdits,     \* bound: changes to the draft, the first source and its name aside
  MaxCalls      \* bound: dry runs and discoveries, together

VARIABLES
  w,            \* PublishWizardState
  checking,     \* the connection whose credentials are checked, or 0
  pane,         \* the list of tables of the present page
  lists,        \* lists of tables that were asked for
  asked,        \* the closure of the picks is waited for
  dries,        \* dry runs under way
  finds,        \* discoveries under way
  past          \* history: see NoPast

draftVars == <<w, checking, pane, lists, asked, dries, finds, past>>

Conns == DOMAIN Schemas
At(c) == Schemas[c]

NoReview == [status |-> "idle", of |-> <<>>]
NoPlsql == [status |-> "idle", found |-> {}, out |-> {}]
NoPublish == [phase |-> "idle", file |-> {}]
NoTables == [picks |-> {}, cut |-> {}, closure |-> {}, dropped |-> {}, added |-> {}]

Fresh ==
  [step |-> 1, conn |-> 0, ready |-> FALSE, tables |-> NoTables, shown |-> 0,
   depth |-> 2, level |-> 2, named |-> FALSE,
   review |-> NoReview, plsql |-> NoPlsql, publish |-> NoPublish]

(* lost: the closure may not be of the picks; late: the review is of a     *)
(* page that was left; jumped: the last page led straight to the tables.   *)
NoPast == [edits |-> 0, calls |-> 0, lost |-> FALSE, late |-> FALSE, jumped |-> FALSE]

DraftInit ==
  /\ w = Fresh /\ checking = 0 /\ pane = "none"
  /\ lists = {} /\ asked = FALSE /\ dries = {} /\ finds = {}
  /\ past = NoPast

Edited == past.edits < MaxEdits /\ past' = [past EXCEPT !.edits = @ + 1]

(* What buildSandbox is asked for, dry or not.                             *)
Draft(d) == [conn |-> d.conn, picks |-> d.tables.picks, cut |-> d.tables.cut,
             depth |-> d.depth, level |-> d.level]

ReachOf(d) == Reach(At(d.conn).refs, d.picks, d.depth)
ObjectsOf(c, tables) == Dependents(At(c).uses, tables, MaxDepth)
CanBuild(d) == ReachOf(d) \cap At(d.conn).fatal = {}

(* effectiveTables: what the pages list.                                   *)
Listed(t) == (t.picks \cup t.closure \cup t.added) \ t.dropped

-----------------------------------------------------------------------------
(* The source.                                                             *)

SourceSet(c) ==
  IF w.conn = c THEN [w EXCEPT !.ready = FALSE]
  ELSE [w EXCEPT !.conn = c, !.ready = FALSE, !.tables = NoTables, !.shown = 0,
                 !.review = NoReview, !.plsql = NoPlsql, !.publish = NoPublish]

(* A row of the list of connections; the rows wait while one is checked.   *)
SourcePicked(c) ==
  /\ w.step = 1 /\ checking = 0
  /\ w' = SourceSet(c) /\ checking' = c
  /\ \/ w.conn = c /\ UNCHANGED past
     \/ w.conn = 0 /\ UNCHANGED past
     \/ /\ w.conn \notin {0, c} /\ past.edits < MaxEdits
        /\ past' = [past EXCEPT !.edits = @ + 1, !.lost = FALSE, !.late = FALSE, !.jumped = FALSE]
  /\ UNCHANGED <<pane, lists, asked, dries, finds>>

SourceChecked(ok) ==
  /\ checking # 0 /\ checking' = 0
  /\ w' = [w EXCEPT !.ready = ok]
  /\ UNCHANGED <<pane, lists, asked, dries, finds, past>>

-----------------------------------------------------------------------------
(* The steps.                                                              *)

CanAdvance ==
  CASE w.step = 1 -> w.conn # 0 /\ w.ready
    [] w.step = 2 -> w.tables.picks # {}
    [] w.step = 3 -> w.named
    [] w.step = 4 -> w.review.status = "ok"
    [] w.step = 5 -> w.plsql.status = "ok" \/ w.plsql.found = {}
    [] w.step = 6 -> FALSE

(* The page of the step d.step is made, and asks what it shows: the tables *)
(* and their closure, a dry run if the review is idle, the discovery if    *)
(* there is none, and the build.  The closure the page before waited for   *)
(* is given up; its other calls go on without it.                          *)
Entering(d, hist) ==
  LET s == d.step
      dry == s = 4 /\ d.review.status = "idle"
      find == s = 5 /\ d.plsql.status # "ok"
  IN /\ dry \/ find => past.calls < MaxCalls
     /\ w' = [d EXCEPT !.tables.closure = IF s = 2 /\ d.tables.picks = {} THEN {} ELSE @,
                       !.review.status = IF dry THEN "running" ELSE @,
                       !.plsql.status = IF find THEN "running" ELSE @,
                       !.publish.phase = IF s = 6 THEN "build" ELSE @]
     /\ pane' = IF s = 2 THEN "loading" ELSE "none"
     /\ asked' = (s = 2 /\ d.tables.picks # {})
     /\ lists' = {[l EXCEPT !.here = FALSE] : l \in lists}
                   \cup (IF s = 2 THEN {[conn |-> d.conn, here |-> TRUE]} ELSE {})
     /\ dries' = {[r EXCEPT !.here = FALSE] : r \in dries}
                   \cup (IF dry THEN {[of |-> Draft(d), here |-> TRUE]} ELSE {})
     /\ finds' = finds \cup (IF find THEN {[n |-> past.calls, conn |-> d.conn, tables |-> Listed(d.tables)]}
                             ELSE {})
     /\ past' = [hist EXCEPT !.calls = IF dry \/ find THEN @ + 1 ELSE @]
     /\ UNCHANGED checking

Went == [past EXCEPT !.lost = @ \/ asked]

WentOn ==
  /\ CanAdvance
  /\ Entering([w EXCEPT !.step = @ + 1], Went)

(* Mutations: a way back keeps the review; one keeps the built file.       *)
Backed_KeepsReview ==
  [w EXCEPT !.step = @ - 1,
            !.plsql = IF w.step = 5 THEN NoPlsql ELSE @,
            !.publish = IF w.step = 6 THEN NoPublish ELSE @]
Backed_KeepsFile ==
  [w EXCEPT !.step = @ - 1,
            !.review = IF w.step = 4 THEN NoReview ELSE @,
            !.plsql = IF w.step = 5 THEN NoPlsql ELSE @]

Backed ==
  [w EXCEPT !.step = @ - 1,
            !.review = IF w.step = 4 THEN NoReview ELSE @,
            !.plsql = IF w.step = 5 THEN NoPlsql ELSE @,
            !.publish = IF w.step = 6 THEN NoPublish ELSE @]

WentBack ==
  /\ w.step > 1
  /\ Entering(Backed, IF w.step = 4 THEN [Went EXCEPT !.late = FALSE, !.jumped = FALSE] ELSE Went)

(* "Back to tables" of the banner of a build that failed.                  *)
JumpedToTables ==
  /\ w.step = 6 /\ w.publish.phase = "error"
  /\ Entering([w EXCEPT !.step = 2, !.publish = NoPublish], [past EXCEPT !.jumped = TRUE])

-----------------------------------------------------------------------------
(* The tables.                                                             *)

(* The list of tables, for whatever page asked.                            *)
ListAnswered(l, ok) ==
  /\ l \in lists /\ lists' = lists \ {l}
  /\ w' = IF ok THEN [w EXCEPT !.shown = l.conn] ELSE w
  /\ pane' = IF ~l.here THEN pane ELSE IF ok THEN "list" ELSE "error"
  /\ UNCHANGED <<checking, asked, dries, finds, past>>

(* The effect of the page runs again when the picks or the depth change:   *)
(* an answer for what they were is dropped.                                *)
Repicked(d) ==
  /\ w.step = 2 /\ past.edits < MaxEdits
  /\ w' = IF d.tables.picks = {} THEN [d EXCEPT !.tables.closure = {}] ELSE d
  /\ asked' = (d.tables.picks # {})
  /\ past' = [past EXCEPT !.edits = @ + 1, !.lost = @ /\ d.tables.picks # {}]
  /\ UNCHANGED <<checking, pane, lists, dries, finds>>

TableToggled(t) ==
  \/ /\ t \in w.tables.picks
     /\ pane = "list" \/ t \notin w.tables.dropped
     /\ Repicked([w EXCEPT !.tables.picks = @ \ {t}, !.tables.cut = @ \ {t}])
  \/ /\ t \notin w.tables.picks /\ pane = "list" /\ t \in At(w.shown).tables
     /\ Repicked([w EXCEPT !.tables.picks = @ \cup {t}])

(* Mutation: the effect does not depend on the depth.                      *)
DepthSet_Unseen(n) ==
  /\ w.step = 2 /\ n # w.depth /\ Edited
  /\ w' = [w EXCEPT !.depth = n]
  /\ UNCHANGED <<checking, pane, lists, asked, dries, finds>>

DepthSet(n) == n # w.depth /\ Repicked([w EXCEPT !.depth = n])

(* Other changes of the page: a filter on the rows of a picked table, the  *)
(* exclusion of a table the closure has and its return, a table added by   *)
(* hand.                                                                   *)
TablesEdited(t) ==
  /\ w.step = 2 /\ Edited
  /\ LET shown == Listed(w.tables)
         rows == w.tables.closure \ w.tables.picks
     IN \/ /\ t \in w.tables.picks \cap shown
           /\ w' = [w EXCEPT !.tables.cut = (@ \cup {t}) \ (@ \cap {t})]
        \/ t \in rows \cap shown /\ w' = [w EXCEPT !.tables.dropped = @ \cup {t}]
        \/ t \in w.tables.closure \cap w.tables.dropped /\ w' = [w EXCEPT !.tables.dropped = @ \ {t}]
        \/ /\ w.shown # 0 /\ t \in At(w.shown).tables \ shown
           /\ w' = [w EXCEPT !.tables.added = @ \cup {t}]
        \/ t \in (w.tables.added \cap shown) \ (rows \cup w.tables.picks)
           /\ w' = [w EXCEPT !.tables.added = @ \ {t}]
  /\ UNCHANGED <<checking, pane, lists, asked, dries, finds>>

(* The closure without the picks; an error keeps the one before.           *)
ClosureAnswered(ok) ==
  /\ asked /\ asked' = FALSE
  /\ w' = IF ok THEN [w EXCEPT !.tables.closure = ReachOf(Draft(w)) \ w.tables.picks] ELSE w
  /\ past' = [past EXCEPT !.lost = ~ok]
  /\ UNCHANGED <<checking, pane, lists, dries, finds>>

-----------------------------------------------------------------------------
(* The spec: its name, and the level of PII detection.                     *)
SpecEdited ==
  /\ w.step = 3
  /\ \/ ~w.named /\ w' = [w EXCEPT !.named = TRUE] /\ UNCHANGED past
     \/ \E l \in Levels \ {w.level} : w' = [w EXCEPT !.level = l] /\ Edited
  /\ UNCHANGED <<checking, pane, lists, asked, dries, finds>>

-----------------------------------------------------------------------------
(* The review.                                                             *)

(* "Re-scan": the answers this page still waits for are dropped.           *)
Rescanned ==
  /\ w.step = 4 /\ w.review.status \in {"ok", "error"} /\ past.calls < MaxCalls
  /\ w' = [w EXCEPT !.review.status = "running"]
  /\ dries' = {d \in dries : ~d.here} \cup {[of |-> Draft(w), here |-> TRUE]}
  /\ past' = [past EXCEPT !.calls = @ + 1]
  /\ UNCHANGED <<checking, pane, lists, asked, finds>>

(* The token that would drop a late answer is of the page that asked.      *)
DryAnswered(d, ok) ==
  /\ d \in dries /\ dries' = dries \ {d}
  /\ ok => CanBuild(d.of)
  /\ w' = IF ok THEN [w EXCEPT !.review = [status |-> "ok", of |-> d.of]]
          ELSE [w EXCEPT !.review.status = "error"]
  /\ past' = IF ok THEN [past EXCEPT !.late = ~d.here, !.jumped = @ /\ ~d.here] ELSE past
  /\ UNCHANGED <<checking, pane, lists, asked, finds>>

-----------------------------------------------------------------------------
(* The PL/SQL review.                                                      *)

(* Mutation: the answer leaves the exclusions as they are.                 *)
Found_KeepsOut(objects) == [w EXCEPT !.plsql.status = "ok", !.plsql.found = objects]
Found(objects) == [w EXCEPT !.plsql = [status |-> "ok", found |-> objects, out |-> {}]]

(* Nothing drops a late answer.                                            *)
FindAnswered(f, ok) ==
  /\ f \in finds /\ finds' = finds \ {f}
  /\ w' = IF ok THEN Found(ObjectsOf(f.conn, f.tables)) ELSE [w EXCEPT !.plsql.status = "error"]
  /\ UNCHANGED <<checking, pane, lists, asked, dries, past>>

(* A tick; "select" and "unselect" set those of a kind.                    *)
ObjectsTicked(out) ==
  /\ w.step = 5 /\ w.plsql.status = "ok" /\ out \subseteq w.plsql.found /\ out # w.plsql.out
  /\ Edited
  /\ w' = [w EXCEPT !.plsql.out = out]
  /\ UNCHANGED <<checking, pane, lists, asked, dries, finds>>

-----------------------------------------------------------------------------
(* The build, and what comes of its file.                                  *)

FileOf(d) ==
  [of |-> Draft(d), tables |-> ReachOf(Draft(d)),
   objects |-> ObjectsOf(d.conn, ReachOf(Draft(d))) \ d.plsql.out]

(* The answer of a build whose page was left changes nothing.              *)
BuildAnswered(ok) ==
  /\ w.step = 6 /\ w.publish.phase = "build"
  /\ ok => CanBuild(Draft(w)) /\ ReachOf(Draft(w)) \subseteq At(w.conn).tables
  /\ w' = [w EXCEPT !.publish = IF ok THEN [phase |-> "upload", file |-> {FileOf(w)}]
                                ELSE [phase |-> "error", file |-> {}]]
  /\ UNCHANGED <<checking, pane, lists, asked, dries, finds, past>>

UploadAnswered(ok) ==
  /\ w.step = 6 /\ w.publish.phase = "upload"
  /\ w' = [w EXCEPT !.publish = IF ok THEN [phase |-> "done", file |-> {}]
                                ELSE [phase |-> "error", file |-> w.publish.file]]
  /\ UNCHANGED <<checking, pane, lists, asked, dries, finds, past>>

(* From the build, or from the upload of a file that was kept.             *)
TriedAgain ==
  /\ w.step = 6 /\ w.publish.phase = "error"
  /\ \/ w' = [w EXCEPT !.publish = [phase |-> "build", file |-> {}]]
     \/ w.publish.file # {} /\ w' = [w EXCEPT !.publish.phase = "upload"]
  /\ UNCHANGED <<checking, pane, lists, asked, dries, finds, past>>

(* "Cancel", and "Back" on the first page; the next visit makes another    *)
(* wizard, which the answers to this one do not reach.                     *)
WizardLeft ==
  /\ w' = Fresh /\ checking' = 0 /\ pane' = "none"
  /\ lists' = {} /\ asked' = FALSE /\ dries' = {} /\ finds' = {}
  /\ past' = NoPast

-----------------------------------------------------------------------------
DraftNext ==
  \/ \E c \in Conns : SourcePicked(c)
  \/ WentOn \/ WentBack \/ JumpedToTables
  \/ \E t \in Tables : TableToggled(t) \/ TablesEdited(t)
  \/ \E n \in 1..2 : DepthSet(n)
  \/ SpecEdited \/ Rescanned
  \/ \E out \in SUBSET w.plsql.found : ObjectsTicked(out)
  \/ \E ok \in BOOLEAN :
       \/ SourceChecked(ok) \/ ClosureAnswered(ok)
       \/ BuildAnswered(ok) \/ UploadAnswered(ok)
       \/ \E l \in lists : ListAnswered(l, ok)
       \/ \E d \in dries : DryAnswered(d, ok)
       \/ \E f \in finds : FindAnswered(f, ok)
  \/ TriedAgain \/ WizardLeft

-----------------------------------------------------------------------------
(* SAFETY  What is published was reviewed: from the review on, one that is *)
(* "ok" is of the draft as it is (publish-wizard.svelte.ts, back and       *)
(* setSource), unless its answer came after its page was left, or the last *)
(* page led straight back to the tables.                                   *)
ReviewIsOfDraft ==
  w.step >= 4 /\ w.review.status = "ok" /\ ~past.late /\ ~past.jumped => w.review.of = Draft(w)

(* SAFETY  Past the page of the tables, the list the pages show is what    *)
(* the walk reaches, with the tables added and without those excluded      *)
(* (PublishStepTables.svelte): whatever order the closures were asked and  *)
(* answered in, if the last one did arrive.                                *)
ListIsReached ==
  w.step >= 3 /\ ~past.lost =>
    Listed(w.tables) = (ReachOf(Draft(w)) \cup w.tables.added) \ w.tables.dropped

(* SAFETY  The file an upload goes on with was built from the draft as it  *)
(* is, and without the objects that are excluded (lastBuildOutPath).       *)
FileIsOfDraft ==
  \A f \in w.publish.file :
    w.step = 6 /\ f.of = Draft(w) /\ f.objects \cap w.plsql.out = {}

(* SAFETY  What is excluded is among what was discovered: the count of     *)
(* selected objects is one (getEffectiveSelectedCount).                    *)
OutIsOfFound == w.plsql.out \subseteq w.plsql.found

DraftsAreTrue == ReviewIsOfDraft /\ ListIsReached /\ FileIsOfDraft /\ OutIsOfFound

(* CLAIM (PublishStepReview.svelte:33-36)  Late answers of dry runs are    *)
(* dropped "when the user has navigated away".                             *)
LateReviewsAreDropped ==
  w.step >= 4 /\ w.review.status = "ok" /\ ~past.jumped => w.review.of = Draft(w)

(* CLAIM (publish-wizard.svelte.ts:171)  The user does not publish         *)
(* "against a stale PII suggestion list".                                  *)
ReviewIsNeverStale ==
  w.step >= 4 /\ w.review.status = "ok" /\ ~past.late => w.review.of = Draft(w)

(* CLAIM (GoingToSandboxList.svelte:75, PublishStepTables.svelte:71)  A    *)
(* table that is excluded does not go to the sandbox, and members lose it. *)
ExcludedStayHome == \A f \in w.publish.file : f.tables \cap w.tables.dropped = {}

(* CLAIM (AddManualPicker.svelte:36)  A table that is added goes there.    *)
AddedTablesGo == \A f \in w.publish.file : w.tables.added \ w.tables.dropped \subseteq f.tables

(* CLAIM (sandbox.ts:425)  The PL/SQL objects are presented "before the    *)
(* build runs".                                                            *)
ObjectsWerePresented == \A f \in w.publish.file : f.objects \subseteq w.plsql.found
=============================================================================
