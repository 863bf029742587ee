--------------------------- MODULE EditorDocument ---------------------------
(***************************************************************************)
(* The text of an editor tab and the two places it is kept in: the file    *)
(* it is saved to (stores/sql-editor.svelte.ts, sql-files.ts) and, for the *)
(* source of a database object, the object's history (ObjectVersions).     *)
(*                                                                         *)
(* The tab is the one of a package: its objects are the specification and  *)
(* the body, one of which is shown.  The file is the body's.               *)
(*                                                                         *)
(* Saves, compilations and captures are calls: what comes after the answer *)
(* looks at the tab as it is by then.                                      *)
(***************************************************************************)
EXTENDS ObjectVersions, FiniteSets

CONSTANTS
  Body,       \* the object whose text the tab's file holds
  Broken,     \* the texts that do not compile
  MaxSaves, MaxRuns, MaxEdits, MaxOpens \* bounds

VARIABLES
  doc,      \* the tab: the texts, the part shown, and the state of its file
  disk,     \* the file's content; None: no file, or part of a text
  saves,    \* the saves under way
  runs,     \* the compilations under way
  captures, \* the captures asked for
  source,   \* the objects' source in the database, what compiled so far, and
            \* whether they are the session's own, by their names in capitals
  did       \* how many saves, runs, edits and openings there have been

docVars == <<doc, disk, saves, runs, captures, source, did>>
allVars == <<docVars, versionVars>>

(* raced: (history) whether the last save answered was overlapped by an    *)
(* edit or by another save, or one failed since with part of it written.   *)
Fresh(texts) == [text |-> texts, shown |-> Body, file |-> FALSE, saved |-> None,
                 dirty |-> FALSE, raced |-> FALSE]

DocInit ==
  /\ VersionsInit
  /\ \E x \in Text \ Broken :
       LET texts == [o \in Objects |-> x]
       IN /\ doc = Fresh(texts) /\ disk = None
          /\ \E own \in BOOLEAN : source = [text |-> texts, compiled |-> {}, own |-> own]
          /\ captures = {[object |-> o, text |-> x, reason |-> "baseline",
                          truth |-> TRUE] : o \in Objects}
  /\ saves = {} /\ runs = {}
  /\ did = [saves |-> 0, runs |-> 0, edits |-> 0, opens |-> 0]

Did(what) == did' = [did EXCEPT ![what] = @ + 1]

(* The text, or which text is shown, is not what a call took it to be.     *)
Disturbs(calls) == {[c EXCEPT !.raced = TRUE] : c \in calls}
Misses(calls) == {[s EXCEPT !.raced = @ \/ ~s.as] : s \in calls}

-----------------------------------------------------------------------------
(* The tab.                                                                *)

(* updateSql and updatePackageSpec: only the body's text counts as dirty.  *)
Edited(x) ==
  /\ did.edits < MaxEdits /\ x # doc.text[doc.shown]
  /\ doc' = [doc EXCEPT !.text[doc.shown] = x,
                        !.dirty = IF doc.shown = Body
                                    THEN doc.saved # None /\ doc.saved # x ELSE @]
  /\ saves' = IF doc.shown = Body THEN Misses(saves) ELSE saves
  /\ runs' = Disturbs(runs)
  /\ Did("edits")
  /\ UNCHANGED <<disk, captures, source, versionVars>>

PartShown(o) ==
  /\ o # doc.shown
  /\ doc' = [doc EXCEPT !.shown = o]
  /\ runs' = Disturbs(runs)
  /\ UNCHANGED <<disk, saves, captures, source, did, versionVars>>

(* The object is opened again from the tree: openWithDdl finds the tab by  *)
(* its title and puts the source in it, whatever is there.                 *)
ObjectOpened ==
  /\ did.opens < MaxOpens
  /\ doc' = Fresh(source.text)
  /\ captures' = captures \cup {[object |-> o, text |-> source.text[o],
                                 reason |-> "baseline", truth |-> TRUE] : o \in Objects}
  /\ saves' = Misses(saves) /\ runs' = Disturbs(runs)
  /\ Did("opens")
  /\ UNCHANGED <<disk, source, versionVars>>

-----------------------------------------------------------------------------
(* Its file.                                                               *)

(* saveActive and saveAsActive.  A tab without a file is saved as; one     *)
(* that has a file is not written unless it is dirty.                      *)
SaveStarted(as) ==
  /\ did.saves < MaxSaves
  /\ ~as => doc.file /\ doc.dirty
  /\ saves' = Disturbs(saves)
                \cup {[n |-> did.saves + 1, as |-> as, text |-> doc.text[Body],
                       raced |-> saves # {}, written |-> "no"]}
  /\ Did("saves")
  /\ UNCHANGED <<doc, disk, runs, captures, source, versionVars>>

(* The file is emptied and written, or the write fails half-way.           *)
Written(s, how) ==
  /\ s \in saves /\ s.written = "no"
  /\ disk' = IF how = "whole" THEN s.text ELSE None
  /\ saves' = (saves \ {s}) \cup {[s EXCEPT !.written = how]}
  /\ UNCHANGED <<doc, runs, captures, source, did, versionVars>>

(* Mutation: a save as takes the tab for clean as well.                    *)
DirtyAfter_Never(s) == FALSE

(* A save as compares with the text by then; a save takes it for clean.    *)
DirtyAfter(s) == s.as /\ doc.text[Body] # s.text

(* A save that fails is a toast.                                           *)
SaveAnswered(s) ==
  /\ s \in saves
  /\ saves' = saves \ {s}
  /\ doc' = IF s.written # "whole" THEN [doc EXCEPT !.raced = @ \/ s.written = "part"]
            ELSE [doc EXCEPT !.file = @ \/ s.as, !.saved = s.text,
                             !.dirty = DirtyAfter(s),
                             !.raced = s.raced]
  /\ UNCHANGED <<disk, runs, captures, source, did, versionVars>>

-----------------------------------------------------------------------------
(* Compilations.                                                           *)

(* A run of the part shown, or (whole = FALSE) of another CREATE statement *)
(* in it, at the cursor.                                                   *)
RunStarted(whole) ==
  /\ did.runs < MaxRuns
  /\ runs' = runs \cup {[n |-> did.runs + 1, object |-> doc.shown,
                         text |-> doc.text[doc.shown], whole |-> whole,
                         executed |-> FALSE, raced |-> ~whole]}
  /\ Did("runs")
  /\ UNCHANGED <<doc, disk, saves, captures, source, versionVars>>

(* A run that is served after a later one puts its own text in the place   *)
(* of that one's.                                                          *)
Overwrites(r, q) == r.whole /\ q.executed /\ q.object = r.object /\ q.text # r.text

Executed(r) ==
  /\ r \in runs /\ ~r.executed
  /\ source' = IF ~r.whole THEN source
               ELSE [own |-> source.own,
                     text |-> [source.text EXCEPT ![r.object] = r.text],
                     compiled |-> IF r.text \in Broken THEN source.compiled
                                  ELSE source.compiled \cup {<<r.object, r.text>>}]
  /\ runs' = {[q EXCEPT !.raced = @ \/ Overwrites(r, q)] : q \in runs \ {r}}
                \cup {[r EXCEPT !.executed = TRUE]}
  /\ UNCHANGED <<doc, disk, saves, captures, did, versionVars>>

(* Mutation: the errors of the compilation are not looked at.              *)
NoErrors_Always(r) == TRUE

(* compileErrorsGet asks USER_ERRORS for the object's errors, not for this *)
(* run's: it finds none of an object that is not the session's own, whose  *)
(* owner is not in the question, or of one by a quoted name, which is put  *)
(* in capitals.                                                            *)
NoErrors(r) == r.whole /\ source.own => source.text[r.object] \notin Broken

(* A compilation without errors is captured: the text that is shown, under *)
(* the name of the part that is shown.  With errors (none = FALSE), or     *)
(* those of a namesake, or without an answer, nothing is.                  *)
ErrorsAnswered(r, none) ==
  /\ r \in runs /\ r.executed
  /\ none => NoErrors(r)
  /\ runs' = runs \ {r}
  /\ captures' = IF none
                   THEN captures \cup {[object |-> doc.shown, text |-> doc.text[doc.shown],
                                        reason |-> "compile",
                                        truth |-> ~r.raced /\ source.own]}
                   ELSE captures
  /\ UNCHANGED <<doc, disk, saves, source, did, versionVars>>

-----------------------------------------------------------------------------
(* The history.                                                            *)

CaptureServed(c, stop) ==
  /\ c \in captures
  /\ captures' = captures \ {c}
  /\ Captured(c.object, c.text, c.reason, c.truth, stop)
  /\ UNCHANGED <<doc, disk, saves, runs, source, did>>

(* A label given in the list of versions.                                  *)
LabelServed(i, l, stop, kept) ==
  /\ Labelled(i, l, stop, kept)
  /\ UNCHANGED docVars

DocNext ==
  \/ \E x \in Text : Edited(x)
  \/ \E o \in Objects : PartShown(o)
  \/ ObjectOpened
  \/ \E as \in BOOLEAN : SaveStarted(as)
  \/ \E s \in saves : Written(s, "whole") \/ Written(s, "part") \/ SaveAnswered(s)
  \/ \E whole \in BOOLEAN : RunStarted(whole)
  \/ \E r \in runs : Executed(r) \/ \E none \in BOOLEAN : ErrorsAnswered(r, none)
  \/ \E c \in captures : \E stop \in {"none", "write", "commit", "insert"} :
       CaptureServed(c, stop)
  \/ \E i \in DOMAIN rows : \E l \in Labels \cup {None} :
       \E stop \in {"none", "delete", "update"}, kept \in BOOLEAN : LabelServed(i, l, stop, kept)

DocSpec == DocInit /\ [][DocNext]_allVars

-----------------------------------------------------------------------------
(* Properties.                                                             *)

(* A tab that says it is saved is: with no save under way, the file holds  *)
(* the text, unless the last save answered had been overlapped by an edit  *)
(* (sql-editor.svelte.ts:1269 clears the flag all the same) or by another  *)
(* save, or a save has failed since with part of it written                *)
(* (sql-files.ts:26 writes the file in place).                             *)
CleanMeansSaved ==
  saves = {} /\ doc.file /\ ~doc.dirty /\ ~doc.raced => disk = doc.text[Body]

(* A version captured as compiled is a text that compiled, and as that     *)
(* object, unless the tab was edited, the other part was shown, another    *)
(* statement was the one that ran, or an earlier run of the object was     *)
(* served after it (sql-editor.svelte.ts:860 reads the tab when the        *)
(* compile errors of the object have been answered), or the object is not  *)
(* one whose errors the question is about (850 drops its owner).           *)
CompiledVersionsCompiled ==
  \A i \in DOMAIN rows : rows[i].reason = "compile" /\ rows[i].truth =>
    <<rows[i].object, rows[i].text>> \in source.compiled
=============================================================================
