--------------------------- MODULE ObjectVersions ---------------------------
(***************************************************************************)
(* The history of database objects (persistence/object_versions.rs): every *)
(* text captured of an object is a commit of a local git repository and a  *)
(* row of the application's database that names the commit; a row may be   *)
(* labelled, and a label is also a git tag.                                *)
(*                                                                         *)
(* A capture and a label run under the mutex of the connection service,    *)
(* but they touch the index, the commits, the tags and the rows one after  *)
(* the other, and an error or the end of the process may come in between.  *)
(***************************************************************************)
EXTENDS Naturals, Sequences, SequencesExt

CONSTANTS
  Objects,    \* the objects of one connection
  Text,       \* what is captured of them
  Labels,     \* the labels a user may give
  BadLabels,  \* those that are no name for a git reference
  MaxCommits, \* bound
  None

VARIABLES
  rows,    \* the rows of object_versions, in the order of their ids
  commits, \* the commits of the branch: the text of every object
  index,   \* the repository's index
  tags,    \* tags[o, l]: the commit tagged for label l of object o, 0: no tag
  spoilt   \* (history) the objects, and the rows, an operation stopped at,
           \* and the tags that could not be deleted

versionVars == <<rows, commits, index, tags, spoilt>>

VersionsInit ==
  /\ rows = <<>> /\ commits = <<>>
  /\ index = [o \in Objects |-> None]
  /\ tags = [p \in Objects \X Labels |-> 0]
  /\ spoilt = [objects |-> {}, rows |-> {}, tags |-> {}]

RowsOf(o) == {i \in DOMAIN rows : rows[i].object = o}
Newest(i, o) == i \in RowsOf(o) /\ \A j \in RowsOf(o) : j <= i

(* last_ddl_hash: whether the newest row of the object has this text.      *)
Known(o, x) == \E i \in RowsOf(o) : Newest(i, o) /\ rows[i].text = x

(* Mutation: the file is committed without being added to the index.       *)
Staged_Nothing(o, x) == index
Staged(o, x) == [index EXCEPT ![o] = x]

(* A text is captured: `stop` says after which step the capture ended, by  *)
(* an error, which is not told to anyone, or with the process.  truth:     *)
(* whether the text is what the reason says (see EditorDocument).          *)
Captured(o, x, reason, truth, stop) ==
  /\ Len(commits) < MaxCommits
  /\ IF Known(o, x)
       THEN stop = "none" /\ UNCHANGED versionVars
       ELSE /\ index' = IF stop = "write" THEN index ELSE Staged(o, x)
            /\ commits' = IF stop \in {"write", "commit"} THEN commits
                          ELSE Append(commits, index')
            /\ rows' = IF stop # "none" THEN rows
                       ELSE Append(rows, [object |-> o, text |-> x, reason |-> reason,
                                          commit |-> Len(commits'), label |-> None,
                                          truth |-> truth])
            /\ spoilt' = IF stop = "none"
                           THEN [spoilt EXCEPT !.objects = @ \ {o}]
                           ELSE [spoilt EXCEPT !.objects = @ \cup {o}]
            /\ UNCHANGED tags

Untagged(o, l) == IF l = None THEN tags ELSE [tags EXCEPT ![<<o, l>>] = 0]

Shares(k, i) ==
  rows[k].object = rows[i].object /\ rows[k].label = rows[i].label /\ rows[i].label # None

(* A label is set or cleared (l = None): the old label's tag is deleted,   *)
(* or kept when that fails, which is not looked at; the row is changed,    *)
(* and a tag is made unless there is one by its name or it cannot be a     *)
(* name.                                                                   *)
Labelled(i, l, stop, kept) ==
  /\ i \in DOMAIN rows
  /\ LET o == rows[i].object
         p == <<o, rows[i].label>>
         old == IF kept THEN tags ELSE Untagged(o, rows[i].label)
         taken == l # None /\ (l \in BadLabels \/ old[<<o, l>>] # 0)
     IN /\ kept => rows[i].label # None /\ tags[p] # 0
        /\ rows' = IF stop = "delete" THEN rows ELSE [rows EXCEPT ![i].label = l]
        /\ tags' = IF stop # "none" \/ l = None \/ taken THEN old
                   ELSE [old EXCEPT ![<<o, l>>] = rows[i].commit]
        /\ spoilt' = [spoilt EXCEPT !.rows =
                        (IF stop = "none" /\ ~taken THEN @ \ {i} ELSE @ \cup {i})
                          \cup {k \in DOMAIN rows \ {i} : Shares(k, i)},
                                    !.tags = IF kept THEN @ \cup {p} ELSE @ \ {p}]
  /\ UNCHANGED <<commits, index>>

-----------------------------------------------------------------------------
(* Properties.                                                             *)

(* Loading a version gives the text its row stands for, whatever was       *)
(* committed for other objects and whatever stopped before                 *)
(* (object_versions.rs:339 reads the row's commit, 285 adds one path).     *)
RowsAreCommits ==
  \A i \in DOMAIN rows :
    /\ commits[rows[i].commit][rows[i].object] = rows[i].text
    /\ \A j \in DOMAIN rows : i < j => rows[i].commit < rows[j].commit

(* The branch, which a push sends on, ends with what the newest row of an  *)
(* object says, unless the object's last capture stopped half-way: then    *)
(* the duplicate check, which looks at the rows, can keep it behind.       *)
BranchFollowsRows ==
  \A o \in Objects \ spoilt.objects : \A i \in RowsOf(o) :
    Newest(i, o) => Last(commits)[o] = rows[i].text

(* A tag is on a row's commit and the row has its label, unless a deletion *)
(* of the tag failed (389 drops the error).  A labelled row has its tag,   *)
(* unless making it stopped or failed, or another row that had been given  *)
(* the same label was labelled anew (389 deletes the tag by its name,      *)
(* whichever commit it is on).                                             *)
TagsAreLabels ==
  /\ \A p \in DOMAIN tags \ spoilt.tags : tags[p] # 0 =>
       \E i \in DOMAIN rows : /\ rows[i].object = p[1] /\ rows[i].label = p[2]
                              /\ rows[i].commit = tags[p]
  /\ \A i \in DOMAIN rows : rows[i].label # None /\ i \notin spoilt.rows =>
       tags[<<rows[i].object, rows[i].label>>] = rows[i].commit
=============================================================================
