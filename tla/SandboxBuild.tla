---------------------------- MODULE SandboxBuild ----------------------------
(***************************************************************************)
(* The build of a sandbox (sidecar/src/sandbox/build.ts): from an Oracle   *)
(* schema to an encrypted .vsk file, or to the answer of a dry run.        *)
(*                                                                         *)
(* An action is a phase of buildSandbox, or one hop of its two walks: over *)
(* foreign keys (fk-walk.ts) and over dependencies (discoverPlsql.ts).     *)
(* Any phase may throw.  A table is a number, in the order of the names; a *)
(* PL/SQL object is named without its kind, a package and its body are one *)
(* object.  Rows, columns and types are only told apart as far as they     *)
(* decide: a table may have a column no file can hold, one that looks      *)
(* personal, or belong to another owner.                                   *)
(***************************************************************************)
EXTENDS Naturals, FiniteSets

CONSTANTS
  Tables,       \* tables that foreign keys name
  Objects,      \* PL/SQL objects and views
  MaxDepth      \* MAX_DEPTH of discoverPlsql (5 in the code)

VARIABLES
  base,         \* the Oracle schema
  spec,         \* SandboxBuildSpec
  at,           \* the phase the build is in, or how it ended
  link,         \* its Oracle connection
  walk,         \* tableDepths, the frontier, the hops made, the edges met
  deps,         \* discovered objects, each with what led to it; and so on
  suggested,    \* piiSuggestions: the tables they name
  keys,         \* the owner's key in the keychain; the content key
  disk          \* temporary files; the file at outPath

buildVars == <<base, spec, at, link, walk, deps, suggested, keys, disk>>

Touching(refs, S) == {e \in refs : e[1] \in S \/ e[2] \in S}
EndsOf(edges) == {e[1] : e \in edges} \cup {e[2] : e \in edges}

(* What the walks are for: the tables that at most n foreign keys separate *)
(* from those of S, and the objects that depend on those of S through at   *)
(* most n others.                                                          *)
Reach(refs, S, n) ==
  LET near[k \in 0..n] ==
        IF k = 0 THEN S ELSE near[k-1] \cup EndsOf(Touching(refs, near[k-1]))
  IN near[n]

Dependents(uses, S, n) ==
  LET found[k \in 0..n] ==
        IF k = 0 THEN {}
        ELSE {o \in Objects : \E x \in S \cup found[k-1] : <<o, x>> \in uses}
  IN found[n]

Unwalked == [depth |-> <<>>, frontier |-> {}, hop |-> 0, edges |-> {}]
Undiscovered == [from |-> <<>>, frontier |-> {}, hop |-> 0, kept |-> {}]

BuildInit(b, s, stored) ==
  /\ base = b /\ spec = s
  /\ at = "start" /\ link = "none"
  /\ walk = Unwalked /\ deps = Undiscovered /\ suggested = {}
  /\ keys = [stored |-> stored, content |-> "none"]
  /\ disk = [temp |-> {}, out |-> {}]

Seen == DOMAIN walk.depth
Wanted == DOMAIN deps.from \ spec.out

(* validateSpec, and the connection.                                       *)
Started ==
  /\ at = "start"
  /\ \/ at' = "ended" /\ UNCHANGED link
     \/ spec.primary # {} /\ at' = "introspect" /\ link' = "open"
  /\ UNCHANGED <<base, spec, walk, deps, suggested, keys, disk>>

Introspected ==
  /\ at = "introspect" /\ at' = "walk"
  /\ walk' = [Unwalked EXCEPT !.depth = [t \in spec.primary |-> 0], !.frontier = spec.primary]
  /\ UNCHANGED <<base, spec, link, deps, suggested, keys, disk>>

(* Mutation: only the tables a foreign key refers to are taken.            *)
FoundBy_Parents(edges) == {e[2] : e \in edges} \ Seen
FoundBy(edges) == EndsOf(edges) \ Seen

(* One query for both directions of the foreign keys at the frontier.      *)
Hopped ==
  /\ at = "walk" /\ walk.frontier # {} /\ walk.hop < spec.depth
  /\ LET edges == Touching(base.refs, walk.frontier)
         found == FoundBy(edges)
     IN walk' = [depth |-> [t \in Seen \cup found |->
                             IF t \in Seen THEN walk.depth[t] ELSE walk.hop + 1],
                 frontier |-> found,
                 hop |-> walk.hop + 1,
                 edges |-> walk.edges \cup edges]
  /\ UNCHANGED <<base, spec, at, link, deps, suggested, keys, disk>>

(* The added tables are introspected, and the types of all columns looked  *)
(* at: one that no file can hold ends the build.                           *)
Guarded ==
  /\ at = "walk" /\ (walk.frontier = {} \/ walk.hop = spec.depth)
  /\ at' = IF Seen \cap base.fatal = {} THEN "scan" ELSE "closing"
  /\ UNCHANGED <<base, spec, link, walk, deps, suggested, keys, disk>>

(* Level 2 alone looks for personal data.  A dry run ends here.            *)
Scanned ==
  /\ at = "scan"
  /\ suggested' = IF spec.level = 2 THEN Seen \cap base.personal ELSE {}
  /\ at' = IF spec.dry THEN "closing" ELSE "extract"
  /\ UNCHANGED <<base, spec, link, walk, deps, keys, disk>>

(* A table of another owner is looked for in the schema, and not found.    *)
Extracted ==
  /\ at = "extract" /\ Seen \cap base.foreign = {}
  /\ at' = "discover"
  /\ deps' = [Undiscovered EXCEPT !.frontier = Seen]
  /\ UNCHANGED <<base, spec, link, walk, suggested, keys, disk>>

Met_Tables(x) == x \in Seen \cap deps.frontier
Met(x) == x \in deps.frontier

(* One query for what depends on the frontier.                             *)
DepHopped ==
  /\ at = "discover" /\ deps.frontier # {} /\ deps.hop < MaxDepth
  /\ LET old == DOMAIN deps.from
         found == {o \in Objects \ old : \E x \in Tables \cup Objects : Met(x) /\ <<o, x>> \in base.uses}
     IN \E from \in [found -> deps.frontier] :
          /\ \A o \in found : <<o, from[o]>> \in base.uses
          /\ deps' = [deps EXCEPT
                       !.from = [o \in old \cup found |-> IF o \in old THEN @[o] ELSE from[o]],
                       !.frontier = found,
                       !.hop = @ + 1]
  /\ UNCHANGED <<base, spec, at, link, walk, suggested, keys, disk>>

Kept_All(skipped) == DOMAIN deps.from \ skipped
Kept(skipped) == Wanted \ skipped

(* The objects that are not excluded are read; one that cannot be read is  *)
(* skipped, and one of another owner is not found.                         *)
DdlExtracted ==
  /\ at = "discover" /\ (deps.frontier = {} \/ deps.hop = MaxDepth)
  /\ at' = "seal"
  /\ \E skipped \in SUBSET Wanted :
       /\ Wanted \cap base.others \subseteq skipped
       /\ deps' = [deps EXCEPT !.kept = Kept(skipped)]
  /\ UNCHANGED <<base, spec, link, walk, suggested, keys, disk>>

(* A publication that replaces another seals the key it was given.  Any    *)
(* other reads the owner's key from the keychain, where a read that fails  *)
(* looks like no key, and makes one when there is none; one that cannot be *)
(* read back ends the build.                                               *)
Sealed ==
  /\ at = "seal"
  /\ \/ /\ spec.again \/ keys.stored # 0
        /\ at' = "pack" /\ keys' = [keys EXCEPT !.content = "held"]
     \/ /\ ~spec.again
        /\ \/ at' = "pack" /\ keys' = [stored |-> keys.stored + 1, content |-> "held"]
           \/ at' = "closing" /\ keys' = [keys EXCEPT !.stored = @ + 1]
  /\ UNCHANGED <<base, spec, link, walk, deps, suggested, disk>>

(* writeVsk: the plain file, in a directory of its own.                    *)
Packed ==
  /\ at = "pack" /\ at' = "encrypt"
  /\ disk' = [disk EXCEPT !.temp = {"plain"}]
  /\ UNCHANGED <<base, spec, link, walk, deps, suggested, keys>>

(* The plain file is read and removed, and the encrypted one written.      *)
Encrypted ==
  /\ at = "encrypt" /\ at' = "rename"
  /\ disk' = [disk EXCEPT !.temp = {"cipher"}]
  /\ UNCHANGED <<base, spec, link, walk, deps, suggested, keys>>

Zeroed == [keys EXCEPT !.content = IF @ = "held" THEN "zeroed" ELSE @]

Renamed ==
  /\ at = "rename" /\ at' = "closing"
  /\ disk' = [temp |-> {}, out |-> {[tables |-> Seen, objects |-> deps.kept]}]
  /\ keys' = Zeroed
  /\ UNCHANGED <<base, spec, link, walk, deps, suggested>>

(* Mutation: the key is zeroed when the file was written.                  *)
Broken_KeepsKey ==
  /\ at \notin {"start", "closing", "ended", "killed"} /\ at' = "closing"
  /\ disk' = [disk EXCEPT !.temp = {}]
  /\ UNCHANGED <<base, spec, link, walk, deps, suggested, keys>>

(* A query, the keychain, DuckDB or the disk fails: what the phase has     *)
(* made is cleared away.                                                   *)
Broken ==
  /\ at \notin {"start", "closing", "ended", "killed"} /\ at' = "closing"
  /\ disk' = [disk EXCEPT !.temp = {}] /\ keys' = Zeroed
  /\ UNCHANGED <<base, spec, link, walk, deps, suggested>>

(* The outermost finally.                                                  *)
LinkClosed ==
  /\ at = "closing" /\ at' = "ended" /\ link' = "closed"
  /\ UNCHANGED <<base, spec, walk, deps, suggested, keys, disk>>

BuildKilled ==
  /\ at \notin {"ended", "killed"} /\ at' = "killed"
  /\ UNCHANGED <<base, spec, link, walk, deps, suggested, keys, disk>>

BuildNext ==
  \/ Started \/ Introspected \/ Hopped \/ Guarded \/ Scanned
  \/ Extracted \/ DepHopped \/ DdlExtracted \/ Sealed
  \/ Packed \/ Encrypted \/ Renamed \/ Broken \/ LinkClosed \/ BuildKilled

-----------------------------------------------------------------------------
(* SAFETY  The walk that only goes on from its frontier (fk-walk.ts,       *)
(* walkFkBfs) meets what the foreign keys, taken in both directions,       *)
(* connect to the primary tables, with the least number of hops, and every *)
(* edge at a table nearer than the last hop.                               *)
WalkIsReach ==
  at \notin {"start", "introspect"} /\ walk # Unwalked =>
    /\ \A n \in 0..walk.hop :
         Reach(base.refs, spec.primary, n) = {t \in Seen : walk.depth[t] <= n}
    /\ walk.hop > 0 =>
         walk.edges = Touching(base.refs, Reach(base.refs, spec.primary, walk.hop - 1))

(* SAFETY  The walk over dependencies (discoverPlsql.ts) finds what        *)
(* depends on the tables of the sandbox, and knows for each object one on  *)
(* the way to it that it found before, or a table.                         *)
DiscoveryIsRight ==
  /\ DOMAIN deps.from = Dependents(base.uses, Seen, deps.hop)
  /\ \A o \in DOMAIN deps.from :
       <<o, deps.from[o]>> \in base.uses /\ deps.from[o] \in Seen \cup (DOMAIN deps.from)

(* SAFETY  The file (build.ts) has the tables the walk is to reach and,    *)
(* of the objects that depend on them, none that was excluded or belongs   *)
(* to another owner; a schema a file cannot hold, and a dry run, make none.*)
FileIsOfTheSpec ==
  \A f \in disk.out :
    /\ ~spec.dry
    /\ f.tables = Reach(base.refs, spec.primary, spec.depth)
    /\ f.tables \cap (base.fatal \cup base.foreign) = {}
    /\ f.objects \subseteq Dependents(base.uses, f.tables, MaxDepth)
    /\ f.objects \cap (spec.out \cup base.others) = {}

(* SAFETY  A build that ended (build.ts, writer.ts), at whatever phase it  *)
(* failed, has closed its connection, zeroed its content key and removed   *)
(* the files it wrote for itself, the plain one first of all; a dry run    *)
(* has not touched the keychain.                                           *)
NothingIsLeft ==
  /\ at = "ended" => link # "open" /\ keys.content # "held" /\ disk.temp = {}
  /\ spec.dry => keys.content = "none" /\ disk.out = {} /\ disk.temp = {}

BuildsAreTrue == WalkIsReach /\ DiscoveryIsRight /\ FileIsOfTheSpec /\ NothingIsLeft

(* CLAIM (build.ts:522-541)  The key is read back so that a read that      *)
(* failed does not "silently rotate keys": "refusing to overwrite".        *)
ExistingKeyIsKept == [][keys.stored # 0 => keys'.stored = keys.stored]_keys

(* CLAIM (handlers.ts:299)  The key that was recovered for a publication   *)
(* that replaces another is there "by the time upload runs".               *)
RecoveredKeySurvives ==
  spec.again /\ at = "ended" /\ disk.out # {} => keys.content = "held"

(* The edge computeFkClosure names for a table: of those that refer to it, *)
(* the one from the first table.                                           *)
Via(t) ==
  {e \in walk.edges : e[2] = t /\ \A d \in walk.edges : d[2] = t => e[1] <= d[1]}

(* CLAIM (sandbox.handler.ts:125)  Each table of the closure has "the FK   *)
(* edge that pulled" it: one from a table that is nearer.                  *)
EdgesPulled ==
  at = "scan" => \A t \in Seen : walk.depth[t] > 0 =>
    \E e \in Via(t) : walk.depth[e[1]] < walk.depth[t]

(* CLAIM (discoverPlsql.ts:112)  A dependency is INCLUDED when what it     *)
(* refers to is: the file says so of objects it does not hold.             *)
IncludedIsThere == \A f \in disk.out : f.objects = DOMAIN deps.from
=============================================================================
