---------------------------- MODULE CloudSession ----------------------------
(***************************************************************************)
(* Signing in to Veesker Cloud and out again (services/auth.ts,            *)
(* LoginModal.svelte, the token commands of commands.rs) and the upload of *)
(* the audit that runs meanwhile (services/CloudAuditService.ts).          *)
(*                                                                         *)
(* The token is in the keychain, the features in memory and in the local   *)
(* storage, the timer in the upload service.  They are changed one after   *)
(* the other, by a refresh that was sent when the application started, by  *)
(* a poll for the sign-in link and by the sign-out, none of which waits    *)
(* for another; and every command is refused while the air gap is on.      *)
(*                                                                         *)
(* What the cloud answers of the features is "on" or "off" for the audit,  *)
(* or "none": nothing.                                                     *)
(***************************************************************************)
EXTENDS Naturals, Sequences, SequencesExt, FiniteSets

CONSTANTS
  Users,
  BATCH_SIZE, MAX_BUFFER,
  MaxEntries, MaxLogins, MaxFlushes, MaxGaps, \* bounds
  None

VARIABLES
  token,    \* whose token is in the keychain
  features, \* FEATURES.cloudAudit in memory
  stored,   \* the features in the local storage; "none": nothing that is read
  timer,    \* the upload's interval is set
  gap,      \* the air gap is on
  refresh,  \* the refresh initAuth sent
  signout,  \* the sign-out under way
  polls,    \* the polls whose link was followed: the users they sign in
  buffer,   \* the entries that wait
  flights,  \* the batches sent
  cloud,    \* (history) the entries the cloud took, in their order
  seen      \* counts, and (history) what happened that explains a state

authVars == <<token, features, stored, refresh, signout, polls>>
uploadVars == <<timer, buffer, flights, cloud>>
cloudVars == <<authVars, uploadVars, gap, seen>>

(* initAuth: a token that has expired is cleared, and the stored features  *)
(* stay; with one that has not they are applied and asked for again.  A    *)
(* keychain that refuses ends the start there.                             *)
CloudInit ==
  /\ token \in Users \cup {None} /\ stored \in {"none", "off", "on"}
  /\ \E read \in BOOLEAN :
       /\ features = (read /\ token # None /\ stored = "on") /\ timer = features
       /\ refresh = IF read /\ token # None THEN "sent" ELSE "over"
       /\ seen = [entries |-> 0, logins |-> 0, flushes |-> 0, gaps |-> 0,
                  dropped |-> {}, twice |-> {}, overlap |-> FALSE, late |-> FALSE,
                  refused |-> ~read]
  /\ signout = "none" /\ polls = {}
  /\ gap = FALSE
  /\ buffer = <<>> /\ flights = {} /\ cloud = <<>>

-----------------------------------------------------------------------------
(* The upload.                                                             *)

InFlight == UNION {Range(f.batch) : f \in flights}
FirstOf(s) == SubSeq(s, 1, IF Len(s) < BATCH_SIZE THEN Len(s) ELSE BATCH_SIZE)
RestOf(s) == SubSeq(s, Len(FirstOf(s)) + 1, Len(s))

(* flush() of the entries that wait, s.                                    *)
Flushes(s) ==
  IF s = <<>>
    THEN buffer' = s /\ UNCHANGED <<flights, seen>>
    ELSE /\ seen.flushes < MaxFlushes
         /\ buffer' = RestOf(s)
         /\ flights' = flights \cup {[n |-> seen.flushes + 1, batch |-> FirstOf(s),
                                      answer |-> None]}
         /\ seen' = [seen EXCEPT !.flushes = @ + 1, !.overlap = @ \/ flights # {}]

(* A statement is over, and its row is given to push().                    *)
EntryPushed ==
  /\ features /\ seen.entries < MaxEntries
  /\ LET s == Append(buffer, seen.entries + 1)
     IN IF Len(s) < BATCH_SIZE
          THEN /\ buffer' = s
               /\ seen' = [seen EXCEPT !.entries = @ + 1]
               /\ UNCHANGED flights
          ELSE /\ seen.flushes < MaxFlushes
               /\ buffer' = RestOf(s)
               /\ flights' = flights \cup {[n |-> seen.flushes + 1, batch |-> FirstOf(s),
                                            answer |-> None]}
               /\ seen' = [seen EXCEPT !.entries = @ + 1, !.flushes = @ + 1,
                                       !.overlap = @ \/ flights # {}]
  /\ UNCHANGED <<authVars, timer, cloud, gap>>

TimerFired ==
  /\ timer /\ buffer # <<>>
  /\ Flushes(buffer)
  /\ UNCHANGED <<authVars, timer, cloud, gap>>

(* cloud_api_post: refused by the air gap, or without a token; or sent,    *)
(* and taken by the cloud or not, whether or not its answer comes.         *)
Posted(f, taken, answer) ==
  /\ f \in flights /\ f.answer = None
  /\ gap \/ token = None => ~taken /\ answer = "error"
  /\ answer = "ok" => taken
  /\ cloud' = IF taken THEN cloud \o f.batch ELSE cloud
  /\ flights' = (flights \ {f}) \cup {[f EXCEPT !.answer = answer]}
  /\ seen' = IF taken /\ answer = "error"
               THEN [seen EXCEPT !.twice = @ \cup Range(f.batch)] ELSE seen
  /\ UNCHANGED <<authVars, timer, buffer, gap>>

(* Mutation: a batch that failed is put back behind the others.            *)
PutBack_AtTheEnd(batch, s) == s \o batch

PutBack(batch, s) == batch \o s

PostAnswered(f) ==
  /\ f \in flights /\ f.answer # None
  /\ flights' = flights \ {f}
  /\ IF f.answer = "ok" THEN UNCHANGED <<buffer, seen>>
     ELSE IF Len(buffer) < MAX_BUFFER
       THEN buffer' = PutBack(f.batch, buffer) /\ UNCHANGED seen
       ELSE seen' = [seen EXCEPT !.dropped = @ \cup Range(f.batch)] /\ UNCHANGED buffer
  /\ UNCHANGED <<authVars, timer, cloud, gap>>

-----------------------------------------------------------------------------
(* Signing in and out.                                                     *)

(* Mutation: features that are off are stored, and not applied.            *)
Applied_Stored(flags) ==
  /\ features' = (features \/ flags = "on") /\ stored' = flags
  /\ timer' = (timer \/ flags = "on")

(* The features are applied and stored.  The upload is started with them,  *)
(* but not stopped.                                                        *)
Applied(flags) ==
  /\ features' = (flags = "on") /\ stored' = flags
  /\ timer' = (timer \/ flags = "on")

(* The refresh is refused, or answered by the cloud, with features or      *)
(* without; it may not know the token any more.                            *)
RefreshServed(answer) ==
  /\ refresh = "sent"
  /\ gap => answer = "error"
  /\ token = None => answer \in {"unauthorized", "error"}
  /\ refresh' = answer
  /\ UNCHANGED <<token, features, stored, signout, polls, uploadVars, gap, seen>>

(* late: (history) it was answered after a sign-in or during a sign-out.   *)
RefreshApplied ==
  /\ refresh \in {"on", "off", "none", "error"} /\ refresh' = "over"
  /\ IF refresh \in {"on", "off"} THEN Applied(refresh)
     ELSE UNCHANGED <<features, stored, timer>>
  /\ seen' = [seen EXCEPT !.late = @ \/ signout = "clearing"]
  /\ UNCHANGED <<token, signout, polls, buffer, flights, cloud, gap>>

(* The token is cleared, whoever's it is by now, then the features are     *)
(* reset; or the keychain, or the air gap, refuses.  The timer is left     *)
(* alone.                                                                  *)
RefreshRejected(cleared) ==
  /\ refresh = "unauthorized" /\ refresh' = "over"
  /\ gap => ~cleared
  /\ IF cleared THEN token' = None /\ features' = FALSE /\ stored' = "none"
     ELSE UNCHANGED <<token, features, stored>>
  /\ seen' = [seen EXCEPT !.late = TRUE]
  /\ UNCHANGED <<signout, polls, uploadVars, gap>>

(* A link that was asked for in the dialog is followed: the poll's answer  *)
(* is on its way, whether or not the dialog is still open.                 *)
LinkFollowed(u) ==
  /\ seen.logins < MaxLogins /\ token = None
  /\ polls' = polls \cup {u}
  /\ seen' = [seen EXCEPT !.logins = @ + 1]
  /\ UNCHANGED <<token, features, stored, refresh, signout, uploadVars, gap>>

(* The token is kept, and the features the answer comes with, if any; what *)
(* the local storage then holds without any cannot be read.  The air gap,  *)
(* or the keychain, refuses the token, which the dialog takes for a hiccup *)
(* of the network.                                                         *)
PollAnswered(u, flags, kept) ==
  /\ u \in polls
  /\ gap => ~kept
  /\ IF ~kept THEN UNCHANGED <<token, features, stored, timer, polls>>
     ELSE /\ token' = u /\ polls' = polls \ {u}
          /\ IF flags # "none" THEN Applied(flags)
             ELSE stored' = flags /\ UNCHANGED <<features, timer>>
  /\ seen' = [seen EXCEPT !.late = @ \/ refresh # "over" \/ signout = "clearing"
                                     \/ (kept /\ flags = "none" /\ features),
                          !.refused = @ /\ ~kept]
  /\ UNCHANGED <<refresh, signout, buffer, flights, cloud, gap>>

(* Mutation: the sign-out does not stop the upload.                        *)
TimerAfterLogout_On == timer
TimerAfterLogout == FALSE

(* logout(): the upload is stopped, what waits is flushed, and the token   *)
(* is to be cleared.                                                       *)
LogoutClicked ==
  /\ token # None /\ signout = "none"
  /\ signout' = "clearing"
  /\ timer' = TimerAfterLogout
  /\ Flushes(buffer)
  /\ UNCHANGED <<token, features, stored, refresh, polls, cloud, gap>>

(* The air gap, or the keychain, refuses that, and the sign-out ends there.*)
LogoutServed(cleared) ==
  /\ signout = "clearing" /\ signout' = "none"
  /\ gap => ~cleared
  /\ IF cleared
       THEN /\ token' = None /\ features' = FALSE /\ stored' = "none"
            /\ seen' = [seen EXCEPT !.late = @ \/ refresh # "over", !.refused = FALSE]
       ELSE /\ seen' = [seen EXCEPT !.refused = TRUE]
            /\ UNCHANGED <<token, features, stored>>
  /\ UNCHANGED <<refresh, polls, uploadVars, gap>>

(* A connection whose air gap is on is opened, or closed.                  *)
GapSwitched ==
  /\ seen.gaps < MaxGaps
  /\ gap' = ~gap
  /\ seen' = [seen EXCEPT !.gaps = @ + 1]
  /\ UNCHANGED <<authVars, uploadVars>>

CloudNext ==
  \/ EntryPushed \/ TimerFired
  \/ \E f \in flights :
       \/ \E taken \in BOOLEAN : \E answer \in {"ok", "error"} : Posted(f, taken, answer)
       \/ PostAnswered(f)
  \/ \E answer \in {"on", "off", "none", "unauthorized", "error"} : RefreshServed(answer)
  \/ RefreshApplied
  \/ \E cleared \in BOOLEAN : RefreshRejected(cleared) \/ LogoutServed(cleared)
  \/ \E u \in Users :
       \/ LinkFollowed(u)
       \/ \E flags \in {"on", "off", "none"}, kept \in BOOLEAN : PollAnswered(u, flags, kept)
  \/ LogoutClicked
  \/ GapSwitched

CloudSpec == CloudInit /\ [][CloudNext]_cloudVars

-----------------------------------------------------------------------------
(* Properties.                                                             *)

Ascending(s) == \A i, j \in DOMAIN s : i < j => s[i] < s[j]
Times(e) == Cardinality({i \in DOMAIN cloud : cloud[i] = e})

(* Every entry is accounted for: it waits, is in flight, was taken, or was *)
(* dropped because MAX_BUFFER others waited; it is taken twice only if the *)
(* answer to it was lost; and entries wait and are taken in their order    *)
(* unless two flushes overlapped (CloudAuditService.ts:75 puts a batch in  *)
(* front of whatever is there).                                            *)
EntriesAreKept ==
  /\ \A e \in 1 .. seen.entries :
       \/ e \in Range(buffer) \cup InFlight \cup seen.dropped
       \/ e \in Range(cloud)
  /\ \A e \in Range(cloud) : Times(e) > 1 => e \in seen.twice
  /\ seen.overlap \/ Ascending(buffer)
  /\ seen.overlap \/ seen.twice # {} \/ Ascending(cloud)

Settled == refresh = "over" /\ signout = "none" /\ polls = {}

(* Once nothing is under way, entries are collected, and the timer is on,  *)
(* only while somebody is signed in; and then they are collected exactly   *)
(* while the features that are stored say so, and with the timer on: unless*)
(* the keychain or the air gap refused the start or the last sign-out      *)
(* (auth.ts:70 ends there, after the upload was stopped), the refresh sent *)
(* at the start or a link followed was answered after or during another    *)
(* sign-in or sign-out, a second sign-in without features, or the refresh  *)
(* with "unauthorized" (which leaves the timer on).                        *)
UploadFollowsSignIn ==
  Settled /\ ~seen.late =>
    /\ features \/ timer => token # None
    /\ token # None /\ ~seen.refused => features = (stored = "on") /\ (features => timer)
=============================================================================
