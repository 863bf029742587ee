---------------------------- MODULE SandboxPublish ----------------------------
(***************************************************************************)
(* Publishing a sandbox: the keys of its owner and its members             *)
(* (handleSandboxEnsureKeypair, sealEnvelopeForOwner), the wizard's last   *)
(* step (PublishStepPublish.svelte), sandbox.publish (handlers.ts,         *)
(* publish.ts), and the sandboxes the cloud keeps, which the module takes  *)
(* from the requests that are made of it.                                  *)
(*                                                                         *)
(* A private key is in the keychain of one device; the cloud has one       *)
(* public key of each account.  A key is a number, and stands for both.    *)
(***************************************************************************)
EXTENDS Naturals, Sequences, FiniteSets

CONSTANTS
  Devices,    \* the machines the application publishes on
  Account,    \* Account[d]: whose machine it is
  Publisher,  \* the machine the wizard is on
  Members,    \* the accounts the sandbox is published to
  MaxKeys, MaxSetups, MaxRuns, \* bounds
  None

VARIABLES
  keychain,   \* keychain[d]
  registered, \* registered[u]: the public key the cloud has
  setups,     \* the ensureKeypair calls under way
  wizard,     \* the wizard's last step
  publishes,       \* what runOrchestrator and retryFromUpload have under way
  files,      \* the files in sandbox-builds, and the keys they are sealed to
  boxes,      \* the cloud's sandboxes
  made        \* counts, and (history) what explains a state

keyVars == <<keychain, registered, setups>>
publishVars == <<keyVars, wizard, publishes, files, boxes, made>>

Owner == Account[Publisher]
Accounts == {Account[d] : d \in Devices}

(* How the last step looks when it is entered.                             *)
Blank(mode) == [shown |-> TRUE, mode |-> mode, phase |-> "build", build |-> None,
                refused |-> {}]
Hidden == [shown |-> FALSE, mode |-> "create", phase |-> "idle", build |-> None,
           refused |-> {}]

PublishInit ==
  /\ keychain = [d \in Devices |-> None]
  /\ registered = [u \in Accounts |-> None]
  /\ setups = {} /\ publishes = {} /\ files = {} /\ boxes = <<>>
  /\ wizard = Hidden
  /\ made = [keys |-> 0, setups |-> 0, runs |-> 0, visits |-> 0,
             done |-> {}, crossed |-> {}, spoilt |-> {}]

-----------------------------------------------------------------------------
(* Keys.                                                                   *)

(* A key is made for a device whose keychain has none, or does not give it *)
(* out: an error of the keychain is taken for no key (keystore.ts:38-46),  *)
(* and the key that is made replaces the one that is there.                *)
(* crossed: (history) the accounts for which one was made when another was *)
(* there, or about to be.                                                  *)
Others(d) ==
  \/ \E e \in Devices : Account[e] = Account[d] /\ keychain[e] # None
  \/ \E s \in setups : Account[s.device] = Account[d] /\ s.device # d
  \/ \E s, t \in setups : s # t /\ s.device = d /\ t.device = d

Crossed(d) == IF Others(d) THEN made.crossed \cup {Account[d]} ELSE made.crossed

(* The publish page and the dialog on encryption both ask for the key.     *)
SetupAsked(d) ==
  /\ made.setups < MaxSetups
  /\ setups' = setups \cup {[n |-> made.setups + 1, device |-> d, at |-> "read",
                             key |-> None]}
  /\ made' = [made EXCEPT !.setups = @ + 1]
  /\ UNCHANGED <<keychain, registered, wizard, publishes, files, boxes>>

Read(d, answered) == IF answered THEN keychain[d] ELSE None

(* Two calls that waited for the crypto library read one after the other.  *)
SetupRead(s, answered) ==
  /\ s \in setups /\ s.at = "read"
  /\ LET key == Read(s.device, answered)
     IN setups' = (setups \ {s})
          \cup {[s EXCEPT !.at = IF key = None THEN "make" ELSE "put", !.key = key]}
  /\ UNCHANGED <<keychain, registered, wizard, publishes, files, boxes, made>>

(* Mutation: the key that was made is not put in the keychain.             *)
Stored_Not(s, k) == keychain
Stored(s, k) == [keychain EXCEPT ![s.device] = k]

SetupMade(s) ==
  /\ s \in setups /\ s.at = "make" /\ made.keys < MaxKeys
  /\ LET k == made.keys + 1
     IN /\ keychain' = Stored(s, k)
        /\ setups' = (setups \ {s}) \cup {[s EXCEPT !.at = "put", !.key = k]}
        /\ made' = [made EXCEPT !.keys = k, !.crossed = Crossed(s.device)]
  /\ UNCHANGED <<registered, wizard, publishes, files, boxes>>

(* The keychain does not take the key.                                     *)
SetupFails(s) ==
  /\ s \in setups /\ s.at = "make"
  /\ setups' = setups \ {s}
  /\ UNCHANGED <<keychain, registered, wizard, publishes, files, boxes, made>>

(* The PUT is taken or not, and answered or not.                           *)
SetupPut(s, taken, answered) ==
  /\ s \in setups /\ s.at = "put" /\ (answered => taken)
  /\ setups' = setups \ {s}
  /\ registered' = IF taken THEN [registered EXCEPT ![Account[s.device]] = s.key]
                   ELSE registered
  /\ made' = IF answered THEN [made EXCEPT !.done = @ \cup {s.device}] ELSE made
  /\ UNCHANGED <<keychain, wizard, publishes, files, boxes>>

-----------------------------------------------------------------------------
(* The wizard's last step.                                                 *)

(* A run: `at` is the call it waits in, or the step that call has come to; *)
(* live, whether the step that started it is still shown: if not, its      *)
(* signal is aborted.                                                      *)
Run(at, file) == [n |-> made.runs + 1, at |-> at, file |-> file, box |-> 0,
                  sealed |-> <<>>, visit |-> made'.visits, mode |-> wizard'.mode,
                  live |-> TRUE]

(* From the list of sandboxes the wizard is reached to publish a new one,  *)
(* or to publish one again.                                                *)
StepEntered(mode) ==
  /\ ~wizard.shown /\ made.runs < MaxRuns
  /\ made' = [made EXCEPT !.runs = @ + 1, !.visits = @ + 1]
  /\ wizard' = Blank(mode)
  /\ publishes' = publishes \cup {Run("build", None)}
  /\ UNCHANGED <<keyVars, files, boxes>>

(* Back, Cancel and "Back to Tables" reset the output of the publish and   *)
(* abort the run, whose call goes on.                                      *)
StepLeft ==
  /\ wizard.shown
  /\ wizard' = Hidden
  /\ publishes' = {[r EXCEPT !.live = FALSE] : r \in publishes}
  /\ UNCHANGED <<keyVars, files, boxes, made>>

(* Retry from Build, or Retry upload only.                                 *)
Retried(from) ==
  /\ wizard.phase = "error" /\ made.runs < MaxRuns
  /\ from = "create" => wizard.build # None
  /\ made' = [made EXCEPT !.runs = @ + 1]
  /\ wizard' = [wizard EXCEPT !.phase = IF from = "build" THEN "build" ELSE "upload",
                              !.build = IF from = "build" THEN None ELSE @,
                              !.refused = {}]
  /\ publishes' = publishes \cup {Run(from, IF from = "build" THEN None ELSE wizard.build)}
  /\ UNCHANGED <<keyVars, files, boxes>>

Shows(r, phase) == IF r.live THEN [wizard EXCEPT !.phase = phase] ELSE wizard
Goes(r, at) == (publishes \ {r}) \cup {[r EXCEPT !.at = at]}

(* The owner's key for a build, which is made if there is none, or none is *)
(* read, and is not registered.                                            *)
Keyed(answered, k) ==
  IF Read(Publisher, answered) # None
    THEN k = keychain[Publisher] /\ UNCHANGED <<keychain, made>>
    ELSE /\ made.keys < MaxKeys /\ k = made.keys + 1
         /\ keychain' = [keychain EXCEPT ![Publisher] = k]
         /\ made' = [made EXCEPT !.keys = k, !.crossed = Crossed(Publisher)]

(* The build: the content key is sealed to the owner's key.  A build that  *)
(* is over when the step has been left is not published.                   *)
Built(r, answered) ==
  /\ r \in publishes /\ r.at = "build"
  /\ \E k \in 1 .. MaxKeys : Keyed(answered, k) /\ files' = files \cup {[n |-> r.n, key |-> k]}
  /\ publishes' = IF r.live THEN (publishes \ {r}) \cup {[r EXCEPT !.at = "create", !.file = r.n]}
             ELSE publishes \ {r}
  /\ wizard' = IF r.live THEN [wizard EXCEPT !.phase = "upload", !.build = r.n] ELSE wizard
  /\ UNCHANGED <<registered, setups, boxes>>

(* A key that was made is read back: the build fails if it is not, and the *)
(* key stays (build.ts:521-540).                                           *)
KeyNotReadBack(r) ==
  /\ r \in publishes /\ r.at = "build"
  /\ \E k \in 1 .. MaxKeys : Keyed(FALSE, k)
  /\ publishes' = publishes \ {r}
  /\ wizard' = Shows(r, "error")
  /\ UNCHANGED <<registered, setups, files, boxes>>

(* Any call of the run may be refused, by the air gap, for want of a token *)
(* or by the cloud; and the wizard may miss the answer of the last.        *)
Refused(r) ==
  /\ r \in publishes /\ r.at \in {"build", "create", "seal", "upload", "finalize", "unlink"}
  /\ publishes' = publishes \ {r}
  /\ wizard' = Shows(r, "error")
  /\ IF r.at = "unlink"
       THEN /\ made' = [made EXCEPT !.spoilt = @ \cup {r.visit}]
            /\ files' \in {files, {f \in files : f.n # r.file}}
       ELSE UNCHANGED <<made, files>>
  /\ UNCHANGED <<keyVars, boxes>>

-----------------------------------------------------------------------------
(* sandbox.publish.                                                        *)

(* The owner's own envelope in the file is opened, and the sandbox made.   *)
Created(r) ==
  /\ r \in publishes /\ r.at = "create"
  /\ [n |-> r.file, key |-> keychain[Publisher]] \in files
  /\ boxes' = Append(boxes, [status |-> "created", blob |-> None, visit |-> r.visit,
                             mode |-> r.mode,
                             envelopes |-> <<>>])
  /\ publishes' = (publishes \ {r}) \cup {[r EXCEPT !.at = "seal", !.box = Len(boxes')]}
  /\ UNCHANGED <<keyVars, wizard, files, made>>

(* Additional data bind the blob and the envelopes to the sandbox and to   *)
(* its owner's key; whoever opens one must have the same data.             *)
AadOf(box, key) == [box |-> box, key |-> key]
Envelope(from, to, aad) == [keys |-> {from, to}, aad |-> aad]

(* Mutation: the members' envelopes are sealed without additional data.    *)
SealedFor_Plain(u, key, box) ==
  Envelope(key, IF u = Owner THEN key ELSE registered[u],
           IF u = Owner THEN AadOf(box, key) ELSE None)

SealedFor(u, key, box) ==
  Envelope(key, IF u = Owner THEN key ELSE registered[u], AadOf(box, key))

(* The members' keys are asked for, all of them: one that is not there     *)
(* ends the publish.                                                       *)
Sealed(r) ==
  /\ r \in publishes /\ r.at = "seal"
  /\ \A u \in Members : registered[u] # None
  /\ LET key == (CHOOSE f \in files : f.n = r.file).key
     IN publishes' = (publishes \ {r})
          \cup {[r EXCEPT !.at = "upload",
                          !.sealed = [u \in Members \cup {Owner} |->
                                        SealedFor(u, key, r.box)]]}
  /\ UNCHANGED <<keyVars, wizard, files, boxes, made>>

Uploaded(r) ==
  /\ r \in publishes /\ r.at = "upload"
  /\ boxes' = [boxes EXCEPT ![r.box].blob =
                 AadOf(r.box, (CHOOSE f \in files : f.n = r.file).key)]
  /\ publishes' = Goes(r, "finalize")
  /\ UNCHANGED <<keyVars, wizard, files, made>>

(* spoilt: (history) the cloud has finalized it, and the answer is lost.   *)
Finalized(r, answered) ==
  /\ r \in publishes /\ r.at = "finalize"
  /\ boxes' = [boxes EXCEPT ![r.box].status = "ready", ![r.box].envelopes = r.sealed]
  /\ IF answered THEN publishes' = Goes(r, "unlink") /\ UNCHANGED <<wizard, made>>
     ELSE /\ publishes' = publishes \ {r} /\ wizard' = Shows(r, "error")
          /\ made' = [made EXCEPT !.spoilt = @ \cup {r.visit}]
  /\ UNCHANGED <<keyVars, files>>

(* Mutation: a file that cannot be removed fails the publish.              *)
AfterUnlink_Fails(r, removed) == IF removed THEN "grant" ELSE "failed"
AfterUnlink(r, removed) == "grant"

(* The file is removed if it can be, and the call answered.  A run whose   *)
(* step has been left ends there.                                          *)
Unlinked(r, removed) ==
  /\ r \in publishes /\ r.at = "unlink"
  /\ files' = IF removed THEN {f \in files : f.n # r.file} ELSE files
  /\ IF AfterUnlink(r, removed) = "failed"
       THEN publishes' = publishes \ {r} /\ wizard' = Shows(r, "error")
       ELSE /\ publishes' = IF r.live THEN Goes(r, "grant") ELSE publishes \ {r}
            /\ wizard' = Shows(r, "grant")
  /\ UNCHANGED <<keyVars, boxes, made>>

(* The wizard grants each member what it has published, one by one: by     *)
(* the field sandbox_id of an answer whose field is sandboxId, so that the *)
(* cache has no entry of that name.  A grant that fails is noted.          *)
Granted(r) ==
  /\ r \in publishes /\ r.at = "grant"
  /\ IF wizard.refused = Members \/ ~r.live
       THEN publishes' = publishes \ {r} /\ wizard' = IF r.live
              THEN [wizard EXCEPT !.phase = "done", !.build = None] ELSE wizard
       ELSE /\ \E u \in Members \ wizard.refused :
                 wizard' = [wizard EXCEPT !.refused = @ \cup {u}]
            /\ UNCHANGED publishes
  /\ UNCHANGED <<keyVars, files, boxes, made>>

PublishNext ==
  \/ \E d \in Devices : SetupAsked(d)
  \/ \E s \in setups :
       \/ SetupMade(s) \/ SetupFails(s)
       \/ \E answered \in BOOLEAN :
            SetupRead(s, answered) \/ \E taken \in BOOLEAN : SetupPut(s, taken, answered)
  \/ \E mode \in {"create", "republish"} : StepEntered(mode)
  \/ StepLeft
  \/ \E from \in {"build", "create"} : Retried(from)
  \/ \E r \in publishes :
       \/ KeyNotReadBack(r) \/ Refused(r) \/ Created(r) \/ Sealed(r) \/ Uploaded(r)
       \/ \E answered \in BOOLEAN : Built(r, answered) \/ Finalized(r, answered)
       \/ \E removed \in BOOLEAN : Unlinked(r, removed)
       \/ Granted(r)

PublishSpec == PublishInit /\ [][PublishNext]_publishVars

-----------------------------------------------------------------------------
(* Properties.                                                             *)

(* pullSandbox gives the envelope of the caller and the key the cloud has  *)
(* of the owner by then; readEncryptedVsk opens it with the data that are  *)
(* in the blob.                                                            *)
CanOpen(d, b) ==
  LET u == Account[d]
  IN /\ u \in DOMAIN boxes[b].envelopes
     /\ boxes[b].envelopes[u].keys = {registered[Owner], keychain[d]}
     /\ boxes[b].envelopes[u].aad = boxes[b].blob

(* Whoever a sandbox is published to can open it, on a device that has a   *)
(* key, once the owner's key is registered: unless the owner or the member *)
(* had keys made on two devices, by two calls at once, or after a read of  *)
(* the keychain that was refused.                                          *)
ReadyCanBeOpened ==
  \A b \in DOMAIN boxes : boxes[b].status = "ready" =>
    \A d \in Devices : Account[d] \in Members \cup {Owner} =>
      \/ {Owner, Account[d]} \cap made.crossed # {}
      \/ registered[Owner] = None \/ keychain[d] = None
      \/ CanOpen(d, b)

(* The key the cloud has of an account is the one in the keychain of the   *)
(* device that was told so, unless keys were made on two devices, by two   *)
(* calls at once (handlers.ts:591-599) or after a read of the keychain     *)
(* that was refused.                                                       *)
KeysAgree ==
  \A d \in made.done : Account[d] \notin made.crossed =>
    /\ keychain[d] # None
    /\ keychain[d] = registered[Account[d]]

(* A visit to the wizard makes one sandbox ready however often its upload  *)
(* is tried again, and "done" says so: unless an answer was lost after the *)
(* cloud had finalized it.  What "Retry upload only" goes back to is there.*)
OneSandboxPerPublish ==
  /\ \A v \in (1 .. made.visits) \ made.spoilt :
       Cardinality({b \in DOMAIN boxes : boxes[b].visit = v
                                         /\ boxes[b].status = "ready"}) <= 1
  /\ wizard.phase = "done" =>
       \E b \in DOMAIN boxes : boxes[b].visit = made.visits /\ boxes[b].status = "ready"
  /\ wizard.phase = "error" /\ wizard.build # None =>
       \/ \E f \in files : f.n = wizard.build
       \/ made.visits \in made.spoilt

(* publish-wizard.svelte.ts:23-25: a sandbox that is published again is    *)
(* not a new sandbox.                                                      *)
RepublishMakesNoSandbox == \A b \in DOMAIN boxes : boxes[b].mode = "create"

(* PublishStepPublish.svelte:203-204: after the upload the recipients are  *)
(* granted the sandbox.                                                    *)
GrantsAreMade == wizard.phase = "done" => wizard.refused = {}
=============================================================================
