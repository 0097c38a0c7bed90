---------------------------- MODULE ProjectForges ----------------------------
(***************************************************************************)
(* The forges of a game project: the content pack (content-forge.ts), the  *)
(* sounds (audio-forge.ts) and the models (asset-forge.ts).  Each compiles *)
(* what its source says into a body, notes beside it what the body was     *)
(* compiled from, and reuses a body whose note fits.  The pack has one     *)
(* place; a sound and a model have one per key, which is the hash of their *)
(* source.                                                                 *)
(*                                                                         *)
(* A behaviour is about one of them, which share nothing.  A body or a key *)
(* is the version of the source it comes from.                             *)
(***************************************************************************)
EXTENDS Integers

CONSTANT MaxRevisions  \* bound on the edits of a source

ASSUME RevisionAssumption == MaxRevisions \in Nat

VARIABLES
  forge,   \* "content", "audio" or "assets"
  source,  \* the version of the source
  revisions,
  body,    \* body[p]: what is in place p
  note,    \* note[p]: the key noted beside it
  forging, \* [doing, key], the key hashed when this run began
  index,   \* what the index shows to the hosts: the place of a body, and the key it is for
  reuses,  \* history: the key and the body the last run reused
  halted,  \* history: a run was stopped while it wrote
  spoiled  \* history: it left a note beside a body the note is not about, or a run copied a
           \* source it had not hashed

forges == <<forge, source, revisions, body, note, forging, index, reuses, halted, spoiled>>

Sources == 1..2
Nothing == 0
Half == 3
Places == 0..2
Resting == [doing |-> "nothing", key |-> 1]

Place(key) == IF forge = "content" THEN 0 ELSE key

ForgesInit ==
  /\ forge \in {"content", "audio", "assets"}
  /\ source = 1 /\ revisions = 0
  /\ body = [p \in Places |-> Nothing] /\ note = body
  /\ forging = Resting
  /\ index = <<0, Nothing>>
  /\ reuses = {} /\ halted = FALSE /\ spoiled = FALSE

EditSource ==
  /\ revisions < MaxRevisions
  /\ revisions' = revisions + 1
  /\ source' = 3 - source
  /\ spoiled' = (spoiled \/ (forge = "assets" /\ forging.doing # "nothing"))
  /\ reuses' = {}
  /\ UNCHANGED <<forge, body, note, forging, index, halted>>

\* Defect: the key that was noted is not compared.
FitsAny(key) ==
  /\ note[Place(key)] # Nothing
  /\ IF forge = "content" THEN body[Place(key)] \in Sources ELSE body[Place(key)] # Nothing

\* The pack is read, and checks its own hash; a sound or a model has to be there.
Fits(key) ==
  /\ note[Place(key)] = key
  /\ IF forge = "content" THEN body[Place(key)] \in Sources ELSE body[Place(key)] # Nothing

\* A note that is half written ends the run, or costs the model its entry; a forced
\* render does not read it.
NoteFails(force) ==
  note[Place(source)] = Half /\ ~(forge = "audio" /\ (force \/ body[Place(source)] = Nothing))

\* Source that cannot be compiled is a diagnostic; a pack has no force.
Forge ==
  /\ forging.doing = "nothing"
  /\ \E force \in IF forge = "content" THEN {FALSE} ELSE BOOLEAN :
       IF NoteFails(force)
       THEN /\ index' = IF forge = "assets" THEN <<0, Nothing>> ELSE index
            /\ reuses' = {} /\ UNCHANGED <<body, note, forging>>
       ELSE IF ~force /\ Fits(source)
       THEN /\ index' = <<Place(source), source>>
            /\ reuses' = {<<source, body[Place(source)]>>}
            /\ UNCHANGED <<body, note, forging>>
       ELSE /\ forging' = [doing |-> "body", key |-> source]
            /\ body' = [body EXCEPT ![Place(source)] = Half]
            /\ reuses' = {} /\ UNCHANGED <<note, index>>
  /\ UNCHANGED <<forge, source, revisions, halted, spoiled>>

\* A model is copied from its source, which may have changed since it was hashed.
Made == IF forge = "assets" THEN source ELSE forging.key

\* The pack is written before its note, and so is a model, and an earlier note stays until
\* then; a sound and its note are written together.
WriteBody ==
  /\ forging.doing = "body"
  /\ body' = [body EXCEPT ![Place(forging.key)] = Made]
  /\ forging' = [forging EXCEPT !.doing = "note"]
  /\ reuses' = {}
  /\ UNCHANGED <<forge, source, revisions, note, index, halted, spoiled>>

WriteNote ==
  /\ forging.doing = "note"
  /\ note' = [note EXCEPT ![Place(forging.key)] = forging.key]
  /\ forging' = Resting
  /\ index' = <<Place(forging.key), forging.key>>
  /\ reuses' = {}
  /\ UNCHANGED <<forge, source, revisions, body, halted, spoiled>>

\* A note about something else than what is in its place.  That of a sound is begun with the
\* sound and may be there before it, that of a sound or a model made anew stays from before.
Misleads(left) ==
  /\ left \in Sources
  /\ IF forge = "content" THEN forging.doing = "note" /\ left # forging.key
     ELSE forging.doing = "body"

StopForge ==
  /\ forging.doing # "nothing"
  /\ \E left \in {note[Place(forging.key)]}
                \union (IF forge = "audio" THEN {Half, forging.key} ELSE {})
                \union (IF forging.doing = "note" THEN {Half} ELSE {}) :
       /\ note' = [note EXCEPT ![Place(forging.key)] = left]
       /\ spoiled' = (spoiled \/ Misleads(left))
  /\ forging' = Resting
  /\ halted' = TRUE /\ reuses' = {}
  /\ UNCHANGED <<forge, source, revisions, body, index>>

\* A note nobody can read is deleted, with what it was about.
ClearForge ==
  /\ forging.doing = "nothing"
  /\ \E p \in Places :
       /\ note[p] = Half
       /\ note' = [note EXCEPT ![p] = Nothing] /\ body' = [body EXCEPT ![p] = Nothing]
  /\ reuses' = {}
  /\ UNCHANGED <<forge, source, revisions, forging, index, halted, spoiled>>

ForgesNext ==
  EditSource \/ Forge \/ WriteBody \/ WriteNote \/ StopForge \/ ClearForge

ForgesSpec == ForgesInit /\ [][ForgesNext]_forges

\* What a forge reuses is what it would compile now, wherever earlier runs were stopped, and
\* what the index shows was compiled from what the index says, or is not whole after such a
\* stop; a pack, which has no index of its own, may then be newer.  Two exceptions: the stop
\* left a note that can be read beside what it is not about, which is a new pack with the
\* note of the one before, or a sound or a model half written with its own; and a model was
\* edited while it was cooked.
ForgedIsCurrent ==
  ~spoiled =>
    /\ \A pair \in reuses : pair[2] = pair[1]
    /\ index[2] # Nothing /\ forging.doing = "nothing"
         => \/ body[index[1]] = index[2]
            \/ halted /\ (forge = "content" \/ body[index[1]] \in {Nothing, Half})
=============================================================================
