---------------------------- MODULE MediaImport ----------------------------
(***************************************************************************)
(* import_media for one SKU, and the same import run again: the gallery    *)
(* that is read decides which images are replaced, added or left alone.    *)
(* Rows of other SKUs share nothing with it.  A delete or an add may fail, *)
(* or answer an error after Magento did it; a bulk add may never answer.   *)
(***************************************************************************)
EXTENDS Integers, Sequences, FiniteSets, SequencesExt

CONSTANTS
  Positions,
  Labels,
  MaxImages,   \* bound: images of the row
  MaxEntries,  \* bound: entries of the gallery before the import
  MaxFaults    \* bound: calls that fail or do not answer

\* Of the constants; an ASSUME of the module that instantiates this one.
MediaAssumption ==
  Positions \subseteq Nat /\ MaxImages \in Nat /\ MaxEntries \in Nat /\ MaxFaults \in Nat

Image == [position : Positions, label : Labels]

VARIABLES
  images,   \* input: the row's
  mode,     \* input: sync or bulk
  given,    \* the gallery before the first run
  gallery,  \* id -> image
  current,  \* the gallery as the run read it
  run,      \* 1, or 2 for the rerun
  image,    \* the image to plan
  deletes, adds,  \* operations planned and not yet sent: ids and images
  answered, \* run -> every call of it was answered without an error
  faults,
  pc

vars == <<images, mode, given, gallery, current, run, image, deletes, adds, answered, faults, pc>>

---------------------------------------------------------------------------

Init ==
  /\ images \in BoundedSeq(Image, MaxImages) /\ mode \in {"sync", "bulk"}
  /\ given \in BoundedSeq(Image, MaxEntries) /\ gallery = given
  /\ current = <<>> /\ run = 1 /\ image = 1 /\ deletes = <<>> /\ adds = <<>>
  /\ answered = [r \in 1 .. 2 |-> TRUE] /\ faults = 0 /\ pc = "read"

Input == UNCHANGED <<images, mode, given>>

Read ==
  /\ pc = "read" /\ images # <<>> /\ pc' = "plan"
  /\ current' = gallery /\ image' = 1 /\ deletes' = <<>> /\ adds' = <<>>
  /\ Input /\ UNCHANGED <<gallery, run, answered, faults>>

\* A gallery that cannot be read fails the row.
Unreadable ==
  /\ pc = "read" /\ images # <<>> /\ faults < MaxFaults /\ faults' = faults + 1
  /\ pc' = "done" /\ answered' = [answered EXCEPT ![run] = FALSE]
  /\ Input /\ UNCHANGED <<gallery, current, run, image, deletes, adds>>

NoImages ==
  /\ pc = "read" /\ images = <<>> /\ pc' = "done"
  /\ Input /\ UNCHANGED <<gallery, current, run, image, deletes, adds, answered, faults>>

\* Magento lists entries by id; of those at one position the last is kept.
Existing(i) ==
  LET at == {e \in DOMAIN current : current[e].position = images[i].position}
  IN {e \in at : \A f \in at : f <= e}

Matches(i) == \E e \in Existing(i) : current[e].label = images[i].label
Planning == pc = "plan" /\ image <= Len(images)

Skip ==
  /\ Planning /\ Matches(image) /\ image' = image + 1
  /\ Input /\ UNCHANGED <<gallery, current, run, deletes, adds, answered, faults, pc>>

\* Mutant of Replace: the old entry stays.
ReplaceAdd ==
  /\ Planning /\ ~Matches(image) /\ image' = image + 1
  /\ adds' = Append(adds, images[image])
  /\ Input /\ UNCHANGED <<gallery, current, run, deletes, answered, faults, pc>>

Replace ==
  /\ Planning /\ ~Matches(image) /\ image' = image + 1
  /\ \/ Existing(image) = {} /\ UNCHANGED deletes
     \/ \E e \in Existing(image) : deletes' = Append(deletes, e)
  /\ adds' = Append(adds, images[image])
  /\ Input /\ UNCHANGED <<gallery, current, run, answered, faults, pc>>

\* An image that cannot be loaded fails the row: nothing is planned for it.
NotLoaded ==
  /\ Planning /\ ~Matches(image) /\ faults < MaxFaults /\ faults' = faults + 1
  /\ pc' = "done" /\ answered' = [answered EXCEPT ![run] = FALSE]
  /\ Input /\ UNCHANGED <<gallery, current, run, image, deletes, adds>>

Planned ==
  /\ pc = "plan" /\ image > Len(images) /\ pc' = "send"
  /\ Input /\ UNCHANGED <<gallery, current, run, image, deletes, adds, answered, faults>>

Gone == [position |-> -1, label |-> "gone"]
Entries(g) == {e \in DOMAIN g : g[e] # Gone}

\* The deletes have no bulk route and are sent before the adds.
NextDelete == pc = "send" /\ deletes # <<>> /\ deletes' = Tail(deletes) /\ UNCHANGED adds
Deletes == gallery' = [gallery EXCEPT ![Head(deletes)] = Gone]
Missing == gallery[Head(deletes)] = Gone

\* Queued adds are worked off in any order.
NextAdd(a) ==
  /\ pc = "send" /\ deletes = <<>> /\ UNCHANGED deletes
  /\ mode = "sync" => a = 1
  /\ adds' = RemoveAt(adds, a)
Adds(a) == gallery' = Append(gallery, adds[a])

Done ==
  /\ \/ NextDelete /\ ~Missing /\ Deletes
     \/ \E a \in DOMAIN adds : NextAdd(a) /\ Adds(a)
  /\ Input /\ UNCHANGED <<current, run, image, answered, faults, pc>>

\* An entry that is deleted twice answers 404.
Refused ==
  /\ NextDelete /\ Missing
  /\ answered' = [answered EXCEPT ![run] = FALSE]
  /\ Input /\ UNCHANGED <<gallery, current, run, image, faults, pc>>

\* A call fails, with or without effect; the row's other calls are still sent.
Fails ==
  /\ faults < MaxFaults /\ faults' = faults + 1 /\ answered' = [answered EXCEPT ![run] = FALSE]
  /\ \/ NextDelete /\ (UNCHANGED gallery \/ Deletes)
     \/ \E a \in DOMAIN adds : NextAdd(a) /\ (UNCHANGED gallery \/ Adds(a))
  /\ Input /\ UNCHANGED <<current, run, image, pc>>

Complete ==
  /\ pc = "send" /\ deletes = <<>> /\ adds = <<>> /\ pc' = "done"
  /\ Input /\ UNCHANGED <<gallery, current, run, image, deletes, adds, answered, faults>>

\* The same rows are imported again.
Rerun ==
  /\ pc = "done" /\ run = 1 /\ run' = 2 /\ pc' = "read"
  /\ Input /\ UNCHANGED <<gallery, current, image, deletes, adds, answered, faults>>

Next ==
  \/ Read \/ Unreadable \/ NoImages \/ Skip \/ Replace \/ NotLoaded \/ Planned
  \/ Done \/ Refused \/ Fails \/ Complete \/ Rerun

Spec == Init /\ [][Next]_vars

---------------------------------------------------------------------------

TypeOK ==
  /\ pc \in {"read", "plan", "send", "done"} /\ run \in 1 .. 2 /\ faults <= MaxFaults
  /\ image \in 1 .. (Len(images) + 1)
  /\ \A e \in DOMAIN gallery : gallery[e] \in Image \cup {Gone}
  /\ Range(deletes) \subseteq DOMAIN current
  /\ pc = "plan" => Len(adds) < image
  /\ Range(adds) \subseteq Image

Distinct(s) == \A i, j \in DOMAIN s : s[i].position = s[j].position => i = j
Clear == Distinct(images) /\ Distinct(given)
AnImageFor(e, imgs) == \E i \in DOMAIN imgs : imgs[i].position = e.position

\* docs/Catalog-Importers.md:479-486: an entry at a position the row does not mention
\* is left alone, whatever fails.
OthersLeftAlone ==
  \A e \in DOMAIN given : ~AnImageFor(given[e], images) => gallery[e] = given[e]

\* A row that cannot be loaded or read changes nothing: after a first run that
\* planned no operation the gallery is as given.
FailedRowChangesNothing ==
  (run = 1 /\ pc = "done" /\ image <= Len(images)) => gallery = given

At(p) == {e \in Entries(gallery) : gallery[e].position = p}

\* Of a run whose calls were all answered well, the first or a rerun after any
\* failure, each of the row's images is in the gallery, and after a first run
\* no other entry is at its position.
ImagesInPlace ==
  (Clear /\ pc = "done" /\ answered[run]) =>
    \A i \in DOMAIN images :
      images[i] \in Range(gallery) /\ (run = 1 => Cardinality(At(images[i].position)) = 1)

\* A rerun replaces nothing that is in place: after a first run without an error
\* it plans no operation.
RerunPlansNothing == (Clear /\ run = 2 /\ answered[1] /\ pc = "send") => deletes = <<>> /\ adds = <<>>

\* docs/Catalog-Importers.md:483-484: the entry of another label at an image's
\* position is deleted; so it is by a rerun whose calls are answered well.
OldEntryDeleted ==
  (Clear /\ pc = "done" /\ run = 2 /\ answered[2]) =>
    \A i \in DOMAIN images : \A e \in At(images[i].position) : gallery[e].label = images[i].label

\* docs/Catalog-Importers.md:479-482: an image whose position and label an entry of the
\* gallery has already matches, and no operation is planned for it.
MatchingNotPlanned ==
  pc = "send" =>
    /\ Range(adds) \cap Range(current) = {}
    /\ \A d \in Range(deletes) : current[d] \notin Range(images)

=============================================================================
