----------------------------- MODULE SharedImages -----------------------------
(***************************************************************************)
(* Why ReadyAtRest holds of an image that the reconciler and the smoke test *)
(* prepare at once: the inductive invariant of the proof in                *)
(* ImageStoreProofs.                                                       *)
(*                                                                         *)
(* Both unpack the same layers into one rootfs, at their own pace.  The    *)
(* task behind undoes what the other has laid and lays it again; whoever   *)
(* is the last to have a path in front of it leaves it as the layers say,  *)
(* unless it gives up before: the archives are such that it does not.      *)
(***************************************************************************)
EXTENDS TidyArchives

\* main.rs starts two tasks that prepare images.
TwoTasks == \A t, u, v \in Task : t = u \/ u = v \/ t = v

-----------------------------------------------------------------------------
(* Archives two tasks can unpack over each other.                          *)

EntriesAreApart(d) ==
  \A x, y \in DOMAIN Entries[d] :
    Touched(Entries[d][x]) \cap Touched(Entries[d][y]) # {} => x = y

\* What two layers have at one path the upper one hides: a task that is about to
\* write it does not fail because the other, ahead of it, removes it.
UpperOnlyHides(m) ==
  \A j, k \in DOMAIN m : j < k =>
    \A x \in DOMAIN Entries[m[j]], y \in DOMAIN Entries[m[k]] :
      Touched(Entries[m[j]][x]) \cap Touched(Entries[m[k]][y]) # {} =>
        Entries[m[j]][x].op # "whiteout" /\ Entries[m[k]][y].op = "whiteout"

Shareable(m) ==
  /\ Tidy(m) /\ UpperOnlyHides(m)
  /\ \A d \in LayersOf(m) : LinksOf(d) = {} /\ EntriesAreApart(d)

SharedImage == {i \in Image : \A m \in Manifests[i] : Shareable(m)}

-----------------------------------------------------------------------------
(* The invariant.                                                          *)

Unpacks(t, i) ==
  job[t].image = i /\ job[t].pc \in {"open", "unpack", "file", "seal"}

\* A task has an entry at p in front of it.  The file it has open is at its path
\* as long as nobody has removed that.
Due(t, p) ==
  \/ \E j \in DOMAIN job[t].manifest :
       /\ Own(job[t].manifest[j], p) # {}
       /\ IF At(t, "open") THEN job[t].k <= j ELSE job[t].k < j
  \/ /\ job[t].pc \in {"unpack", "file"}
     /\ \E x \in DOMAIN Entries[InHand(t)] :
          /\ p \in Touched(Entries[InHand(t)][x])
          /\ job[t].e <= x
          /\ At(t, "file") /\ job[t].e = x => {p, t} \in twins[job[t].image]

SomeoneIsDue(i, p) == \E t \in Task : Unpacks(t, i) /\ Due(t, p)
Reached(i, p) == i \in ready \/ \E t \in Task : Unpacks(t, i) /\ ~Due(t, p)

\* When one task has been through a path and none has it in front of it, it is as
\* the layers say.
PathsAreMerged ==
  \A i \in SharedImage, p \in Path :
    Reached(i, p) /\ ~SomeoneIsDue(i, p) => tree[i][p] = Merged(current[i])[p]

\* What is at a path is of a layer, and no other name of it but an open file.
FilesAreOfShared ==
  \A i \in SharedImage, p \in Path :
    /\ MayHold(current[i], p, tree[i][p])
    /\ \A q \in Path : {p, q} \notin twins[i]
    /\ \A t \in Task : {p, t} \in twins[i] =>
         At(t, "file") /\ job[t].image = i /\ p = EntryInHand(t).path

ConfigsAreShared ==
  \A i \in SharedImage :
    /\ config[i] \in {<<>>, ConfigOf(current[i])}
    /\ i \in ready => config[i] = ConfigOf(current[i])

\* Tarballs, on the way to "whole": none goes back, and a part of one has a task
\* that writes it.
Filed(d) == tarball[d] \in {"partial", "whole"}
PartsAreWritten ==
  \A d \in Layer : tarball[d] = "partial" =>
    \E t \in Task : At(t, "write") /\ InHand(t) = d

LayersAreFound(t) ==
  \A j \in DOMAIN job[t].manifest :
    /\ job[t].pc \in {"pull", "mkdir", "fetch", "write"} /\ j < job[t].k =>
         tarball[job[t].manifest[j]] # "absent"
    /\ At(t, "write") /\ j = job[t].k => Filed(InHand(t))
    /\ Unpacks(t, job[t].image) =>
         /\ tarball[job[t].manifest[j]] # "absent"
         /\ \/ j < job[t].k
            \/ j = job[t].k /\ job[t].pc \in {"unpack", "file"}
            => Filed(job[t].manifest[j])

Fetches(t, d) == job[t].pc \in {"mkdir", "fetch", "write"} /\ InHand(t) = d

\* Of a sealed image every tarball is there, and the task that is still at work on
\* it is alone with them.
SealedAreFiled ==
  \A i \in ready \cap SharedImage : \A d \in LayersOf(current[i]) :
    /\ Filed(d)
    /\ \A t, u \in Task : job[t].image = i /\ u # t => ~Fetches(u, d)

AttemptIsShared(t) == TagIsFollowed(t) /\ ConfigIsSaved(t)

\* unpack_layer of two tasks over each other (main.rs:231-282 beside the
\* reconciler), where the archives allow it, no tag moves and nothing else fails:
\* what one has passed the other lays in the end, or has found laid.
SharedInv ==
  /\ PathsAreMerged /\ FilesAreOfShared /\ ConfigsAreShared
  /\ PartsAreWritten /\ SealedAreFiled
  /\ \A t \in Task : LayersAreFound(t)
  /\ \A t \in Task : job[t].image \in SharedImage => AttemptIsShared(t)

SharedHolds == moves = 0 /\ faults = 0 /\ crashes = 0 => SharedInv
=============================================================================
