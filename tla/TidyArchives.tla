----------------------------- MODULE TidyArchives -----------------------------
(***************************************************************************)
(* Why ReadyIsPrepared holds of an image that one task alone prepares, of  *)
(* archives that are tidy, as long as no tag has moved: the inductive      *)
(* invariant of the proof in ImageStoreProofs.                             *)
(*                                                                         *)
(* Every attempt starts at the base layer, over what failed and killed     *)
(* attempts have left.  The archive in hand lays a path when its entry is  *)
(* done; what is laid stays until a later entry, or layer, has the path.   *)
(***************************************************************************)
EXTENDS ImageStore

LayersOf(m) == {m[k] : k \in DOMAIN m}
Own(d, p) == {e.op : e \in EntriesFor(d, p)}
LinksOf(d) == {x \in DOMAIN Entries[d] : Entries[d][x].op = "link"}
LinkNames(d) ==
  UNION {{Entries[d][x].path, Entries[d][x].from} : x \in LinksOf(d)}

-----------------------------------------------------------------------------
(* Tidy archives.  unpack_layer applies an archive in its order, so that a   *)
(* whiteout behind a file of its own layer would remove it.                  *)

WhiteoutsComeFirst(d) ==
  \A x, y \in DOMAIN Entries[d] :
    /\ x < y /\ Entries[d][y].op = "whiteout"
    /\ Touched(Entries[d][x]) \cap Touched(Entries[d][y]) # {}
    => Entries[d][x].op = "whiteout"

\* A hard link has its path to itself, and its target is a file in front of it.
LinksFollowFiles(d) ==
  \A x \in LinksOf(d) :
    /\ "write" \in Own(d, Entries[d][x].from)
    /\ \A y \in DOMAIN Entries[d] :
         /\ Entries[d][x].path \in Touched(Entries[d][y]) => x = y
         /\ Entries[d][x].from \in Touched(Entries[d][y]) =>
              y < x /\ Entries[d][y].op = "write"

\* A symbolic link gives way to a file of another layer, or to the whiteout of
\* its directory: exists() does not see it at its own path.
SymlinksStay(c, d) ==
  \A x \in DOMAIN Entries[c], y \in DOMAIN Entries[d] :
    Entries[c][x].op = "symlink" /\ Entries[d][y].path = Entries[c][x].path =>
      \/ Entries[d][y].op = "symlink"
      \/ Entries[d][y].op = "write" /\ c # d

\* A link over the links of another layer would be copied into all of them.
LinksAreApart(c, d) == c # d => LinkNames(c) \cap LinkNames(d) = {}

Tidy(m) ==
  \A d \in LayersOf(m) :
    /\ WhiteoutsComeFirst(d) /\ LinksFollowFiles(d)
    /\ \A c \in LayersOf(m) : SymlinksStay(c, d) /\ LinksAreApart(c, d)

TidyImage == {i \in Unshared : \A m \in Manifests[i] : Tidy(m)}

-----------------------------------------------------------------------------
(* The invariant.                                                          *)

\* What an attempt may have left at a path.
MayHold(m, p, v) ==
  \/ v = NoFile
  \/ \E d \in LayersOf(m) :
       \/ v = Symlink(d) /\ "symlink" \in Own(d, p)
       \/ v = Torn /\ "write" \in Own(d, p)
       \/ v = d /\ Own(d, p) \cap {"write", "link"} # {}

FilesAreOfImage ==
  \A i \in TidyImage, p \in Path : MayHold(current[i], p, tree[i][p])

\* Only names that an archive links are names of one file, which is its own ...
TwinsAreLinked ==
  \A i \in TidyImage, p, q \in Path :
    {p, q} \in twins[i] =>
      \E d \in LayersOf(current[i]) : {p, q} \subseteq LinkNames(d) /\ tree[i][p] = d

\* ... beside an open file and its path.
OpenIsPath ==
  \A i \in TidyImage, t \in Task, p \in Path :
    {p, t} \in twins[i] <=>
      At(t, "file") /\ job[t].image = i /\ p = EntryInHand(t).path

ConfigOf(m) == IF m \in Bare THEN <<>> ELSE m
ConfigsAreOfImages ==
  \A i \in TidyImage : config[i] \in {<<>>, ConfigOf(current[i])}

\* An attempt goes through the layers of the tag, and has put no link off.
TagIsFollowed(t) ==
  /\ job[t].pc \notin {"idle", "manifest"} => job[t].manifest = current[job[t].image]
  /\ job[t].deferred = <<>>
  /\ At(t, "file") => EntriesLeft(t) /\ EntryInHand(t).op = "write"

\* What the entries in front of the n-th say of a path.
OpsBefore(d, n, p) ==
  {Entries[d][x].op :
     x \in {y \in DOMAIN Entries[d] : y < n /\ p \in Touched(Entries[d][y])}}

Said(d, ops) == IF "symlink" \in ops THEN Symlink(d)
                ELSE IF ops \cap {"write", "link"} # {} THEN d ELSE NoFile

\* Layer j of m is the last of the first k - 1 that has something at p.
LastOf(m, j, k, p) ==
  /\ j < k /\ Own(m[j], p) # {}
  /\ \A l \in DOMAIN m : j < l /\ l < k => Own(m[l], p) = {}

\* A path is as the entries say that this attempt has unpacked.
PathIsLaid(t, p) ==
  LET m == job[t].manifest
      part == IF job[t].pc \in {"unpack", "file"}
              THEN OpsBefore(InHand(t), job[t].e, p) ELSE {}
      holds == tree[job[t].image][p]
  IN  IF part # {} THEN holds = Said(InHand(t), part)
      ELSE \A j \in DOMAIN m :
             LastOf(m, j, job[t].k, p) => holds = Said(m[j], Own(m[j], p))

LayersAreLaid(t) ==
  job[t].pc \in {"open", "unpack", "file", "seal"} =>
    \A p \in Path : (At(t, "file") => p # EntryInHand(t).path) => PathIsLaid(t, p)

\* When the target of a link has been written anew the link of an attempt before
\* is no name of it.
LinksAreNew(t) ==
  LET linked == twins[job[t].image]
      inHand == InHand(t)
  IN  /\ job[t].pc \in {"unpack", "file"} =>
           \A x \in LinksOf(inHand) :
             /\ job[t].e <= x /\ OpsBefore(inHand, job[t].e, Entries[inHand][x].from) # {}
             => {Entries[inHand][x].path, Entries[inHand][x].from} \notin linked
      /\ At(t, "file") => \A p \in Path : {p, EntryInHand(t).path} \notin linked

ConfigIsSaved(t) ==
  At(t, "seal") => /\ job[t].k > Len(job[t].manifest)
                   /\ config[job[t].image] = ConfigOf(job[t].manifest)

AttemptIsRight(t) ==
  TagIsFollowed(t) /\ LayersAreLaid(t) /\ LinksAreNew(t) /\ ConfigIsSaved(t)

\* unpack_layer over what is there (image_unpack_service.rs:37-169), where the
\* archives are tidy, the tag stays and the image is one task's: what this attempt
\* has laid is as its layers say, a link that is to be made again is no name of
\* the file it leads to, so that the copy that stands in for it does not empty
\* both, and what other attempts have left is at paths of the image and gone from
\* those that have been reached.
TidyInv ==
  /\ FilesAreOfImage /\ TwinsAreLinked /\ OpenIsPath /\ ConfigsAreOfImages
  /\ \A t \in Task : job[t].image \in TidyImage => AttemptIsRight(t)

\* ReadyIsPrepared, of these images.
TidyIsPrepared == \A i \in ready \cap TidyImage : Prepared(i)
=============================================================================
