--------------------------- MODULE MCImageStore ---------------------------
(* Instances of ImageStore for TLC.  One layer is shared; the upper one    *)
(* removes files of what is below it and others replace them, so that the  *)
(* order of the layers matters, and the order of the entries in each.      *)
EXTENDS SharedImages

CONSTANTS reconciler, smoke, alpine, app, lower, upper, other, broken, a, b, c, d

Write(p) == [op |-> "write", path |-> p]
Link(p, q) == [op |-> "link", path |-> p, from |-> q]
Whiteout(p) == [op |-> "whiteout", path |-> p]
Dangling(p) == [op |-> "symlink", path |-> p]

InD == [x \in Dir |-> {b, c}]

\* A link that comes before its target, a directory that is cleared, a link
\* whose name is taken.
Linked == [l \in Layer |->
             CASE l = lower -> <<Link(b, a), Write(a), Dangling(c)>>
               [] l = upper -> <<Whiteout(a), Whiteout(d), Write(b), Dangling(c)>>
               [] l = other -> <<Write(a), Link(b, a), Dangling(c)>>
               [] l = broken -> <<Link(a, b)>>]

\* Without links.
Unlinked == [l \in Layer |->
               CASE l = lower -> <<Write(a), Write(b)>>
                 [] l = upper -> <<Whiteout(a), Write(c)>>
                 [] l = other -> <<Write(b)>>]

EachWantsAll == [t \in Task |-> Image]

\* Tags that are not moved: alpine's archives are tidy; app's put a link in front
\* of its target, or have one to nothing.
Fixed == [i \in Image |-> IF i = alpine THEN {<<other, upper>>, <<upper, other>>}
                         ELSE {<<lower, other>>, <<broken>>}]

\* The tag is pointed to another image.
Moving == [i \in Image |-> {<<lower, upper>>, <<other>>}]

OnlyOther == {<<lower, other>>}
=============================================================================
