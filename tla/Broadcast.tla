------------------------------ MODULE Broadcast ------------------------------
(***************************************************************************)
(* What a stream promises its pages (src/mjpeg/mjpeg_server.hpp:22-29):    *)
(* posting replaces the current image in one indivisible step, and a page  *)
(* that is given an image is given the one that is current at that moment. *)
(* A page may be skipped by some images, so that a slow one loses frames;  *)
(* it never gets half an image, an old one, or one nobody posted.          *)
(***************************************************************************)
EXTENDS Integers

CONSTANTS Pages,     \* the pages that may view the stream
          MaxPosts   \* bound: from this image on all images look the same

VARIABLES current,   \* the number of the latest image
          seen       \* the image each page shows; 0 before the first

\* The image that replaces image n.
Successor(n) == IF n < MaxPosts THEN n + 1 ELSE n

Init ==
  /\ current = 0
  /\ seen = [p \in Pages |-> 0]

Publish ==
  /\ current' = Successor(current)
  /\ UNCHANGED seen

Show(p) ==
  /\ seen' = [seen EXCEPT ![p] = current]
  /\ UNCHANGED current

\* The page is loaded anew.
Reload(p) ==
  /\ seen' = [seen EXCEPT ![p] = 0]
  /\ UNCHANGED current

Next == Publish \/ \E p \in Pages : Show(p) \/ Reload(p)

Spec == Init /\ [][Next]_<<current, seen>>

=============================================================================
