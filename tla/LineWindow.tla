----------------------------- MODULE LineWindow -----------------------------
(***************************************************************************)
(* What the live image promises its readers: it always shows the last      *)
(* ImageHeight rows the line camera delivered, oldest first, and every     *)
(* delivered block of GrabHeight rows scrolls it up in one indivisible     *)
(* step.  A row is identified by the position at which the camera          *)
(* delivered it (1, 2, ...); 0 is a row that is still black.               *)
(*                                                                         *)
(* The two memcpy calls of capture() (src/src/grabzbar.cpp:356-357) are    *)
(* meant to implement Scroll; module Capture copies row by row, next to    *)
(* two threads that read the image, and refines this specification.        *)
(***************************************************************************)
EXTENDS Integers

CONSTANTS ImageHeight,  \* rows of the live image
          GrabHeight    \* rows of one delivered block

VARIABLES window,       \* the image, a row position for every line of it
          delivered     \* how many rows the camera has delivered

Init ==
  /\ window = [i \in 1..ImageHeight |-> 0]
  /\ delivered = 0

Scroll ==
  /\ delivered' = delivered + GrabHeight
  /\ window' = [i \in 1..ImageHeight |->
                  IF i <= ImageHeight - GrabHeight
                  THEN window[i + GrabHeight]
                  ELSE delivered + GrabHeight - ImageHeight + i]

Spec == Init /\ [][Scroll]_<<window, delivered>>

=============================================================================
