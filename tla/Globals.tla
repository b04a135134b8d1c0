------------------------------ MODULE Globals ------------------------------
(***************************************************************************)
(* The globals of src/src/grabzbar.cpp that its threads share: the options *)
(* main sets from the command line, the mutex, and currentImage as far as  *)
(* the scan tells images apart (module Capture models its rows).           *)
(***************************************************************************)
EXTENDS Integers

CONSTANTS
  CommandLines, \* functions from the options given to their values
  IntMax,       \* the largest int
  Symbols,      \* the bar codes there are.  A symbol has a type, says whether
                \* it is all digits and begins with "0000", whether it is
                \* uncut in the top third of the image by the lines between
                \* the thirds of its width, and at which thresholds zbar
                \* reads it
  Views         \* the sets of symbols an image may show

ASSUME GlobalsAssumption ==
  /\ IntMax \in Nat /\ IntMax >= 160
  /\ Views \subseteq SUBSET Symbols

VARIABLES
  options,  \* the values of the options that other threads read
  mutex,    \* who holds the global mutex, or "free"
  current,  \* currentImage: empty, or showing some symbols
  fault     \* why the process died, or "none"

globals == <<options, mutex, current, fault>>

Ints == (-IntMax - 1)..IntMax

Empty == [empty |-> TRUE, shows |-> {}]
Images == {[empty |-> FALSE, shows |-> s] : s \in Views}

\* What an option is if it is not given.  The --name of a database is what
\* the recogniser of addresses needs, its value does not matter here.
Defaults ==
  [bc_thres_start |-> 60, bc_thres_stop |-> 160, bc_thres_step |-> 20,
   bc_clahe |-> FALSE, stresstest |-> FALSE, debugwindow |-> FALSE,
   name |-> FALSE]

Given(line) ==
  [o \in DOMAIN Defaults |-> IF o \in DOMAIN line THEN line[o] ELSE Defaults[o]]

ThresholdOptions == {"bc_thres_start", "bc_thres_stop", "bc_thres_step"}

ASSUME CommandLinesAssumption ==
  \A line \in CommandLines, o \in DOMAIN Defaults :
    IF o \in ThresholdOptions THEN Given(line)[o] \in Ints
    ELSE Given(line)[o] \in BOOLEAN

GlobalsInit ==
  /\ options = Defaults
  /\ mutex = "free"
  /\ current = Empty
  /\ fault = "none"

OptionsOK == options \in {Given(line) : line \in CommandLines} \cup {Defaults}

Alive == fault = "none"

Acquire(who) == mutex = "free" /\ mutex' = who
Release == mutex' = "free"

=============================================================================
