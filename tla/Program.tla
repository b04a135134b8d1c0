------------------------------ MODULE Program ------------------------------
(***************************************************************************)
(* The process of src/src/grabzbar.cpp: main reads the options, fills the  *)
(* list of the stress test and starts the threads, which go on for ever    *)
(* beside each other - the scan and the stress test in the modules this    *)
(* one extends, the camera and the streamer only as far as they share      *)
(* something with those (see modules Capture and Streamer).                *)
(***************************************************************************)
EXTENDS BarcodeScan, StressTest

VARIABLES
  mpc,    \* where main is
  camera, \* the capture thread: "off", "running" or "ended"
  spc     \* the streamer thread: "off", "idle" or "locked"

mainVars == <<mpc, camera, spc>>
vars == <<globals, scanVars, stressVars, mainVars>>

Init ==
  /\ GlobalsInit /\ ScanInit /\ StressInit
  /\ mpc = "parse" /\ camera = "off" /\ spc = "off"

-----------------------------------------------------------------------------
(* main *)

\* --help, or a command line that does not parse.
Usage ==
  /\ mpc = "parse"
  /\ mpc' = "returned"
  /\ UNCHANGED <<globals, scanVars, stressVars, camera, spc>>

ParseOptions ==
  /\ mpc = "parse"
  /\ \E line \in CommandLines : options' = Given(line)
  /\ mpc' = IF options'["stresstest"] THEN "list" ELSE "streamer"
  /\ UNCHANGED <<mutex, current, fault, scanVars, stressVars, camera, spc>>

\* Mutant: the thread of the stress test is started with each image listed.
StartStressTestEarly ==
  /\ mpc = "list"
  /\ listed' = listed + 1
  /\ it' = 1
  /\ tpc' = "assign"
  /\ mpc' = IF listed' = Limit THEN "streamer" ELSE "list"
  /\ UNCHANGED <<globals, scanVars, shown, workers, at, copy, camera, spc>>

\* The images the glob matches are listed up to the limit, then the thread of
\* the stress test is started, and detached.  One action: no other thread reads
\* the list before.
StartStressTest ==
  /\ mpc = "list"
  /\ listed' \in 0..Limit
  /\ it' = 1
  /\ tpc' = "assign"
  /\ mpc' = "streamer"
  /\ UNCHANGED <<globals, scanVars, shown, workers, at, copy, camera, spc>>

StartStreamer ==
  /\ Alive /\ mpc = "streamer"
  /\ spc' = "idle"
  /\ mpc' = "capture"
  /\ UNCHANGED <<globals, scanVars, stressVars, camera>>

StartCapture ==
  /\ Alive /\ mpc = "capture"
  /\ camera' = "running"
  /\ mpc' = "barcode"
  /\ UNCHANGED <<globals, scanVars, stressVars, spc>>

StartBarcode ==
  /\ Alive /\ mpc = "barcode"
  /\ bpc' = "idle"
  /\ mpc' = IF options["debugwindow"] THEN "window" ELSE "join"
  /\ UNCHANGED <<globals, clone, thres, printed, stressVars, camera, spc>>

\* The loop of --debugwindow shows an image of the recogniser, a null pointer
\* unless a database was named; main never leaves it.
ShowWindow ==
  /\ Alive /\ mpc = "window"
  /\ fault' = IF options["name"] THEN fault ELSE "null_recogniser"
  /\ UNCHANGED <<options, mutex, current, scanVars, stressVars, mainVars>>

\* The join of the next thread, the streamer, never returns.
JoinCapture ==
  /\ Alive /\ mpc = "join" /\ camera = "ended"
  /\ mpc' = "join_streamer"
  /\ UNCHANGED <<globals, scanVars, stressVars, camera, spc>>

MainNext ==
  \/ Usage \/ ParseOptions \/ StartStressTest
  \/ StartStreamer \/ StartCapture \/ StartBarcode
  \/ ShowWindow \/ JoinCapture

-----------------------------------------------------------------------------
(* The camera and the streamer *)

\* Another block of rows is in currentImage.
NewImage ==
  /\ Alive /\ camera = "running"
  /\ current' \in Images
  /\ UNCHANGED <<options, mutex, fault, scanVars, stressVars, mainVars>>

\* capture() returns after an exception.
CaptureEnds ==
  /\ Alive /\ camera = "running"
  /\ camera' = "ended"
  /\ UNCHANGED <<globals, scanVars, stressVars, mpc, spc>>

StreamerLock ==
  /\ Alive /\ spc = "idle"
  /\ Acquire("streamer")
  /\ spc' = "locked"
  /\ UNCHANGED <<options, current, fault, scanVars, stressVars, mpc, camera>>

\* The clone, the post and the pause.
StreamerPosts ==
  /\ Alive /\ spc = "locked"
  /\ Release
  /\ spc' = "idle"
  /\ UNCHANGED <<options, current, fault, scanVars, stressVars, mpc, camera>>

\* No thread takes a step in a process that has died or returned.
Halted == (~Alive \/ mpc = "returned") /\ UNCHANGED vars

Next ==
  \/ MainNext \/ NewImage \/ CaptureEnds
  \/ StreamerLock \/ StreamerPosts
  \/ ScanNext /\ UNCHANGED <<stressVars, mainVars>>
  \/ StressNext /\ UNCHANGED <<scanVars, mainVars>>
  \/ Halted

Spec == Init /\ [][Next]_vars

ScanStep == (BarcodeClone \/ ScanThreshold \/ ScanEnds) /\ UNCHANGED <<stressVars, mainVars>>
ScanLocks == BarcodeLock /\ UNCHANGED <<stressVars, mainVars>>
Reports(w) == EndReport(w) /\ UNCHANGED <<scanVars, mainVars>>

(***************************************************************************)
(* Fairness.  A thread that can go on does.  The mutex is held for a clone *)
(* or a line of output, and every thread spends far longer without it than *)
(* with it, so that one which waits for it gets it in the end (SF).  While *)
(* there is no image the barcode thread takes the mutex again at once, and *)
(* SF rests on pthread_mutex letting a waiter in between.                  *)
(***************************************************************************)
Fairness ==
  /\ WF_vars(ScanStep) /\ SF_vars(ScanLocks)
  /\ WF_vars(StreamerPosts) /\ SF_vars(StreamerLock)
  /\ \A w \in Workers : WF_vars(Reports(w))

FairSpec == Spec /\ Fairness

-----------------------------------------------------------------------------
(* Properties *)

TypeOK ==
  /\ OptionsOK
  /\ mutex \in {"free", "barcode", "streamer", "worker"}
  /\ current \in Images \cup {Empty}
  /\ fault \in {"none", "end_dereferenced", "null_pixels", "null_recogniser"}
  /\ ScanTypeOK /\ StressTypeOK
  /\ mpc \in {"parse", "list", "streamer", "capture", "barcode", "window",
              "join", "join_streamer", "returned"}
  /\ camera \in {"off", "running", "ended"}
  /\ spc \in {"off", "idle", "locked"}

\* What the threads read without a lock, the options and the list of images,
\* does not change once a thread runs.
FrozenWhileThreadsRun ==
  [][bpc # "off" \/ spc # "off" \/ tpc # "off" => UNCHANGED <<options, listed>>]_vars

\* Whatever the camera, the stress test and each other do, the barcode thread
\* and the streamer read the image again and again, after the capture thread
\* has ended too, as long as the process lives and the scan can end.
KeepsReading ==
  /\ SaneThresholds /\ bpc = "idle" ~> bpc = "locked" \/ ~Alive
  /\ SaneThresholds /\ bpc = "locked" ~> bpc = "idle" \/ ~Alive
  /\ spc = "idle" ~> spc = "locked" \/ ~Alive

=============================================================================
