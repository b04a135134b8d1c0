----------------------------- MODULE StressTest -----------------------------
(***************************************************************************)
(* The stress test of src/src/grabzbar.cpp: run_stresstest assigns one     *)
(* image of a list after the other to the global stressTestImage, each     *)
(* time starting a thread that clones it, recognises its address and       *)
(* prints a report under the global mutex.                                 *)
(*                                                                         *)
(* The assignment and the clone use no lock.  cv::Mat's operator= releases *)
(* the old image, then copies the size, then the pointer to the pixels;    *)
(* clone() reads the size, then the pixels.  Images are numbered by their  *)
(* assignments, a released one is 0.                                       *)
(***************************************************************************)
EXTENDS Globals

CONSTANTS
  Limit,      \* limit in main: the list holds at most 1000 images
  MaxWorkers  \* bound: the number of images replayed

ASSUME StressTestAssumption == Limit \in Nat \ {0} /\ MaxWorkers \in Nat

VARIABLES
  listed, \* the length of stressTestList; its elements are 1..listed
  it,     \* the position of the iterator, listed + 1 for end()
  shown,  \* stressTestImage: whose size and whose pixels it has
  tpc,    \* where run_stresstest is
  workers,\* the threads started so far
  at,     \* where each of them is
  copy    \* its clone of stressTestImage

stressVars == <<listed, it, shown, tpc, workers, at, copy>>

Workers == 1..MaxWorkers
Header == [size : 0..MaxWorkers, pixels : 0..MaxWorkers]
Released == [size |-> 0, pixels |-> 0]

StressInit ==
  /\ listed = 0 /\ it = 1
  /\ shown = Released
  /\ tpc = "off"
  /\ workers = 0
  /\ at = [w \in Workers |-> "off"]
  /\ copy = [w \in Workers |-> Released]

StressAt(l) == Alive /\ tpc = l
WorkerAt(w, l) == Alive /\ at[w] = l

-----------------------------------------------------------------------------
(* run_stresstest *)

\* Mutant: an image is assigned only if there is none yet.
BeginAssignOnce ==
  /\ StressAt("assign") /\ workers < MaxWorkers
  /\ tpc' = IF shown = Released THEN "size" ELSE "spawn"
  /\ UNCHANGED <<globals, listed, it, shown, workers, at, copy>>

\* stressTestImage = *it begins.  Beyond the last element that is undefined
\* behaviour: the process dies, or takes what it finds there for an image.
BeginAssign ==
  /\ StressAt("assign") /\ workers < MaxWorkers
  /\ \/ fault' = fault
     \/ it > listed /\ fault' = "end_dereferenced"
  /\ shown' = Released
  /\ tpc' = "size"
  /\ UNCHANGED <<options, mutex, current, listed, it, workers, at, copy>>

AssignSize ==
  /\ StressAt("size")
  /\ shown' = [shown EXCEPT !.size = workers + 1]
  /\ tpc' = "pixels"
  /\ UNCHANGED <<globals, listed, it, workers, at, copy>>

AssignPixels ==
  /\ StressAt("pixels")
  /\ shown' = [shown EXCEPT !.pixels = shown.size]
  /\ tpc' = "spawn"
  /\ UNCHANGED <<globals, listed, it, workers, at, copy>>

\* Mutant: the iterator is advanced and never set back.
StartWorkerNoWrap ==
  /\ StressAt("spawn")
  /\ workers' = workers + 1
  /\ at' = [at EXCEPT ![workers + 1] = "started"]
  /\ it' = it + 1
  /\ tpc' = "assign"
  /\ UNCHANGED <<globals, listed, shown, copy>>

\* The list is circular: begin() of an empty list is end(), and stays so.
NextPosition ==
  LET from == IF it > listed THEN 1 ELSE it
  IN IF from > listed THEN 1 ELSE from + 1

\* The thread is detached; only now is the iterator compared with end().
StartWorker ==
  /\ StressAt("spawn")
  /\ workers' = workers + 1
  /\ at' = [at EXCEPT ![workers + 1] = "started"]
  /\ it' = NextPosition
  /\ tpc' = "assign"
  /\ UNCHANGED <<globals, listed, shown, copy>>

-----------------------------------------------------------------------------
(* run_stresstest_image *)

ReadSize(w) ==
  /\ WorkerAt(w, "started")
  /\ copy' = [copy EXCEPT ![w].size = shown.size]
  /\ at' = [at EXCEPT ![w] = "sized"]
  /\ UNCHANGED <<globals, listed, it, shown, tpc, workers>>

\* An empty image has no pixels to read; released pixels are a null pointer.
ReadPixels(w) ==
  /\ WorkerAt(w, "sized")
  /\ fault' = IF copy[w].size # 0 /\ shown.pixels = 0 THEN "null_pixels" ELSE fault
  /\ copy' = [copy EXCEPT ![w].pixels = shown.pixels]
  /\ at' = [at EXCEPT ![w] = "recognising"]
  /\ UNCHANGED <<options, mutex, current, listed, it, shown, tpc, workers>>

\* Mutant: the report is begun without the mutex.
BeginReportUnlocked(w) ==
  /\ WorkerAt(w, "recognising")
  /\ mutex' = "worker"
  /\ at' = [at EXCEPT ![w] = "reporting"]
  /\ UNCHANGED <<options, current, fault, listed, it, shown, tpc, workers, copy>>

\* The first part of the report, after mutex.lock().
BeginReport(w) ==
  /\ WorkerAt(w, "recognising")
  /\ Acquire("worker")
  /\ at' = [at EXCEPT ![w] = "reporting"]
  /\ UNCHANGED <<options, current, fault, listed, it, shown, tpc, workers, copy>>

\* Mutant: the mutex is not released.
EndReportLocked(w) ==
  /\ WorkerAt(w, "reporting")
  /\ at' = [at EXCEPT ![w] = "done"]
  /\ UNCHANGED <<globals, listed, it, shown, tpc, workers, copy>>

\* The rest of the line, and mutex.unlock().
EndReport(w) ==
  /\ WorkerAt(w, "reporting")
  /\ Release
  /\ at' = [at EXCEPT ![w] = "done"]
  /\ UNCHANGED <<options, current, fault, listed, it, shown, tpc, workers, copy>>

StressNext ==
  \/ BeginAssign \/ AssignSize \/ AssignPixels \/ StartWorker
  \/ \E w \in Workers :
       ReadSize(w) \/ ReadPixels(w) \/ BeginReport(w) \/ EndReport(w)

-----------------------------------------------------------------------------
(* Properties *)

StressTypeOK ==
  /\ listed \in 0..Limit
  /\ it \in 1..(listed + 1)
  /\ shown \in Header
  /\ tpc \in {"off", "assign", "size", "pixels", "spawn"}
  /\ workers \in 0..MaxWorkers
  /\ at \in [Workers -> {"off", "started", "sized", "recognising", "reporting", "done"}]
  /\ copy \in [Workers -> Header]

\* The n-th thread works on nothing older than the n-th image: what it cloned
\* without a lock is empty, or its size and its pixels are those of the image
\* it was started for or of one assigned since, if the process survived.
CloneNotOlder ==
  \A w \in Workers :
    Alive /\ at[w] \in {"recognising", "reporting", "done"} =>
      \/ copy[w].size = 0
      \/ copy[w].size >= w /\ copy[w].pixels >= w

\* What two threads report of the addresses they found is never mixed.  (Other
\* output, which is written without the mutex, may still cut in.)
ReportsWhole ==
  \A v, w \in Workers : at[v] = "reporting" /\ at[w] = "reporting" => v = w

\* "Iterate and print values of the list" (grabzbar.cpp:514): the iterator
\* points at an element of a list that has any whenever it is dereferenced.
DereferencesElement == tpc = "assign" /\ listed # 0 => it <= listed

=============================================================================
