--------------------------- MODULE ProgramProofs ---------------------------
(***************************************************************************)
(* Theorems about module Program, for all command lines, symbols and views *)
(* and any number of images and workers.                                   *)
(***************************************************************************)
EXTENDS Program, TLAPS

\* The three assumptions on the constants, in the form the proofs use.
LEMMA ConstantFacts ==
  /\ IntMax \in Nat /\ IntMax >= 160
  /\ \A line \in CommandLines, o \in ThresholdOptions : Given(line)[o] \in Ints
  /\ Limit \in Nat /\ MaxWorkers \in Nat
<1>1. \A line \in CommandLines, o \in ThresholdOptions : Given(line)[o] \in Ints
  BY CommandLinesAssumption DEF ThresholdOptions, Defaults
<1> QED BY <1>1, GlobalsAssumption, StressTestAssumption

-----------------------------------------------------------------------------
(* Types *)

\* The thresholds of any command line are ints.
LEMMA ThresholdsAreInts ==
  ASSUME OptionsOK
  PROVE  Start \in Ints /\ Stop \in Ints /\ Step \in Ints
<1>1. CASE options = Defaults
  BY <1>1, ConstantFacts DEF Defaults, Start, Stop, Step, Ints
<1>2. CASE options \in {Given(line) : line \in CommandLines}
  BY <1>2, ConstantFacts DEF ThresholdOptions, Start, Stop, Step
<1> QED BY <1>1, <1>2 DEF OptionsOK

\* Wrapped or not, the sum of two ints is an int.
LEMMA PlusIsInt ==
  ASSUME NEW a \in Ints, NEW b \in Ints
  PROVE  Plus(a, b) \in Ints
BY ConstantFacts DEF Plus, Ints

\* The circular list has one position more than elements.
LEMMA NextPositionType ==
  ASSUME listed \in Nat, it \in 1..(listed + 1)
  PROVE  NextPosition \in 1..(listed + 1)
BY DEF NextPosition

LEMMA BeginType == \A n \in 0..Limit : 1 \in 1..(n + 1)
BY ConstantFacts

\* An image that is being assigned is one of those the bound allows.
Bounded == tpc \in {"size", "pixels", "spawn"} => workers < MaxWorkers

TypeInv == TypeOK /\ Bounded

\* A field of a header may be set to the number of any image.
LEMMA HeaderUpdates ==
  ASSUME NEW h \in Header, NEW n \in 0..MaxWorkers
  PROVE  [h EXCEPT !.size = n] \in Header /\ [h EXCEPT !.pixels = n] \in Header
BY DEF Header

LEMMA TypeInit == Init => TypeInv
BY ConstantFacts DEF Init, GlobalsInit, ScanInit, StressInit, TypeInv, Bounded, TypeOK, OptionsOK, ScanTypeOK,
  StressTypeOK, Header, Released, Ints, Workers

LEMMA TypeMain == TypeInv /\ MainNext => TypeInv'
<1> SUFFICES ASSUME TypeInv, MainNext PROVE TypeInv' OBVIOUS
<1> USE ConstantFacts DEF TypeInv, Bounded, TypeOK, ScanTypeOK, StressTypeOK, globals, scanVars, stressVars, mainVars
<1>1. CASE Usage BY <1>1 DEF Usage, OptionsOK
<1>2. CASE ParseOptions
  <2>1. options' \in {Given(line) : line \in CommandLines} BY <1>2 DEF ParseOptions
  <2>2. mpc' \in {"list", "streamer"} BY <1>2, Zenon DEF ParseOptions
  <2>3. UNCHANGED <<mutex, current, fault, scanVars, stressVars, camera, spc>>
    BY <1>2, Zenon DEF ParseOptions
  <2>4. OptionsOK' BY <2>1, Zenon DEF OptionsOK
  <2> QED BY <2>2, <2>3, <2>4
<1>3. CASE StartStressTest
  <2>1. listed' \in 0..Limit /\ it' = 1 /\ tpc' = "assign" BY <1>3 DEF StartStressTest
  <2>2. it' \in 1..(listed' + 1) BY <2>1, BeginType, Zenon
  <2>3. mpc' = "streamer" /\ UNCHANGED <<globals, scanVars, shown, workers, at, copy, camera, spc>>
    BY <1>3 DEF StartStressTest
  <2>4. StressTypeOK' BY <2>1, <2>2, <2>3
  <2>5. ScanTypeOK' /\ OptionsOK' BY <2>3 DEF OptionsOK
  <2>6. TypeOK' BY <2>3, <2>4, <2>5
  <2> QED BY <2>1, <2>6
<1>4. CASE StartStreamer BY <1>4 DEF StartStreamer, OptionsOK
<1>5. CASE StartCapture BY <1>5 DEF StartCapture, OptionsOK
<1>6. CASE StartBarcode BY <1>6 DEF StartBarcode, OptionsOK
<1>7. CASE ShowWindow BY <1>7 DEF ShowWindow, OptionsOK
<1>8. CASE JoinCapture BY <1>8 DEF JoinCapture, OptionsOK
<1> QED BY <1>1, <1>2, <1>3, <1>4, <1>5, <1>6, <1>7, <1>8 DEF MainNext

LEMMA TypeScan == TypeInv /\ ScanNext /\ UNCHANGED <<stressVars, mainVars>> => TypeInv'
<1> SUFFICES ASSUME TypeInv, ScanNext, UNCHANGED <<stressVars, mainVars>> PROVE TypeInv' OBVIOUS
<1> USE DEF TypeInv, Bounded, TypeOK, OptionsOK, ScanTypeOK, StressTypeOK, globals, scanVars, stressVars, mainVars
<1>0. Start \in Ints /\ Step \in Ints BY ThresholdsAreInts
<1>1. CASE BarcodeLock BY <1>1 DEF BarcodeLock, Acquire
<1>2. CASE BarcodeClone BY <1>0, <1>2 DEF BarcodeClone, Release
<1>3. CASE ScanThreshold
  <2>1. thres' \in Ints BY <1>0, <1>3, PlusIsInt DEF ScanThreshold
  <2>2. clone.shows \subseteq Symbols
    BY GlobalsAssumption DEF Images, Empty
  <2>3. printed' \subseteq Symbols \X Ints BY <1>3, <2>2 DEF ScanThreshold
  <2> QED BY <1>3, <2>1, <2>3 DEF ScanThreshold
<1>4. CASE ScanEnds BY <1>4 DEF ScanEnds
<1> QED BY <1>1, <1>2, <1>3, <1>4 DEF ScanNext

LEMMA TypeStress == TypeInv /\ StressNext /\ UNCHANGED <<scanVars, mainVars>> => TypeInv'
<1> SUFFICES ASSUME TypeInv, StressNext, UNCHANGED <<scanVars, mainVars>> PROVE TypeInv' OBVIOUS
<1> USE ConstantFacts DEF TypeInv, Bounded, TypeOK, OptionsOK, ScanTypeOK, StressTypeOK, globals, scanVars, mainVars,
      StressAt, WorkerAt, Workers
<1>0. shown.size \in 0..MaxWorkers /\ shown.pixels \in 0..MaxWorkers BY DEF Header
<1>1. CASE BeginAssign BY <1>1 DEF BeginAssign, Released, Header
<1>2. CASE AssignSize
  <2>0. workers + 1 \in 0..MaxWorkers BY <1>2 DEF AssignSize
  <2>1. shown' \in Header BY <1>2, <2>0, HeaderUpdates DEF AssignSize
  <2> QED BY <1>2, <2>1 DEF AssignSize
<1>3. CASE AssignPixels
  <2>1. shown' \in Header BY <1>0, <1>3, HeaderUpdates DEF AssignPixels
  <2> QED BY <1>3, <2>1 DEF AssignPixels
<1>4. CASE StartWorker
  <2>1. it' \in 1..(listed' + 1) BY <1>4, NextPositionType DEF StartWorker
  <2> QED BY <1>4, <2>1 DEF StartWorker
<1>5. ASSUME NEW w \in Workers, ReadSize(w) PROVE TypeInv'
  <2>1. [copy[w] EXCEPT !.size = shown.size] \in Header BY <1>0, HeaderUpdates
  <2>2. copy' \in [Workers -> Header] BY <1>5, <2>1 DEF ReadSize
  <2> QED BY <1>5, <2>2 DEF ReadSize
<1>6. ASSUME NEW w \in Workers, ReadPixels(w) PROVE TypeInv'
  <2>1. [copy[w] EXCEPT !.pixels = shown.pixels] \in Header BY <1>0, HeaderUpdates
  <2>2. copy' \in [Workers -> Header] BY <1>6, <2>1 DEF ReadPixels
  <2> QED BY <1>6, <2>2 DEF ReadPixels
<1>7. ASSUME NEW w \in Workers, BeginReport(w) PROVE TypeInv' BY <1>7 DEF BeginReport, Acquire
<1>8. ASSUME NEW w \in Workers, EndReport(w) PROVE TypeInv' BY <1>8 DEF EndReport, Release
<1> QED BY <1>1, <1>2, <1>3, <1>4, <1>5, <1>6, <1>7, <1>8 DEF StressNext

LEMMA TypeOthers ==
  ASSUME TypeInv, \/ NewImage \/ CaptureEnds \/ StreamerLock \/ StreamerPosts
                  \/ UNCHANGED vars
  PROVE  TypeInv'
BY ConstantFacts DEF TypeInv, Bounded, TypeOK, OptionsOK, ScanTypeOK, StressTypeOK, vars, globals, scanVars,
  stressVars, mainVars, NewImage, CaptureEnds, StreamerLock, StreamerPosts, Acquire, Release

LEMMA TypeStep == TypeInv /\ [Next]_vars => TypeInv'
BY TypeMain, TypeScan, TypeStress, TypeOthers DEF Next, Halted

\* Every variable of the program keeps its type; an int stays an int although
\* thresholds wrap around.
THEOREM TypeCorrect == Spec => []TypeOK
<1>1. TypeInv => TypeOK BY DEF TypeInv
<1> QED BY TypeInit, TypeStep, <1>1, PTL DEF Spec

-----------------------------------------------------------------------------
(* What the threads read does not change *)

\* Main starts the threads one after the other, none before its options and
\* the list of images are there.
StartOrder ==
  /\ mpc \in {"parse", "list", "streamer", "capture", "barcode"} => bpc = "off"
  /\ mpc \in {"parse", "list", "streamer"} => spc = "off"
  /\ mpc \in {"parse", "list"} => tpc = "off"

LEMMA OrderMain ==
  ASSUME StartOrder, MainNext
  PROVE  StartOrder'
<1> USE DEF StartOrder, globals, scanVars, stressVars, mainVars
<1>1. CASE Usage BY <1>1 DEF Usage
<1>2. CASE ParseOptions
  <2>1. mpc = "parse" /\ UNCHANGED <<scanVars, stressVars, spc>>
    BY <1>2, Zenon DEF ParseOptions
  <2> QED BY <2>1
<1>3. CASE StartStressTest BY <1>3 DEF StartStressTest
<1>4. CASE StartStreamer BY <1>4 DEF StartStreamer
<1>5. CASE StartCapture BY <1>5 DEF StartCapture
<1>6. CASE StartBarcode
  <2>1. mpc' \in {"window", "join"} BY <1>6, Zenon DEF StartBarcode
  <2> QED BY <2>1
<1>7. CASE ShowWindow BY <1>7 DEF ShowWindow
<1>8. CASE JoinCapture BY <1>8 DEF JoinCapture
<1> QED BY <1>1, <1>2, <1>3, <1>4, <1>5, <1>6, <1>7, <1>8 DEF MainNext

LEMMA OrderThreads ==
  ASSUME StartOrder,
         \/ ScanNext /\ UNCHANGED <<stressVars, mainVars>>
         \/ StressNext /\ UNCHANGED <<scanVars, mainVars>>
         \/ NewImage \/ CaptureEnds \/ StreamerLock \/ StreamerPosts
         \/ UNCHANGED vars
  PROVE  StartOrder'
<1> USE DEF StartOrder, globals, scanVars, stressVars, mainVars
<1>1. CASE ScanNext /\ UNCHANGED <<stressVars, mainVars>>
  BY <1>1 DEF ScanNext, BarcodeLock, BarcodeClone, ScanThreshold, ScanEnds
<1>2. CASE StressNext /\ UNCHANGED <<scanVars, mainVars>>
  BY <1>2 DEF StressNext, BeginAssign, AssignSize, AssignPixels, StartWorker,
    ReadSize, ReadPixels, BeginReport, EndReport, StressAt
<1>3. CASE NewImage \/ CaptureEnds \/ StreamerLock \/ StreamerPosts \/ UNCHANGED vars
  BY <1>3 DEF NewImage, CaptureEnds, StreamerLock, StreamerPosts, vars
<1> QED BY <1>1, <1>2, <1>3

LEMMA OrderStep == StartOrder /\ [Next]_vars => StartOrder'
BY OrderMain, OrderThreads DEF Next, Halted

LEMMA OrderInvariant == Spec => []StartOrder
<1>1. Init => StartOrder BY DEF Init, ScanInit, StressInit, StartOrder
<1> QED BY <1>1, OrderStep, PTL DEF Spec

\* The steps of the threads leave the options and the list as they are.
LEMMA ThreadsKeepOptions ==
  ASSUME \/ ScanNext /\ UNCHANGED <<stressVars, mainVars>>
         \/ StressNext /\ UNCHANGED <<scanVars, mainVars>>
         \/ NewImage \/ CaptureEnds \/ StreamerLock \/ StreamerPosts
         \/ UNCHANGED vars
  PROVE  UNCHANGED <<options, listed>>
<1> USE DEF globals, stressVars
<1>1. CASE ScanNext /\ UNCHANGED <<stressVars, mainVars>>
  BY <1>1 DEF ScanNext, BarcodeLock, BarcodeClone, ScanThreshold, ScanEnds
<1>2. CASE StressNext /\ UNCHANGED <<scanVars, mainVars>>
  BY <1>2 DEF StressNext, BeginAssign, AssignSize, AssignPixels, StartWorker,
    ReadSize, ReadPixels, BeginReport, EndReport
<1>3. CASE NewImage \/ CaptureEnds \/ StreamerLock \/ StreamerPosts \/ UNCHANGED vars
  BY <1>3 DEF NewImage, CaptureEnds, StreamerLock, StreamerPosts, vars
<1> QED BY <1>1, <1>2, <1>3

\* Main sets the options and the list before any thread runs.
LEMMA MainKeepsOptions ==
  ASSUME MainNext, mpc \notin {"parse", "list"}
  PROVE  UNCHANGED <<options, listed>>
BY DEF MainNext, Usage, ParseOptions, StartStressTest, StartStreamer, StartCapture,
  StartBarcode, ShowWindow, JoinCapture, globals, stressVars

\* No thread sees an option or the list of images change.
THEOREM OptionsStayFrozen == Spec => FrozenWhileThreadsRun
<1>1. StartOrder /\ [Next]_vars =>
        [bpc # "off" \/ spc # "off" \/ tpc # "off" => UNCHANGED <<options, listed>>]_vars
  BY MainKeepsOptions, ThreadsKeepOptions DEF StartOrder, Next, Halted
<1> QED BY <1>1, OrderInvariant, PTL DEF Spec, FrozenWhileThreadsRun

-----------------------------------------------------------------------------
(* The global mutex *)

\* Whoever is between lock() and unlock() is the holder, and the workers, who
\* share a name as holders, are there one at a time.
MutexHeld ==
  /\ bpc = "locked" => mutex = "barcode"
  /\ spc = "locked" => mutex = "streamer"
  /\ \A w \in Workers : at[w] = "reporting" => mutex = "worker"
  /\ ReportsWhole

\* Steps that leave the mutex, and who is where with it, alone.
LEMMA MutexUnused ==
  ASSUME MutexHeld, UNCHANGED <<mutex, at>>,
         bpc' = "locked" => bpc = "locked", spc' = "locked" => spc = "locked"
  PROVE  MutexHeld'
BY DEF MutexHeld, ReportsWhole

LEMMA MutexMain ==
  ASSUME MutexHeld, MainNext
  PROVE  MutexHeld'
<1> USE MutexUnused DEF globals, scanVars, stressVars, mainVars
<1>1. CASE Usage BY <1>1 DEF Usage
<1>2. CASE ParseOptions
  <2>1. UNCHANGED <<mutex, scanVars, stressVars, spc>> BY <1>2, Zenon DEF ParseOptions
  <2> QED BY <2>1
<1>3. CASE StartStressTest BY <1>3 DEF StartStressTest
<1>4. CASE StartStreamer BY <1>4 DEF StartStreamer
<1>5. CASE StartCapture BY <1>5 DEF StartCapture
<1>6. CASE StartBarcode BY <1>6 DEF StartBarcode
<1>7. CASE ShowWindow BY <1>7 DEF ShowWindow
<1>8. CASE JoinCapture BY <1>8 DEF JoinCapture
<1> QED BY <1>1, <1>2, <1>3, <1>4, <1>5, <1>6, <1>7, <1>8 DEF MainNext

LEMMA MutexReaders ==
  ASSUME MutexHeld,
         \/ ScanNext /\ UNCHANGED <<stressVars, mainVars>>
         \/ NewImage \/ CaptureEnds \/ StreamerLock \/ StreamerPosts
         \/ UNCHANGED vars
  PROVE  MutexHeld'
<1> USE DEF globals, scanVars, stressVars, mainVars
<1>1. CASE BarcodeLock /\ UNCHANGED <<stressVars, mainVars>>
  BY <1>1 DEF BarcodeLock, Acquire, MutexHeld, ReportsWhole
<1>2. CASE BarcodeClone /\ UNCHANGED <<stressVars, mainVars>>
  <2>1. mutex = "barcode" /\ bpc' # "locked" BY <1>2 DEF BarcodeClone, MutexHeld
  <2> QED BY <1>2, <2>1 DEF BarcodeClone, MutexHeld, ReportsWhole
<1>3. CASE (ScanThreshold \/ ScanEnds) /\ UNCHANGED <<stressVars, mainVars>>
  BY <1>3, MutexUnused DEF ScanThreshold, ScanEnds
<1>4. CASE StreamerLock BY <1>4 DEF StreamerLock, Acquire, MutexHeld, ReportsWhole
<1>5. CASE StreamerPosts BY <1>5 DEF StreamerPosts, MutexHeld, ReportsWhole
<1>6. CASE NewImage \/ CaptureEnds \/ UNCHANGED vars
  BY <1>6, MutexUnused DEF NewImage, CaptureEnds, vars
<1> QED BY <1>1, <1>2, <1>3, <1>4, <1>5, <1>6 DEF ScanNext

LEMMA MutexStress ==
  ASSUME MutexHeld, TypeInv, StressNext, UNCHANGED <<scanVars, mainVars>>
  PROVE  MutexHeld'
<1> USE DEF globals, scanVars, mainVars
<1>0. at \in [Workers -> {"off", "started", "sized", "recognising", "reporting", "done"}]
  BY DEF TypeInv, TypeOK, StressTypeOK
<1>1. CASE BeginAssign \/ AssignSize \/ AssignPixels
  BY <1>1, MutexUnused DEF BeginAssign, AssignSize, AssignPixels
<1>2. ASSUME UNCHANGED mutex, NEW w \in Workers, NEW l \in {"started", "sized", "recognising"},
             at' = [at EXCEPT ![w] = l]
      PROVE  MutexHeld'
  BY <1>0, <1>2 DEF MutexHeld, ReportsWhole
<1>3. CASE StartWorker
  <2>1. workers + 1 \in Workers
    BY <1>3, ConstantFacts
    DEF StartWorker, StressAt, TypeInv, Bounded, TypeOK, StressTypeOK, Workers
  <2> QED BY <1>2, <1>3, <2>1 DEF StartWorker
<1>4. ASSUME NEW w \in Workers, ReadSize(w) \/ ReadPixels(w) PROVE MutexHeld'
  BY <1>2, <1>4 DEF ReadSize, ReadPixels
<1>5. ASSUME NEW w \in Workers, BeginReport(w) PROVE MutexHeld'
  BY <1>0, <1>5 DEF BeginReport, Acquire, MutexHeld, ReportsWhole
<1>6. ASSUME NEW w \in Workers, EndReport(w) PROVE MutexHeld'
  BY <1>0, <1>6 DEF EndReport, WorkerAt, MutexHeld, ReportsWhole
<1> QED BY <1>1, <1>3, <1>4, <1>5, <1>6 DEF StressNext

LEMMA MutexInvariant == Spec => [](TypeInv /\ MutexHeld)
<1>1. Init => MutexHeld
  BY DEF Init, ScanInit, StressInit, MutexHeld, ReportsWhole
<1>2. TypeInv /\ MutexHeld /\ [Next]_vars => MutexHeld'
  BY MutexMain, MutexReaders, MutexStress DEF Next, Halted
<1> QED BY <1>1, <1>2, TypeInit, TypeStep, PTL DEF Spec

\* The lines of two workers are never mixed, whoever else uses the mutex.
THEOREM ReportsAlwaysWhole == Spec => []ReportsWhole
<1>1. MutexHeld => ReportsWhole BY DEF MutexHeld
<1> QED BY <1>1, MutexInvariant, PTL

-----------------------------------------------------------------------------
(* The unlocked clones of the stress test *)

\* Where run_stresstest is says which image the global one shows.
Shows ==
  /\ tpc \in {"off", "assign"} => shown.size = workers /\ shown.pixels = workers
  /\ tpc = "size" => shown.size = 0 /\ shown.pixels = 0
  /\ tpc = "pixels" => shown.size = workers + 1 /\ shown.pixels = 0
  /\ tpc = "spawn" => shown.size = workers + 1 /\ shown.pixels = workers + 1

\* A number a worker w reads is 0 or at least w.
NotOlder(n, w) == n = 0 \/ n >= w

ClonesNotOlder ==
  /\ \A w \in Workers : at[w] # "off" => w <= workers
  /\ \A w \in Workers : at[w] = "sized" => NotOlder(copy[w].size, w)
  /\ CloneNotOlder

CloneInv == Shows /\ ClonesNotOlder

\* Whatever is shown is not older than any worker that was started.
LEMMA ShownNotOlder ==
  ASSUME TypeInv, CloneInv, NEW w \in Workers, at[w] # "off"
  PROVE  NotOlder(shown.size, w) /\ NotOlder(shown.pixels, w)
<1>1. w <= workers BY DEF CloneInv, ClonesNotOlder
<1>2. tpc \in {"off", "assign", "size", "pixels", "spawn"} /\ workers \in Nat /\ w \in Nat
  BY ConstantFacts DEF TypeInv, TypeOK, StressTypeOK, Workers
<1> QED BY <1>1, <1>2 DEF CloneInv, Shows, NotOlder

\* Steps of main and of the other threads.
LEMMA CloneUnused ==
  ASSUME CloneInv, UNCHANGED <<shown, workers, at, copy>>, Alive' => Alive,
         tpc' = tpc \/ (tpc = "off" /\ tpc' = "assign")
  PROVE  CloneInv'
BY DEF CloneInv, Shows, ClonesNotOlder, CloneNotOlder, NotOlder

LEMMA CloneOthers ==
  ASSUME CloneInv, StartOrder,
         \/ MainNext
         \/ ScanNext /\ UNCHANGED <<stressVars, mainVars>>
         \/ NewImage \/ CaptureEnds \/ StreamerLock \/ StreamerPosts
         \/ UNCHANGED vars
  PROVE  CloneInv'
<1> USE CloneUnused DEF globals, stressVars, Alive
<1>1. CASE StartStressTest BY <1>1 DEF StartStressTest, StartOrder
<1>2. CASE Usage \/ ParseOptions BY <1>2 DEF Usage, ParseOptions
<1>3. CASE StartStreamer \/ StartCapture \/ StartBarcode \/ ShowWindow \/ JoinCapture
  BY <1>3 DEF StartStreamer, StartCapture, StartBarcode, ShowWindow, JoinCapture
<1>4. CASE ScanNext /\ UNCHANGED <<stressVars, mainVars>>
  BY <1>4 DEF ScanNext, BarcodeLock, BarcodeClone, ScanThreshold, ScanEnds
<1>5. CASE NewImage \/ CaptureEnds \/ StreamerLock \/ StreamerPosts \/ UNCHANGED vars
  BY <1>5 DEF NewImage, CaptureEnds, StreamerLock, StreamerPosts, vars
<1> QED BY <1>1, <1>2, <1>3, <1>4, <1>5 DEF MainNext

\* Steps that assign the next image.
LEMMA CloneAssign ==
  ASSUME TypeInv, CloneInv,
         BeginAssign \/ AssignSize \/ AssignPixels \/ StartWorker
  PROVE  CloneInv'
<1> USE ConstantFacts DEF globals, StressAt, Alive
<1>0. /\ workers \in 0..MaxWorkers /\ shown \in Header
      /\ at \in [Workers -> {"off", "started", "sized", "recognising", "reporting", "done"}]
      /\ tpc \in {"size", "pixels", "spawn"} => workers + 1 \in Workers
  BY DEF TypeInv, Bounded, TypeOK, StressTypeOK, Workers
<1>1. CASE BeginAssign \/ AssignSize \/ AssignPixels
  <2>1. UNCHANGED <<workers, at, copy>> /\ fault = "none"
    BY <1>1 DEF BeginAssign, AssignSize, AssignPixels
  <2>2. ClonesNotOlder'
    BY <2>1 DEF CloneInv, ClonesNotOlder, CloneNotOlder, NotOlder
  <2>3. Shows'
    <3>1. CASE BeginAssign BY <3>1 DEF BeginAssign, Released, Shows
    <3>2. CASE AssignSize BY <1>0, <3>2 DEF AssignSize, CloneInv, Shows, Header
    <3>3. CASE AssignPixels BY <1>0, <3>3 DEF AssignPixels, CloneInv, Shows, Header
    <3> QED BY <1>1, <3>1, <3>2, <3>3
  <2> QED BY <2>2, <2>3 DEF CloneInv
<1>2. CASE StartWorker
  <2>1. tpc = "spawn" /\ tpc' = "assign" /\ workers' = workers + 1
        /\ UNCHANGED <<fault, shown, copy>> /\ at' = [at EXCEPT ![workers + 1] = "started"]
    BY <1>2 DEF StartWorker
  <2>2. Shows' BY <2>1 DEF CloneInv, Shows
  <2>3. \A w \in Workers : at'[w] # "off" => w <= workers'
    BY <1>0, <2>1 DEF CloneInv, ClonesNotOlder, Workers
  <2>4. \A w \in Workers : at'[w] = "started" \/ at'[w] = at[w]
    BY <1>0, <2>1
  <2>5. ClonesNotOlder'
    BY <2>1, <2>3, <2>4 DEF CloneInv, ClonesNotOlder, CloneNotOlder, NotOlder
  <2> QED BY <2>2, <2>5 DEF CloneInv
<1> QED BY <1>1, <1>2

\* Steps of a worker.
LEMMA CloneWorker ==
  ASSUME TypeInv, CloneInv, NEW w \in Workers,
         ReadSize(w) \/ ReadPixels(w) \/ BeginReport(w) \/ EndReport(w)
  PROVE  CloneInv'
<1> USE DEF globals, WorkerAt, Alive
<1>0. /\ at \in [Workers -> {"off", "started", "sized", "recognising", "reporting", "done"}]
      /\ copy \in [Workers -> Header]
  BY DEF TypeInv, TypeOK, StressTypeOK
<1>1. Shows'
  BY DEF ReadSize, ReadPixels, BeginReport, EndReport, CloneInv, Shows
<1>2. CASE ReadSize(w)
  <2>1. /\ copy' = [copy EXCEPT ![w].size = shown.size]
        /\ at' = [at EXCEPT ![w] = "sized"] /\ UNCHANGED <<fault, workers>> /\ at[w] = "started"
    BY <1>2 DEF ReadSize
  <2>2. NotOlder(shown.size, w) BY <2>1, ShownNotOlder
  <2>3. copy'[w].size = shown.size BY <1>0, <2>1 DEF Header
  <2>4. \A v \in Workers \ {w} : copy'[v] = copy[v] /\ at'[v] = at[v] BY <1>0, <2>1
  <2>5. at'[w] = "sized" BY <1>0, <2>1
  <2>6. ClonesNotOlder'
    BY <2>1, <2>2, <2>3, <2>4, <2>5 DEF CloneInv, ClonesNotOlder, CloneNotOlder, NotOlder
  <2> QED BY <1>1, <2>6 DEF CloneInv
<1>3. CASE ReadPixels(w)
  <2>1. /\ copy' = [copy EXCEPT ![w].pixels = shown.pixels]
        /\ at' = [at EXCEPT ![w] = "recognising"] /\ UNCHANGED workers
        /\ at[w] = "sized" /\ fault = "none"
    BY <1>3 DEF ReadPixels
  <2>2. NotOlder(shown.pixels, w) /\ NotOlder(copy[w].size, w)
    BY <2>1, ShownNotOlder DEF CloneInv, ClonesNotOlder
  <2>3. copy'[w].size = copy[w].size /\ copy'[w].pixels = shown.pixels
    BY <1>0, <2>1 DEF Header
  <2>4. \A v \in Workers \ {w} : copy'[v] = copy[v] /\ at'[v] = at[v] BY <1>0, <2>1
  <2>5. at'[w] = "recognising" BY <1>0, <2>1
  <2>6. fault' = "none" => copy[w].size = 0 \/ shown.pixels # 0
    BY <1>3 DEF ReadPixels
  <2>7. ClonesNotOlder'
    BY <2>1, <2>2, <2>3, <2>4, <2>5, <2>6 DEF CloneInv, ClonesNotOlder, CloneNotOlder, NotOlder
  <2> QED BY <1>1, <2>7 DEF CloneInv
<1>4. CASE BeginReport(w) \/ EndReport(w)
  <2>1. UNCHANGED <<copy, workers, fault>> /\ at[w] \in {"recognising", "reporting"}
    BY <1>4 DEF BeginReport, EndReport
  <2>2. at'[w] \in {"reporting", "done"} /\ \A v \in Workers \ {w} : at'[v] = at[v]
    BY <1>0, <1>4 DEF BeginReport, EndReport
  <2>3. ClonesNotOlder'
    BY <2>1, <2>2 DEF CloneInv, ClonesNotOlder, CloneNotOlder, NotOlder
  <2> QED BY <1>1, <2>3 DEF CloneInv
<1> QED BY <1>2, <1>3, <1>4

\* However the assignments and the clones interleave, what a worker cloned is
\* not older than the image it was started for.
THEOREM ClonesAreNotOlder == Spec => []CloneNotOlder
<1>1. Init => CloneInv
  BY ConstantFacts DEF Init, GlobalsInit, StressInit, Released, CloneInv, Shows, ClonesNotOlder,
    CloneNotOlder
<1>2. TypeInv /\ StartOrder /\ CloneInv /\ [Next]_vars => CloneInv'
  BY CloneOthers, CloneAssign, CloneWorker DEF Next, StressNext, Halted
<1>3. CloneInv => CloneNotOlder BY DEF CloneInv, ClonesNotOlder
<1> QED BY <1>1, <1>2, <1>3, TypeInit, TypeStep, OrderInvariant, PTL DEF Spec

-----------------------------------------------------------------------------
(* The scan *)

\* What passes the filter and lies where zbar looks, below a threshold.
Readable(bound) ==
  {p \in clone.shows \X Thresholds : Scanned(p[1], p[2]) /\ Passes(p[1]) /\ p[2] < bound}

\* Between two scans everything below the next threshold is printed, and the
\* next threshold is one of start, start + step, ...
ScanInv ==
  SaneThresholds /\ bpc = "scan" =>
    /\ \E k \in Nat : thres = Start + k * Step
    /\ printed = Readable(thres)

\* Between two multiples of a step there is no third.
LEMMA NextMultiple ==
  ASSUME NEW s \in Nat \ {0}, NEW j \in Nat, NEW k \in Nat,
         j * s >= k * s, j * s < k * s + s
  PROVE  j = k
<1>1. CASE j > k
  <2>1. PICK d \in Nat : j = k + 1 + d
    <3>1. j - k - 1 \in Nat /\ j = k + 1 + (j - k - 1) BY <1>1
    <3> QED BY <3>1
  <2>2. j * s = k * s + s + d * s BY <2>1
  <2>3. d * s >= 0 BY <2>1
  <2>4. j * s \in Int /\ k * s \in Int /\ d * s \in Int BY <2>1
  <2> QED BY <2>2, <2>3, <2>4
<1>2. CASE j < k
  <2>1. PICK d \in Nat : k = j + 1 + d
    <3>1. k - j - 1 \in Nat /\ k = j + 1 + (k - j - 1) BY <1>2
    <3> QED BY <3>1
  <2>2. k * s = j * s + s + d * s BY <2>1
  <2>3. d * s >= 0 BY <2>1
  <2>4. j * s \in Int /\ k * s \in Int /\ d * s \in Int BY <2>1
  <2> QED BY <2>2, <2>3, <2>4
<1> QED BY <1>1, <1>2

LEMMA MultipleGrows ==
  ASSUME NEW s \in Nat \ {0}, NEW k \in Nat
  PROVE  k * s \in Nat /\ k <= k * s
<1>1. PICK d \in Nat : s = d + 1
  <2>1. s - 1 \in Nat /\ s = (s - 1) + 1 OBVIOUS
  <2> QED BY <2>1
<1>2. k * s = k * d + k BY <1>1
<1>3. k * d \in Nat BY <1>1
<1> QED BY <1>2, <1>3

\* The threshold of a scan is one of the thresholds, and the only one until
\* the next.
LEMMA ThresholdSteps ==
  ASSUME Start \in Int, Stop \in Int, Step \in Nat \ {0},
         NEW k \in Nat, NEW t \in Int, t = Start + k * Step, t < Stop
  PROVE  /\ t \in Thresholds
         /\ \A u \in Thresholds : u < t + Step <=> u < t \/ u = t
<1>1. k * Step \in Nat /\ k <= k * Step BY MultipleGrows
<1>2. t \in Start..(Stop - 1) /\ k \in 0..(t - Start) BY <1>1
<1>3. t \in Thresholds BY <1>2 DEF Thresholds
<1>4. ASSUME NEW u \in Thresholds, u < t + Step, ~(u < t)
      PROVE  u = t
  <2>1. u \in Int BY DEF Thresholds
  <2>2. PICK j \in 0..(u - Start) : u = Start + j * Step BY DEF Thresholds
  <2>3. j \in Nat /\ j * Step \in Nat BY <2>1, MultipleGrows
  <2>4. j * Step >= k * Step /\ j * Step < k * Step + Step BY <1>1, <1>4, <2>1, <2>2, <2>3
  <2>5. j = k BY <2>3, <2>4, NextMultiple
  <2> QED BY <2>2, <2>5
<1>5. \A u \in Thresholds : u \in Int BY DEF Thresholds
<1> QED BY <1>3, <1>4, <1>5

\* Steps that do not scan.
LEMMA ScanUnused ==
  ASSUME ScanInv, UNCHANGED <<options, clone, thres, printed>>,
         bpc' = "scan" => bpc = "scan"
  PROVE  ScanInv'
BY DEF ScanInv, SaneThresholds, Readable, Thresholds, Scanned, Passes, Start, Stop, Step

LEMMA ScanOthers ==
  ASSUME ScanInv, StartOrder,
         \/ MainNext
         \/ StressNext /\ UNCHANGED <<scanVars, mainVars>>
         \/ NewImage \/ CaptureEnds \/ StreamerLock \/ StreamerPosts
         \/ UNCHANGED vars
  PROVE  ScanInv'
<1> USE DEF globals, scanVars
<1>1. CASE bpc' # "scan" BY <1>1 DEF ScanInv
<1>2. CASE bpc' = "scan"
  <2>1. UNCHANGED <<clone, thres, printed>> /\ bpc = "scan"
    <3>1. CASE MainNext
      BY <1>2, <3>1 DEF MainNext, Usage, ParseOptions, StartStressTest, StartStreamer,
        StartCapture, StartBarcode, ShowWindow, JoinCapture
    <3>2. CASE ~MainNext
      BY <1>2, <3>2 DEF NewImage, CaptureEnds, StreamerLock, StreamerPosts, vars
    <3> QED BY <3>1, <3>2
  <2>2. UNCHANGED options
    BY <2>1, MainKeepsOptions, ThreadsKeepOptions DEF StartOrder
  <2> QED BY <2>1, <2>2, ScanUnused
<1> QED BY <1>1, <1>2

LEMMA ScanScan ==
  ASSUME TypeInv, ScanInv, ScanNext
  PROVE  ScanInv'
<1> USE DEF globals
<1>1. CASE BarcodeLock BY <1>1 DEF BarcodeLock, ScanInv
<1>2. CASE ScanEnds BY <1>2 DEF ScanEnds, ScanInv
<1>0. Start \in Ints /\ Stop \in Ints /\ Step \in Ints
  BY ThresholdsAreInts DEF TypeInv, TypeOK
<1>3. CASE BarcodeClone
  <2>1. thres' = Start /\ printed' = {} /\ options' = options BY <1>3 DEF BarcodeClone
  <2>2. Start' = Start /\ Step' = Step BY <2>1 DEF Start, Step
  <2>3. Start = Start + 0 * Step BY <1>0 DEF Ints
  <2>4. \A u \in Thresholds' : ~(u < Start) BY <1>0, <2>2 DEF Thresholds, Ints
  <2>5. Readable(thres)' = {} BY <2>1, <2>4 DEF Readable
  <2> QED BY <2>1, <2>2, <2>3, <2>5 DEF ScanInv
<1>4. CASE ScanThreshold
  <2> SUFFICES ASSUME SaneThresholds', bpc' = "scan"
               PROVE  /\ \E k \in Nat : thres' = Start' + k * Step'
                      /\ printed' = Readable(thres)'
    BY DEF ScanInv
  <2>1. /\ bpc = "scan" /\ thres < Stop /\ thres' = Plus(thres, Step)
        /\ UNCHANGED <<options, clone>>
        /\ printed' = printed \cup
             {<<s, thres>> : s \in {x \in clone.shows : Scanned(x, thres) /\ Passes(x)}}
    BY <1>4 DEF ScanThreshold
  <2>2. Start' = Start /\ Stop' = Stop /\ Step' = Step BY <2>1 DEF Start, Stop, Step
  <2>3. SaneThresholds BY <2>2 DEF SaneThresholds
  <2>4. PICK k \in Nat : thres = Start + k * Step BY <2>1, <2>3 DEF ScanInv
  <2>5. printed = Readable(thres) BY <2>1, <2>3 DEF ScanInv
  <2>6. thres \in Ints BY DEF TypeInv, TypeOK, ScanTypeOK
  <2>7. /\ Start \in Int /\ Stop \in Int /\ Step \in Nat \ {0} /\ thres \in Int
    BY <1>0, <2>3, <2>6, ConstantFacts DEF SaneThresholds, Ints
  <2>8. thres' = thres + Step
    BY <2>1, <2>3, <2>6, <2>7, ConstantFacts DEF Plus, SaneThresholds, Ints
  <2>9. (k + 1) * Step = k * Step + Step /\ k * Step \in Nat BY <2>7, MultipleGrows
  <2>10. thres' = Start + (k + 1) * Step BY <2>4, <2>7, <2>8, <2>9
  <2>11. /\ thres \in Thresholds
         /\ \A u \in Thresholds : u < thres + Step <=> u < thres \/ u = thres
    BY <2>1, <2>4, <2>7, ThresholdSteps
  <2>12. Readable(thres)' = Readable(thres + Step)
    BY <2>1, <2>2, <2>8 DEF Readable, Thresholds, Scanned, Passes
  <2>13. printed' = Readable(thres + Step)
    <3>1. \A p \in printed' : p \in Readable(thres + Step)
      BY <2>1, <2>5, <2>11 DEF Readable
    <3>2. ASSUME NEW p \in Readable(thres + Step) PROVE p \in printed'
      <4>1. p \in clone.shows \X Thresholds /\ Scanned(p[1], p[2]) /\ Passes(p[1])
            /\ p[2] < thres + Step
        BY DEF Readable
      <4>2. CASE p[2] < thres BY <2>1, <2>5, <4>1, <4>2 DEF Readable
      <4>3. CASE p[2] = thres
        <5>1. p = <<p[1], thres>> /\ p[1] \in clone.shows BY <4>1, <4>3
        <5> QED BY <2>1, <4>1, <4>3, <5>1
      <4> QED BY <2>11, <4>1, <4>2, <4>3
    <3> QED BY <3>1, <3>2
  <2> QED BY <2>2, <2>10, <2>12, <2>13
<1> QED BY <1>1, <1>2, <1>3, <1>4 DEF ScanNext

\* For all thresholds with which the loop can end, each scan prints exactly
\* what can be read of its image.
THEOREM ScansPrintReadable == Spec => []ScanPrintsReadable
<1>1. Init => ScanInv BY DEF Init, ScanInit, ScanInv
<1>2. TypeInv /\ StartOrder /\ ScanInv /\ [Next]_vars => ScanInv'
  BY ScanOthers, ScanScan DEF Next, Halted
<1>3. TypeInv /\ ScanInv => ScanPrintsReadable
  <2> SUFFICES ASSUME TypeInv, ScanInv, SaneThresholds, bpc = "scan", thres >= Stop
               PROVE  printed = {p \in clone.shows \X Thresholds :
                                   Scanned(p[1], p[2]) /\ Passes(p[1])}
    BY DEF ScanPrintsReadable
  <2>1. Stop \in Int /\ thres \in Int
    BY ThresholdsAreInts, ConstantFacts DEF TypeInv, TypeOK, ScanTypeOK, Ints
  <2>2. \A u \in Thresholds : u < thres BY <2>1 DEF Thresholds
  <2>3. printed = Readable(thres) BY DEF ScanInv
  <2> QED BY <2>2, <2>3 DEF Readable
<1> QED BY <1>1, <1>2, <1>3, TypeInit, TypeStep, OrderInvariant, PTL DEF Spec

=============================================================================
