---------------------------- MODULE BarcodeScan ----------------------------
(***************************************************************************)
(* The barcode thread of src/src/grabzbar.cpp: run_barcode clones the live *)
(* image under the mutex, barcode() scans the clone once per threshold and *)
(* prints the symbols found that pass its filter.                          *)
(***************************************************************************)
EXTENDS Globals

VARIABLES
  bpc,     \* "off" until the thread runs, then where it is
  clone,   \* the thread's own image
  thres,   \* the threshold of the next scan
  printed  \* the symbols printed for this clone, with their thresholds

scanVars == <<bpc, clone, thres, printed>>

ScanInit ==
  /\ bpc = "off"
  /\ clone = Empty
  /\ thres = 0
  /\ printed = {}

Start == options["bc_thres_start"]
Stop == options["bc_thres_stop"]
Step == options["bc_thres_step"]

\* thres += thres_step overflows in undefined behaviour, which wraps around
\* in a build without optimisation.
Plus(a, b) ==
  CASE a + b > IntMax -> a + b - 2 * (IntMax + 1)
    [] a + b < -IntMax - 1 -> a + b + 2 * (IntMax + 1)
    [] OTHER -> a + b

\* The filter in front of the output.
Passes(s) == (s.type = "I2/5" => s.digits) /\ ~s.zeros

\* CLAHE makes a clone of three bytes a pixel.  zbar is told one: it reads as
\* many bytes as the image has pixels, the rows of the top third, and takes each
\* third of a row for a row.
Scanned(s, t) == t \in s.thresholds /\ (options["bc_clahe"] => s.uncut)

\* The thread takes the mutex for the next clone.
BarcodeLock ==
  /\ Alive /\ bpc = "idle"
  /\ Acquire("barcode")
  /\ bpc' = "locked"
  /\ UNCHANGED <<options, current, fault, clone, thres, printed>>

\* barcode() returns at once for an empty image.
BarcodeClone ==
  /\ Alive /\ bpc = "locked"
  /\ Release
  /\ clone' = current /\ thres' = Start /\ printed' = {}
  /\ bpc' = IF current.empty THEN "idle" ELSE "scan"
  /\ UNCHANGED <<options, current, fault>>

\* Mutant: <= for <.
ScanThresholdLast ==
  /\ Alive /\ bpc = "scan" /\ thres <= Stop
  /\ printed' = printed \cup
       {<<s, thres>> : s \in {x \in clone.shows : Scanned(x, thres) /\ Passes(x)}}
  /\ thres' = Plus(thres, Step)
  /\ UNCHANGED <<globals, bpc, clone>>

\* One pass of the loop, on a fresh copy of the clone.
ScanThreshold ==
  /\ Alive /\ bpc = "scan" /\ thres < Stop
  /\ printed' = printed \cup
       {<<s, thres>> : s \in {x \in clone.shows : Scanned(x, thres) /\ Passes(x)}}
  /\ thres' = Plus(thres, Step)
  /\ UNCHANGED <<globals, bpc, clone>>

ScanEnds ==
  /\ Alive /\ bpc = "scan" /\ thres >= Stop
  /\ bpc' = "idle"
  /\ UNCHANGED <<globals, clone, thres, printed>>

ScanNext == BarcodeLock \/ BarcodeClone \/ ScanThreshold \/ ScanEnds

-----------------------------------------------------------------------------
(* Properties *)

\* Options with which the loop ends and no int overflows.
SaneThresholds == Step > 0 /\ Stop + Step <= IntMax + 1

Thresholds ==
  {t \in Start..(Stop - 1) : \E k \in 0..(t - Start) : t = Start + k * Step}

ScanTypeOK ==
  /\ bpc \in {"off", "idle", "locked", "scan"}
  /\ clone \in Images \cup {Empty}
  /\ thres \in Ints
  /\ printed \subseteq Symbols \X Ints

\* When the loop of barcode() ends, it has printed a symbol of the clone once
\* for each of the thresholds start, start + step, ... below stop at which
\* zbar reads it, if it passes the filter and lies where zbar looks, and
\* nothing else, least of all symbols of the image cloned before.
ScanPrintsReadable ==
  SaneThresholds /\ bpc = "scan" /\ thres >= Stop =>
    printed = {p \in clone.shows \X Thresholds : Scanned(p[1], p[2]) /\ Passes(p[1])}

=============================================================================
