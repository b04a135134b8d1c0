------------------------------- MODULE Capture -------------------------------
(***************************************************************************)
(* The live image (currentImage in src/src/grabzbar.cpp), the camera       *)
(* thread that scrolls it and the two threads that copy it:                *)
(*   - capture()      allocates the image and scrolls it without a lock;   *)
(*   - run_barcode()  and run_streamer() clone it under the global mutex.  *)
(*                                                                         *)
(* The mutex orders the two readers only, so a clone may overlap a scroll. *)
(* memcpy and Mat::clone are modelled one image row at a time: the unlocked *)
(* accesses are data races, and what a racing copy can return is, row by   *)
(* row, the row before or after the other thread's store.                  *)
(***************************************************************************)
EXTENDS Integers

CONSTANTS
  ImageHeight,    \* glb_imageHeight, option --height
  GrabHeight,     \* glb_grabHeight, option --lineheight
  CopyOrder,      \* "up" or "down": the order in which the build's memcpy
                  \* moves rows (its arguments at line 356 may overlap)
  InitialFormats, \* the pixel formats the camera may be in when it is opened
  Mono8Available, \* whether the camera offers the format Mono8
  MaxLines        \* bound: the camera delivers at most this many rows

ASSUME CaptureAssumption ==
  /\ ImageHeight \in Nat \ {0}
  /\ GrabHeight \in Nat \ {0}
  /\ CopyOrder \in {"up", "down"}
  /\ Mono8Available \in BOOLEAN
  /\ MaxLines \in Nat

Readers == {"barcode", "streamer"}
Rows == 1..ImageHeight
Kept == ImageHeight - GrabHeight  \* rows that survive a scroll (may be < 0)

VARIABLES
  imageRows, \* currentImage.rows: 0 until line 307, then ImageHeight
  image,     \* currentImage's rows, each the position of a delivered row
  format,    \* the camera's pixel format
  cpc,       \* where the capture thread is
  copied,    \* rows moved so far by the memcpy in progress
  lines,     \* rows scrolled in completely since grabbing started
  mutex,     \* holder of the global mutex, or "free"
  rpc,       \* where each reader is
  left,      \* rows a reader's clone in progress has still to copy
  rows,      \* image.rows of a reader's clone
  snap,      \* the rows of a reader's latest clone
  fault,     \* why the process died, or "none"
  lo, hi     \* history: lines before, and begun by the end of, a clone

captureVars == <<imageRows, image, format, cpc, copied, lines>>
readerVars == <<mutex, rpc, left, rows, snap, lo, hi>>
vars == <<captureVars, readerVars, fault>>

Copying == cpc \in {"shift", "append"}

\* A dead process takes no step in any thread.
CaptureAt(l) == fault = "none" /\ cpc = l
ReaderAt(r, l) == fault = "none" /\ rpc[r] = l

\* Rows whose scrolling has begun.
Begun == lines + (IF Copying THEN GrabHeight ELSE 0)

\* The k-th of len rows in the order memcpy visits them.
CopyRow(k, len) == IF CopyOrder = "up" THEN k ELSE len + 1 - k

Init ==
  /\ imageRows = 0
  /\ image = [i \in Rows |-> 0]
  /\ format \in InitialFormats
  /\ cpc = "opened"
  /\ copied = 0
  /\ lines = 0
  /\ mutex = "free"
  /\ rpc = [r \in Readers |-> "idle"]
  /\ left = [r \in Readers |-> {}]
  /\ rows = [r \in Readers |-> 0]
  /\ snap = [r \in Readers |-> [i \in Rows |-> 0]]
  /\ fault = "none"
  /\ lo = [r \in Readers |-> 0]
  /\ hi = [r \in Readers |-> 0]

-----------------------------------------------------------------------------
(* The capture thread *)

\* Mutant: the image gets the height of one block.
AllocateOneBlock ==
  /\ CaptureAt("opened")
  /\ cpc' = "configured"
  /\ imageRows' = IF format = "Mono8" THEN GrabHeight ELSE imageRows
  /\ UNCHANGED <<image, format, copied, lines, readerVars, fault>>

\* Mutant: the test of the pixel format is inverted.
AllocateUnlessMono8 ==
  /\ CaptureAt("opened")
  /\ cpc' = "configured"
  /\ imageRows' = IF format # "Mono8" THEN ImageHeight ELSE imageRows
  /\ UNCHANGED <<image, format, copied, lines, readerVars, fault>>

\* The image is allocated only if the camera already delivers Mono8.
AllocateImage ==
  /\ CaptureAt("opened")
  /\ cpc' = "configured"
  /\ imageRows' = IF format = "Mono8" THEN ImageHeight ELSE imageRows
  /\ UNCHANGED <<image, format, copied, lines, readerVars, fault>>

\* Only now is Mono8 selected, if the camera offers it; grabbing starts.
StartGrabbing ==
  /\ CaptureAt("configured")
  /\ cpc' = "retrieve"
  /\ format' = IF Mono8Available THEN "Mono8" ELSE format
  /\ UNCHANGED <<imageRows, image, copied, lines, readerVars, fault>>

\* No camera, a rejected parameter, or RetrieveResult's 5000 ms timeout: the
\* exception is caught outside the loop and the thread ends.
CaptureThrows ==
  /\ \E l \in {"opened", "configured", "retrieve"} : CaptureAt(l)
  /\ cpc' = "ended"
  /\ UNCHANGED <<imageRows, image, format, copied, lines, readerVars, fault>>

\* A failed grab is reported and the loop continues.
GrabFailed ==
  /\ CaptureAt("retrieve")
  /\ UNCHANGED vars

\* Mutant: the first memcpy is left out.
GrabSucceededNoShift ==
  /\ CaptureAt("retrieve")
  /\ lines + GrabHeight <= MaxLines
  /\ IF imageRows = 0 \/ Kept < 0
     THEN fault' = "wild_copy" /\ UNCHANGED <<cpc, copied>>
     ELSE cpc' = "append" /\ copied' = 0 /\ UNCHANGED fault
  /\ UNCHANGED <<imageRows, image, format, lines, readerVars>>

\* With no image, or a block higher than the image, the length of the first
\* memcpy is negative and converts to a huge size_t: the process dies.
GrabSucceeded ==
  /\ CaptureAt("retrieve")
  /\ lines + GrabHeight <= MaxLines
  /\ IF imageRows = 0 \/ Kept < 0
     THEN fault' = "wild_copy" /\ UNCHANGED <<cpc, copied>>
     ELSE cpc' = "shift" /\ copied' = 0 /\ UNCHANGED fault
  /\ UNCHANGED <<imageRows, image, format, lines, readerVars>>

\* Mutant: source and destination of the first memcpy exchanged.
ShiftRowSwapped ==
  /\ CaptureAt("shift") /\ copied < Kept
  /\ LET i == CopyRow(copied + 1, Kept)
     IN image' = [image EXCEPT ![i + GrabHeight] = image[i]]
  /\ copied' = copied + 1
  /\ UNCHANGED <<imageRows, format, cpc, lines, readerVars, fault>>

\* memcpy(currentImage.ptr(), currentImage.ptr()+grabbed, total-grabbed)
ShiftRow ==
  /\ CaptureAt("shift") /\ copied < Kept
  /\ LET i == CopyRow(copied + 1, Kept)
     IN image' = [image EXCEPT ![i] = image[i + GrabHeight]]
  /\ copied' = copied + 1
  /\ UNCHANGED <<imageRows, format, cpc, lines, readerVars, fault>>

ShiftDone ==
  /\ CaptureAt("shift") /\ copied = Kept
  /\ cpc' = "append" /\ copied' = 0
  /\ UNCHANGED <<imageRows, image, format, lines, readerVars, fault>>

\* Mutant: the block is written over the rows at the top.
AppendRowAtTop ==
  /\ CaptureAt("append") /\ copied < GrabHeight
  /\ LET i == CopyRow(copied + 1, GrabHeight)
     IN image' = [image EXCEPT ![i] = lines + i]
  /\ copied' = copied + 1
  /\ UNCHANGED <<imageRows, format, cpc, lines, readerVars, fault>>

\* memcpy(currentImage.ptr()+total-grabbed, GetBuffer(), grabbed)
AppendRow ==
  /\ CaptureAt("append") /\ copied < GrabHeight
  /\ LET i == CopyRow(copied + 1, GrabHeight)
     IN image' = [image EXCEPT ![Kept + i] = lines + i]
  /\ copied' = copied + 1
  /\ UNCHANGED <<imageRows, format, cpc, lines, readerVars, fault>>

AppendDone ==
  /\ CaptureAt("append") /\ copied = GrabHeight
  /\ cpc' = "retrieve" /\ copied' = 0
  /\ lines' = lines + GrabHeight
  /\ UNCHANGED <<imageRows, image, format, readerVars, fault>>

CaptureNext ==
  \/ AllocateImage \/ StartGrabbing \/ CaptureThrows
  \/ GrabFailed \/ GrabSucceeded
  \/ ShiftRow \/ ShiftDone \/ AppendRow \/ AppendDone

-----------------------------------------------------------------------------
(* The readers: run_barcode and run_streamer *)

Lock(r) ==
  /\ ReaderAt(r, "idle") /\ mutex = "free"
  /\ mutex' = r
  /\ rpc' = [rpc EXCEPT ![r] = "locked"]
  /\ UNCHANGED <<captureVars, left, rows, snap, lo, hi, fault>>

\* Mutant: the copy of a grown image keeps the rows of the previous one.
BeginCloneKeepRows(r) ==
  /\ ReaderAt(r, "locked")
  /\ rows' = [rows EXCEPT ![r] = imageRows]
  /\ left' = [left EXCEPT ![r] = {i \in 1..imageRows : snap[r][i] = 0}]
  /\ lo' = [lo EXCEPT ![r] = lines]
  /\ rpc' = [rpc EXCEPT ![r] = "cloning"]
  /\ UNCHANGED <<captureVars, mutex, snap, hi, fault>>

\* Mat::clone reads the header first; an empty image has no rows to copy.
BeginClone(r) ==
  /\ ReaderAt(r, "locked")
  /\ rows' = [rows EXCEPT ![r] = imageRows]
  /\ left' = [left EXCEPT ![r] = 1..imageRows]
  /\ lo' = [lo EXCEPT ![r] = lines]
  /\ rpc' = [rpc EXCEPT ![r] = "cloning"]
  /\ UNCHANGED <<captureVars, mutex, snap, hi, fault>>

\* Mat::clone promises no order among the rows.
CloneRow(r) ==
  /\ ReaderAt(r, "cloning")
  /\ \E i \in left[r] :
       /\ snap' = [snap EXCEPT ![r][i] = image[i]]
       /\ left' = [left EXCEPT ![r] = @ \ {i}]
  /\ UNCHANGED <<captureVars, mutex, rpc, rows, lo, hi, fault>>

Unlock(r) ==
  /\ ReaderAt(r, "cloning") /\ left[r] = {}
  /\ mutex' = "free"
  /\ hi' = [hi EXCEPT ![r] = Begun]
  /\ rpc' = [rpc EXCEPT ![r] = "cloned"]
  /\ UNCHANGED <<captureVars, left, rows, snap, lo, fault>>

\* barcode(image) works on the clone alone.
Scan ==
  /\ ReaderAt("barcode", "cloned")
  /\ rpc' = [rpc EXCEPT !["barcode"] = "idle"]
  /\ UNCHANGED <<captureVars, mutex, left, rows, snap, lo, hi, fault>>

\* run_streamer replaces an empty image by a coloured one, but tests the
\* shared image, not its clone.  imencode throws on an empty image and
\* nothing in the thread catches it: the process terminates.
Post ==
  /\ ReaderAt("streamer", "cloned")
  /\ rpc' = [rpc EXCEPT !["streamer"] = "idle"]
  /\ fault' = IF imageRows # 0 /\ rows["streamer"] = 0
              THEN "empty_image" ELSE fault
  /\ UNCHANGED <<captureVars, mutex, left, rows, snap, lo, hi>>

ReaderNext ==
  \/ \E r \in Readers :
       \/ Lock(r) \/ BeginClone(r) \/ CloneRow(r) \/ Unlock(r)
  \/ Scan \/ Post

Halted == fault # "none" /\ UNCHANGED vars

Next == CaptureNext \/ ReaderNext \/ Halted

Spec == Init /\ [][Next]_vars

-----------------------------------------------------------------------------
(* Properties *)

TypeOK ==
  /\ imageRows \in {0, ImageHeight}
  /\ image \in [Rows -> Nat]
  /\ format \in InitialFormats \cup {"Mono8"}
  /\ cpc \in {"opened", "configured", "retrieve", "shift", "append", "ended"}
  /\ copied \in Nat
  /\ lines \in Nat
  /\ mutex \in Readers \cup {"free"}
  /\ rpc \in [Readers -> {"idle", "locked", "cloning", "cloned"}]
  /\ left \in [Readers -> SUBSET Rows]
  /\ rows \in [Readers -> {0, ImageHeight}]
  /\ snap \in [Readers -> [Rows -> Nat]]
  /\ fault \in {"none", "wild_copy", "empty_image"}
  /\ lo \in [Readers -> Nat]
  /\ hi \in [Readers -> Nat]

\* The row the image shows at position i once n rows have been scrolled in.
Stamp(n, i) == IF n + i > ImageHeight THEN n + i - ImageHeight ELSE 0

\* Between two scrolls the image is exactly the last ImageHeight delivered
\* rows, in order, above which it is black: no row is lost, repeated or out
\* of place however many blocks capture() has scrolled in.
ImageIsWindow ==
  ~Copying => \A i \in Rows : image[i] = Stamp(lines, i)

\* Although capture() never takes the mutex, a clone is bounded by what the
\* image was: each of its rows lies between the row the window showed when
\* the clone began and the one it will show after the last scroll the clone
\* overlapped.  A clone no scroll overlaps is therefore a whole window.
SnapshotRegular ==
  \A r \in Readers : rpc[r] = "cloned" /\ rows[r] # 0 =>
    \A i \in Rows : /\ Stamp(lo[r], i) <= snap[r][i]
                    /\ snap[r][i] <= Stamp(hi[r], i)

\* A reader never sees a line of the image go back to an older camera row,
\* within one clone or from one clone to the next.
SnapshotNeverGoesBack ==
  [][\A r \in Readers, i \in Rows : snap'[r][i] >= snap[r][i]]_vars

\* The first memcpy is never given a wrapped length (or a null image).
NoWildCopy == fault # "wild_copy"

\* What run_streamer hands to post_image is never an empty image.
NeverPostsEmptyImage == fault # "empty_image"

\* Refinement: the window is the image as the scroll in progress leaves it,
\* rows already moved taken from where they are, the others from where the
\* memcpy will read them.
Moved(i, len) == IF CopyOrder = "up" THEN i <= copied ELSE i > len - copied

AbstractWindow ==
  [i \in Rows |->
     CASE cpc = "shift" /\ i <= Kept /\ ~Moved(i, Kept) -> image[i + GrabHeight]
       [] \/ cpc = "shift" /\ i > Kept
          \/ cpc = "append" /\ i > Kept /\ ~Moved(i - Kept, GrabHeight)
            -> lines + i - Kept
       [] OTHER -> image[i]]

Window == INSTANCE LineWindow WITH window <- AbstractWindow, delivered <- Begun

\* Seen through that mapping, scrolling row by row is one Scroll step.
RefinesWindow == Window!Spec

=============================================================================
