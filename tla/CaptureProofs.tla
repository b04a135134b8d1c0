---------------------------- MODULE CaptureProofs ----------------------------
(***************************************************************************)
(* Proofs about module Capture, for every image height, block height and   *)
(* number of delivered rows.                                               *)
(***************************************************************************)
EXTENDS Capture, TLAPS

\* A memcpy that moves rows downwards is harmless only when the kept rows and
\* their destination do not overlap.
CopyIsSafe == CopyOrder = "down" => Kept <= GrabHeight

-----------------------------------------------------------------------------
(* Type correctness *)

LEMMA CaptureTypes ==
  ASSUME TypeOK, CaptureNext
  PROVE  TypeOK'
<1> USE CaptureAssumption DEF TypeOK, CaptureAt, readerVars
<1>1. CASE AllocateImage
  BY <1>1 DEF AllocateImage
<1>2. CASE StartGrabbing
  BY <1>2 DEF StartGrabbing
<1>3. CASE CaptureThrows
  BY <1>3 DEF CaptureThrows
<1>4. CASE GrabFailed
  BY <1>4 DEF GrabFailed, vars, captureVars
<1>5. CASE GrabSucceeded
  BY <1>5 DEF GrabSucceeded
<1>6. CASE ShiftRow
  <2>1. CopyRow(copied + 1, Kept) + GrabHeight \in Rows
    BY <1>6 DEF ShiftRow, CopyRow, Kept, Rows
  <2>2. image' \in [Rows -> Nat]
    BY <1>6, <2>1 DEF ShiftRow
  <2>3. QED
    BY <1>6, <2>2 DEF ShiftRow
<1>7. CASE ShiftDone
  BY <1>7 DEF ShiftDone
<1>8. CASE AppendRow
  <2>1. lines + CopyRow(copied + 1, GrabHeight) \in Nat
    BY <1>8 DEF AppendRow, CopyRow
  <2>2. image' \in [Rows -> Nat]
    BY <1>8, <2>1 DEF AppendRow
  <2>3. QED
    BY <1>8, <2>2 DEF AppendRow
<1>9. CASE AppendDone
  BY <1>9 DEF AppendDone
<1>10. QED
  BY <1>1, <1>2, <1>3, <1>4, <1>5, <1>6, <1>7, <1>8, <1>9 DEF CaptureNext

LEMMA ReaderTypes ==
  ASSUME TypeOK, ReaderNext
  PROVE  TypeOK'
<1> USE CaptureAssumption DEF TypeOK, ReaderAt, captureVars
<1>1. ASSUME NEW r \in Readers, Lock(r)
      PROVE  TypeOK'
  BY <1>1 DEF Lock
<1>2. ASSUME NEW r \in Readers, BeginClone(r)
      PROVE  TypeOK'
  BY <1>2 DEF BeginClone, Rows
<1>3. ASSUME NEW r \in Readers, CloneRow(r)
      PROVE  TypeOK'
  <2>1. PICK i \in left[r] : /\ snap' = [snap EXCEPT ![r][i] = image[i]]
                             /\ left' = [left EXCEPT ![r] = @ \ {i}]
    BY <1>3 DEF CloneRow
  <2>2. i \in Rows /\ image[i] \in Nat
    BY <2>1
  <2>3. snap' \in [Readers -> [Rows -> Nat]]
    BY <2>1, <2>2
  <2>4. QED
    BY <1>3, <2>1, <2>3 DEF CloneRow
<1>4. ASSUME NEW r \in Readers, Unlock(r)
      PROVE  TypeOK'
  <2>1. Begun \in Nat
    BY DEF Begun
  <2>2. QED
    BY <1>4, <2>1 DEF Unlock
<1>5. CASE Scan
  BY <1>5 DEF Scan
<1>6. CASE Post
  BY <1>6 DEF Post
<1>7. QED
  BY <1>1, <1>2, <1>3, <1>4, <1>5, <1>6 DEF ReaderNext

LEMMA TypeStep == TypeOK /\ [Next]_vars => TypeOK'
<1> SUFFICES ASSUME TypeOK, [Next]_vars PROVE TypeOK'
  OBVIOUS
<1>1. CASE UNCHANGED vars
  BY <1>1 DEF vars, captureVars, readerVars, TypeOK
<1>2. QED
  BY <1>1, CaptureTypes, ReaderTypes DEF Next, Halted

LEMMA TypeInit == Init => TypeOK
BY CaptureAssumption DEF Init, TypeOK

\* Every variable keeps its type.
THEOREM TypeCorrect == Spec => []TypeOK
<1>1. QED
  BY TypeInit, TypeStep, PTL DEF Spec

-----------------------------------------------------------------------------
(* The image: every row is where the copy in progress leaves it *)

\* Row i already shows what it will show when the scroll in progress ends.
Scrolled(i) ==
  \/ cpc = "shift" /\ i <= Kept /\ Moved(i, Kept)
  \/ cpc = "append" /\ (i <= Kept \/ Moved(i - Kept, GrabHeight))

CopyInv ==
  /\ cpc = "shift" => copied <= Kept
  /\ cpc = "append" => copied <= GrabHeight /\ Kept >= 0

ImageInv ==
  \A i \in Rows :
    image[i] = Stamp(IF Scrolled(i) THEN lines + GrabHeight ELSE lines, i)

LEMMA CopyInvStep ==
  ASSUME TypeOK, CopyInv, [Next]_vars
  PROVE  CopyInv'
<1> USE CaptureAssumption DEF CopyInv, TypeOK, CaptureAt, Kept
<1>1. CASE AllocateImage
  BY <1>1 DEF AllocateImage
<1>2. CASE StartGrabbing
  BY <1>2 DEF StartGrabbing
<1>3. CASE CaptureThrows
  BY <1>3 DEF CaptureThrows
<1>4. CASE GrabSucceeded
  BY <1>4 DEF GrabSucceeded
<1>5. CASE ShiftRow
  BY <1>5 DEF ShiftRow
<1>6. CASE ShiftDone
  BY <1>6 DEF ShiftDone
<1>7. CASE AppendRow
  BY <1>7 DEF AppendRow
<1>8. CASE AppendDone
  BY <1>8 DEF AppendDone
<1>9. CASE UNCHANGED captureVars
  BY <1>9 DEF captureVars
<1>10. ReaderNext => UNCHANGED captureVars
  BY DEF ReaderNext, Lock, BeginClone, CloneRow, Unlock, Scan, Post
<1>11. QED
  BY <1>1, <1>2, <1>3, <1>4, <1>5, <1>6, <1>7, <1>8, <1>9, <1>10
     DEF Next, CaptureNext, GrabFailed, Halted, vars

\* Rows only ever move on to newer camera rows.
LEMMA StampGrows ==
  ASSUME NEW m \in Nat, NEW n \in Nat, m <= n, NEW i \in Rows
  PROVE  Stamp(m, i) \in Nat /\ Stamp(m, i) <= Stamp(n, i)
BY CaptureAssumption DEF Stamp, Rows

\* The row ShiftRow moves ends up scrolled: what it reads has not yet been
\* overwritten by this memcpy.
LEMMA ShiftRowEffect ==
  ASSUME CopyIsSafe, TypeOK, CopyInv, ImageInv, ShiftRow
  PROVE  \E m \in Rows :
           /\ m = CopyRow(copied + 1, Kept) /\ m <= Kept
           /\ image' = [image EXCEPT ![m] = Stamp(lines + GrabHeight, m)]
<1> USE CaptureAssumption DEF TypeOK, CaptureAt, Kept, Rows
<1>1. CopyRow(copied + 1, Kept) \in Rows
  BY DEF ShiftRow, CopyRow
<1>2. PICK m \in Rows : m = CopyRow(copied + 1, Kept)
  BY <1>1
<1>3. m + GrabHeight \in Rows /\ m <= Kept
  BY <1>2 DEF ShiftRow, CopyRow
<1>4. image[m + GrabHeight] = Stamp(lines, m + GrabHeight)
  BY <1>2, <1>3 DEF ShiftRow, ImageInv, Scrolled, Moved, CopyRow, CopyIsSafe
<1>5. Stamp(lines, m + GrabHeight) = Stamp(lines + GrabHeight, m)
  <2>1. lines + (m + GrabHeight) = (lines + GrabHeight) + m
    OBVIOUS
  <2>2. QED
    BY <2>1 DEF Stamp
<1>6. image' = [image EXCEPT ![m] = image[m + GrabHeight]]
  BY <1>2 DEF ShiftRow
<1>7. QED
  BY <1>2, <1>3, <1>4, <1>5, <1>6

\* The row AppendRow fills is the newest at its position.
LEMMA AppendRowEffect ==
  ASSUME TypeOK, CopyInv, AppendRow
  PROVE  \E m \in Rows :
           /\ m = Kept + CopyRow(copied + 1, GrabHeight) /\ m > Kept
           /\ image' = [image EXCEPT ![m] = Stamp(lines + GrabHeight, m)]
<1> USE CaptureAssumption DEF TypeOK, CaptureAt, Kept, Rows
<1>1. CopyRow(copied + 1, GrabHeight) \in 1..GrabHeight
  BY DEF AppendRow, CopyRow
<1>2. PICK k \in 1..GrabHeight : k = CopyRow(copied + 1, GrabHeight)
  BY <1>1
<1>3. PICK m \in Rows : m = Kept + k
  BY DEF AppendRow, CopyInv
<1>4. lines + k = Stamp(lines + GrabHeight, m)
  BY <1>3 DEF Stamp
<1>5. image' = [image EXCEPT ![m] = lines + k]
  BY <1>2, <1>3 DEF AppendRow
<1>6. image' = [image EXCEPT ![m] = Stamp(lines + GrabHeight, m)]
  BY <1>4, <1>5
<1>7. m = Kept + CopyRow(copied + 1, GrabHeight) /\ m > Kept
  BY <1>2, <1>3
<1>8. QED
  BY <1>6, <1>7

LEMMA ImageInvStep ==
  ASSUME CopyIsSafe, TypeOK, CopyInv, ImageInv, [Next]_vars
  PROVE  ImageInv'
<1> USE CaptureAssumption DEF TypeOK, CaptureAt, Kept, Rows
<1>1. ASSUME NEW l \in {"opened", "configured", "retrieve"}, cpc = l,
             cpc' \in {"opened", "configured", "retrieve", "ended"},
             UNCHANGED <<image, lines>>
      PROVE  ImageInv'
  BY <1>1 DEF ImageInv, Scrolled, Stamp
<1>2. CASE GrabSucceeded
  <2>1. CASE cpc' = cpc
    BY <1>2, <2>1 DEF GrabSucceeded, ImageInv, Scrolled, Stamp
  <2>2. CASE cpc' = "shift" /\ copied' = 0
    BY <1>2, <2>2 DEF GrabSucceeded, ImageInv, Scrolled, Moved, Stamp
  <2>3. QED
    BY <1>2, <2>1, <2>2 DEF GrabSucceeded
<1>3. CASE ShiftRow
  <2>1. PICK m \in Rows :
          /\ m = CopyRow(copied + 1, Kept) /\ m <= Kept
          /\ image' = [image EXCEPT ![m] = Stamp(lines + GrabHeight, m)]
    BY <1>3, ShiftRowEffect
  <2>2. /\ cpc = "shift" /\ cpc' = "shift"
        /\ lines' = lines /\ copied' = copied + 1
    BY <1>3 DEF ShiftRow
  <2>3. Scrolled(m)'
    BY <2>1, <2>2 DEF Scrolled, Moved, CopyRow
  <2>4. ASSUME NEW i \in Rows, i # m
        PROVE  Scrolled(i)' <=> Scrolled(i)
    BY <2>1, <2>2, <2>4 DEF Scrolled, Moved, CopyRow
  <2>5. ASSUME NEW i \in Rows
        PROVE  image'[i] = Stamp(IF Scrolled(i)' THEN lines' + GrabHeight
                                 ELSE lines', i)
    <3>1. CASE i = m
      BY <2>1, <2>2, <2>3, <3>1
    <3>2. CASE i # m
      BY <2>1, <2>2, <2>4, <3>2 DEF ImageInv
    <3>3. QED
      BY <3>1, <3>2
  <2>6. QED
    BY <2>5 DEF ImageInv, Stamp, Scrolled, Moved
<1>4. CASE ShiftDone
  BY <1>4 DEF ShiftDone, ImageInv, Scrolled, Moved, Stamp
<1>5. CASE AppendRow
  <2>1. PICK m \in Rows :
          /\ m = Kept + CopyRow(copied + 1, GrabHeight) /\ m > Kept
          /\ image' = [image EXCEPT ![m] = Stamp(lines + GrabHeight, m)]
    BY <1>5, AppendRowEffect
  <2>2. /\ cpc = "append" /\ cpc' = "append"
        /\ lines' = lines /\ copied' = copied + 1
    BY <1>5 DEF AppendRow
  <2>3. Scrolled(m)'
    BY <2>1, <2>2 DEF Scrolled, Moved, CopyRow
  <2>4. ASSUME NEW i \in Rows, i # m
        PROVE  Scrolled(i)' <=> Scrolled(i)
    BY <2>1, <2>2, <2>4 DEF Scrolled, Moved, CopyRow
  <2>5. ASSUME NEW i \in Rows
        PROVE  image'[i] = Stamp(IF Scrolled(i)' THEN lines' + GrabHeight
                                 ELSE lines', i)
    <3>1. CASE i = m
      BY <2>1, <2>2, <2>3, <3>1
    <3>2. CASE i # m
      BY <2>1, <2>2, <2>4, <3>2 DEF ImageInv
    <3>3. QED
      BY <3>1, <3>2
  <2>6. QED
    BY <2>5 DEF ImageInv, Stamp, Scrolled, Moved
<1>6. CASE AppendDone
  BY <1>6 DEF AppendDone, ImageInv, Scrolled, Moved, Stamp, CopyInv
<1>7. CASE UNCHANGED captureVars
  BY <1>7 DEF captureVars, ImageInv, Scrolled, Moved, Stamp
<1>8. ReaderNext => UNCHANGED captureVars
  BY DEF ReaderNext, Lock, BeginClone, CloneRow, Unlock, Scan, Post
<1>9. AllocateImage \/ StartGrabbing \/ CaptureThrows => ImageInv'
  BY <1>1 DEF AllocateImage, StartGrabbing, CaptureThrows
<1>10. QED
  BY <1>2, <1>3, <1>4, <1>5, <1>6, <1>7, <1>8, <1>9
     DEF Next, CaptureNext, GrabFailed, Halted, vars

ImageIInv == TypeOK /\ CopyInv /\ ImageInv

LEMMA ImageIInvInit == Init => ImageIInv
BY TypeInit, CaptureAssumption
   DEF ImageIInv, Init, CopyInv, ImageInv, Scrolled, Stamp, Rows

LEMMA ImageIInvStep ==
  ASSUME CopyIsSafe
  PROVE  ImageIInv /\ [Next]_vars => ImageIInv'
BY CopyIsSafe, TypeStep, CopyInvStep, ImageInvStep DEF ImageIInv

\* At rest the image is the window of the last delivered rows, provided the
\* build's memcpy is safe on the overlapping arguments of line 356.
THEOREM ImageIsAlwaysWindow ==
  ASSUME CopyIsSafe
  PROVE  Spec => []ImageIsWindow
<1>1. ImageIInv => ImageIsWindow
  BY DEF ImageIInv, ImageInv, ImageIsWindow, Copying, Scrolled
<1>2. QED
  BY <1>1, ImageIInvInit, ImageIInvStep, CopyIsSafe, PTL DEF Spec

-----------------------------------------------------------------------------
(* Refinement: one Scroll per block *)

\* The mapped window is the whole window of the rows begun, at every moment.
LEMMA WindowIsStamp ==
  ASSUME CopyIsSafe, ImageIInv
  PROVE  AbstractWindow = [i \in Rows |-> Stamp(Begun, i)]
<1> USE CaptureAssumption DEF ImageIInv, TypeOK, Kept, Rows
<1> SUFFICES ASSUME NEW i \in Rows
             PROVE  AbstractWindow[i] = Stamp(Begun, i)
  BY DEF AbstractWindow
<1>1. CASE ~Copying
  BY <1>1 DEF AbstractWindow, Copying, Begun, ImageInv, Scrolled
<1>2. CASE cpc = "shift" /\ i <= Kept /\ ~Moved(i, Kept)
  <2>1. PICK j \in Rows : j = i + GrabHeight
    BY <1>2
  <2>2. ~Scrolled(j)
    BY <1>2, <2>1 DEF Scrolled, Moved, CopyIsSafe
  <2>3. image[j] = Stamp(lines, j)
    BY <2>2 DEF ImageInv
  <2>4. AbstractWindow[i] = image[j]
    BY <1>2, <2>1 DEF AbstractWindow
  <2>5. Begun = lines + GrabHeight
    BY <1>2 DEF Begun, Copying
  <2>6. Stamp(lines, j) = Stamp(Begun, i)
    BY <2>1, <2>5 DEF Stamp
  <2>7. QED
    BY <2>3, <2>4, <2>6
<1>3. CASE \/ cpc = "shift" /\ i > Kept
           \/ cpc = "append" /\ i > Kept /\ ~Moved(i - Kept, GrabHeight)
  BY <1>3 DEF AbstractWindow, Begun, Copying, Stamp
<1>4. CASE Copying /\ Scrolled(i)
  <2>1. AbstractWindow[i] = image[i]
    BY <1>4 DEF AbstractWindow, Scrolled
  <2>2. Begun = lines + GrabHeight
    BY <1>4 DEF Begun
  <2>3. QED
    BY <1>4, <2>1, <2>2 DEF ImageInv
<1>5. QED
  BY <1>1, <1>2, <1>3, <1>4 DEF Copying, Scrolled

\* Only the arrival of a block changes the number of rows begun.
LEMMA BegunStep ==
  ASSUME TypeOK, CopyInv, [Next]_vars
  PROVE  Begun' = Begun \/ Begun' = Begun + GrabHeight
<1> USE CaptureAssumption DEF TypeOK, CaptureAt, Begun, Copying
<1>1. CASE CaptureNext
  BY <1>1 DEF CaptureNext, AllocateImage, StartGrabbing, CaptureThrows,
     GrabFailed, GrabSucceeded, ShiftRow, ShiftDone, AppendRow, AppendDone,
     vars, captureVars
<1>2. CASE UNCHANGED captureVars
  BY <1>2 DEF captureVars
<1>3. ReaderNext => UNCHANGED captureVars
  BY DEF ReaderNext, Lock, BeginClone, CloneRow, Unlock, Scan, Post
<1>4. QED
  BY <1>1, <1>2, <1>3 DEF Next, Halted, vars

\* The row-by-row copy, with two readers beside it, implements the window.
THEOREM CaptureRefinesWindow ==
  ASSUME CopyIsSafe
  PROVE  Spec => RefinesWindow
<1> USE CaptureAssumption, CopyIsSafe
<1>1. Init => Window!Init
  <2> SUFFICES ASSUME Init PROVE Window!Init
    OBVIOUS
  <2>1. AbstractWindow = [i \in Rows |-> Stamp(Begun, i)]
    BY ImageIInvInit, WindowIsStamp
  <2>2. Begun = 0
    BY DEF Init, Begun, Copying
  <2>3. \A i \in Rows : Stamp(0, i) = 0
    BY DEF Stamp, Rows
  <2>4. QED
    BY <2>1, <2>2, <2>3 DEF Window!Init, Rows
<1>2. ImageIInv /\ ImageIInv' /\ [Next]_vars
      => [Window!Scroll]_<<AbstractWindow, Begun>>
  <2> SUFFICES ASSUME ImageIInv, ImageIInv', [Next]_vars
               PROVE  [Window!Scroll]_<<AbstractWindow, Begun>>
    OBVIOUS
  <2>1. AbstractWindow = [i \in Rows |-> Stamp(Begun, i)]
    BY WindowIsStamp
  <2>2. AbstractWindow' = [i \in Rows |-> Stamp(Begun', i)]
    <3>1. (ImageIInv => AbstractWindow = [i \in Rows |-> Stamp(Begun, i)])'
      BY WindowIsStamp, PTL
    <3>2. QED
      BY <3>1 DEF Stamp
  <2>3. CASE Begun' = Begun
    BY <2>1, <2>2, <2>3
  <2>4. CASE Begun' = Begun + GrabHeight
    <3>1. Begun \in Nat
      BY DEF ImageIInv, TypeOK, Begun
    <3>2. ASSUME NEW i \in Rows
          PROVE  Stamp(Begun + GrabHeight, i) =
                   IF i <= ImageHeight - GrabHeight
                   THEN Stamp(Begun, i + GrabHeight)
                   ELSE Begun + GrabHeight - ImageHeight + i
      BY <3>1 DEF Stamp, Rows
    <3>3. \A i \in Rows : i <= ImageHeight - GrabHeight
                            => i + GrabHeight \in Rows
      BY DEF Rows
    <3>4. AbstractWindow' =
            [i \in 1..ImageHeight |->
               IF i <= ImageHeight - GrabHeight
               THEN AbstractWindow[i + GrabHeight]
               ELSE Begun + GrabHeight - ImageHeight + i]
      BY <2>1, <2>2, <2>4, <3>2, <3>3 DEF Rows
    <3>5. QED
      BY <2>4, <3>4 DEF Window!Scroll
  <2>5. QED
    BY <2>3, <2>4, BegunStep DEF ImageIInv
<1>3. QED
  BY <1>1, <1>2, ImageIInvInit, ImageIInvStep, PTL
     DEF Spec, RefinesWindow, Window!Spec

-----------------------------------------------------------------------------
(* The readers: what a clone that overlaps scrolls may return *)

ImageBetween(i) ==
  Stamp(lines, i) <= image[i] /\ image[i] <= Stamp(Begun, i)

LEMMA ImageIsBetween ==
  ASSUME ImageIInv
  PROVE  \A i \in Rows : ImageBetween(i)
<1> USE CaptureAssumption DEF ImageIInv, TypeOK
<1> SUFFICES ASSUME NEW i \in Rows PROVE ImageBetween(i)
  OBVIOUS
<1>1. lines <= Begun /\ Begun \in Nat
  BY DEF Begun
<1>2. CASE Scrolled(i)
  <2>1. Begun = lines + GrabHeight
    BY <1>2 DEF Begun, Copying, Scrolled
  <2>2. QED
    BY <1>1, <1>2, <2>1, StampGrows DEF ImageInv, ImageBetween
<1>3. CASE ~Scrolled(i)
  BY <1>1, <1>3, StampGrows DEF ImageInv, ImageBetween
<1>4. QED
  BY <1>2, <1>3

\* The rows already cloned are bounded as SnapshotRegular wants them, by the
\* scrolls begun so far.
CloneBounded(r) ==
  /\ lo[r] <= lines
  /\ rows[r] # 0 =>
       \A i \in Rows \ left[r] : /\ Stamp(lo[r], i) <= snap[r][i]
                                 /\ snap[r][i] <= Stamp(Begun, i)

LinesStep ==
  /\ lines' \in Nat /\ lines <= lines'
  /\ Begun \in Nat /\ Begun' \in Nat /\ Begun <= Begun'

LEMMA LinesGrow ==
  ASSUME TypeOK, CopyInv, [Next]_vars
  PROVE  LinesStep
<1> USE CaptureAssumption DEF TypeOK, LinesStep
<1>1. lines' \in Nat /\ lines <= lines'
  <2>1. CASE CaptureNext
    BY <2>1 DEF CaptureNext, AllocateImage, StartGrabbing, CaptureThrows,
       GrabFailed, GrabSucceeded, ShiftRow, ShiftDone, AppendRow, AppendDone,
       vars, captureVars
  <2>2. ReaderNext => UNCHANGED captureVars
    BY DEF ReaderNext, Lock, BeginClone, CloneRow, Unlock, Scan, Post
  <2>3. QED
    BY <2>1, <2>2 DEF Next, Halted, vars, captureVars
<1>2. Begun \in Nat
  BY DEF Begun
<1>3. QED
  BY <1>1, <1>2, BegunStep

\* A reader that does not move keeps its bounds while the image scrolls.
LEMMA CloneBoundedKept ==
  ASSUME TypeOK, LinesStep, NEW r \in Readers, CloneBounded(r),
         lo'[r] = lo[r], rows'[r] = rows[r], left'[r] = left[r],
         snap'[r] = snap[r]
  PROVE  CloneBounded(r)'
<1> USE CaptureAssumption DEF TypeOK, LinesStep
<1>1. \A i \in Rows : Stamp(Begun, i) <= Stamp(Begun', i)
  BY StampGrows
<1>2. \A i \in Rows : /\ Stamp(Begun, i) \in Int
                      /\ Stamp(Begun', i) \in Int
                      /\ snap[r][i] \in Int
  <2>1. \A i \in Rows : Stamp(Begun, i) \in Int /\ Stamp(Begun', i) \in Int
    BY StampGrows
  <2>2. \A i \in Rows : snap[r][i] \in Int
    OBVIOUS
  <2>3. QED
    BY <2>1, <2>2
<1>3. ASSUME NEW i \in Rows, snap[r][i] <= Stamp(Begun, i)
      PROVE  snap[r][i] <= Stamp(Begun', i)
  BY <1>1, <1>2, <1>3
<1>4. lo'[r] <= lines'
  BY DEF CloneBounded
<1>5. \A i \in Rows : Stamp(lo'[r], i) = Stamp(lo[r], i)
  BY DEF Stamp
<1>6. rows'[r] # 0 =>
        \A i \in Rows \ left'[r] : /\ Stamp(lo'[r], i) <= snap'[r][i]
                                   /\ snap'[r][i] <= Stamp(Begun', i)
  BY <1>3, <1>5 DEF CloneBounded
<1>7. (rows[r] # 0 =>
         \A i \in Rows \ left[r] : /\ Stamp(lo[r], i) <= snap[r][i]
                                   /\ snap[r][i] <= Stamp(Begun, i))'
  BY <1>6 DEF Stamp
<1>8. QED
  BY <1>4, <1>7 DEF CloneBounded

\* What each reader is held to while it clones and once it has cloned.
ReaderOK(r) ==
  /\ rpc[r] = "cloning" => CloneBounded(r)
  /\ rpc[r] = "cloned" /\ rows[r] # 0 =>
       \A i \in Rows : /\ Stamp(lo[r], i) <= snap[r][i]
                       /\ snap[r][i] <= Stamp(hi[r], i)

\* A reader that takes no step stays within its bounds.
LEMMA ReaderOKKept ==
  ASSUME ImageIInv, LinesStep, NEW r \in Readers, ReaderOK(r),
         rpc'[r] = rpc[r], lo'[r] = lo[r], hi'[r] = hi[r],
         rows'[r] = rows[r], left'[r] = left[r], snap'[r] = snap[r]
  PROVE  ReaderOK(r)'
<1>1. rpc'[r] = "cloning" => CloneBounded(r)'
  BY CloneBoundedKept DEF ReaderOK, ImageIInv
<1>2. (rpc[r] = "cloned" /\ rows[r] # 0 =>
         \A i \in Rows : /\ Stamp(lo[r], i) <= snap[r][i]
                         /\ snap[r][i] <= Stamp(hi[r], i))'
  BY DEF ReaderOK, Stamp
<1>3. QED
  BY <1>1, <1>2 DEF ReaderOK

LEMMA ReaderOKStep ==
  ASSUME CopyIsSafe, ImageIInv, [Next]_vars,
         NEW r \in Readers, ReaderOK(r)
  PROVE  ReaderOK(r)'
<1> USE DEF ReaderAt
<1>0. TypeOK /\ LinesStep
  BY LinesGrow DEF ImageIInv
<1>1. CASE UNCHANGED readerVars
  BY <1>0, <1>1, ReaderOKKept DEF readerVars
<1>2. CaptureNext => UNCHANGED readerVars
  BY DEF CaptureNext, AllocateImage, StartGrabbing, CaptureThrows, GrabFailed,
     GrabSucceeded, ShiftRow, ShiftDone, AppendRow, AppendDone, vars
<1>3. ASSUME NEW q \in Readers, q # r,
             Lock(q) \/ BeginClone(q) \/ CloneRow(q) \/ Unlock(q)
      PROVE  ReaderOK(r)'
  BY <1>0, <1>3, ReaderOKKept
     DEF Lock, BeginClone, CloneRow, Unlock, TypeOK
<1>4. CASE Lock(r)
  BY <1>0, <1>4 DEF Lock, ReaderOK, TypeOK
<1>5. CASE BeginClone(r)
  <2>1. /\ rows'[r] = imageRows /\ left'[r] = 1..imageRows
        /\ lo'[r] = lines /\ lines' = lines /\ rpc'[r] = "cloning"
    BY <1>0, <1>5 DEF BeginClone, TypeOK, captureVars
  <2>2. rows'[r] # 0 => Rows \ left'[r] = {}
    BY <1>0, <2>1 DEF TypeOK, Rows
  <2>3. CloneBounded(r)'
    BY <1>0, <2>1, <2>2 DEF CloneBounded, TypeOK
  <2>4. QED
    BY <2>1, <2>3 DEF ReaderOK
<1>6. CASE CloneRow(r)
  <2>1. PICK k \in left[r] : /\ snap' = [snap EXCEPT ![r][k] = image[k]]
                             /\ left' = [left EXCEPT ![r] = @ \ {k}]
    BY <1>6 DEF CloneRow
  <2>2. /\ rpc'[r] = "cloning" /\ CloneBounded(r) /\ UNCHANGED <<lo, rows>>
        /\ lines' = lines /\ Begun' = Begun
    BY <1>6 DEF CloneRow, captureVars, ReaderOK, Begun, Copying
  <2>3. k \in Rows /\ ImageBetween(k)
    BY <1>0, ImageIsBetween DEF TypeOK
  <2>4. Stamp(lo[r], k) <= image[k]
    <3>1. Stamp(lo[r], k) <= Stamp(lines, k) /\ Stamp(lo[r], k) \in Nat
      BY <1>0, <2>2, <2>3, StampGrows DEF TypeOK, CloneBounded
    <3>2. Stamp(lines, k) \in Nat
      BY <1>0, <2>3, StampGrows DEF TypeOK
    <3>3. image[k] \in Nat
      BY <1>0, <2>3 DEF TypeOK
    <3>4. QED
      BY <2>3, <3>1, <3>2, <3>3 DEF ImageBetween
  <2>5. ASSUME NEW i \in Rows \ left'[r], rows[r] # 0
        PROVE  Stamp(lo[r], i) <= snap'[r][i] /\ snap'[r][i] <= Stamp(Begun, i)
    <3>1. CASE i = k
      BY <1>0, <2>1, <2>3, <2>4, <3>1 DEF ImageBetween, TypeOK
    <3>2. CASE i # k
      <4>1. i \in Rows \ left[r] /\ snap'[r][i] = snap[r][i]
        BY <1>0, <2>1, <3>2 DEF TypeOK
      <4>2. QED
        BY <2>2, <2>5, <4>1 DEF CloneBounded
    <3>3. QED
      BY <3>1, <3>2
  <2>6. CloneBounded(r)'
    BY <2>2, <2>5 DEF CloneBounded, Stamp
  <2>7. QED
    BY <2>2, <2>6 DEF ReaderOK
<1>7. CASE Unlock(r)
  <2>1. /\ rpc[r] = "cloning" /\ left[r] = {} /\ UNCHANGED <<lo, rows, snap>>
        /\ rpc'[r] = "cloned" /\ hi'[r] = Begun
    BY <1>0, <1>7 DEF Unlock, TypeOK
  <2>2. QED
    BY <2>1 DEF ReaderOK, CloneBounded, Stamp
<1>8. CASE Scan \/ Post
  BY <1>0, <1>8, ReaderOKKept DEF Scan, Post, ReaderOK, TypeOK, Readers
<1>9. QED
  BY <1>1, <1>2, <1>3, <1>4, <1>5, <1>6, <1>7, <1>8
     DEF Next, ReaderNext, Halted, vars

ReaderIInv == ImageIInv /\ \A r \in Readers : ReaderOK(r)

LEMMA ReaderIInvInit == Init => ReaderIInv
BY ImageIInvInit DEF ReaderIInv, ReaderOK, Init

LEMMA ReaderIInvStep ==
  ASSUME CopyIsSafe
  PROVE  ReaderIInv /\ [Next]_vars => ReaderIInv'
BY CopyIsSafe, ImageIInvStep, ReaderOKStep DEF ReaderIInv

\* However scrolls and clones interleave, each row of a clone is one the
\* window showed during the clone.
THEOREM SnapshotIsRegular ==
  ASSUME CopyIsSafe
  PROVE  Spec => []SnapshotRegular
<1>1. ReaderIInv => SnapshotRegular
  BY DEF ReaderIInv, ReaderOK, SnapshotRegular
<1>2. QED
  BY <1>1, ReaderIInvInit, ReaderIInvStep, CopyIsSafe, PTL DEF Spec

-----------------------------------------------------------------------------
(* The readers never see the image go back *)

\* Rows of the image are only ever replaced by newer ones.
LEMMA ImageGrows ==
  ASSUME CopyIsSafe, ImageIInv, [Next]_vars
  PROVE  \A i \in Rows : image[i] <= image'[i]
<1> USE CaptureAssumption DEF ImageIInv, TypeOK
<1>1. CASE UNCHANGED image
  BY <1>1
<1>2. ASSUME NEW m \in Rows,
             image' = [image EXCEPT ![m] = Stamp(lines + GrabHeight, m)]
      PROVE  \A i \in Rows : image[i] <= image'[i]
  <2>1. image[m] = Stamp(lines, m) \/ image[m] = Stamp(lines + GrabHeight, m)
    BY DEF ImageInv
  <2>2. /\ Stamp(lines, m) <= Stamp(lines + GrabHeight, m)
        /\ Stamp(lines + GrabHeight, m) \in Nat
    <3>1. lines + GrabHeight \in Nat /\ lines <= lines + GrabHeight
      OBVIOUS
    <3>2. QED
      BY <3>1, StampGrows
  <2>3. image[m] <= image'[m]
    BY <1>2, <2>1, <2>2
  <2>4. QED
    BY <1>2, <2>3
<1>3. CASE ShiftRow
  BY <1>2, <1>3, ShiftRowEffect
<1>4. CASE AppendRow
  BY <1>2, <1>4, AppendRowEffect
<1>5. QED
  BY <1>1, <1>3, <1>4 DEF Next, CaptureNext, ReaderNext, Halted, vars,
     captureVars, AllocateImage, StartGrabbing, CaptureThrows, GrabFailed,
     GrabSucceeded, ShiftDone, AppendDone, Lock, BeginClone, CloneRow, Unlock,
     Scan, Post

SnapBehind == \A r \in Readers, i \in Rows : snap[r][i] <= image[i]

\* A step leaves a row of a clone alone or copies the image's row into it.
LEMMA SnapStep ==
  ASSUME TypeOK, [Next]_vars, NEW r \in Readers, NEW i \in Rows
  PROVE  snap'[r][i] = snap[r][i] \/ snap'[r][i] = image[i]
<1>1. CASE UNCHANGED snap
  BY <1>1
<1>2. ASSUME NEW q \in Readers, CloneRow(q)
      PROVE  snap'[r][i] = snap[r][i] \/ snap'[r][i] = image[i]
  BY <1>2 DEF CloneRow, TypeOK
<1>3. QED
  BY <1>1, <1>2 DEF Next, CaptureNext, ReaderNext, Halted, vars,
     readerVars, AllocateImage, StartGrabbing, CaptureThrows, GrabFailed,
     GrabSucceeded, ShiftRow, ShiftDone, AppendRow, AppendDone, Lock,
     BeginClone, Unlock, Scan, Post

LEMMA SnapBehindStep ==
  ASSUME CopyIsSafe, ImageIInv, SnapBehind, [Next]_vars
  PROVE  SnapBehind'
<1> SUFFICES ASSUME NEW r \in Readers, NEW i \in Rows
             PROVE  snap'[r][i] <= image'[i]
  BY DEF SnapBehind
<1>1. /\ snap[r][i] \in Nat /\ image[i] \in Nat /\ image'[i] \in Nat
  BY TypeStep DEF ImageIInv, TypeOK
<1>2. image[i] <= image'[i] /\ snap[r][i] <= image[i]
  BY ImageGrows DEF SnapBehind
<1>3. QED
  BY <1>1, <1>2, SnapStep DEF ImageIInv

\* No reader ever sees a line of the image go back to an older camera row.
THEOREM SnapshotsNeverGoBack ==
  ASSUME CopyIsSafe
  PROVE  Spec => SnapshotNeverGoesBack
<1>1. Init => SnapBehind
  BY DEF Init, SnapBehind
<1>2. ImageIInv /\ SnapBehind /\ [Next]_vars => SnapBehind'
  BY SnapBehindStep, CopyIsSafe
<1>3. ImageIInv /\ SnapBehind /\ [Next]_vars
      => [\A r \in Readers, i \in Rows : snap'[r][i] >= snap[r][i]]_vars
  <2> SUFFICES ASSUME ImageIInv, SnapBehind, [Next]_vars,
                      NEW r \in Readers, NEW i \in Rows
               PROVE  snap'[r][i] >= snap[r][i]
    OBVIOUS
  <2>1. snap[r][i] \in Nat /\ image[i] \in Nat /\ snap[r][i] <= image[i]
    BY DEF ImageIInv, TypeOK, SnapBehind
  <2>2. QED
    BY <2>1, SnapStep DEF ImageIInv
<1>4. QED
  BY <1>1, <1>2, <1>3, ImageIInvInit, ImageIInvStep, CopyIsSafe, PTL
     DEF Spec, SnapshotNeverGoesBack

-----------------------------------------------------------------------------
(* The lengths of the copies *)

\* The image is there whenever rows are moved in it.
Allocated ==
  /\ format = "Mono8"
  /\ cpc \in {"configured", "retrieve", "shift", "append"} => imageRows = ImageHeight
  /\ NoWildCopy

\* Nothing is copied with a wrapped length, if the camera is in the format
\* Mono8 when it is opened and a block is not higher than the image: what the
\* code relies on and run capture_format lacks.
THEOREM NeverWildCopy ==
  ASSUME InitialFormats \subseteq {"Mono8"}, Kept >= 0
  PROVE  Spec => []NoWildCopy
<1>1. Init => Allocated
  BY DEF Init, Allocated, NoWildCopy
<1>2. TypeOK /\ Allocated /\ [Next]_vars => Allocated'
  <2> SUFFICES ASSUME TypeOK, Allocated, [Next]_vars PROVE Allocated'
    OBVIOUS
  <2> USE DEF Allocated, NoWildCopy, CaptureAt, captureVars, readerVars, vars
  <2>1. CASE CaptureNext
    <3>1. CASE AllocateImage \/ StartGrabbing \/ CaptureThrows
      BY <3>1 DEF AllocateImage, StartGrabbing, CaptureThrows
    <3>2. CASE GrabFailed
      BY <3>2 DEF GrabFailed
    <3>3. CASE GrabSucceeded
      <4>1. imageRows # 0 /\ ~(Kept < 0)
        BY <3>3, CaptureAssumption DEF GrabSucceeded, Kept
      <4>2. QED
        BY <3>3, <4>1 DEF GrabSucceeded
    <3>4. CASE ShiftRow \/ ShiftDone \/ AppendRow \/ AppendDone
      BY <3>4 DEF ShiftRow, ShiftDone, AppendRow, AppendDone
    <3>5. QED
      BY <2>1, <3>1, <3>2, <3>3, <3>4 DEF CaptureNext
  <2>2. CASE ReaderNext
    BY <2>2 DEF ReaderNext, ReaderAt, Lock, BeginClone, CloneRow, Unlock, Scan, Post
  <2>3. CASE UNCHANGED vars
    BY <2>3
  <2>4. QED
    BY <2>1, <2>2, <2>3 DEF Next, Halted
<1>3. Allocated => NoWildCopy
  BY DEF Allocated
<1>4. QED
  BY <1>1, <1>2, <1>3, TypeInit, TypeStep, PTL DEF Spec

=============================================================================
