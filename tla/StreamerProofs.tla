--------------------------- MODULE StreamerProofs ---------------------------
(***************************************************************************)
(* Proofs about module Streamer, for every set of pages, pool size and     *)
(* number of posts, with and without timeouts and spurious wakeups.        *)
(***************************************************************************)
EXTENDS Streamer, FiniteSetTheorems, TLAPS

-----------------------------------------------------------------------------
(* Types; the mutex: the buffer is cleared only while the poster has it;   *)
(* the queue: at most one handler of a page, and none beside a running one *)

\* mtx_ is held exactly while the poster encodes or a page is about to wait,
\* and only while the poster encodes is the buffer anything but the latest
\* image.
MutexInv ==
  /\ mtx = "poster" <=> pc = "encoding"
  /\ \A p \in Pages : mtx = p <=> conn[p] = "counted"
  /\ jpg = IF pc = "encoding" THEN Cleared ELSE posted

IInv == TypeOK /\ MutexInv /\ HandlersNotConcurrent

LEMMA PosterStep ==
  ASSUME IInv, PosterNext
  PROVE  TypeOK' /\ MutexInv'
<1> USE StreamerAssumption DEF IInv, TypeOK, MutexInv, pageVars
<1>1. CASE CallPost
  BY <1>1 DEF CallPost
<1>3. CASE CountWatchers
  BY <1>3 DEF CountWatchers
<1>4. CASE ClearBuffer
  <2>1. due' \subseteq Pages
    BY <1>4 DEF ClearBuffer
  <2>2. QED
    BY <1>4, <2>1 DEF ClearBuffer
<1>5. CASE Encode
  <2>1. Successor(posted) \in 0..MaxPosts
    BY DEF Successor
  <2>2. QED
    BY <1>5, <2>1 DEF Encode
<1>6. CASE Notify
  <2>1. conn' \in [Pages -> {"away", "queued", "writing"} \cup OnThread]
    BY <1>6 DEF Notify, OnThread, Watching
  <2>2. QED
    BY <1>6, <2>1 DEF Notify
<1>7. QED
  BY <1>1, <1>3, <1>4, <1>5, <1>6 DEF PosterNext

LEMMA PageStep ==
  ASSUME IInv, NEW p \in Pages, PageNext(p)
  PROVE  TypeOK' /\ MutexInv'
<1> USE StreamerAssumption DEF IInv, TypeOK, MutexInv, posterVars, OnThread,
        Watching
<1>1. ASSUME NEW j \in {"request", "written", "failed"}, Enqueue(p, j)
      PROVE  /\ conn' \in [Pages -> {"away", "queued", "writing"} \cup OnThread]
             /\ job' \in [Pages -> {"request", "written", "failed"}]
             /\ ready' \in Seq(Pages)
             /\ conn[p] # "counted" =>
                  \A q \in Pages : conn'[q] = "counted" <=> conn[q] = "counted"
  BY <1>1 DEF Enqueue
<1>2. ASSUME NEW j, RunsHandler(p, j)
      PROVE  ready' \in Seq(Pages) /\ conn[p] = "queued"
  <2>1. 1 \in 1..Len(ready) /\ ready[1] = p /\ ready' \in Seq(Pages)
    BY <1>2 DEF RunsHandler
  <2>2. QED
    BY <2>1 DEF HandlersNotConcurrent
<1>3. CASE Request(p)
  BY <1>1, <1>3 DEF Request
<1>4. CASE HandleStream(p)
  BY <1>2, <1>4 DEF HandleStream
<1>5. CASE HandleWritten(p)
  BY <1>2, <1>5 DEF HandleWritten
<1>6. CASE HandleWriteError(p)
  BY <1>2, <1>6 DEF HandleWriteError
<1>7. CASE WriteCompletes(p)
  BY <1>1, <1>7 DEF WriteCompletes
<1>8. CASE WriteFails(p)
  BY <1>1, <1>8 DEF WriteFails
<1>9. CASE BoundarySent(p)
  BY <1>9 DEF BoundarySent
<1>10. CASE BoundaryFails(p)
  BY <1>10 DEF BoundaryFails
<1>11. CASE CountPage(p)
  BY <1>11 DEF CountPage
<1>17. CASE BeginWait(p)
  BY <1>17 DEF BeginWait
<1>12. CASE TimeOut(p)
  BY <1>12 DEF TimeOut
<1>13. CASE SpuriousWakeup(p)
  BY <1>13 DEF SpuriousWakeup
<1>14. CASE WaitAgain(p)
  BY <1>14 DEF WaitAgain
<1>15. CASE CopyImage(p)
  <2>1. jpg \in 0..MaxPosts
    BY <1>15 DEF CopyImage
  <2>2. QED
    BY <1>15, <2>1 DEF CopyImage
<1>16. QED
  BY <1>3, <1>4, <1>5, <1>6, <1>7, <1>8, <1>9, <1>10, <1>11, <1>12, <1>13,
     <1>14, <1>15, <1>17 DEF PageNext

\* A page enters the queue when it leaves the state "writing" or "away", and
\* leaves the state "queued" when it leaves the queue.
LEMMA QueueStep ==
  ASSUME TypeOK, HandlersNotConcurrent, [Next]_vars
  PROVE  HandlersNotConcurrent'
<1> USE DEF TypeOK, HandlersNotConcurrent
<1>1. ASSUME NEW p \in Pages, NEW j, Enqueue(p, j), conn[p] # "queued"
      PROVE  HandlersNotConcurrent'
  <2>1. /\ Len(ready') = Len(ready) + 1 /\ ready'[Len(ready) + 1] = p
        /\ \A i \in 1..Len(ready) : ready'[i] = ready[i] /\ ready[i] # p
    BY <1>1 DEF Enqueue
  <2>2. ASSUME NEW i \in 1..Len(ready')
        PROVE  conn'[ready'[i]] = "queued"
    BY <1>1, <2>1 DEF Enqueue
  <2>3. ASSUME NEW i \in 1..Len(ready'), NEW k \in 1..Len(ready'),
               ready'[i] = ready'[k]
        PROVE  i = k
    <3>1. PICK n \in Nat : n = Len(ready)
      OBVIOUS
    <3>2. i \in 1..n \/ i = n + 1
      BY <2>1, <3>1
    <3>3. k \in 1..n \/ k = n + 1
      BY <2>1, <3>1
    <3>4. \A m \in 1..n : ready'[m] = ready[m] /\ ready[m] # p
      BY <2>1, <3>1
    <3>5. ready'[n + 1] = p
      BY <2>1, <3>1
    <3>6. CASE i \in 1..n /\ k \in 1..n
      <4>1. ready[i] = ready[k]
        BY <2>3, <3>4, <3>6, Zenon
      <4>2. QED
        BY <3>1, <3>6, <4>1, Zenon
    <3>7. QED
      BY <2>3, <3>2, <3>3, <3>4, <3>5, <3>6, Zenon
  <2>4. QED
    BY <2>2, <2>3
<1>2. ASSUME NEW p \in Pages, NEW j, RunsHandler(p, j),
             NEW v, conn' = [conn EXCEPT ![p] = v]
      PROVE  HandlersNotConcurrent'
  <2>1. /\ Len(ready) \in Nat \ {0} /\ Len(ready') = Len(ready) - 1
        /\ ready[1] = p
        /\ \A i \in 1..Len(ready') :
             i + 1 \in 1..Len(ready) /\ ready'[i] = ready[i + 1]
    BY <1>2 DEF RunsHandler
  <2>2. ASSUME NEW i \in 1..Len(ready')
        PROVE  ready'[i] # p
    <3>1. i + 1 \in 1..Len(ready) /\ ready'[i] = ready[i + 1]
      BY <2>1
    <3>2. 1 \in 1..Len(ready) /\ i + 1 # 1
      BY <2>1
    <3>3. ready[i + 1] # ready[1]
      BY <3>1, <3>2, Zenon
    <3>4. QED
      BY <2>1, <3>1, <3>3, Zenon
  <2>3. ASSUME NEW i \in 1..Len(ready')
        PROVE  conn'[ready'[i]] = "queued"
    <3>1. PICK k \in 1..Len(ready) : ready'[i] = ready[k]
      BY <2>1
    <3>4. ready[k] \in Pages /\ conn[ready[k]] = "queued"
      OBVIOUS
    <3>2. ready'[i] # p
      BY <2>2
    <3>3. QED
      BY <1>2, <3>1, <3>2, <3>4
  <2>4. ASSUME NEW i \in 1..Len(ready'), NEW k \in 1..Len(ready'),
               ready'[i] = ready'[k]
        PROVE  i = k
    <3>1. /\ i + 1 \in 1..Len(ready) /\ k + 1 \in 1..Len(ready)
          /\ ready[i + 1] = ready[k + 1]
      BY <2>1, <2>4
    <3>2. i + 1 = k + 1
      BY <3>1
    <3>3. QED
      BY <2>1, <3>2
  <2>5. QED
    BY <2>3, <2>4
<1>3. ASSUME NEW p \in Pages, conn[p] # "queued", NEW v,
             conn' = [conn EXCEPT ![p] = v], ready' = ready
      PROVE  HandlersNotConcurrent'
  BY <1>3
<1>4. CASE PosterNext
  <2>1. ready' = ready
    BY <1>4 DEF PosterNext, CallPost, CountWatchers, ClearBuffer,
       Encode, Notify, pageVars
  <2>2. \A p \in Pages : conn[p] = "queued" => conn'[p] = "queued"
    BY <1>4 DEF PosterNext, CallPost, CountWatchers, ClearBuffer,
       Encode, Notify, pageVars
  <2>3. QED
    BY <2>1, <2>2
<1>5. ASSUME NEW p \in Pages, PageNext(p)
      PROVE  HandlersNotConcurrent'
  <2>1. CASE Request(p) \/ WriteCompletes(p) \/ WriteFails(p)
    BY <1>1, <2>1 DEF Request, WriteCompletes, WriteFails
  <2>2. CASE HandleStream(p) \/ HandleWritten(p) \/ HandleWriteError(p)
    BY <1>2, <2>2 DEF HandleStream, HandleWritten, HandleWriteError
  <2>3. CASE \/ BoundarySent(p) \/ BoundaryFails(p)
             \/ CountPage(p) \/ BeginWait(p)
             \/ TimeOut(p) \/ SpuriousWakeup(p) \/ WaitAgain(p)
             \/ CopyImage(p)
    BY <1>3, <2>3 DEF BoundarySent, BoundaryFails, CountPage,
       BeginWait, TimeOut, SpuriousWakeup, WaitAgain, CopyImage
  <2>4. QED
    BY <1>5, <2>1, <2>2, <2>3 DEF PageNext
<1>6. CASE UNCHANGED vars
  BY <1>6 DEF vars, pageVars
<1>7. QED
  BY <1>4, <1>5, <1>6 DEF Next

LEMMA IInvInit == Init => IInv
BY StreamerAssumption DEF Init, IInv, TypeOK, MutexInv, HandlersNotConcurrent, Cleared

LEMMA IInvStep == IInv /\ [Next]_vars => IInv'
<1> SUFFICES ASSUME IInv, [Next]_vars PROVE IInv'
  OBVIOUS
<1>1. CASE UNCHANGED vars
  BY <1>1 DEF vars, posterVars, pageVars, IInv, TypeOK, MutexInv,
     HandlersNotConcurrent
<1>2. TypeOK' /\ MutexInv' /\ HandlersNotConcurrent'
  BY <1>1, PosterStep, PageStep, QueueStep DEF Next, IInv
<1>3. QED
  BY <1>2 DEF IInv

\* A connection's handlers are never queued beside one that runs.
THEOREM HandlersNeverConcurrent == Spec => []HandlersNotConcurrent
<1>1. IInv => HandlersNotConcurrent
  BY DEF IInv
<1>2. QED
  BY <1>1, IInvInit, IInvStep, PTL DEF Spec

\* Every variable keeps its type; no page is ever handed a cleared buffer.
THEOREM TypeCorrect == Spec => []TypeOK
<1>1. IInv => TypeOK
  BY DEF IInv
<1>2. QED
  BY <1>1, IInvInit, IInvStep, PTL DEF Spec

-----------------------------------------------------------------------------
(* The count of the watchers *)

Watchers == {p \in Pages : conn[p] \in Watching}

LEMMA WatchersFinite == IsFiniteSet(Watchers) /\ IsFiniteSet(Watchers')
BY StreamerAssumption, FS_Subset DEF Watchers

\* Only the two ends of the wait loop add or remove a watcher.
LEMMA WatchersStep ==
  ASSUME TypeOK, HandlersNotConcurrent, [Next]_vars
  PROVE  \/ Watchers' = Watchers /\ watchers' = watchers
         \/ \E p \in Pages \ Watchers :
              Watchers' = Watchers \cup {p} /\ watchers' = watchers + 1
         \/ \E p \in Watchers :
              Watchers' = Watchers \ {p} /\ watchers' = watchers - 1
<1> USE DEF TypeOK, Watchers, Watching
<1>1. CASE UNCHANGED vars
  BY <1>1 DEF vars, posterVars, pageVars
<1>2. CASE PosterNext
  BY <1>2 DEF PosterNext, CallPost, CountWatchers, ClearBuffer,
     Encode, Notify, pageVars
<1>3. ASSUME NEW p \in Pages, CountPage(p)
      PROVE  \E q \in Pages \ Watchers :
               Watchers' = Watchers \cup {q} /\ watchers' = watchers + 1
  BY <1>3 DEF CountPage
<1>4. ASSUME NEW p \in Pages, CopyImage(p)
      PROVE  \E q \in Watchers :
               Watchers' = Watchers \ {q} /\ watchers' = watchers - 1
  <2>1. p \in Watchers
    BY <1>4 DEF CopyImage
  <2>2. Watchers' = Watchers \ {p}
    BY <1>4 DEF CopyImage
  <2>3. watchers' = watchers - 1
    BY <1>4 DEF CopyImage
  <2>4. QED
    BY <2>1, <2>2, <2>3
<1>5. ASSUME NEW p \in Pages, PageNext(p), ~CountPage(p), ~CopyImage(p)
      PROVE  Watchers' = Watchers /\ watchers' = watchers
  <2>1. watchers' = watchers
    BY <1>5 DEF PageNext, Request, HandleStream, HandleWritten,
       HandleWriteError, WriteCompletes, WriteFails, BoundarySent,
       BoundaryFails, BeginWait, TimeOut, SpuriousWakeup, WaitAgain
  <2>2. ASSUME NEW v, conn' = [conn EXCEPT ![p] = v],
               conn[p] \in Watching <=> v \in Watching
        PROVE  Watchers' = Watchers
    BY <2>2
  <2>3. CASE BeginWait(p) \/ TimeOut(p) \/ SpuriousWakeup(p) \/ WaitAgain(p)
    BY <2>2, <2>3 DEF BeginWait, TimeOut, SpuriousWakeup, WaitAgain
  <2>4. CASE Request(p) \/ WriteCompletes(p) \/ WriteFails(p)
    BY <2>2, <2>4 DEF Request, WriteCompletes, WriteFails, Enqueue
  <2>5. CASE BoundarySent(p) \/ BoundaryFails(p)
    BY <2>2, <2>5 DEF BoundarySent, BoundaryFails
  <2>6. CASE HandleStream(p) \/ HandleWritten(p) \/ HandleWriteError(p)
    <3>1. conn[p] = "queued"
      BY <2>6 DEF HandleStream, HandleWritten, HandleWriteError, RunsHandler,
         HandlersNotConcurrent
    <3>2. QED
      BY <2>2, <2>6, <3>1 DEF HandleStream, HandleWritten, HandleWriteError
  <2>7. QED
    BY <1>5, <2>1, <2>3, <2>4, <2>5, <2>6 DEF PageNext
<1>6. QED
  BY <1>1, <1>2, <1>3, <1>4, <1>5 DEF Next

LEMMA WatchersExactStep ==
  ASSUME TypeOK, HandlersNotConcurrent, WatchersExact, [Next]_vars
  PROVE  WatchersExact'
<1>1. watchers = Cardinality(Watchers)
  BY DEF WatchersExact, Watchers
<1>2. Cardinality(Watchers) \in Nat
  BY WatchersFinite, FS_CardinalityType
<1>3. ASSUME NEW p \in Pages \ Watchers
      PROVE  Cardinality(Watchers \cup {p}) = Cardinality(Watchers) + 1
  BY <1>3, WatchersFinite, FS_AddElement
<1>4. ASSUME NEW p \in Watchers
      PROVE  Cardinality(Watchers \ {p}) = Cardinality(Watchers) - 1
  BY <1>4, WatchersFinite, FS_RemoveElement
<1>5. watchers' = Cardinality(Watchers')
  BY <1>1, <1>2, <1>3, <1>4, WatchersStep
<1>6. QED
  BY <1>5 DEF WatchersExact, Watchers

\* watchers_ is at every moment the number of handlers in the wait loop.
THEOREM WatchersAlwaysExact == Spec => []WatchersExact
<1>1. Init => WatchersExact
  <2>1. Init => {p \in Pages : conn[p] \in Watching} = {}
    BY DEF Init, Watching
  <2>2. QED
    BY <2>1, FS_EmptySet DEF Init, WatchersExact
<1>2. IInv /\ WatchersExact /\ [Next]_vars => WatchersExact'
  BY WatchersExactStep DEF IInv
<1>3. QED
  BY <1>1, <1>2, IInvInit, IInvStep, PTL DEF Spec

-----------------------------------------------------------------------------
(* A post reaches the pages counted before it, if no wait times out *)

\* From the moment the poster takes mtx_ until it has notified them, the pages
\* that are due stay in the wait loop, and none of them has yet to begin its
\* wait.
DueInv ==
  /\ \A p \in Pages : conn[p] # "timedout"
  /\ \A p \in due : conn[p] \in {"waiting", "woken"}

LEMMA DueStep ==
  ASSUME "timeout" \notin Disturbances, IInv, DueInv, [Next]_vars
  PROVE  DueInv'
<1> USE DEF DueInv, TypeOK, IInv
<1>1. CASE UNCHANGED vars
  BY <1>1 DEF vars, posterVars, pageVars
<1>2. CASE ClearBuffer
  <2>1. mtx = "free" /\ conn' = conn
        /\ due' = {p \in Pages : conn[p] \in Watching}
    BY <1>2 DEF ClearBuffer, pageVars
  <2>2. \A p \in Pages : conn[p] # "counted"
    BY <2>1, StreamerAssumption DEF MutexInv
  <2>3. QED
    BY <2>1, <2>2 DEF Watching
<1>3. CASE Notify
  BY <1>3 DEF Notify
<1>4. CASE CallPost \/ CountWatchers \/ Encode
  BY <1>4 DEF CallPost, CountWatchers, Encode, pageVars
<1>5. ASSUME NEW p \in Pages, CopyImage(p)
      PROVE  DueInv'
  BY <1>5 DEF CopyImage
<1>6. ASSUME NEW p \in Pages, PageNext(p), ~CopyImage(p)
      PROVE  DueInv'
  <2>1. ASSUME NEW v, v # "timedout", conn' = [conn EXCEPT ![p] = v],
               due' = due, p \in due => v \in {"waiting", "woken"}
        PROVE  DueInv'
    BY <2>1
  <2>2. CASE BeginWait(p) \/ SpuriousWakeup(p)
    BY <2>1, <2>2 DEF BeginWait, SpuriousWakeup, posterVars
  <2>3. CASE CountPage(p) \/ BoundarySent(p) \/ BoundaryFails(p)
    BY <2>1, <2>3 DEF CountPage, BoundarySent, BoundaryFails, posterVars
  <2>4. CASE Request(p) \/ WriteCompletes(p) \/ WriteFails(p)
    BY <2>1, <2>4 DEF Request, WriteCompletes, WriteFails, Enqueue, posterVars
  <2>5. CASE HandleStream(p) \/ HandleWritten(p) \/ HandleWriteError(p)
    <3>1. conn[p] = "queued"
      BY <2>5 DEF HandleStream, HandleWritten, HandleWriteError, RunsHandler,
         HandlersNotConcurrent
    <3>2. QED
      BY <2>1, <2>5, <3>1 DEF HandleStream, HandleWritten, HandleWriteError,
         posterVars
  <2>6. ~TimeOut(p) /\ ~WaitAgain(p)
    BY DEF TimeOut, WaitAgain
  <2>7. QED
    BY <1>6, <2>2, <2>3, <2>4, <2>5, <2>6 DEF PageNext
<1>7. QED
  BY <1>1, <1>2, <1>3, <1>4, <1>5, <1>6 DEF Next, PosterNext

LEMMA PostReachesStep ==
  ASSUME IInv, DueInv, [Next]_vars, pc = "notifying", pc' = "idle"
  PROVE  \A p \in due : conn'[p] = "woken"
<1>1. ~UNCHANGED pc
  OBVIOUS
<1>2. Notify
  BY <1>1 DEF Next, vars, posterVars, PosterNext, CallPost, CountWatchers,
     ClearBuffer, Encode, PageNext, Request, HandleStream, HandleWritten,
     HandleWriteError, WriteCompletes, WriteFails, BoundarySent,
     BoundaryFails, CountPage, BeginWait, TimeOut, SpuriousWakeup, WaitAgain,
     CopyImage
<1>3. QED
  BY <1>2 DEF Notify, DueInv, IInv, TypeOK

\* If every post comes before a wait times out, post_image has woken or served
\* all the pages that were counted when it took mtx_.
THEOREM PostsReachWatchers ==
  ASSUME "timeout" \notin Disturbances
  PROVE  Spec => PostReachesWatchers
<1>1. Init => DueInv
  BY DEF Init, DueInv
<1>2. IInv /\ DueInv /\ [Next]_vars => DueInv'
  BY DueStep
<1>3. IInv /\ DueInv /\ [Next]_vars
        => [pc = "notifying" /\ pc' = "idle" =>
              \A p \in due : conn'[p] = "woken"]_vars
  BY PostReachesStep
<1>4. QED
  BY <1>1, <1>2, <1>3, IInvInit, IInvStep, PTL DEF Spec, PostReachesWatchers

-----------------------------------------------------------------------------
(* Refinement: an indivisible broadcast *)

LEMMA PosterRefines ==
  ASSUME PosterNext
  PROVE  Stream!Publish \/ UNCHANGED <<posted, part>>
BY DEF PosterNext, CallPost, CountWatchers, ClearBuffer, Encode,
   Notify, pageVars, Stream!Publish, Stream!Successor, Successor

LEMMA PageRefines ==
  ASSUME IInv, NEW p \in Pages, PageNext(p)
  PROVE  Stream!Show(p) \/ Stream!Reload(p) \/ UNCHANGED <<posted, part>>
<1>1. CASE Request(p)
  BY <1>1 DEF Request, posterVars, Stream!Reload
<1>2. CASE CopyImage(p)
  <2>1. jpg = posted
    BY <1>2 DEF CopyImage, IInv, MutexInv
  <2>2. QED
    BY <1>2, <2>1 DEF CopyImage, posterVars, Stream!Show
<1>3. CASE ~Request(p) /\ ~CopyImage(p)
  BY <1>3 DEF PageNext, HandleStream, HandleWritten, HandleWriteError,
     WriteCompletes, WriteFails, BoundarySent, BoundaryFails, CountPage,
     BeginWait, TimeOut, SpuriousWakeup, WaitAgain, posterVars
<1>4. QED
  BY <1>1, <1>2, <1>3

\* Encoding under the lock, copying under it and notifying after it amount
\* to replacing and showing the current image indivisibly.
THEOREM StreamerRefinesBroadcast == Spec => RefinesBroadcast
<1>1. Init => Stream!Init
  BY DEF Init, Stream!Init
<1>2. IInv /\ [Next]_vars => [Stream!Next]_<<posted, part>>
  <2> SUFFICES ASSUME IInv, [Next]_vars
               PROVE  [Stream!Next]_<<posted, part>>
    OBVIOUS
  <2>1. CASE PosterNext
    BY <2>1, PosterRefines DEF Stream!Next
  <2>2. ASSUME NEW p \in Pages, PageNext(p)
        PROVE  [Stream!Next]_<<posted, part>>
    BY <2>2, PageRefines DEF Stream!Next
  <2>3. CASE UNCHANGED vars
    BY <2>3 DEF vars, posterVars, pageVars
  <2>4. QED
    BY <2>1, <2>2, <2>3 DEF Next
<1>3. QED
  BY <1>1, <1>2, IInvInit, IInvStep, PTL DEF Spec, RefinesBroadcast, Stream!Spec

=============================================================================
