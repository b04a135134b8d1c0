------------------------------ MODULE Streamer ------------------------------
(***************************************************************************)
(* One stream of the MJPEG server (src/mjpeg/mjpeg_server.cpp): a thread   *)
(* posts images, a pool of threads runs the completion handlers of the     *)
(* pages that view it.  A handler blocks its pool thread twice: while it   *)
(* sends the boundary, and in a timed wait for the next image.             *)
(*                                                                         *)
(* Every page has at most one connection, and a connection at most one     *)
(* operation outstanding, so a page's state says where its connection is:  *)
(*   away      no connection                                               *)
(*   queued    a completed operation waits for a pool thread               *)
(*   writing   an asynchronous write is under way (no thread)              *)
(*   boundary  a thread sends the boundary, line 45                        *)
(*   lock      the thread wants mtx_, line 49                              *)
(*   counted   it has mtx_ and is on its way into timed_wait               *)
(*   waiting   the thread is in timed_wait, which has released mtx_        *)
(*   woken     it was notified and wants mtx_ back                         *)
(*   timedout  its wait timed out and it wants mtx_ back                   *)
(* The pool is the set of the connections that occupy a thread.            *)
(***************************************************************************)
EXTENDS Integers, Sequences, FiniteSets

CONSTANTS
  Pages,        \* the pages that may view the stream
  Threads,      \* size of the pool: num_threads, grabzbar.cpp:416
  Disturbances, \* "timeout": the poster may be slower than the 1000 ms of
                \* the timed wait; "spurious": a wait may end unnotified
  Stalled,      \* pages that may stop reading what is sent to them
  MaxPosts      \* bound: images after this one are numbered like it

ASSUME StreamerAssumption ==
  /\ IsFiniteSet(Pages)
  /\ Threads \in Nat \ {0}
  /\ {"free", "poster"} \cap Pages = {}
  /\ Disturbances \subseteq {"timeout", "spurious"}
  /\ Stalled \subseteq Pages
  /\ MaxPosts \in Nat

Cleared == -1   \* jpg_buffer_ between clear() and the end of imencode

VARIABLES
  jpg,      \* jpg_buffer_: the number of the image in it, or Cleared
  watchers, \* watchers_
  mtx,      \* mtx_ is "free", or held by the "poster" or by the handler of
            \* a page that is about to wait
  pc,       \* where the posting thread is
  ret,      \* the local watchers of post_image, which it returns
  due,      \* history: the pages counted when post_image took mtx_ that
            \* have not been handed an image since
  posted,   \* the number of the latest image posted
  conn,     \* where each page's connection is
  job,      \* the handler a queued page waits for
  part,     \* the image last handed to each page
  ready     \* the io_service's queue of pages whose handler can run

posterVars == <<jpg, posted, pc, ret, due>>
pageVars == <<watchers, conn, job, part, ready>>
vars == <<posterVars, mtx, pageVars>>

\* In the section that holds a count in watchers_, lines 50-57.
Watching == {"counted", "waiting", "woken", "timedout"}
OnThread == {"boundary", "lock"} \cup Watching
Pool == {p \in Pages : conn[p] \in OnThread}

Successor(n) == IF n < MaxPosts THEN n + 1 ELSE n

\* The constructor posts a test image, number 0.
Init ==
  /\ jpg = 0
  /\ watchers = 0
  /\ mtx = "free"
  /\ pc = "idle"
  /\ ret = 0
  /\ due = {}
  /\ posted = 0
  /\ conn = [p \in Pages |-> "away"]
  /\ job = [p \in Pages |-> "request"]
  /\ part = [p \in Pages |-> 0]
  /\ ready = <<>>

-----------------------------------------------------------------------------
(* post_image, called again and again by one thread.  No caller asks it to *)
(* wait, so that its first loop, lines 105-108, ends at once.              *)

CallPost ==
  /\ pc = "idle"
  /\ pc' = "counting"
  /\ UNCHANGED <<jpg, posted, ret, due, mtx, pageVars>>

\* watchers_ is read without the lock.
CountWatchers ==
  /\ pc = "counting"
  /\ pc' = "locking"
  /\ ret' = watchers
  /\ UNCHANGED <<jpg, posted, due, mtx, pageVars>>

\* Mutant: the image is encoded without holding mtx_.
ClearBufferUnlocked ==
  /\ pc = "locking"
  /\ pc' = "encoding"
  /\ jpg' = Cleared
  /\ due' = {p \in Pages : conn[p] \in Watching}
  /\ UNCHANGED <<posted, ret, mtx, pageVars>>

ClearBuffer ==
  /\ pc = "locking" /\ mtx = "free"
  /\ pc' = "encoding"
  /\ mtx' = "poster"
  /\ jpg' = Cleared
  /\ due' = {p \in Pages : conn[p] \in Watching}
  /\ UNCHANGED <<posted, ret, pageVars>>

\* Mutant: the image encoded is the one before.
EncodePrevious ==
  /\ pc = "encoding"
  /\ pc' = "notifying"
  /\ posted' = Successor(posted)
  /\ jpg' = posted
  /\ mtx' = "free"
  /\ UNCHANGED <<ret, due, pageVars>>

Encode ==
  /\ pc = "encoding"
  /\ pc' = "notifying"
  /\ posted' = Successor(posted)
  /\ jpg' = Successor(posted)
  /\ mtx' = "free"
  /\ UNCHANGED <<ret, due, pageVars>>

\* Mutant: notify_one.
NotifyOne ==
  /\ pc = "notifying"
  /\ pc' = "idle"
  /\ due' = {}
  /\ LET blocked == {p \in Pages : conn[p] = "waiting"}
     IN IF blocked = {} THEN UNCHANGED conn
        ELSE \E p \in blocked : conn' = [conn EXCEPT ![p] = "woken"]
  /\ UNCHANGED <<jpg, posted, ret, mtx, watchers, job, part, ready>>

\* Mutant: no notification if nobody was counted.
NotifyIfCounted ==
  /\ pc = "notifying"
  /\ pc' = "idle"
  /\ due' = {}
  /\ conn' = [p \in Pages |-> IF ret # 0 /\ conn[p] = "waiting"
                              THEN "woken" ELSE conn[p]]
  /\ UNCHANGED <<jpg, posted, ret, mtx, watchers, job, part, ready>>

\* notify_all, after the lock is released; post_image returns ret.
Notify ==
  /\ pc = "notifying"
  /\ pc' = "idle"
  /\ due' = {}
  /\ conn' = [p \in Pages |-> IF conn[p] = "waiting" THEN "woken" ELSE conn[p]]
  /\ UNCHANGED <<jpg, posted, ret, mtx, watchers, job, part, ready>>

PosterNext ==
  CallPost \/ CountWatchers \/ ClearBuffer \/ Encode \/ Notify

-----------------------------------------------------------------------------
(* The pages and the pool *)

\* Mutant: the handler is given to two writes.
EnqueueTwice(p, j) ==
  /\ conn' = [conn EXCEPT ![p] = "queued"]
  /\ job' = [job EXCEPT ![p] = j]
  /\ ready' = ready \o <<p, p>>

Enqueue(p, j) ==
  /\ conn' = [conn EXCEPT ![p] = "queued"]
  /\ job' = [job EXCEPT ![p] = j]
  /\ ready' = Append(ready, p)

\* A page asks for the stream.
Request(p) ==
  /\ conn[p] = "away"
  /\ Enqueue(p, "request")
  /\ part' = [part EXCEPT ![p] = 0]
  /\ UNCHANGED <<posterVars, mtx, watchers>>

\* A free thread takes the oldest completion handler, which is p's.
RunsHandler(p, j) ==
  /\ ready # <<>> /\ Head(ready) = p /\ job[p] = j
  /\ Cardinality(Pool) < Threads
  /\ ready' = Tail(ready)

\* handle_stream starts the write of the headers.
HandleStream(p) ==
  /\ RunsHandler(p, "request")
  /\ conn' = [conn EXCEPT ![p] = "writing"]
  /\ UNCHANGED <<posterVars, mtx, watchers, job, part>>

\* handle_initial_header_write without an error sends the boundary.
HandleWritten(p) ==
  /\ RunsHandler(p, "written")
  /\ conn' = [conn EXCEPT ![p] = "boundary"]
  /\ UNCHANGED <<posterVars, mtx, watchers, job, part>>

\* With an error it does nothing: the connection is destroyed.
HandleWriteError(p) ==
  /\ RunsHandler(p, "failed")
  /\ conn' = [conn EXCEPT ![p] = "away"]
  /\ UNCHANGED <<posterVars, mtx, watchers, job, part>>

WriteCompletes(p) ==
  /\ conn[p] = "writing"
  /\ Enqueue(p, "written")
  /\ UNCHANGED <<posterVars, mtx, watchers, part>>

WriteFails(p) ==
  /\ conn[p] = "writing"
  /\ Enqueue(p, "failed")
  /\ UNCHANGED <<posterVars, mtx, watchers, part>>

BoundarySent(p) ==
  /\ conn[p] = "boundary"
  /\ conn' = [conn EXCEPT ![p] = "lock"]
  /\ UNCHANGED <<posterVars, mtx, watchers, job, part, ready>>

\* The synchronous write throws; the exception is caught in the handler.
BoundaryFails(p) ==
  /\ conn[p] = "boundary"
  /\ conn' = [conn EXCEPT ![p] = "away"]
  /\ UNCHANGED <<posterVars, mtx, watchers, job, part, ready>>

\* The page takes mtx_ and counts itself.
CountPage(p) ==
  /\ conn[p] = "lock" /\ mtx = "free"
  /\ mtx' = p
  /\ watchers' = watchers + 1
  /\ conn' = [conn EXCEPT ![p] = "counted"]
  /\ UNCHANGED <<posterVars, job, part, ready>>

\* Mutant: mtx_ is kept during the wait.
BeginWaitLocked(p) ==
  /\ conn[p] = "counted"
  /\ conn' = [conn EXCEPT ![p] = "waiting"]
  /\ UNCHANGED <<posterVars, mtx, watchers, job, part, ready>>

\* timed_wait releases mtx_ and waits; a notification sent before is missed.
BeginWait(p) ==
  /\ conn[p] = "counted"
  /\ conn' = [conn EXCEPT ![p] = "waiting"]
  /\ mtx' = "free"
  /\ UNCHANGED <<posterVars, watchers, job, part, ready>>

TimeOut(p) ==
  /\ "timeout" \in Disturbances
  /\ conn[p] = "waiting"
  /\ conn' = [conn EXCEPT ![p] = "timedout"]
  /\ UNCHANGED <<posterVars, mtx, watchers, job, part, ready>>

SpuriousWakeup(p) ==
  /\ "spurious" \in Disturbances
  /\ conn[p] = "waiting"
  /\ conn' = [conn EXCEPT ![p] = "woken"]
  /\ UNCHANGED <<posterVars, mtx, watchers, job, part, ready>>

\* After a timeout the loop takes mtx_ back to wait again, whatever was posted
\* meanwhile.
WaitAgain(p) ==
  /\ conn[p] = "timedout" /\ mtx = "free"
  /\ mtx' = p
  /\ conn' = [conn EXCEPT ![p] = "counted"]
  /\ UNCHANGED <<posterVars, watchers, job, part, ready>>

\* Mutant: the count is not taken back.
CopyImageStillCounted(p) ==
  /\ conn[p] = "woken" /\ mtx = "free"
  /\ part' = [part EXCEPT ![p] = jpg]
  /\ due' = due \ {p}
  /\ conn' = [conn EXCEPT ![p] = "writing"]
  /\ UNCHANGED <<jpg, posted, pc, ret, mtx, watchers, job, ready>>

\* Mutant: the handler sends the next boundary itself instead of returning.
CopyImageInLoop(p) ==
  /\ conn[p] = "woken" /\ mtx = "free"
  /\ part' = [part EXCEPT ![p] = jpg]
  /\ watchers' = watchers - 1
  /\ due' = due \ {p}
  /\ conn' = [conn EXCEPT ![p] = "boundary"]
  /\ UNCHANGED <<jpg, posted, pc, ret, mtx, job, ready>>

\* The image is copied under the lock and its write is started.
CopyImage(p) ==
  /\ conn[p] = "woken" /\ mtx = "free"
  /\ part' = [part EXCEPT ![p] = jpg]
  /\ watchers' = watchers - 1
  /\ due' = due \ {p}
  /\ conn' = [conn EXCEPT ![p] = "writing"]
  /\ UNCHANGED <<jpg, posted, pc, ret, mtx, job, ready>>

PageNext(p) ==
  \/ Request(p)
  \/ HandleStream(p) \/ HandleWritten(p) \/ HandleWriteError(p)
  \/ WriteCompletes(p) \/ WriteFails(p)
  \/ BoundarySent(p) \/ BoundaryFails(p)
  \/ CountPage(p) \/ BeginWait(p)
  \/ TimeOut(p) \/ SpuriousWakeup(p) \/ WaitAgain(p)
  \/ CopyImage(p)

Next == PosterNext \/ \E p \in Pages : PageNext(p)

Spec == Init /\ [][Next]_vars

(***************************************************************************)
(* Fairness.  A thread that can run does run, and the poster's loop never  *)
(* ends.  mtx_ is held for a few instructions by a page and for one        *)
(* encoding by the poster, and both do much else before they want it       *)
(* again: a thread that wants it is not passed over for ever (SF).  Only   *)
(* pages that keep reading are promised the end of a write.                *)
(***************************************************************************)
Fairness ==
  /\ WF_vars(PosterNext)
  /\ SF_vars(ClearBuffer)
  /\ \A p \in Pages :
       /\ WF_vars(HandleStream(p) \/ HandleWritten(p) \/ HandleWriteError(p))
       /\ SF_vars(CountPage(p) \/ WaitAgain(p) \/ CopyImage(p))
       /\ WF_vars(BeginWait(p))
  /\ \A p \in Pages \ Stalled :
       /\ WF_vars(WriteCompletes(p) \/ WriteFails(p))
       /\ WF_vars(BoundarySent(p) \/ BoundaryFails(p))

FairSpec == Spec /\ Fairness

-----------------------------------------------------------------------------
(* Properties *)

TypeOK ==
  /\ jpg \in {Cleared} \cup 0..MaxPosts
  /\ watchers \in Int
  /\ mtx \in {"free", "poster"} \cup Pages
  /\ pc \in {"idle", "counting", "locking", "encoding", "notifying"}
  /\ ret \in Int
  /\ due \subseteq Pages
  /\ posted \in 0..MaxPosts
  /\ conn \in [Pages -> {"away", "queued", "writing"} \cup OnThread]
  /\ job \in [Pages -> {"request", "written", "failed"}]
  /\ part \in [Pages -> 0..MaxPosts]
  /\ ready \in Seq(Pages)

\* watchers_ counts exactly the handlers between their ++ and --: no way out
\* of the wait, by notification, timeout or error, loses or repeats a count.
WatchersExact == watchers = Cardinality({p \in Pages : conn[p] \in Watching})

\* The handlers that may run belong to connections no thread runs a handler
\* of, and to one connection each: "No callbacks will be called concurrently
\* for this connection" (connection.hpp:74).
HandlersNotConcurrent ==
  \A i, j \in 1..Len(ready) :
    conn[ready[i]] = "queued" /\ (ready[i] = ready[j] => i = j)

\* Refinement: clearing and encoding under mtx_, copying under mtx_ and
\* notifying after it has been released amount to an indivisible broadcast.
Stream == INSTANCE Broadcast WITH current <- posted, seen <- part
RefinesBroadcast == Stream!Spec

\* A post reaches every page its handlers had counted when it took mtx_: when
\* post_image returns, each has been woken or has already been handed an image.
\* A page that counts itself later, between the release of mtx_ and notify_all,
\* may miss this notification and waits for the next.
PostReachesWatchers ==
  [][pc = "notifying" /\ pc' = "idle" =>
       \A p \in due : conn'[p] = "woken"]_vars

\* A page whose handler waits is given an image.
WaitingPageIsServed ==
  \A p \in Pages : conn[p] = "waiting" ~> conn[p] = "writing"

\* A page's request is handled although pages that view the stream may
\* occupy every thread of the pool: each post frees the waiting ones.
RequestIsHandled ==
  \A p \in Pages : conn[p] = "queued" ~> conn[p] # "queued"

\* post_image returns: no page, waiting, stalled or gone, holds up the thread
\* that grabs the lines.
PostReturns == pc # "idle" ~> pc = "idle"

=============================================================================
