----------------------------- MODULE HttpServer -----------------------------
(***************************************************************************)
(* The HTTP server of src/mjpeg: the acceptor, the connections and the     *)
(* pool of threads that runs their completion handlers.  A handler runs in *)
(* steps, so that the handler of the operation it started may run on       *)
(* another thread before it returns.  What the parser and the request      *)
(* handler make of the bytes read is chosen freely: modules RequestParser  *)
(* and Streamer say more about them.                                       *)
(***************************************************************************)
CONSTANTS
  Connections,  \* bound: connection objects that exist at one time
  NoConnection, \* not one of them
  Threads,      \* the threads of the pool
  Viewers,      \* bound: the connections whose peers may ask for a stream;
                \* each of them may then stop reading and stay
  Inputs        \* bound: what the parser may make of the bytes of one read

ASSUME HttpServerAssumption ==
  /\ NoConnection \notin Connections
  /\ Viewers \subseteq Connections
  /\ Inputs \subseteq {"more", "request", "bad"}

Idle == [at |-> "idle", conn |-> NoConnection, arg |-> "ok", kind |-> "none"]

VARIABLES
  newConnection,  \* new_connection_
  pending,        \* the asynchronous operations that are under way
  ready,          \* the completed ones, whose handlers wait for a thread
  thread,         \* the handler a thread runs and where it is in it
  socket,         \* "closed", "open" or "gone" (the peer has closed it)
  reply,          \* reply_ of each connection
  sent            \* history: the reply an asynchronous write was started with

vars == <<newConnection, pending, ready, thread, socket, reply, sent>>

ReadKinds == {"firstRead", "read"}
WriteKinds == {"write", "stream"}  \* "stream": the handler is the streamer's

\* Every operation is wrapped in the strand but the accept, which belongs to
\* no connection, and the reads after the first.
InStrand(kind) == kind \in {"firstRead", "write", "stream"}

\* The references to a connection: the server's, those bound in handlers and
\* those on the stack of a thread.  The handler of an accept has none.
Held(c) ==
  \/ c = newConnection
  \/ \E o \in pending \cup ready : o.conn = c /\ o.kind # "accept"
  \/ \E t \in Threads : thread[t].conn = c

\* A connection nobody refers to is destroyed and closes its socket.
Destroy ==
  LET Kept(f, none) == [c \in Connections |-> IF Held(c)' THEN f[c] ELSE none]
  IN /\ socket' = Kept(socket, "closed")
     /\ reply' = Kept(reply, "none")
     /\ sent' = Kept(sent, "none")

Begin(c, kind) == pending' = pending \cup {[conn |-> c, kind |-> kind]}

Goto(t, step) == thread' = [thread EXCEPT ![t].at = step]

\* The constructor of the server creates a connection and accepts into it.
Init ==
  /\ newConnection \in Connections
  /\ pending = {[conn |-> newConnection, kind |-> "accept"]}
  /\ ready = {}
  /\ thread = [t \in Threads |-> Idle]
  /\ socket = [c \in Connections |-> "closed"]
  /\ reply = [c \in Connections |-> "none"]
  /\ sent = [c \in Connections |-> "none"]

-----------------------------------------------------------------------------
(* The operating system: operations complete, peers come and go *)

\* What a completed operation may hand to its handler: "more", "request" or
\* "bad" of the parser, the bytes of which may be the last ones of a peer that
\* has gone, or an error.
Outcomes(o) ==
  (IF o.kind \in ReadKinds THEN Inputs ELSE {"ok"})
    \cup (IF o.kind = "accept" \/ socket[o.conn] = "gone" THEN {"error"} ELSE {})

\* An accept waits while as many connections are open as the bound allows.
Complete(o, arg) ==
  /\ o \in pending /\ arg \in Outcomes(o)
  /\ o.kind = "accept" => \E c \in Connections : ~Held(c)
  /\ pending' = pending \ {o}
  /\ ready' = ready \cup {[conn |-> o.conn, kind |-> o.kind, arg |-> arg]}
  /\ socket' = IF o.kind = "accept" /\ arg = "ok"
               THEN [socket EXCEPT ![o.conn] = "open"] ELSE socket
  /\ UNCHANGED <<newConnection, thread, reply, sent>>

PeerCloses(c) ==
  /\ socket[c] = "open"
  /\ socket' = [socket EXCEPT ![c] = "gone"]
  /\ UNCHANGED <<newConnection, pending, ready, thread, reply, sent>>

\* A free thread takes a handler.  The strand lets only one of its handlers
\* run at a time.
Take(t, h) ==
  /\ thread[t] = Idle /\ h \in ready
  /\ InStrand(h.kind) =>
       \A u \in Threads : ~(thread[u].conn = h.conn /\ InStrand(thread[u].kind))
  /\ ready' = ready \ {h}
  /\ \E c \in CASE h.kind # "accept" -> {h.conn}
                [] h.kind = "accept" /\ h.arg = "ok" ->
                     {d \in Connections : ~Held(d)}
                [] OTHER -> {NoConnection} :
       thread' = [thread EXCEPT ![t] =
         [at |-> h.kind, conn |-> c, arg |-> h.arg, kind |-> h.kind]]
  /\ UNCHANGED <<newConnection, pending, socket, reply, sent>>

\* The handler returns and its reference to the connection goes.
Return(t) ==
  /\ thread[t].at = "return"
  /\ thread' = [thread EXCEPT ![t] = Idle]
  /\ UNCHANGED <<newConnection, pending, ready>>
  /\ Destroy

-----------------------------------------------------------------------------
(* handle_accept: nc is the connection the thread refers to, at first a new *)
(* one *)

\* Mutant: the next accept is started before the connections are swapped.
SwapLater(t) ==
  /\ thread[t].at = "accept" /\ thread[t].arg = "ok"
  /\ Goto(t, "listen")
  /\ UNCHANGED <<newConnection, pending, ready, socket, reply, sent>>

\* Mutant: the error is not looked at.
SwapWhateverError(t) ==
  /\ thread[t].at = "accept"
  /\ newConnection' = thread[t].conn
  /\ thread' = [thread EXCEPT ![t].at = "listen", ![t].conn = newConnection]
  /\ UNCHANGED <<pending, ready, socket, reply, sent>>

Swap(t) ==
  /\ thread[t].at = "accept" /\ thread[t].arg = "ok"
  /\ newConnection' = thread[t].conn
  /\ thread' = [thread EXCEPT ![t].at = "listen", ![t].conn = newConnection]
  /\ UNCHANGED <<pending, ready, socket, reply, sent>>

\* Mutant: the next accept is left to the end of the connection.
ListenForgotten(t) ==
  /\ thread[t].at = "listen"
  /\ Goto(t, "start")
  /\ UNCHANGED <<newConnection, pending, ready, socket, reply, sent>>

Listen(t) ==
  /\ thread[t].at = "listen"
  /\ Begin(newConnection, "accept")
  /\ Goto(t, "start")
  /\ UNCHANGED <<newConnection, ready, socket, reply, sent>>

\* connection::start
Start(t) ==
  /\ thread[t].at = "start"
  /\ Begin(thread[t].conn, "firstRead")
  /\ Goto(t, "return")
  /\ UNCHANGED <<newConnection, ready, socket, reply, sent>>

\* An error starts no further accept.
AcceptError(t) ==
  /\ thread[t].at = "accept" /\ thread[t].arg = "error"
  /\ Goto(t, "return")
  /\ UNCHANGED <<newConnection, pending, ready, socket, reply, sent>>

-----------------------------------------------------------------------------
(* handle_read and handle_write *)

Reading(t, arg) == thread[t].at \in ReadKinds /\ thread[t].arg = arg

ReadAgain(t) ==
  /\ Reading(t, "more")
  /\ Begin(thread[t].conn, "read")
  /\ Goto(t, "return")
  /\ UNCHANGED <<newConnection, ready, socket, reply, sent>>

\* Mutant: a read is started whatever the error.
ReadErrorIgnored(t) ==
  /\ Reading(t, "error")
  /\ Begin(thread[t].conn, "read")
  /\ Goto(t, "return")
  /\ UNCHANGED <<newConnection, ready, socket, reply, sent>>

ReadError(t) ==
  /\ Reading(t, "error")
  /\ Goto(t, "return")
  /\ UNCHANGED <<newConnection, pending, ready, socket, reply, sent>>

SetReply(t, r, step) ==
  /\ reply' = [reply EXCEPT ![thread[t].conn] = r]
  /\ Goto(t, step)
  /\ UNCHANGED <<newConnection, pending, ready, socket, sent>>

BadRequest(t) ==
  /\ Reading(t, "bad")
  /\ SetReply(t, "bad", "startWrite")

\* The handler that is found for the request fills the reply, or it is the
\* streamer's and fills it with the headers of a stream.
HandleRequest(t) ==
  /\ Reading(t, "request")
  /\ \/ SetReply(t, "page", "startWrite")
     \/ thread[t].conn \in Viewers /\ SetReply(t, "headers", "startStream")

Writes == [startWrite |-> "write", startStream |-> "stream"]

\* Mutant: the next request is read while the reply is written.
StartWriteAndRead(t) ==
  /\ thread[t].at \in DOMAIN Writes
  /\ LET c == thread[t].conn
     IN /\ pending' = pending \cup {[conn |-> c, kind |-> Writes[thread[t].at]],
                                    [conn |-> c, kind |-> "read"]}
        /\ sent' = [sent EXCEPT ![c] = reply[c]]
  /\ Goto(t, "return")
  /\ UNCHANGED <<newConnection, ready, socket, reply>>

\* async_write, whose buffers point into the reply.
StartWrite(t) ==
  /\ thread[t].at \in DOMAIN Writes
  /\ Begin(thread[t].conn, Writes[thread[t].at])
  /\ sent' = [sent EXCEPT ![thread[t].conn] = reply[thread[t].conn]]
  /\ Goto(t, "return")
  /\ UNCHANGED <<newConnection, ready, socket, reply>>

\* Mutant: the connection is kept for the next request.
HandleWriteReads(t) ==
  /\ thread[t].at = "write"
  /\ Begin(thread[t].conn, "read")
  /\ Goto(t, "return")
  /\ UNCHANGED <<newConnection, ready, socket, reply, sent>>

\* handle_write shuts the socket down, or leaves it if there was an error.
HandleWrite(t) ==
  /\ thread[t].at = "write"
  /\ Goto(t, "return")
  /\ UNCHANGED <<newConnection, pending, ready, socket, reply, sent>>

-----------------------------------------------------------------------------
(* The streamer's handler, as far as it uses the connection *)

Boundary(t) ==
  /\ thread[t].at = "stream" /\ thread[t].arg = "ok"
  /\ SetReply(t, "boundary", "boundary")

StreamError(t) ==
  /\ thread[t].at = "stream" /\ thread[t].arg = "error"
  /\ Goto(t, "return")
  /\ UNCHANGED <<newConnection, pending, ready, socket, reply, sent>>

\* The synchronous write of the boundary succeeds or throws, unless it blocks
\* for ever on a peer that stopped reading.
BoundaryWritten(t) ==
  /\ thread[t].at = "boundary"
  /\ \/ Goto(t, "wait")
     \/ socket[thread[t].conn] = "gone" /\ Goto(t, "return")
  /\ UNCHANGED <<newConnection, pending, ready, socket, reply, sent>>

\* After the wait for an image the reply is filled with it.
FillImage(t) ==
  /\ thread[t].at = "wait"
  /\ SetReply(t, "image", "startStream")

-----------------------------------------------------------------------------

Step(t) ==
  \/ Return(t)
  \/ Swap(t) \/ Listen(t) \/ Start(t) \/ AcceptError(t)
  \/ ReadAgain(t) \/ ReadError(t) \/ BadRequest(t) \/ HandleRequest(t)
  \/ StartWrite(t) \/ HandleWrite(t)
  \/ Boundary(t) \/ StreamError(t) \/ BoundaryWritten(t) \/ FillImage(t)

Next ==
  \/ \E o \in pending, arg \in {"ok", "error", "more", "request", "bad"} :
       Complete(o, arg)
  \/ \E c \in Connections : PeerCloses(c)
  \/ \E t \in Threads, h \in ready : Take(t, h)
  \/ \E t \in Threads : Step(t)

Spec == Init /\ [][Next]_vars

(***************************************************************************)
(* Fairness.  A thread that runs a handler goes on, but the synchronous    *)
(* write of the boundary is promised to end only if the peer has gone;     *)
(* that the wait for an image ends is what module Streamer shows.          *)
(* The queue of handlers is first in, first out, so one that can be taken  *)
(* is not passed over for ever (SF).  A peer that has gone has sent        *)
(* finitely many bytes, and not every write to it succeeds (SF); an        *)
(* asynchronous operation on an open connection may take for ever.         *)
(***************************************************************************)
MayBlock(t) ==
  thread[t].at = "boundary" /\ socket[thread[t].conn] = "open"

Fairness ==
  /\ \A t \in Threads : WF_vars(~MayBlock(t) /\ Step(t))
  /\ \A c \in Connections :
       SF_vars(\E t \in Threads, h \in ready : h.conn = c /\ Take(t, h))
  /\ \A c \in Connections :
       SF_vars(\E kind \in ReadKinds \cup WriteKinds :
                 Complete([conn |-> c, kind |-> kind], "error"))

FairSpec == Spec /\ Fairness

-----------------------------------------------------------------------------
(* Properties *)

Handlers ==
  [conn : Connections, kind : {"accept"} \cup ReadKinds \cup WriteKinds,
   arg : {"ok", "error", "more", "request", "bad"}]

TypeOK ==
  /\ newConnection \in Connections
  /\ pending \subseteq [conn : Connections,
                        kind : {"accept"} \cup ReadKinds \cup WriteKinds]
  /\ ready \subseteq Handlers
  /\ \A t \in Threads :
       /\ thread[t].conn \in Connections \cup {NoConnection}
       /\ thread[t].conn = NoConnection =>
            thread[t].at \in {"idle", "accept", "return"}
  /\ socket \in [Connections -> {"closed", "open", "gone"}]
  /\ {reply[c] : c \in Connections} \cup {sent[c] : c \in Connections}
       \subseteq {"none", "bad", "page", "headers", "boundary", "image"}

\* Whatever is under way on a connection: an operation, a completed one whose
\* handler waits, or a handler that has not yet started the next operation.
Activities(c) ==
  {<<"operation", o>> : o \in {o \in pending \cup ready : o.conn = c}}
    \cup {<<"thread", t>> :
           t \in {t \in Threads : thread[t].conn = c /\ thread[t].at # "return"}}

\* A connection has one activity at a time.  This, and not the strand, which
\* the reads after the first are not wrapped in, keeps its handlers from using
\* the request and the reply together.
OneActivity ==
  \A c \in Connections : \A a, b \in Activities(c) : a = b

\* An accept is given a socket that nothing was accepted into, and there is
\* never more than one.
AcceptsIntoClosed ==
  /\ \A o \in pending : o.kind = "accept" => socket[o.conn] = "closed"
  /\ \A o, a \in pending \cup ready :
       o.kind = "accept" /\ a.kind = "accept" => o = a

\* The reply is not changed until the write of it has completed (reply.hpp).
ReplyUnchangedWhileWritten ==
  \A o \in pending : o.kind \in WriteKinds => reply[o.conn] = sent[o.conn]

\* A connection answers once: no request is handled on a connection that has
\* been replied to.
AnswersOnce ==
  [][\A c \in Connections :
       reply'[c] # reply[c] /\ reply'[c] \in {"bad", "page", "headers"}
         => reply[c] = "none"]_vars

\* A connection that was accepted is closed after its peer has gone, also
\* while viewers that stopped reading block some threads of the pool.
GoneIsClosed == \A c \in Connections : socket[c] = "gone" ~> socket[c] = "closed"

\* The server waits for the next peer again and again: the next accept needs a
\* thread of the pool that viewers block.  (Once an accept has failed there is
\* no next one, line 106; that behaviour is left out here.)
KeepsAccepting ==
  <>(\E h \in ready : h.kind = "accept" /\ h.arg = "error")
    \/ []<>(\E o \in pending : o.kind = "accept")

=============================================================================
