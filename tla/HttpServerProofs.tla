-------------------------- MODULE HttpServerProofs --------------------------
(***************************************************************************)
(* Theorems about module HttpServer, for any number of connections, any    *)
(* pool of threads, and peers and accepts that fail whenever they like.    *)
(***************************************************************************)
EXTENDS HttpServer, TLAPS

Kinds == {"accept"} \cup ReadKinds \cup WriteKinds

Args == {"ok", "error", "more", "request", "bad"}

Steps == Kinds \cup
  {"idle", "listen", "start", "startWrite", "startStream", "boundary", "wait", "return"}

Replies == {"none", "bad", "page", "headers", "boundary", "image"}

Ops == pending \cup ready

Records ==
  [at : Steps, conn : Connections \cup {NoConnection}, arg : Args, kind : Kinds \cup {"none"}]

-----------------------------------------------------------------------------
(* The inductive invariant *)

\* TypeOK with the records spelt out, and which threads refer to a connection.
Types ==
  /\ newConnection \in Connections
  /\ pending \subseteq [conn : Connections, kind : Kinds]
  /\ ready \subseteq [conn : Connections, kind : Kinds, arg : Args]
  /\ thread \in [Threads -> Records]
  /\ socket \in [Connections -> {"closed", "open", "gone"}]
  /\ reply \in [Connections -> Replies]
  /\ sent \in [Connections -> Replies]
  /\ \A t \in Threads :
       /\ thread[t].at = "idle" => thread[t].conn = NoConnection
       /\ thread[t].conn = NoConnection => thread[t].at \in {"idle", "accept", "return"}
       /\ thread[t].at = "accept" /\ thread[t].arg = "ok" => thread[t].conn # NoConnection

\* OneActivity, by the kinds of its two activities.
Single ==
  /\ \A o, p \in Ops : o.conn = p.conn => o = p
  /\ \A o \in Ops, t \in Threads : thread[t].conn = o.conn => thread[t].at = "return"
  /\ \A t, u \in Threads :
       /\ thread[t].conn = thread[u].conn /\ thread[t].conn # NoConnection
       /\ thread[t].at # "return" /\ thread[u].at # "return"
       => t = u

\* Accepts are started one at a time, each for the connection created in the
\* one before, which nothing else refers to.
Accepting ==
  /\ \A o \in Ops : o.kind = "accept" <=> o.conn = newConnection
  /\ \A t \in Threads : thread[t].conn # newConnection
  /\ \A o \in Ops, t \in Threads :
       o.kind = "accept" => thread[t].at \notin {"accept", "listen"}
  /\ \A t, u \in Threads :
       thread[t].at \in {"accept", "listen"} /\ thread[u].at \in {"accept", "listen"} => t = u
  /\ \A t, u \in Threads :
       /\ thread[t].at = "accept" /\ thread[t].conn # NoConnection
       /\ thread[u].conn = thread[t].conn
       => t = u

\* A connection whose request is not handled yet has no reply, and one that
\* nothing was accepted into has a closed socket.
Fresh ==
  /\ reply[newConnection] = "none"
  /\ \A o \in Ops : o.kind \in ReadKinds => reply[o.conn] = "none"
  /\ \A t \in Threads :
       /\ thread[t].at \in {"accept", "listen", "start"} \cup ReadKinds
       /\ thread[t].conn # NoConnection
       => reply[thread[t].conn] = "none"
  /\ \A c \in Connections : ~Held(c) => socket[c] = "closed" /\ reply[c] = "none"
  /\ \A o \in pending : o.kind = "accept" => socket[newConnection] = "closed"
  /\ \A t \in Threads : thread[t].at = "listen" => socket[newConnection] = "closed"
  /\ \A t \in Threads :
       thread[t].at = "accept" /\ thread[t].conn # NoConnection
         => socket[thread[t].conn] = "closed"

Inv == Types /\ Single /\ Accepting /\ Fresh /\ ReplyUnchangedWhileWritten

LEMMA InvInit == Init => Inv
BY HttpServerAssumption
DEF Init, Idle, Inv, Types, Single, Accepting, Fresh, ReplyUnchangedWhileWritten, Ops, Kinds,
  Args, Steps, Replies, Records, ReadKinds, WriteKinds, Held

-----------------------------------------------------------------------------
(* Steps of a thread *)

\* A thread that goes on to a step keeps its connection, and the others all.
WentOn(t, s) ==
  /\ thread' \in [Threads -> Records]
  /\ thread'[t].at = s
  /\ \A u \in Threads :
       /\ thread'[u].conn = thread[u].conn /\ thread'[u].arg = thread[u].arg
       /\ u # t => thread'[u].at = thread[u].at

LEMMA GotoFacts ==
  ASSUME Types, NEW t \in Threads, NEW s \in Steps, Goto(t, s)
  PROVE  WentOn(t, s)
BY DEF Goto, Types, Records, WentOn

\* Steps that only go on, to the end of the handler or the wait of a stream.
LEMMA GoesOn ==
  ASSUME Inv, NEW t \in Threads, NEW s \in {"return", "wait"}, Goto(t, s),
         s = "wait" => thread[t].conn # NoConnection,
         UNCHANGED <<newConnection, pending, ready, socket, reply, sent>>,
         thread[t].at \notin {"return", "idle"}
  PROVE  Inv'
<1>1. s \in Steps BY DEF Steps
<1>2. WentOn(t, s) BY <1>1, GotoFacts DEF Inv
<1> USE DEF WentOn
<1>3. Types' BY <1>2 DEF Inv, Types
<1>4. Single' BY <1>2 DEF Inv, Single, Ops
<1>5. Accepting' BY <1>2 DEF Inv, Accepting, Ops
<1>6. Fresh' BY <1>2 DEF Inv, Fresh, Ops, Held, ReadKinds
<1> QED BY <1>3, <1>4, <1>5, <1>6 DEF Inv, ReplyUnchangedWhileWritten

\* Steps that change the reply of the thread's connection.
LEMMA SetsReply ==
  ASSUME Inv, NEW t \in Threads, NEW r \in Replies,
         NEW s \in {"startWrite", "startStream", "boundary"}, SetReply(t, r, s),
         thread[t].conn # NoConnection, thread[t].at \notin {"return", "idle"}
  PROVE  Inv'
<1>1. s \in Steps BY DEF Steps
<1>2. WentOn(t, s) BY <1>1, GotoFacts DEF Inv, SetReply
<1> USE DEF WentOn
<1>3. thread[t].conn \in Connections BY DEF Inv, Types, Records
<1>4. /\ UNCHANGED <<newConnection, pending, ready, socket, sent>>
      /\ reply' \in [Connections -> Replies]
      /\ \A c \in Connections : c # thread[t].conn => reply'[c] = reply[c]
  BY <1>3 DEF SetReply, Inv, Types
<1>5. Types' BY <1>2, <1>4 DEF Inv, Types
<1>6. Single' BY <1>2, <1>4 DEF Inv, Single, Ops
<1>7. Accepting' BY <1>2, <1>4 DEF Inv, Accepting, Ops
<1>8. \A o \in Ops : o.conn \in Connections /\ o.conn # thread[t].conn
  BY DEF Inv, Types, Single, Ops
<1>9. Fresh'
  <2>1. \A u \in Threads : u # t /\ thread[u].conn = thread[t].conn => thread[u].at = "return"
    BY <1>3 DEF Inv, Single
  <2>2. \A c \in Connections : Held(c)' <=> Held(c) BY <1>2, <1>4 DEF Held
  <2>3. Held(thread[t].conn) BY DEF Held
  <2>4. \A u \in Threads : thread[u].conn \in Connections \cup {NoConnection}
    BY DEF Inv, Types, Records
  <2>5. newConnection \in Connections /\ thread[t].conn # newConnection
    BY DEF Inv, Types, Accepting
  <2>6. \A u \in Threads :
          thread'[u].at \in {"accept", "listen", "start"} \cup ReadKinds => u # t
    BY <1>2 DEF ReadKinds
  <2> QED BY <1>2, <1>4, <1>8, <2>1, <2>2, <2>3, <2>4, <2>5, <2>6 DEF Inv, Fresh, Ops, ReadKinds
<1>10. ReplyUnchangedWhileWritten'
  BY <1>4, <1>8 DEF Inv, ReplyUnchangedWhileWritten, Ops
<1> QED BY <1>5, <1>6, <1>7, <1>9, <1>10 DEF Inv

\* Steps that end a handler with the next operation of its connection.
LEMMA Begins ==
  ASSUME Inv, NEW t \in Threads, NEW k \in ReadKinds \cup WriteKinds,
         Begin(thread[t].conn, k), Goto(t, "return"),
         thread[t].conn # NoConnection,
         thread[t].at \in {"start", "startWrite", "startStream"} \cup ReadKinds,
         k \in ReadKinds => thread[t].at \in {"start"} \cup ReadKinds,
         UNCHANGED <<newConnection, ready, socket, reply>>,
         sent' \in [Connections -> Replies],
         \A c \in Connections : c # thread[t].conn => sent'[c] = sent[c],
         k \in WriteKinds => sent'[thread[t].conn] = reply[thread[t].conn]
  PROVE  Inv'
<1> DEFINE c == thread[t].conn
           new == [conn |-> c, kind |-> k]
<1>1. "return" \in Steps BY DEF Steps
<1>2. WentOn(t, "return") BY <1>1, GotoFacts DEF Inv
<1> USE DEF WentOn
<1>3. c \in Connections /\ c # newConnection /\ k \in Kinds /\ k # "accept"
  BY DEF Inv, Types, Records, Accepting, Kinds, ReadKinds, WriteKinds
<1>4. pending' = pending \cup {new} /\ new.conn = c /\ new.kind = k BY DEF Begin
<1>5. \A o \in Ops : o.conn # c /\ o.conn \in Connections
  BY DEF Inv, Types, Single, ReadKinds, Ops
<1>6. Ops' = Ops \cup {new} BY <1>4 DEF Ops
<1>7. \A u \in Threads : u # t /\ thread[u].conn = c => thread[u].at = "return"
  BY DEF Inv, Single, ReadKinds
<1> HIDE DEF new
<1>8. Types' BY <1>2, <1>3, <1>4 DEF Inv, Types, new
<1>9. Single' BY <1>2, <1>4, <1>5, <1>6, <1>7 DEF Inv, Single
<1>10. Accepting' BY <1>2, <1>3, <1>4, <1>6 DEF Inv, Accepting, ReadKinds
<1>11. Fresh'
  <2>1. \A d \in Connections : Held(d) => Held(d)'
    BY <1>2, <1>4 DEF Held
  <2>2. k \in ReadKinds => reply[c] = "none" BY <1>3 DEF Inv, Fresh
  <2>3. \A o \in pending' : o.kind = "accept" => o \in pending BY <1>3, <1>4
  <2> QED BY <1>2, <1>4, <1>6, <2>1, <2>2, <2>3 DEF Inv, Fresh, ReadKinds
<1>12. ReplyUnchangedWhileWritten'
  <2>1. \A o \in pending : o.conn \in Connections /\ o.conn # c BY <1>5 DEF Ops
  <2> SUFFICES ASSUME NEW o \in pending', o.kind \in WriteKinds PROVE reply'[o.conn] = sent'[o.conn]
    BY DEF ReplyUnchangedWhileWritten
  <2>2. CASE o = new
    <3>1. k \in WriteKinds BY <1>4, <2>2
    <3> QED BY <1>4, <2>2, <3>1
  <2>3. CASE o \in pending BY <2>1, <2>3 DEF Inv, ReplyUnchangedWhileWritten
  <2> QED BY <1>4, <2>2, <2>3
<1> QED BY <1>8, <1>9, <1>10, <1>11, <1>12 DEF Inv

\* Once its connection has been swapped, the handler of an accept starts the
\* next.
LEMMA Listens ==
  ASSUME Inv, NEW t \in Threads, Listen(t)
  PROVE  Inv'
<1> DEFINE new == [conn |-> newConnection, kind |-> "accept"]
<1>1. "start" \in Steps BY DEF Steps
<1>2. WentOn(t, "start") BY <1>1, GotoFacts DEF Inv, Listen
<1> USE DEF WentOn
<1>3. /\ pending' = pending \cup {new} /\ new.conn = newConnection /\ new.kind = "accept"
      /\ UNCHANGED <<newConnection, ready, socket, reply, sent>>
      /\ thread[t].at = "listen" /\ thread[t].conn # NoConnection
  BY DEF Listen, Begin, Inv, Types
<1>4. Ops' = Ops \cup {new} BY <1>3 DEF Ops
<1>5. \A o \in Ops : o.kind # "accept" /\ o.conn # newConnection
  BY <1>3 DEF Inv, Accepting
<1>6. \A u \in Threads : u # t => thread[u].at \notin {"accept", "listen"}
  BY <1>3 DEF Inv, Accepting
<1> HIDE DEF new
<1>7. Types' BY <1>2, <1>3 DEF Inv, Types, new, Kinds
<1>8. Single'
  <2>1. \A u \in Threads : thread[u].conn # new.conn BY <1>3 DEF Inv, Accepting
  <2> QED BY <1>2, <1>3, <1>4, <1>5, <2>1 DEF Inv, Single
<1>9. Accepting' BY <1>2, <1>3, <1>4, <1>5, <1>6 DEF Inv, Accepting
<1>10. Fresh'
  <2>1. \A d \in Connections : Held(d) => Held(d)' BY <1>2, <1>3 DEF Held
  <2>2. socket[newConnection] = "closed" BY <1>3 DEF Inv, Fresh
  <2> QED BY <1>2, <1>3, <1>4, <2>1, <2>2 DEF Inv, Fresh, ReadKinds
<1>11. ReplyUnchangedWhileWritten'
  BY <1>3 DEF Inv, ReplyUnchangedWhileWritten, WriteKinds
<1> QED BY <1>7, <1>8, <1>9, <1>10, <1>11 DEF Inv

\* The new connection takes the place of the one that was accepted into.
LEMMA Swaps ==
  ASSUME Inv, NEW t \in Threads, Swap(t)
  PROVE  Inv'
<1> DEFINE c == thread[t].conn
<1>1. /\ newConnection' = c
      /\ UNCHANGED <<pending, ready, socket, reply, sent>>
      /\ thread[t].at = "accept" /\ c # NoConnection /\ c \in Connections
  BY DEF Swap, Inv, Types, Records
<1>2. /\ thread' \in [Threads -> Records]
      /\ thread'[t].at = "listen" /\ thread'[t].conn = newConnection
      /\ \A u \in Threads : u # t => thread'[u] = thread[u]
  BY DEF Swap, Inv, Types, Records, Steps
<1>3. \A o \in Ops : o.kind # "accept" /\ o.conn # newConnection /\ o.conn # c
  BY <1>1 DEF Inv, Accepting, Single
<1>4. \A u \in Threads : u # t => /\ thread[u].at \notin {"accept", "listen"}
                                  /\ thread[u].conn # c /\ thread[u].conn # newConnection
  BY <1>1 DEF Inv, Accepting
<1>5. newConnection \in Connections /\ newConnection # c /\ newConnection # NoConnection
  BY <1>1, HttpServerAssumption DEF Inv, Types, Accepting
<1> HIDE DEF c
<1>6. Types' BY <1>1, <1>2, <1>5 DEF Inv, Types
<1>7. Single' BY <1>1, <1>2, <1>3, <1>4 DEF Inv, Single, Ops
<1>8. Accepting' BY <1>1, <1>2, <1>3, <1>4, <1>5 DEF Inv, Accepting, Ops
<1>9. Fresh'
  <2>1. \A d \in Connections : Held(d) => Held(d)' BY <1>1, <1>2 DEF Held, c
  <2>2. socket[c] = "closed" /\ reply[c] = "none" /\ reply[newConnection] = "none"
    BY <1>1 DEF Inv, Fresh, c
  <2>3. \A o \in pending : o.kind # "accept" BY <1>3 DEF Ops
  <2> QED BY <1>1, <1>2, <1>4, <2>1, <2>2, <2>3 DEF Inv, Fresh, Ops
<1> QED BY <1>1, <1>6, <1>7, <1>8, <1>9 DEF Inv, ReplyUnchangedWhileWritten

\* A handler that returns lets its connection go, which may be destroyed.
LEMMA Returns ==
  ASSUME Inv, NEW t \in Threads, Return(t)
  PROVE  Inv'
<1>1. /\ thread' \in [Threads -> Records] /\ thread'[t] = Idle
      /\ \A u \in Threads : u # t => thread'[u] = thread[u]
      /\ UNCHANGED <<newConnection, pending, ready>>
  BY DEF Return, Inv, Types, Records, Steps, Idle, Args
<1>2. /\ socket' = [c \in Connections |-> IF Held(c)' THEN socket[c] ELSE "closed"]
      /\ reply' = [c \in Connections |-> IF Held(c)' THEN reply[c] ELSE "none"]
      /\ sent' = [c \in Connections |-> IF Held(c)' THEN sent[c] ELSE "none"]
  BY DEF Return, Destroy
<1> DEFINE kept == {c \in Connections : Held(c)'}
<1>3. /\ \A c \in kept : socket'[c] = socket[c] /\ reply'[c] = reply[c] /\ sent'[c] = sent[c]
      /\ \A c \in Connections : c \notin kept => socket'[c] = "closed" /\ reply'[c] = "none"
      /\ socket' \in [Connections -> {"closed", "open", "gone"}]
      /\ reply' \in [Connections -> Replies] /\ sent' \in [Connections -> Replies]
  BY <1>2 DEF Inv, Types, Replies
<1>4. \A c \in Connections :
        /\ \/ c = newConnection
           \/ \E o \in Ops : o.kind # "accept" /\ o.conn = c
           \/ \E u \in Threads : u # t /\ thread[u].conn = c
           => c \in kept
        /\ ~Held(c)' => c \notin kept
  BY <1>1 DEF Held, Ops
<1> HIDE DEF kept
<1>5. /\ newConnection \in Connections /\ newConnection # NoConnection
      /\ \A o \in Ops : o.conn \in Connections
      /\ \A u \in Threads : thread[u].conn \in Connections \cup {NoConnection}
      /\ Idle.at = "idle" /\ Idle.conn = NoConnection
  BY HttpServerAssumption DEF Inv, Types, Ops, Records, Idle
<1>6. Types' BY <1>1, <1>3, <1>5 DEF Inv, Types
<1>7. Single'
  <2>1. \A o \in Ops : o.conn # NoConnection BY <1>5, HttpServerAssumption
  <2> QED BY <1>1, <1>5, <2>1 DEF Inv, Single, Ops
<1>8. Accepting' BY <1>1, <1>5 DEF Inv, Accepting, Ops
<1>9. Fresh'
  <2>1. \A o \in Ops : o.kind \in ReadKinds => o.kind # "accept" BY DEF ReadKinds
  <2>2. /\ reply'[newConnection] = reply[newConnection]
        /\ socket'[newConnection] = socket[newConnection]
        /\ \A o \in Ops : o.kind # "accept" => reply'[o.conn] = reply[o.conn]
    BY <1>3, <1>4, <1>5
  <2>3. \A u \in Threads : u # t /\ thread[u].conn # NoConnection =>
          reply'[thread[u].conn] = reply[thread[u].conn] /\ socket'[thread[u].conn] = socket[thread[u].conn]
    BY <1>3, <1>4, <1>5
  <2>4. \A u \in Threads : thread'[u].conn # NoConnection \/ thread'[u].at = "listen" => u # t
    BY <1>1, <1>5
  <2> QED BY <1>1, <1>3, <1>4, <2>1, <2>2, <2>3, <2>4 DEF Inv, Fresh, Ops
<1>10. ReplyUnchangedWhileWritten'
  <2>1. \A o \in pending : o.kind \in WriteKinds =>
          reply'[o.conn] = reply[o.conn] /\ sent'[o.conn] = sent[o.conn]
    BY <1>3, <1>4, <1>5 DEF Ops, WriteKinds
  <2> QED BY <1>1, <1>3, <2>1 DEF Inv, ReplyUnchangedWhileWritten
<1> QED BY <1>6, <1>7, <1>8, <1>9, <1>10 DEF Inv

LEMMA InvStep == ASSUME Inv, NEW t \in Threads, Step(t) PROVE Inv'
<1> USE DEF Inv, Types, Records
<1>0. thread[t] \in Records OBVIOUS
<1>1. CASE Return(t) BY <1>1, Returns
<1>2. CASE Swap(t) BY <1>2, Swaps
<1>3. CASE Listen(t) BY <1>3, Listens
<1>4. CASE Start(t)
  BY <1>4, Begins DEF Start, ReadKinds, WriteKinds
<1>5. CASE AcceptError(t) \/ ReadError(t) \/ HandleWrite(t) \/ StreamError(t) \/ BoundaryWritten(t)
  <2>1. \E s \in {"return", "wait"} :
          /\ Goto(t, s) /\ (s = "wait" => thread[t].at = "boundary")
          /\ UNCHANGED <<newConnection, pending, ready, socket, reply, sent>>
          /\ thread[t].at \notin {"return", "idle"}
    BY <1>5 DEF AcceptError, ReadError, HandleWrite, StreamError, BoundaryWritten, Reading, ReadKinds
  <2> QED BY <2>1, GoesOn
<1>6. CASE ReadAgain(t)
  BY <1>6, Begins DEF ReadAgain, Reading, ReadKinds, WriteKinds
<1>7. CASE BadRequest(t) \/ HandleRequest(t) \/ Boundary(t) \/ FillImage(t)
  <2>1. \E r \in Replies, s \in {"startWrite", "startStream", "boundary"} :
          /\ SetReply(t, r, s)
          /\ thread[t].at \notin {"return", "idle", "accept"}
    BY <1>7 DEF BadRequest, HandleRequest, Boundary, FillImage, Reading, ReadKinds, Replies
  <2> QED BY <2>1, SetsReply
<1>8. CASE StartWrite(t)
  <2>1. /\ thread[t].at \in {"startWrite", "startStream"}
        /\ Writes[thread[t].at] \in WriteKinds
        /\ thread[t].conn \in Connections /\ thread[t].conn # NoConnection
    BY <1>8, HttpServerAssumption DEF StartWrite, Writes, WriteKinds
  <2>2. /\ Begin(thread[t].conn, Writes[thread[t].at]) /\ Goto(t, "return")
        /\ sent' = [sent EXCEPT ![thread[t].conn] = reply[thread[t].conn]]
        /\ UNCHANGED <<newConnection, ready, socket, reply>>
    BY <1>8 DEF StartWrite
  <2>3. /\ sent' \in [Connections -> Replies]
        /\ \A c \in Connections : c # thread[t].conn => sent'[c] = sent[c]
        /\ sent'[thread[t].conn] = reply[thread[t].conn]
    BY <2>1, <2>2
  <2>4. Writes[thread[t].at] \notin ReadKinds BY <2>1 DEF WriteKinds, ReadKinds
  <2> QED BY <2>1, <2>2, <2>3, <2>4, Begins
<1> QED BY <1>1, <1>2, <1>3, <1>4, <1>5, <1>6, <1>7, <1>8 DEF Step

-----------------------------------------------------------------------------
(* Steps of the operating system and the pool *)

LEMMA Closes == ASSUME Inv, NEW c \in Connections, PeerCloses(c) PROVE Inv'
<1>1. /\ socket[c] = "open" /\ UNCHANGED <<newConnection, pending, ready, thread, reply, sent>>
      /\ socket' \in [Connections -> {"closed", "open", "gone"}]
      /\ \A d \in Connections : socket[d] = "closed" => socket'[d] = "closed"
  BY DEF PeerCloses, Inv, Types
<1>2. \A d \in Connections : Held(d)' <=> Held(d) BY <1>1 DEF Held
<1>3. \A t \in Threads : thread[t].conn \in Connections \cup {NoConnection}
  BY DEF Inv, Types, Records
<1>4. newConnection \in Connections BY DEF Inv, Types
<1>5. Fresh' BY <1>1, <1>2, <1>3, <1>4 DEF Inv, Fresh, Ops
<1> QED BY <1>1, <1>5 DEF Inv, Types, Single, Accepting, ReplyUnchangedWhileWritten, Ops

LEMMA Completes ==
  ASSUME Inv, NEW o \in pending, NEW arg \in Args, Complete(o, arg)
  PROVE  Inv'
<1> DEFINE done == [conn |-> o.conn, kind |-> o.kind, arg |-> arg]
<1>1. /\ pending' = pending \ {o} /\ ready' = ready \cup {done}
      /\ UNCHANGED <<newConnection, thread, reply, sent>>
      /\ done.conn = o.conn /\ done.kind = o.kind
  BY DEF Complete
<1>2. /\ o.conn \in Connections /\ o.kind \in Kinds /\ o \in Ops
      /\ o.kind = "accept" => o.conn = newConnection
  BY DEF Inv, Types, Accepting, Ops
<1>3. Ops' \subseteq Ops \cup {done} /\ o \in Ops BY <1>1, <1>2 DEF Ops
<1>4. done \in [conn : Connections, kind : Kinds, arg : Args] BY <1>2
<1>5. \A p \in Ops : p.conn = o.conn => p = o BY <1>2 DEF Inv, Single
<1>6. \A p \in Ops' : p = done \/ (p \in Ops /\ p.conn # o.conn)
  <2> SUFFICES ASSUME NEW p \in Ops', p # done PROVE p \in Ops /\ p.conn # o.conn
    OBVIOUS
  <2>1. p \in Ops BY <1>3
  <2>2. CASE p \in pending' BY <1>1, <1>5, <2>1, <2>2
  <2>3. CASE p \in ready
    <3>1. "arg" \in DOMAIN p /\ "arg" \notin DOMAIN o
      BY <2>3 DEF Inv, Types
    <3> QED BY <1>5, <2>1, <3>1
  <2> QED BY <1>1, <2>2, <2>3 DEF Ops
<1>7. /\ socket' \in [Connections -> {"closed", "open", "gone"}]
      /\ \A c \in Connections : c # o.conn \/ o.kind # "accept" => socket'[c] = socket[c]
  BY <1>2 DEF Complete, Inv, Types
<1> HIDE DEF done
<1>8. Types' BY <1>1, <1>4, <1>7 DEF Inv, Types
<1>9. Single' BY <1>1, <1>2, <1>6 DEF Inv, Single
<1>10. Accepting' BY <1>1, <1>2, <1>6 DEF Inv, Accepting
<1>11. Fresh'
  <2>1. \A c \in Connections : Held(c) => Held(c)'
    <3> SUFFICES ASSUME NEW c \in Connections, NEW p \in Ops, p.conn = c, p.kind # "accept"
                 PROVE  Held(c)'
      BY <1>1 DEF Held, Ops
    <3>1. CASE p = o BY <1>1, <3>1 DEF Held
    <3>2. CASE p # o BY <1>1, <3>2 DEF Held, Ops
    <3> QED BY <3>1, <3>2
  <2>2. newConnection \in Connections /\ Held(newConnection)
    BY DEF Inv, Types, Held
  <2>3. o.kind = "accept" => \A p \in pending' : p.kind # "accept"
    BY <1>1, <1>2, <1>5 DEF Inv, Accepting, Ops
  <2>4. o.kind = "accept" => \A t \in Threads : thread[t].at # "listen"
    BY <1>2 DEF Inv, Accepting
  <2>5. \A t \in Threads : thread[t].conn \in Connections \cup {NoConnection} /\ thread[t].conn # newConnection
    BY DEF Inv, Types, Records, Accepting
  <2>6. \A c \in Connections : c # newConnection => socket'[c] = socket[c]
    BY <1>2, <1>7
  <2>7. o.kind # "accept" => socket'[newConnection] = socket[newConnection]
    BY <1>7, <2>2
  <2>8. \A p \in Ops' : p.kind \in ReadKinds => reply[p.conn] = "none"
    BY <1>1, <1>2, <1>6 DEF Inv, Fresh
  <2>9. \A p \in pending' : p \in pending BY <1>1
  <2> QED BY <1>1, <2>1, <2>2, <2>3, <2>4, <2>5, <2>6, <2>7, <2>8, <2>9 DEF Inv, Fresh
<1>12. ReplyUnchangedWhileWritten' BY <1>1 DEF Inv, ReplyUnchangedWhileWritten
<1> QED BY <1>8, <1>9, <1>10, <1>11, <1>12 DEF Inv

\* What a free thread refers to when it has taken a handler: the connection
\* of the handler, a new one if an accept succeeded, or none if it failed.
LEMMA Takes ==
  ASSUME Inv, NEW t \in Threads, NEW h \in ready, Take(t, h)
  PROVE  Inv'
<1>1. /\ h \in Ops /\ h.conn \in Connections /\ h.kind \in Kinds /\ h.arg \in Args
      /\ thread[t].at = "idle" /\ thread[t].conn = NoConnection
      /\ UNCHANGED <<newConnection, pending, socket, reply, sent>>
      /\ ready' = ready \ {h}
  BY DEF Take, Inv, Types, Ops, Idle
<1>2. PICK c \in Connections \cup {NoConnection} :
        /\ h.kind # "accept" => c = h.conn
        /\ h.kind = "accept" /\ h.arg = "ok" => c \in Connections /\ ~Held(c)
        /\ h.kind = "accept" /\ h.arg # "ok" => c = NoConnection
        /\ thread' = [thread EXCEPT ![t] =
             [at |-> h.kind, conn |-> c, arg |-> h.arg, kind |-> h.kind]]
  <2>1. CASE h.kind # "accept" BY <1>1, <2>1 DEF Take
  <2>2. CASE h.kind = "accept" /\ h.arg = "ok" BY <2>2 DEF Take
  <2>3. CASE h.kind = "accept" /\ h.arg # "ok" BY <2>3 DEF Take
  <2> QED BY <2>1, <2>2, <2>3
<1>3. /\ thread' \in [Threads -> Records]
      /\ thread'[t].at = h.kind /\ thread'[t].conn = c /\ thread'[t].arg = h.arg
      /\ \A u \in Threads : u # t => thread'[u] = thread[u]
  BY <1>1, <1>2 DEF Inv, Types, Records, Steps
<1>4. Ops' \subseteq Ops /\ \A o \in Ops' : o # h
  <2>1. \A o \in pending : "arg" \notin DOMAIN o BY DEF Inv, Types
  <2>2. "arg" \in DOMAIN h BY DEF Inv, Types
  <2> QED BY <1>1, <2>1, <2>2 DEF Ops
<1>5. \A o \in Ops' : o.conn # h.conn /\ o.conn \in Connections
  BY <1>1, <1>4 DEF Inv, Types, Single, Ops
<1>6. h.kind # "accept" \/ c # NoConnection =>
        /\ \A o \in Ops' : o.conn # c
        /\ c # newConnection
        /\ \A u \in Threads : u # t /\ thread[u].conn = c =>
             h.kind # "accept" /\ thread[u].at = "return"
  <2>1. CASE h.kind # "accept"
    BY <1>1, <1>2, <1>4, <1>5, <2>1 DEF Inv, Single, Accepting
  <2>2. CASE h.kind = "accept" /\ c # NoConnection
    <3>1. ~Held(c) /\ c \in Connections BY <1>2, <2>2
    <3>2. \A o \in Ops' : o.conn # c
      BY <1>4, <1>5, <2>2, <3>1 DEF Held, Ops, Inv, Accepting
    <3> QED BY <3>1, <3>2 DEF Held
  <2> QED BY <2>1, <2>2
<1>7. h.kind = "accept" => \A o \in Ops' : o.kind # "accept"
  BY <1>1, <1>4, <1>5 DEF Inv, Accepting
<1>8. h.kind = "accept" => \A u \in Threads : thread[u].at \notin {"accept", "listen"}
  BY <1>1 DEF Inv, Accepting
<1>9. Types'
  <2>1. h.kind \notin {"idle", "listen", "start", "return"}
    BY <1>1 DEF Kinds, ReadKinds, WriteKinds
  <2>2. c = NoConnection => h.kind = "accept" /\ h.arg # "ok"
    BY <1>1, <1>2, HttpServerAssumption
  <2> QED BY <1>1, <1>3, <2>1, <2>2 DEF Inv, Types
<1>10. Single'
  <2>1. \A o, p \in Ops' : o.conn = p.conn => o = p BY <1>4 DEF Inv, Single
  <2>2. \A o \in Ops' : o.conn # c
    BY <1>2, <1>5, <1>6, HttpServerAssumption
  <2>3. \A o \in Ops', u \in Threads : thread'[u].conn = o.conn => thread'[u].at = "return"
    BY <1>3, <1>4, <2>2 DEF Inv, Single
  <2>4. \A u \in Threads : u # t /\ thread[u].conn = c /\ c # NoConnection => thread[u].at = "return"
    BY <1>6
  <2> QED BY <1>3, <2>1, <2>3, <2>4 DEF Inv, Single
<1>11. Accepting'
  <2>1. h.kind # "listen" BY <1>1 DEF Kinds, ReadKinds, WriteKinds
  <2>2. c # newConnection BY <1>6, <1>1, HttpServerAssumption DEF Inv, Types
  <2>3. \A u, v \in Threads :
          /\ thread'[u].at = "accept" /\ thread'[u].conn # NoConnection
          /\ thread'[v].conn = thread'[u].conn
          => u = v
    <3> SUFFICES ASSUME NEW u \in Threads, NEW v \in Threads, u # v,
                        thread'[u].at = "accept", thread'[u].conn # NoConnection,
                        thread'[v].conn = thread'[u].conn
                 PROVE  FALSE
      OBVIOUS
    <3>1. CASE u = t BY <1>3, <1>6, <3>1
    <3>2. CASE v = t
      <4>1. thread[u].at = "accept" /\ thread[u].conn = c /\ c # NoConnection
        BY <1>3, <3>2
      <4> QED BY <1>6, <3>2, <4>1
    <3>3. CASE u # t /\ v # t BY <1>3, <3>3 DEF Inv, Accepting
    <3> QED BY <3>1, <3>2, <3>3
  <2> QED BY <1>1, <1>3, <1>4, <1>7, <1>8, <2>1, <2>2, <2>3 DEF Inv, Accepting
<1>12. Fresh'
  <2>1. \A d \in Connections : Held(d) => Held(d)'
    <3> SUFFICES ASSUME NEW d \in Connections, Held(d) PROVE Held(d)'
      OBVIOUS
    <3>1. CASE d = newConnection BY <1>1, <3>1 DEF Held
    <3>2. CASE \E o \in Ops : o.conn = d /\ o.kind # "accept"
      <4>1. PICK o \in Ops : o.conn = d /\ o.kind # "accept" BY <3>2
      <4>2. CASE o = h BY <1>2, <1>3, <4>1, <4>2 DEF Held
      <4>3. CASE o # h BY <1>1, <4>1, <4>3 DEF Held, Ops
      <4> QED BY <4>2, <4>3
    <3>3. CASE \E u \in Threads : thread[u].conn = d
      <4>1. PICK u \in Threads : thread[u].conn = d BY <3>3
      <4>2. u # t BY <1>1, <4>1, HttpServerAssumption
      <4> QED BY <1>3, <4>1, <4>2 DEF Held
    <3> QED BY <3>1, <3>2, <3>3 DEF Held, Ops
  <2>2. h.kind \in ReadKinds => reply[h.conn] = "none" BY <1>1 DEF Inv, Fresh
  <2>3. h.kind = "accept" /\ c # NoConnection => reply[c] = "none" /\ socket[c] = "closed"
    BY <1>2 DEF Inv, Fresh
  <2>4. h.kind \notin {"listen", "start"} BY <1>1 DEF Kinds, ReadKinds, WriteKinds
  <2>5. h.kind \in ReadKinds => h.kind # "accept" BY DEF ReadKinds
  <2> QED BY <1>1, <1>2, <1>3, <1>4, <2>1, <2>2, <2>3, <2>4, <2>5 DEF Inv, Fresh
<1>13. ReplyUnchangedWhileWritten' BY <1>1 DEF Inv, ReplyUnchangedWhileWritten
<1> QED BY <1>9, <1>10, <1>11, <1>12, <1>13 DEF Inv

LEMMA InvNext == Inv /\ [Next]_vars => Inv'
<1>1. Inv /\ UNCHANGED vars => Inv'
  BY DEF vars, Inv, Types, Single, Accepting, Fresh, ReplyUnchangedWhileWritten, Ops, Held
<1> QED BY <1>1, Completes, Closes, Takes, InvStep DEF Next, Args

LEMMA Invariant == Spec => []Inv
<1> QED BY InvInit, InvNext, PTL DEF Spec

-----------------------------------------------------------------------------
(* Theorems *)

\* Every handler works on the connection it refers to, which exists.
THEOREM TypeCorrect == Spec => []TypeOK
<1>1. Inv => TypeOK
  <2> SUFFICES ASSUME Inv PROVE TypeOK OBVIOUS
  <2>1. \A c \in Connections : reply[c] \in Replies /\ sent[c] \in Replies
    BY DEF Inv, Types
  <2> QED BY <2>1 DEF Inv, Types, TypeOK, Handlers, Kinds, Args, Replies, Records
<1> QED BY <1>1, Invariant, PTL

\* The handlers of a connection never use it together, although most reads
\* are outside the strand: each starts the next operation in its last step.
THEOREM OneActivityAlways == Spec => []OneActivity
<1>1. Inv => OneActivity
  <2> SUFFICES ASSUME Inv, NEW c \in Connections, NEW a \in Activities(c), NEW b \in Activities(c)
               PROVE  a = b
    BY DEF OneActivity
  <2>1. Single /\ NoConnection \notin Connections BY HttpServerAssumption DEF Inv
  <2>2. CASE /\ \E o \in Ops : o.conn = c /\ a = <<"operation", o>>
             /\ \E o \in Ops : o.conn = c /\ b = <<"operation", o>>
    BY <2>1, <2>2 DEF Single
  <2>3. CASE /\ \E t \in Threads : thread[t].conn = c /\ thread[t].at # "return" /\ a = <<"thread", t>>
             /\ \E t \in Threads : thread[t].conn = c /\ thread[t].at # "return" /\ b = <<"thread", t>>
    BY <2>1, <2>3 DEF Single
  <2>4. ~ \E o \in Ops, t \in Threads :
             o.conn = c /\ thread[t].conn = c /\ thread[t].at # "return"
    BY <2>1 DEF Single
  <2> QED BY <2>2, <2>3, <2>4 DEF Activities, Ops
<1> QED BY <1>1, Invariant, PTL

\* No socket is accepted into twice, and at most one accept is under way.
THEOREM AcceptsAlwaysIntoClosed == Spec => []AcceptsIntoClosed
<1>1. Inv => AcceptsIntoClosed
  <2> SUFFICES ASSUME Inv PROVE AcceptsIntoClosed OBVIOUS
  <2>1. \A o \in Ops : o.kind = "accept" => o.conn = newConnection BY DEF Inv, Accepting
  <2>2. \A o, p \in Ops : o.kind = "accept" /\ p.kind = "accept" => o = p
    BY <2>1 DEF Inv, Single
  <2> QED BY <2>1, <2>2 DEF Inv, Fresh, AcceptsIntoClosed, Ops
<1> QED BY <1>1, Invariant, PTL

\* The buffers of a write point into a reply that stays as it is.
THEOREM RepliesStayUnchanged == Spec => []ReplyUnchangedWhileWritten
<1>1. Inv => ReplyUnchangedWhileWritten BY DEF Inv
<1> QED BY <1>1, Invariant, PTL

\* The steps of a thread that give a connection a reply to its request.
LEMMA AnswersStep ==
  ASSUME Inv, NEW t \in Threads, Step(t), NEW c \in Connections,
         reply'[c] # reply[c], reply'[c] \in {"bad", "page", "headers"}
  PROVE  reply[c] = "none"
<1>1. CASE UNCHANGED reply BY <1>1
<1>2. CASE Return(t)
  BY <1>2 DEF Return, Destroy
<1>3. ASSUME NEW r, NEW s, SetReply(t, r, s) PROVE c = thread[t].conn /\ reply'[c] = r
  BY <1>3 DEF SetReply, Inv, Types
<1>4. CASE Boundary(t) \/ FillImage(t)
  BY <1>3, <1>4 DEF Boundary, FillImage
<1>5. CASE BadRequest(t) \/ HandleRequest(t)
  <2>1. thread[t].at \in ReadKinds BY <1>5 DEF BadRequest, HandleRequest, Reading
  <2>2. c = thread[t].conn BY <1>3, <1>5 DEF BadRequest, HandleRequest
  <2>3. c # NoConnection BY HttpServerAssumption
  <2> QED BY <2>1, <2>2, <2>3 DEF Inv, Fresh
<1>6. Return(t) \/ Boundary(t) \/ FillImage(t) \/ BadRequest(t) \/ HandleRequest(t) \/ UNCHANGED reply
  BY DEF Step, Swap, Listen, Start, AcceptError, ReadAgain, ReadError, StartWrite, HandleWrite,
    StreamError, BoundaryWritten
<1> QED BY <1>1, <1>2, <1>4, <1>5, <1>6

\* A connection is answered at most once in its life.
THEOREM AnswersAlwaysOnce == Spec => AnswersOnce
<1>1. Inv /\ [Next]_vars =>
        [\A c \in Connections :
           reply'[c] # reply[c] /\ reply'[c] \in {"bad", "page", "headers"}
             => reply[c] = "none"]_vars
  BY AnswersStep DEF Next, Complete, PeerCloses, Take
<1> QED BY <1>1, Invariant, PTL DEF Spec, AnswersOnce

=============================================================================
