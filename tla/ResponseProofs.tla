--------------------------- MODULE ResponseProofs ---------------------------
(***************************************************************************)
(* Proofs about module Response: what is sent, for every table of streams, *)
(* every URL and any number of parts.                                      *)
(***************************************************************************)
EXTENDS Response, RequestHandlerProofs

-----------------------------------------------------------------------------
(* A connection is a client of the table of handlers *)

LEMMA InitMaps == ResponseInit => Init
BY DEF ResponseInit

LEMMA StepMaps == [ResponseNext]_<<vars, responseVars>> => [Next]_vars
BY DEF ResponseNext, RegisterOne, Respond, SendBoundary, SendPart, Next

\* Every behaviour of a connection is one of the request handler, so that what
\* is proved of the handlers holds of the connections.
THEOREM ResponseImplementsHandler == ResponseSpec => Spec
<1>1. QED
  BY InitMaps, StepMaps, PTL DEF ResponseSpec, Spec

-----------------------------------------------------------------------------
(* The kinds of answers *)

AnswerKind(a) ==
  \/ a \in {<<"bad_request">>, <<"not_found">>}
  \/ \E name : a = <<"file", name>>
  \/ \E l : a = <<"redirect", l>> /\ l[1] = "/"
  \/ \E streams : a = <<"list", streams>>
  \/ \E n : a = <<"stream", n>>

LEMMA RedirectIsOfPath ==
  ASSUME TableInv, NEW path \in Text, NEW method \in Methods,
         NEW k \in Matching(path, method), handlers[k] = <<"redirect">>
  PROVE  path \in StreamPaths
<1>1. k \in DOMAIN handlers /\ Matches(k, path, method)
  BY DEF Matching
<1>2. \/ \E m \in Methods : k = ListKey(m)
      \/ \E p \in DOMAIN registered : k = RedirectKey(p)
      \/ \E p \in DOMAIN registered : k = StreamKey(p)
  BY <1>1 DEF TableInv, KeysInv
<1>3. ASSUME NEW m \in Methods, k = ListKey(m) PROVE FALSE
  BY <1>3 DEF TableInv, HandlersInv
<1>4. ASSUME NEW p \in DOMAIN registered, k = StreamKey(p) PROVE FALSE
  BY <1>4 DEF TableInv, HandlersInv
<1>5. ASSUME NEW p \in DOMAIN registered, k = RedirectKey(p) PROVE path = p
  BY <1>1, <1>5, KeyMatches
<1>6. QED
  BY <1>2, <1>3, <1>4, <1>5 DEF TableInv, HistoryInv

LEMMA AnswerKinds ==
  ASSUME TableInv, NEW uri \in Text, NEW method \in Methods
  PROVE  AnswerKind(AnswerTo(uri, method, "7"))
<1> DEFINE a == AnswerTo(uri, method, "7")
           path == UrlPath(uri)
<1>0. path \in Text
  BY UrlPathType
<1>1. CASE Refused(uri)
  BY <1>1 DEF AnswerTo, AnswerKind
<1>2. CASE ~Refused(uri) /\ Matching(path, method) = {}
  BY <1>2 DEF AnswerTo, AnswerKind
<1>3. ASSUME ~Refused(uri), NEW k \in Matching(path, method)
      PROVE  AnswerKind(a)
  <2>1. a = IF handlers[k] = <<"redirect">> THEN <<"redirect", RedirectLocation(path, "7")>>
            ELSE IF handlers[k] = <<"list">> THEN <<"list", ListAllStreams(path)>>
            ELSE handlers[k]
    BY <1>3, MatchedAnswer
  <2>2. \/ handlers[k] = <<"list">> \/ handlers[k] = <<"redirect">>
        \/ \E n : handlers[k] = <<"stream", n>>
    BY <1>3, HandlerKinds DEF Matching
  <2>3. ASSUME handlers[k] = <<"redirect">> PROVE RedirectLocation(path, "7")[1] = "/"
    <3>1. path \in StreamPaths
      BY <1>0, <1>3, <2>3, RedirectIsOfPath
    <3>2. QED
      BY <3>1, LocationTokens DEF IsAbsolute
  <2> HIDE DEF a, path
  <2>4. CASE handlers[k] = <<"redirect">>
    BY <2>1, <2>3, <2>4 DEF AnswerKind
  <2>5. CASE handlers[k] = <<"list">>
    <3>1. handlers[k] # <<"redirect">>
      BY <2>5
    <3>2. a = <<"list", ListAllStreams(path)>>
      BY <2>1, <2>5, <3>1
    <3>3. QED
      BY <3>2 DEF AnswerKind
  <2>6. CASE \E n : handlers[k] = <<"stream", n>>
    <3>1. handlers[k] # <<"redirect">> /\ handlers[k] # <<"list">>
      BY <2>6
    <3>2. QED
      BY <2>1, <2>6, <3>1 DEF AnswerKind
  <2>7. QED
    BY <2>2, <2>4, <2>5, <2>6
<1>4. QED
  BY <1>1, <1>2, <1>3

-----------------------------------------------------------------------------
(* Headers *)

LEMMA MultipartValue ==
  /\ \A x : <<x>> # Multipart
  /\ \A c : SizeOf(c) # Multipart
  /\ \A l : l[1] = "/" => l # Multipart
<1> DEFINE m == "multipart/x-mixed-replace"
           b == "--BOUNDARYSTRING\r\n"
<1>1. /\ Multipart = <<m>> \o <<b>> /\ <<m>> \in Seq({m, b}) /\ b \in {m, b}
      /\ Len(<<m>>) = 1 /\ <<m>>[1] = m
  BY DEF Multipart, Boundary
<1>2. m # "size" /\ m # "/"
  OBVIOUS
<1> HIDE DEF m, b
<1>3. LET w == <<m>> \o <<b>>
      IN /\ w \in Seq({m, b}) /\ Len(w) = Len(<<m>>) + 1 /\ w[Len(<<m>>) + 1] = b
         /\ \A i \in 1..Len(<<m>>) : w[i] = <<m>>[i]
  BY <1>1, FollowedAt
<1>4. Len(Multipart) = 2 /\ Multipart[1] = m
  BY <1>1, <1>3
<1>5. \A x : Len(<<x>>) = 1
  OBVIOUS
<1>6. \A c : SizeOf(c)[1] = "size"
  BY DEF SizeOf
<1>7. QED
  BY <1>2, <1>4, <1>5, <1>6

\* Headers are sent as they are, with an empty line after the last.
LEMMA PlainHeaders ==
  ASSUME NEW S, NEW hs \in Seq(S), \A i \in 1..Len(hs) : hs[i][3] # Multipart
  PROVE  HeadersToBuffers(hs) = hs \o <<Crlf>>
<1> DEFINE g == [i \in DOMAIN hs |-> <<hs[i]>>]
<1>1. HeadersToBuffers(hs) = FlattenSeq(g) \o <<Crlf>>
  <2>1. [i \in DOMAIN hs |-> IF hs[i][3] = Multipart THEN <<hs[i], Crlf>>
                             ELSE <<hs[i]>>] = g
    OBVIOUS
  <2> HIDE DEF g
  <2>2. QED
    BY <2>1, Zenon DEF HeadersToBuffers
<1>2. /\ g \in Seq(Seq(S)) /\ Len(g) = Len(hs)
      /\ \A i \in 1..Len(hs) : g[i] = <<hs[i]>>
  BY Singles
<1> HIDE DEF g
<1>3. FlattenSeq(g) = hs
  BY <1>2, FlattenSingles
<1>4. QED
  BY <1>1, <1>3

\* A value that ends in a line break is followed by another empty line.
LEMMA MultipartLast ==
  ASSUME NEW S, NEW hs \in Seq(S), \A i \in 1..Len(hs) : hs[i][3] # Multipart,
         NEW h \in S, h[3] = Multipart, Crlf \in S
  PROVE  HeadersToBuffers(Append(hs, h)) = (hs \o <<h, Crlf>>) \o <<Crlf>>
<1> DEFINE g == [i \in DOMAIN hs |-> <<hs[i]>>]
           all == Append(hs, h)
           lines == [i \in DOMAIN all |-> IF all[i][3] = Multipart THEN <<all[i], Crlf>>
                                          ELSE <<all[i]>>]
<1>1. /\ g \in Seq(Seq(S)) /\ Len(g) = Len(hs)
      /\ \A i \in 1..Len(hs) : g[i] = <<hs[i]>>
  BY Singles
<1>2. <<h, Crlf>> \in Seq(S)
  OBVIOUS
<1>3. lines = Append(g, <<h, Crlf>>)
  <2>1. PICK n \in Nat : n = Len(hs)
    OBVIOUS
  <2>2. PICK e : e = <<h, Crlf>>
    OBVIOUS
  <2>3. /\ DOMAIN all = 1..(n + 1) /\ all[n + 1] = h
        /\ \A i \in 1..n : all[i] = hs[i]
    BY <2>1
  <2> HIDE DEF all
  <2>4. lines = [i \in 1..(n + 1) |-> IF i = n + 1 THEN e ELSE <<hs[i]>>]
    BY <2>1, <2>2, <2>3
  <2>5. Append(g, e) = [i \in 1..(n + 1) |-> IF i = n + 1 THEN e ELSE <<hs[i]>>]
    BY <1>1, <2>1
  <2>6. QED
    BY <2>2, <2>4, <2>5, Zenon
<1>4. HeadersToBuffers(all) = FlattenSeq(lines) \o <<Crlf>>
  BY Zenon DEF HeadersToBuffers
<1> HIDE DEF lines, g
<1>5. FlattenSeq(lines) = FlattenSeq(g) \o <<h, Crlf>>
  BY <1>1, <1>2, <1>3, FlattenAppend
<1>6. FlattenSeq(g) = hs
  BY <1>1, FlattenSingles
<1>7. QED
  BY <1>4, <1>5, <1>6, Zenon

-----------------------------------------------------------------------------
(* Replies as they are sent *)

\* The lines of the headers between a status line and a content.
Frames(w, status, hs, content) ==
  /\ Len(w) = Len(hs) + 3
  /\ w[1] = status /\ w[Len(hs) + 2] = Crlf /\ w[Len(hs) + 3] = content
  /\ \A i \in 1..Len(hs) : w[i + 1] = hs[i]

LEMMA FramedAs ==
  ASSUME NEW S, NEW hs \in Seq(S), NEW status \in S, NEW content \in S, Crlf \in S
  PROVE  LET w == (<<status>> \o (hs \o <<Crlf>>)) \o <<content>>
         IN w \in Seq(S) /\ Frames(w, status, hs, content)
<1>1. PICK n \in Nat : n = Len(hs)
  OBVIOUS
<1>2. PICK u \in Seq(S) : /\ u = hs \o <<Crlf>> /\ Len(u) = n + 1 /\ u[n + 1] = Crlf
                          /\ \A i \in 1..n : u[i] = hs[i]
  <2>1. LET u == hs \o <<Crlf>>
        IN /\ u \in Seq(S) /\ Len(u) = Len(hs) + 1 /\ u[Len(hs) + 1] = Crlf
           /\ \A i \in 1..Len(hs) : u[i] = hs[i]
    BY FollowedAt
  <2>2. QED
    BY <1>1, <2>1, Zenon
<1>3. PICK v \in Seq(S) : /\ v = <<status>> \o u /\ Len(v) = Len(u) + 1 /\ v[1] = status
                          /\ \A i \in 1..Len(u) : v[i + 1] = u[i]
  <2>1. LET v == <<status>> \o u
        IN /\ v \in Seq(S) /\ Len(v) = Len(u) + 1 /\ v[1] = status
           /\ \A i \in 1..Len(u) : v[i + 1] = u[i]
    BY PrecededAt
  <2>2. QED
    BY <2>1, Zenon
<1>4. PICK w \in Seq(S) : /\ w = v \o <<content>> /\ Len(w) = Len(v) + 1
                          /\ w[Len(v) + 1] = content
                          /\ \A i \in 1..Len(v) : w[i] = v[i]
  <2>1. LET w == v \o <<content>>
        IN /\ w \in Seq(S) /\ Len(w) = Len(v) + 1 /\ w[Len(v) + 1] = content
           /\ \A i \in 1..Len(v) : w[i] = v[i]
    BY FollowedAt
  <2>2. QED
    BY <2>1, Zenon
<1>5. Len(v) = n + 2 /\ Len(w) = n + 3 /\ w[1] = status /\ w[n + 3] = content
  <2>1. Len(v) = n + 2
    BY <1>2, <1>3
  <2>2. 1 \in 1..Len(v) /\ Len(v) + 1 = n + 3
    BY <2>1
  <2>3. QED
    BY <1>3, <1>4, <2>1, <2>2
<1>6. w[n + 2] = Crlf
  <2>1. n + 1 \in 1..Len(u) /\ (n + 1) + 1 = n + 2 /\ n + 2 \in 1..Len(v)
    BY <1>2, <1>5
  <2>2. QED
    BY <1>2, <1>3, <1>4, <2>1
<1>7. ASSUME NEW i \in 1..n PROVE w[i + 1] = hs[i]
  <2>1. i \in 1..Len(u) /\ i + 1 \in 1..Len(v)
    BY <1>2, <1>5
  <2>2. QED
    BY <1>2, <1>3, <1>4, <2>1
<1>8. Frames(w, status, hs, content)
  BY <1>1, <1>5, <1>6, <1>7 DEF Frames
<1>9. QED
  BY <1>2, <1>3, <1>4, <1>8, Zenon

\* A reply whose headers announce the length of its content.
SentSized(w) ==
  \E n, c, t : /\ Len(w) = 5 /\ w[1] = <<"status", n>>
               /\ w[2] = Header("Content-Length", SizeOf(c))
               /\ w[3] = Header("Content-Type", t)
               /\ w[4] = Crlf /\ w[5] = Content(c)

\* A redirect.
SentLocation(w) ==
  \E l : /\ Len(w) = 4 /\ w[1] = <<"status", 302>> /\ w[2] = Header("Location", l)
         /\ w[3] = Crlf /\ w[4] = Content(<<>>)

\* The beginning of a stream, which its parts follow.
SentStream(w) ==
  /\ Len(w) >= 10 /\ w[1] = <<"status", 200>>
  /\ w[2] = Header("Connection", <<"close">>) /\ w[3] = Header("Max-Age", <<"0">>)
  /\ w[4] = Header("Expires", <<"0">>) /\ w[5] = Header("Cache-Control", <<"no-cache">>)
  /\ w[6] = Header("Pragma", <<"no-cache">>) /\ w[7] = Header("Content-Type", Multipart)
  /\ w[8] = Crlf /\ w[9] = Crlf /\ w[10] = Content(<<>>)

Typed(w) == \E S : w \in Seq(S)

LEMMA SizedReply ==
  ASSUME NEW status \in Nat, NEW c, NEW x
  PROVE  LET w == ToBuffers(Rep(status, Sized(c, <<x>>), c))
         IN Typed(w) /\ SentSized(w)
<1> DEFINE h == Header("Content-Length", SizeOf(c))
           i == Header("Content-Type", <<x>>)
           st == StatusLine(status)
           d == Content(c)
           S == {h, i, st, d, Crlf}
<1>1. PICK hs \in Seq(S) : hs = Sized(c, <<x>>) /\ Len(hs) = 2 /\ hs[1] = h /\ hs[2] = i
  <2>1. h \in S /\ i \in S
    OBVIOUS
  <2> HIDE DEF h, i, S
  <2>2. <<h, i>> \in Seq(S) /\ Len(<<h, i>>) = 2 /\ <<h, i>>[1] = h /\ <<h, i>>[2] = i
    BY <2>1
  <2>3. Sized(c, <<x>>) = <<h, i>>
    BY DEF Sized, h, i
  <2>4. QED
    BY <2>2, <2>3, Zenon
<1>2. h[3] = SizeOf(c) /\ i[3] = <<x>>
  BY DEF Header
<1>3. st \in S /\ d \in S /\ Crlf \in S /\ \E n : st = <<"status", n>>
  BY DEF StatusLine
<1> HIDE DEF h, i, st, d, S
<1>4. \A j \in 1..Len(hs) : hs[j][3] # Multipart
  BY <1>1, <1>2, MultipartValue
<1>5. HeadersToBuffers(hs) = hs \o <<Crlf>>
  BY <1>4, PlainHeaders
<1>6. PICK w \in Seq(S) : w = (<<st>> \o (hs \o <<Crlf>>)) \o <<d>> /\ Frames(w, st, hs, d)
  BY <1>3, FramedAs
<1>7. w = ToBuffers(Rep(status, Sized(c, <<x>>), c))
  BY <1>1, <1>5, <1>6 DEF ToBuffers, Rep, ContentToBuffers, st, d
<1>8. /\ Len(w) = 5 /\ w[1] = st /\ w[2] = h /\ w[3] = i /\ w[4] = Crlf /\ w[5] = d
  <2>1. 1 \in 1..2 /\ 2 \in 1..2 /\ 2 + 2 = 4 /\ 2 + 3 = 5 /\ 1 + 1 = 2 /\ 2 + 1 = 3
    OBVIOUS
  <2>2. QED
    BY <1>1, <1>6, <2>1 DEF Frames
<1>9. SentSized(w)
  BY <1>3, <1>8, Zenon DEF SentSized, h, i, d
<1>10. QED
  BY <1>7, <1>9 DEF Typed

LEMMA RedirectSent ==
  ASSUME NEW l, l[1] = "/"
  PROVE  LET w == ToBuffers(RedirectReply(l))
         IN Typed(w) /\ SentLocation(w)
<1> DEFINE h == Header("Location", l)
           st == StatusLine(302)
           d == Content(<<>>)
           S == {h, st, d, Crlf}
<1>1. PICK hs \in Seq(S) : hs = <<h>> /\ Len(hs) = 1 /\ hs[1] = h
  <2>1. h \in S
    OBVIOUS
  <2> HIDE DEF h, S
  <2>2. <<h>> \in Seq(S)
    BY <2>1
  <2>3. Len(<<h>>) = 1 /\ <<h>>[1] = h
    OBVIOUS
  <2>4. QED
    BY <2>2, <2>3, Zenon
<1>2. h[3] = l
  BY DEF Header
<1>3. st \in S /\ d \in S /\ Crlf \in S /\ st = <<"status", 302>>
  BY DEF StatusLine, StatusTypes
<1>4. RedirectReply(l) = Rep(302, <<h>>, <<>>)
  BY DEF RedirectReply
<1> HIDE DEF h, st, d, S
<1>5. \A j \in 1..Len(hs) : hs[j][3] # Multipart
  BY <1>1, <1>2, MultipartValue
<1>6. HeadersToBuffers(hs) = hs \o <<Crlf>>
  BY <1>5, PlainHeaders
<1>7. PICK w \in Seq(S) : w = (<<st>> \o (hs \o <<Crlf>>)) \o <<d>> /\ Frames(w, st, hs, d)
  <2>1. LET v == (<<st>> \o (hs \o <<Crlf>>)) \o <<d>>
        IN v \in Seq(S) /\ Frames(v, st, hs, d)
    BY <1>3, FramedAs
  <2>2. QED
    BY <2>1, Zenon
<1>8. w = ToBuffers(RedirectReply(l))
  <2>1. LET r == Rep(302, <<h>>, <<>>)
        IN /\ StatusLine(r.status) = st /\ r.headers = <<h>>
           /\ ContentToBuffers(r) = <<d>>
    BY DEF Rep, ContentToBuffers, st, d
  <2>2. QED
    BY <1>1, <1>4, <1>6, <1>7, <2>1, Zenon DEF ToBuffers
<1>9. Len(w) = 4 /\ w[1] = st /\ w[2] = h /\ w[3] = Crlf /\ w[4] = d
  <2>1. 1 \in 1..1 /\ 1 + 1 = 2 /\ 1 + 2 = 3 /\ 1 + 3 = 4
    OBVIOUS
  <2>2. QED
    BY <1>1, <1>7, <2>1 DEF Frames
<1>10. SentLocation(w)
  BY <1>3, <1>9, Zenon DEF SentLocation, h, d
<1>11. QED
  BY <1>8, <1>10 DEF Typed

LEMMA StreamSent ==
  LET w == ToBuffers(StreamReply)
  IN Typed(w) /\ SentStream(w) /\ Len(w) = 10
<1> DEFINE a == Header("Connection", <<"close">>)
           b == Header("Max-Age", <<"0">>)
           c == Header("Expires", <<"0">>)
           e == Header("Cache-Control", <<"no-cache">>)
           f == Header("Pragma", <<"no-cache">>)
           m == Header("Content-Type", Multipart)
           st == StatusLine(200)
           d == Content(<<>>)
           S == {a, b, c, e, f, m, st, d, Crlf}
<1>0. a \in S /\ b \in S /\ c \in S /\ e \in S /\ f \in S
  OBVIOUS
<1>1. PICK hs \in Seq(S) :
        /\ hs = <<a, b, c, e, f>> /\ Len(hs) = 5
        /\ hs[1] = a /\ hs[2] = b /\ hs[3] = c /\ hs[4] = e /\ hs[5] = f
  <2> HIDE DEF a, b, c, e, f, m, st, d, S
  <2>1. <<a, b, c, e, f>> \in Seq(S)
    BY <1>0
  <2>2. QED
    BY <2>1
<1>2. /\ a[3] = <<"close">> /\ b[3] = <<"0">> /\ c[3] = <<"0">>
      /\ e[3] = <<"no-cache">> /\ f[3] = <<"no-cache">> /\ m[3] = Multipart
  BY DEF Header
<1>3. st \in S /\ d \in S /\ Crlf \in S /\ m \in S /\ st = <<"status", 200>>
  BY DEF StatusLine, StatusTypes
<1>4. StreamReply = Rep(200, <<a, b, c, e, f, m>>, <<>>)
  BY DEF StreamReply
<1> HIDE DEF a, b, c, e, f, m, st, d, S
<1>5. \A j \in 1..Len(hs) : hs[j][3] # Multipart
  <2>1. ASSUME NEW j \in 1..5
        PROVE  hs[j] = a \/ hs[j] = b \/ hs[j] = c \/ hs[j] = e \/ hs[j] = f
    BY <1>1
  <2>2. QED
    BY <1>1, <1>2, <2>1, MultipartValue, Zenon
<1>6. Append(hs, m) = <<a, b, c, e, f, m>>
  <2>1. PICK t \in Seq(S) :
          /\ t = <<a, b, c, e, f, m>> /\ Len(t) = 6
          /\ t[1] = a /\ t[2] = b /\ t[3] = c /\ t[4] = e /\ t[5] = f /\ t[6] = m
    <3>1. <<a, b, c, e, f, m>> \in Seq(S)
      BY <1>0, <1>3
    <3>2. QED
      BY <3>1
  <2>2. PICK u \in Seq(S) : /\ u = Append(hs, m) /\ Len(u) = Len(hs) + 1
                            /\ u[Len(hs) + 1] = m
                            /\ \A i \in 1..Len(hs) : u[i] = hs[i]
    <3>1. /\ Append(hs, m) \in Seq(S) /\ Len(Append(hs, m)) = Len(hs) + 1
          /\ \A i \in 1..Len(hs) : Append(hs, m)[i] = hs[i]
          /\ Append(hs, m)[Len(hs) + 1] = m
      BY <1>3, AppendProperties
    <3>2. QED
      BY <3>1, Zenon
  <2>3. Len(u) = 6 /\ u[6] = m /\ \A i \in 1..5 : u[i] = hs[i]
    BY <1>1, <2>2
  <2>4. u = t
    BY <1>1, <2>1, <2>3, SeqEqual
  <2>5. QED
    BY <2>1, <2>2, <2>4, Zenon
<1>7. HeadersToBuffers(Append(hs, m)) = (hs \o <<m, Crlf>>) \o <<Crlf>>
  BY <1>2, <1>3, <1>5, MultipartLast
<1>8. PICK v \in Seq(S) : /\ v = hs \o <<m, Crlf>> /\ Len(v) = 7
                          /\ v[1] = a /\ v[2] = b /\ v[3] = c /\ v[4] = e /\ v[5] = f
                          /\ v[6] = m /\ v[7] = Crlf
  <2>1. PICK t \in Seq(S) : t = <<m, Crlf>> /\ Len(t) = 2 /\ t[1] = m /\ t[2] = Crlf
    <3>1. <<m, Crlf>> \in Seq(S)
      BY <1>3
    <3>2. Len(<<m, Crlf>>) = 2 /\ <<m, Crlf>>[1] = m /\ <<m, Crlf>>[2] = Crlf
      OBVIOUS
    <3>3. QED
      BY <3>1, <3>2, Zenon
  <2>2. PICK v \in Seq(S) : /\ v = hs \o t /\ Len(v) = Len(hs) + Len(t)
                            /\ \A i \in 1..Len(hs) : v[i] = hs[i]
                            /\ \A i \in 1..Len(t) : v[Len(hs) + i] = t[i]
    <3>1. /\ hs \o t \in Seq(S) /\ Len(hs \o t) = Len(hs) + Len(t)
          /\ \A i \in 1..Len(hs) : (hs \o t)[i] = hs[i]
          /\ \A i \in 1..Len(t) : (hs \o t)[Len(hs) + i] = t[i]
      BY ConcatAt
    <3>2. QED
      BY <3>1, Zenon
  <2>3. Len(v) = 7 /\ v[6] = m /\ v[7] = Crlf
    <3>1. 5 + 2 = 7 /\ 5 + 1 = 6 /\ 1 \in 1..2 /\ 2 \in 1..2
      OBVIOUS
    <3>2. QED
      BY <1>1, <2>1, <2>2, <3>1
  <2>4. /\ v[1] = a /\ v[2] = b /\ v[3] = c /\ v[4] = e /\ v[5] = f
    BY <1>1, <2>2
  <2>5. QED
    BY <2>1, <2>2, <2>3, <2>4, Zenon
<1>9. PICK w \in Seq(S) : w = (<<st>> \o (v \o <<Crlf>>)) \o <<d>> /\ Frames(w, st, v, d)
  BY <1>3, FramedAs
<1>10. w = ToBuffers(StreamReply)
  BY <1>4, <1>6, <1>7, <1>8, <1>9, Zenon DEF ToBuffers, Rep, ContentToBuffers, st, d
<1>11. /\ Len(w) = 10 /\ w[1] = st /\ w[2] = a /\ w[3] = b /\ w[4] = c /\ w[5] = e
       /\ w[6] = f /\ w[7] = m /\ w[8] = Crlf /\ w[9] = Crlf /\ w[10] = d
  <2>1. /\ Len(w) = 7 + 3 /\ w[1] = st /\ w[7 + 2] = Crlf /\ w[7 + 3] = d
        /\ \A i \in 1..7 : w[i + 1] = v[i]
    BY <1>8, <1>9 DEF Frames
  <2>2. /\ w[1 + 1] = a /\ w[2 + 1] = b /\ w[3 + 1] = c /\ w[4 + 1] = e
        /\ w[5 + 1] = f /\ w[6 + 1] = m /\ w[7 + 1] = Crlf
    BY <1>8, <2>1
  <2>3. QED
    BY <2>1, <2>2
<1>12. SentStream(w)
  BY <1>3, <1>11 DEF SentStream, a, b, c, e, f, m, d
<1>13. QED
  BY <1>10, <1>11, <1>12 DEF Typed

\* What the handlers of each kind of answer make is sent in one of three forms.
LEMMA ReplySent ==
  ASSUME NEW a, AnswerKind(a)
  PROVE  LET w == ToBuffers(ReplyTo(a))
         IN /\ Typed(w)
            /\ IF a[1] = "stream"
               THEN SentStream(w) /\ Len(w) = 10 /\ ReplyTo(a) = StreamReply
               ELSE SentSized(w) \/ SentLocation(w)
<1> DEFINE w == ToBuffers(ReplyTo(a))
           Goal == /\ Typed(w)
                   /\ IF a[1] = "stream"
                      THEN SentStream(w) /\ Len(w) = 10 /\ ReplyTo(a) = StreamReply
                      ELSE SentSized(w) \/ SentLocation(w)
<1>1. ASSUME a[1] # "stream", NEW status \in Nat, NEW c, NEW x,
             ReplyTo(a) = Rep(status, Sized(c, <<x>>), c)
      PROVE  Goal
  <2>1. LET v == ToBuffers(Rep(status, Sized(c, <<x>>), c))
        IN Typed(v) /\ SentSized(v)
    BY SizedReply
  <2>2. QED
    BY <1>1, <2>1, Zenon
<1>2. ASSUME a = <<"bad_request">> PROVE Goal
  <2>1. ReplyTo(a) = Rep(400, Sized(StockContent(400), <<"text/html">>), StockContent(400))
    BY <1>2 DEF ReplyTo, StockReply
  <2>2. a[1] # "stream"
    BY <1>2
  <2>3. QED
    BY <1>1, <2>1, <2>2
<1>3. ASSUME a = <<"not_found">> PROVE Goal
  <2>1. ReplyTo(a) = Rep(404, Sized(StockContent(404), <<"text/html">>), StockContent(404))
    BY <1>3 DEF ReplyTo, StockReply
  <2>2. a[1] # "stream"
    BY <1>3
  <2>3. QED
    BY <1>1, <2>1, <2>2
<1>4. ASSUME NEW e PROVE \E x : ExtensionToType(e) = <<x>>
  BY Zenon DEF ExtensionToType
<1>5. ASSUME NEW name, a = <<"file", name>> PROVE Goal
  <2>1. ReplyTo(a) = FileReply(name)
    BY <1>5 DEF ReplyTo
  <2>2. PICK x : ExtensionToType(Extension(name)) = <<x>>
    BY <1>4
  <2>3. ReplyTo(a) = Rep(200, Sized(<<"file", name>>, <<x>>), <<"file", name>>)
    BY <2>1, <2>2, Zenon DEF FileReply
  <2>4. a[1] # "stream"
    BY <1>5
  <2>5. QED
    BY <1>1, <2>3, <2>4
<1>6. ASSUME NEW streams, a = <<"list", streams>> PROVE Goal
  <2>1. ReplyTo(a) = ListReply(streams)
    BY <1>6 DEF ReplyTo
  <2>2. PICK x : ExtensionToType(<<"txt">>) = <<x>>
    BY <1>4
  <2>3. ReplyTo(a) = Rep(200, Sized(<<"list", streams>>, <<x>>), <<"list", streams>>)
    BY <2>1, <2>2, Zenon DEF ListReply
  <2>4. a[1] # "stream"
    BY <1>6
  <2>5. QED
    BY <1>1, <2>3, <2>4
<1>7. ASSUME NEW l, a = <<"redirect", l>>, l[1] = "/" PROVE Goal
  <2>1. ReplyTo(a) = RedirectReply(l)
    BY <1>7 DEF ReplyTo
  <2>2. LET v == ToBuffers(RedirectReply(l)) IN Typed(v) /\ SentLocation(v)
    BY <1>7, RedirectSent
  <2>3. a[1] # "stream"
    BY <1>7
  <2>4. QED
    BY <2>1, <2>2, <2>3, Zenon
<1>8. ASSUME NEW n, a = <<"stream", n>> PROVE Goal
  <2>1. ReplyTo(a) = StreamReply /\ a[1] = "stream"
    BY <1>8 DEF ReplyTo
  <2>2. LET v == ToBuffers(StreamReply) IN Typed(v) /\ SentStream(v) /\ Len(v) = 10
    BY StreamSent
  <2>3. QED
    BY <2>1, <2>2, Zenon
<1> HIDE DEF Goal
<1>9. Goal
  <2>1. \/ a = <<"bad_request">> \/ a = <<"not_found">>
        \/ \E name : a = <<"file", name>>
        \/ \E l : a = <<"redirect", l>> /\ l[1] = "/"
        \/ \E streams : a = <<"list", streams>>
        \/ \E n : a = <<"stream", n>>
    BY DEF AnswerKind
  <2>2. CASE \E name : a = <<"file", name>>
    BY <1>5, <2>2
  <2>3. CASE \E l : a = <<"redirect", l>> /\ l[1] = "/"
    BY <1>7, <2>3
  <2>4. CASE \E streams : a = <<"list", streams>>
    BY <1>6, <2>4
  <2>5. CASE \E n : a = <<"stream", n>>
    BY <1>8, <2>5
  <2>6. QED
    BY <1>2, <1>3, <2>1, <2>2, <2>3, <2>4, <2>5
<1>10. QED
  BY <1>9 DEF Goal

-----------------------------------------------------------------------------
(* The parts of a stream *)

\* The part that was sent after j others.
PartAt(w, j) ==
  \E image :
    /\ image # Boundary
    /\ w[6 * j + 11] = Content(Boundary)
    /\ w[6 * j + 12] = Header("Content-type", <<"image/jpg">>)
    /\ w[6 * j + 13] = Header("Content-Length", SizeOf(image))
    /\ w[6 * j + 14] = Crlf
    /\ w[6 * j + 15] = Content(image)
    /\ w[6 * j + 16] = Crlf

\* Parts that are complete and perhaps the boundary of one more, for which the
\* reply has been emptied.
PartsSent(w, r) ==
  \E q \in Nat :
    /\ \A j \in 0..(q - 1) : PartAt(w, j)
    /\ \/ Len(w) = 6 * q + 10 /\ r.content # Boundary
       \/ /\ Len(w) = 6 * q + 11 /\ w[6 * q + 11] = Content(Boundary)
          /\ r.content = Boundary /\ r.headers = <<>>

\* What is sent later leaves the parts before as they are.
LEMMA PartKept ==
  ASSUME NEW v, NEW w, NEW q \in Nat, NEW n \in Nat, n >= 6 * q + 10,
         \A i \in 1..n : v[i] = w[i],
         \A j \in 0..(q - 1) : PartAt(w, j)
  PROVE  \A j \in 0..(q - 1) : PartAt(v, j)
<1> SUFFICES ASSUME NEW j \in 0..(q - 1) PROVE PartAt(v, j)
  OBVIOUS
<1>1. /\ 6 * j + 11 \in 1..n /\ 6 * j + 12 \in 1..n /\ 6 * j + 13 \in 1..n
      /\ 6 * j + 14 \in 1..n /\ 6 * j + 15 \in 1..n /\ 6 * j + 16 \in 1..n
  OBVIOUS
<1>2. PartAt(w, j)
  OBVIOUS
<1>3. /\ v[6 * j + 11] = w[6 * j + 11] /\ v[6 * j + 12] = w[6 * j + 12]
      /\ v[6 * j + 13] = w[6 * j + 13] /\ v[6 * j + 14] = w[6 * j + 14]
      /\ v[6 * j + 15] = w[6 * j + 15] /\ v[6 * j + 16] = w[6 * j + 16]
  BY <1>1
<1>4. QED
  BY <1>2, <1>3, Zenon DEF PartAt

LEMMA StreamKept ==
  ASSUME NEW v, NEW w, NEW n \in Nat, Len(w) = n, Len(v) \in Nat, Len(v) >= n,
         \A i \in 1..n : v[i] = w[i], SentStream(w)
  PROVE  SentStream(v)
<1>1. n >= 10
  BY DEF SentStream
<1>2. /\ v[1] = w[1] /\ v[2] = w[2] /\ v[3] = w[3] /\ v[4] = w[4] /\ v[5] = w[5]
      /\ v[6] = w[6] /\ v[7] = w[7] /\ v[8] = w[8] /\ v[9] = w[9] /\ v[10] = w[10]
  BY <1>1
<1>3. Len(v) >= 10
  BY <1>1
<1>4. QED
  BY <1>2, <1>3, Zenon DEF SentStream

\* The lines and the image of a part after what has been sent.
Extends(v, w, h, i, d) ==
  /\ Len(v) = Len(w) + 5
  /\ \A k \in 1..Len(w) : v[k] = w[k]
  /\ v[Len(w) + 1] = h /\ v[Len(w) + 2] = i /\ v[Len(w) + 3] = Crlf
  /\ v[Len(w) + 4] = d /\ v[Len(w) + 5] = Crlf

LEMMA PartExtends ==
  ASSUME NEW S, NEW w \in Seq(S), NEW hs \in Seq(S), Len(hs) = 2,
         NEW d \in S, Crlf \in S
  PROVE  LET v == ((w \o (hs \o <<Crlf>>)) \o <<d>>) \o <<Crlf>>
         IN v \in Seq(S) /\ Extends(v, w, hs[1], hs[2], d)
<1>1. PICK n \in Nat : n = Len(w)
  OBVIOUS
<1>2. PICK t \in Seq(S) : /\ t = hs \o <<Crlf>> /\ Len(t) = Len(hs) + 1
                          /\ t[Len(hs) + 1] = Crlf
                          /\ \A i \in 1..Len(hs) : t[i] = hs[i]
  <2>1. LET t == hs \o <<Crlf>>
        IN /\ t \in Seq(S) /\ Len(t) = Len(hs) + 1 /\ t[Len(hs) + 1] = Crlf
           /\ \A i \in 1..Len(hs) : t[i] = hs[i]
    BY ONLY hs \in Seq(S), Crlf \in S, FollowedAt
  <2>2. QED
    BY <2>1, Zenon
<1>3. Len(t) = 3 /\ t[1] = hs[1] /\ t[2] = hs[2] /\ t[3] = Crlf
  BY <1>2
<1>4. PICK u \in Seq(S) : /\ u = w \o t /\ Len(u) = Len(w) + Len(t)
                          /\ \A i \in 1..Len(w) : u[i] = w[i]
                          /\ \A i \in 1..Len(t) : u[Len(w) + i] = t[i]
  <2>1. /\ w \o t \in Seq(S) /\ Len(w \o t) = Len(w) + Len(t)
        /\ \A i \in 1..Len(w) : (w \o t)[i] = w[i]
        /\ \A i \in 1..Len(t) : (w \o t)[Len(w) + i] = t[i]
    BY ConcatAt
  <2>2. QED
    BY <2>1, Zenon
<1>5. PICK x \in Seq(S) : /\ x = u \o <<d>> /\ Len(x) = Len(u) + 1 /\ x[Len(u) + 1] = d
                          /\ \A i \in 1..Len(u) : x[i] = u[i]
  <2>1. LET x == u \o <<d>>
        IN /\ x \in Seq(S) /\ Len(x) = Len(u) + 1 /\ x[Len(u) + 1] = d
           /\ \A i \in 1..Len(u) : x[i] = u[i]
    BY FollowedAt
  <2>2. QED
    BY <2>1, Zenon
<1>6. PICK v \in Seq(S) : /\ v = x \o <<Crlf>> /\ Len(v) = Len(x) + 1
                          /\ v[Len(x) + 1] = Crlf
                          /\ \A i \in 1..Len(x) : v[i] = x[i]
  <2>1. LET v == x \o <<Crlf>>
        IN /\ v \in Seq(S) /\ Len(v) = Len(x) + 1 /\ v[Len(x) + 1] = Crlf
           /\ \A i \in 1..Len(x) : v[i] = x[i]
    BY FollowedAt
  <2>2. QED
    BY <2>1, Zenon
<1>7. Len(u) = n + 3 /\ Len(x) = n + 4 /\ Len(v) = n + 5
  BY <1>1, <1>3, <1>4, <1>5, <1>6
<1>8. \A k \in 1..n : v[k] = w[k]
  BY <1>1, <1>4, <1>5, <1>6, <1>7
<1>9. v[n + 1] = hs[1] /\ v[n + 2] = hs[2] /\ v[n + 3] = Crlf
  <2>1. u[n + 1] = hs[1] /\ u[n + 2] = hs[2] /\ u[n + 3] = Crlf
    BY <1>1, <1>3, <1>4
  <2>2. QED
    BY <1>5, <1>6, <1>7, <2>1
<1>10. v[n + 4] = d /\ v[n + 5] = Crlf
  BY <1>5, <1>6, <1>7
<1>11. Extends(v, w, hs[1], hs[2], d)
  BY <1>1, <1>7, <1>8, <1>9, <1>10 DEF Extends
<1>12. QED
  BY <1>2, <1>4, <1>5, <1>6, <1>11, Zenon

-----------------------------------------------------------------------------
(* The invariant: what has been sent has one of three forms, and of a      *)
(* stream every part is complete but perhaps the last.                     *)

WireInv ==
  /\ Typed(wire)
  /\ \E status, headers, content : rep = Rep(status, headers, content)
  /\ \/ answer = <<"none">> /\ wire = <<>>
     \/ ~Streaming /\ (SentSized(wire) \/ SentLocation(wire))
     \/ Streaming /\ SentStream(wire) /\ PartsSent(wire, rep)

LEMMA WireInit == ResponseInit => WireInv
<1> SUFFICES ASSUME ResponseInit PROVE WireInv
  OBVIOUS
<1>1. wire = <<>> /\ wire \in Seq({}) /\ answer = <<"none">>
  BY DEF ResponseInit, Init
<1>2. rep = Rep(200, <<>>, <<>>)
  BY DEF ResponseInit
<1>3. QED
  BY <1>1, <1>2, Zenon DEF WireInv, Typed

LEMMA ReplyIsRep == \A a : AnswerKind(a) => \E s, h, c : ReplyTo(a) = Rep(s, h, c)
<1> SUFFICES ASSUME NEW a, AnswerKind(a) PROVE \E s, h, c : ReplyTo(a) = Rep(s, h, c)
  OBVIOUS
<1>1. \/ \E x : ReplyTo(a) = StockReply(x)
      \/ \E x : ReplyTo(a) = FileReply(x)
      \/ \E x : ReplyTo(a) = ListReply(x)
      \/ \E x : ReplyTo(a) = RedirectReply(x)
      \/ ReplyTo(a) = StreamReply
  BY DEF AnswerKind, ReplyTo
<1>2. CASE \E x : ReplyTo(a) = StockReply(x)
  BY <1>2, Zenon DEF StockReply
<1>3. CASE \E x : ReplyTo(a) = FileReply(x)
  BY <1>3, Zenon DEF FileReply
<1>4. CASE \E x : ReplyTo(a) = ListReply(x)
  BY <1>4, Zenon DEF ListReply
<1>5. CASE \E x : ReplyTo(a) = RedirectReply(x)
  BY <1>5, Zenon DEF RedirectReply
<1>6. CASE ReplyTo(a) = StreamReply
  BY <1>6, Zenon DEF StreamReply
<1>7. QED
  BY <1>1, <1>2, <1>3, <1>4, <1>5, <1>6, Zenon

LEMMA RespondKeeps ==
  ASSUME TableInv, NEW uri \in Uris, NEW method \in Methods, Respond(uri, method)
  PROVE  WireInv'
<1>1. uri \in Text
  BY RequestHandlerAssumption
<1>2. AnswerKind(AnswerTo(uri, method, "7"))
  BY <1>1, AnswerKinds
<1>3. PICK a : a = answer' /\ AnswerKind(a)
  BY <1>2 DEF Respond, HandleRequest
<1>4. PICK r : r = rep' /\ r = ReplyTo(a) /\ wire' = ToBuffers(r)
  BY <1>3 DEF Respond
<1>5. PICK w : /\ w = wire' /\ Typed(w)
               /\ IF a[1] = "stream" THEN SentStream(w) /\ Len(w) = 10 /\ r = StreamReply
                  ELSE SentSized(w) \/ SentLocation(w)
  <2>1. LET w == ToBuffers(ReplyTo(a))
        IN /\ Typed(w)
           /\ IF a[1] = "stream"
              THEN SentStream(w) /\ Len(w) = 10 /\ ReplyTo(a) = StreamReply
              ELSE SentSized(w) \/ SentLocation(w)
    BY <1>3, ReplySent
  <2>2. QED
    BY <1>4, <2>1, Zenon
<1>6. \E s, h, c : r = Rep(s, h, c)
  BY <1>3, <1>4, ReplyIsRep
<1>7. Streaming' <=> a[1] = "stream"
  BY <1>3 DEF Streaming
<1>8. CASE a[1] = "stream"
  <2>1. r.content = <<>> /\ <<>> # Boundary
    BY <1>5, <1>8 DEF StreamReply, Rep, Boundary
  <2>2. Len(w) = 6 * 0 + 10 /\ 0 \in Nat /\ \A j \in 0..(0 - 1) : FALSE
    BY <1>5, <1>8
  <2>3. PartsSent(w, r)
    BY <2>1, <2>2, Zenon DEF PartsSent
  <2>4. QED
    BY <1>4, <1>5, <1>6, <1>7, <1>8, <2>3, Zenon DEF WireInv
<1>9. CASE a[1] # "stream"
  BY <1>4, <1>5, <1>6, <1>7, <1>9, Zenon DEF WireInv
<1>10. QED
  BY <1>8, <1>9

LEMMA BoundaryKeeps ==
  ASSUME WireInv, SendBoundary
  PROVE  WireInv'
<1>1. PICK T : wire \in Seq(T)
  BY DEF WireInv, Typed
<1>2. PICK d : d = Content(Boundary)
  OBVIOUS
<1> DEFINE S == T \cup {d}
<1>3. PICK w \in Seq(S) : w = wire
  BY <1>1
<1>4. d \in S
  OBVIOUS
<1> HIDE DEF S
<1>5. PICK r : r = rep' /\ (\E s : r = Rep(s, <<>>, Boundary))
  BY DEF WireInv, SendBoundary, Rep
<1>6. r.content = Boundary /\ r.headers = <<>>
  BY <1>5 DEF Rep
<1>7. wire' = w \o <<d>>
  BY <1>2, <1>3, <1>5, <1>6 DEF SendBoundary, ContentToBuffers
<1>8. PICK v \in Seq(S) : /\ v = wire' /\ Len(v) = Len(w) + 1 /\ v[Len(w) + 1] = d
                          /\ \A i \in 1..Len(w) : v[i] = w[i]
  <2>1. LET v == w \o <<d>>
        IN /\ v \in Seq(S) /\ Len(v) = Len(w) + 1 /\ v[Len(w) + 1] = d
           /\ \A i \in 1..Len(w) : v[i] = w[i]
    BY <1>4, FollowedAt
  <2>2. QED
    BY <1>7, <2>1, Zenon
<1>9. Streaming /\ Streaming' /\ rep.content # Boundary
  BY DEF SendBoundary, Streaming, vars
<1>10. SentStream(w) /\ PartsSent(w, rep)
  <2>1. answer # <<"none">>
    BY <1>9 DEF Streaming
  <2>2. QED
    BY <1>3, <1>9, <2>1, Zenon DEF WireInv
<1>11. PICK q \in Nat : /\ \A j \in 0..(q - 1) : PartAt(w, j)
                        /\ Len(w) = 6 * q + 10
  BY <1>9, <1>10, Zenon DEF PartsSent
<1>12. \A j \in 0..(q - 1) : PartAt(v, j)
  <2>1. PICK n \in Nat : n = Len(w) /\ n >= 6 * q + 10 /\ \A i \in 1..n : v[i] = w[i]
    BY <1>8, <1>11
  <2>2. QED
    BY <1>11, <2>1, PartKept
<1>13. Len(v) = 6 * q + 11 /\ v[6 * q + 11] = d
  <2>1. (6 * q + 10) + 1 = 6 * q + 11
    OBVIOUS
  <2>2. QED
    BY <1>8, <1>11, <2>1
<1>14. PartsSent(v, r)
  BY <1>2, <1>6, <1>12, <1>13, Zenon DEF PartsSent
<1>15. SentStream(v)
  <2>1. PICK n \in Nat : n = Len(w) /\ Len(v) >= n /\ Len(v) \in Nat
    BY <1>8
  <2>2. \A i \in 1..n : v[i] = w[i]
    BY <1>8, <2>1
  <2>3. QED
    BY <1>10, <2>1, <2>2, StreamKept
<1>16. QED
  BY <1>5, <1>8, <1>9, <1>14, <1>15, Zenon DEF WireInv, Typed

LEMMA PartKeeps ==
  ASSUME WireInv, NEW image, image # Boundary, SendPart(image)
  PROVE  WireInv'
<1>1. PICK T : wire \in Seq(T)
  BY DEF WireInv, Typed
<1>2. PICK h, i, d : /\ h = Header("Content-type", <<"image/jpg">>)
                     /\ i = Header("Content-Length", SizeOf(image))
                     /\ d = Content(image)
  OBVIOUS
<1> DEFINE S == T \cup {h, i, d, Crlf}
<1>3. PICK w \in Seq(S) : w = wire
  BY <1>1
<1>4. h \in S /\ i \in S /\ d \in S /\ Crlf \in S
  OBVIOUS
<1> HIDE DEF S
<1>5. Streaming /\ Streaming' /\ rep.content = Boundary
  BY DEF SendPart, Streaming, vars
<1>6. SentStream(w) /\ PartsSent(w, rep)
  <2>1. answer # <<"none">>
    BY <1>5 DEF Streaming
  <2>2. QED
    BY <1>3, <1>5, <2>1, Zenon DEF WireInv
<1>7. PICK q \in Nat : /\ \A j \in 0..(q - 1) : PartAt(w, j)
                       /\ Len(w) = 6 * q + 11 /\ w[6 * q + 11] = Content(Boundary)
                       /\ rep.headers = <<>>
  BY <1>5, <1>6, Zenon DEF PartsSent
<1>8. PICK hs \in Seq(S) : hs = rep.headers \o <<h, i>> /\ Len(hs) = 2 /\ hs[1] = h /\ hs[2] = i
  <2>1. PICK t \in Seq(S) : t = <<h, i>> /\ Len(t) = 2 /\ t[1] = h /\ t[2] = i
    <3>1. <<h, i>> \in Seq(S)
      BY <1>4
    <3>2. Len(<<h, i>>) = 2 /\ <<h, i>>[1] = h /\ <<h, i>>[2] = i
      OBVIOUS
    <3>3. QED
      BY <3>1, <3>2, Zenon
  <2>2. <<>> \o t = t
    BY ConcatEmptySeq
  <2>3. QED
    BY <1>7, <2>1, <2>2, Zenon
<1>9. HeadersToBuffers(hs) = hs \o <<Crlf>>
  <2>1. h[3] = <<"image/jpg">> /\ i[3] = SizeOf(image)
    BY <1>2 DEF Header
  <2>2. \A j \in 1..Len(hs) : hs[j][3] # Multipart
    <3>1. h[3] # Multipart /\ i[3] # Multipart
      BY <2>1, MultipartValue, Zenon
    <3>2. \A j \in 1..Len(hs) : hs[j] = h \/ hs[j] = i
      <4>1. Len(hs) = 2 /\ hs[1] = h /\ hs[2] = i
        BY <1>8, Zenon
      <4>2. QED
        BY <4>1
    <3>3. QED
      BY <3>1, <3>2, Zenon
  <2>3. QED
    BY <2>2, PlainHeaders
<1>10. PICK r : r = rep' /\ \E s : r = Rep(s, hs, image)
  BY <1>2, <1>8 DEF WireInv, SendPart, Rep
<1>11. r.content = image
  BY <1>10 DEF Rep
<1>12. wire' = ((w \o (hs \o <<Crlf>>)) \o <<d>>) \o <<Crlf>>
  <2>1. wire' = ((wire \o HeadersToBuffers(hs)) \o ContentToBuffers(r)) \o <<Crlf>>
    BY <1>2, <1>8, <1>10 DEF SendPart
  <2>2. ContentToBuffers(r) = <<d>>
    BY <1>2, <1>11 DEF ContentToBuffers
  <2>3. QED
    BY <1>3, <1>9, <2>1, <2>2, Zenon
<1>13. PICK v \in Seq(S) : v = wire' /\ Extends(v, w, h, i, d)
  <2>1. LET v == ((w \o (hs \o <<Crlf>>)) \o <<d>>) \o <<Crlf>>
        IN v \in Seq(S) /\ Extends(v, w, hs[1], hs[2], d)
    BY ONLY w \in Seq(S), hs \in Seq(S), <1>4, <1>8, PartExtends
  <2>2. QED
    BY <1>8, <1>12, <2>1, Zenon
<1>14. PICK n \in Nat : n = 6 * q + 11 /\ n = Len(w) /\ \A k \in 1..n : v[k] = w[k]
  BY <1>7, <1>13 DEF Extends
<1>15. Len(v) = 6 * (q + 1) + 10
  BY <1>13, <1>14 DEF Extends
<1>16. PartAt(v, q)
  <2>1. /\ v[n + 1] = h /\ v[n + 2] = i /\ v[n + 3] = Crlf /\ v[n + 4] = d
        /\ v[n + 5] = Crlf
    BY <1>13, <1>14, Zenon DEF Extends
  <2>2. /\ n + 1 = 6 * q + 12 /\ n + 2 = 6 * q + 13 /\ n + 3 = 6 * q + 14
        /\ n + 4 = 6 * q + 15 /\ n + 5 = 6 * q + 16 /\ n \in 1..n
    BY <1>14
  <2>3. v[n] = w[n]
    BY <1>14, <2>2
  <2>4. QED
    BY <1>2, <1>7, <1>14, <2>1, <2>2, <2>3, Zenon DEF PartAt
<1>17. \A j \in 0..(q - 1) : PartAt(v, j)
  <2>1. n >= 6 * q + 10
    BY <1>14
  <2>2. QED
    BY <1>7, <1>14, <2>1, PartKept
<1>18. \A j \in 0..((q + 1) - 1) : PartAt(v, j)
  <2>1. \A j \in 0..((q + 1) - 1) : j = q \/ j \in 0..(q - 1)
    OBVIOUS
  <2>2. QED
    BY <1>16, <1>17, <2>1, Zenon
<1>19. PartsSent(v, r)
  <2>1. q + 1 \in Nat
    OBVIOUS
  <2>2. QED
    BY <1>11, <1>15, <1>18, <2>1, Zenon DEF PartsSent
<1>20. SentStream(v)
  <2>1. Len(v) >= n /\ Len(v) \in Nat
    BY <1>14, <1>15
  <2>2. QED
    BY <1>6, <1>14, <2>1, StreamKept
<1>21. QED
  BY <1>5, <1>10, <1>13, <1>19, <1>20, Zenon DEF WireInv, Typed

LEMMA WireStep ==
  TableInv /\ WireInv /\ [ResponseNext]_<<vars, responseVars>> => WireInv'
<1> SUFFICES ASSUME TableInv, WireInv, [ResponseNext]_<<vars, responseVars>>
             PROVE  WireInv'
  OBVIOUS
<1>1. CASE UNCHANGED <<answer, rep, wire>>
  BY <1>1, Zenon DEF WireInv, Streaming
<1>2. CASE RegisterOne
  BY <1>1, <1>2 DEF RegisterOne, RegisterStreamer, responseVars
<1>3. ASSUME NEW uri \in Uris, NEW method \in Methods, Respond(uri, method)
      PROVE  WireInv'
  BY <1>3, RespondKeeps
<1>4. CASE SendBoundary
  BY <1>4, BoundaryKeeps
<1>5. ASSUME NEW n \in 1..2, SendPart(<<"jpeg", n>>) PROVE WireInv'
  <2>1. <<"jpeg", n>> # Boundary
    BY DEF Boundary
  <2>2. QED
    BY <1>5, <2>1, PartKeeps
<1>6. CASE UNCHANGED <<vars, responseVars>>
  BY <1>1, <1>6 DEF vars, responseVars
<1>7. QED
  BY <1>2, <1>3, <1>4, <1>5, <1>6 DEF ResponseNext

LEMMA WireAlways == ResponseSpec => []WireInv
<1>1. QED
  BY WireInit, WireStep, ResponseImplementsHandler, TableAlways, PTL DEF ResponseSpec

-----------------------------------------------------------------------------
(* Where the headers of what has been sent end *)

LEMMA EndIs ==
  ASSUME NEW S, wire \in Seq(S), NEW n \in 1..Len(wire), wire[n] = Crlf,
         \A j \in 1..(n - 1) : wire[j] # Crlf
  PROVE  HeaderEnd = n
<1> DEFINE First(i) == wire[i] = Crlf /\ \A j \in 1..(i - 1) : wire[j] # Crlf
<1>1. DOMAIN wire = 1..Len(wire) /\ Len(wire) \in Nat
  OBVIOUS
<1>2. First(n)
  OBVIOUS
<1>3. ASSUME NEW i \in 1..Len(wire), First(i) PROVE i = n
  <2>1. ~(i < n)
    BY <1>3
  <2>2. ~(n < i)
    BY <1>3
  <2>3. QED
    BY <1>1, <2>1, <2>2
<1>4. HeaderEnd = CHOOSE i \in 1..Len(wire) : First(i)
  BY <1>1, Zenon DEF HeaderEnd
<1> HIDE DEF First
<1>5. QED
  BY <1>2, <1>3, <1>4, Zenon


\* A status line, h lines that are not empty, an empty line and l elements more.
Parted(w, h, l) ==
  /\ Len(w) = h + 2 + l /\ w[h + 2] = Crlf
  /\ \A j \in 1..(h + 1) : w[j] # Crlf

HeadersAndBody(w, h, l) ==
  /\ Len(HeaderLines) = h /\ \A i \in 1..h : HeaderLines[i] = w[i + 1]
  /\ Len(Body) = l /\ \A i \in 1..l : Body[i] = w[h + 2 + i]

LEMMA HeadersPartBody ==
  ASSUME NEW S, NEW w \in Seq(S), w = wire, NEW h \in Nat, NEW l \in Nat, Parted(w, h, l)
  PROVE  HeaderLines \in Seq(S) /\ Body \in Seq(S) /\ HeadersAndBody(w, h, l)
<1>0. /\ Len(w) = h + 2 + l /\ w[h + 2] = Crlf
      /\ \A j \in 1..(h + 1) : w[j] # Crlf
  BY DEF Parted
<1>1. PICK n : n \in 1..Len(w) /\ n = h + 2 /\ n - 1 = h + 1
  BY <1>0
<1>2. HeaderEnd = n
  BY <1>0, <1>1, EndIs
<1>3. HeaderLines = SubSeq(w, 2, h + 1) /\ Body = SubSeq(w, h + 3, h + 2 + l)
  <2>1. n + 1 = h + 3 /\ Len(w) = h + 2 + l
    BY <1>0, <1>1
  <2>2. QED
    BY <1>1, <1>2, <2>1, Zenon DEF HeaderLines, Body
<1>4. LET v == SubSeq(w, 2, h + 1)
      IN v \in Seq(S) /\ Len(v) = h /\ \A i \in 1..h : v[i] = w[i + 1]
  BY <1>0
<1>5. LET v == SubSeq(w, h + 3, h + 2 + l)
      IN v \in Seq(S) /\ Len(v) = l /\ \A i \in 1..l : v[i] = w[h + 2 + i]
  BY <1>0
<1>6. QED
  BY <1>3, <1>4, <1>5, Zenon DEF HeadersAndBody

LEMMA HeaderFields ==
  ASSUME NEW name, NEW value
  PROVE  LET h == Header(name, value)
         IN h # Crlf /\ h[1] = "header" /\ h[2] = name /\ h[3] = value
<1>1. Crlf[1] = "crlf" /\ "crlf" # "header"
  BY DEF Crlf
<1>2. LET h == Header(name, value)
      IN h[1] = "header" /\ h[2] = name /\ h[3] = value
  BY DEF Header
<1>3. QED
  BY <1>1, <1>2, Zenon

LEMMA StatusFields ==
  ASSUME NEW n
  PROVE  <<"status", n>> # Crlf /\ <<"status", n>>[1] = "status"
<1>1. Crlf[1] = "crlf" /\ "crlf" # "status"
  BY DEF Crlf
<1>2. <<"status", n>>[1] = "status"
  OBVIOUS
<1>3. QED
  BY <1>1, <1>2, Zenon

LEMMA ContentFields ==
  ASSUME NEW c
  PROVE  LET d == Content(c)
         IN d # Crlf /\ d[1] = "content" /\ d[2] = c
<1>1. Crlf[1] = "crlf" /\ "crlf" # "content"
  BY DEF Crlf
<1>2. LET d == Content(c) IN d[1] = "content" /\ d[2] = c
  BY DEF Content
<1>3. QED
  BY <1>1, <1>2, Zenon

LEMMA OneContent ==
  ASSUME NEW S, NEW b \in Seq(S), Len(b) = 1, NEW c, b[1] = Content(c)
  PROVE  b = <<Content(c)>>
<1>1. Content(c) \in S
  OBVIOUS
<1>2. PICK t \in Seq(S) : t = <<Content(c)>> /\ Len(t) = 1 /\ t[1] = Content(c)
  <2>1. <<Content(c)>> \in Seq(S)
    BY <1>1
  <2>2. Len(<<Content(c)>>) = 1 /\ <<Content(c)>>[1] = Content(c)
    OBVIOUS
  <2>3. QED
    BY <2>1, <2>2, Zenon
<1>3. QED
  BY <1>2, SeqEqual

LEMMA SizedFramed ==
  ASSUME Typed(wire), SentSized(wire)
  PROVE  ResponseFramed
<1>1. PICK S : wire \in Seq(S)
  BY DEF Typed
<1>2. PICK w \in Seq(S) : w = wire
  BY <1>1
<1>3. PICK n, c, t : /\ Len(w) = 5 /\ w[1] = <<"status", n>>
                     /\ w[2] = Header("Content-Length", SizeOf(c))
                     /\ w[3] = Header("Content-Type", t)
                     /\ w[4] = Crlf /\ w[5] = Content(c)
  BY <1>2 DEF SentSized
<1>4. PICK h : /\ h = Header("Content-Length", SizeOf(c)) /\ h # Crlf
               /\ h[1] = "header" /\ h[2] = "Content-Length" /\ h[3] = SizeOf(c)
  <2>1. LET k == Header("Content-Length", SizeOf(c))
        IN k # Crlf /\ k[1] = "header" /\ k[2] = "Content-Length" /\ k[3] = SizeOf(c)
    BY HeaderFields
  <2>2. QED
    BY <2>1, Zenon
<1>5. PICK i : /\ i = Header("Content-Type", t) /\ i # Crlf
               /\ i[1] = "header" /\ i[2] = "Content-Type"
  BY HeaderFields, Zenon
<1>6. w[1] # Crlf /\ w[1][1] = "status"
  BY <1>3, StatusFields, Zenon
<1>7. Parted(w, 2, 1)
  <2>1. \A j \in 1..3 : j = 1 \/ j = 2 \/ j = 3
    OBVIOUS
  <2>2. \A j \in 1..3 : w[j] # Crlf
    BY <1>3, <1>4, <1>5, <1>6, <2>1, Zenon
  <2>3. Len(w) = 5 /\ w[4] = Crlf
    BY <1>3, Zenon
  <2>4. QED
    BY <2>2, <2>3 DEF Parted
<1>8. PICK hs, b \in Seq(S) : hs = HeaderLines /\ b = Body /\ HeadersAndBody(w, 2, 1)
  BY <1>2, <1>7, HeadersPartBody
<1>9. Len(hs) = 2 /\ hs[1] = h /\ hs[2] = i
  <2>1. Len(hs) = 2 /\ hs[1] = w[2] /\ hs[2] = w[3]
    BY <1>8 DEF HeadersAndBody
  <2>2. QED
    BY <1>3, <1>4, <1>5, <2>1, Zenon
<1>10. b = <<Content(c)>> /\ b[1][2] = c
  <2>1. Len(b) = 1 /\ b[1] = w[5]
    BY <1>8 DEF HeadersAndBody
  <2>2. b[1] = Content(c)
    BY <1>3, <2>1, Zenon
  <2>3. QED
    BY <2>1, <2>2, OneContent, ContentFields, Zenon
<1>11. DOMAIN hs = {1, 2} /\ \A x : x \in Range(hs) <=> x = h \/ x = i
  BY <1>9 DEF Range
<1>12. PICK lengths : lengths = {k \in Range(hs) : k[2] = "Content-Length"} /\ lengths = {h}
  <2>1. "Content-Length" # "Content-Type"
    OBVIOUS
  <2>2. QED
    BY <1>4, <1>5, <1>11, <2>1
<1>13. \A k, l \in DOMAIN hs : hs[k][1] = "header" /\ (hs[k][2] = hs[l][2] => k = l)
  <2>1. "Content-Length" # "Content-Type"
    OBVIOUS
  <2>2. QED
    BY <1>4, <1>5, <1>9, <1>11, <2>1
<1>14. QED
  BY <1>2, <1>4, <1>6, <1>8, <1>10, <1>12, <1>13 DEF ResponseFramed

LEMMA LocationFramed ==
  ASSUME Typed(wire), SentLocation(wire)
  PROVE  ResponseFramed
<1>1. PICK S : wire \in Seq(S)
  BY DEF Typed
<1>2. PICK w \in Seq(S) : w = wire
  BY <1>1
<1>3. PICK location : /\ Len(w) = 4 /\ w[1] = <<"status", 302>>
                      /\ w[2] = Header("Location", location)
                      /\ w[3] = Crlf /\ w[4] = Content(<<>>)
  BY <1>2 DEF SentLocation
<1>4. PICK h : /\ h = Header("Location", location) /\ h # Crlf
               /\ h[1] = "header" /\ h[2] = "Location"
  BY HeaderFields, Zenon
<1>5. w[1] # Crlf /\ w[1][1] = "status"
  BY <1>3, StatusFields, Zenon
<1>6. Parted(w, 1, 1)
  <2>1. \A j \in 1..2 : j = 1 \/ j = 2
    OBVIOUS
  <2>2. \A j \in 1..2 : w[j] # Crlf
    BY <1>3, <1>4, <1>5, <2>1, Zenon
  <2>3. Len(w) = 4 /\ w[3] = Crlf
    BY <1>3, Zenon
  <2>4. QED
    BY <2>2, <2>3 DEF Parted
<1>7. PICK hs, b \in Seq(S) : hs = HeaderLines /\ b = Body /\ HeadersAndBody(w, 1, 1)
  BY <1>2, <1>6, HeadersPartBody
<1>8. Len(hs) = 1 /\ hs[1] = h
  <2>1. Len(hs) = 1 /\ hs[1] = w[2]
    BY <1>7 DEF HeadersAndBody
  <2>2. QED
    BY <1>3, <1>4, <2>1, Zenon
<1>9. b = <<Content(<<>>)>>
  <2>1. Len(b) = 1 /\ b[1] = w[4]
    BY <1>7 DEF HeadersAndBody
  <2>2. b[1] = Content(<<>>)
    BY <1>3, <2>1, Zenon
  <2>3. QED
    BY <2>1, <2>2, OneContent, Zenon
<1>10. DOMAIN hs = {1} /\ \A x : x \in Range(hs) <=> x = h
  BY <1>8 DEF Range
<1>11. PICK lengths : lengths = {k \in Range(hs) : k[2] = "Content-Length"} /\ lengths = {}
  <2>1. "Content-Length" # "Location"
    OBVIOUS
  <2>2. QED
    BY <1>4, <1>10, <2>1
<1>12. \A k, l \in DOMAIN hs : hs[k][1] = "header" /\ (hs[k][2] = hs[l][2] => k = l)
  BY <1>4, <1>8, <1>10
<1>13. QED
  BY <1>2, <1>3, <1>5, <1>7, <1>9, <1>11, <1>12 DEF ResponseFramed

\* The lines of a stream before its parts.
LEMMA StreamParted ==
  ASSUME NEW w, SentStream(w), NEW l \in Nat, Len(w) = l + 8
  PROVE  Parted(w, 6, l)
<1>1. \A name, value : Header(name, value) # Crlf
  BY HeaderFields, Zenon
<1>2. \A j \in 1..7 : \/ j = 1 \/ j = 2 \/ j = 3 \/ j = 4 \/ j = 5 \/ j = 6 \/ j = 7
  OBVIOUS
<1>3. w[1] # Crlf
  BY StatusFields, Zenon DEF SentStream
<1>4. /\ w[2] # Crlf /\ w[3] # Crlf /\ w[4] # Crlf /\ w[5] # Crlf /\ w[6] # Crlf
      /\ w[7] # Crlf
  <2>1. w[2] # Crlf
    BY <1>1, Zenon DEF SentStream
  <2>2. w[3] # Crlf
    BY <1>1, Zenon DEF SentStream
  <2>3. w[4] # Crlf
    BY <1>1, Zenon DEF SentStream
  <2>4. w[5] # Crlf
    BY <1>1, Zenon DEF SentStream
  <2>5. w[6] # Crlf
    BY <1>1, Zenon DEF SentStream
  <2>6. w[7] # Crlf
    BY <1>1, Zenon DEF SentStream
  <2>7. QED
    BY <2>1, <2>2, <2>3, <2>4, <2>5, <2>6, Zenon
<1>5. \A j \in 1..7 : w[j] # Crlf
  BY <1>2, <1>3, <1>4, Zenon
<1>6. w[8] = Crlf
  BY Zenon DEF SentStream
<1>7. QED
  BY <1>5, <1>6 DEF Parted

Named(h, name) == h[1] = "header" /\ h[2] = name

LEMMA StreamFramed ==
  ASSUME Typed(wire), SentStream(wire), Streaming
  PROVE  ResponseFramed
<1>1. PICK S : wire \in Seq(S)
  BY DEF Typed
<1>2. PICK w \in Seq(S) : w = wire
  BY <1>1
<1>3. PICK l \in Nat : Len(w) = l + 8
  <2>1. Len(w) >= 10 /\ Len(w) \in Nat
    BY <1>2 DEF SentStream
  <2>2. Len(w) - 8 \in Nat /\ Len(w) = (Len(w) - 8) + 8
    BY <2>1
  <2>3. QED
    BY <2>2, Zenon
<1>4. PICK hs \in Seq(S) : hs = HeaderLines /\ HeadersAndBody(w, 6, l)
  BY <1>2, <1>3, StreamParted, HeadersPartBody
<1>5. /\ Len(hs) = 6 /\ hs[1] = w[2] /\ hs[2] = w[3] /\ hs[3] = w[4] /\ hs[4] = w[5]
      /\ hs[5] = w[6] /\ hs[6] = w[7]
  BY <1>4 DEF HeadersAndBody
<1>6. \A name, value : Named(Header(name, value), name)
  BY HeaderFields, Zenon DEF Named
<1>7. /\ Named(w[2], "Connection") /\ Named(w[3], "Max-Age") /\ Named(w[4], "Expires")
      /\ Named(w[5], "Cache-Control") /\ Named(w[6], "Pragma")
      /\ Named(w[7], "Content-Type")
  <2>1. SentStream(w)
    BY <1>2
  <2>2. QED
    BY <1>6, <2>1, Zenon DEF SentStream
<1>8. /\ Named(hs[1], "Connection") /\ Named(hs[2], "Max-Age") /\ Named(hs[3], "Expires")
      /\ Named(hs[4], "Cache-Control") /\ Named(hs[5], "Pragma")
      /\ Named(hs[6], "Content-Type")
  BY <1>5, <1>7, Zenon
<1>9. DOMAIN hs = 1..6
  BY <1>5
<1>10. \A k \in DOMAIN hs : hs[k][1] = "header" /\ hs[k][2] # "Content-Length"
  BY <1>8, <1>9 DEF Named
<1>11. \A k, m \in DOMAIN hs : hs[k][2] = hs[m][2] => k = m
  BY <1>8, <1>9 DEF Named
<1>12. {k \in Range(hs) : k[2] = "Content-Length"} = {}
  BY <1>10 DEF Range
<1>13. w[1][1] = "status"
  BY <1>2, StatusFields, Zenon DEF SentStream
<1>14. QED
  BY <1>2, <1>4, <1>10, <1>11, <1>12, <1>13 DEF ResponseFramed

\* Every response is framed, whatever is asked for and however many parts are
\* sent: the headers have different names, and a body the length they announce.
THEOREM ResponsesAreFramed == ResponseSpec => []ResponseFramed
<1>1. WireInv => ResponseFramed
  <2>1. wire = <<>> => ResponseFramed
    BY DEF ResponseFramed
  <2>2. QED
    BY <2>1, SizedFramed, LocationFramed, StreamFramed, Zenon DEF WireInv
<1>2. QED
  BY <1>1, WireAlways, PTL

-----------------------------------------------------------------------------
(* The parts, counted by lines *)

\* What PartsFramed says of the line i of the parts.
LineFits(parts, i, place) ==
  CASE place = 0 -> parts[i] = Content(Boundary)
    [] place = 1 -> parts[i] = Header("Content-type", <<"image/jpg">>)
    [] place = 2 -> parts[i] = Header("Content-Length", SizeOf(parts[i + 2][2]))
    [] place = 4 -> parts[i][1] = "content" /\ parts[i][2] # Boundary
    [] OTHER -> parts[i] = Crlf

LEMMA LineFitsMeans ==
  ASSUME NEW p, NEW i
  PROVE  /\ p[i] = Content(Boundary) => LineFits(p, i, 0)
         /\ p[i] = Header("Content-type", <<"image/jpg">>) => LineFits(p, i, 1)
         /\ p[i] = Header("Content-Length", SizeOf(p[i + 2][2])) => LineFits(p, i, 2)
         /\ p[i] = Crlf => LineFits(p, i, 3) /\ LineFits(p, i, 5)
         /\ p[i][1] = "content" /\ p[i][2] # Boundary => LineFits(p, i, 4)
<1>1. p[i] = Content(Boundary) => LineFits(p, i, 0)
  BY DEF LineFits
<1>2. p[i] = Header("Content-type", <<"image/jpg">>) => LineFits(p, i, 1)
  BY DEF LineFits
<1>3. p[i] = Header("Content-Length", SizeOf(p[i + 2][2])) => LineFits(p, i, 2)
  BY DEF LineFits
<1>4. p[i] = Crlf => LineFits(p, i, 3) /\ LineFits(p, i, 5)
  BY DEF LineFits
<1>5. p[i][1] = "content" /\ p[i][2] # Boundary => LineFits(p, i, 4)
  BY DEF LineFits
<1>6. QED
  BY <1>1, <1>2, <1>3, <1>4, <1>5, Zenon

LEMMA PlaceOf ==
  ASSUME NEW i \in Nat \ {0}
  PROVE  \E j \in Nat, r \in 0..5 : i = 6 * j + r + 1 /\ (i - 1) % 6 = r
<1>1. PICK k \in Nat : k = i - 1
  OBVIOUS
<1>2. PICK j \in Nat, r \in 0..5 : r = k % 6 /\ k = 6 * j + r
  <2>1. k \div 6 \in Nat /\ k % 6 \in 0..5 /\ k = 6 * (k \div 6) + (k % 6)
    OBVIOUS
  <2>2. QED
    BY <2>1, Zenon
<1>3. i = 6 * j + r + 1
  BY <1>1, <1>2
<1>4. QED
  BY <1>1, <1>2, <1>3, Zenon

LEMMA LineOfPart ==
  ASSUME NEW w, NEW parts, NEW n \in Nat, \A i \in 1..n : parts[i] = w[10 + i],
         NEW j \in Nat, 6 * j + 6 <= n, PartAt(w, j), NEW r \in 0..5
  PROVE  LineFits(parts, 6 * j + r + 1, r)
<1>1. PICK image :
        /\ image # Boundary
        /\ w[6 * j + 11] = Content(Boundary)
        /\ w[6 * j + 12] = Header("Content-type", <<"image/jpg">>)
        /\ w[6 * j + 13] = Header("Content-Length", SizeOf(image))
        /\ w[6 * j + 14] = Crlf
        /\ w[6 * j + 15] = Content(image)
        /\ w[6 * j + 16] = Crlf
  BY Zenon DEF PartAt
<1>2. /\ parts[6 * j + 1] = w[6 * j + 11] /\ parts[6 * j + 2] = w[6 * j + 12]
      /\ parts[6 * j + 3] = w[6 * j + 13] /\ parts[6 * j + 4] = w[6 * j + 14]
      /\ parts[6 * j + 5] = w[6 * j + 15] /\ parts[6 * j + 6] = w[6 * j + 16]
  OBVIOUS
<1>3. Content(image)[1] = "content" /\ Content(image)[2] = image
  BY ContentFields, Zenon
<1>4. CASE r = 0
  <2>1. 6 * j + r + 1 = 6 * j + 1
    BY <1>4
  <2>2. LineFits(parts, 6 * j + 1, 0)
    BY <1>1, <1>2, LineFitsMeans, Zenon
  <2>3. QED
    BY <1>4, <2>1, <2>2, Zenon
<1>5. CASE r = 1
  <2>1. 6 * j + r + 1 = 6 * j + 2
    BY <1>5
  <2>2. LineFits(parts, 6 * j + 2, 1)
    BY <1>1, <1>2, LineFitsMeans, Zenon
  <2>3. QED
    BY <1>5, <2>1, <2>2, Zenon
<1>6. CASE r = 2
  <2>1. PICK i : i = 6 * j + 3 /\ i = 6 * j + r + 1 /\ i + 2 = 6 * j + 5
    BY <1>6
  <2>2. parts[i] = Header("Content-Length", SizeOf(parts[i + 2][2]))
    BY <1>1, <1>2, <1>3, <2>1, Zenon
  <2>3. QED
    BY <1>6, <2>1, <2>2, LineFitsMeans, Zenon
<1>7. CASE r = 3
  <2>1. 6 * j + r + 1 = 6 * j + 4
    BY <1>7
  <2>2. LineFits(parts, 6 * j + 4, 3)
    BY <1>1, <1>2, LineFitsMeans, Zenon
  <2>3. QED
    BY <1>7, <2>1, <2>2, Zenon
<1>8. CASE r = 4
  <2>1. PICK i : i = 6 * j + 5 /\ i = 6 * j + r + 1
    BY <1>8
  <2>2. parts[i][1] = "content" /\ parts[i][2] # Boundary
    BY <1>1, <1>2, <1>3, <2>1, Zenon
  <2>3. QED
    BY <1>8, <2>1, <2>2, LineFitsMeans, Zenon
<1>9. CASE r = 5
  <2>1. 6 * j + r + 1 = 6 * j + 6
    BY <1>9
  <2>2. LineFits(parts, 6 * j + 6, 5)
    BY <1>1, <1>2, LineFitsMeans, Zenon
  <2>3. QED
    BY <1>9, <2>1, <2>2, Zenon
<1>10. QED
  BY <1>4, <1>5, <1>6, <1>7, <1>8, <1>9

LEMMA PartsFit ==
  ASSUME Typed(wire), SentStream(wire), PartsSent(wire, rep)
  PROVE  PartsFramed
<1>1. PICK S : wire \in Seq(S)
  BY DEF Typed
<1>2. PICK w \in Seq(S) : w = wire /\ SentStream(w) /\ PartsSent(w, rep)
  BY <1>1
<1>3. PICK n \in Nat : Len(w) = n + 10
  <2>1. Len(w) >= 10 /\ Len(w) \in Nat
    BY <1>2 DEF SentStream
  <2>2. Len(w) - 10 \in Nat /\ Len(w) = (Len(w) - 10) + 10
    BY <2>1
  <2>3. QED
    BY <2>2, Zenon
<1>4. PICK b \in Seq(S) : b = Body /\ HeadersAndBody(w, 6, n + 2)
  <2>1. n + 2 \in Nat /\ Len(w) = (n + 2) + 8
    BY <1>3
  <2>2. QED
    BY <1>2, <2>1, StreamParted, HeadersPartBody
<1>5. Len(b) = n + 2 /\ \A i \in 1..(n + 2) : b[i] = w[8 + i]
  BY <1>4 DEF HeadersAndBody
<1>6. SubSeq(b, 1, 2) = <<Crlf, Content(<<>>)>>
  <2>1. PICK c, d \in S : c = Crlf /\ d = Content(<<>>) /\ b[1] = c /\ b[2] = d
    <3>1. b[1] = w[9] /\ b[2] = w[10] /\ b[1] \in S /\ b[2] \in S
      BY <1>5
    <3>2. w[9] = Crlf /\ w[10] = Content(<<>>)
      BY <1>2, Zenon DEF SentStream
    <3>3. QED
      BY <3>1, <3>2, Zenon
  <2>2. PICK u \in Seq(S) : u = SubSeq(b, 1, 2) /\ Len(u) = 2 /\ u[1] = c /\ u[2] = d
    <3>1. LET u == SubSeq(b, 1, 2)
          IN u \in Seq(S) /\ Len(u) = 2 /\ u[1] = b[1] /\ u[2] = b[2]
      BY <1>5
    <3>2. QED
      BY <2>1, <3>1, Zenon
  <2>3. PICK t \in Seq(S) : t = <<c, d>> /\ Len(t) = 2 /\ t[1] = c /\ t[2] = d
    <3>1. <<c, d>> \in Seq(S)
      OBVIOUS
    <3>2. Len(<<c, d>>) = 2 /\ <<c, d>>[1] = c /\ <<c, d>>[2] = d
      OBVIOUS
    <3>3. QED
      BY <3>1, <3>2, Zenon
  <2>4. u = t
    <3>1. /\ Len(u) = 2 /\ u[1] = c /\ u[2] = d
          /\ Len(t) = 2 /\ t[1] = c /\ t[2] = d
      BY <2>2, <2>3, Zenon
    <3>2. Len(u) = Len(t) /\ \A k \in 1..Len(u) : u[k] = t[k]
      BY <3>1
    <3>3. QED
      BY <3>2, SeqEqual
  <2>5. QED
    BY <2>1, <2>2, <2>3, <2>4, Zenon
<1>7. PICK parts \in Seq(S) : /\ parts = SubSeq(b, 3, Len(b)) /\ Len(parts) = n
                              /\ \A i \in 1..n : parts[i] = w[10 + i]
  <2>1. LET p == SubSeq(b, 3, Len(b))
        IN p \in Seq(S) /\ Len(p) = n /\ \A i \in 1..n : p[i] = b[i + 2]
    BY <1>5
  <2>2. \A i \in 1..n : b[i + 2] = w[10 + i]
    BY <1>5
  <2>3. QED
    BY <2>1, <2>2, Zenon
<1>8. PICK q \in Nat : /\ \A j \in 0..(q - 1) : PartAt(w, j)
                       /\ \/ Len(w) = 6 * q + 10
                          \/ Len(w) = 6 * q + 11 /\ w[6 * q + 11] = Content(Boundary)
  BY <1>2, Zenon DEF PartsSent
<1>9. ASSUME NEW i \in 1..n PROVE LineFits(parts, i, (i - 1) % 6)
  <2>1. PICK j \in Nat, r \in 0..5 : i = 6 * j + r + 1 /\ (i - 1) % 6 = r
    <3>1. i \in Nat \ {0}
      OBVIOUS
    <3>2. QED
      BY <3>1, PlaceOf, Zenon
  <2>2. CASE j <= q - 1
    <3>1. 6 * j + 6 <= n
      BY <1>3, <1>8, <2>2
    <3>2. PartAt(w, j)
      BY <1>8, <2>2
    <3>3. LineFits(parts, 6 * j + r + 1, r)
      BY <1>7, <3>1, <3>2, LineOfPart
    <3>4. QED
      BY <2>1, <3>3, Zenon
  <2>3. CASE ~(j <= q - 1)
    <3>1. j = q /\ r = 0 /\ Len(w) = 6 * q + 11
      BY <1>3, <1>8, <2>1, <2>3
    <3>2. w[6 * q + 11] = Content(Boundary) /\ 10 + i = 6 * q + 11
      BY <1>8, <2>1, <3>1
    <3>3. parts[i] = Content(Boundary)
      BY <1>7, <3>2
    <3>4. LineFits(parts, i, 0)
      BY <3>3, LineFitsMeans, Zenon
    <3>5. QED
      BY <2>1, <3>1, <3>4, Zenon
  <2>4. QED
    BY <2>2, <2>3
<1>10. DOMAIN parts = 1..n
  BY <1>7
<1>11. QED
  BY <1>4, <1>6, <1>7, <1>9, <1>10 DEF PartsFramed, LineFits

\* A stream is an empty line and parts, however many are sent: no part keeps
\* headers or content of what was sent before it.
THEOREM PartsAreFramed == ResponseSpec => []PartsFramed
<1>1. WireInv => PartsFramed
  <2>1. ~Streaming => PartsFramed
    BY DEF PartsFramed
  <2>2. answer = <<"none">> => ~Streaming
    BY DEF Streaming
  <2>3. QED
    BY <2>1, <2>2, PartsFit, Zenon DEF WireInv
<1>2. QED
  BY <1>1, WireAlways, PTL

=============================================================================
