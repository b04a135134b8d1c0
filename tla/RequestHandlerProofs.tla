------------------------ MODULE RequestHandlerProofs ------------------------
(***************************************************************************)
(* Proofs about module RequestHandler, for every set of streams, URIs and  *)
(* files.                                                                  *)
(***************************************************************************)
EXTENDS RequestHandler, SequenceLemmas

\* The keys of the table.
ListKey(method) == Key(<<"/", "_all">>, TRUE, method)
RedirectKey(path) == Key(path, FALSE, "GET")
StreamPrefix(path) == <<"/", "_stream">> \o path \o <<"/">>
StreamKey(path) == Key(StreamPrefix(path), TRUE, "GET")

-----------------------------------------------------------------------------
(* The table is what has been registered *)

HistoryInv ==
  /\ count \in Nat
  /\ DOMAIN registered \subseteq StreamPaths

KeysInv ==
  DOMAIN handlers =
    {ListKey(m) : m \in Methods} \cup
    {RedirectKey(p) : p \in DOMAIN registered} \cup
    {StreamKey(p) : p \in DOMAIN registered}

HandlersInv ==
  /\ \A m \in Methods : handlers[ListKey(m)] = <<"list">>
  /\ \A p \in DOMAIN registered :
       /\ handlers[RedirectKey(p)] = <<"redirect">>
       /\ handlers[StreamKey(p)] = <<"stream", registered[p]>>

TableInv == HistoryInv /\ KeysInv /\ HandlersInv

-----------------------------------------------------------------------------

LEMMA StreamPathType ==
  ASSUME NEW p \in StreamPaths
  PROVE  /\ p \in Text /\ p # <<>> /\ p[1] = "/" /\ Len(p) \in Nat /\ Len(p) > 0
         /\ \A i \in 1..Len(p) : p[i] \notin SpecialTokens
BY RequestHandlerAssumption DEF Text

\* The pattern of a stream, token by token.
LEMMA StreamPrefixTokens ==
  ASSUME NEW p \in Text
  PROVE  /\ StreamPrefix(p) \in Text /\ Len(StreamPrefix(p)) = Len(p) + 3
         /\ StreamPrefix(p)[1] = "/" /\ StreamPrefix(p)[2] = "_stream"
         /\ \A i \in 1..Len(p) : StreamPrefix(p)[i + 2] = p[i]
         /\ StreamPrefix(p)[Len(p) + 3] = "/"
<1>1. "/" \in Tokens /\ "_stream" \in Tokens
  BY RequestHandlerAssumption DEF OwnTokens
<1>2. QED
  BY <1>1, WrappedAt DEF Text, StreamPrefix

\* No two streams have the same pattern, and none the list's.
LEMMA StreamKeysDiffer ==
  ASSUME NEW p \in Text, NEW q \in Text, StreamPrefix(p) = StreamPrefix(q)
  PROVE  p = q
<1>1. Len(p) = Len(q) /\ Len(p) \in Nat
  BY StreamPrefixTokens DEF Text
<1>2. \A i \in 1..Len(p) : p[i] = q[i]
  BY <1>1, StreamPrefixTokens
<1>3. QED
  BY <1>1, <1>2, SeqEqual DEF Text

LEMMA KeysDiffer ==
  ASSUME NEW p \in StreamPaths, NEW q \in StreamPaths
  PROVE  /\ \A m \in Methods : ListKey(m) # RedirectKey(p) /\ ListKey(m) # StreamKey(p)
         /\ RedirectKey(p) # StreamKey(q)
         /\ RedirectKey(p) = RedirectKey(q) => p = q
         /\ StreamKey(p) = StreamKey(q) => p = q
<1>1. p \in Text /\ q \in Text
  BY StreamPathType
<1>2. StreamPrefix(p)[2] = "_stream" /\ <<"/", "_all">>[2] = "_all"
  BY <1>1, StreamPrefixTokens
<1>3. <<"/", "_all">> # StreamPrefix(p)
  BY <1>2
<1>4. StreamPrefix(p) = StreamPrefix(q) => p = q
  BY <1>1, StreamKeysDiffer
<1>5. QED
  BY <1>3, <1>4 DEF ListKey, RedirectKey, StreamKey, Key

-----------------------------------------------------------------------------
(* The table and the registrations go together *)

LEMMA TableInit == Init => TableInv
<1> SUFFICES ASSUME Init PROVE TableInv
  OBVIOUS
<1>1. registered = <<>> /\ DOMAIN registered = {} /\ count = 0
  BY DEF Init
<1>2. handlers = [k \in {ListKey(m) : m \in Methods} |-> <<"list">>]
  BY DEF Init, ListKey
<1>3. HistoryInv
  BY <1>1 DEF HistoryInv
<1>4. KeysInv
  BY <1>1, <1>2 DEF KeysInv
<1>5. HandlersInv
  BY <1>1, <1>2 DEF HandlersInv
<1>6. QED
  BY <1>3, <1>4, <1>5 DEF TableInv

\* A registration adds or replaces the two keys of its path and no other.
LEMMA TableRegister ==
  ASSUME TableInv, NEW path \in StreamPaths, RegisterStreamer(path)
  PROVE  TableInv'
<1> DEFINE r == RedirectKey(path)
           s == StreamKey(path)
<1>1. registered' = [p \in DOMAIN registered \cup {path} |->
                       IF p = path THEN count + 1 ELSE registered[p]]
  BY DEF RegisterStreamer, Assign
<1>2. handlers' = [k \in DOMAIN handlers \cup {r, s} |->
                     IF k = s THEN <<"stream", count + 1>>
                     ELSE IF k = r THEN <<"redirect">> ELSE handlers[k]]
  BY DEF RegisterStreamer, Register, RedirectKey, StreamKey, StreamPrefix, Assign
<1>3. r # s
  BY KeysDiffer
<1>4. HistoryInv'
  BY <1>1 DEF RegisterStreamer, TableInv, HistoryInv
<1>5. KeysInv'
  <2>1. DOMAIN registered' = DOMAIN registered \cup {path}
    BY <1>1
  <2>2. DOMAIN handlers' = DOMAIN handlers \cup {r, s}
    BY <1>2
  <2>3. QED
    BY <2>1, <2>2 DEF TableInv, KeysInv
<1>6. HandlersInv'
  <2>1. ASSUME NEW m \in Methods PROVE handlers'[ListKey(m)] = <<"list">>
    <3>1. ListKey(m) # r /\ ListKey(m) # s
      BY KeysDiffer
    <3>2. ListKey(m) \in DOMAIN handlers /\ handlers[ListKey(m)] = <<"list">>
      BY DEF TableInv, KeysInv, HandlersInv
    <3> HIDE DEF r, s
    <3>3. QED
      BY <1>2, <3>1, <3>2
  <2>2. ASSUME NEW p \in DOMAIN registered'
        PROVE  /\ handlers'[RedirectKey(p)] = <<"redirect">>
               /\ handlers'[StreamKey(p)] = <<"stream", registered'[p]>>
    <3>1. CASE p = path
      <4>1. registered'[p] = count + 1
        BY <1>1, <3>1
      <4>2. RedirectKey(p) = r /\ StreamKey(p) = s
        BY <3>1
      <4> HIDE DEF r, s
      <4>3. QED
        BY <1>2, <1>3, <4>1, <4>2
    <3>2. CASE p # path
      <4>1. p \in DOMAIN registered /\ registered'[p] = registered[p]
        BY <1>1, <3>2
      <4>2. p \in StreamPaths
        BY <4>1 DEF TableInv, HistoryInv
      <4>3. RedirectKey(p) \notin {r, s} /\ StreamKey(p) \notin {r, s}
        BY <3>2, <4>2, KeysDiffer
      <4>4. /\ RedirectKey(p) \in DOMAIN handlers /\ StreamKey(p) \in DOMAIN handlers
            /\ handlers[RedirectKey(p)] = <<"redirect">>
            /\ handlers[StreamKey(p)] = <<"stream", registered[p]>>
        BY <4>1 DEF TableInv, KeysInv, HandlersInv
      <4> HIDE DEF r, s
      <4>5. QED
        BY <1>2, <4>1, <4>3, <4>4
    <3>3. QED
      BY <3>1, <3>2
  <2>3. QED
    BY <2>1, <2>2 DEF HandlersInv
<1>7. QED
  BY <1>4, <1>5, <1>6 DEF TableInv

LEMMA TableStep == TableInv /\ [Next]_vars => TableInv'
<1> SUFFICES ASSUME TableInv, [Next]_vars PROVE TableInv'
  OBVIOUS
<1>1. CASE UNCHANGED <<handlers, registered, count>>
  BY <1>1 DEF TableInv, HistoryInv, KeysInv, HandlersInv
<1>2. ASSUME NEW path \in StreamPaths, RegisterStreamer(path)
      PROVE  TableInv'
  BY <1>2, TableRegister
<1>3. QED
  BY <1>1, <1>2 DEF Next, HandleRequest, vars

-----------------------------------------------------------------------------
(* At most one key matches *)

\* The pattern of a stream matches no URL that another stream's matches.
LEMMA StreamsApart ==
  ASSUME NEW p \in StreamPaths, NEW q \in StreamPaths,
         IsPrefix(StreamPrefix(p), StreamPrefix(q))
  PROVE  p = q
<1>1. /\ p \in Seq(Tokens) /\ q \in Seq(Tokens) /\ Len(p) \in Nat /\ Len(q) \in Nat
      /\ StreamPrefix(p) \in Seq(Tokens) /\ StreamPrefix(q) \in Seq(Tokens)
      /\ Len(StreamPrefix(p)) = Len(p) + 3 /\ Len(StreamPrefix(q)) = Len(q) + 3
  BY StreamPathType, StreamPrefixTokens DEF Text
<1>2. /\ Len(p) <= Len(q)
      /\ \A i \in 1..(Len(p) + 3) : StreamPrefix(p)[i] = StreamPrefix(q)[i]
  BY <1>1, PrefixMeans
<1>3. ASSUME NEW i \in 1..Len(p) PROVE p[i] = q[i]
  <2>1. p \in Text /\ q \in Text /\ i \in 1..Len(q) /\ i + 2 \in 1..(Len(p) + 3)
    BY <1>1, <1>2 DEF Text
  <2>2. StreamPrefix(p)[i + 2] = p[i] /\ StreamPrefix(q)[i + 2] = q[i]
    BY <2>1, StreamPrefixTokens
  <2>3. QED
    BY <1>2, <2>1, <2>2
<1>4. CASE Len(p) = Len(q)
  BY <1>1, <1>3, <1>4, SeqEqual
<1>5. CASE Len(p) < Len(q)
  <2>1. Len(p) + 1 \in 1..Len(q) /\ (Len(p) + 1) + 2 = Len(p) + 3
    BY <1>1, <1>5
  <2>2. StreamPrefix(p)[Len(p) + 3] = "/" /\ StreamPrefix(q)[Len(p) + 3] = q[Len(p) + 1]
    <3>1. StreamPrefix(q)[(Len(p) + 1) + 2] = q[Len(p) + 1]
      BY <1>1, <2>1, StreamPrefixTokens DEF Text
    <3>2. StreamPrefix(p)[Len(p) + 3] = "/"
      BY <1>1, StreamPrefixTokens DEF Text
    <3>3. QED
      BY <2>1, <3>1, <3>2
  <2>3. q[Len(p) + 1] = "/"
    BY <1>1, <1>2, <2>2
  <2>4. PICK t \in Seq(Tokens) : /\ t = p \o <<"/">> /\ Len(t) = Len(p) + 1
                                 /\ t[Len(p) + 1] = "/" /\ \A i \in 1..Len(p) : t[i] = p[i]
    <3>1. "/" \in Tokens
      BY RequestHandlerAssumption DEF OwnTokens
    <3>2. LET t == p \o <<"/">>
          IN /\ t \in Seq(Tokens) /\ Len(t) = Len(p) + 1 /\ t[Len(p) + 1] = "/"
             /\ \A i \in 1..Len(p) : t[i] = p[i]
      BY <1>1, <3>1, FollowedAt
    <3>3. QED
      BY <3>2, Zenon
  <2>5. \A i \in 1..Len(t) : t[i] = q[i]
    BY <1>1, <1>3, <2>3, <2>4
  <2>6. IsPrefix(t, q)
    <3>1. Len(t) <= Len(q)
      BY <1>1, <1>5, <2>4
    <3>2. QED
      BY <1>1, <2>5, <3>1, PrefixIntro
  <2>7. QED
    BY <2>4, <2>6, RequestHandlerAssumption
<1>6. QED
  BY <1>1, <1>2, <1>4, <1>5

\* What each key of the table matches.
LEMMA KeyMatches ==
  ASSUME NEW path \in Text, NEW method \in Methods
  PROVE  /\ \A m \in Methods : Matches(ListKey(m), path, method) <=>
              m = method /\ IsPrefix(<<"/", "_all">>, path)
         /\ \A p : Matches(RedirectKey(p), path, method) <=> method = "GET" /\ path = p
         /\ \A p : Matches(StreamKey(p), path, method) <=>
              method = "GET" /\ IsPrefix(StreamPrefix(p), path)
BY DEF Matches, ListKey, RedirectKey, StreamKey, Key

\* The URLs of streams, the list and the redirects are apart.
LEMMA KindsApart ==
  ASSUME NEW path \in Text, NEW p \in StreamPaths, NEW q \in StreamPaths
  PROVE  /\ ~IsPrefix(<<"/", "_all">>, p) /\ ~IsPrefix(StreamPrefix(q), p)
         /\ ~(IsPrefix(<<"/", "_all">>, path) /\ IsPrefix(StreamPrefix(p), path))
<1> DEFINE a == <<"/", "_all">>
           s == <<"/", "_stream">>
<1>1. /\ a \in Seq(Tokens) /\ Len(a) = 2 /\ a[2] = "_all"
      /\ s \in Seq(Tokens) /\ Len(s) = 2 /\ s[1] = "/" /\ s[2] = "_stream"
  BY RequestHandlerAssumption DEF OwnTokens
<1>2. ~IsPrefix(a, p) /\ ~IsPrefix(s, p)
  BY RequestHandlerAssumption
<1> HIDE DEF a, s
<1>3. \A r \in StreamPaths :
        /\ StreamPrefix(r) \in Seq(Tokens) /\ Len(StreamPrefix(r)) \in Nat
        /\ Len(StreamPrefix(r)) >= 3
        /\ StreamPrefix(r)[1] = "/" /\ StreamPrefix(r)[2] = "_stream"
  BY StreamPathType, StreamPrefixTokens DEF Text
<1>4. p \in Seq(Tokens) /\ path \in Seq(Tokens) /\ Len(p) \in Nat
  BY StreamPathType DEF Text
<1>5. ASSUME IsPrefix(StreamPrefix(q), p) PROVE FALSE
  <2>1. Len(p) >= 3 /\ p[1] = "/" /\ p[2] = "_stream"
    <3>1. PICK z \in Seq(Tokens) : /\ z = StreamPrefix(q) /\ Len(z) \in Nat
                                  /\ Len(z) >= 3 /\ z[1] = "/" /\ z[2] = "_stream"
      BY <1>3, Zenon
    <3>2. Len(z) <= Len(p) /\ \A i \in 1..Len(z) : z[i] = p[i]
      BY <1>4, <1>5, <3>1, PrefixMeans
    <3>3. 1 \in 1..Len(z) /\ 2 \in 1..Len(z)
      BY <3>1
    <3>4. p[1] = "/" /\ p[2] = "_stream"
      BY <3>1, <3>2, <3>3, Zenon
    <3>5. QED
      BY <1>4, <3>1, <3>2, <3>4
  <2>2. \A i \in 1..Len(s) : s[i] = p[i]
    BY <1>1, <2>1
  <2>3. IsPrefix(s, p)
    <3>1. Len(s) <= Len(p)
      BY <1>1, <1>4, <2>1
    <3>2. QED
      BY <1>1, <1>4, <2>2, <3>1, PrefixIntro
  <2>4. QED
    BY <1>2, <2>3
<1>6. ASSUME IsPrefix(a, path), IsPrefix(StreamPrefix(p), path) PROVE FALSE
  <2>1. path[2] = "_all"
    BY <1>1, <1>4, <1>6, PrefixMeans
  <2>2. path[2] = "_stream"
    <3>1. PICK u \in Seq(Tokens) : u = StreamPrefix(p) /\ Len(u) >= 3 /\ u[2] = "_stream"
      BY <1>3
    <3>2. \A i \in 1..Len(u) : u[i] = path[i]
      BY <1>4, <1>6, <3>1, PrefixMeans
    <3>3. QED
      BY <3>1, <3>2
  <2>3. QED
    BY <2>1, <2>2
<1>7. QED
  BY <1>2, <1>5, <1>6 DEF a

LEMMA MatchesOnce ==
  ASSUME TableInv, NEW path \in Text, NEW method \in Methods,
         NEW k \in Matching(path, method), NEW l \in Matching(path, method)
  PROVE  k = l
<1>1. Matches(k, path, method) /\ Matches(l, path, method)
  BY DEF Matching
<1>2. DOMAIN registered \subseteq StreamPaths
  BY DEF TableInv, HistoryInv
<1>3. \A j \in {k, l} : \/ \E m \in Methods : j = ListKey(m)
                        \/ \E p \in DOMAIN registered : j = RedirectKey(p)
                        \/ \E p \in DOMAIN registered : j = StreamKey(p)
  BY DEF TableInv, KeysInv, Matching
<1>4. ASSUME NEW m \in Methods, NEW j \in {k, l}, j = ListKey(m)
      PROVE  j = ListKey(method) /\ IsPrefix(<<"/", "_all">>, path)
  BY <1>1, <1>4, KeyMatches
<1>5. ASSUME NEW p \in DOMAIN registered, NEW j \in {k, l}, j = RedirectKey(p)
      PROVE  method = "GET" /\ path = p
  BY <1>1, <1>5, KeyMatches
<1>6. ASSUME NEW p \in DOMAIN registered, NEW j \in {k, l}, j = StreamKey(p)
      PROVE  method = "GET" /\ IsPrefix(StreamPrefix(p), path)
  BY <1>1, <1>6, KeyMatches
<1>7. ASSUME NEW p \in DOMAIN registered, NEW q \in DOMAIN registered,
             NEW i \in {k, l}, NEW j \in {k, l}, i = StreamKey(p), j = StreamKey(q)
      PROVE  p = q
  <2>1. p \in StreamPaths /\ q \in StreamPaths
    BY <1>2
  <2>2. IsPrefix(StreamPrefix(p), path) /\ IsPrefix(StreamPrefix(q), path)
    BY <1>6, <1>7
  <2>3. /\ StreamPrefix(p) \in Seq(Tokens) /\ StreamPrefix(q) \in Seq(Tokens)
        /\ path \in Seq(Tokens)
    BY <2>1, StreamPathType, StreamPrefixTokens DEF Text
  <2>4. \/ IsPrefix(StreamPrefix(p), StreamPrefix(q))
        \/ IsPrefix(StreamPrefix(q), StreamPrefix(p))
    BY <2>2, <2>3, PrefixesNested
  <2>5. QED
    BY <2>1, <2>4, StreamsApart
<1>8. QED
  BY <1>2, <1>3, <1>4, <1>5, <1>6, <1>7, KindsApart

-----------------------------------------------------------------------------
(* The path of a URL *)

LEMMA UrlPathType ==
  ASSUME NEW uri \in Text
  PROVE  UrlPath(uri) \in Text
<1> DEFINE text == [i \in DOMAIN uri |-> Decoded(uri[i])]
           I == {i \in 1..Len(text) : text[i] = "?"}
<1>1. PICK n \in Nat : n = Len(uri) /\ DOMAIN uri = 1..n
  BY DEF Text
<1>2. \A i \in 1..n : Decoded(uri[i]) \in Tokens
  <2>1. \A c \in Tokens : Decoded(c) \in Tokens
    BY RequestHandlerAssumption DEF Decoded, OwnTokens
  <2>2. QED
    BY <1>1, <2>1 DEF Text
<1>3. text \in Seq(Tokens) /\ Len(text) = n
  BY <1>1, <1>2
<1>4. UrlPath(uri) = LET cut == IF I # {} THEN Min(I) ELSE 0
                     IN IF cut = 0 THEN text ELSE SubSeq(text, 1, cut - 1)
  BY DEF UrlPath, SelectInSeq
<1>5. I # {} => Min(I) \in 1..n
  <2>1. I \in SUBSET Nat
    BY <1>3
  <2>2. I # {} => Min(I) \in I
    BY <2>1, MinIsLeast
  <2>3. QED
    BY <1>3, <2>2
<1> HIDE DEF I, text
<1>6. \A m \in 1..n : SubSeq(text, 1, m - 1) \in Seq(Tokens)
  BY <1>3
<1>7. QED
  BY <1>3, <1>4, <1>5, <1>6 DEF Text

\* A path with no special tokens is its own URL.
LEMMA PlainUrl ==
  ASSUME NEW path \in Text, \A i \in 1..Len(path) : path[i] \notin SpecialTokens
  PROVE  UrlPath(path) = path /\ UrlDecodes(path) /\ ~HasDots(path)
<1> DEFINE text == [i \in DOMAIN path |-> Decoded(path[i])]
           I == {i \in 1..Len(text) : text[i] = "?"}
<1>1. PICK n \in Nat : n = Len(path) /\ DOMAIN path = 1..n
  BY DEF Text
<1>2. \A i \in 1..n : Decoded(path[i]) = path[i] /\ path[i] # "?"
  BY <1>1 DEF Decoded, SpecialTokens
<1>3. text = path
  <2>1. text = [i \in 1..n |-> path[i]]
    BY <1>1, <1>2
  <2>2. QED
    BY <1>1, <2>1 DEF Text
<1>4. I = {}
  BY <1>1, <1>2, <1>3
<1>5. UrlPath(path) = path
  <2>1. UrlPath(path) = LET cut == IF I # {} THEN Min(I) ELSE 0
                        IN IF cut = 0 THEN text ELSE SubSeq(text, 1, cut - 1)
    BY DEF UrlPath, SelectInSeq
  <2> HIDE DEF I, text
  <2>2. QED
    BY <1>3, <1>4, <2>1
<1>6. UrlDecodes(path) /\ ~HasDots(path)
  BY <1>1 DEF UrlDecodes, Contains, HasDots, SpecialTokens
<1>7. QED
  BY <1>5, <1>6

-----------------------------------------------------------------------------
(* The answer *)

\* The key that matches is the one that is called.
LEMMA MatchIsFirst ==
  ASSUME TableInv, NEW path \in Text, NEW method \in Methods,
         NEW k \in Matching(path, method)
  PROVE  FirstMatch(path, method) = k
<1> DEFINE found == Matching(path, method)
<1>1. found = {k}
  BY MatchesOnce
<1>2. FirstMatch(path, method) =
        IF Key(path, FALSE, method) \in found THEN Key(path, FALSE, method)
        ELSE CHOOSE j \in found : \A l \in found \ {j} : Less(j, l)
  BY Zenon DEF FirstMatch
<1> HIDE DEF found
<1>3. CASE Key(path, FALSE, method) \in found
  BY <1>1, <1>2, <1>3
<1>4. CASE Key(path, FALSE, method) \notin found
  <2>1. \A l \in {k} \ {k} : Less(k, l)
    OBVIOUS
  <2>2. (CHOOSE j \in found : \A l \in found \ {j} : Less(j, l)) = k
    BY <1>1, <2>1
  <2>3. QED
    BY <1>2, <1>4, <2>2
<1>5. QED
  BY <1>3, <1>4

\* What a match answers, whatever kind its key is of.
LEMMA MatchedAnswer ==
  ASSUME TableInv, NEW uri \in Text, NEW method \in Methods, NEW rand, ~Refused(uri),
         NEW k \in Matching(UrlPath(uri), method)
  PROVE  AnswerTo(uri, method, rand) =
           IF handlers[k] = <<"redirect">>
           THEN <<"redirect", RedirectLocation(UrlPath(uri), rand)>>
           ELSE IF handlers[k] = <<"list">> THEN <<"list", ListAllStreams(UrlPath(uri))>>
           ELSE handlers[k]
<1>1. FirstMatch(UrlPath(uri), method) = k
  BY UrlPathType, MatchIsFirst
<1>2. Matching(UrlPath(uri), method) # {}
  OBVIOUS
<1>3. handlers[k] = <<"redirect">> => handlers[k] # <<"list">>
  OBVIOUS
<1>4. QED
  BY <1>1, <1>2, <1>3 DEF AnswerTo

-----------------------------------------------------------------------------
(* Files *)

LEMMA HandlerKinds ==
  ASSUME TableInv, NEW k \in DOMAIN handlers
  PROVE  \/ handlers[k] = <<"list">> \/ handlers[k] = <<"redirect">>
         \/ \E n : handlers[k] = <<"stream", n>>
BY DEF TableInv, KeysInv, HandlersInv

\* The name of a file has no dots that its path has not.
LEMMA FilePathBelow ==
  ASSUME NEW path \in Text, IsAbsolute(path), ~HasDots(path)
  PROVE  IsAbsolute(FilePath(path)) /\ ~HasDots(FilePath(path))
<1>1. PICK t : t = Append(path, "index.html")
  OBVIOUS
<1>2. CASE FilePath(path) = path
  BY <1>2
<1>3. CASE FilePath(path) = t
  <2>1. /\ Len(path) \in Nat /\ Len(path) > 0 /\ t # <<>> /\ Len(t) = Len(path) + 1
        /\ t[Len(path) + 1] = "index.html" /\ \A i \in 1..Len(path) : t[i] = path[i]
    BY <1>1 DEF Text, IsAbsolute
  <2>2. IsAbsolute(t)
    BY <2>1 DEF IsAbsolute
  <2>3. ASSUME NEW i \in 1..(Len(t) - 1), t[i] = ".", t[i + 1] = "."
        PROVE  FALSE
    <3>1. CASE i = Len(path)
      BY <2>1, <2>3, <3>1
    <3>2. CASE i # Len(path)
      <4>1. i \in 1..(Len(path) - 1) /\ i + 1 \in 1..Len(path) /\ i \in 1..Len(path)
        BY <2>1, <3>2
      <4>2. path[i] = "." /\ path[i + 1] = "."
        BY <2>1, <2>3, <4>1
      <4>3. QED
        BY <4>1, <4>2 DEF HasDots
    <3>3. QED
      BY <3>1, <3>2
  <2>4. QED
    BY <1>3, <2>2, <2>3 DEF HasDots
<1>4. QED
  BY <1>1, <1>2, <1>3 DEF FilePath

LEMMA AnswersBelow ==
  ASSUME TableInv, NEW uri \in Text, NEW method \in Methods, NEW rand,
         AnswerTo(uri, method, rand)[1] = "file"
  PROVE  LET name == AnswerTo(uri, method, rand)[2]
         IN IsAbsolute(name) /\ ~HasDots(name)
<1> DEFINE a == AnswerTo(uri, method, rand)
<1>1. ~Refused(uri)
  <2>1. Refused(uri) => a = <<"bad_request">>
    BY DEF AnswerTo
  <2>2. QED
    BY <2>1
<1>2. Matching(UrlPath(uri), method) = {}
  <2>1. ASSUME NEW k \in Matching(UrlPath(uri), method)
        PROVE  FALSE
    <3>1. k \in DOMAIN handlers
      BY DEF Matching
    <3>2. \/ a = <<"redirect", RedirectLocation(UrlPath(uri), rand)>>
          \/ a = <<"list", ListAllStreams(UrlPath(uri))>>
          \/ \E n : a = <<"stream", n>>
      BY <1>1, <3>1, MatchedAnswer, HandlerKinds
    <3> HIDE DEF a
    <3>3. a[1] # "file"
      BY <3>2
    <3>4. QED
      BY <3>3 DEF a
  <2>2. QED
    BY <2>1
<1>3. a = IF FilePath(UrlPath(uri)) \in Files THEN <<"file", FilePath(UrlPath(uri))>>
          ELSE <<"not_found">>
  BY <1>1, <1>2 DEF AnswerTo
<1>4. a[2] = FilePath(UrlPath(uri))
  <2> HIDE DEF a
  <2>1. a[1] = "file"
    BY DEF a
  <2>2. QED
    BY <1>3, <2>1
<1>5. QED
  BY <1>1, <1>4, UrlPathType, FilePathBelow DEF Refused

LEMMA FilesStep == TableInv /\ FilesBelowRoot /\ [Next]_vars => FilesBelowRoot'
<1> SUFFICES ASSUME TableInv, FilesBelowRoot, [Next]_vars PROVE FilesBelowRoot'
  OBVIOUS
<1>1. CASE answer' = answer
  BY <1>1 DEF FilesBelowRoot
<1>2. ASSUME NEW uri \in Uris, NEW method \in Methods, HandleRequest(uri, method)
      PROVE  FilesBelowRoot'
  <2>1. uri \in Text
    BY RequestHandlerAssumption
  <2>2. answer' = AnswerTo(uri, method, "7")
    BY <1>2 DEF HandleRequest
  <2>3. QED
    BY <2>1, <2>2, AnswersBelow DEF FilesBelowRoot
<1>3. QED
  BY <1>1, <1>2 DEF Next, RegisterStreamer, vars

-----------------------------------------------------------------------------
(* Redirects *)

\* A location is a plain URL that continues the pattern of its stream.
LEMMA LocationTokens ==
  ASSUME NEW path \in StreamPaths
  PROVE  LET location == RedirectLocation(path, "7")
         IN /\ location \in Text /\ IsAbsolute(location)
            /\ \A i \in 1..Len(location) : location[i] \notin SpecialTokens
            /\ IsPrefix(StreamPrefix(path), location)
<1>1. "/" \in Tokens /\ "_stream" \in Tokens /\ "7" \in Tokens
  BY RequestHandlerAssumption DEF OwnTokens
<1>2. PICK t : t = <<"/", "_stream">> \o path
  OBVIOUS
<1>3. t \in Seq(Tokens)
  <2>1. <<"/", "_stream">> \in Seq(Tokens) /\ path \in Seq(Tokens)
    BY <1>1, StreamPathType DEF Text
  <2>2. QED
    BY <1>2, <2>1, ConcatProperties
<1>4. RedirectLocation(path, "7") = StreamPrefix(path) \o <<"7">>
  <2>1. t \o <<"/", "7">> = (t \o <<"/">>) \o <<"7">>
    BY <1>1, <1>3, FollowedTwice
  <2>2. QED
    BY <1>2, <2>1, Zenon DEF RedirectLocation, StreamPrefix
<1>5. PICK n \in Nat : n = Len(path)
  BY StreamPathType
<1>6. PICK u \in Seq(Tokens) :
        /\ u = StreamPrefix(path) /\ Len(u) = n + 3
        /\ u[1] = "/" /\ u[2] = "_stream" /\ u[n + 3] = "/"
        /\ \A i \in 1..n : u[i + 2] = path[i]
  BY <1>5, StreamPathType, StreamPrefixTokens DEF Text
<1>7. PICK w \in Seq(Tokens) : /\ w = u \o <<"7">> /\ Len(w) = n + 4 /\ w[n + 4] = "7"
                               /\ \A i \in 1..(n + 3) : w[i] = u[i]
  <2>1. LET w == u \o <<"7">>
        IN /\ w \in Seq(Tokens) /\ Len(w) = Len(u) + 1 /\ w[Len(u) + 1] = "7"
           /\ \A i \in 1..Len(u) : w[i] = u[i]
    BY <1>1, FollowedAt
  <2>2. Len(u) + 1 = n + 4
    BY <1>5, <1>6
  <2>3. QED
    BY <1>6, <2>1, <2>2, Zenon
<1>8. ASSUME NEW i \in 1..(n + 4) PROVE w[i] \notin SpecialTokens
  <2>1. CASE i \in 3..(n + 2)
    <3>1. i - 2 \in 1..n /\ i \in 1..(n + 3) /\ (i - 2) + 2 = i
      BY <2>1
    <3>2. w[i] = path[i - 2]
      BY <1>6, <1>7, <3>1
    <3>3. QED
      BY <1>5, <3>1, <3>2, StreamPathType
  <2>2. CASE i \in {1, 2, n + 3, n + 4}
    <3>1. w[i] \in {"/", "_stream", "7"}
      BY <1>6, <1>7, <2>2
    <3>2. QED
      BY <3>1 DEF SpecialTokens
  <2>3. QED
    BY <2>1, <2>2
<1>9. IsPrefix(u, w)
  <2>1. Len(u) <= Len(w) /\ \A i \in 1..Len(u) : u[i] = w[i]
    BY <1>6, <1>7
  <2>2. QED
    BY <2>1, PrefixIntro
<1>10. IsAbsolute(w)
  BY <1>6, <1>7 DEF IsAbsolute
<1>11. w = RedirectLocation(path, "7")
  BY <1>4, <1>6, <1>7
<1>12. QED
  BY <1>6, <1>7, <1>8, <1>9, <1>10, <1>11 DEF Text

LEMMA RedirectsReach == TableInv => RedirectReachesStream
<1> SUFFICES ASSUME TableInv, NEW path \in DOMAIN registered
             PROVE  LET first == AnswerTo(path, "GET", "7")
                    IN /\ first[1] = "redirect"
                       /\ AnswerTo(first[2], "GET", "7") = <<"stream", registered[path]>>
  BY DEF RedirectReachesStream
<1>1. path \in StreamPaths /\ path \in Text /\ "GET" \in Methods
  BY StreamPathType DEF TableInv, HistoryInv, Methods
<1>2. /\ RedirectKey(path) \in DOMAIN handlers /\ StreamKey(path) \in DOMAIN handlers
      /\ handlers[RedirectKey(path)] = <<"redirect">>
      /\ handlers[StreamKey(path)] = <<"stream", registered[path]>>
  BY DEF TableInv, KeysInv, HandlersInv
<1>3. UrlPath(path) = path /\ ~Refused(path)
  BY <1>1, StreamPathType, PlainUrl DEF Refused, IsAbsolute
<1>4. RedirectKey(path) \in Matching(UrlPath(path), "GET")
  BY <1>1, <1>2, <1>3, KeyMatches DEF Matching
<1>5. AnswerTo(path, "GET", "7") = <<"redirect", RedirectLocation(path, "7")>>
  BY <1>1, <1>2, <1>3, <1>4, MatchedAnswer
<1>6. PICK location : location = RedirectLocation(path, "7")
  OBVIOUS
<1>7. /\ location \in Text /\ IsAbsolute(location)
      /\ \A i \in 1..Len(location) : location[i] \notin SpecialTokens
      /\ IsPrefix(StreamPrefix(path), location)
  BY <1>1, <1>6, LocationTokens
<1>8. UrlPath(location) = location /\ ~Refused(location)
  BY <1>7, PlainUrl DEF Refused
<1>9. StreamKey(path) \in Matching(UrlPath(location), "GET")
  BY <1>1, <1>2, <1>7, <1>8, KeyMatches DEF Matching
<1>10. AnswerTo(location, "GET", "7") = <<"stream", registered[path]>>
  BY <1>1, <1>2, <1>7, <1>8, <1>9, MatchedAnswer
<1>11. QED
  BY <1>5, <1>6, <1>10

-----------------------------------------------------------------------------
(* The list *)

\* The text of a stream's pattern, token by token.
LEMMA PatternTokens ==
  ASSUME NEW p \in Text
  PROVE  LET t == PathText(StreamKey(p))
         IN /\ t \in Text /\ Len(t) = Len(p) + 4 /\ t[1] = "/" /\ t[2] = "_stream"
            /\ \A i \in 1..Len(p) : t[i + 2] = p[i]
            /\ t[Len(p) + 3] = "/" /\ t[Len(p) + 4] = "*"
<1>1. PICK n \in Nat : n = Len(p)
  BY DEF Text
<1>2. PICK u \in Seq(Tokens) :
        /\ u = StreamPrefix(p) /\ Len(u) = n + 3
        /\ u[1] = "/" /\ u[2] = "_stream" /\ u[n + 3] = "/"
        /\ \A i \in 1..n : u[i + 2] = p[i]
  BY <1>1, StreamPrefixTokens DEF Text
<1>3. PathText(StreamKey(p)) = u \o <<"*">>
  BY <1>2 DEF PathText, StreamKey, Key
<1>4. PICK w \in Seq(Tokens) : /\ w = u \o <<"*">> /\ Len(w) = n + 4 /\ w[n + 4] = "*"
                               /\ \A i \in 1..(n + 3) : w[i] = u[i]
  <2>1. LET w == u \o <<"*">>
        IN /\ w \in Seq(Tokens) /\ Len(w) = Len(u) + 1 /\ w[Len(u) + 1] = "*"
           /\ \A i \in 1..Len(u) : w[i] = u[i]
    <3>1. "*" \in Tokens
      BY RequestHandlerAssumption DEF OwnTokens
    <3>2. QED
      BY <3>1, FollowedAt
  <2>2. Len(u) + 1 = n + 4
    BY <1>2
  <2>3. QED
    BY <1>2, <2>1, <2>2, Zenon
<1>5. w[1] = "/" /\ w[2] = "_stream" /\ w[n + 3] = "/"
  BY <1>2, <1>4
<1>6. ASSUME NEW i \in 1..n PROVE w[i + 2] = p[i]
  <2>1. i + 2 \in 1..(n + 3)
    OBVIOUS
  <2>2. QED
    BY <1>2, <1>4, <2>1
<1>7. QED
  BY <1>1, <1>3, <1>4, <1>5, <1>6 DEF Text

\* What is listed of a stream's pattern is its path.
LEMMA PatternNamesPath ==
  ASSUME NEW p \in StreamPaths
  PROVE  ReplaceFirstSubSeq(<<>>, <<"/", "*">>,
           ReplaceFirstSubSeq(<<"/">>, <<"/", "_stream", "/">>, PathText(StreamKey(p)))) = p
<1>1. PICK n \in Nat : n = Len(p) /\ n > 0
  BY StreamPathType
<1>2. p \in Text /\ p[1] = "/" /\ \A i \in 1..n : p[i] # "*"
  BY <1>1, StreamPathType DEF SpecialTokens
<1>3. PICK t \in Seq(Tokens) :
        /\ t = PathText(StreamKey(p)) /\ Len(t) = n + 4 /\ t[1] = "/" /\ t[2] = "_stream"
        /\ \A i \in 1..n : t[i + 2] = p[i]
        /\ t[n + 3] = "/" /\ t[n + 4] = "*"
  BY <1>1, <1>2, PatternTokens DEF Text
<1>4. "/" \in Tokens /\ "*" \in Tokens /\ "_stream" \in Tokens
  BY RequestHandlerAssumption DEF OwnTokens
<1>5. PICK r \in Seq(Tokens) : r = <<"/">> /\ Len(r) = 1 /\ r[1] = "/"
  <2>1. <<"/">> \in Seq(Tokens)
    BY <1>4
  <2>2. QED
    BY <2>1
<1>6. PICK s \in Seq(Tokens) : /\ s = <<"/", "_stream", "/">> /\ Len(s) = 3
                               /\ s[1] = "/" /\ s[2] = "_stream" /\ s[3] = "/"
  <2>1. <<"/", "_stream", "/">> \in Seq(Tokens)
    BY <1>4
  <2>2. QED
    BY <2>1
<1>7. t[3] = "/"
  <2>1. 1 \in 1..n /\ 1 + 2 = 3
    BY <1>1
  <2>2. QED
    BY <1>2, <1>3, <2>1
<1>8. IsPrefix(s, t)
  <2>1. Len(s) <= Len(t) /\ \A i \in 1..Len(s) : s[i] = t[i]
    BY <1>3, <1>6, <1>7
  <2>2. QED
    BY <2>1, PrefixIntro
<1>9. PICK v \in Seq(Tokens) : /\ v = After(t, 3) /\ Len(v) = n + 1
                               /\ \A i \in 1..(n + 1) : v[i] = t[3 + i]
  <2>1. 3 \in 0..Len(t) /\ Len(t) - 3 = n + 1
    BY <1>3
  <2>2. /\ After(t, 3) \in Seq(Tokens) /\ Len(After(t, 3)) = Len(t) - 3
        /\ \A i \in 1..(Len(t) - 3) : After(t, 3)[i] = t[3 + i]
    BY <2>1, AfterAt
  <2>3. QED
    BY <2>1, <2>2, Zenon
<1>10. PICK w \in Seq(Tokens) : /\ w = ReplaceFirstSubSeq(r, s, t) /\ Len(w) = n + 2
                                /\ w[1] = "/" /\ \A i \in 1..(n + 1) : w[1 + i] = t[3 + i]
  <2>1. ReplaceFirstSubSeq(r, s, t) = r \o After(t, Len(s))
    <3>1. s # <<>>
      BY <1>6
    <3>2. QED
      BY <1>8, <3>1, ReplaceStart
  <2>2. PICK w \in Seq(Tokens) : w = r \o v
    BY ConcatProperties
  <2>3. Len(w) = n + 2 /\ w[1] = "/" /\ \A i \in 1..(n + 1) : w[1 + i] = v[i]
    BY <1>5, <1>9, <2>2
  <2>4. QED
    BY <1>6, <1>9, <2>1, <2>2, <2>3
<1>11. ASSUME NEW i \in 1..n PROVE w[i] = p[i]
  <2>1. CASE i = 1
    BY <1>2, <1>10, <2>1
  <2>2. CASE i # 1
    <3>1. i - 1 \in 1..(n + 1) /\ 1 + (i - 1) = i /\ 3 + (i - 1) = i + 2
      BY <2>2
    <3>2. w[i] = t[i + 2]
      BY <1>10, <3>1
    <3>3. QED
      BY <1>3, <3>2
  <2>3. QED
    BY <2>1, <2>2
<1>12. w[n + 1] = "/" /\ w[n + 2] = "*"
  <2>1. /\ n \in 1..(n + 1) /\ 1 + n = n + 1 /\ 3 + n = n + 3
        /\ n + 1 \in 1..(n + 1) /\ 1 + (n + 1) = n + 2 /\ 3 + (n + 1) = n + 4
    BY <1>1
  <2>2. QED
    BY <1>3, <1>10, <2>1
<1>13. ReplaceFirstSubSeq(<<>>, <<"/", "*">>, w) = p
  <2>1. /\ p \in Seq(Tokens) /\ \A i \in 1..Len(p) : p[i] # "*"
        /\ Len(w) = Len(p) + 2 /\ \A i \in 1..Len(p) : w[i] = p[i]
        /\ w[Len(p) + 1] = "/" /\ w[Len(p) + 2] = "*"
    BY <1>1, <1>2, <1>10, <1>11, <1>12 DEF Text
  <2>2. PICK e \in Seq(Tokens) : e = <<>>
    <3>1. <<>> \in Seq(Tokens)
      OBVIOUS
    <3>2. QED
      BY <3>1, Zenon
  <2>3. PICK o \in Seq(Tokens) : o = <<"/", "*">> /\ Len(o) = 2 /\ o[1] = "/" /\ o[2] = "*"
    <3>1. <<"/", "*">> \in Seq(Tokens)
      BY <1>4
    <3>2. QED
      BY <3>1
  <2>4. ReplaceFirstSubSeq(e, o, w) = p
    <3>1. Len(e) = 0
      BY <2>2
    <3>2. EndsOnce(p, o, w)
      BY <2>1, <2>3 DEF EndsOnce
    <3>3. p \in Seq(Tokens)
      BY <2>1
    <3>4. QED
      BY <3>1, <3>2, <3>3, RemoveEnd
  <2>5. QED
    BY <2>2, <2>3, <2>4, Zenon
<1>14. QED
  BY <1>3, <1>5, <1>6, <1>10, <1>13

\* The paths the list is asked for.
Listed(path) == path \in StreamPaths \cup {<<>>}

ListMatch(path) == <<"/", "_stream">> \o path

\* get_request_handlers names a key.
Names(match, k) ==
  /\ Len(match) <= Len(PathText(k))
  /\ \A i \in DOMAIN match : match[i] \in {PathText(k)[i], "."}

LEMMA ListedType ==
  ASSUME NEW path, Listed(path)
  PROVE  /\ path \in Seq(Tokens) /\ Len(path) \in Nat
         /\ \A i \in 1..Len(path) : path[i] \notin SpecialTokens
<1>1. CASE path \in StreamPaths
  BY <1>1, StreamPathType DEF Text
<1>2. CASE path = <<>>
  BY <1>2
<1>3. QED
  BY <1>1, <1>2 DEF Listed

\* No token of the match is a dot: a key is named exactly if it begins so.
LEMMA MatchTokens ==
  ASSUME NEW path, Listed(path)
  PROVE  LET match == ListMatch(path)
         IN /\ match \in Seq(Tokens) /\ Len(match) = Len(path) + 2
            /\ match[1] = "/" /\ match[2] = "_stream"
            /\ \A i \in 1..Len(path) : match[i + 2] = path[i]
            /\ \A i \in 1..Len(match) : match[i] # "."
<1>1. PICK n \in Nat : n = Len(path)
  BY ListedType
<1>2. PICK s \in Seq(Tokens) : s = <<"/", "_stream">> /\ Len(s) = 2 /\ s[1] = "/" /\ s[2] = "_stream"
  <2>1. <<"/", "_stream">> \in Seq(Tokens)
    BY RequestHandlerAssumption DEF OwnTokens
  <2>2. QED
    BY <2>1
<1>3. path \in Seq(Tokens) /\ \A i \in 1..n : path[i] # "."
  BY <1>1, ListedType DEF SpecialTokens
<1>4. PICK m \in Seq(Tokens) : m = s \o path
  BY <1>3, ConcatProperties
<1>5. /\ Len(m) = n + 2 /\ m[1] = "/" /\ m[2] = "_stream"
      /\ \A i \in 1..n : m[i + 2] = path[i]
  BY <1>1, <1>2, <1>3, <1>4
<1>6. ASSUME NEW i \in 1..(n + 2) PROVE m[i] # "."
  <2>1. CASE i \in {1, 2}
    BY <1>5, <2>1
  <2>2. CASE i \notin {1, 2}
    <3>1. i - 2 \in 1..n /\ (i - 2) + 2 = i
      BY <2>2
    <3>2. m[i] = path[i - 2]
      BY <1>5, <3>1
    <3>3. QED
      BY <1>3, <3>1, <3>2
  <2>3. QED
    BY <2>1, <2>2
<1>7. m = ListMatch(path)
  BY <1>2, <1>4 DEF ListMatch
<1>8. QED
  BY <1>1, <1>5, <1>6, <1>7

\* The list and the redirects are not listed.
LEMMA OthersNotNamed ==
  ASSUME NEW path, Listed(path)
  PROVE  /\ ~Names(ListMatch(path), ListKey("GET"))
         /\ \A p \in StreamPaths : ~Names(ListMatch(path), RedirectKey(p))
<1>1. PICK m \in Seq(Tokens) :
        /\ m = ListMatch(path) /\ Len(m) = Len(path) + 2 /\ m[1] = "/" /\ m[2] = "_stream"
  BY MatchTokens
<1>2. Len(path) \in Nat /\ 1 \in DOMAIN m /\ 2 \in DOMAIN m /\ Len(m) >= 2
  BY <1>1, ListedType
<1>3. ASSUME Names(m, ListKey("GET")) PROVE FALSE
  <2>1. PathText(ListKey("GET")) = <<"/", "_all">> \o <<"*">>
    BY DEF PathText, ListKey, Key
  <2>2. (<<"/", "_all">> \o <<"*">>)[2] = "_all"
    <3>1. <<"/", "_all">> \in Seq(Tokens) /\ "*" \in Tokens
      BY RequestHandlerAssumption DEF OwnTokens
    <3>2. PICK a \in Seq(Tokens) : a = <<"/", "_all">> /\ Len(a) = 2 /\ a[2] = "_all"
      BY <3>1
    <3>3. \A i \in 1..Len(a) : (a \o <<"*">>)[i] = a[i]
      BY <3>1, FollowedAt
    <3>4. QED
      BY <3>2, <3>3
  <2>3. m[2] \in {"_all", "."}
    BY <1>2, <1>3, <2>1, <2>2 DEF Names
  <2>4. QED
    BY <1>1, <2>3
<1>4. ASSUME NEW p \in StreamPaths, Names(m, RedirectKey(p)) PROVE FALSE
  <2>1. p \in Seq(Tokens) /\ Len(p) \in Nat /\ p[1] = "/"
    BY StreamPathType DEF Text
  <2>2. PathText(RedirectKey(p)) = p
    <3>1. p \o <<>> = p
      BY <2>1, ConcatEmptySeq
    <3>2. QED
      BY <3>1 DEF PathText, RedirectKey, Key
  <2>3. Len(m) <= Len(p) /\ m[2] \in {p[2], "."}
    BY <1>2, <1>4, <2>2 DEF Names
  <2>4. PICK s \in Seq(Tokens) : s = <<"/", "_stream">> /\ Len(s) = 2 /\ s[1] = "/" /\ s[2] = "_stream"
    <3>1. <<"/", "_stream">> \in Seq(Tokens)
      BY RequestHandlerAssumption DEF OwnTokens
    <3>2. QED
      BY <3>1
  <2>5. Len(s) <= Len(p) /\ \A i \in 1..Len(s) : s[i] = p[i]
    BY <1>1, <1>2, <2>1, <2>3, <2>4
  <2>6. IsPrefix(s, p)
    BY <2>1, <2>5, PrefixIntro
  <2>7. QED
    BY <2>4, <2>6, RequestHandlerAssumption
<1>5. QED
  BY <1>1, <1>3, <1>4

\* A stream is listed exactly if its path continues the one that is asked for.
LEMMA StreamNamed ==
  ASSUME NEW path, Listed(path), NEW p \in StreamPaths
  PROVE  Names(ListMatch(path), StreamKey(p)) <=> IsPrefix(path, p)
<1>1. PICK k \in Nat, n \in Nat : k = Len(path) /\ n = Len(p)
  BY ListedType, StreamPathType
<1>2. /\ path \in Seq(Tokens) /\ p \in Seq(Tokens) /\ p \in Text
      /\ \A i \in 1..k : path[i] \notin SpecialTokens
  BY <1>1, ListedType, StreamPathType DEF Text
<1>3. PICK m \in Seq(Tokens) :
        /\ m = ListMatch(path) /\ Len(m) = k + 2 /\ m[1] = "/" /\ m[2] = "_stream"
        /\ \A i \in 1..k : m[i + 2] = path[i]
        /\ \A i \in 1..(k + 2) : m[i] # "."
  BY <1>1, MatchTokens
<1>4. PICK t \in Seq(Tokens) :
        /\ t = PathText(StreamKey(p)) /\ Len(t) = n + 4 /\ t[1] = "/" /\ t[2] = "_stream"
        /\ \A i \in 1..n : t[i + 2] = p[i]
        /\ t[n + 3] = "/" /\ t[n + 4] = "*"
  BY <1>1, <1>2, PatternTokens DEF Text
<1>5. Names(m, StreamKey(p)) <=> k + 2 <= n + 4 /\ \A i \in 1..(k + 2) : m[i] = t[i]
  <2>1. DOMAIN m = 1..(k + 2)
    BY <1>3
  <2>2. \A i \in 1..(k + 2) : m[i] \in {t[i], "."} <=> m[i] = t[i]
    BY <1>3, Zenon
  <2>3. Names(m, StreamKey(p)) <=>
          k + 2 <= n + 4 /\ \A i \in 1..(k + 2) : m[i] \in {t[i], "."}
    BY <1>3, <1>4, <2>1, Zenon DEF Names
  <2>4. QED
    BY <2>2, <2>3, Zenon
<1>6. ASSUME IsPrefix(path, p)
      PROVE  Names(m, StreamKey(p))
  <2>1. k <= n /\ \A i \in 1..k : path[i] = p[i]
    BY <1>1, <1>2, <1>6, PrefixMeans
  <2>2. ASSUME NEW i \in 1..(k + 2) PROVE m[i] = t[i]
    <3>1. CASE i \in {1, 2}
      BY <1>3, <1>4, <3>1
    <3>2. CASE i \notin {1, 2}
      <4>1. i - 2 \in 1..k /\ i - 2 \in 1..n /\ (i - 2) + 2 = i
        BY <2>1, <3>2
      <4>2. m[i] = path[i - 2] /\ t[i] = p[i - 2]
        BY <1>3, <1>4, <4>1
      <4>3. QED
        BY <2>1, <4>1, <4>2
    <3>3. QED
      BY <3>1, <3>2
  <2>3. QED
    BY <1>5, <2>1, <2>2
<1>7. ASSUME Names(m, StreamKey(p))
      PROVE  IsPrefix(path, p)
  <2>1. k <= n + 2 /\ \A i \in 1..(k + 2) : m[i] = t[i]
    BY <1>5, <1>7
  <2>2. ASSUME NEW i \in 1..k PROVE path[i] = t[i + 2]
    <3>1. i + 2 \in 1..(k + 2)
      OBVIOUS
    <3>2. QED
      BY <1>3, <2>1, <3>1
  <2>3. ASSUME NEW i \in 1..k, i <= n PROVE path[i] = p[i]
    BY <1>4, <2>2, <2>3
  <2>4. CASE k <= n
    <3>1. Len(path) <= Len(p) /\ \A i \in 1..Len(path) : path[i] = p[i]
      BY <1>1, <2>3, <2>4
    <3>2. QED
      BY <1>2, <3>1, PrefixIntro
  <2>5. CASE k = n + 1
    <3>1. path[n + 1] = "/"
      <4>1. n + 1 \in 1..k /\ (n + 1) + 2 = n + 3
        BY <2>5
      <4>2. path[n + 1] = t[(n + 1) + 2]
        BY <2>2, <4>1
      <4>3. QED
        BY <1>4, <4>1, <4>2
    <3>2. PICK u \in Seq(Tokens) : /\ u = p \o <<"/">> /\ Len(u) = n + 1 /\ u[n + 1] = "/"
                                   /\ \A i \in 1..n : u[i] = p[i]
      <4>1. LET u == p \o <<"/">>
            IN /\ u \in Seq(Tokens) /\ Len(u) = Len(p) + 1 /\ u[Len(p) + 1] = "/"
               /\ \A i \in 1..Len(p) : u[i] = p[i]
        <5>1. "/" \in Tokens
          BY RequestHandlerAssumption DEF OwnTokens
        <5>2. QED
          BY <1>2, <5>1, FollowedAt
      <4>2. QED
        BY <1>1, <4>1, Zenon
    <3>3. Len(u) <= Len(path) /\ \A i \in 1..Len(u) : u[i] = path[i]
      BY <1>1, <2>3, <2>5, <3>1, <3>2
    <3>4. IsPrefix(u, path)
      BY <1>2, <3>3, PrefixIntro
    <3>5. path \in StreamPaths
      <4>1. Len(path) # 0
        BY <1>1, <2>5
      <4>2. Len(<<>>) = 0
        OBVIOUS
      <4>3. path # <<>>
        BY <4>1, <4>2, Zenon
      <4>4. QED
        BY <4>3 DEF Listed
    <3>6. QED
      BY <3>2, <3>4, <3>5, RequestHandlerAssumption
  <2>6. CASE k = n + 2
    <3>1. n + 2 \in 1..k /\ (n + 2) + 2 = n + 4
      BY <2>6
    <3>2. path[n + 2] = t[(n + 2) + 2]
      BY <2>2, <3>1
    <3>3. path[n + 2] = "*"
      BY <1>4, <3>1, <3>2
    <3>4. QED
      BY <1>2, <3>1, <3>3 DEF SpecialTokens
  <2>7. QED
    BY <2>1, <2>4, <2>5, <2>6
<1>8. QED
  BY <1>3, <1>6, <1>7

\* The URL that asks for the list below a path.
ListUri(path) == <<"/", "_all">> \o path

LEMMA ListUriTokens ==
  ASSUME NEW path, Listed(path)
  PROVE  LET uri == ListUri(path)
         IN /\ uri \in Text /\ IsAbsolute(uri) /\ IsPrefix(<<"/", "_all">>, uri)
            /\ \A i \in 1..Len(uri) : uri[i] \notin SpecialTokens
            /\ ReplaceFirstSubSeq(<<>>, <<"/", "_all">>, uri) = path
<1>1. PICK n \in Nat : n = Len(path)
  BY ListedType
<1>2. PICK s \in Seq(Tokens) : s = <<"/", "_all">> /\ Len(s) = 2 /\ s[1] = "/" /\ s[2] = "_all"
  <2>1. <<"/", "_all">> \in Seq(Tokens)
    BY RequestHandlerAssumption DEF OwnTokens
  <2>2. QED
    BY <2>1
<1>3. path \in Seq(Tokens) /\ \A i \in 1..n : path[i] \notin SpecialTokens
  BY <1>1, ListedType
<1>4. PICK u \in Seq(Tokens) : u = s \o path
  BY <1>3, ConcatProperties
<1>5. /\ Len(u) = n + 2 /\ u[1] = "/" /\ u[2] = "_all"
      /\ \A i \in 1..n : u[2 + i] = path[i]
  BY <1>1, <1>2, <1>3, <1>4
<1>6. ASSUME NEW i \in 1..(n + 2) PROVE u[i] \notin SpecialTokens
  <2>1. CASE i \in {1, 2}
    BY <1>5, <2>1 DEF SpecialTokens
  <2>2. CASE i \notin {1, 2}
    <3>1. i - 2 \in 1..n /\ 2 + (i - 2) = i
      BY <2>2
    <3>2. u[i] = path[i - 2]
      BY <1>5, <3>1
    <3>3. QED
      BY <1>3, <3>1, <3>2
  <2>3. QED
    BY <2>1, <2>2
<1>7. IsPrefix(s, u)
  BY <1>3, <1>4, PrefixOfItself
<1>8. ReplaceFirstSubSeq(<<>>, s, u) = path
  <2>1. PICK e \in Seq(Tokens) : e = <<>>
    <3>1. <<>> \in Seq(Tokens)
      OBVIOUS
    <3>2. QED
      BY <3>1, Zenon
  <2>2. ReplaceFirstSubSeq(e, s, u) = e \o After(u, Len(s))
    <3>1. s # <<>>
      BY <1>2
    <3>2. QED
      BY <1>7, <3>1, ReplaceStart
  <2>3. PICK v \in Seq(Tokens) : /\ v = After(u, 2) /\ Len(v) = n
                                 /\ \A i \in 1..n : v[i] = u[2 + i]
    <3>1. 2 \in 0..Len(u) /\ Len(u) - 2 = n
      BY <1>5
    <3>2. /\ After(u, 2) \in Seq(Tokens) /\ Len(After(u, 2)) = Len(u) - 2
          /\ \A i \in 1..(Len(u) - 2) : After(u, 2)[i] = u[2 + i]
      BY <3>1, AfterAt
    <3>3. QED
      BY <3>1, <3>2, Zenon
  <2>4. v = path
    BY <1>1, <1>3, <1>5, <2>3, SeqEqual
  <2>5. <<>> \o v = v
    BY ConcatEmptySeq
  <2>6. QED
    BY <1>2, <2>1, <2>2, <2>3, <2>4, <2>5, Zenon
<1>9. IsAbsolute(u)
  BY <1>5 DEF IsAbsolute
<1>10. u = ListUri(path)
  BY <1>2, <1>4 DEF ListUri
<1>11. QED
  BY <1>2, <1>5, <1>6, <1>7, <1>8, <1>9, <1>10 DEF Text

LEMMA ListsRegistered == TableInv => ListIsRegistered
<1> SUFFICES ASSUME TableInv, NEW path \in StreamPaths \cup {<<>>}
             PROVE  AnswerTo(ListUri(path), "GET", "7") =
                      <<"list", {p \in DOMAIN registered : IsPrefix(path, p)}>>
  BY DEF ListIsRegistered, ListUri
<1> DEFINE below == {p \in DOMAIN registered : IsPrefix(path, p)}
           Strip(t) == ReplaceFirstSubSeq(<<>>, <<"/", "*">>,
                         ReplaceFirstSubSeq(<<"/">>, <<"/", "_stream", "/">>, t))
<1>1. Listed(path) /\ DOMAIN registered \subseteq StreamPaths
  BY DEF Listed, TableInv, HistoryInv
<1>2. {k \in DOMAIN handlers : k.method = "GET" /\ Names(ListMatch(path), k)} =
        {StreamKey(p) : p \in below}
  <2>1. ASSUME NEW k \in DOMAIN handlers, k.method = "GET", Names(ListMatch(path), k)
        PROVE  \E p \in below : k = StreamKey(p)
    <3>1. \/ \E m \in Methods : k = ListKey(m)
          \/ \E p \in DOMAIN registered : k = RedirectKey(p)
          \/ \E p \in DOMAIN registered : k = StreamKey(p)
      BY DEF TableInv, KeysInv
    <3>2. ASSUME NEW m \in Methods, k = ListKey(m) PROVE FALSE
      <4>1. m = "GET"
        BY <2>1, <3>2 DEF ListKey, Key
      <4>2. QED
        BY <1>1, <2>1, <3>2, <4>1, OthersNotNamed
    <3>3. ASSUME NEW p \in DOMAIN registered, k = RedirectKey(p) PROVE FALSE
      BY <1>1, <2>1, <3>3, OthersNotNamed
    <3>4. ASSUME NEW p \in DOMAIN registered, k = StreamKey(p) PROVE p \in below
      BY <1>1, <2>1, <3>4, StreamNamed
    <3>5. QED
      BY <3>1, <3>2, <3>3, <3>4
  <2>2. ASSUME NEW p \in below
        PROVE  /\ StreamKey(p) \in DOMAIN handlers /\ StreamKey(p).method = "GET"
               /\ Names(ListMatch(path), StreamKey(p))
    <3>1. StreamKey(p) \in DOMAIN handlers
      BY DEF TableInv, KeysInv
    <3>2. StreamKey(p).method = "GET"
      BY DEF StreamKey, Key
    <3>3. Names(ListMatch(path), StreamKey(p))
      BY <1>1, StreamNamed
    <3>4. QED
      BY <3>1, <3>2, <3>3
  <2> HIDE DEF below
  <2>3. QED
    BY <2>1, <2>2
<1>3. GetRequestHandlers("GET", ListMatch(path)) = {PathText(StreamKey(p)) : p \in below}
  <2>1. GetRequestHandlers("GET", ListMatch(path)) =
          {PathText(k) : k \in
            {j \in DOMAIN handlers : j.method = "GET" /\ Names(ListMatch(path), j)}}
    BY DEF GetRequestHandlers, Names
  <2> HIDE DEF below
  <2>2. QED
    BY <1>2, <2>1
<1>4. ListAllStreams(ListUri(path)) = {Strip(PathText(StreamKey(p))) : p \in below}
  <2>1. ListAllStreams(ListUri(path)) =
          {Strip(t) : t \in GetRequestHandlers("GET", ListMatch(path))}
    <3>1. ReplaceFirstSubSeq(<<>>, <<"/", "_all">>, ListUri(path)) = path
      BY <1>1, ListUriTokens
    <3>2. QED
      BY <3>1, Zenon DEF ListAllStreams, ListMatch
  <2> HIDE DEF below, Strip
  <2>2. QED
    BY <1>3, <2>1
<1>5. \A p \in below : Strip(PathText(StreamKey(p))) = p
  BY <1>1, PatternNamesPath
<1>6. ListAllStreams(ListUri(path)) = below
  <2> HIDE DEF below, Strip
  <2>1. QED
    BY <1>4, <1>5
<1>7. PICK uri \in Text :
        /\ uri = ListUri(path) /\ IsAbsolute(uri) /\ IsPrefix(<<"/", "_all">>, uri)
        /\ \A i \in 1..Len(uri) : uri[i] \notin SpecialTokens
  BY <1>1, ListUriTokens
<1>8. UrlPath(uri) = uri /\ ~Refused(uri)
  BY <1>7, PlainUrl DEF Refused
<1>9. ListKey("GET") \in Matching(UrlPath(uri), "GET") /\ handlers[ListKey("GET")] = <<"list">>
  <2>1. "GET" \in Methods
    BY DEF Methods
  <2>2. ListKey("GET") \in DOMAIN handlers /\ handlers[ListKey("GET")] = <<"list">>
    BY <2>1 DEF TableInv, KeysInv, HandlersInv
  <2>3. Matches(ListKey("GET"), uri, "GET")
    BY <1>7, <2>1, KeyMatches
  <2>4. QED
    BY <1>8, <2>2, <2>3 DEF Matching
<1>10. AnswerTo(uri, "GET", "7") = <<"list", ListAllStreams(UrlPath(uri))>>
  BY <1>8, <1>9, MatchedAnswer DEF Methods
<1>11. QED
  <2> HIDE DEF below
  <2>1. AnswerTo(ListUri(path), "GET", "7") = <<"list", below>>
    BY <1>6, <1>7, <1>8, <1>10
  <2>2. QED
    BY <2>1 DEF below

-----------------------------------------------------------------------------
(* Theorems *)

LEMMA TableAlways == Spec => []TableInv
<1>1. QED
  BY TableInit, TableStep, PTL DEF Spec

\* The name of every file that is read is absolute and has no "..", for every
\* URL, whatever its escapes decode to and whatever is registered.
THEOREM FilesAreBelowRoot == Spec => []FilesBelowRoot
<1>1. Init => FilesBelowRoot
  BY DEF Init, FilesBelowRoot
<1>2. QED
  BY <1>1, FilesStep, TableAlways, PTL DEF Spec

\* However many streams are registered, in whatever order, at most one key of
\* the table matches a request.
THEOREM PatternsAreApart == Spec => []OnePatternMatches
<1>1. TableInv => OnePatternMatches
  <2>1. ASSUME TableInv, NEW uri \in Uris, NEW method \in Methods,
               NEW k \in Matching(UrlPath(uri), method),
               NEW l \in Matching(UrlPath(uri), method)
        PROVE  k = l
    BY <2>1, RequestHandlerAssumption, UrlPathType, MatchesOnce
  <2>2. QED
    BY <2>1 DEF OnePatternMatches
<1>2. QED
  BY <1>1, TableAlways, PTL

\* A browser that follows the redirect of a registered path gets the streamer
\* registered last with it, however many streams there are.
THEOREM RedirectsReachStreams == Spec => []RedirectReachesStream
<1>1. QED
  BY RedirectsReach, TableAlways, PTL

\* The list of all streams names each registered path once and nothing else,
\* and the list below a path the streams whose path continues it.
THEOREM ListNamesStreams == Spec => []ListIsRegistered
<1>1. QED
  BY ListsRegistered, TableAlways, PTL

=============================================================================
