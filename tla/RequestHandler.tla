--------------------------- MODULE RequestHandler ---------------------------
(***************************************************************************)
(* The table of request handlers and the choice of the answer to a         *)
(* request: src/mjpeg/request_handler.cpp, with the redirect, the list and *)
(* the registration of streams of src/mjpeg/mjpeg_server.cpp.              *)
(*                                                                         *)
(* Text is a sequence of tokens.  A token is a character, a name that has  *)
(* a meaning ("_all", "_stream"), or an escape: "%2F", "%2E" and "%3F"     *)
(* decode to "/", "." and "?", "%1g" has one hexadecimal digit only and    *)
(* "%" stands for an escape that is cut off or has none.                   *)
(***************************************************************************)
EXTENDS Integers, SequencesExt

CONSTANTS
  Tokens,            \* the tokens texts are made of
  StreamPaths,       \* the paths streams are registered with
  Uris,              \* the URIs clients ask for
  Files,             \* the files below the document root
  MaxRegistrations   \* bound: calls of register_streamer

Methods == {"GET", "POST"}

Text == Seq(Tokens)

\* The tokens the server puts into texts.
OwnTokens == {"/", ".", "?", "\\1", "SP", "*", "_all", "_stream", "index.html", "7"}

\* The tokens that mean something in a URL or in a regular expression.
SpecialTokens == {"?", "*", ".", "+", "%", "%2F", "%2E", "%3F", "%1g"}

\* The paths of streams are plain absolute paths, as "/stream_0" is, outside
\* the URLs the server itself answers.  None continues another's with a
\* slash: the pattern of the shorter one would match the URLs of the longer
\* one, and comes first.
ASSUME RequestHandlerAssumption ==
  /\ OwnTokens \subseteq Tokens
  /\ StreamPaths \cup Uris \cup Files \subseteq Text
  /\ \A p \in StreamPaths :
       /\ p # <<>> /\ p[1] = "/"
       /\ \A i \in DOMAIN p : p[i] \notin SpecialTokens
       /\ ~IsPrefix(<<"/", "_all">>, p) /\ ~IsPrefix(<<"/", "_stream">>, p)
  /\ \A p, q \in StreamPaths : ~IsPrefix(p \o <<"/">>, q)

VARIABLES
  handlers,    \* handlers_, a function from keys to what is called
  registered,  \* history: the streamer last registered with each path
  count,       \* history: calls of register_streamer
  answer       \* what the last request was answered with

vars == <<handlers, registered, count, answer>>

-----------------------------------------------------------------------------
(* Keys.  A path that is registered as a pattern ends in the token "*",    *)
(* which stands for the regular expression of any text.                    *)

Key(path, open, method) == [path |-> path, open |-> open, method |-> method]

PathText(k) == k.path \o (IF k.open THEN <<"*">> ELSE <<>>)

KeyText(k) == PathText(k) \o <<";", k.method>>

\* The order of the characters the tokens begin with.
Rank(c) == SelectInSeq(<<"\\1", "*", ".", "/", ";", "?", "GET", "POST",
                         "_all", "_stream", "x", "y">>, LAMBDA d : d = c)

Less(k, l) ==
  LET s == KeyText(k)  t == KeyText(l)
  IN \E i \in DOMAIN t :
       /\ \A j \in 1..(i - 1) : j \in DOMAIN s /\ s[j] = t[j]
       /\ i \in DOMAIN s => Rank(s[i]) < Rank(t[i])

\* A map after m[x] = y.
Assign(m, x, y) == [z \in DOMAIN m \cup {x} |-> IF z = x THEN y ELSE m[z]]

\* Mutant: a key that is there keeps its handler (map::insert).
RegisterKept(hs, path, open, method, handler) ==
  IF Key(path, open, method) \in DOMAIN hs THEN hs
  ELSE Assign(hs, Key(path, open, method), handler)

\* register_request_handler
Register(hs, path, open, method, handler) ==
  Assign(hs, Key(path, open, method), handler)

\* boost::regex_match of a path and method with a key.
Matches(k, path, method) ==
  /\ k.method = method
  /\ IF k.open THEN IsPrefix(k.path, path) ELSE path = k.path

-----------------------------------------------------------------------------
(* handle_request *)

Decoded(c) == CASE c = "%2F" -> "/" [] c = "%2E" -> "." [] c = "%3F" -> "?"
                [] c = "%1g" -> "\\1" [] c = "+" -> "SP" [] OTHER -> c

\* url_decode fails, or decodes every escape, and only then is the path cut
\* off before the first "?".
UrlDecodes(uri) == ~Contains(uri, "%")

UrlPath(uri) ==
  LET text == [i \in DOMAIN uri |-> Decoded(uri[i])]
      cut == SelectInSeq(text, LAMBDA c : c = "?")
  IN IF cut = 0 THEN text ELSE SubSeq(text, 1, cut - 1)

IsAbsolute(path) == path # <<>> /\ path[1] = "/"
HasDots(path) == \E i \in 1..(Len(path) - 1) : path[i] = "." /\ path[i + 1] = "."

\* Mutant: the dots are looked for before they are decoded.
RefusedUndecoded(uri) ==
  ~UrlDecodes(uri) \/ ~IsAbsolute(UrlPath(uri)) \/ HasDots(uri)

Refused(uri) ==
  ~UrlDecodes(uri) \/ ~IsAbsolute(UrlPath(uri)) \/ HasDots(UrlPath(uri))

\* The key that is the request, or else the first pattern that matches it.
Matching(path, method) == {k \in DOMAIN handlers : Matches(k, path, method)}

FirstMatch(path, method) ==
  LET found == Matching(path, method)
      direct == Key(path, FALSE, method)
  IN IF direct \in found THEN direct
     ELSE CHOOSE k \in found : \A l \in found \ {k} : Less(k, l)

FilePath(path) == IF Last(path) = "/" THEN Append(path, "index.html") ELSE path

\* handle_redirect: rand makes the browser think that the URL is unique.
RedirectLocation(path, rand) == <<"/", "_stream">> \o path \o <<"/", rand>>

\* Mutant: the patterns are listed whatever the URL.
ListAllPatterns(path) ==
  {ReplaceFirstSubSeq(<<"/">>, <<"/", "_stream", "/">>, Front(k.path)) :
     k \in {l \in DOMAIN handlers : l.open /\ l.method = "GET"}}

\* get_request_handlers: the paths of the keys with a method that a regular
\* expression matches, here a text, in which a dot stands for any character,
\* and any text after it.
GetRequestHandlers(method, match) ==
  {PathText(k) : k \in
    {l \in DOMAIN handlers :
       /\ l.method = method /\ Len(match) <= Len(PathText(l))
       /\ \A i \in DOMAIN match : match[i] \in {PathText(l)[i], "."}}}

\* list_all_streams: the paths of the streams that begin with what follows
\* "/_all" in the URL.  The code makes a regular expression of that part; of what
\* has a meaning in one a URI has only the dot here, and the exception a
\* malformed expression throws, line 151, is left out.
ListAllStreams(path) ==
  LET rpath == ReplaceFirstSubSeq(<<>>, <<"/", "_all">>, path)
  IN {ReplaceFirstSubSeq(<<>>, <<"/", "*">>,
        ReplaceFirstSubSeq(<<"/">>, <<"/", "_stream", "/">>, text)) :
      text \in GetRequestHandlers("GET", <<"/", "_stream">> \o rpath)}

AnswerTo(uri, method, rand) ==
  LET path == UrlPath(uri)
      handler == handlers[FirstMatch(path, method)]
  IN CASE Refused(uri) -> <<"bad_request">>
       [] ~Refused(uri) /\ Matching(path, method) # {} ->
            CASE handler = <<"redirect">> -> <<"redirect", RedirectLocation(path, rand)>>
              [] handler = <<"list">> -> <<"list", ListAllStreams(path)>>
              [] OTHER -> handler
       [] OTHER -> IF FilePath(path) \in Files THEN <<"file", FilePath(path)>>
                   ELSE <<"not_found">>

-----------------------------------------------------------------------------

\* init_streaming_server
Init ==
  /\ handlers = [k \in {Key(<<"/", "_all">>, TRUE, m) : m \in Methods} |-> <<"list">>]
  /\ registered = <<>>
  /\ count = 0
  /\ answer = <<"none">>

\* Mutant: the pattern lacks the slash after the path.
RegisterStreamerOpen(path) ==
  LET stmr == count + 1
      redirects == Register(handlers, path, FALSE, "GET", <<"redirect">>)
  IN /\ count < MaxRegistrations /\ answer = <<"none">>
     /\ count' = stmr
     /\ handlers' = Register(redirects, <<"/", "_stream">> \o path, TRUE,
                             "GET", <<"stream", stmr>>)
     /\ registered' = Assign(registered, path, stmr)
     /\ UNCHANGED answer

\* register_streamer, called before the server is started.
RegisterStreamer(path) ==
  LET stmr == count + 1
      redirects == Register(handlers, path, FALSE, "GET", <<"redirect">>)
  IN /\ count < MaxRegistrations /\ answer = <<"none">>
     /\ count' = stmr
     /\ handlers' = Register(redirects, <<"/", "_stream">> \o path \o <<"/">>, TRUE,
                             "GET", <<"stream", stmr>>)
     /\ registered' = Assign(registered, path, stmr)
     /\ UNCHANGED answer

HandleRequest(uri, method) ==
  /\ answer' = AnswerTo(uri, method, "7")
  /\ UNCHANGED <<handlers, registered, count>>

Next ==
  \/ \E path \in StreamPaths : RegisterStreamer(path)
  \/ \E uri \in Uris, method \in Methods : HandleRequest(uri, method)

Spec == Init /\ [][Next]_vars

-----------------------------------------------------------------------------
(* Properties *)

\* A browser that asks for the path of a stream and follows the redirect gets
\* the streamer that was registered last with the path, whatever other
\* streams there are and whatever was registered before.
RedirectReachesStream ==
  \A path \in DOMAIN registered :
    LET first == AnswerTo(path, "GET", "7")
    IN /\ first[1] = "redirect"
       /\ AnswerTo(first[2], "GET", "7") = <<"stream", registered[path]>>

\* The list of all streams names each registered path and nothing else, and
\* the list below a path the streams whose path continues it.
ListIsRegistered ==
  \A path \in StreamPaths \cup {<<>>} :
    AnswerTo(<<"/", "_all">> \o path, "GET", "7") =
      <<"list", {p \in DOMAIN registered : IsPrefix(path, p)}>>

\* "Request path must be absolute and not contain '..'"
\* (request_handler.cpp:51): so is the name of every file that is read.
FilesBelowRoot ==
  answer[1] = "file" => IsAbsolute(answer[2]) /\ ~HasDots(answer[2])

\* A stream is reached by the URLs below its own path only: at most one
\* pattern matches a request, so the order of the keys decides nothing.
OnePatternMatches ==
  \A uri \in Uris, method \in Methods :
    ~Refused(uri) => \A k, l \in Matching(UrlPath(uri), method) : k = l

=============================================================================
