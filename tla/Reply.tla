------------------------------- MODULE Reply -------------------------------
(***************************************************************************)
(* Replies and what is sent of them: src/mjpeg/reply.cpp with the MIME     *)
(* types of src/mjpeg/mime_types.cpp and the replies that the handlers of  *)
(* requests fill in.                                                       *)
(*                                                                         *)
(* What is sent is a sequence of lines and contents: <<"status", n>>,      *)
(* <<"header", name, value>>, <<"crlf">> for a line that is empty, and     *)
(* <<"content", c>>.  Values and contents are tuples, and SizeOf(c) is the *)
(* decimal length of c.                                                    *)
(***************************************************************************)
EXTENDS Integers, SequencesExt

Header(name, value) == <<"header", name, value>>
Crlf == <<"crlf">>
Content(c) == <<"content", c>>
SizeOf(c) == <<"size", c>>

StatusTypes == {200, 201, 202, 204, 300, 301, 302, 304,
                400, 401, 403, 404, 500, 501, 502, 503}

\* status_strings::to_buffer
StatusLine(status) ==
  <<"status", IF status \in StatusTypes THEN status ELSE 500>>

\* stock_replies::to_string: the page of "OK" is empty.
StockContent(status) ==
  IF status = 200 THEN <<>>
  ELSE <<"html", IF status \in StatusTypes THEN status ELSE 500>>

\* The boundary a stream announces ends in a line break.
Boundary == <<"--BOUNDARYSTRING\r\n">>
Multipart == <<"multipart/x-mixed-replace">> \o Boundary

\* headers_to_buffers: the lines of the headers, then an empty one.  A value
\* that ends in a line break is followed by an empty line at once.
HeadersToBuffers(headers) ==
  FlattenSeq([i \in DOMAIN headers |->
                IF headers[i][3] = Multipart THEN <<headers[i], Crlf>>
                ELSE <<headers[i]>>]) \o <<Crlf>>

ContentToBuffers(rep) == <<Content(rep.content)>>

ToBuffers(rep) ==
  <<StatusLine(rep.status)>> \o HeadersToBuffers(rep.headers) \o ContentToBuffers(rep)

MimeTypes == [gif |-> "image/gif", htm |-> "text/html", html |-> "text/html",
              jpg |-> "image/jpeg", png |-> "image/png"]

\* extension_to_type; an extension is a sequence of tokens.
ExtensionToType(extension) ==
  IF Len(extension) = 1 /\ extension[1] \in DOMAIN MimeTypes
  THEN <<MimeTypes[extension[1]]>> ELSE <<"text/plain">>

\* What follows the last dot after the last slash; the path "index.html" is
\* one token.
Extension(path) ==
  LET dot == SelectLastInSeq(path, LAMBDA c : c = ".")
      slash == SelectLastInSeq(path, LAMBDA c : c = "/")
  IN CASE Last(path) = "index.html" -> <<"html">>
       [] Last(path) # "index.html" /\ dot > slash -> SubSeq(path, dot + 1, Len(path))
       [] OTHER -> <<>>

-----------------------------------------------------------------------------
(* The replies *)

Rep(status, headers, content) ==
  [status |-> status, headers |-> headers, content |-> content]

Sized(content, type) ==
  <<Header("Content-Length", SizeOf(content)), Header("Content-Type", type)>>

StockReply(status) ==
  Rep(status, Sized(StockContent(status), <<"text/html">>), StockContent(status))

\* Mutant: the length is taken before the file is read.
FileReplyTooEarly(path) ==
  Rep(200, Sized(<<>>, ExtensionToType(Extension(path))), <<"file", path>>)

FileReply(path) ==
  Rep(200, Sized(<<"file", path>>, ExtensionToType(Extension(path))), <<"file", path>>)

RedirectReply(location) == Rep(302, <<Header("Location", location)>>, <<>>)

ListReply(streams) ==
  Rep(200, Sized(<<"list", streams>>, ExtensionToType(<<"txt">>)), <<"list", streams>>)

StreamReply ==
  Rep(200, << Header("Connection", <<"close">>), Header("Max-Age", <<"0">>),
              Header("Expires", <<"0">>), Header("Cache-Control", <<"no-cache">>),
              Header("Pragma", <<"no-cache">>), Header("Content-Type", Multipart) >>, <<>>)

=============================================================================
