------------------------------ MODULE Response ------------------------------
(***************************************************************************)
(* What a connection sends: the answer module RequestHandler chooses, made *)
(* into a reply and written as module Reply says, and for a stream one     *)
(* part after the other.  All parts are made in the reply object that      *)
(* the headers of the response were made in.                               *)
(***************************************************************************)
EXTENDS RequestHandler, Reply

CONSTANT MaxParts  \* bound: boundaries sent to a page

VARIABLES
  rep,  \* reply_ of the connection
  wire  \* what has been sent

responseVars == <<rep, wire>>

\* A connection begins with an empty reply and answers one request.
ResponseInit ==
  /\ Init
  /\ rep = Rep(200, <<>>, <<>>)
  /\ wire = <<>>

ReplyTo(a) ==
  CASE a[1] = "bad_request" -> StockReply(400)
    [] a[1] = "not_found" -> StockReply(404)
    [] a[1] = "file" -> FileReply(a[2])
    [] a[1] = "redirect" -> RedirectReply(a[2])
    [] a[1] = "list" -> ListReply(a[2])
    [] a[1] = "stream" -> StreamReply

RegisterOne == (\E path \in StreamPaths : RegisterStreamer(path)) /\ UNCHANGED responseVars

Respond(uri, method) ==
  /\ answer = <<"none">>
  /\ HandleRequest(uri, method)
  /\ rep' = ReplyTo(answer')
  /\ wire' = ToBuffers(rep')

PartsBegun == Len(SelectSeq(wire, LAMBDA e : e = Content(Boundary)))
Streaming == answer[1] = "stream"

\* Mutant: the headers of the part before are kept.
SendBoundaryKeepHeaders ==
  /\ Streaming /\ rep.content # Boundary /\ PartsBegun < MaxParts
  /\ rep' = [rep EXCEPT !.content = Boundary]
  /\ wire' = wire \o ContentToBuffers(rep')
  /\ UNCHANGED vars

\* handle_initial_header_write sends the boundary.
SendBoundary ==
  /\ Streaming /\ rep.content # Boundary /\ PartsBegun < MaxParts
  /\ rep' = [rep EXCEPT !.headers = <<>>, !.content = Boundary]
  /\ wire' = wire \o ContentToBuffers(rep')
  /\ UNCHANGED vars

\* An image has been posted; its part is sent.
SendPart(image) ==
  LET headers == rep.headers \o << Header("Content-type", <<"image/jpg">>),
                                   Header("Content-Length", SizeOf(image)) >>
  IN /\ Streaming /\ rep.content = Boundary
     /\ rep' = [rep EXCEPT !.headers = headers, !.content = image]
     /\ wire' = wire \o HeadersToBuffers(headers) \o ContentToBuffers(rep') \o <<Crlf>>
     /\ UNCHANGED vars

ResponseNext ==
  \/ RegisterOne
  \/ \E uri \in Uris, method \in Methods : Respond(uri, method)
  \/ SendBoundary
  \/ \E n \in 1..2 : SendPart(<<"jpeg", n>>)

ResponseSpec == ResponseInit /\ [][ResponseNext]_<<vars, responseVars>>

-----------------------------------------------------------------------------
(* Properties, of what is sent alone *)

HeaderEnd == CHOOSE i \in DOMAIN wire : wire[i] = Crlf /\ \A j \in 1..(i - 1) : wire[j] # Crlf
HeaderLines == SubSeq(wire, 2, HeaderEnd - 1)
Body == SubSeq(wire, HeaderEnd + 1, Len(wire))

\* A response is one status line, header lines of different names, an empty
\* line and a body of exactly the announced length; only a redirect, whose
\* body is empty, and a stream, which does not end, announce none.
ResponseFramed ==
  wire # <<>> =>
    LET lengths == {h \in Range(HeaderLines) : h[2] = "Content-Length"}
    IN /\ wire[1][1] = "status"
       /\ \A i, j \in DOMAIN HeaderLines :
            /\ HeaderLines[i][1] = "header"
            /\ HeaderLines[i][2] = HeaderLines[j][2] => i = j
       /\ lengths = {} /\ ~Streaming =>
            wire[1] = <<"status", 302>> /\ Body = <<Content(<<>>)>>
       /\ \A h \in lengths : \E c \in {Body[1][2]} : h[3] = SizeOf(c) /\ Body = <<Content(c)>>

\* The body of a stream is an empty line, as the boundary in the header ends
\* the header lines early, and parts: a boundary line, the type and length
\* of the image, an empty line, an image of that length and a line break.
\* No part carries headers or content over from what was sent before it.
PartsFramed ==
  Streaming =>
    LET parts == SubSeq(Body, 3, Len(Body))
        Place(i) == (i - 1) % 6
    IN /\ SubSeq(Body, 1, 2) = <<Crlf, Content(<<>>)>>
       /\ \A i \in DOMAIN parts :
            CASE Place(i) = 0 -> parts[i] = Content(Boundary)
              [] Place(i) = 1 -> parts[i] = Header("Content-type", <<"image/jpg">>)
              [] Place(i) = 2 -> parts[i] = Header("Content-Length", SizeOf(parts[i + 2][2]))
              [] Place(i) = 4 -> parts[i][1] = "content" /\ parts[i][2] # Boundary
              [] OTHER -> parts[i] = Crlf

=============================================================================
