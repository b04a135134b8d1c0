---------------------------- MODULE RequestClient ----------------------------
(***************************************************************************)
(* A client that writes one request by the grammar, byte by byte, to the   *)
(* parser, or one that writes whatever it likes.  A header value may go on *)
(* in lines that begin with blanks.                                        *)
(***************************************************************************)
EXTENDS RequestGrammar

CONSTANTS
  Requests,   \* the requests a client may write
  Anything    \* what a client writes that does not follow the grammar

PlainBytes == AllBytes \ Controls
Tokens == Seq(TokenBytes) \ {<<>>}
Numbers == Seq(Digits) \ {<<>>}

\* The blanks before a line that continues a value belong to the fold.
Folds == [blanks : Seq(Blanks) \ {<<>>},
          line : {l \in Seq(PlainBytes) : l = <<>> \/ l[1] # "SP"}]
WrittenHeaders == [name : Tokens, line : Seq(PlainBytes), folds : Seq(Folds)]

Written == [method : Tokens, uri : Seq(PlainBytes \ {"SP"}), major : Numbers,
            minor : Numbers, headers : Seq(WrittenHeaders)]

ASSUME RequestClientAssumption == Requests \subseteq Written /\ Anything \notin Requests

FoldText(f) == CRLF \o f.blanks \o f.line

\* A header as it is written, and as it is to be read.
OnWire(h) ==
  [name |-> h.name,
   value |-> h.line \o FlattenSeq([i \in DOMAIN h.folds |-> FoldText(h.folds[i])])]
AsRead(h) ==
  [name |-> h.name,
   value |-> h.line \o FlattenSeq([i \in DOMAIN h.folds |-> h.folds[i].line])]

TextOf(r) ==
  RequestText(r.method, r.uri, r.major, r.minor,
              [i \in DOMAIN r.headers |-> OnWire(r.headers[i])])

-----------------------------------------------------------------------------
VARIABLE request   \* what the client writes

clientVars == <<vars, request>>

ClientInit == Init /\ request \in Requests \cup {Anything}

\* The next byte of the text, whatever read it arrives in.
WriteByte ==
  /\ request # Anything
  /\ Len(input) < Len(TextOf(request))
  /\ Consume(TextOf(request)[Len(input) + 1])
  /\ UNCHANGED request

WriteAnyByte == request = Anything /\ Next /\ UNCHANGED request

ClientNext == WriteByte \/ WriteAnyByte

ClientSpec == ClientInit /\ [][ClientNext]_clientVars

-----------------------------------------------------------------------------
(* Properties *)

\* A request written by the grammar is accepted with its last byte and not
\* before, and is never refused.
WrittenIsAccepted ==
  request # Anything =>
    /\ result # "false"
    /\ result = "true" <=> input = TextOf(request)

\* What is accepted has the fields that were written, a folded value without
\* its line breaks and the blanks after them.
ReadAsWritten ==
  request # Anything /\ result = "true" =>
    /\ method = request.method /\ uri = request.uri
    /\ major = request.major /\ minor = request.minor
    /\ headers = [i \in DOMAIN request.headers |-> AsRead(request.headers[i])]

=============================================================================
