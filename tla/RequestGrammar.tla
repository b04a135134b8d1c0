--------------------------- MODULE RequestGrammar ---------------------------
(***************************************************************************)
(* What the parser is compared with: the text of a request, as a client    *)
(* that follows the grammar writes it.                                     *)
(***************************************************************************)
EXTENDS RequestParser, SequencesExt

CRLF == <<"CR", "LF">>

HeaderText(h) == h.name \o <<":", "SP">> \o h.value \o CRLF

RequestText(m, u, maj, min, hs) ==
  m \o <<"SP">> \o u \o <<"SP", "H", "T", "T", "P", "/">> \o maj \o <<".">> \o min
    \o CRLF \o FlattenSeq([i \in DOMAIN hs |-> HeaderText(hs[i])]) \o CRLF

\* A line break and the blanks after it, which continue a header line.
Folded(text, j) ==
  \E i \in 1..j :
    /\ i + 2 <= Len(text) /\ text[i] = "CR" /\ text[i + 1] = "LF"
    /\ text[i + 2] \in Blanks
    /\ \A k \in (i + 2)..j : text[k] \in Blanks

Unfold(text) ==
  FlattenSeq([j \in DOMAIN text |-> IF Folded(text, j) THEN <<>> ELSE <<text[j]>>])

TokenBytes == Letters \cup Digits \cup {"."}

-----------------------------------------------------------------------------
(* Properties *)

\* A request is accepted only as the text of the fields it was parsed into:
\* no byte is lost, repeated or stored in another field.
ParsedAsWritten ==
  result = "true" =>
    Unfold(input) = RequestText(method, uri, major, minor, headers)

\* Tokens have no specials, and none of the mandatory parts is missing.
AcceptedIsWellFormed ==
  result = "true" =>
    /\ \A s \in {method} \cup {headers[i].name : i \in DOMAIN headers} :
         s # <<>> /\ \A k \in DOMAIN s : s[k] \in TokenBytes
    /\ \A s \in {major, minor} : s # <<>> /\ \A k \in DOMAIN s : s[k] \in Digits
    /\ \A k \in DOMAIN uri : uri[k] \notin Controls \cup {"SP"}

=============================================================================
