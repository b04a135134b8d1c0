---------------------------- MODULE RequestParser ----------------------------
(***************************************************************************)
(* The HTTP request parser, src/mjpeg/request_parser.cpp: a machine that   *)
(* is fed one byte at a time and fills the fields of a request.  A byte is *)
(* named by the character the machine tells apart, or by the class all     *)
(* other bytes of its kind fall into.  The version is kept as its digits:  *)
(* nothing reads its value.                                                *)
(***************************************************************************)
EXTENDS Integers, Sequences

CONSTANTS
  Bytes,      \* the bytes a client may send
  MaxInput,   \* bound: bytes sent
  MaxField,   \* bound: bytes of a method, URI, number or name
  MaxValue,   \* bound: bytes of a value
  MaxHeaders  \* bound: header lines

Letters == {"H", "T", "P", "a"}   \* "a": any other character of a token
Digits == {"0", "1"}
Blanks == {"SP", "HT"}
Controls == {"HT", "CR", "LF", "ctl"}
Specials == {"SP", "HT", "/", ":", "("}  \* "(": any other tspecial
AllBytes == Letters \cup Digits \cup {"."} \cup Controls \cup Specials
              \cup {"high"}      \* "high": any byte above 127

ASSUME RequestParserAssumption ==
  /\ Bytes \subseteq AllBytes
  /\ {MaxInput, MaxField, MaxValue, MaxHeaders} \subseteq Nat

\* Mutant: the sign of a char is forgotten.
IsCtlUnsigned(c) == c \in Controls \cup {"high"}

\* is_char, is_ctl, is_tspecial and is_digit; a char is signed, so a byte
\* above 127 is neither a character nor a control.
IsCtl(c) == c \in Controls

\* Mutant: a case is missing from is_tspecial.
IsTokenOrSlash(c) == c # "high" /\ ~IsCtl(c) /\ c \notin Specials \ {"/"}

IsToken(c) == c # "high" /\ ~IsCtl(c) /\ c \notin Specials
IsDigit(c) == c \in Digits

VARIABLES
  state,    \* state_
  result,   \* what parse has returned: "indeterminate", "true" or "false"
  method, uri, major, minor,  \* the fields of the request
  headers,  \* its headers, a sequence of a name and a value each
  input     \* history: the bytes consumed

fields == <<method, uri, major, minor, headers>>
vars == <<state, result, fields, input>>

Init ==
  /\ state = "method_start"
  /\ result = "indeterminate"
  /\ method = <<>> /\ uri = <<>> /\ major = <<>> /\ minor = <<>>
  /\ headers = <<>>
  /\ input = <<>>

-----------------------------------------------------------------------------
(* consume: the state a byte leads to, or the value that is returned *)

RequestLine(s, c) ==
  CASE s \in {"method_start", "method"} /\ IsToken(c) -> "method"
    [] s = "method" /\ c = "SP" -> "uri"
    [] s = "uri_start" /\ ~IsCtl(c) -> "uri"   \* no state leads to uri_start
    [] s = "uri" /\ c # "SP" /\ ~IsCtl(c) -> "uri"
    [] s = "uri" /\ c = "SP" -> "http_version_h"
    [] s = "http_version_h" /\ c = "H" -> "http_version_t_1"
    [] s = "http_version_t_1" /\ c = "T" -> "http_version_t_2"
    [] s = "http_version_t_2" /\ c = "T" -> "http_version_p"
    [] s = "http_version_p" /\ c = "P" -> "http_version_slash"
    [] s = "http_version_slash" /\ c = "/" -> "http_version_major_start"
    [] s \in {"http_version_major_start", "http_version_major"} /\ IsDigit(c)
         -> "http_version_major"
    [] s = "http_version_major" /\ c = "." -> "http_version_minor_start"
    [] s \in {"http_version_minor_start", "http_version_minor"} /\ IsDigit(c)
         -> "http_version_minor"
    [] s = "http_version_minor" /\ c = "CR" -> "expecting_newline_1"
    [] s = "expecting_newline_1" /\ c = "LF" -> "header_line_start"
    [] OTHER -> "false"

\* Mutant: the headers are not looked at.
MayFoldAlways == TRUE

\* A line that begins with a blank continues the header before it.
MayFold == headers # <<>>

HeaderLine(s, c) ==
  CASE s = "header_line_start" /\ c = "CR" -> "expecting_newline_3"
    [] s = "header_line_start" /\ c \in Blanks /\ MayFold -> "header_lws"
    [] s \in {"header_line_start", "header_name"} /\ IsToken(c) -> "header_name"
    [] s = "header_name" /\ c = ":" -> "space_before_header_value"
    [] s = "space_before_header_value" /\ c = "SP" -> "header_value"
    [] s = "header_lws" /\ c \in Blanks -> "header_lws"
    [] s = "header_lws" /\ c \notin Blanks /\ ~IsCtl(c) -> "header_value"
    [] s = "header_value" /\ ~IsCtl(c) -> "header_value"
    [] s \in {"header_lws", "header_value"} /\ c = "CR" -> "expecting_newline_2"
    [] s = "expecting_newline_2" /\ c = "LF" -> "header_line_start"
    [] s = "expecting_newline_3" /\ c = "LF" -> "true"
    [] OTHER -> "false"

HeaderStates == {"header_line_start", "header_lws", "header_name",
  "space_before_header_value", "header_value", "expecting_newline_2",
  "expecting_newline_3"}

Target(c) ==
  IF state \in HeaderStates THEN HeaderLine(state, c) ELSE RequestLine(state, c)

-----------------------------------------------------------------------------
(* consume: the field a byte is stored in on its way to state t *)

\* Mutant: the byte that ends the blanks of a continued line is lost.
StoreHeaderAfterBlanksLost(t, c) ==
  headers' =
    CASE state = "header_line_start" /\ t = "header_name"
           -> Append(headers, [name |-> <<c>>, value |-> <<>>])
      [] state = "header_name" /\ t = "header_name"
           -> [headers EXCEPT ![Len(headers)].name = Append(@, c)]
      [] state = "header_value" /\ t = "header_value"
           -> [headers EXCEPT ![Len(headers)].value = Append(@, c)]
      [] OTHER -> headers

StoreHeader(t, c) ==
  headers' =
    CASE state = "header_line_start" /\ t = "header_name"
           -> Append(headers, [name |-> <<c>>, value |-> <<>>])
      [] state = "header_name" /\ t = "header_name"
           -> [headers EXCEPT ![Len(headers)].name = Append(@, c)]
      [] state \in {"header_lws", "header_value"} /\ t = "header_value"
           -> [headers EXCEPT ![Len(headers)].value = Append(@, c)]
      [] OTHER -> headers

StoreRequestLine(t, c) ==
  /\ method' = IF t = "method" THEN Append(method, c) ELSE method
  /\ uri' = IF t = "uri" /\ state # "method" THEN Append(uri, c) ELSE uri
  /\ major' = IF t = "http_version_major" THEN Append(major, c) ELSE major
  /\ minor' = IF t = "http_version_minor" THEN Append(minor, c) ELSE minor

\* Mutant: the state is assigned before the result is looked at.
ConsumeStoresResult(c) ==
  /\ result = "indeterminate"
  /\ input' = Append(input, c)
  /\ result' = IF Target(c) \in {"true", "false"} THEN Target(c) ELSE result
  /\ state' = Target(c)
  /\ StoreRequestLine(Target(c), c)
  /\ StoreHeader(Target(c), c)

Consume(c) ==
  /\ result = "indeterminate"
  /\ input' = Append(input, c)
  /\ IF Target(c) \in {"true", "false"}
     THEN result' = Target(c) /\ UNCHANGED state
     ELSE state' = Target(c) /\ UNCHANGED result
  /\ StoreRequestLine(Target(c), c)
  /\ StoreHeader(Target(c), c)

\* The bounds on what a client sends.
Bounded ==
  /\ Len(input) <= MaxInput
  /\ \A f \in {method, uri, major, minor} : Len(f) <= MaxField
  /\ Len(headers) <= MaxHeaders
  /\ \A i \in 1..Len(headers) :
       Len(headers[i].name) <= MaxField /\ Len(headers[i].value) <= MaxValue

\* However the bytes are cut into reads, parse consumes them one by one, and
\* none after it has returned true or false.
Next == \E c \in Bytes : Consume(c) /\ Bounded'

Spec == Init /\ [][Next]_vars

-----------------------------------------------------------------------------
(* Properties *)

States == {"method_start", "method", "uri_start", "uri", "http_version_h",
  "http_version_t_1", "http_version_t_2", "http_version_p",
  "http_version_slash", "http_version_major_start", "http_version_major",
  "http_version_minor_start", "http_version_minor", "expecting_newline_1"}
  \cup HeaderStates

TypeOK ==
  /\ state \in States
  /\ result \in {"indeterminate", "true", "false"}
  /\ {method, uri, major, minor, input} \subseteq Seq(AllBytes)
  /\ headers \in Seq([name : Seq(AllBytes), value : Seq(AllBytes)])

\* headers.back() is used only when there is a header: whatever is sent, a
\* continued line never comes before the first header line.
BackNeverOnEmpty ==
  state \in HeaderStates \ {"header_line_start", "expecting_newline_3"}
    => headers # <<>>

=============================================================================
