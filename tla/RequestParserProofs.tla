------------------------- MODULE RequestParserProofs -------------------------
(***************************************************************************)
(* Proofs about modules RequestParser and RequestClient, for every         *)
(* sequence of bytes and every request a client writes by the grammar.     *)
(***************************************************************************)
EXTENDS RequestClient, SequenceLemmas

Byte == AllBytes
Header == [name : Seq(Byte), value : Seq(Byte)]

IInv == TypeOK /\ BackNeverOnEmpty

\* What consume returns is a state or one of the two results, and the states
\* of a header are entered only with a header.
LEMMA TargetTypes ==
  ASSUME IInv, NEW c \in Byte
  PROVE  /\ Target(c) \in States \cup {"true", "false"}
         /\ Target(c) = "header_lws" => headers # <<>>
         /\ Target(c) \in {"header_name", "space_before_header_value",
                           "header_value", "expecting_newline_2"} =>
              headers # <<>> \/ state = "header_line_start"
         /\ state = "header_line_start" =>
              Target(c) \notin {"space_before_header_value", "header_value",
                                "expecting_newline_2"}
<1>1. CASE state \in HeaderStates
  BY <1>1 DEF IInv, BackNeverOnEmpty, Target, HeaderLine, HeaderStates, States,
     MayFold
<1>2. CASE state \notin HeaderStates
  BY <1>2 DEF IInv, Target, RequestLine, HeaderStates, States
<1>3. QED
  BY <1>1, <1>2

LEMMA RequestLineTypes ==
  ASSUME TypeOK, NEW c \in Byte, NEW t, StoreRequestLine(t, c)
  PROVE  {method', uri', major', minor'} \subseteq Seq(Byte)
BY DEF TypeOK, StoreRequestLine, Byte

\* A byte appended to the name or the value of the last header.
LEMMA LastHeaderTypes ==
  ASSUME NEW hs \in Seq(Header), hs # <<>>, NEW c \in Byte,
         NEW new \in Header
  PROVE  /\ hs[Len(hs)] \in Header
         /\ Append(hs[Len(hs)].name, c) \in Seq(Byte)
         /\ Append(hs[Len(hs)].value, c) \in Seq(Byte)
         /\ [hs EXCEPT ![Len(hs)] = new] \in Seq(Header)
         /\ [hs EXCEPT ![Len(hs)] = new] # <<>>
<1>1. Len(hs) \in 1..Len(hs)
  OBVIOUS
<1>2. hs[Len(hs)] \in Header
  BY <1>1
<1>3. hs[Len(hs)].name \in Seq(Byte) /\ hs[Len(hs)].value \in Seq(Byte)
  BY <1>2 DEF Header
<1>4. [hs EXCEPT ![Len(hs)] = new] \in Seq(Header)
  BY <1>1
<1>5. Len([hs EXCEPT ![Len(hs)] = new]) = Len(hs)
  OBVIOUS
<1>6. [hs EXCEPT ![Len(hs)] = new] # <<>>
  BY <1>1, <1>5
<1>7. QED
  BY <1>2, <1>3, <1>4, <1>6

LEMMA HeaderTypes ==
  ASSUME IInv, NEW c \in Byte, StoreHeader(Target(c), c)
  PROVE  /\ headers' \in Seq(Header)
         /\ headers # <<>> \/ Target(c) = "header_name" => headers' # <<>>
<1>0. headers \in Seq(Header)
  BY DEF IInv, TypeOK, Header, Byte
<1>1. CASE state = "header_line_start" /\ Target(c) = "header_name"
  <2>1. [name |-> <<c>>, value |-> <<>>] \in Header
    <3>1. <<c>> \in Seq(Byte) /\ <<>> \in Seq(Byte)
      OBVIOUS
    <3>2. QED
      BY <3>1, Zenon DEF Header
  <2>2. PICK h \in Header : headers' = Append(headers, h)
    BY <1>1, <2>1 DEF StoreHeader
  <2>3. headers' \in Seq(Header) /\ headers' # <<>>
    BY <1>0, <2>2
  <2>4. QED
    BY <2>3
<1>2. CASE state = "header_name" /\ Target(c) = "header_name"
  <2>1. headers # <<>>
    BY <1>2 DEF IInv, BackNeverOnEmpty, HeaderStates
  <2>2. PICK h \in Header : h = headers[Len(headers)]
    BY <1>0, <2>1, LastHeaderTypes
  <2>3. Append(h.name, c) \in Seq(Byte)
    BY <2>2 DEF Header
  <2>4. PICK new \in Header : new = [h EXCEPT !.name = Append(@, c)]
    BY <2>3 DEF Header
  <2>5. headers' = [headers EXCEPT ![Len(headers)] = new]
    BY <1>2, <2>2, <2>4 DEF StoreHeader
  <2>6. QED
    BY <1>0, <2>1, <2>5, LastHeaderTypes
<1>3. CASE state \in {"header_lws", "header_value"} /\ Target(c) = "header_value"
  <2>1. headers # <<>>
    BY <1>3 DEF IInv, BackNeverOnEmpty, HeaderStates
  <2>2. PICK h \in Header : h = headers[Len(headers)]
    BY <1>0, <2>1, LastHeaderTypes
  <2>3. Append(h.value, c) \in Seq(Byte)
    BY <2>2 DEF Header
  <2>4. PICK new \in Header : new = [h EXCEPT !.value = Append(@, c)]
    BY <2>3 DEF Header
  <2>5. headers' = [headers EXCEPT ![Len(headers)] = new]
    BY <1>3, <2>2, <2>4 DEF StoreHeader
  <2>6. QED
    BY <1>0, <2>1, <2>5, LastHeaderTypes
<1>4. CASE ~ \/ state = "header_line_start" /\ Target(c) = "header_name"
             \/ state = "header_name" /\ Target(c) = "header_name"
             \/ state \in {"header_lws", "header_value"}
                  /\ Target(c) = "header_value"
  <2>1. headers' = headers
    BY <1>4 DEF StoreHeader
  <2>2. Target(c) = "header_name" => state \in {"header_line_start", "header_name"}
    BY DEF Target, HeaderLine, RequestLine, HeaderStates
  <2>3. QED
    BY <1>0, <1>4, <2>1, <2>2
<1>5. QED
  BY <1>1, <1>2, <1>3, <1>4

LEMMA IInvInit == Init => IInv
BY DEF Init, IInv, TypeOK, BackNeverOnEmpty, States, HeaderStates

LEMMA IInvConsume ==
  ASSUME IInv, NEW c \in Byte, Consume(c)
  PROVE  IInv'
<1>1. PICK t \in States \cup {"true", "false"} : t = Target(c)
  BY TargetTypes
<1>2. state' = IF t \in {"true", "false"} THEN state ELSE t
  BY <1>1 DEF Consume
<1>3. result' \in {"indeterminate", "true", "false"}
  BY DEF Consume, IInv, TypeOK
<1>4. input' \in Seq(Byte)
  BY DEF Consume, IInv, TypeOK, Byte
<1>5. {method', uri', major', minor'} \subseteq Seq(Byte)
  BY RequestLineTypes DEF Consume, IInv
<1>6. /\ headers' \in Seq(Header)
      /\ headers # <<>> \/ t = "header_name" => headers' # <<>>
  BY <1>1, HeaderTypes DEF Consume
<1>7. TypeOK'
  BY <1>1, <1>2, <1>3, <1>4, <1>5, <1>6 DEF IInv, TypeOK, Byte, Header
<1>8. BackNeverOnEmpty'
  BY <1>1, <1>2, <1>6, TargetTypes
     DEF BackNeverOnEmpty, IInv, TypeOK, States, HeaderStates
<1>9. QED
  BY <1>7, <1>8 DEF IInv

LEMMA IInvStep == IInv /\ [Next]_vars => IInv'
<1> SUFFICES ASSUME IInv, [Next]_vars PROVE IInv'
  OBVIOUS
<1>1. CASE UNCHANGED vars
  BY <1>1 DEF vars, fields, IInv, TypeOK, BackNeverOnEmpty
<1>2. ASSUME NEW c \in Bytes, Consume(c)
      PROVE  IInv'
  <2>1. c \in Byte
    BY RequestParserAssumption DEF Byte
  <2>2. QED
    BY <1>2, <2>1, IInvConsume
<1>3. QED
  BY <1>1, <1>2 DEF Next

\* Every variable keeps its type, whatever bytes are sent.
THEOREM TypeCorrect == Spec => []TypeOK
<1>1. QED
  BY IInvInit, IInvStep, PTL DEF Spec, IInv

\* headers.back() is never taken of an empty vector, whatever bytes are sent.
THEOREM BackIsSafe == Spec => []BackNeverOnEmpty
<1>1. QED
  BY IInvInit, IInvStep, PTL DEF Spec, IInv

-----------------------------------------------------------------------------
(* The steps of the machine, one line for each byte that is accepted *)

Moves(s, t, c) ==
  \/ s \in {"method_start", "method"} /\ t = "method" /\ IsToken(c)
  \/ s = "method" /\ t = "uri" /\ c = "SP"
  \/ s \in {"uri_start", "uri"} /\ t = "uri" /\ ~IsCtl(c) /\ (s = "uri" => c # "SP")
  \/ s = "uri" /\ t = "http_version_h" /\ c = "SP"
  \/ s = "http_version_h" /\ t = "http_version_t_1" /\ c = "H"
  \/ s = "http_version_t_1" /\ t = "http_version_t_2" /\ c = "T"
  \/ s = "http_version_t_2" /\ t = "http_version_p" /\ c = "T"
  \/ s = "http_version_p" /\ t = "http_version_slash" /\ c = "P"
  \/ s = "http_version_slash" /\ t = "http_version_major_start" /\ c = "/"
  \/ /\ s \in {"http_version_major_start", "http_version_major"}
     /\ t = "http_version_major" /\ IsDigit(c)
  \/ s = "http_version_major" /\ t = "http_version_minor_start" /\ c = "."
  \/ /\ s \in {"http_version_minor_start", "http_version_minor"}
     /\ t = "http_version_minor" /\ IsDigit(c)
  \/ s = "http_version_minor" /\ t = "expecting_newline_1" /\ c = "CR"
  \/ s = "expecting_newline_1" /\ t = "header_line_start" /\ c = "LF"
  \/ s = "header_line_start" /\ t = "header_name" /\ IsToken(c)
  \/ s = "header_name" /\ t = "header_name" /\ IsToken(c)
  \/ s = "header_name" /\ t = "space_before_header_value" /\ c = ":"
  \/ s = "space_before_header_value" /\ t = "header_value" /\ c = "SP"
  \/ s = "header_line_start" /\ t = "header_lws" /\ c \in Blanks /\ headers # <<>>
  \/ s = "header_lws" /\ t = "header_lws" /\ c \in Blanks
  \/ s = "header_lws" /\ t = "header_value" /\ c \notin Blanks /\ ~IsCtl(c)
  \/ s = "header_value" /\ t = "header_value" /\ ~IsCtl(c)
  \/ s \in {"header_lws", "header_value"} /\ t = "expecting_newline_2" /\ c = "CR"
  \/ s = "expecting_newline_2" /\ t = "header_line_start" /\ c = "LF"
  \/ s = "header_line_start" /\ t = "expecting_newline_3" /\ c = "CR"
  \/ s = "expecting_newline_3" /\ t = "true" /\ c = "LF"

LEMMA TargetMoves ==
  ASSUME state \in States, NEW c \in Byte, Target(c) # "false"
  PROVE  Moves(state, Target(c), c)
<1>1. CASE state \in HeaderStates
  BY <1>1 DEF Target, HeaderLine, HeaderStates, States, Moves, MayFold
<1>2. CASE state \notin HeaderStates
  BY <1>2 DEF Target, RequestLine, HeaderStates, States, Moves
<1>3. QED
  BY <1>1, <1>2

-----------------------------------------------------------------------------
(* Well-formed fields.  What a field is made of holds in every state, that *)
(* it is not empty from the state in which it is read on.                  *)

PlainUri == Byte \ (Controls \cup {"SP"})
NamedHeader == [name : Seq(TokenBytes) \ {<<>>}, value : Seq(Byte)]

BeforeMajor == {"method_start", "method", "uri_start", "uri", "http_version_h",
  "http_version_t_1", "http_version_t_2", "http_version_p", "http_version_slash",
  "http_version_major_start"}

BeforeMinor == BeforeMajor \cup {"http_version_major", "http_version_minor_start"}

\* No state leads to uri_start, from which a blank would be stored in the URI.
LineInv ==
  /\ state # "uri_start"
  /\ method \in Seq(TokenBytes) /\ (state # "method_start" => method # <<>>)
  /\ uri \in Seq(PlainUri)
  /\ major \in Seq(Digits) /\ (state \notin BeforeMajor => major # <<>>)
  /\ minor \in Seq(Digits) /\ (state \notin BeforeMinor => minor # <<>>)

NamesInv == headers \in Seq(NamedHeader)

WellFormedInv == IInv /\ LineInv /\ NamesInv

LEMMA TokenIsByte ==
  ASSUME NEW c \in Byte, IsToken(c)
  PROVE  c \in TokenBytes
BY DEF IsToken, IsCtl, Byte, AllBytes, Letters, Digits, Controls, Specials, TokenBytes

LEMMA LineStep ==
  ASSUME IInv, LineInv, NEW c \in Byte, Consume(c)
  PROVE  LineInv'
<1>1. PICK t : t = Target(c)
  OBVIOUS
<1>2. StoreRequestLine(t, c)
  BY <1>1 DEF Consume
<1>3. CASE t = "false"
  BY <1>1, <1>2, <1>3 DEF LineInv, StoreRequestLine, Consume
<1>4. CASE t # "false"
  <2>1. Moves(state, t, c)
    BY <1>1, <1>4, TargetMoves DEF IInv, TypeOK
  <2>2. state' = IF t = "true" THEN state ELSE t
    BY <1>1, <1>4 DEF Consume
  <2>3. method' \in Seq(TokenBytes) /\ (state' # "method_start" => method' # <<>>)
    <3>1. CASE t = "method"
      <4>1. c \in TokenBytes
        BY <2>1, <3>1, TokenIsByte DEF Moves
      <4>2. method' = Append(method, c)
        BY <1>2, <3>1 DEF StoreRequestLine
      <4>3. QED
        BY <4>1, <4>2, AppendProperties DEF LineInv
    <3>2. CASE t # "method"
      <4>1. method' = method /\ state # "method_start"
        BY <1>2, <2>1, <3>2 DEF StoreRequestLine, Moves
      <4>2. QED
        BY <4>1 DEF LineInv
    <3>3. QED
      BY <3>1, <3>2
  <2>4. uri' \in Seq(PlainUri)
    <3>1. CASE t = "uri" /\ state # "method"
      <4>1. c # "SP" /\ ~IsCtl(c)
        BY <2>1, <3>1 DEF Moves, LineInv
      <4>2. c \in PlainUri
        BY <4>1 DEF PlainUri, IsCtl
      <4>3. QED
        BY <1>2, <3>1, <4>2 DEF StoreRequestLine, LineInv
    <3>2. CASE ~(t = "uri" /\ state # "method")
      BY <1>2, <3>2 DEF StoreRequestLine, LineInv
    <3>3. QED
      BY <3>1, <3>2
  <2>5. major' \in Seq(Digits) /\ (state' \notin BeforeMajor => major' # <<>>)
    <3>1. CASE t = "http_version_major"
      <4>1. c \in Digits
        BY <2>1, <3>1 DEF Moves, IsDigit
      <4>2. major' = Append(major, c)
        BY <1>2, <3>1 DEF StoreRequestLine
      <4>3. QED
        BY <4>1, <4>2, AppendProperties DEF LineInv
    <3>2. CASE t # "http_version_major"
      <4>1. major' = major
        BY <1>2, <3>2 DEF StoreRequestLine
      <4>2. state' \notin BeforeMajor => state \notin BeforeMajor
        BY <2>1, <2>2, <3>2 DEF Moves, BeforeMajor
      <4>3. QED
        BY <4>1, <4>2 DEF LineInv
    <3>3. QED
      BY <3>1, <3>2
  <2>6. minor' \in Seq(Digits) /\ (state' \notin BeforeMinor => minor' # <<>>)
    <3>1. CASE t = "http_version_minor"
      <4>1. c \in Digits
        BY <2>1, <3>1 DEF Moves, IsDigit
      <4>2. minor' = Append(minor, c)
        BY <1>2, <3>1 DEF StoreRequestLine
      <4>3. QED
        BY <4>1, <4>2, AppendProperties DEF LineInv
    <3>2. CASE t # "http_version_minor"
      <4>1. minor' = minor
        BY <1>2, <3>2 DEF StoreRequestLine
      <4>2. state' \notin BeforeMinor => state \notin BeforeMinor
        BY <2>1, <2>2, <3>2 DEF Moves, BeforeMinor, BeforeMajor
      <4>3. QED
        BY <4>1, <4>2 DEF LineInv
    <3>3. QED
      BY <3>1, <3>2
  <2>7. state' # "uri_start"
    BY <2>1, <2>2 DEF Moves, LineInv
  <2>8. QED
    BY <2>3, <2>4, <2>5, <2>6, <2>7 DEF LineInv
<1>5. QED
  BY <1>3, <1>4

LEMMA NamesStep ==
  ASSUME IInv, NamesInv, NEW c \in Byte, Consume(c)
  PROVE  NamesInv'
<1>1. PICK t : t = Target(c)
  OBVIOUS
<1>2. StoreHeader(t, c)
  BY <1>1 DEF Consume
<1>3. PICK hs \in Seq(NamedHeader) : hs = headers
  BY DEF NamesInv
<1>4. t # "false" => Moves(state, t, c)
  BY <1>1, TargetMoves DEF IInv, TypeOK
<1>5. CASE state = "header_line_start" /\ t = "header_name"
  <2>1. c \in TokenBytes
    BY <1>4, <1>5, TokenIsByte DEF Moves
  <2>2. PICK h \in NamedHeader : h = [name |-> <<c>>, value |-> <<>>]
    <3>1. <<c>> \in Seq(TokenBytes) /\ <<c>> # <<>> /\ <<>> \in Seq(Byte)
      BY <2>1
    <3>2. QED
      BY <3>1, Zenon DEF NamedHeader
  <2>3. headers' = Append(hs, h)
    BY <1>2, <1>3, <1>5, <2>2 DEF StoreHeader
  <2>4. QED
    BY <2>3 DEF NamesInv
<1>6. CASE state = "header_name" /\ t = "header_name"
  <2>1. c \in TokenBytes
    BY <1>4, <1>6, TokenIsByte DEF Moves
  <2>2. hs # <<>>
    BY <1>3, <1>6 DEF IInv, BackNeverOnEmpty, HeaderStates
  <2>3. Len(hs) \in 1..Len(hs)
    BY <2>2
  <2>4. PICK h \in NamedHeader : h = hs[Len(hs)]
    BY <2>3
  <2>5. Append(h.name, c) \in Seq(TokenBytes) \ {<<>>}
    <3>1. h.name \in Seq(TokenBytes)
      BY DEF NamedHeader
    <3>2. Append(h.name, c) \in Seq(TokenBytes) /\ Append(h.name, c) # <<>>
      BY <2>1, <3>1, AppendProperties
    <3>3. QED
      BY <3>2
  <2>6. PICK new \in NamedHeader : new = [h EXCEPT !.name = Append(@, c)]
    BY <2>5 DEF NamedHeader
  <2>7. headers' = [hs EXCEPT ![Len(hs)] = new]
    BY <1>2, <1>3, <1>6, <2>4, <2>6 DEF StoreHeader
  <2>8. QED
    BY <2>3, <2>7 DEF NamesInv
<1>7. CASE state \in {"header_lws", "header_value"} /\ t = "header_value"
  <2>1. hs # <<>>
    BY <1>3, <1>7 DEF IInv, BackNeverOnEmpty, HeaderStates
  <2>2. Len(hs) \in 1..Len(hs)
    BY <2>1
  <2>3. PICK h \in NamedHeader : h = hs[Len(hs)]
    BY <2>2
  <2>4. Append(h.value, c) \in Seq(Byte)
    BY <2>3 DEF NamedHeader
  <2>5. PICK new \in NamedHeader : new = [h EXCEPT !.value = Append(@, c)]
    BY <2>4 DEF NamedHeader
  <2>6. headers' = [hs EXCEPT ![Len(hs)] = new]
    BY <1>2, <1>3, <1>7, <2>3, <2>5 DEF StoreHeader
  <2>7. QED
    BY <2>2, <2>6 DEF NamesInv
<1>8. CASE ~ \/ state = "header_line_start" /\ t = "header_name"
             \/ state = "header_name" /\ t = "header_name"
             \/ state \in {"header_lws", "header_value"} /\ t = "header_value"
  BY <1>2, <1>8 DEF StoreHeader, NamesInv
<1>9. QED
  BY <1>5, <1>6, <1>7, <1>8

LEMMA WellFormedInit == Init => WellFormedInv
<1> SUFFICES ASSUME Init PROVE WellFormedInv
  OBVIOUS
<1>1. \A S : <<>> \in Seq(S)
  OBVIOUS
<1>2. LineInv /\ NamesInv
  BY <1>1 DEF Init, LineInv, NamesInv, BeforeMajor, BeforeMinor
<1>3. QED
  BY <1>2, IInvInit DEF WellFormedInv

LEMMA WellFormedStep == WellFormedInv /\ [Next]_vars => WellFormedInv'
<1> SUFFICES ASSUME WellFormedInv, [Next]_vars PROVE WellFormedInv'
  OBVIOUS
<1>1. CASE UNCHANGED vars
  BY <1>1, IInvStep DEF vars, fields, WellFormedInv, LineInv, NamesInv
<1>2. ASSUME NEW c \in Bytes, Consume(c)
      PROVE  LineInv' /\ NamesInv'
  <2>1. c \in Byte
    BY RequestParserAssumption DEF Byte
  <2>2. QED
    BY <1>2, <2>1, LineStep, NamesStep DEF WellFormedInv
<1>3. QED
  BY <1>1, <1>2, IInvStep DEF Next, WellFormedInv

LEMMA AcceptedAtTheEnd ==
  ASSUME WellFormedInv, state \notin BeforeMinor
  PROVE  AcceptedIsWellFormed
<1>1. \A k \in DOMAIN method : method[k] \in TokenBytes
  BY DEF WellFormedInv, LineInv
<1>2. method # <<>> /\ major # <<>> /\ minor # <<>>
  BY DEF WellFormedInv, LineInv, BeforeMinor, BeforeMajor
<1>3. ASSUME NEW i \in DOMAIN headers
      PROVE  headers[i].name # <<>> /\ \A k \in DOMAIN headers[i].name :
                                        headers[i].name[k] \in TokenBytes
  <2>1. headers[i] \in NamedHeader
    BY DEF WellFormedInv, NamesInv
  <2>2. PICK s \in Seq(TokenBytes) : s = headers[i].name /\ s # <<>>
    BY <2>1 DEF NamedHeader
  <2>3. QED
    BY <2>2
<1>4. \A s \in {major, minor} : \A k \in DOMAIN s : s[k] \in Digits
  BY DEF WellFormedInv, LineInv
<1>5. \A k \in DOMAIN uri : uri[k] \notin Controls \cup {"SP"}
  BY DEF WellFormedInv, LineInv, PlainUri
<1>6. QED
  BY <1>1, <1>2, <1>3, <1>4, <1>5 DEF AcceptedIsWellFormed

\* A request is accepted after the last line break only.
EndInv == result = "true" => state = "expecting_newline_3"

LEMMA EndStep ==
  ASSUME IInv, EndInv, NEW c \in Byte, Consume(c)
  PROVE  EndInv'
<1>1. CASE Target(c) = "false"
  BY <1>1 DEF Consume, EndInv
<1>2. CASE Target(c) # "false"
  <2>1. Moves(state, Target(c), c)
    BY <1>2, TargetMoves DEF IInv, TypeOK
  <2>2. CASE Target(c) = "true"
    <3>1. state = "expecting_newline_3" /\ state' = state
      BY <2>1, <2>2 DEF Moves, Consume
    <3>2. QED
      BY <3>1 DEF EndInv
  <2>3. CASE Target(c) # "true"
    <3>1. result' = result /\ result = "indeterminate"
      BY <1>2, <2>3 DEF Consume
    <3>2. QED
      BY <3>1 DEF EndInv
  <2>4. QED
    BY <2>2, <2>3
<1>3. QED
  BY <1>1, <1>2

LEMMA EndAlways == Spec => [](WellFormedInv /\ EndInv)
<1>1. Init => EndInv
  BY DEF Init, EndInv
<1>2. WellFormedInv /\ EndInv /\ [Next]_vars => EndInv'
  <2> SUFFICES ASSUME WellFormedInv, EndInv, [Next]_vars PROVE EndInv'
    OBVIOUS
  <2>1. CASE UNCHANGED vars
    BY <2>1 DEF vars, EndInv
  <2>2. ASSUME NEW c \in Bytes, Consume(c) PROVE EndInv'
    <3>1. c \in Byte
      BY RequestParserAssumption DEF Byte
    <3>2. QED
      BY <2>2, <3>1, EndStep DEF WellFormedInv
  <2>3. QED
    BY <2>1, <2>2 DEF Next
<1>3. QED
  BY <1>1, <1>2, WellFormedInit, WellFormedStep, PTL DEF Spec

\* Every request that is accepted is well-formed, whatever bytes are sent and
\* however many.
THEOREM AcceptedAreWellFormed == Spec => []AcceptedIsWellFormed
<1>1. WellFormedInv /\ EndInv => AcceptedIsWellFormed
  <2>1. state = "expecting_newline_3" => state \notin BeforeMinor
    BY DEF BeforeMinor, BeforeMajor
  <2>2. QED
    BY <2>1, AcceptedAtTheEnd DEF EndInv, AcceptedIsWellFormed
<1>2. QED
  BY <1>1, EndAlways, PTL

-----------------------------------------------------------------------------
(* Unfolding, one byte at a time *)

Kept(t, j) == IF Folded(t, j) THEN <<>> ELSE <<t[j]>>

\* A line break and blanks at the end of a text: one more blank continues them.
OpenAt(t, i) ==
  /\ t[i] = "CR" /\ t[i + 1] = "LF"
  /\ \A k \in (i + 2)..Len(t) : t[k] \in Blanks

Open(t) == \E i \in 1..(Len(t) - 1) : OpenAt(t, i)

LEMMA KeptType ==
  ASSUME NEW S, NEW t \in Seq(S)
  PROVE  LET g == [j \in DOMAIN t |-> Kept(t, j)]
         IN /\ Unfold(t) = FlattenSeq(g) /\ g \in Seq(Seq(S)) /\ Len(g) = Len(t)
            /\ \A j \in 1..Len(t) : g[j] = Kept(t, j)
<1> DEFINE g == [j \in DOMAIN t |-> Kept(t, j)]
<1>1. Unfold(t) = FlattenSeq(g)
  BY Zenon DEF Unfold, Kept
<1>2. \A j \in DOMAIN t : Kept(t, j) \in Seq(S)
  <2> SUFFICES ASSUME NEW j \in DOMAIN t PROVE Kept(t, j) \in Seq(S)
    OBVIOUS
  <2>1. t[j] \in S
    OBVIOUS
  <2>2. <<t[j]>> \in Seq(S) /\ <<>> \in Seq(S)
    BY <2>1
  <2>3. QED
    BY <2>2, Zenon DEF Kept
<1>3. PICK n \in Nat : n = Len(t) /\ DOMAIN t = 1..n
  OBVIOUS
<1>4. g \in Seq(Seq(S)) /\ Len(g) = n
  BY <1>2, <1>3
<1>5. QED
  BY <1>1, <1>3, <1>4

LEMMA UnfoldType ==
  ASSUME NEW S, NEW t \in Seq(S)
  PROVE  Unfold(t) \in Seq(S)
<1>1. PICK g \in Seq(Seq(S)) : Unfold(t) = FlattenSeq(g)
  BY KeptType, Zenon
<1>2. QED
  BY <1>1, FlattenType

LEMMA UnfoldEmpty == Unfold(<<>>) = <<>>
<1>1. [j \in DOMAIN <<>> |-> Kept(<<>>, j)] = <<>>
  OBVIOUS
<1>2. QED
  BY <1>1, FlattenEmpty, Zenon DEF Unfold, Kept

AppendedTo(u, t, c, n) ==
  Len(u) = n + 1 /\ u[n + 1] = c /\ \A i \in 1..n : u[i] = t[i]

LEMMA AppendedAt ==
  ASSUME NEW S, NEW t \in Seq(S), NEW c \in S, NEW n \in Nat, n = Len(t)
  PROVE  \E u \in Seq(S) : u = Append(t, c) /\ AppendedTo(u, t, c, n)
<1>1. /\ Append(t, c) \in Seq(S) /\ Len(Append(t, c)) = Len(t) + 1
      /\ Append(t, c)[Len(t) + 1] = c
      /\ \A i \in 1..Len(t) : Append(t, c)[i] = t[i]
  BY AppendProperties
<1>2. QED
  BY <1>1, Zenon DEF AppendedTo

\* A text that ends in a line break.
Broken(t) == Len(t) >= 2 /\ t[Len(t) - 1] = "CR" /\ t[Len(t)] = "LF"

LEMMA BrokenIsOpen ==
  ASSUME NEW S, NEW t \in Seq(S), Broken(t)
  PROVE  Open(t)
<1>1. PICK i \in 1..(Len(t) - 1) : i = Len(t) - 1
  BY DEF Broken
<1>2. t[i] = "CR" /\ t[i + 1] = "LF" /\ \A k \in (i + 2)..Len(t) : FALSE
  BY <1>1 DEF Broken
<1>3. QED
  BY <1>2 DEF Open, OpenAt

\* A byte that continues no line break changes nothing of what is before it.
LEMMA FoldedBefore ==
  ASSUME NEW S, NEW t \in Seq(S), NEW c \in S, NEW j \in 1..Len(t),
         j + 2 <= Len(t) \/ c \notin Blanks \/ ~Broken(t)
  PROVE  Folded(Append(t, c), j) <=> Folded(t, j)
<1>1. PICK n \in Nat : n = Len(t)
  OBVIOUS
<1>2. PICK u \in Seq(S) : /\ u = Append(t, c) /\ Len(u) = n + 1 /\ u[n + 1] = c
                          /\ \A i \in 1..n : u[i] = t[i]
  <2>1. PICK u \in Seq(S) : u = Append(t, c) /\ AppendedTo(u, t, c, n)
    BY <1>1, AppendedAt
  <2>2. QED
    BY <2>1, Zenon DEF AppendedTo
<1>3. ASSUME NEW i \in 1..j
      PROVE  (/\ i + 2 <= n + 1 /\ u[i] = "CR" /\ u[i + 1] = "LF" /\ u[i + 2] \in Blanks
              /\ \A k \in (i + 2)..j : u[k] \in Blanks)
             <=>
             (/\ i + 2 <= n /\ t[i] = "CR" /\ t[i + 1] = "LF" /\ t[i + 2] \in Blanks
              /\ \A k \in (i + 2)..j : t[k] \in Blanks)
  <2>1. CASE i + 2 <= n
    <3>1. u[i] = t[i] /\ u[i + 1] = t[i + 1] /\ u[i + 2] = t[i + 2]
      BY <1>1, <1>2, <2>1
    <3>2. \A k \in (i + 2)..j : u[k] = t[k]
      BY <1>1, <1>2
    <3>3. QED
      BY <2>1, <3>1, <3>2
  <2>2. CASE i + 2 = n + 1
    <3>1. u[i] = t[n - 1] /\ u[i + 1] = t[n] /\ u[i + 2] = c /\ ~(i + 2 <= n) /\ n >= 2
      BY <1>1, <1>2, <2>2
    <3>2. ~(j + 2 <= n)
      BY <2>2
    <3>3. ~(u[i] = "CR" /\ u[i + 1] = "LF" /\ u[i + 2] \in Blanks)
      BY <1>1, <3>1, <3>2 DEF Broken
    <3>4. QED
      BY <3>1, <3>3
  <2>3. CASE ~(i + 2 <= n + 1)
    BY <1>1, <2>3
  <2>4. QED
    BY <1>1, <2>1, <2>2, <2>3
<1>4. QED
  BY <1>1, <1>2, <1>3 DEF Folded

LEMMA FoldedLast ==
  ASSUME NEW S, NEW t \in Seq(S), NEW c \in S
  PROVE  Folded(Append(t, c), Len(t) + 1) <=> Open(t) /\ c \in Blanks
<1>1. PICK n \in Nat : n = Len(t)
  OBVIOUS
<1>2. PICK u \in Seq(S) : /\ u = Append(t, c) /\ Len(u) = n + 1 /\ u[n + 1] = c
                          /\ \A i \in 1..n : u[i] = t[i]
  <2>1. PICK u \in Seq(S) : u = Append(t, c) /\ AppendedTo(u, t, c, n)
    BY <1>1, AppendedAt
  <2>2. QED
    BY <2>1, Zenon DEF AppendedTo
<1>3. ASSUME NEW i \in 1..(n + 1), i + 2 <= n + 1, u[i] = "CR", u[i + 1] = "LF",
             \A k \in (i + 2)..(n + 1) : u[k] \in Blanks
      PROVE  Open(t) /\ c \in Blanks
  <2>1. i \in 1..(n - 1) /\ u[i] = t[i] /\ u[i + 1] = t[i + 1]
    BY <1>2, <1>3
  <2>2. \A k \in (i + 2)..n : t[k] \in Blanks
    BY <1>2, <1>3
  <2>3. c \in Blanks
    BY <1>2, <1>3
  <2>4. QED
    BY <1>1, <1>3, <2>1, <2>2, <2>3 DEF Open, OpenAt
<1>4. ASSUME c \in Blanks, NEW i \in 1..(n - 1), OpenAt(t, i)
      PROVE  /\ i \in 1..(n + 1) /\ i + 2 <= n + 1 /\ u[i] = "CR" /\ u[i + 1] = "LF"
             /\ u[i + 2] \in Blanks
             /\ \A k \in (i + 2)..(n + 1) : u[k] \in Blanks
  <2>1. i \in 1..(n + 1) /\ i + 2 <= n + 1 /\ u[i] = "CR" /\ u[i + 1] = "LF"
    BY <1>2, <1>4 DEF OpenAt
  <2>2. \A k \in (i + 2)..(n + 1) : u[k] \in Blanks
    BY <1>1, <1>2, <1>4 DEF OpenAt
  <2>3. i + 2 \in (i + 2)..(n + 1)
    BY <2>1
  <2>4. QED
    BY <2>1, <2>2, <2>3, Zenon
<1>5. Folded(u, n + 1) => Open(t) /\ c \in Blanks
  BY <1>2, <1>3 DEF Folded
<1>6. Open(t) /\ c \in Blanks => Folded(u, n + 1)
  <2> SUFFICES ASSUME Open(t), c \in Blanks PROVE Folded(u, n + 1)
    OBVIOUS
  <2>1. PICK i \in 1..(n - 1) : OpenAt(t, i)
    BY <1>1 DEF Open
  <2>2. QED
    BY <1>2, <1>4, <2>1 DEF Folded
<1>7. QED
  BY <1>1, <1>2, <1>5, <1>6

\* What is kept of a text that a byte was appended to.
LEMMA KeptAppended ==
  ASSUME NEW S, NEW t \in Seq(S), NEW c \in S, c \notin Blanks \/ ~Broken(t)
  PROVE  Unfold(Append(t, c)) =
           Unfold(t) \o (IF Open(t) /\ c \in Blanks THEN <<>> ELSE <<c>>)
<1>1. PICK n \in Nat : n = Len(t)
  OBVIOUS
<1>2. PICK u \in Seq(S) : /\ u = Append(t, c) /\ Len(u) = n + 1 /\ u[n + 1] = c
                          /\ \A i \in 1..n : u[i] = t[i]
  <2>1. PICK u \in Seq(S) : u = Append(t, c) /\ AppendedTo(u, t, c, n)
    BY <1>1, AppendedAt
  <2>2. QED
    BY <2>1, Zenon DEF AppendedTo
<1>3. PICK g \in Seq(Seq(S)) : /\ Unfold(t) = FlattenSeq(g) /\ Len(g) = n
                               /\ \A j \in 1..n : g[j] = Kept(t, j)
  BY <1>1, KeptType, Zenon
<1>4. PICK h \in Seq(Seq(S)) : /\ Unfold(u) = FlattenSeq(h) /\ Len(h) = n + 1
                               /\ \A j \in 1..(n + 1) : h[j] = Kept(u, j)
  <2>1. Len(u) = n + 1
    BY <1>2
  <2>2. LET g2 == [j \in DOMAIN u |-> Kept(u, j)]
        IN /\ Unfold(u) = FlattenSeq(g2) /\ g2 \in Seq(Seq(S)) /\ Len(g2) = Len(u)
           /\ \A j \in 1..Len(u) : g2[j] = Kept(u, j)
    BY KeptType
  <2>3. QED
    BY <2>1, <2>2, Zenon
<1>5. PICK e \in Seq(S) : e = IF Open(t) /\ c \in Blanks THEN <<>> ELSE <<c>>
  <2>1. <<c>> \in Seq(S) /\ <<>> \in Seq(S)
    OBVIOUS
  <2>2. QED
    BY <2>1, Zenon
<1>6. \A j \in 1..n : h[j] = g[j]
  <2> SUFFICES ASSUME NEW j \in 1..n PROVE h[j] = g[j]
    OBVIOUS
  <2>1. Folded(u, j) <=> Folded(t, j)
    BY <1>1, <1>2, FoldedBefore
  <2>2. u[j] = t[j] /\ j \in 1..(n + 1)
    BY <1>2
  <2>3. QED
    BY <1>3, <1>4, <2>1, <2>2, Zenon DEF Kept
<1>7. h[n + 1] = e
  <2>1. Folded(u, n + 1) <=> Open(t) /\ c \in Blanks
    BY <1>1, <1>2, FoldedLast, Zenon
  <2>2. n + 1 \in 1..(n + 1)
    OBVIOUS
  <2>3. QED
    BY <1>2, <1>4, <1>5, <2>1, <2>2, Zenon DEF Kept
<1>8. h = Append(g, e)
  <2>1. PICK v \in Seq(Seq(S)) : /\ v = Append(g, e) /\ Len(v) = n + 1 /\ v[n + 1] = e
                                 /\ \A i \in 1..n : v[i] = g[i]
    <3>1. PICK v \in Seq(Seq(S)) : v = Append(g, e) /\ AppendedTo(v, g, e, n)
      BY <1>3, AppendedAt
    <3>2. QED
      BY <3>1, Zenon DEF AppendedTo
  <2>2. Len(h) = Len(v) /\ \A j \in 1..Len(h) : h[j] = v[j]
    <3>1. \A j \in 1..(n + 1) : j = n + 1 \/ j \in 1..n
      OBVIOUS
    <3>2. QED
      BY <1>4, <1>6, <1>7, <2>1, <3>1, Zenon
  <2>3. h = v
    BY <2>2, SeqEqual
  <2>4. QED
    BY <2>1, <2>3, Zenon
<1>9. FlattenSeq(h) = FlattenSeq(g) \o e
  BY <1>8, FlattenAppend
<1>10. QED
  BY <1>2, <1>3, <1>4, <1>5, <1>9, Zenon

LEMMA UnfoldAppend ==
  ASSUME NEW S, NEW t \in Seq(S), NEW c \in S, c \notin Blanks \/ ~Open(t)
  PROVE  Unfold(Append(t, c)) = Append(Unfold(t), c)
<1>1. c \notin Blanks \/ ~Broken(t)
  BY BrokenIsOpen
<1>2. Unfold(Append(t, c)) =
        Unfold(t) \o (IF Open(t) /\ c \in Blanks THEN <<>> ELSE <<c>>)
  BY <1>1, KeptAppended
<1>3. Unfold(Append(t, c)) = Unfold(t) \o <<c>>
  BY <1>2, Zenon
<1>4. Append(Unfold(t), c) = Unfold(t) \o <<c>>
  BY UnfoldType, AppendIsConcat
<1>5. QED
  BY <1>3, <1>4, Zenon

LEMMA UnfoldBlank ==
  ASSUME NEW S, NEW t \in Seq(S), NEW c \in S, c \in Blanks, Open(t), ~Broken(t)
  PROVE  Unfold(Append(t, c)) = Unfold(t)
<1>1. Unfold(Append(t, c)) =
        Unfold(t) \o (IF Open(t) /\ c \in Blanks THEN <<>> ELSE <<c>>)
  BY KeptAppended
<1>2. Unfold(Append(t, c)) = Unfold(t) \o <<>>
  BY <1>1, Zenon
<1>3. Unfold(t) \o <<>> = Unfold(t)
  BY UnfoldType, ConcatEmptySeq
<1>4. QED
  BY <1>2, <1>3, Zenon

\* A blank after a line break takes the line break back.
LEMMA UnfoldBreak ==
  ASSUME NEW S, NEW t \in Seq(S), "CR" \in S, "LF" \in S, NEW c \in S, c \in Blanks
  PROVE  Unfold(Append(Append(Append(t, "CR"), "LF"), c)) = Unfold(t)
<1>0. "CR" \notin Blanks /\ "LF" \notin Blanks
  BY DEF Blanks
<1>1. PICK n \in Nat : n = Len(t)
  OBVIOUS
<1>2. PICK r \in Seq(S) : /\ r = Append(t, "CR") /\ Len(r) = n + 1 /\ r[n + 1] = "CR"
                          /\ \A i \in 1..n : r[i] = t[i]
  <2>1. PICK u \in Seq(S) : u = Append(t, "CR") /\ AppendedTo(u, t, "CR", n)
    BY <1>1, AppendedAt
  <2>2. QED
    BY <2>1, Zenon DEF AppendedTo
<1>3. PICK l \in Seq(S) : /\ l = Append(r, "LF") /\ Len(l) = n + 2 /\ l[n + 2] = "LF"
                          /\ \A i \in 1..(n + 1) : l[i] = r[i]
  <2>1. PICK m \in Nat : m = n + 1 /\ m + 1 = n + 2
    OBVIOUS
  <2>2. PICK u \in Seq(S) : u = Append(r, "LF") /\ AppendedTo(u, r, "LF", m)
    BY <1>2, <2>1, AppendedAt
  <2>3. QED
    BY <2>1, <2>2, Zenon DEF AppendedTo
<1>4. PICK u \in Seq(S) : /\ u = Append(l, c) /\ Len(u) = n + 3 /\ u[n + 3] = c
                          /\ \A i \in 1..(n + 2) : u[i] = l[i]
  <2>1. PICK m \in Nat : m = n + 2 /\ m + 1 = n + 3
    OBVIOUS
  <2>2. PICK v \in Seq(S) : v = Append(l, c) /\ AppendedTo(v, l, c, m)
    BY <1>3, <2>1, AppendedAt
  <2>3. QED
    BY <2>1, <2>2, Zenon DEF AppendedTo
<1>5. \A j \in 1..n : Kept(u, j) = Kept(t, j)
  <2> SUFFICES ASSUME NEW j \in 1..n PROVE Kept(u, j) = Kept(t, j)
    OBVIOUS
  <2>1. Folded(r, j) <=> Folded(t, j)
    BY <1>0, <1>1, <1>2, FoldedBefore
  <2>2. Folded(l, j) <=> Folded(r, j)
    <3>1. j \in 1..Len(r)
      BY <1>2
    <3>2. QED
      BY <1>0, <1>3, <3>1, FoldedBefore
  <2>3. Folded(u, j) <=> Folded(l, j)
    <3>1. j \in 1..Len(l) /\ j + 2 <= Len(l)
      BY <1>3
    <3>2. QED
      BY <1>4, <3>1, FoldedBefore
  <2>4. u[j] = t[j]
    BY <1>2, <1>3, <1>4
  <2>5. QED
    BY <2>1, <2>2, <2>3, <2>4, Zenon DEF Kept
<1>6. Kept(u, n + 1) = <<>> /\ Kept(u, n + 2) = <<>> /\ Kept(u, n + 3) = <<>>
  <2>1. u[n + 1] = "CR" /\ u[n + 2] = "LF" /\ u[n + 3] = c
    BY <1>2, <1>3, <1>4
  <2>2. ASSUME NEW j \in {n + 1, n + 2, n + 3} PROVE Folded(u, j)
    <3>1. PICK i \in 1..j : i = n + 1
      OBVIOUS
    <3>2. i + 2 <= Len(u) /\ u[i] = "CR" /\ u[i + 1] = "LF" /\ u[i + 2] = c
      BY <1>4, <2>1, <3>1
    <3>3. \A k \in (i + 2)..j : k = i + 2
      BY <3>1
    <3>4. QED
      BY <3>2, <3>3, Zenon DEF Folded
  <2>3. QED
    BY <2>2 DEF Kept
<1>7. PICK g \in Seq(Seq(S)) : /\ Unfold(t) = FlattenSeq(g) /\ Len(g) = n
                               /\ \A j \in 1..n : g[j] = Kept(t, j)
  BY <1>1, KeptType, Zenon
<1>8. PICK h \in Seq(Seq(S)) : /\ Unfold(u) = FlattenSeq(h) /\ Len(h) = n + 3
                               /\ \A j \in 1..(n + 3) : h[j] = Kept(u, j)
  <2>1. Len(u) = n + 3
    BY <1>4
  <2>2. LET g2 == [j \in DOMAIN u |-> Kept(u, j)]
        IN /\ Unfold(u) = FlattenSeq(g2) /\ g2 \in Seq(Seq(S)) /\ Len(g2) = Len(u)
           /\ \A j \in 1..Len(u) : g2[j] = Kept(u, j)
    BY KeptType
  <2>3. QED
    BY <2>1, <2>2, Zenon
<1>9. PICK e \in Seq(S) : e = <<>>
  <2>1. <<>> \in Seq(S)
    OBVIOUS
  <2>2. QED
    BY <2>1, Zenon
<1>10. h = Append(Append(Append(g, e), e), e)
  <2>1. PICK a \in Seq(Seq(S)) : /\ a = Append(g, e) /\ Len(a) = n + 1 /\ a[n + 1] = e
                                 /\ \A i \in 1..n : a[i] = g[i]
    <3>1. PICK v \in Seq(Seq(S)) : v = Append(g, e) /\ AppendedTo(v, g, e, n)
      BY <1>7, AppendedAt
    <3>2. QED
      BY <3>1, Zenon DEF AppendedTo
  <2>2. PICK b \in Seq(Seq(S)) : /\ b = Append(a, e) /\ Len(b) = n + 2 /\ b[n + 2] = e
                                 /\ \A i \in 1..(n + 1) : b[i] = a[i]
    <3>1. PICK m \in Nat : m = n + 1 /\ m + 1 = n + 2
      OBVIOUS
    <3>2. PICK v \in Seq(Seq(S)) : v = Append(a, e) /\ AppendedTo(v, a, e, m)
      BY <2>1, <3>1, AppendedAt
    <3>3. QED
      BY <3>1, <3>2, Zenon DEF AppendedTo
  <2>3. PICK d \in Seq(Seq(S)) : /\ d = Append(b, e) /\ Len(d) = n + 3 /\ d[n + 3] = e
                                 /\ \A i \in 1..(n + 2) : d[i] = b[i]
    <3>1. PICK m \in Nat : m = n + 2 /\ m + 1 = n + 3
      OBVIOUS
    <3>2. PICK v \in Seq(Seq(S)) : v = Append(b, e) /\ AppendedTo(v, b, e, m)
      BY <2>2, <3>1, AppendedAt
    <3>3. QED
      BY <3>1, <3>2, Zenon DEF AppendedTo
  <2>4. \A j \in 1..(n + 3) : h[j] = d[j]
    <3>1. ASSUME NEW j \in 1..n PROVE h[j] = d[j]
      <4>1. h[j] = g[j]
        BY <1>5, <1>7, <1>8
      <4>2. d[j] = g[j]
        BY <2>1, <2>2, <2>3
      <4>3. QED
        BY <4>1, <4>2
    <3>2. h[n + 1] = e /\ h[n + 2] = e /\ h[n + 3] = e
      <4>1. n + 1 \in 1..(n + 3) /\ n + 2 \in 1..(n + 3) /\ n + 3 \in 1..(n + 3)
        OBVIOUS
      <4>2. QED
        BY <1>6, <1>8, <1>9, <4>1, Zenon
    <3>3. d[n + 1] = e /\ d[n + 2] = e /\ d[n + 3] = e
      BY <2>1, <2>2, <2>3
    <3>4. \A j \in 1..(n + 3) : j \in 1..n \/ j = n + 1 \/ j = n + 2 \/ j = n + 3
      OBVIOUS
    <3>5. QED
      BY <3>1, <3>2, <3>3, <3>4, Zenon
  <2>5. h = d
    BY <1>8, <2>3, <2>4, SeqEqual
  <2>6. QED
    BY <2>1, <2>2, <2>3, <2>5, Zenon
<1>11. FlattenSeq(h) = FlattenSeq(g)
  <2>1. PICK a \in Seq(Seq(S)) : a = Append(g, e)
    BY AppendedAt
  <2>2. PICK b \in Seq(Seq(S)) : b = Append(a, e)
    BY AppendedAt
  <2>3. /\ FlattenSeq(Append(g, e)) = FlattenSeq(g) \o e
        /\ FlattenSeq(Append(a, e)) = FlattenSeq(a) \o e
        /\ FlattenSeq(Append(b, e)) = FlattenSeq(b) \o e
    BY FlattenAppend
  <2>4. \A x \in Seq(S) : x \o <<>> = x
    BY ConcatEmptySeq
  <2>5. FlattenSeq(g) \in Seq(S) /\ FlattenSeq(a) \in Seq(S) /\ FlattenSeq(b) \in Seq(S)
    BY FlattenType
  <2>6. QED
    BY <1>9, <1>10, <2>1, <2>2, <2>3, <2>4, <2>5, Zenon
<1>12. QED
  BY <1>2, <1>3, <1>4, <1>7, <1>8, <1>11, Zenon

-----------------------------------------------------------------------------
(* The text of a request, as far as it has been read *)

Then(x, c) == Append(x, c)
Joined(x, y) == x \o y

LEMMA AppendMoves ==
  ASSUME NEW S, NEW x \in Seq(S), NEW y \in Seq(S), NEW c \in S
  PROVE  Then(Joined(x, y), c) = Joined(x, Then(y, c))
<1>1. PICK e \in Seq(S) : e = <<c>>
  <2>1. <<c>> \in Seq(S)
    OBVIOUS
  <2>2. QED
    BY <2>1, Zenon
<1>2. x \o y \in Seq(S)
  OBVIOUS
<1>3. Append(x \o y, c) = (x \o y) \o <<c>> /\ Append(y, c) = y \o <<c>>
  BY <1>2, AppendIsConcat
<1>4. (x \o y) \o e = x \o (y \o e)
  BY ConcatAssociative
<1>5. QED
  BY <1>1, <1>3, <1>4, Zenon DEF Then, Joined

LEMMA AppendTwice ==
  ASSUME NEW S, NEW x \in Seq(S), NEW c \in S, NEW d \in S
  PROVE  x \o <<c, d>> = Append(Append(x, c), d)
<1>1. PICK a \in Seq(S) : a = Append(x, c)
  BY AppendedAt
<1>2. a = x \o <<c>>
  BY <1>1, AppendIsConcat
<1>3. Append(a, d) = a \o <<d>>
  BY AppendIsConcat
<1>4. x \o <<c, d>> = (x \o <<c>>) \o <<d>>
  BY FollowedTwice
<1>5. QED
  BY <1>1, <1>2, <1>3, <1>4, Zenon

ThreePairs(a, b, c, d, e, f) ==
  <<a, b, c, d, e, f>> = (<<a, b>> \o <<c, d>>) \o <<e, f>>

LEMMA SixIsThreePairs ==
  ASSUME NEW a, NEW b, NEW c, NEW d, NEW e, NEW f
  PROVE  ThreePairs(a, b, c, d, e, f)
<1>1. PICK S : a \in S /\ b \in S /\ c \in S /\ d \in S /\ e \in S /\ f \in S
  <2>1. LET T == {a, b, c, d, e, f}
        IN a \in T /\ b \in T /\ c \in T /\ d \in T /\ e \in T /\ f \in T
    OBVIOUS
  <2>2. QED
    BY <2>1, Zenon
<1>2. PICK t \in Seq(S) : t = <<a, b, c, d, e, f>> /\ Len(t) = 6 /\ t[1] = a /\ t[2] = b
                          /\ t[3] = c /\ t[4] = d /\ t[5] = e /\ t[6] = f
  <2>1. <<a, b, c, d, e, f>> \in Seq(S)
    BY <1>1
  <2>2. QED
    BY <2>1
<1>3. PICK p \in Seq(S) : p = <<a, b>> /\ Len(p) = 2 /\ p[1] = a /\ p[2] = b
  <2>1. /\ <<a, b>> \in Seq(S) /\ Len(<<a, b>>) = 2
        /\ <<a, b>>[1] = a /\ <<a, b>>[2] = b
    BY <1>1
  <2>2. QED
    BY <2>1, Zenon
<1>4. PICK q \in Seq(S) : q = <<c, d>> /\ Len(q) = 2 /\ q[1] = c /\ q[2] = d
  <2>1. /\ <<c, d>> \in Seq(S) /\ Len(<<c, d>>) = 2
        /\ <<c, d>>[1] = c /\ <<c, d>>[2] = d
    BY <1>1
  <2>2. QED
    BY <2>1, Zenon
<1>5. PICK r \in Seq(S) : r = <<e, f>> /\ Len(r) = 2 /\ r[1] = e /\ r[2] = f
  <2>1. /\ <<e, f>> \in Seq(S) /\ Len(<<e, f>>) = 2
        /\ <<e, f>>[1] = e /\ <<e, f>>[2] = f
    BY <1>1
  <2>2. QED
    BY <2>1, Zenon
<1>6. ASSUME NEW x \in Seq(S), NEW y \in Seq(S)
      PROVE  \E u \in Seq(S) : /\ u = x \o y /\ Len(u) = Len(x) + Len(y)
                               /\ \A i \in 1..Len(x) : u[i] = x[i]
                               /\ \A i \in 1..Len(y) : u[Len(x) + i] = y[i]
  <2>1. /\ x \o y \in Seq(S) /\ Len(x \o y) = Len(x) + Len(y)
        /\ \A i \in 1..Len(x) : (x \o y)[i] = x[i]
        /\ \A i \in 1..Len(y) : (x \o y)[Len(x) + i] = y[i]
    BY ConcatAt
  <2>2. QED
    BY <2>1, Zenon
<1>7. PICK u \in Seq(S) : /\ u = p \o q /\ Len(u) = Len(p) + Len(q)
                          /\ \A i \in 1..Len(p) : u[i] = p[i]
                          /\ \A i \in 1..Len(q) : u[Len(p) + i] = q[i]
  BY <1>6
<1>8. Len(u) = 4 /\ u[1] = a /\ u[2] = b /\ u[3] = c /\ u[4] = d
  <2>1. Len(p) = 2 /\ p[1] = a /\ p[2] = b /\ Len(q) = 2 /\ q[1] = c /\ q[2] = d
    BY <1>3, <1>4, Zenon
  <2>2. /\ Len(u) = Len(p) + Len(q) /\ \A i \in 1..Len(p) : u[i] = p[i]
        /\ \A i \in 1..Len(q) : u[Len(p) + i] = q[i]
    BY <1>7, Zenon
  <2>3. QED
    BY <2>1, <2>2
<1>9. PICK v \in Seq(S) : /\ v = u \o r /\ Len(v) = Len(u) + Len(r)
                          /\ \A i \in 1..Len(u) : v[i] = u[i]
                          /\ \A i \in 1..Len(r) : v[Len(u) + i] = r[i]
  BY <1>6
<1>10. /\ Len(v) = 6 /\ v[1] = a /\ v[2] = b /\ v[3] = c /\ v[4] = d /\ v[5] = e
       /\ v[6] = f
  <2>1. Len(r) = 2 /\ r[1] = e /\ r[2] = f
    BY <1>5, Zenon
  <2>2. /\ Len(v) = Len(u) + Len(r) /\ \A i \in 1..Len(u) : v[i] = u[i]
        /\ \A i \in 1..Len(r) : v[Len(u) + i] = r[i]
    BY <1>9, Zenon
  <2>3. QED
    BY <1>8, <2>1, <2>2
<1>11. t = v
  <2>1. /\ Len(t) = 6 /\ t[1] = a /\ t[2] = b /\ t[3] = c /\ t[4] = d /\ t[5] = e
        /\ t[6] = f
    BY <1>2, Zenon
  <2>2. Len(t) = Len(v) /\ \A i \in 1..Len(t) : t[i] = v[i]
    BY <1>10, <2>1
  <2>3. QED
    BY <2>2, SeqEqual
<1>12. QED
  BY <1>2, <1>3, <1>4, <1>5, <1>7, <1>9, <1>11, Zenon DEF ThreePairs

AppendPair(x, c, d) == Append(Append(x, c), d)

ThenSix(x, a, b, c, d, e, f) ==
  x \o <<a, b, c, d, e, f>> = AppendPair(AppendPair(AppendPair(x, a, b), c, d), e, f)

\* Three sequences in a row: where the brackets stand does not matter.
Regroups(x, y, z) == (x \o y) \o z = x \o (y \o z)

LEMMA Regrouped ==
  ASSUME NEW S, NEW x \in Seq(S), NEW y \in Seq(S), NEW z \in Seq(S)
  PROVE  Regroups(x, y, z)
BY ConcatAssociative DEF Regroups

LEMMA AppendSix ==
  ASSUME NEW S, NEW x \in Seq(S),
         NEW a \in S, NEW b \in S, NEW c \in S, NEW d \in S, NEW e \in S, NEW f \in S
  PROVE  ThenSix(x, a, b, c, d, e, f)
<1>1. PICK p, q, r \in Seq(S) : p = <<a, b>> /\ q = <<c, d>> /\ r = <<e, f>>
  <2>1. <<a, b>> \in Seq(S) /\ <<c, d>> \in Seq(S) /\ <<e, f>> \in Seq(S)
    OBVIOUS
  <2>2. QED
    BY <2>1, Zenon
<1>2. PICK m \in Seq(S) : m = p \o q
  <2>1. p \o q \in Seq(S)
    OBVIOUS
  <2>2. QED
    BY <2>1, Zenon
<1>3. x \o ((p \o q) \o r) = ((x \o p) \o q) \o r
  <2>1. Regroups(x, m, r) /\ Regroups(x, p, q)
    BY Regrouped
  <2>2. QED
    BY <1>2, <2>1, Zenon DEF Regroups
<1>4. PICK y \in Seq(S) : y = x \o p
  <2>1. x \o p \in Seq(S)
    OBVIOUS
  <2>2. QED
    BY <2>1, Zenon
<1>5. PICK z \in Seq(S) : z = y \o q
  <2>1. y \o q \in Seq(S)
    OBVIOUS
  <2>2. QED
    BY <2>1, Zenon
<1>6. /\ x \o <<a, b>> = AppendPair(x, a, b) /\ y \o <<c, d>> = AppendPair(y, c, d)
      /\ z \o <<e, f>> = AppendPair(z, e, f)
  <2>1. x \o <<a, b>> = Append(Append(x, a), b)
    BY AppendTwice
  <2>2. y \o <<c, d>> = Append(Append(y, c), d)
    BY AppendTwice
  <2>3. z \o <<e, f>> = Append(Append(z, e), f)
    BY AppendTwice
  <2>4. QED
    BY <2>1, <2>2, <2>3, Zenon DEF AppendPair
<1>7. <<a, b, c, d, e, f>> = (p \o q) \o r
  <2>1. ThreePairs(a, b, c, d, e, f)
    BY SixIsThreePairs, Zenon
  <2>2. QED
    BY <1>1, <2>1, Zenon DEF ThreePairs
<1>8. QED
  BY <1>1, <1>3, <1>4, <1>5, <1>6, <1>7, Zenon DEF ThenSix

Texts == Seq(Byte)
Break(x) == Then(Then(x, "CR"), "LF")

LEMMA TextAlgebra ==
  /\ <<>> \in Texts
  /\ \A x \in Texts : Joined(x, <<>>) = x
  /\ \A x \in Texts, c \in Byte : Then(x, c) \in Texts /\ Joined(x, <<c>>) = Then(x, c)
  /\ \A x, y \in Texts : Joined(x, y) \in Texts
  /\ \A x, y \in Texts, c \in Byte : Then(Joined(x, y), c) = Joined(x, Then(y, c))
<1>1. <<>> \in Seq(Byte)
  OBVIOUS
<1>2. \A x \in Seq(Byte) : x \o <<>> = x
  BY ConcatEmptySeq
<1>3. \A x \in Seq(Byte), c \in Byte : Append(x, c) \in Seq(Byte)
  BY AppendProperties
<1>4. \A x \in Seq(Byte), c \in Byte : x \o <<c>> = Append(x, c)
  BY AppendIsConcat
<1>5. \A x, y \in Seq(Byte) : x \o y \in Seq(Byte)
  BY ConcatProperties
<1>6. ASSUME NEW x \in Seq(Byte), NEW y \in Seq(Byte), NEW c \in Byte
      PROVE  Then(Joined(x, y), c) = Joined(x, Then(y, c))
  BY AppendMoves
<1>7. QED
  BY <1>1, <1>2, <1>3, <1>4, <1>5, <1>6, Zenon DEF Texts, Then, Joined

LEMMA BreakType ==
  ASSUME NEW x \in Texts
  PROVE  Break(x) \in Texts
<1>1. "CR" \in Byte /\ "LF" \in Byte
  BY DEF Byte, AllBytes, Controls
<1>2. QED
  BY <1>1, TextAlgebra, Zenon DEF Break

\* A text that ends in a line break is what is before it in one way only.
LEMMA BreakCancels ==
  ASSUME NEW x \in Texts, NEW y \in Texts, Break(x) = Break(y)
  PROVE  x = y
<1>1. "CR" \in Byte /\ "LF" \in Byte
  BY DEF Byte, AllBytes, Controls
<1>2. \A u, v \in Texts, c \in Byte : Then(u, c) = Then(v, c) => u = v
  <2>1. \A u, v \in Seq(Byte), c \in Byte : Append(u, c) = Append(v, c) => u = v
    BY AppendInjective
  <2>2. QED
    BY <2>1, Zenon DEF Texts, Then
<1>3. Then(x, "CR") \in Texts /\ Then(y, "CR") \in Texts
  BY <1>1, TextAlgebra, Zenon
<1>4. Then(x, "CR") = Then(y, "CR")
  BY <1>1, <1>2, <1>3, Zenon DEF Break
<1>5. QED
  BY <1>1, <1>2, <1>4, Zenon

-----------------------------------------------------------------------------
(* Where the text read so far ends in a line break that may be continued *)

LEMMA NotOpen ==
  ASSUME NEW t \in Texts, NEW c \in Byte, c # "LF", c \notin Blanks \/ ~Open(t)
  PROVE  ~Open(Then(t, c))
<1>1. PICK n \in Nat : n = Len(t) /\ t \in Seq(Byte)
  BY DEF Texts
<1>2. PICK u \in Seq(Byte) : u = Then(t, c) /\ AppendedTo(u, t, c, n)
  BY <1>1, AppendedAt DEF Then
<1>3. ASSUME NEW i \in 1..(Len(u) - 1), OpenAt(u, i)
      PROVE  FALSE
  <2>1. Len(u) = n + 1 /\ u[n + 1] = c /\ \A k \in 1..n : u[k] = t[k]
    BY <1>2, Zenon DEF AppendedTo
  <2>2. u[i] = "CR" /\ u[i + 1] = "LF" /\ \A k \in (i + 2)..(n + 1) : u[k] \in Blanks
    BY <1>3, <2>1 DEF OpenAt
  <2>3. i # n
    BY <2>1, <2>2
  <2>4. i \in 1..(n - 1)
    BY <2>1, <2>3
  <2>5. c \in Blanks
    BY <2>1, <2>2, <2>4
  <2>6. OpenAt(t, i)
    BY <1>1, <2>1, <2>2, <2>4 DEF OpenAt
  <2>7. QED
    BY <1>1, <2>4, <2>5, <2>6 DEF Open
<1>4. QED
  BY <1>2, <1>3, Zenon DEF Open

LEMMA StaysOpen ==
  ASSUME NEW t \in Texts, NEW c \in Byte, c \in Blanks, Open(t)
  PROVE  Open(Then(t, c)) /\ ~Broken(Then(t, c))
<1>1. PICK n \in Nat : n = Len(t) /\ t \in Seq(Byte)
  BY DEF Texts
<1>2. PICK u \in Seq(Byte) : u = Then(t, c) /\ AppendedTo(u, t, c, n)
  BY <1>1, AppendedAt DEF Then
<1>3. Len(u) = n + 1 /\ u[n + 1] = c /\ \A k \in 1..n : u[k] = t[k]
  BY <1>2, Zenon DEF AppendedTo
<1>4. PICK i \in 1..(n - 1) : OpenAt(t, i)
  BY <1>1 DEF Open
<1>5. t[i] = "CR" /\ t[i + 1] = "LF" /\ \A k \in (i + 2)..n : t[k] \in Blanks
  BY <1>1, <1>4 DEF OpenAt
<1>6. OpenAt(u, i)
  <2>1. u[i] = "CR" /\ u[i + 1] = "LF"
    BY <1>3, <1>5
  <2>2. \A k \in (i + 2)..(n + 1) : u[k] \in Blanks
    BY <1>3, <1>5
  <2>3. QED
    BY <1>3, <2>1, <2>2 DEF OpenAt
<1>7. Open(u)
  BY <1>3, <1>6 DEF Open
<1>8. ~Broken(u)
  <2>1. c # "LF"
    BY DEF Blanks
  <2>2. QED
    BY <1>3, <2>1 DEF Broken
<1>9. QED
  BY <1>2, <1>7, <1>8, Zenon

LEMMA BreakOpens ==
  ASSUME NEW t \in Texts
  PROVE  Open(Break(t))
<1>0. "CR" \in Byte /\ "LF" \in Byte
  BY DEF Byte, AllBytes, Controls
<1>1. PICK n \in Nat : n = Len(t) /\ t \in Seq(Byte)
  BY DEF Texts
<1>2. PICK u \in Seq(Byte) : u = Then(t, "CR") /\ AppendedTo(u, t, "CR", n)
  BY <1>0, <1>1, AppendedAt DEF Then
<1>3. PICK m \in Nat : m = n + 1 /\ m = Len(u) /\ u[m] = "CR"
  BY <1>2 DEF AppendedTo
<1>4. PICK v \in Seq(Byte) : v = Then(u, "LF") /\ AppendedTo(v, u, "LF", m)
  BY <1>0, <1>3, AppendedAt DEF Then
<1>5. Len(v) = m + 1 /\ v[m + 1] = "LF" /\ \A i \in 1..m : v[i] = u[i]
  BY <1>4, Zenon DEF AppendedTo
<1>6. Broken(v)
  BY <1>3, <1>5 DEF Broken
<1>7. Open(v)
  BY <1>6, BrokenIsOpen
<1>8. QED
  BY <1>2, <1>4, <1>7, Zenon DEF Break

\* What the bytes read so far say about line breaks, by state.
BreaksInv == result = "indeterminate" =>
  /\ state \notin {"header_line_start", "header_lws"} => ~Open(input)
  /\ state = "header_lws" => Open(input) /\ ~Broken(input)
  /\ state \in {"expecting_newline_1", "expecting_newline_2"} =>
       \E t \in Texts : input = Then(t, "CR")
  /\ state = "header_line_start" => \E t \in Texts : input = Break(t)

LEMMA ConsumedSteps ==
  ASSUME IInv, NEW c \in Byte, Consume(c), result' = "indeterminate"
  PROVE  /\ Moves(state, state', c) /\ state' = Target(c) /\ state' # "true"
         /\ result = "indeterminate"
         /\ StoreRequestLine(state', c) /\ StoreHeader(state', c)
         /\ input' = Then(input, c) /\ input \in Texts
<1>1. Target(c) \notin {"true", "false"} /\ state' = Target(c)
  BY DEF Consume
<1>2. Moves(state, Target(c), c)
  BY <1>1, TargetMoves DEF IInv, TypeOK
<1>3. result = "indeterminate" /\ input' = Then(input, c)
  BY DEF Consume, Then
<1>4. StoreRequestLine(Target(c), c) /\ StoreHeader(Target(c), c)
  BY DEF Consume
<1>5. input \in Texts
  BY DEF IInv, TypeOK, Texts, Byte
<1>6. QED
  BY <1>1, <1>2, <1>3, <1>4, <1>5, Zenon

LEMMA BreaksStep ==
  ASSUME IInv, BreaksInv, NEW c \in Byte, Consume(c)
  PROVE  BreaksInv'
<1> SUFFICES ASSUME result' = "indeterminate"
             PROVE  /\ state' \notin {"header_line_start", "header_lws"} => ~Open(input')
                    /\ state' = "header_lws" => Open(input') /\ ~Broken(input')
                    /\ state' \in {"expecting_newline_1", "expecting_newline_2"} =>
                         \E t \in Texts : input' = Then(t, "CR")
                    /\ state' = "header_line_start" => \E t \in Texts : input' = Break(t)
  BY DEF BreaksInv
<1>1. /\ Moves(state, state', c) /\ result = "indeterminate"
      /\ input' = Then(input, c) /\ input \in Texts
  BY ConsumedSteps
<1>2. CASE state' \notin {"header_line_start", "header_lws"}
  <2>1. c # "LF"
    BY <1>1, <1>2, ConsumedSteps DEF Moves, IsToken, IsCtl, Controls, IsDigit, Digits
  <2>2. c \notin Blanks \/ state \notin {"header_line_start", "header_lws"}
    BY <1>1, <1>2 DEF Moves, IsToken, IsCtl, Specials, Blanks
  <2>3. ~Open(input')
    BY <1>1, <2>1, <2>2, NotOpen DEF BreaksInv
  <2>4. state' \in {"expecting_newline_1", "expecting_newline_2"} => c = "CR"
    BY <1>1 DEF Moves
  <2>5. QED
    BY <1>1, <1>2, <2>3, <2>4
<1>3. CASE state' = "header_lws"
  <2>1. c \in Blanks /\ state \in {"header_line_start", "header_lws"}
    BY <1>1, <1>3 DEF Moves
  <2>2. Open(input)
    BY <1>1, <2>1, BreakOpens DEF BreaksInv
  <2>3. QED
    BY <1>1, <1>3, <2>1, <2>2, StaysOpen
<1>4. CASE state' = "header_line_start"
  <2>1. c = "LF" /\ state \in {"expecting_newline_1", "expecting_newline_2"}
    BY <1>1, <1>4 DEF Moves
  <2>2. PICK t \in Texts : input = Then(t, "CR")
    BY <1>1, <2>1 DEF BreaksInv
  <2>3. input' = Break(t)
    BY <1>1, <2>1, <2>2, Zenon DEF Break
  <2>4. QED
    BY <1>4, <2>3
<1>5. QED
  BY <1>2, <1>3, <1>4

\* The text that has been read, unfolded, as the byte is read.
LEMMA UnfoldThen ==
  ASSUME NEW t \in Texts, NEW c \in Byte, c \notin Blanks \/ ~Open(t)
  PROVE  Unfold(Then(t, c)) = Then(Unfold(t), c)
<1>1. t \in Seq(Byte)
  BY DEF Texts
<1>2. Unfold(Append(t, c)) = Append(Unfold(t), c)
  BY <1>1, UnfoldAppend
<1>3. QED
  BY <1>2, Zenon DEF Then

LEMMA UnfoldText ==
  ASSUME NEW t \in Texts
  PROVE  Unfold(t) \in Texts
BY UnfoldType DEF Texts

-----------------------------------------------------------------------------
(* The request line, as far as it has been read *)

UriText(m, u) == Joined(Then(m, "SP"), u)
SpaceH(x) == Then(Then(x, "SP"), "H")
TwoT(x) == Then(Then(x, "T"), "T")
Slash(x) == Then(Then(x, "P"), "/")
MajorText(m, u, j) == Joined(Slash(TwoT(SpaceH(UriText(m, u)))), j)
MinorText(m, u, j, n) == Joined(Then(MajorText(m, u, j), "."), n)
LineText(m, u, j, n) == Break(MinorText(m, u, j, n))

\* x is the text of a request line that has been read up to state s.
LineRead(s, x, m, u, j, n) ==
  /\ s \in {"method_start", "method"} => x = m
  /\ s = "uri" => x = UriText(m, u)
  /\ s = "http_version_h" => x = Then(UriText(m, u), "SP")
  /\ s = "http_version_t_1" => x = SpaceH(UriText(m, u))
  /\ s = "http_version_t_2" => x = Then(SpaceH(UriText(m, u)), "T")
  /\ s = "http_version_p" => x = TwoT(SpaceH(UriText(m, u)))
  /\ s = "http_version_slash" => x = Then(TwoT(SpaceH(UriText(m, u))), "P")
  /\ s \in {"http_version_major_start", "http_version_major"} => x = MajorText(m, u, j)
  /\ s \in {"http_version_minor_start", "http_version_minor"} => x = MinorText(m, u, j, n)
  /\ s = "expecting_newline_1" => x = Then(MinorText(m, u, j, n), "CR")

BeforeUri == {"method_start", "method"}

\* A field is empty until the state in which it is read.
EmptyInv ==
  /\ state \in BeforeUri => uri = <<>>
  /\ state \in BeforeMajor => major = <<>>
  /\ state \in BeforeMinor => minor = <<>>
  /\ state \in States \ HeaderStates => headers = <<>>

LineTextInv == result = "indeterminate" =>
  LineRead(state, Unfold(input), method, uri, major, minor)

LEMMA EmptyStep ==
  ASSUME IInv, EmptyInv, NEW c \in Byte, Consume(c)
  PROVE  EmptyInv'
<1>1. PICK t : t = Target(c)
  OBVIOUS
<1>2. StoreRequestLine(t, c) /\ StoreHeader(t, c)
  BY <1>1 DEF Consume
<1>3. CASE t = "false"
  BY <1>1, <1>2, <1>3 DEF EmptyInv, StoreRequestLine, StoreHeader, Consume
<1>4. CASE t # "false"
  <2>1. Moves(state, t, c)
    BY <1>1, <1>4, TargetMoves DEF IInv, TypeOK
  <2>2. state' = IF t = "true" THEN state ELSE t
    BY <1>1, <1>4 DEF Consume
  <2>3. state' \in BeforeUri => uri' = <<>>
    BY <1>2, <2>1, <2>2 DEF Moves, BeforeUri, StoreRequestLine, EmptyInv
  <2>4. state' \in BeforeMajor => major' = <<>>
    BY <1>2, <2>1, <2>2 DEF Moves, BeforeMajor, StoreRequestLine, EmptyInv
  <2>5. state' \in BeforeMinor => minor' = <<>>
    BY <1>2, <2>1, <2>2 DEF Moves, BeforeMajor, BeforeMinor, StoreRequestLine, EmptyInv
  <2>6. state' \in States \ HeaderStates => headers' = <<>>
    <3>1. state' \in States \ HeaderStates => state \in States \ HeaderStates
      BY <2>1, <2>2 DEF Moves, States, HeaderStates
    <3>2. state \in States \ HeaderStates => headers' = headers
      BY <1>2 DEF StoreHeader, States, HeaderStates
    <3>3. QED
      BY <3>1, <3>2 DEF EmptyInv
  <2>7. QED
    BY <2>3, <2>4, <2>5, <2>6 DEF EmptyInv
<1>5. QED
  BY <1>3, <1>4

\* Every part of the request line that has been read is a text.
LEMMA LineTypes ==
  ASSUME NEW m \in Texts, NEW u \in Texts, NEW j \in Texts, NEW n \in Texts
  PROVE  /\ UriText(m, u) \in Texts /\ Then(m, "SP") \in Texts
         /\ Slash(TwoT(SpaceH(UriText(m, u)))) \in Texts
         /\ MajorText(m, u, j) \in Texts /\ Then(MajorText(m, u, j), ".") \in Texts
         /\ MinorText(m, u, j, n) \in Texts /\ LineText(m, u, j, n) \in Texts
<1>1. {"SP", "H", "T", "P", "/", "."} \subseteq Byte
  BY DEF Byte, AllBytes, Controls, Letters, Specials
<1>2. /\ \A x \in Texts, c \in {"SP", "H", "T", "P", "/", "."} : Then(x, c) \in Texts
      /\ \A x, y \in Texts : Joined(x, y) \in Texts
  BY <1>1, TextAlgebra
<1>3. \A x \in Texts : SpaceH(x) \in Texts /\ TwoT(x) \in Texts /\ Slash(x) \in Texts
  BY <1>2 DEF SpaceH, TwoT, Slash
<1>4. UriText(m, u) \in Texts /\ Then(m, "SP") \in Texts
  BY <1>2 DEF UriText
<1>5. Slash(TwoT(SpaceH(UriText(m, u)))) \in Texts
  BY <1>3, <1>4
<1>6. MajorText(m, u, j) \in Texts /\ Then(MajorText(m, u, j), ".") \in Texts
  BY <1>2, <1>5 DEF MajorText
<1>7. MinorText(m, u, j, n) \in Texts
  BY <1>2, <1>6 DEF MinorText
<1>8. QED
  BY <1>4, <1>5, <1>6, <1>7, BreakType DEF LineText

LineStates == States \ HeaderStates

\* A byte of the request line is added to the text of what was read.
LEMMA LineTextStep ==
  ASSUME WellFormedInv, EmptyInv, BreaksInv, LineTextInv, NEW c \in Byte, Consume(c)
  PROVE  LineTextInv'
<1> SUFFICES ASSUME result' = "indeterminate", state' \in LineStates
             PROVE  LineRead(state', Unfold(input'), method', uri', major', minor')
  <2>1. state' \notin LineStates =>
          LineRead(state', Unfold(input'), method', uri', major', minor')
    BY DEF LineRead, LineStates, States, HeaderStates
  <2>2. QED
    BY <2>1 DEF LineTextInv
<1>1. /\ Moves(state, state', c) /\ StoreRequestLine(state', c)
      /\ result = "indeterminate" /\ input' = Then(input, c) /\ input \in Texts
  BY ConsumedSteps DEF WellFormedInv
<1>2. state \in LineStates
  BY <1>1 DEF Moves, LineStates, States, HeaderStates
<1>3. Unfold(input') = Then(Unfold(input), c)
  <2>1. ~Open(input)
    BY <1>1, <1>2 DEF BreaksInv, LineStates, HeaderStates
  <2>2. QED
    BY <1>1, <2>1, UnfoldThen
<1>4. method \in Texts /\ uri \in Texts /\ major \in Texts /\ minor \in Texts
  BY DEF WellFormedInv, IInv, TypeOK, Texts, Byte
<1>5. PICK x \in Texts : /\ x = Unfold(input)
                         /\ LineRead(state, x, method, uri, major, minor)
  BY <1>1, UnfoldText DEF LineTextInv
<1> DEFINE Line == LineRead(state', Then(x, c), method', uri', major', minor')
<1>6. ASSUME state' = "method" PROVE Line
  BY <1>1, <1>5, <1>6 DEF Moves, StoreRequestLine, LineRead, Then
<1>7. ASSUME state' = "uri", state = "method" PROVE Line
  <2>1. x = method /\ c = "SP" /\ uri = <<>>
    BY <1>1, <1>5, <1>7 DEF Moves, LineRead, EmptyInv, BeforeUri
  <2>2. Then(x, c) = UriText(method, uri)
    BY <1>4, <2>1, LineTypes, TextAlgebra, Zenon DEF UriText
  <2>3. method' = method /\ uri' = uri
    BY <1>1, <1>7 DEF StoreRequestLine
  <2>4. QED
    BY <1>7, <2>2, <2>3 DEF LineRead
<1>8. ASSUME state' = "uri", state # "method" PROVE Line
  <2>1. x = UriText(method, uri) /\ state = "uri"
    BY <1>1, <1>5, <1>8 DEF Moves, LineRead, WellFormedInv, LineInv
  <2>2. Then(x, c) = UriText(method, Then(uri, c))
    <3>1. Then(method, "SP") \in Texts
      BY <1>4, LineTypes
    <3>2. Then(Joined(Then(method, "SP"), uri), c)
            = Joined(Then(method, "SP"), Then(uri, c))
      BY <1>4, <3>1, TextAlgebra
    <3>3. QED
      BY <2>1, <3>2, Zenon DEF UriText
  <2>3. method' = method /\ uri' = Then(uri, c)
    BY <1>1, <1>8 DEF StoreRequestLine, Then
  <2>4. QED
    BY <1>8, <2>2, <2>3 DEF LineRead
<1>9. ASSUME state' \in {"http_version_h", "http_version_t_1", "http_version_t_2",
                         "http_version_p", "http_version_slash"}
      PROVE Line
  <2>1. method' = method /\ uri' = uri
    BY <1>1, <1>9 DEF StoreRequestLine
  <2>2. QED
    BY <1>1, <1>5, <1>9, <2>1 DEF Moves, LineRead, SpaceH, TwoT
<1>10. ASSUME state' = "http_version_major_start" PROVE Line
  <2>1. /\ x = Then(TwoT(SpaceH(UriText(method, uri))), "P") /\ c = "/"
        /\ major = <<>>
    BY <1>1, <1>5, <1>10 DEF Moves, LineRead, EmptyInv, BeforeMajor
  <2>2. Then(x, c) = MajorText(method, uri, major)
    BY <1>4, <2>1, LineTypes, TextAlgebra, Zenon DEF MajorText, Slash
  <2>3. method' = method /\ uri' = uri /\ major' = major
    BY <1>1, <1>10 DEF StoreRequestLine
  <2>4. QED
    BY <1>10, <2>2, <2>3 DEF LineRead
<1>11. ASSUME state' = "http_version_major" PROVE Line
  <2>1. x = MajorText(method, uri, major)
    BY <1>1, <1>5, <1>11 DEF Moves, LineRead
  <2>2. Then(x, c) = MajorText(method, uri, Then(major, c))
    <3>1. Slash(TwoT(SpaceH(UriText(method, uri)))) \in Texts
      BY <1>4, LineTypes
    <3>2. Then(Joined(Slash(TwoT(SpaceH(UriText(method, uri)))), major), c)
            = Joined(Slash(TwoT(SpaceH(UriText(method, uri)))), Then(major, c))
      BY <1>4, <3>1, TextAlgebra
    <3>3. QED
      BY <2>1, <3>2, Zenon DEF MajorText
  <2>3. method' = method /\ uri' = uri /\ major' = Then(major, c)
    BY <1>1, <1>11 DEF StoreRequestLine, Then
  <2>4. QED
    BY <1>11, <2>2, <2>3 DEF LineRead
<1>12. ASSUME state' = "http_version_minor_start" PROVE Line
  <2>1. x = MajorText(method, uri, major) /\ c = "." /\ minor = <<>>
    BY <1>1, <1>5, <1>12 DEF Moves, LineRead, EmptyInv, BeforeMinor
  <2>2. Then(x, c) = MinorText(method, uri, major, minor)
    BY <1>4, <2>1, LineTypes, TextAlgebra, Zenon DEF MinorText
  <2>3. method' = method /\ uri' = uri /\ major' = major /\ minor' = minor
    BY <1>1, <1>12 DEF StoreRequestLine
  <2>4. QED
    BY <1>12, <2>2, <2>3 DEF LineRead
<1>13. ASSUME state' = "http_version_minor" PROVE Line
  <2>1. x = MinorText(method, uri, major, minor)
    BY <1>1, <1>5, <1>13 DEF Moves, LineRead
  <2>2. Then(x, c) = MinorText(method, uri, major, Then(minor, c))
    <3>1. Then(MajorText(method, uri, major), ".") \in Texts
      BY <1>4, LineTypes
    <3>2. Then(Joined(Then(MajorText(method, uri, major), "."), minor), c)
            = Joined(Then(MajorText(method, uri, major), "."), Then(minor, c))
      BY <1>4, <3>1, TextAlgebra
    <3>3. QED
      BY <2>1, <3>2, Zenon DEF MinorText
  <2>3. method' = method /\ uri' = uri /\ major' = major /\ minor' = Then(minor, c)
    BY <1>1, <1>13 DEF StoreRequestLine, Then
  <2>4. QED
    BY <1>13, <2>2, <2>3 DEF LineRead
<1>14. ASSUME state' = "expecting_newline_1" PROVE Line
  <2>1. x = MinorText(method, uri, major, minor) /\ c = "CR"
    BY <1>1, <1>5, <1>14 DEF Moves, LineRead
  <2>2. method' = method /\ uri' = uri /\ major' = major /\ minor' = minor
    BY <1>1, <1>14 DEF StoreRequestLine
  <2>3. QED
    BY <1>14, <2>1, <2>2 DEF LineRead
<1>15. Line
  <2> HIDE DEF Line
  <2>1. state' \in {"method", "uri", "http_version_h", "http_version_t_1",
                    "http_version_t_2", "http_version_p", "http_version_slash",
                    "http_version_major_start", "http_version_major",
                    "http_version_minor_start", "http_version_minor",
                    "expecting_newline_1"}
    BY <1>1 DEF Moves, LineStates, States, HeaderStates
  <2>2. QED
    BY <2>1, <1>6, <1>7, <1>8, <1>9, <1>10, <1>11, <1>12, <1>13, <1>14
<1>16. QED
  BY <1>3, <1>5, <1>15, Zenon

-----------------------------------------------------------------------------
(* The header lines, as far as they have been read *)

HeadersText(x, hs) == Joined(x, FlattenSeq([i \in DOMAIN hs |-> HeaderText(hs[i])]))
ValueText(y, h) == Joined(Then(Then(Joined(y, h.name), ":"), "SP"), h.value)

LEMMA ConcatLeft ==
  ASSUME NEW x \in Texts, NEW y \in Texts, NEW z \in Texts
  PROVE  Joined(x, Joined(y, z)) = Joined(Joined(x, y), z)
<1>1. \A a, b, d \in Seq(Byte) : (a \o b) \o d = a \o (b \o d)
  BY ConcatAssociative
<1>2. QED
  BY <1>1, Zenon DEF Texts, Joined

LEMMA ThenPair ==
  ASSUME NEW x \in Texts, NEW c \in Byte, NEW d \in Byte
  PROVE  Joined(x, <<c, d>>) = Then(Then(x, c), d) /\ <<c, d>> \in Texts
<1>1. x \in Seq(Byte)
  BY DEF Texts
<1>2. x \o <<c, d>> = Append(Append(x, c), d)
  BY <1>1, AppendTwice
<1>3. <<c, d>> \in Seq(Byte)
  OBVIOUS
<1>4. QED
  BY <1>2, <1>3, Zenon DEF Then, Joined, Texts

LEMMA HeaderFields ==
  ASSUME NEW h \in Header
  PROVE  h.name \in Texts /\ h.value \in Texts
BY DEF Header, Texts

\* The line of a header, after what comes before it.
LEMMA HeaderTextIs ==
  ASSUME NEW y \in Texts, NEW h \in Header
  PROVE  /\ HeaderText(h) \in Texts
         /\ Joined(y, HeaderText(h)) = Break(ValueText(y, h))
<1>1. ":" \in Byte /\ "SP" \in Byte /\ "CR" \in Byte /\ "LF" \in Byte
  BY DEF Byte, AllBytes, Controls, Specials
<1>2. PICK a, v, p, b \in Texts : /\ a = h.name /\ v = h.value /\ p = <<":", "SP">>
                                  /\ b = CRLF
  <2>1. <<":", "SP">> \in Texts /\ CRLF \in Texts
    BY <1>1, ThenPair DEF CRLF
  <2>2. QED
    BY <2>1, HeaderFields, Zenon
<1>3. HeaderText(h) = Joined(Joined(Joined(a, p), v), b)
  BY <1>2, Zenon DEF HeaderText, Joined
<1>4. /\ Joined(a, p) \in Texts /\ Joined(Joined(a, p), v) \in Texts
      /\ Joined(Joined(Joined(a, p), v), b) \in Texts
      /\ Joined(y, a) \in Texts /\ Joined(Joined(y, a), p) \in Texts
      /\ Joined(Joined(Joined(y, a), p), v) \in Texts
  BY TextAlgebra
<1>5. Joined(y, HeaderText(h)) = Joined(Joined(Joined(Joined(y, a), p), v), b)
  <2>1. Joined(y, Joined(Joined(Joined(a, p), v), b))
          = Joined(Joined(y, Joined(Joined(a, p), v)), b)
    BY <1>4, ConcatLeft
  <2>2. Joined(y, Joined(Joined(a, p), v)) = Joined(Joined(y, Joined(a, p)), v)
    BY <1>4, ConcatLeft
  <2>3. Joined(y, Joined(a, p)) = Joined(Joined(y, a), p)
    BY <1>4, ConcatLeft
  <2>4. QED
    BY <1>3, <2>1, <2>2, <2>3, Zenon
<1>6. Joined(Joined(y, a), p) = Then(Then(Joined(y, a), ":"), "SP")
  <2>1. \A z \in Texts : Joined(z, <<":", "SP">>) = Then(Then(z, ":"), "SP")
    BY <1>1, ThenPair
  <2>2. QED
    BY <1>2, <1>4, <2>1, Zenon
<1>7. \A z \in Texts : Joined(z, b) = Break(z)
  <2>1. \A z \in Texts : Joined(z, <<"CR", "LF">>) = Then(Then(z, "CR"), "LF")
    BY <1>1, ThenPair
  <2>2. QED
    BY <1>2, <2>1, Zenon DEF CRLF, Break
<1>8. QED
  BY <1>2, <1>3, <1>4, <1>5, <1>6, <1>7, Zenon DEF ValueText

LEMMA HeadersNone ==
  ASSUME NEW x \in Texts
  PROVE  HeadersText(x, <<>>) = x
<1>1. [i \in DOMAIN <<>> |-> HeaderText((<<>>)[i])] = <<>>
  OBVIOUS
<1>2. QED
  BY <1>1, FlattenEmpty, TextAlgebra, Zenon DEF HeadersText

HeaderLines(hs) == [i \in DOMAIN hs |-> HeaderText(hs[i])]

LEMMA HeaderLinesType ==
  ASSUME NEW hs \in Seq(Header), NEW n \in Nat, n = Len(hs)
  PROVE  \E g \in Seq(Texts) : /\ g = HeaderLines(hs) /\ Len(g) = n
                               /\ \A i \in 1..n : g[i] = HeaderText(hs[i])
<1>1. DOMAIN hs = 1..n /\ \A i \in 1..n : hs[i] \in Header
  OBVIOUS
<1>2. \A i \in 1..n : HeaderText(hs[i]) \in Texts
  <2>1. <<>> \in Texts
    BY TextAlgebra
  <2>2. QED
    BY <1>1, <2>1, HeaderTextIs, Zenon
<1>3. PICK T : T = Texts
  OBVIOUS
<1>4. PICK g : g = [i \in 1..n |-> HeaderText(hs[i])]
  OBVIOUS
<1>5. g \in [1..n -> T] /\ \A i \in 1..n : g[i] = HeaderText(hs[i])
  BY <1>2, <1>3, <1>4, Zenon
<1>6. g \in Seq(T) /\ Len(g) = n
  BY <1>5
<1>7. QED
  BY <1>1, <1>3, <1>4, <1>5, <1>6, Zenon DEF HeaderLines

LEMMA HeadersType ==
  ASSUME NEW x \in Texts, NEW hs \in Seq(Header)
  PROVE  HeadersText(x, hs) \in Texts
<1>1. PICK n \in Nat : n = Len(hs)
  OBVIOUS
<1>2. HeaderLines(hs) \in Seq(Seq(Byte))
  BY <1>1, HeaderLinesType, Zenon DEF Texts
<1>3. FlattenSeq(HeaderLines(hs)) \in Texts
  BY <1>2, FlattenType DEF Texts
<1>4. QED
  BY <1>3, TextAlgebra, Zenon DEF HeadersText, HeaderLines

LEMMA HeadersMore ==
  ASSUME NEW x \in Texts, NEW f \in Seq(Header), NEW h \in Header
  PROVE  HeadersText(x, Append(f, h)) = Break(ValueText(HeadersText(x, f), h))
<1>1. PICK n \in Nat : n = Len(f)
  OBVIOUS
<1>2. PICK hs \in Seq(Header) : hs = Append(f, h) /\ AppendedTo(hs, f, h, n)
  BY <1>1, AppendedAt
<1>3. PICK m \in Nat : m = n + 1 /\ m = Len(hs)
  BY <1>2 DEF AppendedTo
<1>4. PICK g \in Seq(Texts) : /\ g = HeaderLines(f) /\ Len(g) = n
                              /\ \A i \in 1..n : g[i] = HeaderText(f[i])
  BY <1>1, HeaderLinesType, Zenon
<1>5. PICK k \in Seq(Texts) : /\ k = HeaderLines(hs) /\ Len(k) = m
                              /\ \A i \in 1..m : k[i] = HeaderText(hs[i])
  BY <1>3, HeaderLinesType, Zenon
<1>6. PICK e \in Texts : e = HeaderText(h) /\ \A y \in Texts : Joined(y, e) = Break(ValueText(y, h))
  <2>1. HeaderText(h) \in Texts
    BY TextAlgebra, HeaderTextIs, Zenon
  <2>2. QED
    BY <2>1, HeaderTextIs, Zenon
<1>7. k = Append(g, e)
  <2>1. PICK v \in Seq(Texts) : v = Append(g, e) /\ AppendedTo(v, g, e, n)
    BY <1>4, AppendedAt
  <2>2. /\ Len(v) = n + 1 /\ v[n + 1] = e /\ \A i \in 1..n : v[i] = g[i]
        /\ hs[n + 1] = h /\ \A i \in 1..n : hs[i] = f[i]
    BY <1>2, <2>1, Zenon DEF AppendedTo
  <2>3. k[n + 1] = e
    <3>1. n + 1 \in 1..m
      BY <1>3
    <3>2. QED
      BY <1>5, <1>6, <2>2, <3>1, Zenon
  <2>4. \A i \in 1..n : k[i] = v[i]
    <3>1. \A i \in 1..n : i \in 1..m
      BY <1>3
    <3>2. QED
      BY <1>4, <1>5, <2>2, <3>1, Zenon
  <2>5. Len(k) = Len(v) /\ \A i \in 1..Len(k) : k[i] = v[i]
    BY <1>3, <1>5, <2>2, <2>3, <2>4
  <2>6. k = v
    BY <2>5, SeqEqual
  <2>7. QED
    BY <2>1, <2>6, Zenon
<1>8. FlattenSeq(k) = Joined(FlattenSeq(g), e)
  <2>1. g \in Seq(Seq(Byte)) /\ e \in Seq(Byte)
    BY <1>4, <1>6, Zenon DEF Texts
  <2>2. FlattenSeq(Append(g, e)) = FlattenSeq(g) \o e
    BY <2>1, FlattenAppend
  <2>3. QED
    BY <1>7, <2>2, Zenon DEF Joined
<1>9. FlattenSeq(g) \in Texts
  <2>1. g \in Seq(Seq(Byte))
    BY <1>4, Zenon DEF Texts
  <2>2. QED
    BY <2>1, FlattenType DEF Texts
<1>10. HeadersText(x, hs) = Joined(HeadersText(x, f), e)
  <2>1. Joined(x, Joined(FlattenSeq(g), e)) = Joined(Joined(x, FlattenSeq(g)), e)
    BY <1>9, ConcatLeft
  <2>2. QED
    BY <1>4, <1>5, <1>8, <2>1, Zenon DEF HeadersText, HeaderLines
<1>11. HeadersText(x, f) \in Texts
  BY HeadersType
<1>12. QED
  BY <1>2, <1>6, <1>10, <1>11, Zenon

LEMMA RequestTextIs ==
  ASSUME NEW m \in Texts, NEW u \in Texts, NEW j \in Texts, NEW n \in Texts,
         NEW hs \in Seq(Header)
  PROVE  RequestText(m, u, j, n, hs) = Break(HeadersText(LineText(m, u, j, n), hs))
<1>1. /\ "SP" \in Byte /\ "H" \in Byte /\ "T" \in Byte /\ "P" \in Byte /\ "/" \in Byte
      /\ "." \in Byte /\ "CR" \in Byte /\ "LF" \in Byte
  BY DEF Byte, AllBytes, Controls, Letters, Specials
<1>2. \A x \in Texts : /\ Joined(x, <<"SP">>) = Then(x, "SP")
                       /\ Joined(x, <<".">>) = Then(x, ".")
                       /\ Joined(x, CRLF) = Break(x)
  <2> SUFFICES ASSUME NEW x \in Texts
               PROVE  /\ Joined(x, <<"SP">>) = Then(x, "SP")
                      /\ Joined(x, <<".">>) = Then(x, ".")
                      /\ Joined(x, CRLF) = Break(x)
    OBVIOUS
  <2>1. \A c \in Byte : Joined(x, <<c>>) = Then(x, c)
    BY TextAlgebra, Zenon
  <2>2. Joined(x, <<"CR", "LF">>) = Then(Then(x, "CR"), "LF")
    BY <1>1, ThenPair
  <2>3. QED
    BY <1>1, <2>1, <2>2, Zenon DEF CRLF, Break
<1>3. \A x \in Texts :
        Joined(x, <<"SP", "H", "T", "T", "P", "/">>) = Slash(TwoT(SpaceH(x)))
  <2> SUFFICES ASSUME NEW x \in Texts
               PROVE  Joined(x, <<"SP", "H", "T", "T", "P", "/">>)
                        = Slash(TwoT(SpaceH(x)))
    OBVIOUS
  <2>1. x \in Seq(Byte)
    BY DEF Texts
  <2>2. ThenSix(x, "SP", "H", "T", "T", "P", "/")
    BY <1>1, <2>1, AppendSix, Zenon
  <2>3. QED
    BY <2>2, Zenon DEF ThenSix, Joined, AppendPair, Slash, TwoT, SpaceH, Then
<1>4. /\ UriText(m, u) \in Texts /\ MajorText(m, u, j) \in Texts
      /\ MinorText(m, u, j, n) \in Texts /\ LineText(m, u, j, n) \in Texts
  BY LineTypes
<1>5. HeadersText(LineText(m, u, j, n), hs) \in Texts
  BY <1>4, HeadersType
<1>6. Joined(Joined(m, <<"SP">>), u) = UriText(m, u)
  BY <1>2, Zenon DEF UriText
<1>7. Joined(Joined(UriText(m, u), <<"SP", "H", "T", "T", "P", "/">>), j)
        = MajorText(m, u, j)
  BY <1>3, <1>4, Zenon DEF MajorText
<1>8. Joined(Joined(MajorText(m, u, j), <<".">>), n) = MinorText(m, u, j, n)
  BY <1>2, <1>4, Zenon DEF MinorText
<1>9. Joined(MinorText(m, u, j, n), CRLF) = LineText(m, u, j, n)
  BY <1>2, <1>4, Zenon DEF LineText
<1>10. Joined(HeadersText(LineText(m, u, j, n), hs), CRLF)
         = Break(HeadersText(LineText(m, u, j, n), hs))
  BY <1>2, <1>5, Zenon
<1>11. QED
  BY <1>6, <1>7, <1>8, <1>9, <1>10, Zenon DEF RequestText, HeadersText, Joined

ReplacedAt(w, s, i, e) ==
  /\ w = [s EXCEPT ![i] = e] /\ Len(w) = Len(s) /\ w[i] = e
  /\ \A j \in 1..Len(s) : j # i => w[j] = s[j]

LEMMA ExceptAt ==
  ASSUME NEW S, NEW s \in Seq(S), NEW i \in 1..Len(s), NEW e \in S
  PROVE  \E w \in Seq(S) : ReplacedAt(w, s, i, e)
<1>1. /\ [s EXCEPT ![i] = e] \in Seq(S)
      /\ Len([s EXCEPT ![i] = e]) = Len(s)
      /\ \A j \in 1..Len(s) : [s EXCEPT ![i] = e][j] = IF j = i THEN e ELSE s[j]
  BY ExceptSeq
<1>2. PICK w \in Seq(S) : /\ w = [s EXCEPT ![i] = e] /\ Len(w) = Len(s)
                          /\ \A j \in 1..Len(s) : w[j] = IF j = i THEN e ELSE s[j]
  BY <1>1, Zenon
<1>3. w[i] = e /\ \A j \in 1..Len(s) : j # i => w[j] = s[j]
  BY <1>2
<1>4. QED
  BY <1>2, <1>3, Zenon DEF ReplacedAt

\* The last header is changed, and the ones before it stay.
LEMMA LastChanged ==
  ASSUME NEW hs \in Seq(Header), NEW f \in Seq(Header), NEW h \in Header,
         hs = Append(f, h), NEW g \in Header
  PROVE  hs[Len(hs)] = h /\ [hs EXCEPT ![Len(hs)] = g] = Append(f, g)
<1>1. PICK n \in Nat : n = Len(f)
  OBVIOUS
<1>2. Len(hs) = n + 1 /\ hs[n + 1] = h /\ \A i \in 1..n : hs[i] = f[i]
  BY <1>1
<1>3. PICK v \in Seq(Header) : v = Append(f, g) /\ AppendedTo(v, f, g, n)
  BY <1>1, AppendedAt
<1>4. Len(v) = n + 1 /\ v[n + 1] = g /\ \A i \in 1..n : v[i] = f[i]
  BY <1>3, Zenon DEF AppendedTo
<1>5. PICK w \in Seq(Header) : /\ w = [hs EXCEPT ![n + 1] = g] /\ Len(w) = n + 1
                               /\ w[n + 1] = g /\ \A i \in 1..n : w[i] = hs[i]
  <2>1. PICK i \in 1..Len(hs) : i = n + 1
    BY <1>2
  <2>2. PICK w \in Seq(Header) : /\ w = [hs EXCEPT ![i] = g] /\ Len(w) = Len(hs) /\ w[i] = g
                                 /\ \A j \in 1..Len(hs) : j # i => w[j] = hs[j]
    <3>1. PICK w \in Seq(Header) : ReplacedAt(w, hs, i, g)
      BY ExceptAt
    <3>2. QED
      BY <3>1, Zenon DEF ReplacedAt
  <2>3. Len(w) = n + 1 /\ w[n + 1] = g
    BY <1>2, <2>1, <2>2, Zenon
  <2>4. \A j \in 1..n : w[j] = hs[j]
    <3>1. \A j \in 1..n : j \in 1..Len(hs) /\ j # i
      BY <1>2, <2>1
    <3>2. QED
      BY <2>2, <3>1, Zenon
  <2>5. QED
    BY <2>1, <2>2, <2>3, <2>4, Zenon
<1>6. v = w
  <2>1. Len(v) = Len(w) /\ \A i \in 1..Len(v) : v[i] = w[i]
    BY <1>2, <1>4, <1>5
  <2>2. QED
    BY <2>1, SeqEqual
<1>7. QED
  BY <1>2, <1>3, <1>5, <1>6, Zenon

LEMMA NameGrows ==
  ASSUME NEW h \in Header, NEW c \in Byte
  PROVE  \E g \in Header : /\ g = [h EXCEPT !.name = Append(@, c)]
                           /\ g.name = Then(h.name, c) /\ g.value = h.value
<1>1. Append(h.name, c) \in Seq(Byte)
  BY DEF Header
<1>2. PICK g \in Header : g = [h EXCEPT !.name = Append(@, c)]
  BY <1>1 DEF Header
<1>3. g.name = Append(h.name, c) /\ g.value = h.value
  BY <1>2 DEF Header
<1>4. QED
  BY <1>2, <1>3, Zenon DEF Then

LEMMA ValueGrows ==
  ASSUME NEW h \in Header, NEW c \in Byte
  PROVE  \E g \in Header : /\ g = [h EXCEPT !.value = Append(@, c)]
                           /\ g.name = h.name /\ g.value = Then(h.value, c)
<1>1. Append(h.value, c) \in Seq(Byte)
  BY DEF Header
<1>2. PICK g \in Header : g = [h EXCEPT !.value = Append(@, c)]
  BY <1>1 DEF Header
<1>3. g.name = h.name /\ g.value = Append(h.value, c)
  BY <1>2 DEF Header
<1>4. QED
  BY <1>2, <1>3, Zenon DEF Then

\* x is the text of a header that has been read up to state s, after y.
HeaderRead(s, x, y, h) ==
  /\ s = "header_name" => x = Joined(y, h.name)
  /\ s = "space_before_header_value" => x = Then(Joined(y, h.name), ":")
  /\ s \in {"header_lws", "header_value"} => x = ValueText(y, h)
  /\ s = "expecting_newline_2" => x = Then(ValueText(y, h), "CR")
  /\ s \in {"header_name", "space_before_header_value"} => h.value = <<>>

InHeader == HeaderStates \ {"header_line_start", "expecting_newline_3"}

\* The headers are some that have been read and one that is being read.
HeaderBeingRead(s, x, y, hs) ==
  \E f \in Seq(Header), h \in Header :
    hs = Append(f, h) /\ HeaderRead(s, x, HeadersText(y, f), h)

HeadersRead(s, x, y, hs) ==
  /\ s = "header_line_start" => x = HeadersText(y, hs)
  /\ s = "expecting_newline_3" => x = Then(HeadersText(y, hs), "CR")
  /\ s \in InHeader => HeaderBeingRead(s, x, y, hs)

Line == LineText(method, uri, major, minor)

HeaderTextInv == result = "indeterminate" =>
  HeadersRead(state, Unfold(input), Line, headers)

LEMMA LastSplit ==
  ASSUME NEW S, NEW s \in Seq(S), s # <<>>
  PROVE  \E f \in Seq(S), e \in S : s = Append(f, e)
<1>1. PICK n \in Nat : n = Len(s) - 1 /\ Len(s) = n + 1
  <2>1. Len(s) \in Nat /\ Len(s) # 0
    BY EmptySeq
  <2>2. QED
    BY <2>1
<1>2. PICK f : f = SubSeq(s, 1, n)
  OBVIOUS
<1>3. f \in Seq(S) /\ Len(f) = n /\ \A i \in 1..n : f[i] = s[i]
  BY <1>1, <1>2
<1>4. PICK e \in S : e = s[n + 1]
  BY <1>1
<1>5. PICK v \in Seq(S) : v = Append(f, e) /\ AppendedTo(v, f, e, n)
  BY <1>3, AppendedAt
<1>6. Len(v) = n + 1 /\ v[n + 1] = e /\ \A i \in 1..n : v[i] = f[i]
  BY <1>5, Zenon DEF AppendedTo
<1>7. Len(v) = Len(s) /\ \A i \in 1..Len(v) : v[i] = s[i]
  BY <1>1, <1>3, <1>4, <1>6
<1>8. v = s
  BY <1>7, SeqEqual
<1>9. QED
  BY <1>3, <1>5, <1>8, Zenon

\* A blank at the start of a line takes back the line break, and with it the
\* end of the last header.
LEMMA BlankContinues ==
  ASSUME NEW t \in Texts, NEW y \in Texts, NEW hs \in Seq(Header), hs # <<>>,
         Unfold(Break(t)) = HeadersText(y, hs), NEW c \in Byte, c \in Blanks
  PROVE  \E f \in Seq(Header), h \in Header :
           hs = Append(f, h) /\ Unfold(Then(Break(t), c)) = ValueText(HeadersText(y, f), h)
<1>0. /\ "CR" \in Byte /\ "LF" \in Byte /\ "CR" \notin Blanks /\ "LF" \notin Blanks
      /\ ":" \in Byte /\ "SP" \in Byte
  BY DEF Byte, AllBytes, Controls, Blanks, Specials
<1>1. PICK f \in Seq(Header), h \in Header : hs = Append(f, h)
  BY LastSplit
<1>2. HeadersText(y, f) \in Texts
  BY HeadersType
<1>3. ValueText(HeadersText(y, f), h) \in Texts
  BY <1>0, <1>2, HeaderFields, TextAlgebra DEF ValueText
<1>4. Unfold(Break(t)) = Break(Unfold(t))
  <2>1. Then(t, "CR") \in Texts
    BY <1>0, TextAlgebra
  <2>2. /\ Unfold(Then(t, "CR")) = Then(Unfold(t), "CR")
        /\ Unfold(Then(Then(t, "CR"), "LF")) = Then(Unfold(Then(t, "CR")), "LF")
    BY <1>0, <2>1, UnfoldThen
  <2>3. QED
    BY <2>2, Zenon DEF Break
<1>5. Unfold(t) = ValueText(HeadersText(y, f), h)
  <2>1. Break(Unfold(t)) = Break(ValueText(HeadersText(y, f), h))
    BY <1>1, <1>4, HeadersMore, Zenon
  <2>2. QED
    BY <1>3, <2>1, UnfoldText, BreakCancels
<1>6. Unfold(Then(Break(t), c)) = Unfold(t)
  <2>1. t \in Seq(Byte)
    BY DEF Texts
  <2>2. Unfold(Append(Append(Append(t, "CR"), "LF"), c)) = Unfold(t)
    BY <1>0, <2>1, UnfoldBreak
  <2>3. QED
    BY <2>2, Zenon DEF Break, Then
<1>7. QED
  BY <1>1, <1>5, <1>6, Zenon

\* A byte of the header lines is added to the text of what was read.
LEMMA HeaderTextStep ==
  ASSUME WellFormedInv, EmptyInv, BreaksInv, LineTextInv, HeaderTextInv,
         NEW c \in Byte, Consume(c)
  PROVE  HeaderTextInv'
<1> SUFFICES ASSUME result' = "indeterminate"
             PROVE  HeadersRead(state', Unfold(input'), Line', headers')
  BY DEF HeaderTextInv
<1>1. /\ Moves(state, state', c) /\ StoreRequestLine(state', c)
      /\ StoreHeader(state', c)
      /\ result = "indeterminate" /\ input' = Then(input, c) /\ input \in Texts
  BY ConsumedSteps DEF WellFormedInv
<1>2. PICK hs \in Seq(Header) : hs = headers
  BY DEF WellFormedInv, IInv, TypeOK, Header, Byte
<1>3. PICK l \in Texts : l = Line
  BY LineTypes DEF Line, WellFormedInv, IInv, TypeOK, Texts, Byte
<1>4. PICK x \in Texts : x = Unfold(input)
  BY <1>1, UnfoldText
<1>5. c \notin Blanks \/ ~Open(input) => Unfold(input') = Then(x, c)
  BY <1>1, <1>4, UnfoldThen
<1>6. HeadersRead(state, x, l, hs)
  BY <1>1, <1>2, <1>3, <1>4, Zenon DEF HeaderTextInv
<1>7. state' \in HeaderStates => Line' = l
  <2>1. state' \in HeaderStates =>
          method' = method /\ uri' = uri /\ major' = major /\ minor' = minor
    BY <1>1 DEF StoreRequestLine, HeaderStates
  <2>2. QED
    BY <1>3, <2>1, Zenon DEF Line
<1>8. \A h \in Header : h.name \in Texts /\ h.value \in Texts
  BY HeaderFields
<1>9. \A f \in Seq(Header) : HeadersText(l, f) \in Texts
  BY HeadersType
<1> DEFINE Read == HeadersRead(state', Unfold(input'), l, headers')
           Reading == HeaderBeingRead(state', Unfold(input'), l, headers')
<1>10. state' \in InHeader /\ Reading => Read
  BY DEF HeadersRead, InHeader
<1> HIDE DEF Reading
<1>11. ASSUME state' = "header_line_start", state = "expecting_newline_1" PROVE Read
  <2>1. x = Then(MinorText(method, uri, major, minor), "CR") /\ c = "LF" /\ hs = <<>>
    BY <1>1, <1>2, <1>4, <1>11
       DEF Moves, LineTextInv, LineRead, EmptyInv, States, HeaderStates
  <2>2. Unfold(input') = Then(x, c)
    BY <1>5, <2>1 DEF Blanks
  <2>3. Unfold(input') = l
    BY <1>3, <2>1, <2>2, Zenon DEF Line, LineText, Break
  <2>4. headers' = <<>>
    BY <1>1, <1>2, <1>11, <2>1 DEF StoreHeader
  <2>5. Unfold(input') = HeadersText(l, headers')
    BY <2>3, <2>4, HeadersNone, Zenon
  <2>6. QED
    BY <1>11, <2>5 DEF HeadersRead, InHeader
<1>12. ASSUME state' = "header_line_start", state = "expecting_newline_2" PROVE Read
  <2>1. PICK f \in Seq(Header), h \in Header :
          hs = Append(f, h) /\ HeaderRead(state, x, HeadersText(l, f), h)
    BY <1>6, <1>12 DEF HeadersRead, HeaderBeingRead, InHeader, HeaderStates
  <2>2. x = Then(ValueText(HeadersText(l, f), h), "CR") /\ c = "LF"
    BY <1>1, <1>12, <2>1 DEF Moves, HeaderRead
  <2>3. Unfold(input') = Then(x, c)
    BY <1>5, <2>2 DEF Blanks
  <2>4. Unfold(input') = HeadersText(l, hs)
    BY <2>1, <2>2, <2>3, HeadersMore, Zenon DEF Break
  <2>5. headers' = hs
    BY <1>1, <1>2, <1>12 DEF StoreHeader
  <2>6. QED
    BY <1>12, <2>4, <2>5 DEF HeadersRead, InHeader
<1>13. ASSUME state' = "expecting_newline_3" PROVE Read
  <2>1. x = HeadersText(l, hs) /\ c = "CR"
    BY <1>1, <1>6, <1>13 DEF Moves, HeadersRead
  <2>2. Unfold(input') = Then(x, c)
    BY <1>5, <2>1 DEF Blanks
  <2>3. headers' = hs
    BY <1>1, <1>2, <1>13 DEF StoreHeader
  <2>4. QED
    BY <1>13, <2>1, <2>2, <2>3 DEF HeadersRead, InHeader
<1>14. ASSUME state' = "header_name", state = "header_line_start" PROVE Reading
  <2>1. x = HeadersText(l, hs)
    BY <1>6, <1>14 DEF HeadersRead
  <2>2. Unfold(input') = Then(x, c)
    BY <1>1, <1>5, <1>14 DEF Moves, IsToken, IsCtl, Specials, Blanks
  <2>3. PICK g \in Header : g = [name |-> <<c>>, value |-> <<>>]
    <3>1. <<c>> \in Seq(Byte) /\ <<>> \in Seq(Byte)
      OBVIOUS
    <3>2. QED
      BY <3>1, Zenon DEF Header
  <2>4. g.name = <<c>> /\ g.value = <<>>
    BY <2>3
  <2>5. headers' = Append(hs, g)
    BY <1>1, <1>2, <1>14, <2>3 DEF StoreHeader
  <2>6. Unfold(input') = Joined(HeadersText(l, hs), g.name)
    <3>1. Joined(x, <<c>>) = Then(x, c)
      BY TextAlgebra
    <3>2. QED
      BY <2>1, <2>2, <2>4, <3>1, Zenon
  <2>7. HeaderRead(state', Unfold(input'), HeadersText(l, hs), g)
    BY <1>14, <2>4, <2>6 DEF HeaderRead
  <2>8. QED
    BY <2>5, <2>7, Zenon DEF Reading, HeaderBeingRead
<1>15. ASSUME state' = "header_lws", state = "header_line_start" PROVE Reading
  <2>1. x = HeadersText(l, hs) /\ c \in Blanks /\ hs # <<>>
    BY <1>1, <1>2, <1>6, <1>15 DEF Moves, HeadersRead
  <2>2. PICK t \in Texts : input = Break(t)
    BY <1>1, <1>15 DEF BreaksInv
  <2>3. PICK f \in Seq(Header), h \in Header :
          hs = Append(f, h) /\ Unfold(input') = ValueText(HeadersText(l, f), h)
    <3>1. Unfold(Break(t)) = HeadersText(l, hs)
      BY <1>4, <2>1, <2>2, Zenon
    <3>2. \E f \in Seq(Header), h \in Header :
            hs = Append(f, h) /\ Unfold(Then(Break(t), c)) = ValueText(HeadersText(l, f), h)
      BY <2>1, <3>1, BlankContinues
    <3>3. QED
      BY <1>1, <2>2, <3>2, Zenon
  <2>4. headers' = hs
    BY <1>1, <1>2, <1>15 DEF StoreHeader
  <2>5. HeaderRead(state', Unfold(input'), HeadersText(l, f), h)
    BY <1>15, <2>3 DEF HeaderRead
  <2>6. QED
    BY <2>3, <2>4, <2>5, Zenon DEF Reading, HeaderBeingRead
<1>16. ASSUME state \in InHeader, state' # "header_line_start" PROVE Reading
  <2>1. PICK f \in Seq(Header), h \in Header :
          hs = Append(f, h) /\ HeaderRead(state, x, HeadersText(l, f), h)
    BY <1>6, <1>16 DEF HeadersRead, HeaderBeingRead
  <2>2. PICK y \in Texts : y = HeadersText(l, f)
    BY <1>9
  <2>3. Joined(y, h.name) \in Texts /\ Then(Then(Joined(y, h.name), ":"), "SP") \in Texts
    <3>1. ":" \in Byte /\ "SP" \in Byte
      BY DEF Byte, AllBytes, Specials
    <3>2. Joined(y, h.name) \in Texts
      BY <1>8, TextAlgebra, Zenon
    <3>3. QED
      BY <3>1, <3>2, TextAlgebra, Zenon
  <2>4. HeaderRead(state, x, y, h)
    BY <2>1, <2>2, Zenon
  <2>5. ASSUME NEW g \in Header, headers' = Append(f, g),
               HeaderRead(state', Unfold(input'), y, g)
        PROVE  Reading
    BY <2>2, <2>5, Zenon DEF Reading, HeaderBeingRead
  <2>6. headers' = hs /\ HeaderRead(state', Unfold(input'), y, h) => Reading
    BY <2>1, <2>5, Zenon
  <2>7. \A g \in Header : hs[Len(hs)] = h /\ [hs EXCEPT ![Len(hs)] = g] = Append(f, g)
    BY <2>1, LastChanged
  <2>8. ASSUME state' = "header_name" PROVE Reading
    <3>1. state = "header_name" /\ c \notin Blanks
      BY <1>1, <1>16, <2>8
         DEF Moves, InHeader, HeaderStates, IsToken, IsCtl, Specials, Blanks
    <3>2. PICK g \in Header : /\ g = [h EXCEPT !.name = Append(@, c)]
                              /\ g.name = Then(h.name, c) /\ g.value = h.value
      BY NameGrows
    <3>3. headers' = [hs EXCEPT ![Len(hs)] = g]
      BY <1>1, <1>2, <2>7, <2>8, <3>1, <3>2 DEF StoreHeader
    <3>4. Unfold(input') = Then(x, c) /\ x = Joined(y, h.name) /\ h.value = <<>>
      BY <1>5, <2>4, <3>1 DEF HeaderRead
    <3>5. Then(Joined(y, h.name), c) = Joined(y, Then(h.name, c))
      BY <1>8, TextAlgebra
    <3>6. HeaderRead(state', Unfold(input'), y, g)
      BY <2>8, <3>2, <3>4, <3>5 DEF HeaderRead
    <3>7. QED
      BY <2>5, <2>7, <3>3, <3>6, Zenon
  <2>9. ASSUME state' = "space_before_header_value" PROVE Reading
    <3>1. state = "header_name" /\ c = ":" /\ headers' = hs
      BY <1>1, <1>2, <2>9 DEF Moves, StoreHeader
    <3>2. Unfold(input') = Then(x, c)
      BY <1>5, <3>1 DEF Blanks
    <3>3. HeaderRead(state', Unfold(input'), y, h)
      BY <2>4, <2>9, <3>1, <3>2 DEF HeaderRead
    <3>4. QED
      BY <2>6, <3>1, <3>3
  <2>10. ASSUME state' = "header_value", state = "space_before_header_value" PROVE Reading
    <3>1. c = "SP" /\ headers' = hs
      BY <1>1, <1>2, <2>10 DEF Moves, StoreHeader
    <3>2. Unfold(input') = Then(x, c)
      BY <1>1, <1>5, <2>10 DEF BreaksInv
    <3>3. x = Then(Joined(y, h.name), ":") /\ h.value = <<>>
      BY <2>4, <2>10 DEF HeaderRead
    <3>4. Unfold(input') = ValueText(y, h)
      BY <2>3, <3>1, <3>2, <3>3, TextAlgebra, Zenon DEF ValueText
    <3>5. HeaderRead(state', Unfold(input'), y, h)
      BY <2>10, <3>4 DEF HeaderRead
    <3>6. QED
      BY <2>6, <3>1, <3>5
  <2>11. ASSUME state' = "header_value", state # "space_before_header_value" PROVE Reading
    <3>1. /\ state \in {"header_lws", "header_value"}
          /\ state = "header_lws" => c \notin Blanks
      BY <1>1, <2>11 DEF Moves
    <3>2. PICK g \in Header : /\ g = [h EXCEPT !.value = Append(@, c)]
                              /\ g.name = h.name /\ g.value = Then(h.value, c)
      BY ValueGrows
    <3>3. headers' = [hs EXCEPT ![Len(hs)] = g]
      BY <1>1, <1>2, <2>7, <2>11, <3>1, <3>2 DEF StoreHeader
    <3>4. Unfold(input') = Then(x, c) /\ x = ValueText(y, h)
      BY <1>1, <1>5, <2>4, <3>1 DEF HeaderRead, BreaksInv
    <3>5. Then(ValueText(y, h), c) = ValueText(y, g)
      <4>1. Then(Joined(Then(Then(Joined(y, h.name), ":"), "SP"), h.value), c)
              = Joined(Then(Then(Joined(y, h.name), ":"), "SP"), Then(h.value, c))
        BY <1>8, <2>3, TextAlgebra
      <4>2. QED
        BY <3>2, <4>1, Zenon DEF ValueText
    <3>6. HeaderRead(state', Unfold(input'), y, g)
      BY <2>11, <3>4, <3>5 DEF HeaderRead
    <3>7. QED
      BY <2>5, <2>7, <3>3, <3>6, Zenon
  <2>12. ASSUME state' = "header_lws" PROVE Reading
    <3>1. state = "header_lws" /\ c \in Blanks /\ headers' = hs
      BY <1>1, <1>2, <1>16, <2>12 DEF Moves, StoreHeader, InHeader
    <3>2. Unfold(input') = x
      <4>1. Open(input) /\ ~Broken(input) /\ input \in Seq(Byte)
        BY <1>1, <3>1 DEF BreaksInv, Texts
      <4>2. Unfold(Append(input, c)) = Unfold(input)
        BY <3>1, <4>1, UnfoldBlank
      <4>3. QED
        BY <1>1, <1>4, <4>2, Zenon DEF Then
    <3>3. HeaderRead(state', Unfold(input'), y, h)
      BY <2>4, <2>12, <3>1, <3>2 DEF HeaderRead
    <3>4. QED
      BY <2>6, <3>1, <3>3
  <2>13. ASSUME state' = "expecting_newline_2" PROVE Reading
    <3>1. state \in {"header_lws", "header_value"} /\ c = "CR" /\ headers' = hs
      BY <1>1, <1>2, <2>13 DEF Moves, StoreHeader
    <3>2. Unfold(input') = Then(x, c)
      BY <1>5, <3>1 DEF Blanks
    <3>3. HeaderRead(state', Unfold(input'), y, h)
      BY <2>4, <2>13, <3>1, <3>2 DEF HeaderRead
    <3>4. QED
      BY <2>6, <3>1, <3>3
  <2>14. state' \in {"header_name", "space_before_header_value", "header_value",
                     "header_lws", "expecting_newline_2"}
    BY <1>1, <1>16, ConsumedSteps DEF Moves, InHeader, HeaderStates, WellFormedInv
  <2>15. QED
    BY <2>8, <2>9, <2>10, <2>11, <2>12, <2>13, <2>14
<1>17. CASE state' \in HeaderStates
  <2>1. \/ state' = "header_line_start" /\ state = "expecting_newline_1"
        \/ state' = "header_line_start" /\ state = "expecting_newline_2"
        \/ state' = "expecting_newline_3"
        \/ state' = "header_name" /\ state = "header_line_start" /\ state' \in InHeader
        \/ state' = "header_lws" /\ state = "header_line_start" /\ state' \in InHeader
        \/ state \in InHeader /\ state' # "header_line_start" /\ state' \in InHeader
    BY <1>1, <1>17 DEF Moves, InHeader, HeaderStates
  <2>2. Read
    <3> HIDE DEF Read
    <3>1. QED
      BY <2>1, <1>10, <1>11, <1>12, <1>13, <1>14, <1>15, <1>16
  <2>3. QED
    BY <1>7, <1>17, <2>2
<1>18. CASE state' \notin HeaderStates
  BY <1>18 DEF HeadersRead, InHeader, HeaderStates
<1>19. QED
  BY <1>17, <1>18

TextInv ==
  /\ WellFormedInv /\ EndInv /\ EmptyInv /\ BreaksInv /\ LineTextInv /\ HeaderTextInv
  /\ ParsedAsWritten

\* The last byte of a request ends the text of its fields.
LEMMA AcceptedStep ==
  ASSUME TextInv, NEW c \in Byte, Consume(c)
  PROVE  ParsedAsWritten'
<1> SUFFICES ASSUME result' = "true"
             PROVE  Unfold(input') = RequestText(method', uri', major', minor', headers')
  BY DEF ParsedAsWritten
<1>1. Target(c) = "true" /\ result = "indeterminate" /\ state' = state
  BY DEF Consume
<1>2. state = "expecting_newline_3" /\ c = "LF"
  BY <1>1, TargetMoves DEF TextInv, WellFormedInv, IInv, TypeOK, Moves
<1>3. /\ method' = method /\ uri' = uri /\ major' = major /\ minor' = minor
      /\ headers' = headers
  BY <1>1, <1>2 DEF Consume, StoreRequestLine, StoreHeader
<1>4. /\ method \in Texts /\ uri \in Texts /\ major \in Texts /\ minor \in Texts
      /\ headers \in Seq(Header) /\ input \in Texts
  BY DEF TextInv, WellFormedInv, IInv, TypeOK, Texts, Header, Byte
<1>5. Unfold(input) = Then(HeadersText(Line, headers), "CR")
  BY <1>1, <1>2 DEF TextInv, HeaderTextInv, HeadersRead
<1>6. Unfold(input') = Then(Unfold(input), "LF")
  <2>1. Unfold(Then(input, c)) = Then(Unfold(input), c)
    BY <1>2, <1>4, UnfoldThen DEF Blanks
  <2>2. QED
    BY <1>2, <2>1, Zenon DEF Consume, Then
<1>7. Unfold(input') = Break(HeadersText(Line, headers))
  BY <1>5, <1>6, Zenon DEF Break
<1>8. RequestText(method, uri, major, minor, headers) = Break(HeadersText(Line, headers))
  <2>1. RequestText(method, uri, major, minor, headers)
          = Break(HeadersText(LineText(method, uri, major, minor), headers))
    BY <1>4, RequestTextIs
  <2>2. QED
    BY <2>1, Zenon DEF Line
<1>9. QED
  BY <1>3, <1>7, <1>8, Zenon

LEMMA TextInit == Init => TextInv
<1> SUFFICES ASSUME Init PROVE TextInv
  OBVIOUS
<1>1. /\ state = "method_start" /\ result = "indeterminate" /\ input = <<>>
      /\ method = <<>> /\ uri = <<>> /\ major = <<>> /\ minor = <<>> /\ headers = <<>>
  BY DEF Init
<1>2. WellFormedInv
  BY WellFormedInit
<1>3. EndInv /\ EmptyInv /\ ParsedAsWritten
  BY <1>1 DEF EndInv, EmptyInv, ParsedAsWritten
<1>4. BreaksInv
  <2>1. ~Open(<<>>)
    BY DEF Open
  <2>2. QED
    BY <1>1, <2>1 DEF BreaksInv
<1>5. LineTextInv
  BY <1>1, UnfoldEmpty DEF LineTextInv, LineRead
<1>6. HeaderTextInv
  BY <1>1 DEF HeaderTextInv, HeadersRead, InHeader, HeaderStates
<1>7. QED
  BY <1>2, <1>3, <1>4, <1>5, <1>6 DEF TextInv

LEMMA TextStep == TextInv /\ [Next]_vars => TextInv'
<1> SUFFICES ASSUME TextInv, [Next]_vars PROVE TextInv'
  OBVIOUS
<1>1. CASE UNCHANGED vars
  <2>1. /\ WellFormedInv' /\ EndInv' /\ EmptyInv'
    BY <1>1, WellFormedStep DEF vars, fields, TextInv, EndInv, EmptyInv
  <2>2. BreaksInv' /\ LineTextInv' /\ HeaderTextInv' /\ ParsedAsWritten'
    BY <1>1, Zenon DEF vars, fields, TextInv, BreaksInv, LineTextInv, HeaderTextInv,
       Line, ParsedAsWritten
  <2>3. QED
    BY <2>1, <2>2 DEF TextInv
<1>2. ASSUME NEW c \in Bytes, Consume(c)
      PROVE  TextInv'
  <2>1. c \in Byte
    BY RequestParserAssumption DEF Byte
  <2>2. WellFormedInv'
    BY WellFormedStep DEF TextInv
  <2>3. EndInv' /\ EmptyInv' /\ BreaksInv'
    BY <1>2, <2>1, EndStep, EmptyStep, BreaksStep DEF TextInv, WellFormedInv
  <2>4. LineTextInv' /\ HeaderTextInv'
    BY <1>2, <2>1, LineTextStep, HeaderTextStep DEF TextInv
  <2>5. ParsedAsWritten'
    BY <1>2, <2>1, AcceptedStep
  <2>6. QED
    BY <2>2, <2>3, <2>4, <2>5 DEF TextInv
<1>3. QED
  BY <1>1, <1>2 DEF Next

\* Every request that is accepted is the text of the fields it was parsed into,
\* whatever bytes are sent, however many, and however its headers are continued
\* over lines.
THEOREM AcceptedAreParsedAsWritten == Spec => []ParsedAsWritten
<1>1. TextInv => ParsedAsWritten
  BY DEF TextInv
<1>2. QED
  BY <1>1, TextInit, TextStep, PTL DEF Spec

-----------------------------------------------------------------------------
(* Sequences by their first element *)

First(c, x) == <<c>> \o x

\* Byte by byte, what a sequence with one more first element is.
LEMMA FirstIs ==
  ASSUME NEW S, NEW c \in S, NEW x \in Seq(S), NEW n \in Nat, n = Len(x)
  PROVE  /\ First(c, x) \in Seq(S) /\ Len(First(c, x)) = n + 1 /\ First(c, x)[1] = c
         /\ \A i \in 1..n : First(c, x)[i + 1] = x[i]
<1>1. PICK d \in Seq(S) : d = <<c>> /\ Len(d) = 1 /\ d[1] = c
  <2>1. <<c>> \in Seq(S) /\ Len(<<c>>) = 1 /\ <<c>>[1] = c
    OBVIOUS
  <2>2. QED
    BY <2>1, Zenon
<1>2. PICK w \in Seq(S) : /\ w = d \o x /\ Len(w) = 1 + n
                          /\ \A i \in 1..1 : w[i] = d[i]
                          /\ \A i \in 1..n : w[1 + i] = x[i]
  <2>1. /\ d \o x \in Seq(S) /\ Len(d \o x) = 1 + n
        /\ \A i \in 1..1 : (d \o x)[i] = d[i]
        /\ \A i \in 1..n : (d \o x)[1 + i] = x[i]
    BY <1>1, ConcatAt
  <2>2. QED
    BY <2>1, Zenon
<1>3. w = First(c, x)
  BY <1>1, <1>2, Zenon DEF First
<1>4. w[1] = c /\ \A i \in 1..n : w[i + 1] = x[i]
  BY <1>1, <1>2
<1>5. Len(w) = n + 1
  BY <1>2
<1>6. QED
  BY <1>3, <1>4, <1>5, Zenon

\* A sequence with these elements is the one with one more first element.
LEMMA FirstBuilt ==
  ASSUME NEW S, NEW u \in Seq(S), NEW c \in S, NEW x \in Seq(S), NEW n \in Nat,
         n = Len(x), Len(u) = n + 1, u[1] = c, \A i \in 1..n : u[i + 1] = x[i]
  PROVE  u = First(c, x)
<1>1. PICK w \in Seq(S) : /\ w = First(c, x) /\ Len(w) = n + 1 /\ w[1] = c
                          /\ \A i \in 1..n : w[i + 1] = x[i]
  <2>1. /\ First(c, x) \in Seq(S) /\ Len(First(c, x)) = n + 1 /\ First(c, x)[1] = c
        /\ \A i \in 1..n : First(c, x)[i + 1] = x[i]
    BY FirstIs
  <2>2. QED
    BY <2>1, Zenon
<1>2. \A j \in 1..(n + 1) : w[j] = u[j]
  <2>1. ASSUME NEW j \in 1..(n + 1), j # 1
        PROVE  w[j] = u[j]
    <3>1. PICK i : i = j - 1
      OBVIOUS
    <3>2. n \in Nat /\ j \in 1..(n + 1) /\ j # 1
      BY <2>1
    <3>3. i \in 1..n /\ j = i + 1
      BY ONLY <3>1, <3>2
    <3>4. QED
      BY <1>1, <3>3
  <2>2. w[1] = u[1]
    BY <1>1
  <2>3. QED
    BY <2>1, <2>2
<1>3. Len(w) = Len(u) /\ \A j \in 1..Len(u) : w[j] = u[j]
  BY <1>1, <1>2
<1>4. w = u
  BY <1>3, SeqEqual
<1>5. QED
  BY <1>1, <1>4, Zenon

\* A sequence that is not empty has a first element and the others.
LEMMA FirstSplit ==
  ASSUME NEW S, NEW s \in Seq(S), s # <<>>
  PROVE  \E c \in S, x \in Seq(S), n \in Nat :
           /\ s = First(c, x) /\ n = Len(x) /\ Len(s) = n + 1 /\ s[1] = c
           /\ \A i \in 1..n : s[i + 1] = x[i]
<1>1. PICK n \in Nat : Len(s) = n + 1
  <2>1. Len(s) \in Nat /\ Len(s) # 0
    BY EmptySeq
  <2>2. Len(s) - 1 \in Nat /\ Len(s) = (Len(s) - 1) + 1
    BY <2>1
  <2>3. QED
    BY <2>2
<1>2. PICK x \in Seq(S) : Len(x) = n /\ \A i \in 1..n : x[i] = s[i + 1]
  <2>1. PICK t : t = [i \in 1..n |-> s[i + 1]]
    OBVIOUS
  <2>2. \A i \in 1..n : t[i] = s[i + 1] /\ s[i + 1] \in S
    BY <1>1, <2>1
  <2>3. t \in [1..n -> S]
    BY <2>1, <2>2
  <2>4. t \in Seq(S) /\ Len(t) = n
    BY <2>3
  <2>5. QED
    BY <2>2, <2>4, Zenon
<1>3. PICK c \in S : c = s[1]
  BY <1>1
<1>4. s = First(c, x)
  BY <1>1, <1>2, <1>3, FirstBuilt
<1>5. QED
  BY <1>1, <1>2, <1>3, <1>4, Zenon

\* Two sequences with the same first element and the same rest are the same, and
\* no other two.
LEMMA FirstApart ==
  ASSUME NEW S, NEW c \in S, NEW d \in S, NEW x \in Seq(S), NEW y \in Seq(S),
         First(c, x) = First(d, y)
  PROVE  c = d /\ x = y
<1>1. PICK m \in Nat, n \in Nat : m = Len(x) /\ n = Len(y)
  OBVIOUS
<1>2. PICK u : /\ u = First(c, x) /\ Len(u) = m + 1 /\ u[1] = c
               /\ \A i \in 1..m : u[i + 1] = x[i]
  <2>1. /\ Len(First(c, x)) = m + 1 /\ First(c, x)[1] = c
        /\ \A i \in 1..m : First(c, x)[i + 1] = x[i]
    BY <1>1, FirstIs
  <2>2. QED
    BY <2>1, Zenon
<1>3. u = First(d, y) /\ Len(u) = n + 1 /\ u[1] = d /\ \A i \in 1..n : u[i + 1] = y[i]
  <2>1. /\ Len(First(d, y)) = n + 1 /\ First(d, y)[1] = d
        /\ \A i \in 1..n : First(d, y)[i + 1] = y[i]
    BY <1>1, FirstIs
  <2>2. u = First(d, y)
    BY <1>2
  <2>3. QED
    BY <2>1, <2>2, Zenon
<1>4. m = n /\ \A i \in 1..m : x[i] = y[i]
  BY <1>2, <1>3
<1>5. Len(x) = Len(y) /\ \A i \in 1..Len(x) : x[i] = y[i]
  BY <1>1, <1>4
<1>6. x = y
  BY <1>5, SeqEqual
<1>7. QED
  BY <1>2, <1>3, <1>6, Zenon

\* Brackets may be moved: the first element of a concatenation.
FirstMoves(c, x, y) ==
  /\ First(c, x) \o y = First(c, x \o y)
  /\ Append(x, c) \o y = x \o First(c, y)

\* A first element stays first when more is written after the sequence.
LEMMA FirstJoins ==
  ASSUME NEW S, NEW c \in S, NEW x \in Seq(S), NEW y \in Seq(S)
  PROVE  FirstMoves(c, x, y)
<1>1. PICK d \in Seq(S) : d = <<c>>
  <2>1. <<c>> \in Seq(S)
    OBVIOUS
  <2>2. QED
    BY <2>1, Zenon
<1>2. Regroups(d, x, y) /\ Regroups(x, d, y)
  BY Regrouped
<1>3. Append(x, c) = x \o <<c>>
  BY AppendIsConcat
<1>4. QED
  BY <1>1, <1>2, <1>3, Zenon DEF First, Regroups, FirstMoves

-----------------------------------------------------------------------------
LEMMA FlattenOne ==
  ASSUME NEW S, NEW x \in Seq(S)
  PROVE  FlattenSeq(<<x>>) = x
<1>1. PICK T : T = Seq(S)
  OBVIOUS
<1>2. <<>> \in Seq(T) /\ Append(<<>>, x) = <<x>>
  BY <1>1
<1>3. FlattenSeq(Append(<<>>, x)) = FlattenSeq(<<>>) \o x
  BY <1>1, <1>2, FlattenAppend
<1>4. <<>> \o x = x
  BY ConcatEmptySeq
<1>5. QED
  BY <1>2, <1>3, <1>4, FlattenEmpty, Zenon

\* Flattening peels the first sequence off.
LEMMA FlattenFirst ==
  ASSUME NEW S, NEW x \in Seq(S), NEW s \in Seq(Seq(S))
  PROVE  FlattenSeq(First(x, s)) = x \o FlattenSeq(s)
<1>1. PICK n \in Nat : n = Len(s)
  OBVIOUS
<1>2. PICK W : W = Seq(S)
  OBVIOUS
<1>3. x \in W /\ s \in Seq(W)
  BY <1>2
<1> DEFINE Start(k) == SubSeq(s, 1, k)
           T == {k \in 0..n : FlattenSeq(First(x, Start(k))) = x \o FlattenSeq(Start(k))}
<1>4. \A k \in 0..n : Start(k) \in Seq(W)
  BY <1>1, <1>3, SubSeqProperties
<1>5. Start(0) = <<>> /\ Start(n) = s
  <2>1. Start(0) = <<>>
    BY <1>3, SubSeqEmpty
  <2>2. Start(n) = s
    BY <1>1, <1>3, SubSeqFull
  <2>3. QED
    BY <2>1, <2>2
<1>6. ASSUME NEW k \in 0..(n - 1)
      PROVE  s[k + 1] \in W /\ Start(k + 1) = Append(Start(k), s[k + 1])
  <2>1. k + 1 \in 1..n /\ (k + 1) - 1 = k
    OBVIOUS
  <2>2. s[k + 1] \in W
    BY <1>1, <1>3, <2>1
  <2>3. SubSeq(s, 1, k + 1) = SubSeq(s, 1, k) \o <<s[k + 1]>>
    <3>1. SubSeq(s, 1, k + 1) = SubSeq(s, 1, (k + 1) - 1) \o <<s[k + 1]>>
      BY <1>1, <1>3, <2>1, SubSeqRecursiveSecond
    <3>2. QED
      BY <2>1, <3>1
  <2>4. Start(k) \in Seq(W)
    <3>1. k \in 0..n
      OBVIOUS
    <3>2. QED
      BY <1>4, <3>1, Zenon
  <2>5. Append(Start(k), s[k + 1]) = Start(k) \o <<s[k + 1]>>
    BY <2>2, <2>4, AppendIsConcat
  <2>6. QED
    BY <2>2, <2>3, <2>5
<1> HIDE DEF Start
<1>7. 0 \in T
  <2>1. First(x, <<>>) = <<x>>
    BY DEF First
  <2>2. x \o <<>> = x
    BY ConcatEmptySeq
  <2>3. FlattenSeq(First(x, Start(0))) = x \o FlattenSeq(Start(0))
    BY <1>5, <2>1, <2>2, FlattenOne, FlattenEmpty, Zenon
  <2>4. QED
    BY <2>3
<1>8. ASSUME NEW k \in 0..(n - 1), k \in T
      PROVE  k + 1 \in T
  <2>1. PICK p \in Seq(W), q \in W : p = Start(k) /\ q = s[k + 1]
    <3>1. k \in 0..n
      OBVIOUS
    <3>2. QED
      BY <1>4, <1>6, <3>1, Zenon
  <2>2. Start(k + 1) = Append(p, q)
    BY <1>6, <2>1, Zenon
  <2>3. FlattenSeq(First(x, p)) = x \o FlattenSeq(p)
    BY <1>8, <2>1
  <2>4. FlattenSeq(Append(p, q)) = FlattenSeq(p) \o q
    BY <1>2, <2>1, FlattenAppend
  <2>5. PICK v \in Seq(W) : v = First(x, p)
    <3>1. PICK m \in Nat : m = Len(p)
      OBVIOUS
    <3>2. QED
      BY <1>3, <3>1, FirstIs, Zenon
  <2>6. FlattenSeq(Append(v, q)) = FlattenSeq(v) \o q
    BY <1>2, <2>1, <2>5, FlattenAppend
  <2>7. First(x, Append(p, q)) = Append(v, q)
    <3>1. <<x>> \in Seq(W)
      BY <1>3
    <3>2. <<x>> \o Append(p, q) = Append(<<x>> \o p, q)
      BY <2>1, <3>1, AppendMoves
    <3>3. QED
      BY <2>5, <3>2, Zenon DEF First
  <2>8. PICK f \in Seq(S) : f = FlattenSeq(p)
    <3>1. FlattenSeq(p) \in Seq(S)
      BY <1>2, FlattenType
    <3>2. QED
      BY <3>1, Zenon
  <2>9. (x \o f) \o q = x \o (f \o q)
    <3>1. Regroups(x, f, q)
      BY <1>2, <2>1, <2>8, Regrouped
    <3>2. QED
      BY <3>1, Zenon DEF Regroups
  <2>10. FlattenSeq(First(x, Start(k + 1))) = x \o FlattenSeq(Start(k + 1))
    BY <2>2, <2>3, <2>4, <2>5, <2>6, <2>7, <2>8, <2>9, Zenon
  <2>11. k + 1 \in 0..n
    OBVIOUS
  <2>12. QED
    BY <2>10, <2>11
<1>9. n \in T
  <2> HIDE DEF T
  <2>1. \A i \in 0..n : i \in T
    BY <1>7, <1>8, SetInduction
  <2>2. QED
    BY <2>1
<1>10. QED
  BY <1>5, <1>9, Zenon DEF T
-----------------------------------------------------------------------------
\* A sequence with a function applied to each of its elements.
Mapped(f, s) == [i \in DOMAIN s |-> f[s[i]]]

MapsEach(g, f, s, n) == Len(g) = n /\ \A i \in 1..n : g[i] = f[s[i]]

LEMMA MappedIs ==
  ASSUME NEW S, NEW T, NEW f \in [S -> T], NEW s \in Seq(S), NEW n \in Nat, n = Len(s)
  PROVE  Mapped(f, s) \in Seq(T) /\ MapsEach(Mapped(f, s), f, s, n)
<1>1. PICK g : g = [i \in 1..n |-> f[s[i]]]
  OBVIOUS
<1>2. \A i \in 1..n : s[i] \in S /\ f[s[i]] \in T /\ g[i] = f[s[i]]
  BY <1>1
<1>3. g \in [1..n -> T]
  BY <1>1, <1>2
<1>4. g \in Seq(T) /\ Len(g) = n
  BY <1>3
<1>5. DOMAIN s = 1..n
  OBVIOUS
<1>6. QED
  BY <1>1, <1>2, <1>4, <1>5, Zenon DEF Mapped, MapsEach

MapsFirst(f, c, x, T) ==
  /\ Mapped(f, <<>>) = <<>> /\ Mapped(f, x) \in Seq(T) /\ f[c] \in T
  /\ Mapped(f, First(c, x)) = First(f[c], Mapped(f, x))

\* A function applied to every element begins with the first one.
LEMMA MappedFirst ==
  ASSUME NEW S, NEW T, NEW f \in [S -> T], NEW c \in S, NEW x \in Seq(S)
  PROVE  MapsFirst(f, c, x, T)
<1>1. PICK n \in Nat : n = Len(x)
  OBVIOUS
<1>2. PICK s \in Seq(S) : /\ s = First(c, x) /\ Len(s) = n + 1 /\ s[1] = c
                          /\ \A i \in 1..n : s[i + 1] = x[i]
  <2>1. /\ First(c, x) \in Seq(S) /\ Len(First(c, x)) = n + 1 /\ First(c, x)[1] = c
        /\ \A i \in 1..n : First(c, x)[i + 1] = x[i]
    BY <1>1, FirstIs
  <2>2. QED
    BY <2>1, Zenon
<1>3. PICK g \in Seq(T) : /\ g = Mapped(f, s) /\ Len(g) = n + 1
                          /\ \A i \in 1..(n + 1) : g[i] = f[s[i]]
  <2>1. PICK m \in Nat : m = n + 1
    OBVIOUS
  <2>2. m = Len(s)
    BY <1>2, <2>1
  <2>3. Mapped(f, s) \in Seq(T) /\ MapsEach(Mapped(f, s), f, s, m)
    BY <2>2, MappedIs
  <2>4. QED
    BY <2>1, <2>3, Zenon DEF MapsEach
<1>4. PICK h \in Seq(T) : /\ h = Mapped(f, x) /\ Len(h) = n
                          /\ \A i \in 1..n : h[i] = f[x[i]]
  <2>1. Mapped(f, x) \in Seq(T) /\ MapsEach(Mapped(f, x), f, x, n)
    BY <1>1, MappedIs
  <2>2. QED
    BY <2>1, Zenon DEF MapsEach
<1>5. PICK d \in T : d = f[c]
  OBVIOUS
<1>6. g[1] = d
  <2>1. 1 \in 1..(n + 1)
    BY <1>2
  <2>2. QED
    BY <1>2, <1>3, <1>5, <2>1, Zenon
<1>7. \A i \in 1..n : g[i + 1] = h[i]
  <2> SUFFICES ASSUME NEW i \in 1..n
               PROVE  g[i + 1] = h[i]
    OBVIOUS
  <2>1. i + 1 \in 1..(n + 1)
    OBVIOUS
  <2>2. g[i + 1] = f[s[i + 1]]
    BY <1>3, <2>1, Zenon
  <2>3. s[i + 1] = x[i] /\ h[i] = f[x[i]]
    BY <1>2, <1>4, Zenon
  <2>4. QED
    BY <2>2, <2>3, Zenon
<1>8. g = First(d, h)
  BY <1>3, <1>4, <1>6, <1>7, FirstBuilt
<1>9. Mapped(f, <<>>) = <<>>
  BY DEF Mapped
<1>10. QED
  BY <1>2, <1>3, <1>4, <1>5, <1>8, <1>9, Zenon DEF MapsFirst

-----------------------------------------------------------------------------
(* What is left of the text of a request *)

FoldsWritten(fs) == FlattenSeq([i \in DOMAIN fs |-> FoldText(fs[i])])
FoldsRead(fs) == FlattenSeq([i \in DOMAIN fs |-> fs[i].line])

\* The folds, the line break and what comes after the header.
FoldsRest(fs, y) == Joined(FoldsWritten(fs), First("CR", First("LF", y)))

\* What can be read: sequences of bytes, with a byte before them or a text after.
LEMMA FirstText ==
  ASSUME NEW c \in Byte, NEW x \in Texts
  PROVE  First(c, x) \in Texts
<1>1. PICK n \in Nat : n = Len(x)
  BY DEF Texts
<1>2. x \in Seq(Byte)
  BY DEF Texts
<1>3. First(c, x) \in Seq(Byte)
  <2>1. PICK S : S = Byte
    OBVIOUS
  <2>2. c \in S /\ x \in Seq(S)
    BY <1>2, <2>1
  <2>3. First(c, x) \in Seq(S)
    BY <1>1, <2>2, FirstIs
  <2>4. QED
    BY <2>1, <2>3
<1>4. QED
  BY <1>3 DEF Texts

LEMMA JoinedText ==
  /\ <<>> \in Texts /\ \A x \in Texts : Joined(<<>>, x) = x
  /\ \A x, y \in Texts : Joined(x, y) \in Texts
  /\ \A x, y, z \in Texts : Joined(Joined(x, y), z) = Joined(x, Joined(y, z))
<1>1. \A x \in Seq(Byte) : <<>> \o x = x
  BY ConcatEmptySeq
<1>2. \A x, y, z \in Texts : Joined(x, Joined(y, z)) = Joined(Joined(x, y), z)
  BY ConcatLeft
<1>3. <<>> \in Texts /\ \A x, y \in Texts : Joined(x, y) \in Texts
  BY TextAlgebra, Zenon
<1>4. \A x \in Texts : Joined(<<>>, x) = x
  BY <1>1, Zenon DEF Joined, Texts
<1>5. \A x, y, z \in Texts : Joined(Joined(x, y), z) = Joined(x, Joined(y, z))
  BY <1>2, Zenon
<1>6. QED
  BY <1>3, <1>4, <1>5, Zenon

\* A byte read is the last of what was read or the first of what is left.
LEMMA FirstJoined ==
  ASSUME NEW c \in Byte, NEW x \in Texts, NEW y \in Texts
  PROVE  /\ Joined(First(c, x), y) = First(c, Joined(x, y))
         /\ Joined(Append(x, c), y) = Joined(x, First(c, y))
<1>1. x \in Seq(Byte) /\ y \in Seq(Byte)
  BY DEF Texts
<1>2. FirstMoves(c, x, y)
  BY <1>1, FirstJoins
<1>3. QED
  BY <1>2, Zenon DEF Joined, FirstMoves

LEMMA TwoJoined ==
  ASSUME NEW c \in Byte, NEW d \in Byte, NEW y \in Texts
  PROVE  Joined(<<c, d>>, y) = First(c, First(d, y)) /\ <<c, d>> \in Texts
<1>1. PICK e \in Texts : e = <<d>> /\ Joined(e, y) = First(d, y)
  <2>1. <<d>> \in Texts
    BY DEF Texts
  <2>2. Joined(<<d>>, y) = First(d, y)
    BY Zenon DEF Joined, First
  <2>3. QED
    BY <2>1, <2>2, Zenon
<1>2. <<c, d>> \in Seq(Byte) /\ <<c>> \in Seq(Byte) /\ <<>> \in Seq(Byte)
  OBVIOUS
<1>3. <<c, d>> = First(c, e)
  <2>1. <<>> \o <<c, d>> = (<<>> \o <<c>>) \o <<d>>
    BY <1>2, FollowedTwice
  <2>2. <<>> \o <<c, d>> = <<c, d>> /\ <<>> \o <<c>> = <<c>>
    BY <1>2, ConcatEmptySeq, Zenon
  <2>3. QED
    BY <1>1, <2>1, <2>2, Zenon DEF First
<1>4. Joined(First(c, e), y) = First(c, Joined(e, y))
  BY FirstJoined
<1>5. <<c, d>> \in Texts
  BY <1>2 DEF Texts
<1>6. QED
  BY <1>1, <1>3, <1>4, <1>5, Zenon

\* The kinds of bytes of the grammar, and where they overlap: SP only.
LEMMA ByteKinds ==
  /\ TokenBytes \subseteq PlainBytes /\ Digits \subseteq PlainBytes
  /\ PlainBytes \subseteq Byte /\ Blanks \subseteq Byte
  /\ "CR" \in Byte /\ "LF" \in Byte /\ "SP" \in Byte /\ "HT" \in Byte
  /\ ":" \in Byte /\ "." \in Byte
  /\ "/" \in Byte /\ "H" \in Byte /\ "T" \in Byte /\ "P" \in Byte
  /\ PlainBytes \cap Blanks = {"SP"}
BY DEF TokenBytes, PlainBytes, Digits, Byte, AllBytes, Blanks, Controls, Letters, Specials

LEMMA KindsOfText ==
  /\ Seq(PlainBytes) \subseteq Texts /\ Seq(Blanks) \subseteq Texts
  /\ Tokens \subseteq Texts /\ Numbers \subseteq Texts
  /\ Seq(TokenBytes) \subseteq Texts /\ Seq(Digits) \subseteq Texts
BY ByteKinds DEF Texts, Tokens, Numbers

LEMMA FoldTypes ==
  ASSUME NEW f \in Folds
  PROVE  /\ f.blanks \in Seq(Blanks) \ {<<>>} /\ f.line \in Seq(PlainBytes)
         /\ f.line = <<>> \/ f.line[1] # "SP"
         /\ f.blanks \in Texts /\ f.line \in Texts /\ FoldText(f) \in Texts
<1>1. /\ f.blanks \in Seq(Blanks) \ {<<>>} /\ f.line \in Seq(PlainBytes)
      /\ f.line = <<>> \/ f.line[1] # "SP"
  BY DEF Folds
<1>2. f.blanks \in Texts /\ f.line \in Texts
  BY <1>1, KindsOfText
<1>3. CRLF \in Texts
  <2>1. <<"CR", "LF">> \in Texts
    BY ByteKinds, <1>2, TwoJoined
  <2>2. QED
    BY <2>1, Zenon DEF CRLF
<1>4. FoldText(f) \in Texts
  BY <1>2, <1>3, JoinedText, Zenon DEF FoldText, Joined
<1>5. QED
  BY <1>1, <1>2, <1>4

\* The lines of a value, written and read, peel at the first of them.
LEMMA FoldsFirst ==
  ASSUME NEW f \in Folds, NEW fs \in Seq(Folds)
  PROVE  /\ FoldsWritten(<<>>) = <<>> /\ FoldsRead(<<>>) = <<>>
         /\ FoldsWritten(fs) \in Texts /\ FoldsRead(fs) \in Texts
         /\ FoldsWritten(First(f, fs)) = Joined(FoldText(f), FoldsWritten(fs))
         /\ FoldsRead(First(f, fs)) = Joined(f.line, FoldsRead(fs))
<1>1. PICK T : T = Texts
  OBVIOUS
<1>2. PICK w \in [Folds -> T], r \in [Folds -> T] :
        \A g \in Folds : w[g] = FoldText(g) /\ r[g] = g.line
  <2>1. \A g \in Folds : FoldText(g) \in T /\ g.line \in T
    BY <1>1, FoldTypes
  <2>2. PICK w : w = [g \in Folds |-> FoldText(g)]
    OBVIOUS
  <2>3. PICK r : r = [g \in Folds |-> g.line]
    OBVIOUS
  <2>4. w \in [Folds -> T] /\ \A g \in Folds : w[g] = FoldText(g)
    BY <2>1, <2>2, Zenon
  <2>5. r \in [Folds -> T] /\ \A g \in Folds : r[g] = g.line
    BY <2>1, <2>3, Zenon
  <2>6. QED
    BY <2>4, <2>5, Zenon
<1>3. ASSUME NEW s \in Seq(Folds)
      PROVE  /\ FoldsWritten(s) = FlattenSeq(Mapped(w, s))
             /\ FoldsRead(s) = FlattenSeq(Mapped(r, s))
  <2>1. \A i \in DOMAIN s : s[i] \in Folds
    OBVIOUS
  <2>2. \A i \in DOMAIN s : w[s[i]] = FoldText(s[i]) /\ r[s[i]] = s[i].line
    BY <1>2, <2>1, Zenon
  <2>3. [i \in DOMAIN s |-> FoldText(s[i])] = [i \in DOMAIN s |-> w[s[i]]]
    BY <2>2, Zenon
  <2>4. [i \in DOMAIN s |-> s[i].line] = [i \in DOMAIN s |-> r[s[i]]]
    BY <2>2, Zenon
  <2>5. QED
    BY <2>3, <2>4, Zenon DEF FoldsWritten, FoldsRead, Mapped
<1>4. MapsFirst(w, f, fs, T)
  BY MappedFirst
<1>5. MapsFirst(r, f, fs, T)
  BY MappedFirst
<1>6. <<>> \in Seq(Folds) /\ First(f, fs) \in Seq(Folds)
  <2>1. PICK n \in Nat : n = Len(fs)
    OBVIOUS
  <2>2. First(f, fs) \in Seq(Folds)
    BY <2>1, FirstIs
  <2>3. QED
    BY <2>2
<1>7. PICK x \in T, y \in T : x = w[f] /\ y = r[f] /\ x = FoldText(f) /\ y = f.line
  BY <1>2
<1>8. x \in Seq(Byte) /\ y \in Seq(Byte)
  BY <1>1 DEF Texts
<1>9. PICK u \in Seq(Seq(Byte)), v \in Seq(Seq(Byte)) : u = Mapped(w, fs) /\ v = Mapped(r, fs)
  BY <1>1, <1>4, <1>5, Zenon DEF Texts, MapsFirst
<1>10. FlattenSeq(First(x, u)) = x \o FlattenSeq(u)
  BY <1>8, <1>9, FlattenFirst
<1>11. FlattenSeq(First(y, v)) = y \o FlattenSeq(v)
  BY <1>8, <1>9, FlattenFirst
<1>12. FlattenSeq(u) \in Texts /\ FlattenSeq(v) \in Texts
  BY <1>9, FlattenType DEF Texts
<1>13. FoldsWritten(<<>>) = <<>> /\ FoldsRead(<<>>) = <<>>
  BY <1>3, <1>4, <1>5, <1>6, FlattenEmpty, Zenon DEF MapsFirst
<1>14. FoldsWritten(fs) \in Texts /\ FoldsRead(fs) \in Texts
  BY <1>3, <1>9, <1>12, Zenon
<1>15. FoldsWritten(First(f, fs)) = Joined(FoldText(f), FoldsWritten(fs))
  BY <1>3, <1>4, <1>6, <1>7, <1>9, <1>10, Zenon DEF Joined, MapsFirst
<1>16. FoldsRead(First(f, fs)) = Joined(f.line, FoldsRead(fs))
  BY <1>3, <1>5, <1>6, <1>7, <1>9, <1>11, Zenon DEF Joined, MapsFirst
<1>17. QED
  BY <1>13, <1>14, <1>15, <1>16, Zenon
-----------------------------------------------------------------------------
\* An end of line, as its two bytes.
LEMMA EndOfLine ==
  ASSUME NEW y \in Texts
  PROVE  /\ First("LF", y) \in Texts /\ First("CR", First("LF", y)) \in Texts
         /\ Joined(CRLF, y) = First("CR", First("LF", y)) /\ CRLF \in Texts
<1>1. First("LF", y) \in Texts
  BY ByteKinds, FirstText
<1>2. First("CR", First("LF", y)) \in Texts
  BY <1>1, ByteKinds, FirstText
<1>3. Joined(<<"CR", "LF">>, y) = First("CR", First("LF", y)) /\ <<"CR", "LF">> \in Texts
  BY ByteKinds, TwoJoined
<1>4. QED
  BY <1>1, <1>2, <1>3, Zenon DEF CRLF

LEMMA FoldsSplit ==
  ASSUME NEW fs \in Seq(Folds), fs # <<>>
  PROVE  \E f \in Folds, gs \in Seq(Folds) : fs = First(f, gs)
<1>1. PICK S : S = Folds
  OBVIOUS
<1>2. PICK f \in S, gs \in Seq(S), n \in Nat :
        /\ fs = First(f, gs) /\ n = Len(gs) /\ Len(fs) = n + 1 /\ fs[1] = f
        /\ \A i \in 1..n : fs[i + 1] = gs[i]
  BY <1>1, FirstSplit
<1>3. QED
  BY <1>1, <1>2

\* What is left of a value at the end of a line: the end of the header, or the
\* blanks and the text of the line that continues it.
LEMMA FoldsRestIs ==
  ASSUME NEW f \in Folds, NEW fs \in Seq(Folds), NEW y \in Texts
  PROVE  /\ FoldsRest(fs, y) \in Texts
         /\ FoldsRest(<<>>, y) = First("CR", First("LF", y))
         /\ FoldsRest(First(f, fs), y) = First("CR", First("LF",
              Joined(f.blanks, Joined(f.line, FoldsRest(fs, y)))))
<1>1. PICK e \in Texts : e = First("CR", First("LF", y))
  BY EndOfLine
<1>2. PICK w \in Texts : w = FoldsWritten(fs)
  BY FoldsFirst
<1>3. PICK r \in Texts : r = FoldsRest(fs, y) /\ r = Joined(w, e)
  BY <1>1, <1>2, JoinedText, Zenon DEF FoldsRest
<1>4. PICK b \in Texts, l \in Texts : b = f.blanks /\ l = f.line
  BY FoldTypes
<1>5. PICK d \in Texts : d = CRLF /\ \A z \in Texts : Joined(d, z) = First("CR", First("LF", z))
  BY EndOfLine, Zenon
<1>6. FoldText(f) = Joined(Joined(d, b), l)
  BY <1>4, <1>5, Zenon DEF FoldText, Joined
<1>7. FoldsWritten(First(f, fs)) = Joined(Joined(Joined(d, b), l), w)
  BY <1>2, <1>6, FoldsFirst, Zenon
<1>0. /\ \A t, u \in Texts : Joined(t, u) \in Texts
      /\ \A t, u, v \in Texts : Joined(Joined(t, u), v) = Joined(t, Joined(u, v))
  BY JoinedText
<1>8. PICK db \in Texts, dbl \in Texts, lr \in Texts, blr \in Texts :
        db = Joined(d, b) /\ dbl = Joined(db, l) /\ lr = Joined(l, r) /\ blr = Joined(b, lr)
  <2>1. PICK db \in Texts : db = Joined(d, b)
    BY <1>0, Zenon
  <2>2. PICK dbl \in Texts : dbl = Joined(db, l)
    BY <1>0, Zenon
  <2>3. PICK lr \in Texts : lr = Joined(l, r)
    BY <1>0, Zenon
  <2>4. PICK blr \in Texts : blr = Joined(b, lr)
    BY <1>0, Zenon
  <2>5. QED
    BY <2>1, <2>2, <2>3, <2>4, Zenon
<1>9. Joined(Joined(dbl, w), e) = First("CR", First("LF", blr))
  <2>1. Joined(Joined(dbl, w), e) = Joined(dbl, Joined(w, e))
    BY <1>0
  <2>2. Joined(Joined(db, l), r) = Joined(db, Joined(l, r))
    BY <1>0
  <2>3. Joined(Joined(d, b), lr) = Joined(d, Joined(b, lr))
    BY <1>0
  <2>4. Joined(Joined(dbl, w), e) = Joined(d, blr)
    BY <1>3, <1>8, <2>1, <2>2, <2>3, Zenon
  <2>5. QED
    BY <1>5, <2>4, Zenon
<1>10. FoldsRest(First(f, fs), y) = First("CR", First("LF", blr))
  BY <1>1, <1>7, <1>8, <1>9, Zenon DEF FoldsRest
<1>11. FoldsRest(<<>>, y) = e
  BY <1>1, FoldsFirst, JoinedText, Zenon DEF FoldsRest
<1>12. QED
  BY <1>1, <1>3, <1>4, <1>8, <1>10, <1>11, Zenon

\* A text that begins with a part that is not empty.
Peels(p, q, b, y) ==
  /\ p = First(b, q) /\ Joined(p, y) = First(b, Joined(q, y))
  /\ \A f \in Texts : Joined(f, p) = Joined(Append(f, b), q)

\* The first byte of a part of the text.
LEMMA Peel ==
  ASSUME NEW S \in SUBSET Byte, NEW p \in Seq(S), p # <<>>, NEW y \in Texts
  PROVE  \E b \in S, q \in Seq(S) : q \in Texts /\ b = p[1] /\ Peels(p, q, b, y)
<1>1. PICK b \in S, q \in Seq(S) : p = First(b, q) /\ b = p[1]
  BY FirstSplit, Zenon
<1>2. q \in Texts /\ b \in Byte
  BY DEF Texts
<1>3. Joined(First(b, q), y) = First(b, Joined(q, y))
  BY <1>2, FirstJoined
<1>4. \A f \in Texts : Joined(Append(f, b), q) = Joined(f, First(b, q))
  BY <1>2, FirstJoined
<1>5. QED
  BY <1>1, <1>2, <1>3, <1>4, Zenon DEF Peels

-----------------------------------------------------------------------------
\* x is left of a value of which v is still to be read, and y follows it: in a
\* line, in the blanks that begin one, and behind a line break.
ValueRest(x, v, y) ==
  \E l \in Seq(PlainBytes), fs \in Seq(Folds) :
    v = Joined(l, FoldsRead(fs)) /\ x = Joined(l, FoldsRest(fs, y))

LwsRest(x, v, y) ==
  \E b \in Seq(Blanks), l \in Seq(PlainBytes), fs \in Seq(Folds) :
    /\ l = <<>> \/ l[1] # "SP"
    /\ v = Joined(l, FoldsRead(fs)) /\ x = Joined(b, Joined(l, FoldsRest(fs, y)))

BreakRest(x, v, y) ==
  \E fs \in Seq(Folds) :
    v = FoldsRead(fs) /\ First("CR", First("LF", x)) = FoldsRest(fs, y)

LEMMA FoldExists == \E f : f \in Folds
<1>1. <<"SP">> \in Seq(Blanks) \ {<<>>} /\ <<>> \in Seq(PlainBytes)
  BY DEF Blanks
<1>2. [blanks |-> <<"SP">>, line |-> <<>>] \in Folds
  BY <1>1 DEF Folds
<1>3. QED
  BY <1>2

LEMMA FoldsTypes ==
  ASSUME NEW fs \in Seq(Folds), NEW y \in Texts
  PROVE  FoldsRead(fs) \in Texts /\ FoldsRest(fs, y) \in Texts
<1>1. PICK f : f \in Folds
  BY FoldExists
<1>2. QED
  BY <1>1, FoldsFirst, FoldsRestIs

\* Behind a line break: the header is over, or a blank continues it.
LEMMA BreakPeel ==
  ASSUME NEW x \in Texts, NEW v, NEW y \in Texts, BreakRest(x, v, y)
  PROVE  \/ v = <<>> /\ x = y
         \/ \E b \in Blanks, z \in Texts : x = First(b, z) /\ LwsRest(z, v, y)
<1>1. PICK fs \in Seq(Folds) :
        v = FoldsRead(fs) /\ First("CR", First("LF", x)) = FoldsRest(fs, y)
  BY DEF BreakRest
<1>2. ASSUME NEW z \in Texts, First("CR", First("LF", x)) = First("CR", First("LF", z))
      PROVE  x = z
  <2>1. /\ First("LF", x) \in Seq(Byte) /\ First("LF", z) \in Seq(Byte)
        /\ x \in Seq(Byte) /\ z \in Seq(Byte)
    BY EndOfLine DEF Texts
  <2>2. PICK S : S = Byte
    OBVIOUS
  <2>3. "CR" \in S /\ "LF" \in S
    BY <2>2, ByteKinds
  <2>4. PICK u \in Seq(S), w \in Seq(S) : u = First("LF", x) /\ w = First("LF", z)
    BY <2>1, <2>2
  <2>5. x \in Seq(S) /\ z \in Seq(S)
    BY <2>1, <2>2
  <2>6. u = w
    BY <1>2, <2>3, <2>4, FirstApart
  <2>7. First("LF", x) = First("LF", z)
    BY <2>4, <2>6
  <2>8. QED
    BY <2>3, <2>5, <2>7, FirstApart
<1>3. CASE fs = <<>>
  <2>1. PICK f : f \in Folds
    BY FoldExists
  <2>2. v = <<>> /\ FoldsRest(fs, y) = First("CR", First("LF", y))
    BY <1>1, <1>3, <2>1, FoldsFirst, FoldsRestIs, Zenon
  <2>3. QED
    BY <1>1, <1>2, <2>2
<1>4. CASE fs # <<>>
  <2>1. PICK f \in Folds, gs \in Seq(Folds) : fs = First(f, gs)
    BY <1>4, FoldsSplit
  <2>2. PICK w \in Texts : w = Joined(f.line, FoldsRest(gs, y))
    BY FoldsTypes, FoldTypes, JoinedText
  <2>3. PICK b \in Blanks, q \in Seq(Blanks) : q \in Texts /\ Peels(f.blanks, q, b, w)
    <3>1. Blanks \in SUBSET Byte /\ f.blanks \in Seq(Blanks) /\ f.blanks # <<>>
      BY ByteKinds, FoldTypes
    <3>2. QED
      BY <3>1, Peel, Zenon
  <2>4. PICK z \in Texts : z = Joined(q, w)
    BY <2>3, JoinedText
  <2>5. FoldsRest(fs, y) = First("CR", First("LF", First(b, z)))
    <3>1. FoldsRest(First(f, gs), y) = First("CR", First("LF", Joined(f.blanks, w)))
      BY <2>2, FoldsRestIs, Zenon
    <3>2. QED
      BY <2>1, <2>3, <2>4, <3>1, Zenon DEF Peels
  <2>6. First(b, z) \in Texts
    BY ByteKinds, FirstText
  <2>7. x = First(b, z)
    BY <1>1, <1>2, <2>5, <2>6
  <2>8. v = Joined(f.line, FoldsRead(gs))
    BY <1>1, <2>1, FoldsFirst, Zenon
  <2>9. f.line \in Seq(PlainBytes) /\ (f.line = <<>> \/ f.line[1] # "SP")
    BY FoldTypes
  <2>10. LwsRest(z, v, y)
    BY <2>2, <2>3, <2>4, <2>8, <2>9, Zenon DEF LwsRest
  <2>11. QED
    BY <2>7, <2>10
<1>5. QED
  BY <1>3, <1>4

\* Where no line is left, the break comes.
LEMMA FoldsBreak ==
  ASSUME NEW fs \in Seq(Folds), NEW y \in Texts
  PROVE  \E z \in Texts : /\ FoldsRest(fs, y) = First("CR", First("LF", z))
                          /\ BreakRest(z, FoldsRead(fs), y)
<1>1. CASE fs = <<>>
  <2>1. PICK f : f \in Folds
    BY FoldExists
  <2>2. FoldsRest(fs, y) = First("CR", First("LF", y))
    BY <1>1, <2>1, FoldsRestIs, Zenon
  <2>3. QED
    BY <2>2, Zenon DEF BreakRest
<1>2. CASE fs # <<>>
  <2>1. PICK f \in Folds, gs \in Seq(Folds) : fs = First(f, gs)
    BY <1>2, FoldsSplit
  <2>2. PICK z \in Texts : z = Joined(f.blanks, Joined(f.line, FoldsRest(gs, y)))
    <3>1. FoldsRest(gs, y) \in Texts /\ f.line \in Texts /\ f.blanks \in Texts
      BY FoldsTypes, FoldTypes
    <3>2. QED
      BY <3>1, JoinedText, Zenon
  <2>3. FoldsRest(fs, y) = First("CR", First("LF", z))
    BY <2>1, <2>2, FoldsRestIs, Zenon
  <2>4. QED
    BY <2>3, Zenon DEF BreakRest
<1>3. QED
  BY <1>1, <1>2

BreakFollows(x, v, y) ==
  \E z \in Texts : x = First("CR", First("LF", z)) /\ BreakRest(z, v, y)

\* A byte of the value comes next, or the line break.
ByteFollows(S, x, v, y) ==
  \E b \in S, z \in Texts, w \in Texts :
    x = First(b, z) /\ v = First(b, w) /\ ValueRest(z, w, y)

\* Inside a line of a value the next byte is one of the line, or the line ends.
LEMMA LinePeel ==
  ASSUME NEW l \in Seq(PlainBytes), NEW fs \in Seq(Folds), NEW y \in Texts,
         NEW x, NEW v, v = Joined(l, FoldsRead(fs)), x = Joined(l, FoldsRest(fs, y)),
         NEW S, l = <<>> \/ l[1] \in S
  PROVE  BreakFollows(x, v, y) \/ ByteFollows(PlainBytes \cap S, x, v, y)
<1>1. PICK r \in Texts, t \in Texts : r = FoldsRest(fs, y) /\ t = FoldsRead(fs)
  BY FoldsTypes
<1>2. CASE l = <<>>
  <2>1. x = r /\ v = t
    BY <1>1, <1>2, JoinedText, Zenon
  <2>2. QED
    BY <1>1, <2>1, FoldsBreak, Zenon DEF BreakFollows
<1>3. CASE l # <<>>
  <2>1. PlainBytes \in SUBSET Byte
    BY ByteKinds
  <2>2. PICK b \in PlainBytes, q \in Seq(PlainBytes) :
          q \in Texts /\ b = l[1] /\ Peels(l, q, b, r)
    BY <1>1, <1>3, <2>1, Peel, Zenon
  <2>3. PICK z \in Texts, w \in Texts : z = Joined(q, r) /\ w = Joined(q, t)
    BY <1>1, <2>2, JoinedText, Zenon
  <2>4. x = First(b, z)
    BY <1>1, <2>2, <2>3, Zenon DEF Peels
  <2>5. v = First(b, w)
    <3>1. Joined(First(b, q), t) = First(b, Joined(q, t))
      BY <2>1, <2>2, FirstJoined
    <3>2. QED
      BY <1>1, <2>2, <2>3, <3>1, Zenon DEF Peels
  <2>6. ValueRest(z, w, y)
    BY <1>1, <2>3, Zenon DEF ValueRest
  <2>7. b \in PlainBytes \cap S
    BY <1>3, <2>2
  <2>8. QED
    BY <2>4, <2>5, <2>6, <2>7, Zenon DEF ByteFollows
<1>4. QED
  BY <1>2, <1>3

\* The same in the state header_value, that has no condition on the byte.
LEMMA ValuePeel ==
  ASSUME NEW x, NEW v, NEW y \in Texts, ValueRest(x, v, y)
  PROVE  BreakFollows(x, v, y) \/ ByteFollows(PlainBytes, x, v, y)
<1>1. PICK l \in Seq(PlainBytes), fs \in Seq(Folds) :
        v = Joined(l, FoldsRead(fs)) /\ x = Joined(l, FoldsRest(fs, y))
  BY Zenon DEF ValueRest
<1>2. l = <<>> \/ l[1] \in PlainBytes
  BY EmptySeq
<1>3. BreakFollows(x, v, y) \/ ByteFollows(PlainBytes \cap PlainBytes, x, v, y)
  BY <1>1, <1>2, LinePeel, Zenon
<1>4. PlainBytes \cap PlainBytes = PlainBytes
  OBVIOUS
<1>5. QED
  BY <1>3, <1>4, Zenon

\* In header_lws: one more blank, the end of the line, or a byte that is no blank.
LEMMA LwsPeel ==
  ASSUME NEW x, NEW v, NEW y \in Texts, LwsRest(x, v, y)
  PROVE  \/ \E b \in Blanks, z \in Texts : x = First(b, z) /\ LwsRest(z, v, y)
         \/ BreakFollows(x, v, y) \/ ByteFollows(PlainBytes \ {"SP"}, x, v, y)
<1>1. PICK b \in Seq(Blanks), l \in Seq(PlainBytes), fs \in Seq(Folds) :
        /\ l = <<>> \/ l[1] # "SP"
        /\ v = Joined(l, FoldsRead(fs)) /\ x = Joined(b, Joined(l, FoldsRest(fs, y)))
  BY Zenon DEF LwsRest
<1>2. PICK r \in Texts : r = Joined(l, FoldsRest(fs, y))
  <2>1. FoldsRest(fs, y) \in Texts /\ l \in Texts
    BY FoldsTypes, KindsOfText
  <2>2. QED
    BY <2>1, JoinedText, Zenon
<1>3. CASE b = <<>>
  <2>1. x = r
    BY <1>1, <1>2, <1>3, JoinedText, Zenon
  <2>2. PICK S : S = PlainBytes \ {"SP"}
    OBVIOUS
  <2>3. l = <<>> \/ l[1] \in S
    BY <1>1, <2>2, EmptySeq
  <2>4. BreakFollows(x, v, y) \/ ByteFollows(PlainBytes \cap S, x, v, y)
    BY <1>1, <1>2, <2>1, <2>3, LinePeel, Zenon
  <2>5. PlainBytes \cap S = PlainBytes \ {"SP"}
    BY <2>2
  <2>6. QED
    BY <2>4, <2>5, Zenon
<1>4. CASE b # <<>>
  <2>1. Blanks \in SUBSET Byte
    BY ByteKinds
  <2>2. PICK c \in Blanks, q \in Seq(Blanks) : q \in Texts /\ Peels(b, q, c, r)
    BY <1>2, <1>4, <2>1, Peel, Zenon
  <2>3. PICK z \in Texts : z = Joined(q, r)
    BY <1>2, <2>2, JoinedText, Zenon
  <2>4. x = First(c, z)
    BY <1>1, <1>2, <2>2, <2>3, Zenon DEF Peels
  <2>5. LwsRest(z, v, y)
    BY <1>1, <1>2, <2>2, <2>3, Zenon DEF LwsRest
  <2>6. QED
    BY <2>4, <2>5, Zenon
<1>5. QED
  BY <1>3, <1>4
-----------------------------------------------------------------------------
HeaderRest(h, y) ==
  Joined(h.name, First(":", First("SP", Joined(h.line, FoldsRest(h.folds, y)))))

HeadersWritten(hs) == FlattenSeq([i \in DOMAIN hs |-> HeaderText(OnWire(hs[i]))])
HeadersRest(hs) == Joined(HeadersWritten(hs), CRLF)
HeadersAsRead(hs) == [i \in DOMAIN hs |-> AsRead(hs[i])]

LEMMA RegroupFive ==
  ASSUME NEW a \in Texts, NEW b \in Texts, NEW c \in Texts, NEW d \in Texts,
         NEW e \in Texts, NEW y \in Texts
  PROVE  Joined(Joined(Joined(Joined(a, b), Joined(c, d)), e), y)
           = Joined(a, Joined(b, Joined(c, Joined(d, Joined(e, y)))))
<1>0. /\ \A t, u \in Texts : Joined(t, u) \in Texts
      /\ \A t, u, v \in Texts : Joined(Joined(t, u), v) = Joined(t, Joined(u, v))
  BY JoinedText
<1>1. PICK ab \in Texts : ab = Joined(a, b)
  BY <1>0, Zenon
<1>2. PICK cd \in Texts : cd = Joined(c, d)
  BY <1>0, Zenon
<1>3. PICK ey \in Texts : ey = Joined(e, y)
  BY <1>0, Zenon
<1>4. PICK dey \in Texts : dey = Joined(d, ey)
  BY <1>0, Zenon
<1>5. PICK cdey \in Texts : cdey = Joined(c, dey)
  BY <1>0, Zenon
<1>6. PICK abcd \in Texts : abcd = Joined(ab, cd)
  BY <1>0, Zenon
<1>7. Joined(Joined(abcd, e), y) = Joined(abcd, Joined(e, y))
  BY <1>0
<1>8. Joined(Joined(ab, cd), ey) = Joined(ab, Joined(cd, ey))
  BY <1>0
<1>9. Joined(Joined(c, d), ey) = Joined(c, Joined(d, ey))
  BY <1>0
<1>10. Joined(Joined(a, b), cdey) = Joined(a, Joined(b, cdey))
  BY <1>0
<1>11. QED
  BY <1>1, <1>2, <1>3, <1>4, <1>5, <1>6, <1>7, <1>8, <1>9, <1>10, Zenon

LEMMA WrittenHeaderTypes ==
  ASSUME NEW h \in WrittenHeaders
  PROVE  /\ h.name \in Tokens /\ h.line \in Seq(PlainBytes) /\ h.folds \in Seq(Folds)
         /\ h.name \in Texts /\ h.line \in Texts
         /\ FoldsWritten(h.folds) \in Texts /\ FoldsRead(h.folds) \in Texts
<1>1. h.name \in Tokens /\ h.line \in Seq(PlainBytes) /\ h.folds \in Seq(Folds)
  BY DEF WrittenHeaders
<1>2. h.name \in Texts /\ h.line \in Texts
  BY <1>1, KindsOfText
<1>3. PICK f : f \in Folds
  BY FoldExists
<1>4. FoldsWritten(h.folds) \in Texts /\ FoldsRead(h.folds) \in Texts
  BY <1>1, <1>3, FoldsFirst
<1>5. QED
  BY <1>1, <1>2, <1>4

\* A header on the wire is its name, a colon, a space and its lines.
LEMMA WrittenHeader ==
  ASSUME NEW h \in WrittenHeaders, NEW y \in Texts
  PROVE  /\ HeaderText(OnWire(h)) \in Texts
         /\ Joined(HeaderText(OnWire(h)), y) = HeaderRest(h, y)
         /\ AsRead(h) \in Header /\ AsRead(h).name = h.name
         /\ AsRead(h).value = Joined(h.line, FoldsRead(h.folds))
<1>1. PICK n \in Texts, l \in Texts, w \in Texts, r \in Texts :
        n = h.name /\ l = h.line /\ w = FoldsWritten(h.folds) /\ r = FoldsRead(h.folds)
  BY WrittenHeaderTypes
<1>2. /\ OnWire(h).name = n /\ OnWire(h).value = Joined(l, w)
      /\ AsRead(h) = [name |-> n, value |-> Joined(l, r)]
  BY <1>1 DEF OnWire, AsRead, FoldsWritten, FoldsRead, Joined
<1>3. PICK s \in Texts : /\ s = <<":", "SP">>
                         /\ \A z \in Texts : Joined(s, z) = First(":", First("SP", z))
  <2>1. \A z \in Texts : /\ Joined(<<":", "SP">>, z) = First(":", First("SP", z))
                         /\ <<":", "SP">> \in Texts
    BY ByteKinds, TwoJoined
  <2>2. <<":", "SP">> \in Texts
    BY <1>1, <2>1
  <2>3. QED
    BY <2>1, <2>2, Zenon
<1>4. PICK e \in Texts : e = CRLF /\ \A z \in Texts : Joined(e, z) = First("CR", First("LF", z))
  BY EndOfLine, Zenon
<1>5. HeaderText(OnWire(h)) = Joined(Joined(Joined(n, s), Joined(l, w)), e)
  BY <1>2, <1>3, <1>4, Zenon DEF HeaderText, Joined
<1>6. Joined(Joined(Joined(Joined(n, s), Joined(l, w)), e), y)
        = Joined(n, Joined(s, Joined(l, Joined(w, Joined(e, y)))))
  BY RegroupFive
<1>7. \A t, u \in Texts : Joined(t, u) \in Texts
  BY JoinedText
<1>8. PICK lr \in Texts : lr = Joined(l, Joined(w, Joined(e, y)))
  BY <1>7
<1>9. Joined(w, Joined(e, y)) = FoldsRest(h.folds, y)
  BY <1>1, <1>4, Zenon DEF FoldsRest
<1>10. Joined(HeaderText(OnWire(h)), y) = HeaderRest(h, y)
  BY <1>1, <1>3, <1>5, <1>6, <1>8, <1>9, Zenon DEF HeaderRest
<1>11. HeaderText(OnWire(h)) \in Texts
  BY <1>5, <1>7
<1>12. PICK v \in Texts : v = Joined(l, r)
  BY <1>7
<1>13. AsRead(h) = [name |-> n, value |-> v]
  BY <1>2, <1>12, Zenon
<1>14. AsRead(h) \in Header /\ AsRead(h).name = n /\ AsRead(h).value = v
  BY <1>13 DEF Header, Texts
<1>15. QED
  BY <1>1, <1>10, <1>11, <1>12, <1>14, Zenon

LEMMA HeadersNoneLeft ==
  /\ HeadersRest(<<>>) = First("CR", First("LF", <<>>))
  /\ HeadersAsRead(<<>>) = <<>>
<1>1. HeadersAsRead(<<>>) = <<>>
  BY DEF HeadersAsRead
<1>2. [i \in DOMAIN <<>> |-> HeaderText(OnWire(<<>>[i]))] = <<>>
  OBVIOUS
<1>3. HeadersWritten(<<>>) = <<>>
  BY <1>2, FlattenEmpty, Zenon DEF HeadersWritten
<1>4. <<>> \in Texts
  BY JoinedText
<1>5. CRLF \in Texts /\ Joined(CRLF, <<>>) = First("CR", First("LF", <<>>))
  BY <1>4, EndOfLine
<1>6. Joined(CRLF, <<>>) = CRLF /\ Joined(<<>>, CRLF) = CRLF
  BY <1>5, JoinedText, TextAlgebra
<1>7. QED
  BY <1>1, <1>3, <1>5, <1>6, Zenon DEF HeadersRest

\* The headers, on the wire and as read, as functions of the headers written.
LEMMA HeadersMapped ==
  \E w \in [WrittenHeaders -> Texts], r \in [WrittenHeaders -> Header] :
    /\ \A h \in WrittenHeaders : w[h] = HeaderText(OnWire(h)) /\ r[h] = AsRead(h)
    /\ \A s \in Seq(WrittenHeaders) : /\ HeadersWritten(s) = FlattenSeq(Mapped(w, s))
                                      /\ HeadersAsRead(s) = Mapped(r, s)
<1>1. PICK T : T = Texts
  OBVIOUS
<1>2. \A h \in WrittenHeaders : HeaderText(OnWire(h)) \in T /\ AsRead(h) \in Header
  BY <1>1, JoinedText, WrittenHeader
<1>3. PICK w : w = [h \in WrittenHeaders |-> HeaderText(OnWire(h))]
  OBVIOUS
<1>4. PICK r : r = [h \in WrittenHeaders |-> AsRead(h)]
  OBVIOUS
<1>5. w \in [WrittenHeaders -> T] /\ \A h \in WrittenHeaders : w[h] = HeaderText(OnWire(h))
  BY <1>2, <1>3, Zenon
<1>6. r \in [WrittenHeaders -> Header] /\ \A h \in WrittenHeaders : r[h] = AsRead(h)
  BY <1>2, <1>4, Zenon
<1>7. ASSUME NEW s \in Seq(WrittenHeaders)
      PROVE  /\ HeadersWritten(s) = FlattenSeq(Mapped(w, s))
             /\ HeadersAsRead(s) = Mapped(r, s)
  <2>1. \A i \in DOMAIN s : s[i] \in WrittenHeaders
    OBVIOUS
  <2>2. \A i \in DOMAIN s : w[s[i]] = HeaderText(OnWire(s[i])) /\ r[s[i]] = AsRead(s[i])
    BY <1>5, <1>6, <2>1, Zenon
  <2>3. [i \in DOMAIN s |-> HeaderText(OnWire(s[i]))] = [i \in DOMAIN s |-> w[s[i]]]
    BY <2>2, Zenon
  <2>4. [i \in DOMAIN s |-> AsRead(s[i])] = [i \in DOMAIN s |-> r[s[i]]]
    BY <2>2, Zenon
  <2>5. QED
    BY <2>3, <2>4, Zenon DEF HeadersWritten, HeadersAsRead, Mapped
<1>8. QED
  BY <1>1, <1>5, <1>6, <1>7, Zenon

\* What is left of the headers peels at the first of them.
LEMMA HeadersFirst ==
  ASSUME NEW h \in WrittenHeaders, NEW hs \in Seq(WrittenHeaders)
  PROVE  /\ HeadersRest(hs) \in Texts /\ HeadersAsRead(hs) \in Seq(Header)
         /\ HeadersRest(First(h, hs)) = HeaderRest(h, HeadersRest(hs))
         /\ HeadersAsRead(First(h, hs)) = First(AsRead(h), HeadersAsRead(hs))
<1>1. PICK w \in [WrittenHeaders -> Texts], r \in [WrittenHeaders -> Header] :
        /\ \A g \in WrittenHeaders : w[g] = HeaderText(OnWire(g)) /\ r[g] = AsRead(g)
        /\ \A s \in Seq(WrittenHeaders) : /\ HeadersWritten(s) = FlattenSeq(Mapped(w, s))
                                          /\ HeadersAsRead(s) = Mapped(r, s)
  BY HeadersMapped
<1>2. PICK T : T = Texts
  OBVIOUS
<1>3. MapsFirst(w, h, hs, T)
  BY <1>2, MappedFirst
<1>4. MapsFirst(r, h, hs, Header)
  BY MappedFirst
<1>5. First(h, hs) \in Seq(WrittenHeaders)
  <2>1. PICK n \in Nat : n = Len(hs)
    OBVIOUS
  <2>2. QED
    BY <2>1, FirstIs
<1>6. PICK x \in T : x = w[h] /\ x = HeaderText(OnWire(h))
  BY <1>1, <1>2
<1>7. PICK u \in Seq(Seq(Byte)) : u = Mapped(w, hs)
  BY <1>2, <1>3, Zenon DEF Texts, MapsFirst
<1>8. FlattenSeq(First(x, u)) = x \o FlattenSeq(u)
  <2>1. x \in Seq(Byte)
    BY <1>2 DEF Texts
  <2>2. QED
    BY <1>7, <2>1, FlattenFirst
<1>9. PICK f \in Texts : f = FlattenSeq(u)
  BY <1>7, FlattenType DEF Texts
<1>10. HeadersWritten(First(h, hs)) = Joined(x, f) /\ HeadersWritten(hs) = f
  BY <1>1, <1>3, <1>5, <1>6, <1>7, <1>8, <1>9, Zenon DEF Joined, MapsFirst
<1>11. PICK e \in Texts : e = CRLF
  <2>1. <<>> \in Texts
    BY JoinedText
  <2>2. QED
    BY <2>1, EndOfLine
<1>12. PICK y \in Texts : y = Joined(f, e) /\ y = HeadersRest(hs)
  BY <1>10, <1>11, JoinedText, Zenon DEF HeadersRest
<1>13. Joined(Joined(x, f), e) = Joined(x, Joined(f, e))
  BY <1>2, JoinedText
<1>14. HeadersRest(First(h, hs)) = Joined(x, y)
  BY <1>10, <1>11, <1>12, <1>13, Zenon DEF HeadersRest
<1>15. Joined(HeaderText(OnWire(h)), y) = HeaderRest(h, y)
  BY WrittenHeader
<1>16. HeadersAsRead(hs) \in Seq(Header)
  BY <1>1, <1>4, Zenon DEF MapsFirst
<1>17. HeadersAsRead(First(h, hs)) = First(AsRead(h), HeadersAsRead(hs))
  BY <1>1, <1>4, <1>5, Zenon DEF MapsFirst
<1>18. QED
  BY <1>6, <1>12, <1>14, <1>15, <1>16, <1>17, Zenon
-----------------------------------------------------------------------------
AfterMinor(r) == First("CR", First("LF", HeadersRest(r.headers)))
AfterMajor(r) == First(".", Joined(r.minor, AfterMinor(r)))
AfterUri(r) ==
  First("SP", First("H", First("T", First("T", First("P",
    First("/", Joined(r.major, AfterMajor(r))))))))
AfterMethod(r) == First("SP", Joined(r.uri, AfterUri(r)))

LEMMA WrittenTypes ==
  ASSUME NEW r \in Written
  PROVE  /\ r.method \in Tokens /\ r.uri \in Seq(PlainBytes \ {"SP"})
         /\ r.major \in Numbers /\ r.minor \in Numbers
         /\ r.headers \in Seq(WrittenHeaders)
         /\ r.method \in Texts /\ r.uri \in Texts /\ r.major \in Texts /\ r.minor \in Texts
         /\ HeadersWritten(r.headers) \in Texts /\ HeadersRest(r.headers) \in Texts
         /\ HeadersAsRead(r.headers) \in Seq(Header)
<1>1. /\ r.method \in Tokens /\ r.uri \in Seq(PlainBytes \ {"SP"})
      /\ r.major \in Numbers /\ r.minor \in Numbers
      /\ r.headers \in Seq(WrittenHeaders)
  BY DEF Written
<1>2. r.method \in Texts /\ r.uri \in Texts /\ r.major \in Texts /\ r.minor \in Texts
  <2>1. r.uri \in Seq(PlainBytes)
    BY <1>1
  <2>2. QED
    BY <1>1, <2>1, KindsOfText
<1>3. PICK w \in [WrittenHeaders -> Texts], d \in [WrittenHeaders -> Header] :
        \A s \in Seq(WrittenHeaders) : /\ HeadersWritten(s) = FlattenSeq(Mapped(w, s))
                                       /\ HeadersAsRead(s) = Mapped(d, s)
  BY HeadersMapped
<1>4. PICK T : T = Texts
  OBVIOUS
<1>5. PICK n \in Nat : n = Len(r.headers)
  BY <1>1
<1>6. Mapped(w, r.headers) \in Seq(T) /\ Mapped(d, r.headers) \in Seq(Header)
  BY <1>1, <1>4, <1>5, MappedIs
<1>7. HeadersWritten(r.headers) \in Texts
  <2>1. Mapped(w, r.headers) \in Seq(Seq(Byte))
    BY <1>4, <1>6 DEF Texts
  <2>2. FlattenSeq(Mapped(w, r.headers)) \in Texts
    BY <2>1, FlattenType DEF Texts
  <2>3. QED
    BY <1>1, <1>3, <2>2
<1>8. HeadersRest(r.headers) \in Texts
  BY <1>2, <1>7, EndOfLine, JoinedText DEF HeadersRest
<1>9. QED
  BY <1>1, <1>2, <1>3, <1>6, <1>7, <1>8

\* What follows each field of the request line.
LEMMA AfterTypes ==
  ASSUME NEW r \in Written
  PROVE  /\ AfterMinor(r) \in Texts /\ AfterMajor(r) \in Texts
         /\ AfterUri(r) \in Texts /\ AfterMethod(r) \in Texts
<1>1. /\ "SP" \in Byte /\ "H" \in Byte /\ "T" \in Byte /\ "P" \in Byte /\ "/" \in Byte
      /\ "." \in Byte /\ "CR" \in Byte /\ "LF" \in Byte
  BY ByteKinds
<1>2. /\ \A c \in Byte, x \in Texts : First(c, x) \in Texts
      /\ \A x, y \in Texts : Joined(x, y) \in Texts
  BY FirstText, JoinedText
<1>3. /\ r.uri \in Texts /\ r.major \in Texts /\ r.minor \in Texts
      /\ HeadersRest(r.headers) \in Texts
  BY WrittenTypes
<1>4. AfterMinor(r) \in Texts
  BY <1>1, <1>2, <1>3 DEF AfterMinor
<1>5. AfterMajor(r) \in Texts
  BY <1>1, <1>2, <1>3, <1>4 DEF AfterMajor
<1>6. AfterUri(r) \in Texts
  BY <1>1, <1>2, <1>3, <1>5 DEF AfterUri
<1>7. AfterMethod(r) \in Texts
  BY <1>1, <1>2, <1>3, <1>6 DEF AfterMethod
<1>8. QED
  BY <1>4, <1>5, <1>6, <1>7

LEMMA OnWireHeaders ==
  ASSUME NEW hs \in Seq(WrittenHeaders)
  PROVE  \E g \in Seq(Header) :
           /\ g = [i \in DOMAIN hs |-> OnWire(hs[i])]
           /\ [i \in DOMAIN g |-> HeaderText(g[i])]
                = [i \in DOMAIN hs |-> HeaderText(OnWire(hs[i]))]
<1>1. PICK n \in Nat : n = Len(hs) /\ DOMAIN hs = 1..n
  OBVIOUS
<1>2. \A h \in WrittenHeaders : OnWire(h) \in Header
  <2> SUFFICES ASSUME NEW h \in WrittenHeaders PROVE OnWire(h) \in Header
    OBVIOUS
  <2>1. Joined(h.line, FoldsWritten(h.folds)) \in Texts /\ h.name \in Texts
    BY WrittenHeaderTypes, JoinedText
  <2>2. OnWire(h) = [name |-> h.name, value |-> Joined(h.line, FoldsWritten(h.folds))]
    BY Zenon DEF OnWire, Joined, FoldsWritten
  <2>3. QED
    BY <2>1, <2>2 DEF Header, Texts
<1>3. PICK g : g = [i \in 1..n |-> OnWire(hs[i])]
  OBVIOUS
<1>4. \A i \in 1..n : hs[i] \in WrittenHeaders
  BY <1>1
<1>5. g \in [1..n -> Header] /\ \A i \in 1..n : g[i] = OnWire(hs[i])
  BY <1>2, <1>3, <1>4, Zenon
<1>6. g \in Seq(Header) /\ DOMAIN g = 1..n
  BY <1>5
<1>7. [i \in DOMAIN g |-> HeaderText(g[i])] = [i \in DOMAIN hs |-> HeaderText(OnWire(hs[i]))]
  BY <1>1, <1>5, <1>6, Zenon
<1>8. QED
  BY <1>1, <1>3, <1>6, <1>7, Zenon

LEMMA ThenJoined ==
  ASSUME NEW x \in Texts, NEW y \in Texts, NEW c \in Byte
  PROVE  /\ Then(x, c) \in Texts /\ First(c, y) \in Texts
         /\ Joined(Then(x, c), y) = Joined(x, First(c, y))
<1>1. Joined(Append(x, c), y) = Joined(x, First(c, y))
  BY FirstJoined
<1>2. Then(x, c) \in Texts /\ First(c, y) \in Texts
  BY FirstText, TextAlgebra
<1>3. QED
  BY <1>1, <1>2, Zenon DEF Then

LEMMA TwoThenJoined ==
  ASSUME NEW x \in Texts, NEW y \in Texts, NEW c \in Byte, NEW d \in Byte
  PROVE  /\ Then(Then(x, c), d) \in Texts /\ First(c, First(d, y)) \in Texts
         /\ Joined(Then(Then(x, c), d), y) = Joined(x, First(c, First(d, y)))
<1>1. PICK t \in Texts, z \in Texts :
        /\ t = Then(x, c) /\ z = First(d, y) /\ Joined(t, z) = Joined(x, First(c, z))
        /\ First(c, z) \in Texts
  <2>1. Then(x, c) \in Texts /\ First(d, y) \in Texts
    BY ThenJoined
  <2>2. /\ Joined(Then(x, c), First(d, y)) = Joined(x, First(c, First(d, y)))
        /\ First(c, First(d, y)) \in Texts
    BY <2>1, ThenJoined
  <2>3. QED
    BY <2>1, <2>2, Zenon
<1>2. Then(t, d) \in Texts /\ Joined(Then(t, d), y) = Joined(t, First(d, y))
  BY ThenJoined
<1>3. QED
  BY <1>1, <1>2, Zenon

\* t is x and two bytes, which may be read before what follows.
AndTwo(t, x, c, d) ==
  /\ t = Then(Then(x, c), d)
  /\ \A y \in Texts : Joined(t, y) = Joined(x, First(c, First(d, y)))

LEMMA TwoThen ==
  ASSUME NEW x \in Texts, NEW c \in Byte, NEW d \in Byte
  PROVE  \E t \in Texts : AndTwo(t, x, c, d)
<1>1. ASSUME NEW y \in Texts
      PROVE  Joined(Then(Then(x, c), d), y) = Joined(x, First(c, First(d, y)))
  BY TwoThenJoined
<1>2. Then(Then(x, c), d) \in Texts
  BY TwoThenJoined
<1>3. QED
  BY <1>1, <1>2, Zenon DEF AndTwo

\* The text of a request is the method and what comes after it.
LEMMA TextOfIs ==
  ASSUME NEW r \in Written
  PROVE  TextOf(r) = Joined(r.method, AfterMethod(r))
<1>1. PICK m, u, j, n \in Texts : m = r.method /\ u = r.uri /\ j = r.major /\ n = r.minor
  BY WrittenTypes
<1>2. PICK w \in Texts, e \in Texts :
        w = HeadersWritten(r.headers) /\ e = HeadersRest(r.headers) /\ e = Joined(w, CRLF)
  BY WrittenTypes, Zenon DEF HeadersRest
<1>3. PICK hs \in Seq(Header) :
        /\ hs = [i \in DOMAIN r.headers |-> OnWire(r.headers[i])]
        /\ FlattenSeq([i \in DOMAIN hs |-> HeaderText(hs[i])]) = w
  <2>1. r.headers \in Seq(WrittenHeaders)
    BY WrittenTypes
  <2>2. QED
    BY <1>2, <2>1, OnWireHeaders, Zenon DEF HeadersWritten
<1>4. PICK k \in Texts : k = CRLF /\ \A z \in Texts : Joined(z, k) = Break(z)
  <2>1. CRLF \in Texts
    BY <1>1, EndOfLine
  <2>2. \A z \in Texts : Joined(z, <<"CR", "LF">>) = Then(Then(z, "CR"), "LF")
    BY ByteKinds, ThenPair
  <2>3. QED
    BY <2>1, <2>2, Zenon DEF Break, CRLF
<1>5. PICK l \in Texts : l = LineText(m, u, j, n)
  BY LineTypes
<1>6. TextOf(r) = Joined(l, e)
  <2>1. RequestText(m, u, j, n, hs) = Break(HeadersText(l, hs))
    BY <1>5, RequestTextIs
  <2>2. HeadersText(l, hs) = Joined(l, w) /\ HeadersText(l, hs) \in Texts
    BY <1>3, HeadersType DEF HeadersText
  <2>3. Joined(Joined(l, w), k) = Joined(l, Joined(w, k))
    BY JoinedText
  <2>4. QED
    BY <1>1, <1>2, <1>3, <1>4, <2>1, <2>2, <2>3, Zenon DEF TextOf
<1>7. /\ "SP" \in Byte /\ "H" \in Byte /\ "T" \in Byte /\ "P" \in Byte /\ "/" \in Byte
      /\ "." \in Byte /\ "CR" \in Byte /\ "LF" \in Byte
  BY ByteKinds
<1>9. /\ \A x, y, z \in Texts : Joined(Joined(x, y), z) = Joined(x, Joined(y, z))
      /\ \A x, y \in Texts : Joined(x, y) \in Texts
  BY JoinedText
<1>10. PICK am \in Texts : am = AfterMinor(r) /\ am = First("CR", First("LF", e))
  BY <1>2, AfterTypes, Zenon DEF AfterMinor
<1>11. PICK aj \in Texts : aj = AfterMajor(r) /\ aj = First(".", Joined(n, am))
  BY <1>1, <1>10, AfterTypes, Zenon DEF AfterMajor
<1>12. PICK au \in Texts : /\ au = AfterUri(r)
         /\ au = First("SP", First("H", First("T", First("T", First("P",
                   First("/", Joined(j, aj)))))))
  BY <1>1, <1>11, AfterTypes, Zenon DEF AfterUri
<1>13. AfterMethod(r) = First("SP", Joined(u, au))
  BY <1>1, <1>12, Zenon DEF AfterMethod
<1>14. Joined(l, e) = Joined(MinorText(m, u, j, n), am)
  <2>1. MinorText(m, u, j, n) \in Texts
    BY LineTypes
  <2>2. Joined(Then(Then(MinorText(m, u, j, n), "CR"), "LF"), e)
          = Joined(MinorText(m, u, j, n), First("CR", First("LF", e)))
    BY <1>7, <2>1, TwoThenJoined
  <2>3. QED
    BY <1>5, <1>10, <2>2, Zenon DEF LineText, Break
<1>15. Joined(MinorText(m, u, j, n), am) = Joined(MajorText(m, u, j), aj)
  <2>1. PICK t \in Texts, v \in Texts, d \in Texts :
          t = MajorText(m, u, j) /\ v = Joined(n, am) /\ d = Then(t, ".")
    <3>1. MajorText(m, u, j) \in Texts /\ Then(MajorText(m, u, j), ".") \in Texts
      BY LineTypes
    <3>2. Joined(n, am) \in Texts
      BY <1>9
    <3>3. QED
      BY <3>1, <3>2, Zenon
  <2>2. Joined(Joined(d, n), am) = Joined(d, v)
    BY <1>9, <2>1
  <2>3. Joined(Then(t, "."), v) = Joined(t, First(".", v))
    BY <1>7, ThenJoined
  <2>4. QED
    BY <1>11, <2>1, <2>2, <2>3, Zenon DEF MinorText
<1>16. Joined(MajorText(m, u, j), aj) = Joined(UriText(m, u), au)
  <2>1. PICK t \in Texts : t = UriText(m, u)
    BY LineTypes
  <2>2. PICK v \in Texts : v = Joined(j, aj)
    BY <1>9
  <2>3. PICK s1 \in Texts :
          /\ s1 = SpaceH(t)
          /\ \A x \in Texts : Joined(s1, x) = Joined(t, First("SP", First("H", x)))
    <3>1. \E z \in Texts : AndTwo(z, t, "SP", "H")
      BY <1>7, <2>1, TwoThen
    <3>2. QED
      BY <3>1, Zenon DEF SpaceH, AndTwo
  <2>4. PICK s2 \in Texts :
          /\ s2 = TwoT(s1)
          /\ \A x \in Texts : Joined(s2, x) = Joined(s1, First("T", First("T", x)))
    <3>1. \E z \in Texts : AndTwo(z, s1, "T", "T")
      BY <1>7, <2>3, TwoThen
    <3>2. QED
      BY <3>1, Zenon DEF TwoT, AndTwo
  <2>5. PICK s3 \in Texts :
          /\ s3 = Slash(s2)
          /\ \A x \in Texts : Joined(s3, x) = Joined(s2, First("P", First("/", x)))
    <3>1. \E z \in Texts : AndTwo(z, s2, "P", "/")
      BY <1>7, <2>4, TwoThen
    <3>2. QED
      BY <3>1, Zenon DEF Slash, AndTwo
  <2>6. PICK v1 \in Texts : v1 = First("P", First("/", v))
    BY <1>1, <1>7, <2>2, TwoThenJoined
  <2>7. PICK v2 \in Texts : v2 = First("T", First("T", v1))
    BY <1>1, <1>7, <2>6, TwoThenJoined
  <2>8. Joined(Joined(s3, j), aj) = Joined(s3, v)
    BY <1>9, <2>2
  <2>9. MajorText(m, u, j) = Joined(s3, j)
    BY <2>1, <2>3, <2>4, <2>5, Zenon DEF MajorText
  <2>10. Joined(s3, v) = Joined(s2, v1) /\ Joined(s2, v1) = Joined(s1, v2)
    BY <2>4, <2>5, <2>6, <2>7, Zenon
  <2>11. Joined(s1, v2) = Joined(t, au)
    BY <1>12, <2>2, <2>3, <2>6, <2>7, Zenon
  <2>12. QED
    BY <2>1, <2>8, <2>9, <2>10, <2>11, Zenon
<1>17. Joined(UriText(m, u), au) = Joined(m, First("SP", Joined(u, au)))
  <2>1. PICK d \in Texts, v \in Texts : d = Then(m, "SP") /\ v = Joined(u, au)
    <3>1. Then(m, "SP") \in Texts
      BY LineTypes
    <3>2. Joined(u, au) \in Texts
      BY <1>9
    <3>3. QED
      BY <3>1, <3>2, Zenon
  <2>2. Joined(Joined(d, u), au) = Joined(d, v)
    BY <1>9, <2>1
  <2>3. Joined(Then(m, "SP"), v) = Joined(m, First("SP", v))
    BY <1>7, ThenJoined
  <2>4. QED
    BY <2>1, <2>2, <2>3, Zenon DEF UriText
<1>18. QED
  BY <1>1, <1>6, <1>13, <1>14, <1>15, <1>16, <1>17, Zenon
-----------------------------------------------------------------------------
(* What the machine has still to be given, state by state *)

\* Of a field, whole, a part has been read: x is the rest of it and then y.
FieldRest(read, whole, S, x, y) ==
  \E p \in Seq(S) : whole = Joined(read, p) /\ x = Joined(p, y)

\* The next byte of a field.
FieldGoesOn(read, whole, S, x, y) ==
  \E b \in S, z \in Texts :
    x = First(b, z) /\ FieldRest(Append(read, b), whole, S, z, y)

\* A field of which a rest x is left is over, or its next byte is at hand.
LEMMA FieldPeel ==
  ASSUME NEW S \in SUBSET Byte, NEW read \in Texts, NEW y \in Texts, NEW x, NEW whole,
         FieldRest(read, whole, S, x, y)
  PROVE  \/ whole = read /\ x = y
         \/ FieldGoesOn(read, whole, S, x, y)
<1>1. PICK p \in Seq(S) : whole = Joined(read, p) /\ x = Joined(p, y)
  BY Zenon DEF FieldRest
<1>2. CASE p = <<>>
  <2>1. Joined(read, <<>>) = read /\ Joined(<<>>, y) = y
    BY TextAlgebra, JoinedText
  <2>2. QED
    BY <1>1, <1>2, <2>1, Zenon
<1>3. CASE p # <<>>
  <2>1. PICK b \in S, q \in Seq(S) : q \in Texts /\ Peels(p, q, b, y)
    BY <1>3, Peel, Zenon
  <2>2. PICK z \in Texts : z = Joined(q, y)
    BY <2>1, JoinedText
  <2>3. x = First(b, z) /\ whole = Joined(Append(read, b), q)
    BY <1>1, <2>1, <2>2, Zenon DEF Peels
  <2>4. FieldRest(Append(read, b), whole, S, z, y)
    BY <2>1, <2>2, <2>3, Zenon DEF FieldRest
  <2>5. QED
    BY <2>3, <2>4, Zenon DEF FieldGoesOn
<1>4. QED
  BY <1>2, <1>3

\* A field that is not empty is not over before it has begun.
LEMMA FieldBegins ==
  ASSUME NEW S \in SUBSET Byte, NEW y \in Texts, NEW x, NEW whole \in Seq(S) \ {<<>>},
         FieldRest(<<>>, whole, S, x, y)
  PROVE  FieldGoesOn(<<>>, whole, S, x, y)
<1>1. <<>> \in Texts
  BY JoinedText
<1>2. QED
  BY <1>1, FieldPeel, Zenon

\* Before its first byte the rest of a field is the field.
LEMMA FieldAhead ==
  ASSUME NEW S \in SUBSET Byte, NEW y, NEW whole \in Seq(S)
  PROVE  FieldRest(<<>>, whole, S, Joined(whole, y), y)
<1>1. whole \in Texts
  BY DEF Texts
<1>2. Joined(<<>>, whole) = whole
  BY <1>1, JoinedText
<1>3. QED
  BY <1>2, Zenon DEF FieldRest

AfterSlash(r) == Joined(r.major, AfterMajor(r))

\* The rest of the request line is x, in state s and with the fields m, u, j and
\* n read so far.
LineLeft(r, s, m, u, j, n, x) ==
  /\ s \notin {"method_start", "method"} => m = r.method
  /\ s \notin BeforeUri \cup {"uri"} => u = r.uri
  /\ s \notin BeforeMajor \cup {"http_version_major"} => j = r.major
  /\ s \notin BeforeMinor \cup {"http_version_minor"} => n = r.minor
  /\ s = "method_start" => m = <<>>
  /\ s \in {"method_start", "method"} =>
       FieldRest(m, r.method, TokenBytes, x, AfterMethod(r))
  /\ s # "uri_start"
  /\ s = "uri" => FieldRest(u, r.uri, PlainBytes \ {"SP"}, x, AfterUri(r))
  /\ s = "http_version_h" =>
       x = First("H", First("T", First("T", First("P", First("/", AfterSlash(r))))))
  /\ s = "http_version_t_1" =>
       x = First("T", First("T", First("P", First("/", AfterSlash(r)))))
  /\ s = "http_version_t_2" => x = First("T", First("P", First("/", AfterSlash(r))))
  /\ s = "http_version_p" => x = First("P", First("/", AfterSlash(r)))
  /\ s = "http_version_slash" => x = First("/", AfterSlash(r))
  /\ s \in {"http_version_major_start", "http_version_major"} =>
       FieldRest(j, r.major, Digits, x, AfterMajor(r))
  /\ s \in {"http_version_minor_start", "http_version_minor"} =>
       FieldRest(n, r.minor, Digits, x, AfterMinor(r))
  /\ s = "expecting_newline_1" => x = First("LF", HeadersRest(r.headers))

\* Where consume goes on the bytes the grammar allows in the request line.
LEMMA LineTargets ==
  /\ state \in {"method_start", "method"} => \A c \in TokenBytes : Target(c) = "method"
  /\ state = "method" => Target("SP") = "uri"
  /\ state = "uri" => /\ \A c \in PlainBytes \ {"SP"} : Target(c) = "uri"
                      /\ Target("SP") = "http_version_h"
  /\ state = "http_version_h" => Target("H") = "http_version_t_1"
  /\ state = "http_version_t_1" => Target("T") = "http_version_t_2"
  /\ state = "http_version_t_2" => Target("T") = "http_version_p"
  /\ state = "http_version_p" => Target("P") = "http_version_slash"
  /\ state = "http_version_slash" => Target("/") = "http_version_major_start"
  /\ state \in {"http_version_major_start", "http_version_major"} =>
       \A c \in Digits : Target(c) = "http_version_major"
  /\ state = "http_version_major" => Target(".") = "http_version_minor_start"
  /\ state \in {"http_version_minor_start", "http_version_minor"} =>
       \A c \in Digits : Target(c) = "http_version_minor"
  /\ state = "http_version_minor" => Target("CR") = "expecting_newline_1"
  /\ state = "expecting_newline_1" => Target("LF") = "header_line_start"
<1>1. \A c \in TokenBytes : IsToken(c)
  BY DEF IsToken, IsCtl, TokenBytes, Letters, Digits, Controls, Specials
<1>2. \A c \in PlainBytes : ~IsCtl(c)
  BY DEF IsCtl, PlainBytes
<1>3. /\ ~IsToken("SP") /\ ~IsDigit(".") /\ ~IsDigit("CR") /\ \A c \in Digits : IsDigit(c)
  BY DEF IsToken, IsDigit, Digits, Specials
<1>4. state \notin HeaderStates => \A c : Target(c) = RequestLine(state, c)
  BY DEF Target
<1>5. /\ state \in {"method_start", "method"} => \A c \in TokenBytes : Target(c) = "method"
      /\ state = "method" => Target("SP") = "uri"
  BY <1>1, <1>3, <1>4 DEF RequestLine, HeaderStates
<1>6. state = "uri" => /\ \A c \in PlainBytes \ {"SP"} : Target(c) = "uri"
                       /\ Target("SP") = "http_version_h"
  BY <1>2, <1>3, <1>4 DEF RequestLine, HeaderStates
<1>7. /\ state = "http_version_h" => Target("H") = "http_version_t_1"
      /\ state = "http_version_t_1" => Target("T") = "http_version_t_2"
      /\ state = "http_version_t_2" => Target("T") = "http_version_p"
      /\ state = "http_version_p" => Target("P") = "http_version_slash"
      /\ state = "http_version_slash" => Target("/") = "http_version_major_start"
      /\ state = "expecting_newline_1" => Target("LF") = "header_line_start"
  BY <1>4 DEF RequestLine, HeaderStates
<1>8. /\ state \in {"http_version_major_start", "http_version_major"} =>
           \A c \in Digits : Target(c) = "http_version_major"
      /\ state = "http_version_major" => Target(".") = "http_version_minor_start"
      /\ state \in {"http_version_minor_start", "http_version_minor"} =>
           \A c \in Digits : Target(c) = "http_version_minor"
      /\ state = "http_version_minor" => Target("CR") = "expecting_newline_1"
  BY <1>3, <1>4 DEF RequestLine, HeaderStates
<1>9. QED
  BY <1>5, <1>6, <1>7, <1>8

LineGoesOn(r, t, c, z) ==
  /\ t \in States
  /\ StoreRequestLine(t, c) => LineLeft(r, t, method', uri', major', minor', z)
  /\ t \in HeaderStates => t = "header_line_start" /\ z = HeadersRest(r.headers)

LineAdvances(r, x) ==
  \E c \in Byte, z \in Texts : x = First(c, z) /\ LineGoesOn(r, Target(c), c, z)

\* The literal bytes between the URI and the version.
LEMMA AfterSlashText ==
  ASSUME NEW r \in Written
  PROVE  /\ AfterSlash(r) \in Texts
         /\ AfterUri(r) = First("SP", First("H", First("T", First("T", First("P",
                            First("/", AfterSlash(r)))))))
<1>1. AfterMajor(r) \in Texts /\ r.major \in Texts
  BY AfterTypes, WrittenTypes
<1>2. QED
  BY <1>1, JoinedText, Zenon DEF AfterSlash, AfterUri

\* One lemma per field: its next byte is accepted and leaves a rest that fits.
LEMMA MethodAdvances ==
  ASSUME NEW r \in Written, NEW x \in Texts, EmptyInv, method \in Texts,
         state \in {"method_start", "method"},
         LineLeft(r, state, method, uri, major, minor, x)
  PROVE  LineAdvances(r, x)
<1>1. AfterMethod(r) \in Texts /\ r.method \in Seq(TokenBytes) \ {<<>>}
  BY AfterTypes, WrittenTypes DEF Tokens
<1>2. FieldRest(method, r.method, TokenBytes, x, AfterMethod(r))
  BY DEF LineLeft
<1>3. TokenBytes \in SUBSET Byte
  BY ByteKinds
<1>4. CASE method = r.method /\ x = AfterMethod(r)
  <2>1. state = "method" /\ uri = <<>>
    BY <1>1, <1>4 DEF LineLeft, EmptyInv, BeforeUri
  <2>2. PICK z \in Texts : z = Joined(r.uri, AfterUri(r))
    BY AfterTypes, WrittenTypes, JoinedText
  <2>3. x = First("SP", z)
    BY <1>4, <2>2, Zenon DEF AfterMethod
  <2>4. FieldRest(<<>>, r.uri, PlainBytes \ {"SP"}, z, AfterUri(r))
    <3>1. PICK S \in SUBSET Byte : S = PlainBytes \ {"SP"}
      BY ByteKinds
    <3>2. r.uri \in Seq(S)
      BY <3>1, WrittenTypes
    <3>3. FieldRest(<<>>, r.uri, S, Joined(r.uri, AfterUri(r)), AfterUri(r))
      BY <3>2, FieldAhead
    <3>4. QED
      BY <2>2, <3>1, <3>3, Zenon
  <2>5. Target("SP") = "uri"
    BY <2>1, LineTargets
  <2>6. LineGoesOn(r, "uri", "SP", z)
    BY <1>4, <2>1, <2>4
       DEF LineGoesOn, LineLeft, StoreRequestLine, States, HeaderStates, BeforeUri,
           BeforeMajor, BeforeMinor
  <2>7. QED
    BY <2>3, <2>5, <2>6, ByteKinds, Zenon DEF LineAdvances
<1>5. ASSUME NEW b \in TokenBytes, NEW z \in Texts, x = First(b, z),
             FieldRest(Append(method, b), r.method, TokenBytes, z, AfterMethod(r))
      PROVE  LineAdvances(r, x)
  <2>1. Target(b) = "method" /\ b \in Byte
    BY <1>3, LineTargets
  <2>2. LineGoesOn(r, "method", b, z)
    BY <1>5 DEF LineGoesOn, LineLeft, StoreRequestLine, States, HeaderStates, BeforeUri,
                BeforeMajor, BeforeMinor
  <2>3. QED
    BY <1>5, <2>1, <2>2, Zenon DEF LineAdvances
<1>6. \/ r.method = method /\ x = AfterMethod(r)
      \/ FieldGoesOn(method, r.method, TokenBytes, x, AfterMethod(r))
  BY <1>1, <1>2, <1>3, FieldPeel
<1>7. QED
  BY <1>4, <1>5, <1>6, Zenon DEF FieldGoesOn

LEMMA UriAdvances ==
  ASSUME NEW r \in Written, NEW x \in Texts, uri \in Texts, state = "uri",
         LineLeft(r, state, method, uri, major, minor, x)
  PROVE  LineAdvances(r, x)
<1>1. AfterUri(r) \in Texts
  BY AfterTypes
<1>2. PICK S \in SUBSET Byte : S = PlainBytes \ {"SP"}
  BY ByteKinds
<1>3. FieldRest(uri, r.uri, S, x, AfterUri(r))
  BY <1>2 DEF LineLeft
<1>4. CASE r.uri = uri /\ x = AfterUri(r)
  <2>1. PICK z \in Texts :
          z = First("H", First("T", First("T", First("P", First("/", AfterSlash(r))))))
    <3>1. /\ "H" \in Byte /\ "T" \in Byte /\ "P" \in Byte /\ "/" \in Byte
          /\ AfterSlash(r) \in Texts
      BY ByteKinds, AfterSlashText
    <3>2. \A c \in Byte, y \in Texts : First(c, y) \in Texts
      BY FirstText
    <3>3. QED
      BY <3>1, <3>2
  <2>2. x = First("SP", z)
    BY <1>4, <2>1, AfterSlashText, Zenon
  <2>3. Target("SP") = "http_version_h"
    BY LineTargets
  <2>4. LineGoesOn(r, "http_version_h", "SP", z)
    BY <1>4, <2>1
       DEF LineGoesOn, LineLeft, StoreRequestLine, States, HeaderStates, BeforeUri,
           BeforeMajor, BeforeMinor
  <2>5. QED
    BY <2>2, <2>3, <2>4, ByteKinds, Zenon DEF LineAdvances
<1>5. ASSUME NEW b \in S, NEW z \in Texts, x = First(b, z),
             FieldRest(Append(uri, b), r.uri, S, z, AfterUri(r))
      PROVE  LineAdvances(r, x)
  <2>1. Target(b) = "uri" /\ b \in Byte
    BY <1>2, LineTargets
  <2>2. LineGoesOn(r, "uri", b, z)
    BY <1>2, <1>5 DEF LineGoesOn, LineLeft, StoreRequestLine, States, HeaderStates,
                      BeforeUri, BeforeMajor, BeforeMinor
  <2>3. QED
    BY <1>5, <2>1, <2>2, Zenon DEF LineAdvances
<1>6. \/ r.uri = uri /\ x = AfterUri(r)
      \/ FieldGoesOn(uri, r.uri, S, x, AfterUri(r))
  BY <1>1, <1>3, FieldPeel
<1>7. QED
  BY <1>4, <1>5, <1>6, Zenon DEF FieldGoesOn

\* "HTTP/" is read byte by byte.
LEMMA VersionAdvances ==
  ASSUME NEW r \in Written, NEW x \in Texts, EmptyInv,
         state \in {"http_version_h", "http_version_t_1", "http_version_t_2",
                    "http_version_p", "http_version_slash"},
         LineLeft(r, state, method, uri, major, minor, x)
  PROVE  LineAdvances(r, x)
<1>1. PICK z0 \in Texts, z1 \in Texts, z2 \in Texts, z3 \in Texts, z4 \in Texts :
        /\ z0 = AfterSlash(r) /\ z1 = First("/", z0) /\ z2 = First("P", z1)
        /\ z3 = First("T", z2) /\ z4 = First("T", z3)
  <2>1. "T" \in Byte /\ "P" \in Byte /\ "/" \in Byte /\ AfterSlash(r) \in Texts
    BY ByteKinds, AfterSlashText
  <2>2. \A c \in Byte, y \in Texts : First(c, y) \in Texts
    BY FirstText
  <2>3. QED
    BY <2>1, <2>2
<1>2. /\ state = "http_version_h" => x = First("H", z4)
      /\ state = "http_version_t_1" => x = First("T", z3)
      /\ state = "http_version_t_2" => x = First("T", z2)
      /\ state = "http_version_p" => x = First("P", z1)
      /\ state = "http_version_slash" => x = First("/", z0)
  BY <1>1 DEF LineLeft
<1>3. ASSUME NEW t, NEW c \in Byte, NEW z \in Texts, x = First(c, z), Target(c) = t,
             LineGoesOn(r, t, c, z)
      PROVE  LineAdvances(r, x)
  BY <1>3, Zenon DEF LineAdvances
<1>4. method = r.method /\ uri = r.uri
  BY DEF LineLeft, BeforeUri
<1>5. CASE state = "http_version_h"
  <2>1. LineGoesOn(r, "http_version_t_1", "H", z4)
    BY <1>1, <1>4, <1>5
       DEF LineGoesOn, LineLeft, StoreRequestLine, States, HeaderStates, BeforeUri,
           BeforeMajor, BeforeMinor
  <2>2. QED
    BY <1>2, <1>3, <1>5, <2>1, LineTargets, ByteKinds
<1>6. CASE state = "http_version_t_1"
  <2>1. LineGoesOn(r, "http_version_t_2", "T", z3)
    BY <1>1, <1>4, <1>6
       DEF LineGoesOn, LineLeft, StoreRequestLine, States, HeaderStates, BeforeUri,
           BeforeMajor, BeforeMinor
  <2>2. QED
    BY <1>2, <1>3, <1>6, <2>1, LineTargets, ByteKinds
<1>7. CASE state = "http_version_t_2"
  <2>1. LineGoesOn(r, "http_version_p", "T", z2)
    BY <1>1, <1>4, <1>7
       DEF LineGoesOn, LineLeft, StoreRequestLine, States, HeaderStates, BeforeUri,
           BeforeMajor, BeforeMinor
  <2>2. QED
    BY <1>2, <1>3, <1>7, <2>1, LineTargets, ByteKinds
<1>8. CASE state = "http_version_p"
  <2>1. LineGoesOn(r, "http_version_slash", "P", z1)
    BY <1>1, <1>4, <1>8
       DEF LineGoesOn, LineLeft, StoreRequestLine, States, HeaderStates, BeforeUri,
           BeforeMajor, BeforeMinor
  <2>2. QED
    BY <1>2, <1>3, <1>8, <2>1, LineTargets, ByteKinds
<1>9. CASE state = "http_version_slash"
  <2>1. FieldRest(<<>>, r.major, Digits, z0, AfterMajor(r))
    <3>1. Digits \in SUBSET Byte /\ r.major \in Seq(Digits)
      BY ByteKinds, WrittenTypes DEF Numbers
    <3>2. FieldRest(<<>>, r.major, Digits, Joined(r.major, AfterMajor(r)), AfterMajor(r))
      BY <3>1, FieldAhead
    <3>3. QED
      BY <1>1, <3>2, Zenon DEF AfterSlash
  <2>2. major = <<>>
    BY <1>9 DEF EmptyInv, BeforeMajor
  <2>3. LineGoesOn(r, "http_version_major_start", "/", z0)
    BY <1>4, <1>9, <2>1, <2>2
       DEF LineGoesOn, LineLeft, StoreRequestLine, States, HeaderStates, BeforeUri,
           BeforeMajor, BeforeMinor
  <2>4. QED
    BY <1>2, <1>3, <1>9, <2>3, LineTargets, ByteKinds
<1>10. QED
  BY <1>5, <1>6, <1>7, <1>8, <1>9

LEMMA MajorAdvances ==
  ASSUME NEW r \in Written, NEW x \in Texts, EmptyInv, major \in Texts,
         state \in {"http_version_major_start", "http_version_major"},
         LineLeft(r, state, method, uri, major, minor, x)
  PROVE  LineAdvances(r, x)
<1>1. AfterMajor(r) \in Texts /\ r.major \in Seq(Digits) \ {<<>>}
  BY AfterTypes, WrittenTypes DEF Numbers
<1>2. Digits \in SUBSET Byte
  BY ByteKinds
<1>3. FieldRest(major, r.major, Digits, x, AfterMajor(r))
  BY DEF LineLeft
<1>4. method = r.method /\ uri = r.uri
  BY DEF LineLeft, BeforeUri
<1>5. CASE r.major = major /\ x = AfterMajor(r)
  <2>1. state = "http_version_major" /\ minor = <<>>
    BY <1>1, <1>5 DEF EmptyInv, BeforeMajor, BeforeMinor
  <2>2. PICK z \in Texts : z = Joined(r.minor, AfterMinor(r))
    BY AfterTypes, WrittenTypes, JoinedText
  <2>3. x = First(".", z)
    BY <1>5, <2>2, Zenon DEF AfterMajor
  <2>4. FieldRest(<<>>, r.minor, Digits, z, AfterMinor(r))
    <3>1. r.minor \in Seq(Digits)
      BY WrittenTypes DEF Numbers
    <3>2. FieldRest(<<>>, r.minor, Digits, Joined(r.minor, AfterMinor(r)), AfterMinor(r))
      BY <1>2, <3>1, FieldAhead
    <3>3. QED
      BY <2>2, <3>2, Zenon
  <2>5. Target(".") = "http_version_minor_start"
    BY <2>1, LineTargets
  <2>6. LineGoesOn(r, "http_version_minor_start", ".", z)
    BY <1>4, <1>5, <2>1, <2>4
       DEF LineGoesOn, LineLeft, StoreRequestLine, States, HeaderStates, BeforeUri,
           BeforeMajor, BeforeMinor
  <2>7. QED
    BY <2>3, <2>5, <2>6, ByteKinds, Zenon DEF LineAdvances
<1>6. ASSUME NEW b \in Digits, NEW z \in Texts, x = First(b, z),
             FieldRest(Append(major, b), r.major, Digits, z, AfterMajor(r))
      PROVE  LineAdvances(r, x)
  <2>1. Target(b) = "http_version_major" /\ b \in Byte
    BY <1>2, LineTargets
  <2>2. LineGoesOn(r, "http_version_major", b, z)
    BY <1>4, <1>6 DEF LineGoesOn, LineLeft, StoreRequestLine, States, HeaderStates,
                      BeforeUri, BeforeMajor, BeforeMinor
  <2>3. QED
    BY <1>6, <2>1, <2>2, Zenon DEF LineAdvances
<1>7. \/ r.major = major /\ x = AfterMajor(r)
      \/ FieldGoesOn(major, r.major, Digits, x, AfterMajor(r))
  BY <1>1, <1>2, <1>3, FieldPeel
<1>8. QED
  BY <1>5, <1>6, <1>7, Zenon DEF FieldGoesOn

LEMMA MinorAdvances ==
  ASSUME NEW r \in Written, NEW x \in Texts, EmptyInv, minor \in Texts,
         state \in {"http_version_minor_start", "http_version_minor"},
         LineLeft(r, state, method, uri, major, minor, x)
  PROVE  LineAdvances(r, x)
<1>1. AfterMinor(r) \in Texts /\ r.minor \in Seq(Digits) \ {<<>>}
  BY AfterTypes, WrittenTypes DEF Numbers
<1>2. Digits \in SUBSET Byte
  BY ByteKinds
<1>3. FieldRest(minor, r.minor, Digits, x, AfterMinor(r))
  BY DEF LineLeft
<1>4. method = r.method /\ uri = r.uri /\ major = r.major
  BY DEF LineLeft, BeforeUri, BeforeMajor
<1>5. CASE r.minor = minor /\ x = AfterMinor(r)
  <2>1. state = "http_version_minor"
    BY <1>1, <1>5 DEF EmptyInv, BeforeMajor, BeforeMinor
  <2>2. PICK z \in Texts : z = First("LF", HeadersRest(r.headers))
    BY ByteKinds, WrittenTypes, FirstText
  <2>3. x = First("CR", z)
    BY <1>5, <2>2, Zenon DEF AfterMinor
  <2>4. Target("CR") = "expecting_newline_1"
    BY <2>1, LineTargets
  <2>5. LineGoesOn(r, "expecting_newline_1", "CR", z)
    BY <1>4, <1>5, <2>2
       DEF LineGoesOn, LineLeft, StoreRequestLine, States, HeaderStates, BeforeUri,
           BeforeMajor, BeforeMinor
  <2>6. QED
    BY <2>3, <2>4, <2>5, ByteKinds, Zenon DEF LineAdvances
<1>6. ASSUME NEW b \in Digits, NEW z \in Texts, x = First(b, z),
             FieldRest(Append(minor, b), r.minor, Digits, z, AfterMinor(r))
      PROVE  LineAdvances(r, x)
  <2>1. Target(b) = "http_version_minor" /\ b \in Byte
    BY <1>2, LineTargets
  <2>2. LineGoesOn(r, "http_version_minor", b, z)
    BY <1>4, <1>6 DEF LineGoesOn, LineLeft, StoreRequestLine, States, HeaderStates,
                      BeforeUri, BeforeMajor, BeforeMinor
  <2>3. QED
    BY <1>6, <2>1, <2>2, Zenon DEF LineAdvances
<1>7. \/ r.minor = minor /\ x = AfterMinor(r)
      \/ FieldGoesOn(minor, r.minor, Digits, x, AfterMinor(r))
  BY <1>1, <1>2, <1>3, FieldPeel
<1>8. QED
  BY <1>5, <1>6, <1>7, Zenon DEF FieldGoesOn

\* Every state of the request line, the literal bytes included.
LEMMA LineAdvance ==
  ASSUME IInv, EmptyInv, NEW r \in Written, NEW x \in Texts, state \in LineStates,
         LineLeft(r, state, method, uri, major, minor, x)
  PROVE  LineAdvances(r, x)
<1>1. method \in Texts /\ uri \in Texts /\ major \in Texts /\ minor \in Texts
  BY DEF IInv, TypeOK, Texts, Byte
<1>2. CASE state = "expecting_newline_1"
  <2>1. PICK z \in Texts : z = HeadersRest(r.headers)
    BY WrittenTypes
  <2>2. x = First("LF", z) /\ Target("LF") = "header_line_start"
    BY <1>2, <2>1, LineTargets DEF LineLeft
  <2>3. LineGoesOn(r, "header_line_start", "LF", z)
    BY <1>2, <2>1
       DEF LineGoesOn, LineLeft, StoreRequestLine, States, HeaderStates, BeforeUri,
           BeforeMajor, BeforeMinor
  <2>4. QED
    BY <2>2, <2>3, ByteKinds, Zenon DEF LineAdvances
<1>3. CASE state # "expecting_newline_1"
  <2>1. state \in {"method_start", "method", "uri", "http_version_h",
          "http_version_t_1", "http_version_t_2", "http_version_p",
          "http_version_slash", "http_version_major_start", "http_version_major",
          "http_version_minor_start", "http_version_minor"}
    BY <1>3 DEF LineStates, States, HeaderStates, LineLeft
  <2>2. QED
    BY <1>1, <2>1, MethodAdvances, UriAdvances, VersionAdvances, MajorAdvances,
       MinorAdvances
<1>4. QED
  BY <1>2, <1>3
-----------------------------------------------------------------------------
\* Where consume goes on the bytes the grammar allows in the headers.
LEMMA HeaderTargets ==
  /\ state = "header_line_start" =>
       /\ Target("CR") = "expecting_newline_3"
       /\ headers # <<>> => \A c \in Blanks : Target(c) = "header_lws"
       /\ \A c \in TokenBytes : Target(c) = "header_name"
  /\ state = "header_name" => /\ \A c \in TokenBytes : Target(c) = "header_name"
                              /\ Target(":") = "space_before_header_value"
  /\ state = "space_before_header_value" => Target("SP") = "header_value"
  /\ state = "header_lws" =>
       /\ \A c \in Blanks : Target(c) = "header_lws"
       /\ \A c \in PlainBytes \ {"SP"} : Target(c) = "header_value"
  /\ state = "header_value" => \A c \in PlainBytes : Target(c) = "header_value"
  /\ state \in {"header_lws", "header_value"} => Target("CR") = "expecting_newline_2"
  /\ state = "expecting_newline_2" => Target("LF") = "header_line_start"
  /\ state = "expecting_newline_3" => Target("LF") = "true"
<1>1. \A c \in TokenBytes : IsToken(c) /\ c # "CR" /\ c \notin Blanks /\ c # ":"
  BY DEF IsToken, IsCtl, TokenBytes, Letters, Digits, Controls, Specials, Blanks
<1>2. \A c \in PlainBytes : ~IsCtl(c) /\ c # "CR" /\ (c \in Blanks => c = "SP")
  BY DEF IsCtl, PlainBytes, Blanks, Controls
<1>3. ~IsToken(":") /\ ~IsToken("CR") /\ IsCtl("CR") /\ "CR" \notin Blanks
  BY DEF IsToken, IsCtl, Specials, Controls, Blanks
<1>4. state \in HeaderStates => \A c : Target(c) = HeaderLine(state, c)
  BY DEF Target
<1>5. state = "header_line_start" =>
        /\ Target("CR") = "expecting_newline_3"
        /\ headers # <<>> => \A c \in Blanks : Target(c) = "header_lws"
        /\ \A c \in TokenBytes : Target(c) = "header_name"
  <2> SUFFICES ASSUME state = "header_line_start"
               PROVE  /\ Target("CR") = "expecting_newline_3"
                      /\ headers # <<>> => \A c \in Blanks : Target(c) = "header_lws"
                      /\ \A c \in TokenBytes : Target(c) = "header_name"
    OBVIOUS
  <2>1. \A c : Target(c) = HeaderLine("header_line_start", c)
    BY <1>4 DEF HeaderStates
  <2>2. Target("CR") = "expecting_newline_3"
    BY <1>3, <2>1 DEF HeaderLine
  <2>3. ASSUME headers # <<>>, NEW c \in Blanks
        PROVE  Target(c) = "header_lws"
    <3>1. c # "CR" /\ ~IsToken(c)
      BY DEF Blanks, IsToken, Specials
    <3>2. QED
      BY <2>1, <2>3, <3>1 DEF HeaderLine, MayFold
  <2>4. \A c \in TokenBytes : Target(c) = "header_name"
    BY <1>1, <2>1 DEF HeaderLine
  <2>5. QED
    BY <2>2, <2>3, <2>4, Zenon
<1>6. /\ state = "header_name" => /\ \A c \in TokenBytes : Target(c) = "header_name"
                                  /\ Target(":") = "space_before_header_value"
      /\ state = "space_before_header_value" => Target("SP") = "header_value"
  BY <1>1, <1>3, <1>4 DEF HeaderLine, HeaderStates
<1>7. /\ state = "header_lws" =>
           /\ \A c \in Blanks : Target(c) = "header_lws"
           /\ \A c \in PlainBytes \ {"SP"} : Target(c) = "header_value"
      /\ state = "header_value" => \A c \in PlainBytes : Target(c) = "header_value"
  <2>1. /\ \A c \in Blanks : HeaderLine("header_lws", c) = "header_lws"
        /\ \A c \in PlainBytes \ {"SP"} : HeaderLine("header_lws", c) = "header_value"
    BY <1>2, <1>3 DEF HeaderLine
  <2>2. \A c \in PlainBytes : HeaderLine("header_value", c) = "header_value"
    BY <1>2 DEF HeaderLine
  <2>3. QED
    BY <1>4, <2>1, <2>2 DEF HeaderStates
<1>8. state \in {"header_lws", "header_value"} => Target("CR") = "expecting_newline_2"
  BY <1>3, <1>4 DEF HeaderLine, HeaderStates
<1>9. /\ state = "expecting_newline_2" => Target("LF") = "header_line_start"
      /\ state = "expecting_newline_3" => Target("LF") = "true"
  <2>1. HeaderLine("expecting_newline_2", "LF") = "header_line_start"
    BY DEF HeaderLine
  <2>2. HeaderLine("expecting_newline_3", "LF") = "true"
    BY DEF HeaderLine
  <2>3. QED
    BY <1>4, <2>1, <2>2 DEF HeaderStates
<1>10. QED
  BY <1>5, <1>6, <1>7, <1>8, <1>9

\* The headers read so far are hs, all of them are to be all, and the rest of the
\* text is x: no header is being read.
AllLeft(hs, all, x) ==
  \E ws \in Seq(WrittenHeaders) :
    x = HeadersRest(ws) /\ all = hs \o HeadersAsRead(ws)

\* The last header, h, is to be g, and y comes after it.
LastIs(hs, all, f, h, g, y) ==
  /\ hs = Append(f, h)
  /\ \E ws \in Seq(WrittenHeaders) :
       y = HeadersRest(ws) /\ all = Append(f, g) \o HeadersAsRead(ws)

\* Of the value of the last header, v is still to be read.
ValueLeft(hs, all, v, y) ==
  \E f \in Seq(Header), h \in Header, g \in Header :
    LastIs(hs, all, f, h, g, y) /\ g.name = h.name /\ g.value = Joined(h.value, v)

\* Of its name, a part, and the whole value.
NameLeft(hs, all, x) ==
  \E f \in Seq(Header), h \in Header, g \in Header, y \in Texts, z \in Texts :
    /\ LastIs(hs, all, f, h, g, y) /\ h.value = <<>> /\ ValueRest(z, g.value, y)
    /\ FieldRest(h.name, g.name, TokenBytes, x, First(":", First("SP", z)))

HeadersLeft(s, hs, all, x) ==
  /\ s = "header_line_start" =>
       \/ AllLeft(hs, all, x)
       \/ \E b \in Blanks, z \in Texts, v \in Texts, y \in Texts :
            x = First(b, z) /\ LwsRest(z, v, y) /\ ValueLeft(hs, all, v, y)
  /\ s = "header_lws" =>
       \E v \in Texts, y \in Texts : LwsRest(x, v, y) /\ ValueLeft(hs, all, v, y)
  /\ s = "header_name" => NameLeft(hs, all, x)
  /\ s = "space_before_header_value" =>
       \E z \in Texts, v \in Texts, y \in Texts :
         x = First("SP", z) /\ ValueRest(z, v, y) /\ ValueLeft(hs, all, v, y)
  /\ s = "header_value" =>
       \E v \in Texts, y \in Texts : ValueRest(x, v, y) /\ ValueLeft(hs, all, v, y)
  /\ s = "expecting_newline_2" =>
       \E z \in Texts, v \in Texts, y \in Texts :
         x = First("LF", z) /\ BreakRest(z, v, y) /\ ValueLeft(hs, all, v, y)
  /\ s = "expecting_newline_3" => x = First("LF", <<>>) /\ hs = all

\* The next byte is c, and what follows fits the state it leads to.
HeaderGoesOn(all, t, c, z) ==
  \/ t = "true" /\ z = <<>> /\ headers = all
  \/ t \in HeaderStates /\ (StoreHeader(t, c) => HeadersLeft(t, headers', all, z))

HeaderAdvances(all, x) ==
  \E c \in Byte, z \in Texts : x = First(c, z) /\ HeaderGoesOn(all, Target(c), c, z)

\* A header that has been read is as it is to be.
LEMMA ValueDone ==
  ASSUME NEW hs, NEW all, NEW y, ValueLeft(hs, all, <<>>, y)
  PROVE  AllLeft(hs, all, y)
<1>1. PICK f \in Seq(Header), h \in Header, g \in Header :
        LastIs(hs, all, f, h, g, y) /\ g.name = h.name /\ g.value = Joined(h.value, <<>>)
  BY Zenon DEF ValueLeft
<1>2. h.name \in Texts /\ h.value \in Texts /\ g.name \in Texts /\ g.value \in Texts
  BY HeaderFields
<1>3. g.name = h.name /\ g.value = h.value
  BY <1>1, <1>2, TextAlgebra, Zenon
<1>4. g = h
  <2>1. g = [name |-> g.name, value |-> g.value] /\ h = [name |-> h.name, value |-> h.value]
    BY DEF Header
  <2>2. QED
    BY <1>3, <2>1, Zenon
<1>5. QED
  BY <1>1, <1>4, Zenon DEF LastIs, AllLeft

\* A byte is added to the value of the last header.
LEMMA ValueMore ==
  ASSUME NEW hs \in Seq(Header), NEW all, NEW v \in Texts, NEW y \in Texts, NEW b \in Byte,
         ValueLeft(hs, all, First(b, v), y)
  PROVE  ValueLeft([hs EXCEPT ![Len(hs)].value = Append(@, b)], all, v, y)
<1>1. PICK f \in Seq(Header), h \in Header, g \in Header :
        /\ LastIs(hs, all, f, h, g, y) /\ g.name = h.name
        /\ g.value = Joined(h.value, First(b, v))
  BY Zenon DEF ValueLeft
<1>2. PICK k \in Header : /\ k = [h EXCEPT !.value = Append(@, b)]
                          /\ k.name = h.name /\ k.value = Then(h.value, b)
  BY ValueGrows
<1>3. hs = Append(f, h)
  BY <1>1, Zenon DEF LastIs
<1>4. hs[Len(hs)] = h /\ [hs EXCEPT ![Len(hs)] = k] = Append(f, k)
  BY <1>3, LastChanged
<1>5. [hs EXCEPT ![Len(hs)].value = Append(@, b)] = Append(f, k)
  BY <1>2, <1>4
<1>6. g.value = Joined(k.value, v)
  <2>1. h.value \in Texts
    BY HeaderFields
  <2>2. Joined(Then(h.value, b), v) = Joined(h.value, First(b, v))
    BY <2>1, ThenJoined
  <2>3. QED
    BY <1>1, <1>2, <2>2, Zenon
<1>7. LastIs(Append(f, k), all, f, k, g, y)
  BY <1>1, Zenon DEF LastIs
<1>8. ValueLeft(Append(f, k), all, v, y)
  BY <1>1, <1>2, <1>6, <1>7, Zenon DEF ValueLeft
<1>9. QED
  BY <1>5, <1>8, Zenon

NameAdded(hs, b, f, h, k) ==
  /\ [hs EXCEPT ![Len(hs)].name = Append(@, b)] = Append(f, k)
  /\ k.name = Append(h.name, b) /\ k.value = h.value

LEMMA NameMore ==
  ASSUME NEW hs \in Seq(Header), NEW f \in Seq(Header), NEW h \in Header,
         hs = Append(f, h), NEW b \in Byte
  PROVE  \E k \in Header : NameAdded(hs, b, f, h, k)
<1>1. PICK k \in Header : /\ k = [h EXCEPT !.name = Append(@, b)]
                          /\ k.name = Then(h.name, b) /\ k.value = h.value
  BY NameGrows
<1>2. hs[Len(hs)] = h /\ [hs EXCEPT ![Len(hs)] = k] = Append(f, k)
  BY LastChanged
<1>3. [hs EXCEPT ![Len(hs)].name = Append(@, b)] = Append(f, k)
  BY <1>1, <1>2
<1>4. QED
  BY <1>1, <1>3, Zenon DEF Then, NameAdded
-----------------------------------------------------------------------------
\* A target and a rest that fits it are an advance.
LEMMA Advances ==
  ASSUME NEW all, NEW x, NEW c \in Byte, NEW z \in Texts, x = First(c, z),
         NEW t, Target(c) = t, HeaderGoesOn(all, t, c, z)
  PROVE  HeaderAdvances(all, x)
BY Zenon DEF HeaderAdvances

\* A byte of a value.
LEMMA ByteAdvances ==
  ASSUME headers \in Seq(Header), state \in {"header_lws", "header_value"},
         NEW S \in SUBSET PlainBytes, \A c \in S : Target(c) = "header_value",
         NEW x, NEW v, NEW y \in Texts, NEW all,
         ByteFollows(S, x, v, y), ValueLeft(headers, all, v, y)
  PROVE  HeaderAdvances(all, x)
<1>1. PICK b \in S, z \in Texts, w \in Texts :
        x = First(b, z) /\ v = First(b, w) /\ ValueRest(z, w, y)
  BY Zenon DEF ByteFollows
<1>2. b \in Byte
  BY ByteKinds
<1>3. Target(b) = "header_value"
  OBVIOUS
<1>4. ASSUME StoreHeader("header_value", b)
      PROVE  HeadersLeft("header_value", headers', all, z)
  <2>1. headers' = [headers EXCEPT ![Len(headers)].value = Append(@, b)]
    BY <1>4 DEF StoreHeader
  <2>2. ValueLeft([headers EXCEPT ![Len(headers)].value = Append(@, b)], all, w, y)
    <3>1. ValueLeft(headers, all, First(b, w), y)
      BY <1>1, Zenon
    <3>2. QED
      BY <1>2, <3>1, ValueMore
  <2>3. ValueLeft(headers', all, w, y)
    BY <2>1, <2>2, Zenon
  <2>4. QED
    BY <1>1, <2>3 DEF HeadersLeft
<1>5. HeaderGoesOn(all, "header_value", b, z)
  BY <1>4 DEF HeaderGoesOn, HeaderStates
<1>6. QED
  BY <1>1, <1>2, <1>3, <1>5, Advances, Zenon

\* The end of a line.
LEMMA BreakAdvances ==
  ASSUME state \in {"header_lws", "header_value"}, NEW x, NEW v \in Texts,
         NEW y \in Texts, NEW all, BreakFollows(x, v, y), ValueLeft(headers, all, v, y)
  PROVE  HeaderAdvances(all, x)
<1>1. PICK z \in Texts : x = First("CR", First("LF", z)) /\ BreakRest(z, v, y)
  BY Zenon DEF BreakFollows
<1>2. PICK w \in Texts : w = First("LF", z)
  BY ByteKinds, FirstText
<1>3. Target("CR") = "expecting_newline_2"
  BY HeaderTargets
<1>4. ASSUME StoreHeader("expecting_newline_2", "CR")
      PROVE  HeadersLeft("expecting_newline_2", headers', all, w)
  <2>1. headers' = headers
    BY <1>4 DEF StoreHeader
  <2>2. QED
    BY <1>1, <1>2, <2>1 DEF HeadersLeft
<1>5. HeaderGoesOn(all, "expecting_newline_2", "CR", w)
  BY <1>4 DEF HeaderGoesOn, HeaderStates
<1>6. QED
  BY <1>1, <1>2, <1>3, <1>5, Advances, ByteKinds, Zenon

\* One lemma per state of the headers, as for the fields.
LEMMA ValueAdvances ==
  ASSUME headers \in Seq(Header), state = "header_value", NEW x, NEW all,
         HeadersLeft(state, headers, all, x)
  PROVE  HeaderAdvances(all, x)
<1>1. PICK v \in Texts, y \in Texts : ValueRest(x, v, y) /\ ValueLeft(headers, all, v, y)
  BY DEF HeadersLeft
<1>2. BreakFollows(x, v, y) \/ ByteFollows(PlainBytes, x, v, y)
  BY <1>1, ValuePeel, Zenon
<1>3. \A c \in PlainBytes : Target(c) = "header_value"
  BY HeaderTargets
<1>4. CASE BreakFollows(x, v, y)
  BY <1>1, <1>4, BreakAdvances
<1>5. CASE ByteFollows(PlainBytes, x, v, y)
  BY <1>1, <1>3, <1>5, ByteAdvances
<1>6. QED
  BY <1>2, <1>4, <1>5

LEMMA LwsAdvances ==
  ASSUME headers \in Seq(Header), state = "header_lws", NEW x, NEW all,
         HeadersLeft(state, headers, all, x)
  PROVE  HeaderAdvances(all, x)
<1>1. PICK v \in Texts, y \in Texts : LwsRest(x, v, y) /\ ValueLeft(headers, all, v, y)
  BY DEF HeadersLeft
<1>2. \/ \E b \in Blanks, z \in Texts : x = First(b, z) /\ LwsRest(z, v, y)
      \/ BreakFollows(x, v, y) \/ ByteFollows(PlainBytes \ {"SP"}, x, v, y)
  BY <1>1, LwsPeel, Zenon
<1>3. PICK S \in SUBSET PlainBytes : S = PlainBytes \ {"SP"}
  OBVIOUS
<1>4. \A c \in S : Target(c) = "header_value"
  BY <1>3, HeaderTargets
<1>5. CASE BreakFollows(x, v, y)
  BY <1>1, <1>5, BreakAdvances
<1>6. CASE ByteFollows(PlainBytes \ {"SP"}, x, v, y)
  <2>1. ByteFollows(S, x, v, y)
    BY <1>3, <1>6, Zenon
  <2>2. QED
    BY <1>1, <1>4, <2>1, ByteAdvances
<1>7. ASSUME NEW b \in Blanks, NEW z \in Texts, x = First(b, z), LwsRest(z, v, y)
      PROVE  HeaderAdvances(all, x)
  <2>1. Target(b) = "header_lws" /\ b \in Byte
    BY HeaderTargets, ByteKinds
  <2>2. ASSUME StoreHeader("header_lws", b)
        PROVE  HeadersLeft("header_lws", headers', all, z)
    <3>1. headers' = headers
      BY <2>2 DEF StoreHeader
    <3>2. QED
      BY <1>1, <1>7, <3>1 DEF HeadersLeft
  <2>3. HeaderGoesOn(all, "header_lws", b, z)
    BY <2>2 DEF HeaderGoesOn, HeaderStates
  <2>4. QED
    BY <1>7, <2>1, <2>3, Advances, Zenon
<1>8. QED
  BY <1>2, <1>5, <1>6, <1>7

LEMMA SpaceAdvances ==
  ASSUME state = "space_before_header_value", NEW x, NEW all,
         HeadersLeft(state, headers, all, x)
  PROVE  HeaderAdvances(all, x)
<1>1. PICK z \in Texts, v \in Texts, y \in Texts :
        x = First("SP", z) /\ ValueRest(z, v, y) /\ ValueLeft(headers, all, v, y)
  BY DEF HeadersLeft
<1>2. Target("SP") = "header_value"
  BY HeaderTargets
<1>3. ASSUME StoreHeader("header_value", "SP")
      PROVE  HeadersLeft("header_value", headers', all, z)
  <2>1. headers' = headers
    BY <1>3 DEF StoreHeader
  <2>2. QED
    BY <1>1, <2>1 DEF HeadersLeft
<1>4. HeaderGoesOn(all, "header_value", "SP", z)
  BY <1>3 DEF HeaderGoesOn, HeaderStates
<1>5. QED
  BY <1>1, <1>2, <1>4, Advances, ByteKinds, Zenon

LEMMA NameAdvances ==
  ASSUME headers \in Seq(Header), state = "header_name", NEW x, NEW all,
         HeadersLeft(state, headers, all, x)
  PROVE  HeaderAdvances(all, x)
<1>1. NameLeft(headers, all, x)
  BY DEF HeadersLeft
<1>2. PICK f \in Seq(Header), h \in Header, g \in Header, y \in Texts, z \in Texts :
        /\ LastIs(headers, all, f, h, g, y) /\ h.value = <<>> /\ ValueRest(z, g.value, y)
        /\ FieldRest(h.name, g.name, TokenBytes, x, First(":", First("SP", z)))
  BY <1>1, Zenon DEF NameLeft
<1>3. PICK w \in Texts, u \in Texts : w = First("SP", z) /\ u = First(":", w)
  <2>1. First("SP", z) \in Texts
    BY ByteKinds, FirstText
  <2>2. First(":", First("SP", z)) \in Texts
    BY <2>1, ByteKinds, FirstText
  <2>3. QED
    BY <2>1, <2>2, Zenon
<1>4. h.name \in Texts /\ g.value \in Texts /\ g.name \in Texts
  BY HeaderFields
<1>5. TokenBytes \in SUBSET Byte
  BY ByteKinds
<1>6. \/ g.name = h.name /\ x = u
      \/ FieldGoesOn(h.name, g.name, TokenBytes, x, u)
  <2>1. FieldRest(h.name, g.name, TokenBytes, x, u)
    BY <1>2, <1>3, Zenon
  <2>2. QED
    BY <1>4, <1>5, <2>1, FieldPeel
<1>7. CASE g.name = h.name /\ x = u
  <2>1. Target(":") = "space_before_header_value"
    BY HeaderTargets
  <2>2. ValueLeft(headers, all, g.value, y)
    <3>1. g.value = Joined(h.value, g.value)
      BY <1>2, <1>4, JoinedText, Zenon
    <3>2. QED
      BY <1>2, <1>7, <3>1, Zenon DEF ValueLeft
  <2>3. ASSUME StoreHeader("space_before_header_value", ":")
        PROVE  HeadersLeft("space_before_header_value", headers', all, w)
    <3>1. headers' = headers
      BY <2>3 DEF StoreHeader
    <3>2. QED
      BY <1>2, <1>3, <1>4, <2>2, <3>1 DEF HeadersLeft
  <2>4. HeaderGoesOn(all, "space_before_header_value", ":", w)
    BY <2>3 DEF HeaderGoesOn, HeaderStates
  <2>5. QED
    BY <1>3, <1>7, <2>1, <2>4, Advances, ByteKinds, Zenon
<1>8. ASSUME NEW b \in TokenBytes, NEW q \in Texts, x = First(b, q),
             FieldRest(Append(h.name, b), g.name, TokenBytes, q, u)
      PROVE  HeaderAdvances(all, x)
  <2>1. Target(b) = "header_name" /\ b \in Byte
    BY <1>5, HeaderTargets
  <2>2. headers = Append(f, h)
    BY <1>2, Zenon DEF LastIs
  <2>3. PICK k \in Header :
          /\ [headers EXCEPT ![Len(headers)].name = Append(@, b)] = Append(f, k)
          /\ k.name = Append(h.name, b) /\ k.value = h.value
    <3>1. \E k \in Header : NameAdded(headers, b, f, h, k)
      BY <2>1, <2>2, NameMore
    <3>2. QED
      BY <3>1, Zenon DEF NameAdded
  <2>4. ASSUME StoreHeader("header_name", b)
        PROVE  HeadersLeft("header_name", headers', all, q)
    <3>1. headers' = [headers EXCEPT ![Len(headers)].name = Append(@, b)]
      BY <2>4 DEF StoreHeader
    <3>2. LastIs(headers', all, f, k, g, y)
      <4>1. PICK hs : hs = headers' /\ hs = Append(f, k)
        BY <2>3, <3>1, Zenon
      <4>2. PICK ws \in Seq(WrittenHeaders) :
              y = HeadersRest(ws) /\ all = Append(f, g) \o HeadersAsRead(ws)
        BY <1>2, Zenon DEF LastIs
      <4>3. LastIs(hs, all, f, k, g, y)
        BY <4>1, <4>2, Zenon DEF LastIs
      <4>4. QED
        BY <4>1, <4>3, Zenon
    <3>3. NameLeft(headers', all, q)
      <4>1. FieldRest(k.name, g.name, TokenBytes, q, First(":", First("SP", z)))
        BY <1>3, <1>8, <2>3, Zenon
      <4>2. k.value = <<>> /\ ValueRest(z, g.value, y)
        BY <1>2, <2>3, Zenon
      <4>3. QED
        BY <3>2, <4>1, <4>2, Zenon DEF NameLeft
    <3>4. QED
      BY <3>3 DEF HeadersLeft
  <2>5. HeaderGoesOn(all, "header_name", b, q)
    BY <2>4 DEF HeaderGoesOn, HeaderStates
  <2>6. QED
    BY <1>8, <2>1, <2>5, Advances, Zenon
<1>9. QED
  BY <1>6, <1>7, <1>8, Zenon DEF FieldGoesOn

LEMMA NewlineAdvances ==
  ASSUME state = "expecting_newline_2", NEW x, NEW all,
         HeadersLeft(state, headers, all, x)
  PROVE  HeaderAdvances(all, x)
<1>1. PICK z \in Texts, v \in Texts, y \in Texts :
        x = First("LF", z) /\ BreakRest(z, v, y) /\ ValueLeft(headers, all, v, y)
  BY DEF HeadersLeft
<1>2. \/ AllLeft(headers, all, z)
      \/ \E b \in Blanks, w \in Texts :
           z = First(b, w) /\ LwsRest(w, v, y) /\ ValueLeft(headers, all, v, y)
  <2>1. \/ v = <<>> /\ z = y
        \/ \E b \in Blanks, w \in Texts : z = First(b, w) /\ LwsRest(w, v, y)
    BY <1>1, BreakPeel, Zenon
  <2>2. v = <<>> /\ z = y => AllLeft(headers, all, z)
    BY <1>1, ValueDone, Zenon
  <2>3. QED
    BY <1>1, <2>1, <2>2, Zenon
<1>3. Target("LF") = "header_line_start"
  BY HeaderTargets
<1>4. ASSUME StoreHeader("header_line_start", "LF")
      PROVE  HeadersLeft("header_line_start", headers', all, z)
  <2>1. headers' = headers
    BY <1>4 DEF StoreHeader
  <2>2. QED
    BY <1>2, <2>1 DEF HeadersLeft
<1>5. HeaderGoesOn(all, "header_line_start", "LF", z)
  BY <1>4 DEF HeaderGoesOn, HeaderStates
<1>6. QED
  BY <1>1, <1>3, <1>5, Advances, ByteKinds, Zenon

\* At the start of a line, with no header left: the empty line.
LEMMA NoLineAdvances ==
  ASSUME headers \in Seq(Header), state = "header_line_start", NEW x, NEW all,
         x = HeadersRest(<<>>), all = headers \o HeadersAsRead(<<>>)
  PROVE  HeaderAdvances(all, x)
<1>1. all = headers
  <2>1. headers \o <<>> = headers
    BY ConcatEmptySeq
  <2>2. QED
    BY <2>1, HeadersNoneLeft, Zenon
<1>2. PICK w \in Texts : w = First("LF", <<>>)
  BY ByteKinds, FirstText, JoinedText
<1>3. x = First("CR", w)
  BY <1>2, HeadersNoneLeft, Zenon
<1>4. Target("CR") = "expecting_newline_3"
  BY HeaderTargets
<1>5. ASSUME StoreHeader("expecting_newline_3", "CR")
      PROVE  HeadersLeft("expecting_newline_3", headers', all, w)
  <2>1. headers' = headers
    BY <1>5 DEF StoreHeader
  <2>2. QED
    BY <1>1, <1>2, <2>1 DEF HeadersLeft
<1>6. HeaderGoesOn(all, "expecting_newline_3", "CR", w)
  BY <1>5 DEF HeaderGoesOn, HeaderStates
<1>7. QED
  BY <1>3, <1>4, <1>6, Advances, ByteKinds, Zenon

\* The first byte of a header.
LEMMA NextLineAdvances ==
  ASSUME headers \in Seq(Header), state = "header_line_start", NEW x, NEW all,
         NEW h \in WrittenHeaders, NEW ws \in Seq(WrittenHeaders),
         x = HeadersRest(First(h, ws)), all = headers \o HeadersAsRead(First(h, ws))
  PROVE  HeaderAdvances(all, x)
<1>1. PICK y \in Texts : y = HeadersRest(ws)
  BY HeadersFirst
<1>2. PICK g \in Header : /\ g = AsRead(h) /\ g.name = h.name
                          /\ g.value = Joined(h.line, FoldsRead(h.folds))
  BY <1>1, WrittenHeader
<1>3. PICK z \in Texts : z = Joined(h.line, FoldsRest(h.folds, y))
  BY WrittenHeaderTypes, FoldsTypes, JoinedText
<1>4. ValueRest(z, g.value, y)
  BY <1>2, <1>3, WrittenHeaderTypes, Zenon DEF ValueRest
<1>5. PICK w \in Texts, u \in Texts : w = First("SP", z) /\ u = First(":", w)
  <2>1. First("SP", z) \in Texts
    BY ByteKinds, FirstText
  <2>2. First(":", First("SP", z)) \in Texts
    BY <2>1, ByteKinds, FirstText
  <2>3. QED
    BY <2>1, <2>2, Zenon
<1>6. x = Joined(g.name, u)
  <2>1. HeadersRest(First(h, ws)) = HeaderRest(h, y)
    BY <1>1, HeadersFirst
  <2>2. QED
    BY <1>2, <1>3, <1>5, <2>1, Zenon DEF HeaderRest
<1>7. FieldGoesOn(<<>>, g.name, TokenBytes, x, u)
  <2>1. TokenBytes \in SUBSET Byte
    BY ByteKinds
  <2>2. g.name \in Seq(TokenBytes) \ {<<>>}
    BY <1>2, WrittenHeaderTypes DEF Tokens
  <2>3. FieldRest(<<>>, g.name, TokenBytes, x, u)
    BY <1>6, <2>1, <2>2, FieldAhead
  <2>4. QED
    BY <2>1, <2>2, <2>3, FieldBegins
<1>8. PICK b \in TokenBytes, q \in Texts :
        x = First(b, q) /\ FieldRest(Append(<<>>, b), g.name, TokenBytes, q, u)
  BY <1>7, Zenon DEF FieldGoesOn
<1>9. b \in Byte /\ Target(b) = "header_name"
  BY ByteKinds, HeaderTargets
<1>10. PICK k \in Header : /\ k = [name |-> <<b>>, value |-> <<>>]
                           /\ k.name = Append(<<>>, b) /\ k.value = <<>>
  <2>1. <<b>> \in Seq(Byte) /\ <<>> \in Seq(Byte) /\ Append(<<>>, b) = <<b>>
    BY <1>9
  <2>2. PICK k : k = [name |-> <<b>>, value |-> <<>>]
    OBVIOUS
  <2>3. k \in Header /\ k.name = <<b>> /\ k.value = <<>>
    BY <2>1, <2>2, Zenon DEF Header
  <2>4. QED
    BY <2>1, <2>2, <2>3, Zenon
<1>11. all = Append(headers, g) \o HeadersAsRead(ws)
  <2>1. PICK rs \in Seq(Header) : rs = HeadersAsRead(ws)
    BY HeadersFirst
  <2>2. FirstMoves(g, headers, rs)
    BY FirstJoins
  <2>3. HeadersAsRead(First(h, ws)) = First(g, rs)
    BY <1>2, <2>1, HeadersFirst, Zenon
  <2>4. QED
    BY <2>1, <2>2, <2>3, Zenon DEF FirstMoves
<1>12. ASSUME StoreHeader("header_name", b)
       PROVE  HeadersLeft("header_name", headers', all, q)
  <2>1. headers' = Append(headers, [name |-> <<b>>, value |-> <<>>])
    BY <1>12 DEF StoreHeader
  <2>2. PICK hs : hs = headers' /\ hs = Append(headers, k)
    BY <1>10, <2>1, Zenon
  <2>3. LastIs(hs, all, headers, k, g, y)
    BY <1>1, <1>11, <2>2, Zenon DEF LastIs
  <2>4. FieldRest(k.name, g.name, TokenBytes, q, First(":", First("SP", z)))
    BY <1>5, <1>8, <1>10, Zenon
  <2>5. NameLeft(hs, all, q)
    BY <1>4, <1>10, <2>3, <2>4, Zenon DEF NameLeft
  <2>6. QED
    BY <2>2, <2>5 DEF HeadersLeft
<1>13. HeaderGoesOn(all, "header_name", b, q)
  BY <1>12 DEF HeaderGoesOn, HeaderStates
<1>14. QED
  BY <1>8, <1>9, <1>13, Advances, Zenon

LEMMA WrittenSplit ==
  ASSUME NEW ws \in Seq(WrittenHeaders), ws # <<>>
  PROVE  \E h \in WrittenHeaders, us \in Seq(WrittenHeaders) : ws = First(h, us)
<1>1. PICK S : S = WrittenHeaders
  OBVIOUS
<1>2. PICK h \in S, us \in Seq(S), n \in Nat :
        /\ ws = First(h, us) /\ n = Len(us) /\ Len(ws) = n + 1 /\ ws[1] = h
        /\ \A i \in 1..n : ws[i + 1] = us[i]
  BY <1>1, FirstSplit
<1>3. QED
  BY <1>1, <1>2

\* At the start of a line: a header, a continued line or the empty line.
LEMMA LineStartAdvances ==
  ASSUME headers \in Seq(Header), state = "header_line_start", NEW x, NEW all,
         HeadersLeft(state, headers, all, x)
  PROVE  HeaderAdvances(all, x)
<1>1. CASE AllLeft(headers, all, x)
  <2>1. PICK ws \in Seq(WrittenHeaders) :
          x = HeadersRest(ws) /\ all = headers \o HeadersAsRead(ws)
    BY <1>1, Zenon DEF AllLeft
  <2>2. CASE ws = <<>>
    <3>1. x = HeadersRest(<<>>) /\ all = headers \o HeadersAsRead(<<>>)
      BY <2>1, <2>2, Zenon
    <3>2. QED
      BY <3>1, NoLineAdvances
  <2>3. CASE ws # <<>>
    <3>1. PICK h \in WrittenHeaders, us \in Seq(WrittenHeaders) : ws = First(h, us)
      BY <2>3, WrittenSplit
    <3>2. x = HeadersRest(First(h, us)) /\ all = headers \o HeadersAsRead(First(h, us))
      BY <2>1, <3>1, Zenon
    <3>3. QED
      BY <3>2, NextLineAdvances
  <2>4. QED
    BY <2>2, <2>3
<1>2. ASSUME NEW b \in Blanks, NEW z \in Texts, NEW v \in Texts, NEW y \in Texts,
             x = First(b, z), LwsRest(z, v, y), ValueLeft(headers, all, v, y)
      PROVE  HeaderAdvances(all, x)
  <2>1. headers # <<>>
    <3>1. PICK f \in Seq(Header), h \in Header : headers = Append(f, h)
      BY <1>2, Zenon DEF ValueLeft, LastIs
    <3>2. QED
      BY <3>1
  <2>2. Target(b) = "header_lws" /\ b \in Byte
    BY <2>1, HeaderTargets, ByteKinds
  <2>3. ASSUME StoreHeader("header_lws", b)
        PROVE  HeadersLeft("header_lws", headers', all, z)
    <3>1. headers' = headers
      BY <2>3 DEF StoreHeader
    <3>2. QED
      BY <1>2, <3>1 DEF HeadersLeft
  <2>4. HeaderGoesOn(all, "header_lws", b, z)
    BY <2>3 DEF HeaderGoesOn, HeaderStates
  <2>5. QED
    BY <1>2, <2>2, <2>4, Advances, Zenon
<1>3. QED
  BY <1>1, <1>2 DEF HeadersLeft

\* Every state of the headers.
LEMMA HeaderAdvance ==
  ASSUME IInv, NEW x, NEW all, state \in HeaderStates,
         HeadersLeft(state, headers, all, x)
  PROVE  HeaderAdvances(all, x)
<1>1. headers \in Seq(Header)
  BY DEF IInv, TypeOK, Header, Byte
<1>2. CASE state = "expecting_newline_3"
  <2>1. x = First("LF", <<>>) /\ headers = all /\ Target("LF") = "true"
    BY <1>2, HeaderTargets DEF HeadersLeft
  <2>2. HeaderGoesOn(all, "true", "LF", <<>>)
    BY <2>1 DEF HeaderGoesOn
  <2>3. QED
    BY <2>1, <2>2, Advances, ByteKinds, JoinedText
<1>3. QED
  BY <1>1, <1>2, ValueAdvances, LwsAdvances, SpaceAdvances, NameAdvances,
     NewlineAdvances, LineStartAdvances DEF HeaderStates
-----------------------------------------------------------------------------
(* A client that writes by the grammar *)

\* What the client has still to write is x, and it fits the state.
Fits(r, x) ==
  /\ LineLeft(r, state, method, uri, major, minor, x)
  /\ state \in HeaderStates =>
       HeadersLeft(state, headers, HeadersAsRead(r.headers), x)

Accepted(r) ==
  /\ input = TextOf(r)
  /\ method = r.method /\ uri = r.uri /\ major = r.major /\ minor = r.minor
  /\ headers = HeadersAsRead(r.headers)

Writing ==
  /\ IInv /\ EmptyInv /\ request \in Written
  /\ result \in {"indeterminate", "true"}
  /\ result = "indeterminate" =>
       \E x \in Texts : TextOf(request) = Joined(input, x) /\ Fits(request, x)
  /\ result = "true" => Accepted(request)

\* The byte after the ones that have been written.
ByteAhead(t, c, z) ==
  LET w == Joined(t, First(c, z))
  IN /\ Len(t) < Len(w) /\ w[Len(t) + 1] = c
     /\ w = Joined(Append(t, c), z) /\ Append(t, c) \in Texts /\ w # t

\* The byte that ClientNext consumes is the first of what is left.
LEMMA NextByte ==
  ASSUME NEW t \in Texts, NEW c \in Byte, NEW z \in Texts
  PROVE  ByteAhead(t, c, z)
<1>1. Joined(t, First(c, z)) = Joined(Append(t, c), z)
  BY FirstJoined
<1>2. PICK S : S = Byte
  OBVIOUS
<1>3. t \in Seq(S) /\ z \in Seq(S) /\ c \in S
  BY <1>2 DEF Texts
<1>4. PICK n \in Nat : n = Len(z)
  BY <1>3
<1>5. PICK u \in Seq(S) : u = First(c, z) /\ Len(u) = n + 1 /\ u[1] = c
  <2>1. First(c, z) \in Seq(S) /\ Len(First(c, z)) = n + 1 /\ First(c, z)[1] = c
    BY <1>3, <1>4, FirstIs
  <2>2. QED
    BY <2>1, Zenon
<1>6. /\ Len(t \o u) = Len(t) + Len(u)
      /\ \A i \in 1..Len(u) : (t \o u)[Len(t) + i] = u[i]
  BY <1>3, ConcatAt
<1>7. Len(t) \in Nat
  BY <1>3
<1>8. Len(t) < Len(t \o u) /\ (t \o u)[Len(t) + 1] = c /\ t \o u # t
  BY <1>4, <1>5, <1>6, <1>7
<1>9. Append(t, c) \in Texts
  BY TextAlgebra, Zenon DEF Then
<1>10. QED
  BY <1>1, <1>5, <1>8, <1>9, Zenon DEF ByteAhead, Joined

\* While the machine is between its first and its last byte, there is a next
\* byte, and the machine goes on with it to a state the rest fits.
LEMMA Fitting ==
  ASSUME IInv, EmptyInv, NEW r \in Written, NEW x \in Texts, Fits(r, x)
  PROVE  \E c \in Byte, z \in Texts :
           /\ x = First(c, z)
           /\ \/ state \in HeaderStates
                   /\ HeaderGoesOn(HeadersAsRead(r.headers), Target(c), c, z)
              \/ state \in LineStates /\ LineGoesOn(r, Target(c), c, z)
<1>1. CASE state \in HeaderStates
  <2>1. HeadersLeft(state, headers, HeadersAsRead(r.headers), x)
    BY <1>1 DEF Fits
  <2>2. HeaderAdvances(HeadersAsRead(r.headers), x)
    BY <1>1, <2>1, HeaderAdvance
  <2>3. QED
    BY <1>1, <2>2, Zenon DEF HeaderAdvances
<1>2. CASE state \notin HeaderStates
  <2>1. state \in LineStates
    BY <1>2 DEF LineStates, IInv, TypeOK
  <2>2. LineAdvances(r, x)
    BY <2>1, LineAdvance DEF Fits
  <2>3. QED
    BY <2>1, <2>2, Zenon DEF LineAdvances
<1>3. QED
  BY <1>1, <1>2

LEMMA WritingInit ==
  ASSUME ClientInit, request # Anything
  PROVE  Writing
<1>1. /\ state = "method_start" /\ result = "indeterminate" /\ input = <<>>
      /\ method = <<>> /\ uri = <<>> /\ major = <<>> /\ minor = <<>> /\ headers = <<>>
  BY DEF ClientInit, Init
<1>2. IInv
  BY IInvInit DEF ClientInit
<1>3. EmptyInv
  BY <1>1 DEF EmptyInv
<1>4. request \in Written
  BY RequestClientAssumption DEF ClientInit
<1>5. PICK r \in Written : r = request
  BY <1>4
<1>6. PICK x \in Texts : x = TextOf(r) /\ x = Joined(r.method, AfterMethod(r))
  BY TextOfIs, AfterTypes, WrittenTypes, JoinedText
<1>7. FieldRest(<<>>, r.method, TokenBytes, x, AfterMethod(r))
  <2>1. TokenBytes \in SUBSET Byte /\ r.method \in Seq(TokenBytes)
    BY ByteKinds, WrittenTypes DEF Tokens
  <2>2. FieldRest(<<>>, r.method, TokenBytes, Joined(r.method, AfterMethod(r)),
                  AfterMethod(r))
    BY <2>1, FieldAhead
  <2>3. QED
    BY <1>6, <2>2, Zenon
<1>8. LineLeft(r, "method_start", <<>>, <<>>, <<>>, <<>>, x)
  BY <1>7 DEF LineLeft, BeforeUri, BeforeMajor, BeforeMinor
<1>9. Fits(r, x)
  BY <1>1, <1>8 DEF Fits, HeaderStates
<1>10. TextOf(r) = Joined(input, x)
  BY <1>1, <1>6, JoinedText
<1>11. QED
  BY <1>1, <1>2, <1>3, <1>5, <1>9, <1>10 DEF Writing

\* A byte of the request line.
LEMMA LineKept ==
  ASSUME EmptyInv, NEW r \in Written, NEW c \in Byte, NEW z \in Texts, Consume(c),
         state \in LineStates, LineGoesOn(r, Target(c), c, z)
  PROVE  result' = "indeterminate" /\ Fits(r, z)'
<1>1. PICK t \in States : t = Target(c)
  BY DEF LineGoesOn
<1>2. /\ result' = "indeterminate" /\ state' = t
      /\ StoreRequestLine(t, c) /\ StoreHeader(t, c)
  BY <1>1 DEF Consume, States, HeaderStates
<1>3. /\ LineLeft(r, t, method', uri', major', minor', z)
      /\ t \in HeaderStates => t = "header_line_start" /\ z = HeadersRest(r.headers)
  BY <1>1, <1>2 DEF LineGoesOn
<1>4. headers = <<>>
  BY DEF EmptyInv, LineStates
<1>5. ASSUME t \in HeaderStates
      PROVE  HeadersLeft(t, headers', HeadersAsRead(r.headers), z)
  <2>1. PICK rs \in Seq(Header) : rs = HeadersAsRead(r.headers)
    BY WrittenTypes
  <2>2. t = "header_line_start" /\ z = HeadersRest(r.headers)
    BY <1>3, <1>5
  <2>3. headers' = <<>>
    BY <1>2, <1>4, <2>2 DEF StoreHeader, LineStates, HeaderStates
  <2>4. <<>> \o rs = rs
    BY ConcatEmptySeq
  <2>5. r.headers \in Seq(WrittenHeaders)
    BY WrittenTypes
  <2>6. AllLeft(<<>>, rs, z)
    BY <2>1, <2>2, <2>4, <2>5, Zenon DEF AllLeft
  <2>7. QED
    BY <2>1, <2>2, <2>3, <2>6 DEF HeadersLeft
<1>6. QED
  BY <1>2, <1>3, <1>5 DEF Fits

\* A byte of the header lines.
LEMMA HeadersKept ==
  ASSUME NEW r \in Written, NEW c \in Byte, NEW x \in Texts, NEW z \in Texts, Consume(c),
         state \in HeaderStates, Fits(r, x),
         HeaderGoesOn(HeadersAsRead(r.headers), Target(c), c, z)
  PROVE  \/ result' = "indeterminate" /\ Fits(r, z)'
         \/ /\ result' = "true" /\ z = <<>>
            /\ method' = r.method /\ uri' = r.uri /\ major' = r.major /\ minor' = r.minor
            /\ headers' = HeadersAsRead(r.headers)
<1>1. PICK t : t = Target(c)
  OBVIOUS
<1>2. PICK all : all = HeadersAsRead(r.headers)
  OBVIOUS
<1>3. method = r.method /\ uri = r.uri /\ major = r.major /\ minor = r.minor
  BY DEF Fits, LineLeft, HeaderStates, BeforeUri, BeforeMajor, BeforeMinor
<1>4. StoreRequestLine(t, c) /\ StoreHeader(t, c)
  BY <1>1 DEF Consume
<1>5. CASE t = "true" /\ z = <<>> /\ headers = all
  <2>1. result' = "true"
    BY <1>1, <1>5 DEF Consume
  <2>2. method' = method /\ uri' = uri /\ major' = major /\ minor' = minor
    BY <1>4, <1>5 DEF StoreRequestLine
  <2>3. headers' = headers
    BY <1>4, <1>5 DEF StoreHeader
  <2>4. QED
    BY <1>2, <1>3, <1>5, <2>1, <2>2, <2>3
<1>6. CASE t \in HeaderStates /\ HeadersLeft(t, headers', all, z)
  <2>1. result' = "indeterminate" /\ state' = t
    BY <1>1, <1>6 DEF Consume, HeaderStates
  <2>2. method' = method /\ uri' = uri /\ major' = major /\ minor' = minor
    BY <1>4, <1>6 DEF StoreRequestLine, HeaderStates
  <2>3. LineLeft(r, t, method', uri', major', minor', z)
    BY <1>3, <1>6, <2>2
       DEF LineLeft, HeaderStates, BeforeUri, BeforeMajor, BeforeMinor
  <2>4. QED
    BY <1>2, <1>6, <2>1, <2>3 DEF Fits
<1>7. QED
  BY <1>1, <1>2, <1>4, <1>5, <1>6 DEF HeaderGoesOn

\* The step: the rest of the text fits the state after the byte.
LEMMA WritingStep ==
  ASSUME Writing, WriteByte
  PROVE  Writing'
<1>1. PICK r \in Written : r = request /\ request' = r
  BY DEF Writing, WriteByte
<1>2. result = "indeterminate"
  BY DEF WriteByte, Consume
<1>3. PICK x \in Texts : TextOf(r) = Joined(input, x) /\ Fits(r, x)
  BY <1>1, <1>2 DEF Writing
<1>4. PICK c \in Byte, z \in Texts :
        /\ x = First(c, z)
        /\ \/ state \in HeaderStates
                /\ HeaderGoesOn(HeadersAsRead(r.headers), Target(c), c, z)
           \/ state \in LineStates /\ LineGoesOn(r, Target(c), c, z)
  BY <1>3, Fitting DEF Writing
<1>5. input \in Texts
  BY DEF Writing, IInv, TypeOK, Texts, Byte
<1>6. ByteAhead(input, c, z)
  BY <1>5, NextByte
<1>7. /\ TextOf(r)[Len(input) + 1] = c /\ Append(input, c) \in Texts
      /\ TextOf(r) = Joined(Append(input, c), z)
  BY <1>3, <1>4, <1>6, Zenon DEF ByteAhead
<1>8. Consume(c) /\ input' = Append(input, c)
  <2>1. Consume(TextOf(request)[Len(input) + 1])
    BY DEF WriteByte
  <2>2. Consume(c)
    BY <1>1, <1>7, <2>1, Zenon
  <2>3. QED
    BY <2>2 DEF Consume
<1>9. IInv' /\ EmptyInv'
  BY <1>8, IInvConsume, EmptyStep DEF Writing
<1>10. TextOf(r) = Joined(input', z)
  BY <1>7, <1>8, Zenon
<1>11. CASE result' = "indeterminate" /\ Fits(r, z)'
  <2>1. Fits(request, z)'
    BY <1>1, <1>11, Zenon DEF Fits
  <2>2. QED
    BY <1>1, <1>9, <1>10, <1>11 DEF Writing
<1>12. CASE /\ result' = "true" /\ z = <<>>
            /\ method' = r.method /\ uri' = r.uri /\ major' = r.major
            /\ minor' = r.minor /\ headers' = HeadersAsRead(r.headers)
  <2>1. input' = TextOf(r)
    <3>1. Joined(Append(input, c), <<>>) = Append(input, c)
      BY <1>7, TextAlgebra
    <3>2. QED
      BY <1>7, <1>8, <1>12, <3>1, Zenon
  <2>2. Accepted(request)'
    <3>1. /\ input' = TextOf(request') /\ method' = request'.method
          /\ uri' = request'.uri /\ major' = request'.major /\ minor' = request'.minor
          /\ headers' = HeadersAsRead(request'.headers)
      BY <1>1, <1>12, <2>1, Zenon
    <3>2. QED
      BY <3>1, Zenon DEF Accepted
  <2>3. QED
    BY <1>1, <1>9, <1>12, <2>2 DEF Writing
<1>13. CASE state \in LineStates /\ LineGoesOn(r, Target(c), c, z)
  BY <1>8, <1>11, <1>13, LineKept DEF Writing
<1>14. CASE state \in HeaderStates
              /\ HeaderGoesOn(HeadersAsRead(r.headers), Target(c), c, z)
  BY <1>3, <1>8, <1>11, <1>12, <1>14, HeadersKept
<1>15. QED
  BY <1>4, <1>13, <1>14

\* What a client of the other kind writes does not matter.
ClientInv == request # Anything => Writing

LEMMA ClientInvStep == ClientInv /\ [ClientNext]_clientVars => ClientInv'
<1> SUFFICES ASSUME ClientInv, [ClientNext]_clientVars, request' # Anything
             PROVE  Writing'
  BY DEF ClientInv
<1>1. CASE WriteByte
  BY <1>1, WritingStep DEF ClientInv, WriteByte
<1>2. CASE WriteAnyByte
  BY <1>2 DEF WriteAnyByte
<1>3. CASE UNCHANGED clientVars
  <2>1. /\ state' = state /\ result' = result /\ input' = input /\ request' = request
        /\ method' = method /\ uri' = uri /\ major' = major /\ minor' = minor
        /\ headers' = headers
    BY <1>3 DEF clientVars, vars, fields
  <2>2. Writing
    BY <2>1 DEF ClientInv
  <2>3. IInv' /\ EmptyInv'
    BY <2>1, <2>2 DEF Writing, IInv, TypeOK, BackNeverOnEmpty, EmptyInv
  <2>4. QED
    BY <2>1, <2>2, <2>3, Zenon DEF Writing, Fits, Accepted
<1>4. QED
  BY <1>1, <1>2, <1>3 DEF ClientNext

LEMMA ClientAlways == ClientSpec => []ClientInv
<1>1. ClientInit => ClientInv
  BY WritingInit DEF ClientInv
<1>2. QED
  BY <1>1, ClientInvStep, PTL DEF ClientSpec

\* Every request of the grammar, whatever its fields, with any number of headers
\* and each over any number of lines, is accepted with its last byte, not before,
\* and never refused.
THEOREM WrittenAreAccepted == ClientSpec => []WrittenIsAccepted
<1>1. ASSUME Writing
      PROVE  WrittenIsAccepted
  <2>1. CASE result = "indeterminate"
    <3>1. PICK r \in Written : r = request
      BY <1>1 DEF Writing
    <3>2. PICK x \in Texts : TextOf(r) = Joined(input, x) /\ Fits(r, x)
      BY <1>1, <2>1, <3>1 DEF Writing
    <3>3. PICK c \in Byte, z \in Texts : x = First(c, z)
      BY <1>1, <3>2, Fitting DEF Writing
    <3>4. input \in Texts
      BY <1>1 DEF Writing, IInv, TypeOK, Texts, Byte
    <3>5. ByteAhead(input, c, z)
      BY <3>4, NextByte
    <3>6. TextOf(r) # input
      BY <3>2, <3>3, <3>5, Zenon DEF ByteAhead
    <3>7. QED
      BY <2>1, <3>1, <3>6 DEF WrittenIsAccepted
  <2>2. CASE result = "true"
    BY <1>1, <2>2 DEF Writing, Accepted, WrittenIsAccepted
  <2>3. QED
    BY <1>1, <2>1, <2>2 DEF Writing
<1>2. ClientInv => WrittenIsAccepted
  BY <1>1 DEF ClientInv, WrittenIsAccepted
<1>3. QED
  BY <1>2, ClientAlways, PTL

\* The fields of an accepted request are the ones the client wrote, the value of
\* a header that goes on over lines without the breaks and the blanks after them.
THEOREM ReadAreAsWritten == ClientSpec => []ReadAsWritten
<1>1. ClientInv => ReadAsWritten
  BY DEF ClientInv, Writing, Accepted, ReadAsWritten, HeadersAsRead
<1>2. QED
  BY <1>1, ClientAlways, PTL
=============================================================================
