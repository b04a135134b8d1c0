--------------------------- MODULE MCRequestParser ---------------------------
(***************************************************************************)
(* The requests of a small client.                                         *)
(***************************************************************************)
EXTENDS RequestClient

CONSTANT MaxHeaderLines  \* bound: header lines of a written request

Words == {<<"a">>, <<"H", "0">>}

\* Lines without a fold, with one that ends in a colon or a high byte, a fold
\* of two blanks, one that follows an empty line, and two of them in a row.
Values ==
  {[line |-> <<>>, folds |-> <<>>], [line |-> <<"SP">>, folds |-> <<>>],
   [line |-> <<"a", ":">>, folds |-> <<>>], [line |-> <<"high">>, folds |-> <<>>],
   [line |-> <<"a">>,
    folds |-> <<[blanks |-> <<"HT", "SP">>, line |-> <<"0", "SP">>]>>],
   [line |-> <<>>,
    folds |-> <<[blanks |-> <<"SP">>, line |-> <<>>],
                [blanks |-> <<"HT">>, line |-> <<"/">>]>>]}

Lines == {[name |-> n, line |-> v.line, folds |-> v.folds] : n \in Words, v \in Values}

MCRequests ==
  [method : Words, uri : {<<>>, <<"/">>, <<"/", "(", "H">>},
   major : {<<"1">>, <<"0", "1">>}, minor : {<<"0">>},
   headers : UNION {[1..n -> Lines] : n \in 0..MaxHeaderLines}]

=============================================================================
