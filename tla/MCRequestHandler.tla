-------------------------- MODULE MCRequestHandler --------------------------
(***************************************************************************)
(* Instances of Response: URIs are all short sequences of tokens after     *)
(* each of the prefixes that mean something to the server, and the name of *)
(* a picture.                                                              *)
(***************************************************************************)
EXTENDS Response

UriTokens == {"/", "x", ".", "?", "%2F", "%2E", "%3F", "%1g", "%"}

MCTokens == UriTokens \cup OwnTokens \cup {"y", "jpg"}

Starts == {<<>>, <<"/">>, <<"/", "_all">>, <<"/", "_stream", "/">>}

MCUris == {p \o s : p \in Starts, s \in BoundedSeq(UriTokens, 3)}
          \cup {<<"/", "x", ".", "x", ".", "jpg">>}

MCStreamPaths == {<<"/", "x">>, <<"/", "x", "x">>, <<"/", "y", "/", "x">>}

MCFiles == {<<"/", "x", ".", "x">>, <<"/", "index.html">>, <<"/", ".", ".", "x">>,
            <<"/", ".", "/", "index.html">>, <<"/", "x", "/", "x">>,
            <<"/", "x", ".", "x", ".", "jpg">>}

=============================================================================
