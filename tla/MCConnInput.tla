---------------------------- MODULE MCConnInput -----------------------------
(***************************************************************************)
(* Instances of ConnInput for TLC.                                         *)
(***************************************************************************)
EXTENDS ConnInput

EndOfHeaders == <<"CR", "LF", "CR", "LF">>

\* With and without a header, by the old version, one that stops the server, and
\* two that are no requests: a line without a version, and a word.
MCRequests == {<<"GET ", "/ ", "HTTP/1.1">> \o EndOfHeaders,
               <<"GET ", "/ ", "HTTP/1.1", "CR", "LF", "Host:x">> \o EndOfHeaders,
               <<"GET ", "/quit ", "HTTP/1.0">> \o EndOfHeaders,
               <<"GET ", "/ ", "CR", "LF">>,
               <<"quit", "CR", "LF">>}

ASSUME MCRequestsAreGrammatical == \A r \in MCRequests : Grammatical(r)
=============================================================================
