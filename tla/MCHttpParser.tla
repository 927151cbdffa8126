---------------------------- MODULE MCHttpParser ----------------------------
(* HttpParser for TLC: heads with one or two header lines, right and wrong  *)
(* request lines, at most one wrong line end, and bodies of any length up   *)
(* to one byte more than announced.                                         *)
EXTENDS HttpParser

CRLF == <<"CR", "LF">>

RequestLines == {<<"GET">>, <<"GET", "text">>, <<"text">>, <<>>}
Headers == {<<"keep-alive">>, <<"length">>, <<"text">>, <<"keep-alive", "text">>}
LineEnds == {CRLF, <<"CR">>, <<"LF">>}

MCInputs ==
    {r \o e1 \o h \o e2 \o g \o CRLF \o CRLF \o b :
        r \in RequestLines, h \in Headers, g \in Headers,
        e1 \in {CRLF}, e2 \in LineEnds,
        b \in {<<>>, <<"text">>, <<"text", "text">>, <<"text", "text", "text">>}}
    \cup {<<"GET">> \o e \o CRLF : e \in LineEnds}
    \cup {<<"GET">> \o CRLF \o <<"length">> \o CRLF \o CRLF \o <<"text">> \o CRLF \o <<"text">>}
=============================================================================
