------------------------------- MODULE MCHttp -------------------------------
(* Both directions of HTTPPacket.cpp: every text of one alphabet for the   *)
(* functions that read, or every sequence of responses.                    *)
EXTENDS HttpPacket, HttpResponse, TLC

\* Single characters, for line ends that are cut, doubled or half.
Characters == {<<"CR">>, <<"LF">>, <<"w">>}

\* Whole line ends and words, for request lines and fields.
Words == {EOL, <<"SP">>, <<"?">>, <<Name>>, <<"w">>}

\* Parts of file names.
NameParts == {<<".">>, <<"/">>, <<"html">>, <<"w">>}

AllAlphabets == {Characters, Words, NameParts}
Lengths == Characters :> 8 @@ Words :> 9 @@ NameParts :> 6

Types == {<<".", "html">>}

\* "html", as in config.json, and "./www".
Folders == {<<"html">>, <<".", "/", "w">>}

\* A word, a line end, and what looks like the start of another response.
FileUnits == {Text("w"), Eol, Status("404")}

Init == TextInit /\ ResponseInit

Next ==
    \/ sent \o cut = <<>> /\ Extend /\ UNCHANGED responseVars
    \/ text = <<>> /\ pieces = Words /\ Respond /\ UNCHANGED <<text, pieces>>

Spec == Init /\ [][Next]_<<text, pieces, responseVars>>
=============================================================================
