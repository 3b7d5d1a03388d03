-------------------------- MODULE MCPrinterStatus --------------------------
(* Answers of a printer: header lines before and after Content-Length, a    *)
(* message that informs in front, and every verdict; and memory that holds  *)
(* nothing of interest or an earlier answer, to this job or to another.     *)
EXTENDS PrinterStatus

Verdicts == {<<v, r, "attr", "x">> : v \in {"good", "bad"}, r \in {"mine", "other"}}
Headers  == {<<"ok">> \o b \o <<"name1", "name2", "value">> \o a \o <<"nl", "cr", "nl">> :
               b \in {<<"nl">>, <<"nl", "x", "x", "cr", "nl">>},
               a \in {<<>>, <<"nl", "x", "cr">>}}
Replies  == {h \o v : h \in Headers, v \in Verdicts}
              \cup {<<"error", "nl", "cr", "nl">>, <<"ok", "nl", "x", "cr", "nl">>}
Inform   == {<<"info", "nl", "cr", "nl">> \o r : r \in Replies}
AllAnswers == Replies \cup Inform

OldAnswers == {<<>>} \cup {<<"ok", "nl", "name1", "name2", "value", "nl", "cr", "nl">> \o v :
                              v \in Verdicts}

ASSUME AnswersAreRegular == \A a \in AllAnswers : Regular(a)
=============================================================================
