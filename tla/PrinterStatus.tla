--------------------------- MODULE PrinterStatus ---------------------------
(***************************************************************************)
(* printer_status and readmore of ipp/printd.c: the parser of the          *)
(* printer's answer, over a connection that hands the answer out in pieces *)
(* of any size, into a buffer that holds what was in its memory before.    *)
(*                                                                         *)
(* The answer is a sequence of tokens.  Of the HTTP header: a status line  *)
(* ("ok", "error" or, for a message that only informs, "info"), "x" for    *)
(* text, the two halves of the name Content-Length, its value "value", and *)
(* single "nl" and "cr" characters.  The status line arrives in one piece. *)
(* Of the IPP message, four bytes each: "good" or "bad" (version and       *)
(* status), "mine" or "other" (request id), "attr" (which, taken for a     *)
(* status, reads 0x0012, a success) and "x".                               *)
(*                                                                         *)
(* Positions count from 1, so bp[i] of the code is buf[i + 1].             *)
(***************************************************************************)
EXTENDS Integers, Sequences

CONSTANTS
  Answers,  \* sequences of tokens the printer may send
  Memories  \* what the memory that malloc returns may hold: earlier answers

VARIABLES
  answer,   \* what the printer sends
  got,      \* tokens of it that have been read
  buf,      \* the buffer; beyond its end there is text
  nr,       \* length of the part that the code takes for valid
  i, len,   \* next position; the length announced by Content-Length
  pc, success,
  clean     \* history: so far only cuts that the parser copes with

vars == <<answer, got, buf, nr, i, len, pc, success, clean>>

Texts  == {"x", "nl", "cr", "name1", "name2", "value"}
Lines  == {"ok", "error", "info"}
Fields == {"good", "bad", "mine", "other", "attr"}
Tokens == Texts \cup Lines \cup Fields

ASSUME AnswersAssumption ==
  Answers \subseteq Seq(Tokens) /\ Memories \subseteq Seq(Tokens)

(* Tokens after the blank line that ends the header. *)
Body(a) ==
  LET ends == {n \in 1 .. Len(a) - 2 : SubSeq(a, n, n + 2) = <<"nl", "cr", "nl">>}
      last == CHOOSE n \in ends : \A k \in ends : k <= n
  IN IF ends = {} THEN 0 ELSE Len(a) - last - 2

(* Cuts that the parser copes with: behind the message that informs, before *)
(* the name Content-Length, at the end of the header, and at the end.      *)
InfoEnd(a)      == IF a[1] = "info" THEN 4 ELSE 0
HeaderLen(a)    == Len(a) - Body(a)
Named(a, n)     == \E k \in 1 .. n : a[k] = "name1"
CopesWith(m, n) ==
  \/ n = InfoEnd(answer)
  \/ m >= InfoEnd(answer) /\ (n \in {Len(answer), HeaderLen(answer)} \/ ~Named(answer, n))

(* The buffer at position k: what was read there last, or old memory. *)
Buf(k) == IF k \in 1 .. Len(buf) THEN buf[k] ELSE "x"

Goto(p) == pc' = p
Done(s) == Goto("done") /\ success' = s

(* tread or read of the next piece, to position at: what was there before  *)
(* is overwritten, what lies behind the new piece stays.                   *)
Read(at, next) ==
  \E n \in got + 1 .. Len(answer) :
    /\ LET upto == at - 1 + n - got
           last == IF Len(buf) > upto THEN Len(buf) ELSE upto
       IN /\ buf' = [k \in 1 .. last |->
                       IF k \in at .. upto THEN answer[got + k - at + 1] ELSE Buf(k)]
          /\ nr' = upto
    /\ got' = n /\ clean' = (clean /\ CopesWith(got, n))
    /\ Goto(next)
    /\ UNCHANGED <<answer, i, len, success>>

(* The next piece comes too late, or the answer ends here: the parser      *)
(* gives up.                                                               *)
TooLate == Done(FALSE) /\ UNCHANGED <<answer, got, buf, nr, i, len, clean>>

(* tread with its 5 s, or readmore with its 1 s. *)
ReadMore(at, next) == Read(at, next) \/ TooLate

(* while ((nr = tread(...)) > 0) *)
ReadAnswer == pc = "read" /\ ReadMore(1, "line")

(* The status line.  A message that only informs, and one that does not    *)
(* begin with a status, is dropped with all that was read along with it.   *)
StatusLine ==
  /\ pc = "line"
  /\ \/ buf[1] \notin {"ok", "error"} /\ Goto("read") /\ UNCHANGED <<i, success>>
     \/ buf[1] = "error" /\ Done(FALSE) /\ UNCHANGED i
     \/ buf[1] = "ok" /\ Goto("length") /\ i' = 2 /\ UNCHANGED success
  /\ UNCHANGED <<answer, got, buf, nr, len, clean>>

(* Search for Content-Length, reading on at the end of what there is. *)
SkipToName ==
  /\ pc = "length"
  /\ \/ i <= nr /\ buf[i] # "name1" /\ i' = i + 1 /\ UNCHANGED pc
     \/ i <= nr /\ buf[i] = "name1" /\ Goto("name") /\ UNCHANGED i
     \/ i > nr /\ Goto("more.length") /\ UNCHANGED i
  /\ UNCHANGED <<answer, got, buf, nr, len, success, clean>>

MoreForName == pc = "more.length" /\ ReadMore(i, "name")

(* Neither the name nor the value is checked against nr. *)
ContentLength ==
  /\ pc = "name"
  /\ \/ /\ Buf(i) = "name1" /\ Buf(i + 1) = "name2"
        /\ i' = i + 3
        /\ len' = IF Buf(i + 2) = "value" THEN Body(answer) ELSE 0
        /\ Goto(IF i + 3 > nr THEN "more.value" ELSE "end")
     \/ /\ ~(Buf(i) = "name1" /\ Buf(i + 1) = "name2")
        /\ i' = i + 1
        /\ Goto("length") /\ UNCHANGED len
  /\ UNCHANGED <<answer, got, buf, nr, success, clean>>

MoreForEnd == pc = "more.value" /\ ReadMore(i, "end")

BlankLine(k) == Buf(k) = "nl" /\ Buf(k + 1) = "cr" /\ Buf(k + 2) = "nl"

(* Mutant: the body is taken to begin at the blank line. *)
HeaderEndShort ==
  /\ pc = "end"
  /\ \/ /\ i + 2 <= nr /\ BlankLine(i)
        /\ i' = i + 2 /\ Goto(IF i + 3 > nr THEN "more.end" ELSE "body")
     \/ i + 2 <= nr /\ ~BlankLine(i) /\ i' = i + 1 /\ UNCHANGED pc
     \/ i + 2 > nr /\ i <= nr /\ Goto("spin") /\ UNCHANGED i
  /\ UNCHANGED <<answer, got, buf, nr, len, success, clean>>

(* Mutant: the inner loop stops one character early. *)
HeaderEndLate ==
  /\ pc = "end"
  /\ \/ /\ i + 3 <= nr /\ BlankLine(i)
        /\ i' = i + 3 /\ Goto(IF i + 3 > nr THEN "more.end" ELSE "body")
     \/ i + 3 <= nr /\ ~BlankLine(i) /\ i' = i + 1 /\ UNCHANGED pc
     \/ i + 3 > nr /\ i <= nr /\ Goto("spin") /\ UNCHANGED i
  /\ UNCHANGED <<answer, got, buf, nr, len, success, clean>>

(* Search for the end of the header.  When less than three characters are  *)
(* left, the inner loop stops short of them and nothing more is read: the  *)
(* outer loop goes round for ever.                                         *)
HeaderEnd ==
  /\ pc = "end"
  /\ \/ /\ i + 2 <= nr /\ BlankLine(i)
        /\ i' = i + 3 /\ Goto(IF i + 3 > nr THEN "more.end" ELSE "body")
     \/ i + 2 <= nr /\ ~BlankLine(i) /\ i' = i + 1 /\ UNCHANGED pc
     \/ i + 2 > nr /\ i <= nr /\ Goto("spin") /\ UNCHANGED i
  /\ UNCHANGED <<answer, got, buf, nr, len, success, clean>>

Spin == pc = "spin" /\ UNCHANGED vars

MoreForBody == pc = "more.end" /\ ReadMore(i, "body")

(* One more read if the body is not complete; its offset is the beginning  *)
(* of the body, not the end of what has been read.                         *)
ReadBody ==
  /\ pc = "body"
  /\ \/ nr - i + 1 < len /\ ReadMore(i, "parse")
     \/ /\ nr - i + 1 >= len
        /\ Goto("parse")
        /\ UNCHANGED <<answer, got, buf, nr, i, len, success, clean>>

Parse ==
  /\ pc = "parse"
  /\ Done(Buf(i + 1) = "mine" /\ Buf(i) \in {"good", "attr"})
  /\ UNCHANGED <<answer, got, buf, nr, i, len, clean>>

Init ==
  /\ answer \in Answers
  /\ buf \in Memories
  /\ got = 0 /\ nr = 0 /\ i = 1 /\ len = 0
  /\ pc = "read" /\ success = FALSE /\ clean = TRUE

Next ==
  \/ ReadAnswer \/ StatusLine \/ SkipToName \/ MoreForName \/ ContentLength
  \/ MoreForEnd \/ HeaderEnd \/ Spin \/ MoreForBody \/ ReadBody \/ Parse

Spec     == Init /\ [][Next]_vars
FairSpec == Spec /\ WF_vars(Next)

-----------------------------------------------------------------------------
(* The printer took this job: a success for this request id in the body of *)
(* a successful answer.                                                    *)
Accepted(a) ==
  \E n \in 1 .. Len(a) :
    /\ a[n] = "ok"
    /\ Body(a) >= 2
    /\ a[HeaderLen(a) + 1] = "good" /\ a[HeaderLen(a) + 2] = "mine"

(* An answer as HTTP and IPP have it: perhaps a message that informs, then *)
(* one status line; no success without a Content-Length, of which there is *)
(* one; the body begins behind the first blank line that follows it, with  *)
(* a version and status and a request id.                                  *)
Regular(a) ==
  LET s == InfoEnd(a) IN
  /\ Len(a) > s /\ a[s + 1] \in {"ok", "error"}
  /\ \A n \in 1 .. Len(a) : a[n] = "ok" => n = s + 1
  /\ Accepted(a) => Named(a, Len(a))
  /\ \A m \in 1 .. Len(a) : a[m] = "name1" =>
       /\ m > s + 1 /\ \A n \in 1 .. Len(a) : a[n] = "name1" => n = m
       /\ \E e \in m + 3 .. Len(a) - 2 : \A n \in m + 3 .. Len(a) - 2 :
            SubSeq(a, n, n + 2) = <<"nl", "cr", "nl">> <=> n = e
       /\ a[m + 1] = "name2" /\ a[m + 2] = "value"
       /\ Body(a) # 1 /\ (Body(a) > 0 => a[HeaderLen(a) + 1] # "attr")

(* A job is removed only if the printer took it; and it is removed, not    *)
(* printed again, if the printer took it and each piece of its answer came *)
(* in time.  (An answer that stops for 5 s before the status line or for   *)
(* 1 s after it is given up, so got falls short of it.)  This holds        *)
(* whatever the memory held before, when the answer comes in pieces that   *)
(* the parser copes with.                                                  *)
Verdict ==
  pc = "done" /\ clean => (success <=> Accepted(answer) /\ got = Len(answer))

(* The parser always gets to an end, or waits for nothing: it returns,     *)
(* unless the answer is cut where it does not cope.                        *)
StatusReturns == <>(pc = "done" \/ ~clean)
=============================================================================
