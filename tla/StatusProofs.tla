---------------------------- MODULE StatusProofs ----------------------------
(***************************************************************************)
(* What printer_status makes of an answer, for any answers of any length,  *)
(* any pieces in which they come, in time or late, and any earlier answers *)
(* in the memory of the buffer.                                            *)
(***************************************************************************)
EXTENDS PrinterStatus, SequenceTheorems, TLAPS

Steps == {"read", "line", "length", "more.length", "name", "more.value", "end",
          "spin", "more.end", "body", "parse", "done"}

(* The buffer holds tokens of this answer or an earlier one.               *)
StatusType ==
  /\ answer \in Seq(Tokens) /\ answer \in Answers
  /\ got \in 0 .. Len(answer) /\ nr \in Nat
  /\ buf \in Seq(Tokens)
  /\ i \in Nat \ {0}
  /\ pc \in Steps /\ success \in BOOLEAN /\ clean \in BOOLEAN

-----------------------------------------------------------------------------
(* The blank lines of an answer, and its body.                             *)
BlankAt(a, n) == a[n] = "nl" /\ a[n + 1] = "cr" /\ a[n + 2] = "nl"
LEMMA BlankLines ==
  ASSUME NEW a \in Seq(Tokens), NEW n \in 1 .. Len(a) - 2
  PROVE  SubSeq(a, n, n + 2) = <<"nl", "cr", "nl">> <=> BlankAt(a, n)
  <1> DEFINE s == SubSeq(a, n, n + 2)
             t == <<"nl", "cr", "nl">>
  <1>1. s \in Seq(Tokens) /\ Len(s) = 3 /\ s[1] = a[n] /\ s[2] = a[n + 1] /\ s[3] = a[n + 2]
    BY SubSeqProperties
  <1>2. t \in Seq(Tokens) /\ Len(t) = 3 /\ t[1] = "nl" /\ t[2] = "cr" /\ t[3] = "nl"
    BY DEF Tokens, Texts
  <1> HIDE DEF s, t
  <1>3. s = t <=> \A k \in 1 .. 3 : s[k] = t[k]
    BY <1>1, <1>2, SeqEqual
  <1>4. \A k \in 1 .. 3 : k = 1 \/ k = 2 \/ k = 3
    OBVIOUS
  <1>5. s = t <=> BlankAt(a, n)
    BY <1>1, <1>2, <1>3, <1>4 DEF BlankAt
  <1> QED BY <1>5 DEF s, t

LEMMA BodyIs ==
  ASSUME NEW a \in Seq(Tokens)
  PROVE  \A e \in 1 .. Len(a) - 2 :
              BlankAt(a, e) /\ (\A n \in e + 1 .. Len(a) - 2 : ~BlankAt(a, n))
                => Body(a) = Len(a) - e - 2 /\ HeaderLen(a) = e + 2
  <1> DEFINE ends == {n \in 1 .. Len(a) - 2 : SubSeq(a, n, n + 2) = <<"nl", "cr", "nl">>}
             last == CHOOSE n \in ends : \A k \in ends : k <= n
  <1>0. Len(a) \in Nat
    OBVIOUS
  <1>1. Body(a) = IF ends = {} THEN 0 ELSE Len(a) - last - 2
    BY DEF Body
  <1>2. ends = {n \in 1 .. Len(a) - 2 : BlankAt(a, n)}
    BY BlankLines
  <1> HIDE DEF ends
  <1>3. ASSUME NEW e \in 1 .. Len(a) - 2, BlankAt(a, e),
               \A n \in e + 1 .. Len(a) - 2 : ~BlankAt(a, n)
        PROVE  last = e
    <2>1. e \in ends /\ \A k \in ends : k <= e
      BY <1>0, <1>2, <1>3
    <2>2. \A n \in ends : n \in Nat
      BY <1>0, <1>2
    <2>3. last \in ends /\ \A k \in ends : k <= last
      BY <2>1
    <2> HIDE DEF last
    <2>4. last <= e /\ e <= last
      BY <2>1, <2>3
    <2> QED BY <1>3, <2>2, <2>3, <2>4
  <1>4. \A e \in 1 .. Len(a) - 2 :
          BlankAt(a, e) /\ (\A n \in e + 1 .. Len(a) - 2 : ~BlankAt(a, n)) => Body(a) = Len(a) - e - 2
    BY <1>1, <1>2, <1>3
  <1> HIDE DEF last
  <1> QED BY <1>0, <1>4 DEF HeaderLen

-----------------------------------------------------------------------------
(* What a piece that is read does to the buffer.                           *)
LEMMA Piece ==
  ASSUME StatusType, NEW at \in Nat \ {0}, NEW next \in Steps, Read(at, next)
  PROVE  /\ StatusType'
         /\ pc' = next /\ UNCHANGED <<answer, i, len, success>>
         /\ got' \in got + 1 .. Len(answer) /\ nr' = at - 1 + got' - got
         /\ clean' => clean /\ CopesWith(got, got')
         /\ Len(buf') = IF Len(buf) > nr' THEN Len(buf) ELSE nr'
         /\ \A k \in 1 .. nr' : buf'[k] = IF k >= at THEN answer[got + k - at + 1] ELSE Buf(k)
  <1>1. PICK n \in got + 1 .. Len(answer) :
          LET upto == at - 1 + n - got
              last == IF Len(buf) > upto THEN Len(buf) ELSE upto
          IN /\ buf' = [k \in 1 .. last |->
                           IF k \in at .. upto THEN answer[got + k - at + 1] ELSE Buf(k)]
             /\ nr' = upto
             /\ got' = n /\ clean' = (clean /\ CopesWith(got, n))
             /\ pc' = next
             /\ UNCHANGED <<answer, i, len, success>>
    BY DEF Read, Goto
  <1> DEFINE upto == at - 1 + n - got
             last == IF Len(buf) > upto THEN Len(buf) ELSE upto
             T == Tokens
             e(k) == IF k \in at .. upto THEN answer[got + k - at + 1] ELSE Buf(k)
  <1>2. /\ got \in Nat /\ n \in Nat /\ upto \in Nat /\ Len(buf) \in Nat
        /\ last \in Nat /\ upto <= last /\ Len(answer) \in Nat
    BY DEF StatusType
  <1>3. ASSUME NEW k \in 1 .. last PROVE e(k) \in T
    <2>1. Buf(k) \in T
      BY DEF Buf, StatusType, Tokens, Texts
    <2>2. CASE k \in at .. upto
      <3>1. got + k - at + 1 \in 1 .. Len(answer)
        BY <1>2, <2>2
      <3> QED BY <2>2, <3>1 DEF StatusType
    <2> QED BY <2>1, <2>2
  <1>4. buf' = [k \in 1 .. last |-> e(k)]
    BY <1>1
  <1> HIDE DEF e
  <1>5. buf' \in Seq(T) /\ Len(buf') = last
    BY <1>2, <1>3, <1>4
  <1>6. \A k \in 1 .. upto : buf'[k] = e(k)
    BY <1>2, <1>4
  <1>7. StatusType'
    BY <1>1, <1>2, <1>5 DEF StatusType
  <1>8. \A k \in 1 .. upto : buf'[k] = IF k >= at THEN answer[got + k - at + 1] ELSE Buf(k)
    <2> SUFFICES ASSUME NEW k \in 1 .. upto
                 PROVE  buf'[k] = IF k >= at THEN answer[got + k - at + 1] ELSE Buf(k)
      OBVIOUS
    <2> HIDE DEF upto
    <2>1. k \in at .. upto <=> k >= at
      BY <1>2
    <2>2. buf'[k] = IF k \in at .. upto THEN answer[got + k - at + 1] ELSE Buf(k)
      BY <1>6 DEF e
    <2> QED BY <2>1, <2>2
  <1>9. nr' = upto /\ got' = n
    BY <1>1
  <1> HIDE DEF e, last, upto
  <1>10. Len(buf') = IF Len(buf) > nr' THEN Len(buf) ELSE nr'
    BY <1>5, <1>9 DEF last
  <1> QED BY <1>1, <1>7, <1>8, <1>9, <1>10 DEF upto

(* Where there is a read, the next piece comes or the parser gives up.     *)
LEMMA PieceOrEnd ==
  ASSUME StatusType, NEW at \in Nat \ {0}, NEW next \in Steps, ReadMore(at, next)
  PROVE  StatusType'
  <1>1. CASE Read(at, next)
    BY <1>1, Piece
  <1>2. CASE TooLate
    BY <1>2 DEF TooLate, StatusType, Done, Goto, Steps
  <1> QED BY <1>1, <1>2 DEF ReadMore

LEMMA StatusInit == Init => StatusType
  <1> SUFFICES ASSUME Init PROVE StatusType
    OBVIOUS
  <1>1. answer \in Answers /\ answer \in Seq(Tokens) /\ Len(answer) \in Nat
    BY AnswersAssumption DEF Init
  <1>2. buf \in Seq(Tokens) /\ pc \in Steps
    BY AnswersAssumption DEF Init, Steps
  <1>3. got \in 0 .. Len(answer) /\ nr \in Nat /\ i \in Nat \ {0}
    BY <1>1 DEF Init
  <1> QED BY <1>1, <1>2, <1>3 DEF Init, StatusType

LEMMA StatusStep ==
  ASSUME StatusType, [Next]_vars
  PROVE  StatusType'
  <1> USE DEF Goto, Done
  <1>1. CASE ReadAnswer
    BY <1>1, PieceOrEnd DEF ReadAnswer, Steps
  <1>2. CASE MoreForName \/ MoreForEnd \/ MoreForBody
    BY <1>2, PieceOrEnd DEF MoreForName, MoreForEnd, MoreForBody, Steps, StatusType
  <1>3. CASE ReadBody
    <2>1. CASE ReadMore(i, "parse")
      BY <2>1, PieceOrEnd DEF Steps, StatusType
    <2>2. CASE UNCHANGED <<answer, got, buf, nr, i, len, success, clean>> /\ pc' = "parse"
      BY <2>2 DEF StatusType, Steps
    <2> QED BY <1>3, <2>1, <2>2 DEF ReadBody
  <1>4. CASE StatusLine
    <2>1. UNCHANGED <<answer, got, buf, nr, len, clean>>
      BY <1>4 DEF StatusLine
    <2>2. \/ pc' = "read" /\ UNCHANGED <<i, success>>
          \/ pc' = "done" /\ success' = FALSE /\ i' = i
          \/ pc' = "length" /\ i' = 2 /\ success' = success
      BY <1>4 DEF StatusLine
    <2>3. CASE pc' = "read" /\ UNCHANGED <<i, success>>
      BY <2>1, <2>3 DEF StatusType, Steps
    <2>4. CASE pc' = "done" /\ success' = FALSE /\ i' = i
      BY <2>1, <2>4 DEF StatusType, Steps
    <2>5. CASE pc' = "length" /\ i' = 2 /\ success' = success
      BY <2>1, <2>5 DEF StatusType, Steps
    <2> QED BY <2>2, <2>3, <2>4, <2>5
  <1>5. CASE SkipToName \/ ContentLength \/ HeaderEnd \/ Spin
    BY <1>5 DEF SkipToName, ContentLength, HeaderEnd, Spin, vars, StatusType, Steps
  <1>6. CASE Parse
    <2>1. success' = (Buf(i + 1) = "mine" /\ Buf(i) \in {"good", "attr"})
      BY <1>6 DEF Parse
    <2>2. success' \in BOOLEAN
      BY <2>1, Zenon
    <2>3. pc' = "done" /\ UNCHANGED <<answer, got, buf, nr, i, len, clean>>
      BY <1>6 DEF Parse
    <2> QED BY <2>2, <2>3 DEF StatusType, Steps
  <1>7. CASE UNCHANGED vars
    BY <1>7 DEF vars, StatusType
  <1> QED BY <1>1, <1>2, <1>3, <1>4, <1>5, <1>6, <1>7 DEF Next

-----------------------------------------------------------------------------
(* The layout of a regular answer with a Content-Length: its name at m,    *)
(* the blank line behind it at e.                                          *)
Layout(a, m, e) ==
  /\ m > InfoEnd(a) + 1 /\ m \in 1 .. Len(a) /\ e \in m + 3 .. Len(a) - 2
  /\ \A n \in 1 .. Len(a) : a[n] = "name1" <=> n = m
  /\ \A n \in m + 3 .. Len(a) - 2 : BlankAt(a, n) <=> n = e
  /\ a[m + 1] = "name2" /\ a[m + 2] = "value"
  /\ Body(a) = Len(a) - e - 2 /\ HeaderLen(a) = e + 2
  /\ Body(a) # 1 /\ (Body(a) > 0 => a[e + 3] # "attr")

(* What the parser knows of an answer whose pieces it copes with.  What    *)
(* was read behind the message that informs is at the front of the buffer; *)
(* what lies behind it is old.                                             *)
Informs == InfoEnd(answer)
Cut     == got \in {Len(answer), HeaderLen(answer)} \/ ~Named(answer, got)
Held ==
  /\ got >= Informs /\ Len(buf) >= got - Informs
  /\ \A k \in 1 .. got - Informs : buf[k] = answer[Informs + k]
Copied    == Held /\ got > Informs /\ nr = got - Informs /\ Cut
Taken     == Copied /\ answer[Informs + 1] = "ok"
Searching == Taken /\ i \in 2 .. nr + 1 /\ ~Named(answer, Informs + i - 1)
InHeader ==
  /\ Taken /\ got \in {Len(answer), HeaderLen(answer)} /\ len = Body(answer)
  /\ \E m, e \in 1 .. Len(answer) :
       Layout(answer, m, e) /\ i \in m + 3 - Informs .. e - Informs
AtBody ==
  /\ Taken /\ len = Body(answer) /\ i = HeaderLen(answer) + 1 - Informs
  /\ \E m, e \in 1 .. Len(answer) : Layout(answer, m, e)

Follows ==
  /\ pc = "read" => (got = Informs /\ Held) \/ (Informs = 4 /\ got = 0)
  /\ pc = "line" => Copied \/ (got = Informs /\ Held /\ buf[1] = "info")
  /\ pc \in {"length", "more.length", "name"} => Searching
  /\ pc = "more.length" => i = nr + 1
  /\ pc = "name" => i <= nr
  /\ pc \notin {"more.value", "spin"}
  /\ pc = "end" => InHeader
  /\ pc \in {"more.end", "body", "parse"} => AtBody
  /\ pc = "more.end" => got = HeaderLen(answer)
  /\ pc \in {"body", "parse"} => got = Len(answer) /\ HeaderLen(answer) < Len(answer)
  /\ pc = "done" => (success <=> Accepted(answer) /\ got = Len(answer))
FollowsInv == clean => Follows

-----------------------------------------------------------------------------
(* What regularity says of the place of each token.                        *)
LEMMA Shape ==
  ASSUME NEW a \in Seq(Tokens), Regular(a)
  PROVE  /\ Len(a) \in Nat /\ InfoEnd(a) \in {0, 4} /\ InfoEnd(a) < Len(a)
         /\ a[InfoEnd(a) + 1] \in {"ok", "error"}
         /\ InfoEnd(a) = 4 => a[1] = "info"
         /\ \A n \in 1 .. Len(a) : a[n] = "ok" => n = InfoEnd(a) + 1
         /\ Accepted(a) => Named(a, Len(a))
  BY DEF Regular, InfoEnd

LEMMA Layouts ==
  ASSUME NEW a \in Seq(Tokens), Regular(a), NEW m \in 1 .. Len(a), a[m] = "name1"
  PROVE  \E e \in 1 .. Len(a) : Layout(a, m, e)
  <1> DEFINE Ends(e, n) == SubSeq(a, n, n + 2) = <<"nl", "cr", "nl">> <=> n = e
  <1>0. Len(a) \in Nat /\ InfoEnd(a) \in Nat
    BY DEF InfoEnd
  <1>1. /\ m > InfoEnd(a) + 1 /\ \A n \in 1 .. Len(a) : a[n] = "name1" => n = m
        /\ \E e \in m + 3 .. Len(a) - 2 : \A n \in m + 3 .. Len(a) - 2 : Ends(e, n)
        /\ a[m + 1] = "name2" /\ a[m + 2] = "value"
        /\ Body(a) # 1 /\ (Body(a) > 0 => a[HeaderLen(a) + 1] # "attr")
    BY DEF Regular
  <1>2. PICK e \in m + 3 .. Len(a) - 2 : \A n \in m + 3 .. Len(a) - 2 : Ends(e, n)
    BY <1>1
  <1>3. \A n \in m + 3 .. Len(a) - 2 : BlankAt(a, n) <=> n = e
    BY <1>0, <1>2, BlankLines
  <1> HIDE DEF Ends
  <1>4. e \in 1 .. Len(a) - 2 /\ BlankAt(a, e)
    BY <1>0, <1>3
  <1>5. \A n \in e + 1 .. Len(a) - 2 : ~BlankAt(a, n)
    BY <1>0, <1>3
  <1>6. Body(a) = Len(a) - e - 2 /\ HeaderLen(a) = e + 2
    BY <1>4, <1>5, BodyIs
  <1>7. HeaderLen(a) + 1 = e + 3
    BY <1>0, <1>6
  <1>8. Body(a) > 0 => a[e + 3] # "attr"
    BY <1>1, <1>7
  <1>9. Layout(a, m, e)
    BY <1>1, <1>3, <1>6, <1>8, <1>0 DEF Layout
  <1> QED BY <1>0, <1>9

(* A piece put where the last one ended leaves the buffer with all of the  *)
(* answer that has been read.                                              *)
LEMMA CopiedOn ==
  ASSUME StatusType, Regular(answer), Held, NEW next \in Steps,
         Read(got - Informs + 1, next), clean'
  PROVE  /\ Copied' /\ pc' = next /\ UNCHANGED <<answer, i, len, success>>
         /\ clean /\ nr' > got - Informs /\ nr' \in Nat /\ StatusType' /\ Informs' = Informs
         /\ answer[Informs + 1] = "ok" => (answer[Informs + 1] = "ok")'
  <1> DEFINE at == got - Informs + 1
  <1>0. /\ got \in Nat /\ Informs \in {0, 4} /\ got >= Informs /\ at \in Nat \ {0}
        /\ Len(answer) \in Nat /\ Len(buf) \in Nat /\ got <= Len(answer)
    BY Shape DEF StatusType, Held, Informs
  <1>1. /\ StatusType' /\ pc' = next /\ UNCHANGED <<answer, i, len, success>>
        /\ got' \in got + 1 .. Len(answer) /\ nr' = at - 1 + got' - got
        /\ clean /\ CopesWith(got, got')
        /\ Len(buf') = IF Len(buf) > nr' THEN Len(buf) ELSE nr'
        /\ \A k \in 1 .. nr' : buf'[k] = IF k >= at THEN answer[got + k - at + 1] ELSE Buf(k)
    BY <1>0, Piece
  <1> HIDE DEF at
  <1>2. nr' = got' - Informs /\ got' > Informs /\ got' \in Nat /\ at = got - Informs + 1
    <2>1. got' \in got + 1 .. Len(answer) /\ nr' = at - 1 + got' - got /\ at = got - Informs + 1
      BY <1>1 DEF at
    <2> QED BY <1>0, <2>1
  <1>3. \A k \in 1 .. nr' : buf'[k] = answer[Informs + k]
    <2> SUFFICES ASSUME NEW k \in 1 .. nr' PROVE buf'[k] = answer[Informs + k]
      OBVIOUS
    <2>1. CASE k >= at
      <3>1. got + k - at + 1 = Informs + k
        BY <1>0, <1>2
      <3> QED BY <1>1, <2>1, <3>1
    <2>2. CASE ~(k >= at)
      <3>1. k \in 1 .. got - Informs /\ k \in 1 .. Len(buf)
        BY <1>0, <1>2, <2>2 DEF Held
      <3> QED BY <1>1, <2>2, <3>1 DEF Held, Buf
    <2> QED BY <2>1, <2>2
  <1>10. nr' > got - Informs /\ nr' \in Nat
    BY <1>0, <1>1, <1>2
  <1>4. Len(buf') >= nr'
    <2>1. Len(buf') = IF Len(buf) > nr' THEN Len(buf) ELSE nr'
      BY <1>1
    <2> QED BY <1>0, <1>10, <2>1
  <1>5. got' \in {Len(answer), HeaderLen(answer)} \/ ~Named(answer, got')
    <2>1. CopesWith(got, got')
      BY <1>1
    <2>2. got' # Informs
      <3>1. got' \in Nat /\ Informs \in Nat /\ got' > Informs
        BY <1>0, <1>2
      <3> QED BY <3>1
    <2> QED BY <2>1, <2>2 DEF CopesWith, Informs
  <1>6. Informs' = Informs /\ answer' = answer
    BY <1>1 DEF Informs
  <1>8. Held'
    <2>1. got' >= Informs' /\ got' - Informs' = nr'
      BY <1>0, <1>2, <1>6
    <2>2. \A k \in 1 .. got' - Informs' : buf'[k] = answer'[Informs' + k]
      BY <1>3, <1>6, <2>1
    <2> QED BY <1>4, <2>1, <2>2 DEF Held
  <1>7. Cut'
    BY <1>1, <1>5 DEF Cut
  <1>9. Copied'
    BY <1>2, <1>6, <1>7, <1>8 DEF Copied
  <1> QED BY <1>1, <1>6, <1>9, <1>10

(* What the buffer holds of the answer.                                    *)
LEMMA InBuffer ==
  ASSUME StatusType, Regular(answer), Copied
  PROVE  /\ Informs \in {0, 4} /\ got \in Nat /\ nr \in Nat /\ nr = got - Informs
         /\ got <= Len(answer) /\ Len(answer) \in Nat /\ nr >= 1
         /\ \A k \in 1 .. nr : buf[k] = answer[Informs + k] /\ Buf(k) = answer[Informs + k]
  <1>1. /\ Informs \in {0, 4} /\ got \in Nat /\ nr \in Nat /\ nr = got - Informs /\ nr >= 1
        /\ got <= Len(answer) /\ Len(answer) \in Nat /\ Len(buf) \in Nat /\ Len(buf) >= nr
    BY Shape DEF StatusType, Copied, Held, Informs
  <1>2. \A k \in 1 .. nr : buf[k] = answer[Informs + k]
    BY <1>1 DEF Copied, Held
  <1>3. \A k \in 1 .. nr : k \in 1 .. Len(buf)
    BY <1>1
  <1> QED BY <1>1, <1>2, <1>3 DEF Buf

(* Until the name Content-Length has been met, every token up to the next  *)
(* one is another.                                                         *)
LEMMA NotNamed ==
  ASSUME NEW a \in Seq(Tokens), NEW n \in Nat, n < Len(a), ~Named(a, n), a[n + 1] # "name1"
  PROVE  ~Named(a, n + 1)
  BY DEF Named

(* Each step keeps what the parser knows: the first piece,                 *)
LEMMA FollowsReadAnswer ==
  ASSUME StatusType, Regular(answer), FollowsInv, ReadAnswer
  PROVE  FollowsInv'
  <1> SUFFICES ASSUME clean' PROVE Follows'
    BY DEF FollowsInv
  <1>0. /\ got \in Nat /\ Informs \in {0, 4} /\ Informs < Len(answer) /\ pc = "read"
        /\ Len(answer) \in Nat /\ Informs = 4 => answer[1] = "info"
    BY Shape DEF StatusType, Informs, ReadAnswer
  <1>1. CASE Read(1, "line")
    <2>1. /\ clean /\ got' \in got + 1 .. Len(answer) /\ UNCHANGED <<answer, i, len, success>>
          /\ pc' = "line" /\ nr' = got' - got /\ CopesWith(got, got')
          /\ Len(buf') = IF Len(buf) > nr' THEN Len(buf) ELSE nr'
          /\ \A k \in 1 .. nr' : buf'[k] = answer[got + k]
      <3>1. \A k \in Nat : got + k - 1 + 1 = got + k
        BY <1>0
      <3>2. 1 - 1 + got' - got = got' - got
        BY <1>0, <1>1, Piece DEF Steps
      <3>3. /\ clean /\ got' \in got + 1 .. Len(answer) /\ UNCHANGED <<answer, i, len, success>>
            /\ pc' = "line" /\ nr' = 1 - 1 + got' - got /\ CopesWith(got, got')
            /\ Len(buf') = IF Len(buf) > nr' THEN Len(buf) ELSE nr'
            /\ \A k \in 1 .. nr' : buf'[k] = IF k >= 1 THEN answer[got + k - 1 + 1] ELSE Buf(k)
        BY <1>1, Piece DEF Steps
      <3>4. nr' = got' - got
        BY <3>2, <3>3
      <3>5. \A k \in 1 .. nr' : buf'[k] = answer[got + k]
        <4>1. \A k \in 1 .. nr' : k >= 1 /\ got + k - 1 + 1 = got + k
          BY <1>0, <3>3, <3>4
        <4> QED BY <3>3, <4>1
      <3> QED BY <3>3, <3>4, <3>5
    <2>2. CASE got = Informs /\ Held
      <3>1. got - Informs + 1 = 1
        BY <1>0, <2>2
      <3>2. Copied'
        BY <1>1, <2>2, <3>1, CopiedOn DEF Steps
      <3> QED BY <2>1, <3>2 DEF Follows
    <2>3. CASE Informs = 4 /\ got = 0
      <3>1. got' = 4
        BY <2>1, <2>3 DEF CopesWith, Informs
      <3>2. nr' = 4 /\ Len(buf') \in Nat /\ \A k \in 1 .. 4 : buf'[k] = answer[k]
        <4>1. nr' = 4 /\ Len(buf) \in Nat
          BY <2>1, <2>3, <3>1 DEF StatusType
        <4>2. Len(buf') \in Nat
          BY <2>1, <4>1
        <4>3. \A k \in 1 .. 4 : got + k = k
          BY <2>3
        <4> QED BY <2>1, <4>1, <4>2, <4>3
      <3>3. Informs' = Informs
        BY <2>1 DEF Informs
      <3>4. got' - Informs' = 0 /\ 0 <= Len(buf')
        BY <3>1, <3>2, <3>3, <2>3
      <3>5. Held'
        BY <3>1, <3>2, <3>3, <3>4, <2>3 DEF Held
      <3>6. buf'[1] = "info"
        BY <1>0, <2>3, <3>2
      <3> QED BY <2>1, <2>3, <3>1, <3>3, <3>5, <3>6 DEF Follows
    <2> QED BY <1>0, <2>1, <2>2, <2>3 DEF Follows, FollowsInv
  <1>2. CASE TooLate
    <2>1. got # Len(answer)
      BY <1>0, <1>2 DEF Follows, FollowsInv, TooLate
    <2> QED BY <1>2, <2>1 DEF Follows, TooLate, Done, Goto
  <1> QED BY <1>1, <1>2 DEF ReadAnswer, ReadMore

(* the status line,                                                        *)
LEMMA FollowsStatusLine ==
  ASSUME StatusType, Regular(answer), FollowsInv, StatusLine
  PROVE  FollowsInv'
  <1> SUFFICES ASSUME clean' PROVE Follows'
    BY DEF FollowsInv
  <1>1. /\ pc = "line" /\ clean /\ UNCHANGED <<answer, got, buf, nr, len>>
        /\ Copied \/ (got = Informs /\ Held /\ buf[1] = "info")
    BY DEF StatusLine, FollowsInv, Follows
  <1>2. /\ answer[Informs + 1] \in {"ok", "error"}
        /\ \A n \in 1 .. Len(answer) : answer[n] = "ok" => n = Informs + 1
        /\ Informs \in {0, 4} /\ Informs < Len(answer) /\ Len(answer) \in Nat
    BY Shape DEF StatusType, Informs
  <1>3. /\ Informs' = Informs /\ Held' = Held /\ Copied' = Copied
        /\ (answer[Informs + 1] = "ok")' = (answer[Informs + 1] = "ok")
    BY <1>1 DEF Informs, Held, Copied, Cut
  <1>4. CASE ~Copied
    <2>1. pc' = "read"
      BY <1>1, <1>4 DEF StatusLine, Goto, Done
    <2> QED BY <1>1, <1>3, <1>4, <2>1 DEF Follows
  <1>5. CASE Copied
    <2>1. buf[1] = answer[Informs + 1] /\ nr \in Nat /\ nr >= 1
      BY <1>5, InBuffer
    <2>2. CASE buf[1] = "error"
      <3>1. pc' = "done" /\ success' = FALSE
        BY <1>2, <2>1, <2>2 DEF StatusLine, Goto, Done
      <3>2. ~Accepted(answer)
        BY <1>2, <2>1, <2>2 DEF Accepted
      <3>3. ~Accepted(answer')
        BY <1>1, <3>2
      <3> QED BY <3>1, <3>3 DEF Follows
    <2>3. CASE buf[1] = "ok"
      <3>1. pc' = "length" /\ i' = 2 /\ nr' = nr
        BY <1>1, <2>3 DEF StatusLine, Goto, Done
      <3>2. ~Named(answer, Informs + 1)
        <4>1. answer[Informs + 1] = "ok"
          BY <2>1, <2>3
        <4>2. \A k \in 1 .. Informs + 1 : answer[k] # "name1"
          <5>1. ASSUME NEW m \in 1 .. Informs + 1, answer[m] = "name1" PROVE FALSE
            <6>1. m \in 1 .. Len(answer)
              BY <1>2
            <6>2. m > Informs + 1
              BY <5>1, <6>1 DEF Regular, Informs
            <6> QED BY <1>2, <6>2
          <5> QED BY <5>1
        <4> QED BY <4>2 DEF Named
      <3>3. Informs + i' - 1 = Informs + 1
        BY <1>2, <3>1
      <3>4. ~Named(answer', Informs' + i' - 1)
        BY <1>1, <1>3, <3>2, <3>3
      <3>5. i' \in 2 .. nr' + 1
        BY <2>1, <3>1
      <3>6. Searching'
        BY <1>1, <1>3, <1>5, <2>1, <2>3, <3>4, <3>5 DEF Searching, Taken
      <3> QED BY <3>1, <3>6 DEF Follows
    <2> QED BY <1>2, <2>1, <2>2, <2>3
  <1> QED BY <1>4, <1>5

(* The search for the name has found neither it nor the end of the buffer. *)
LEMMA SearchesOn ==
  ASSUME StatusType, Regular(answer), Searching, i <= nr, Buf(i) # "name1",
         UNCHANGED <<answer, got, buf, nr>>, i' = i + 1
  PROVE  Searching'
  <1>1. /\ Informs \in {0, 4} /\ got \in Nat /\ nr \in Nat /\ nr = got - Informs
        /\ got <= Len(answer) /\ Len(answer) \in Nat
        /\ \A k \in 1 .. nr : Buf(k) = answer[Informs + k]
        /\ i \in 2 .. nr + 1 /\ ~Named(answer, Informs + i - 1)
    BY InBuffer DEF Searching, Taken
  <1>2. i \in 1 .. nr /\ i \in Nat /\ Informs \in Nat
    BY <1>1
  <1>3. answer[Informs + i] # "name1"
    BY <1>1, <1>2
  <1>4. Informs + i - 1 \in Nat /\ Informs + i - 1 < Len(answer) /\ Informs + i - 1 + 1 = Informs + i
    BY <1>1, <1>2
  <1>5. ~Named(answer, Informs + i)
    BY <1>1, <1>3, <1>4, NotNamed DEF StatusType
  <1>6. Informs' = Informs /\ Taken' = Taken
    BY DEF Informs, Taken, Copied, Held, Cut
  <1>7. Informs' + i' - 1 = Informs + i /\ i' \in 2 .. nr' + 1
    BY <1>1, <1>2, <1>6
  <1> QED BY <1>5, <1>6, <1>7 DEF Searching

(* the search for Content-Length,                                          *)
LEMMA FollowsSkipToName ==
  ASSUME StatusType, Regular(answer), FollowsInv, SkipToName
  PROVE  FollowsInv'
  <1> SUFFICES ASSUME clean' PROVE Follows'
    BY DEF FollowsInv
  <1>1. pc = "length" /\ Searching /\ UNCHANGED <<answer, got, buf, nr, len, success, clean>>
    BY DEF SkipToName, FollowsInv, Follows
  <1>2. i \in Nat /\ nr \in Nat /\ i <= nr + 1 /\ i >= 1 /\ (i <= nr => Buf(i) = buf[i])
    BY <1>1, InBuffer DEF Searching, Taken
  <1>3. CASE i <= nr /\ buf[i] # "name1" /\ i' = i + 1 /\ UNCHANGED pc
    BY <1>1, <1>2, <1>3, SearchesOn DEF Follows
  <1>4. CASE i' = i
    <2>1. Searching'
      BY <1>1, <1>4 DEF Searching, Taken, Copied, Held, Cut, Informs
    <2>2. (pc' = "name" /\ i' <= nr') \/ (pc' = "more.length" /\ i' = nr' + 1)
      BY <1>1, <1>2, <1>4 DEF SkipToName, Goto
    <2> QED BY <2>1, <2>2 DEF Follows
  <1> QED BY <1>3, <1>4 DEF SkipToName

(* the next piece of the header: if there is none, there was no            *)
(* Content-Length,                                                         *)
LEMMA FollowsMoreForName ==
  ASSUME StatusType, Regular(answer), FollowsInv, MoreForName
  PROVE  FollowsInv'
  <1> SUFFICES ASSUME clean' PROVE Follows'
    BY DEF FollowsInv
  <1>1. pc = "more.length" /\ ReadMore(i, "name")
    BY DEF MoreForName
  <1>2. CASE Read(i, "name")
    <2>0. clean
      BY <1>2 DEF Read
    <2>1. Searching /\ i = nr + 1
      BY <1>1, <2>0 DEF FollowsInv, Follows
    <2>2. Held /\ nr = got - Informs /\ nr \in Nat /\ answer[Informs + 1] = "ok"
      BY <2>1, InBuffer DEF Searching, Taken, Copied
    <2>3. i = got - Informs + 1
      BY <2>1, <2>2
    <2>4. /\ Copied' /\ pc' = "name" /\ UNCHANGED <<answer, i, len, success>>
          /\ nr' > nr /\ nr' \in Nat /\ Informs' = Informs
          /\ (answer[Informs + 1] = "ok")'
      BY <1>2, <2>2, <2>3, CopiedOn DEF Steps
    <2>5. i' \in 2 .. nr' + 1 /\ i' <= nr'
      BY <2>1, <2>2, <2>4 DEF Searching
    <2>6. Searching'
      BY <2>1, <2>4, <2>5 DEF Searching, Taken
    <2> QED BY <2>4, <2>5, <2>6 DEF Follows
  <1>3. CASE TooLate /\ got # Len(answer)
    BY <1>3 DEF Follows, TooLate, Done, Goto
  <1>4. CASE TooLate /\ got = Len(answer)
    <2>1. Searching /\ i = nr + 1
      BY <1>1, <1>4 DEF FollowsInv, Follows, TooLate
    <2>2. Informs + i - 1 = Len(answer)
      BY <1>4, <2>1, InBuffer DEF Searching, Taken
    <2>3. ~Accepted(answer)
      BY <2>1, <2>2, Shape DEF Searching, StatusType
    <2>4. ~Accepted(answer')
      BY <1>4, <2>3 DEF TooLate
    <2> QED BY <1>4, <2>4 DEF Follows, TooLate, Done, Goto
  <1> QED BY <1>1, <1>2, <1>3, <1>4 DEF ReadMore

(* Where the name Content-Length is read, all of it has come, and the      *)
(* header as well.                                                         *)
LEMMA AtName ==
  ASSUME StatusType, Regular(answer), Searching, i <= nr, Buf(i) = "name1"
  PROVE  /\ Buf(i + 1) = "name2" /\ Buf(i + 2) = "value" /\ i + 3 <= nr
         /\ got \in {Len(answer), HeaderLen(answer)}
         /\ \E m, e \in 1 .. Len(answer) :
              Layout(answer, m, e) /\ i + 3 \in m + 3 - Informs .. e - Informs
  <1>1. /\ Informs \in {0, 4} /\ Informs \in Nat /\ got \in Nat /\ nr \in Nat /\ nr = got - Informs
        /\ got <= Len(answer) /\ Len(answer) \in Nat
        /\ \A k \in 1 .. nr : Buf(k) = answer[Informs + k]
        /\ i \in Nat /\ i \in 1 .. nr
    BY InBuffer DEF Searching, Taken
  <1> DEFINE m == Informs + i
  <1>2. m \in 1 .. Len(answer) /\ m \in Nat /\ m <= got /\ answer[m] = "name1"
    BY <1>1
  <1> HIDE DEF m
  <1>3. PICK e \in 1 .. Len(answer) : Layout(answer, m, e)
    BY <1>2, Layouts DEF StatusType
  <1>4. /\ e \in m + 3 .. Len(answer) - 2 /\ HeaderLen(answer) = e + 2 /\ e \in Nat
        /\ answer[m + 1] = "name2" /\ answer[m + 2] = "value"
    BY <1>1, <1>3 DEF Layout
  <1>5. got \in {Len(answer), HeaderLen(answer)}
    <2>1. Named(answer, got)
      BY <1>1, <1>2 DEF Named
    <2> QED BY <2>1 DEF Searching, Taken, Copied, Cut
  <1>6. m + 5 <= got
    BY <1>1, <1>2, <1>4, <1>5
  <1>7. i + 5 <= nr /\ m + 1 = Informs + (i + 1) /\ m + 2 = Informs + (i + 2)
        /\ i + 1 \in 1 .. nr /\ i + 2 \in 1 .. nr /\ i + 3 <= nr
    BY <1>1, <1>6 DEF m
  <1>8. i + 3 \in m + 3 - Informs .. e - Informs
    BY <1>1, <1>2, <1>4 DEF m
  <1> QED BY <1>1, <1>2, <1>3, <1>4, <1>5, <1>7, <1>8

(* the name and its value,                                                 *)
LEMMA FollowsContentLength ==
  ASSUME StatusType, Regular(answer), FollowsInv, ContentLength
  PROVE  FollowsInv'
  <1> SUFFICES ASSUME clean' PROVE Follows'
    BY DEF FollowsInv
  <1>1. pc = "name" /\ Searching /\ i <= nr /\ UNCHANGED <<answer, got, buf, nr, success, clean>>
    BY DEF ContentLength, FollowsInv, Follows
  <1>2. i \in Nat /\ nr \in Nat
    BY <1>1, InBuffer DEF Searching, Taken
  <1>3. CASE Buf(i) = "name1"
    <2>1. /\ Buf(i + 1) = "name2" /\ Buf(i + 2) = "value" /\ i + 3 <= nr
          /\ got \in {Len(answer), HeaderLen(answer)}
          /\ \E m, e \in 1 .. Len(answer) :
               Layout(answer, m, e) /\ i + 3 \in m + 3 - Informs .. e - Informs
      BY <1>1, <1>3, AtName
    <2>2. i' = i + 3 /\ len' = Body(answer) /\ pc' = "end"
      BY <1>2, <1>3, <2>1 DEF ContentLength, Goto
    <2>3. Informs' = Informs /\ Taken'
      BY <1>1 DEF Informs, Searching, Taken, Copied, Held, Cut
    <2>4. InHeader'
      BY <1>1, <2>1, <2>2, <2>3 DEF InHeader
    <2> QED BY <2>2, <2>4 DEF Follows
  <1>4. CASE Buf(i) # "name1"
    <2>1. i' = i + 1 /\ pc' = "length"
      BY <1>4 DEF ContentLength, Goto
    <2>2. Searching'
      BY <1>1, <1>4, <2>1, SearchesOn
    <2> QED BY <2>1, <2>2 DEF Follows
  <1> QED BY <1>3, <1>4

(* the end of the header, where the loop never gets stuck,                 *)
LEMMA FollowsHeaderEnd ==
  ASSUME StatusType, Regular(answer), FollowsInv, HeaderEnd
  PROVE  FollowsInv'
  <1> SUFFICES ASSUME clean' PROVE Follows'
    BY DEF FollowsInv
  <1>1. pc = "end" /\ InHeader /\ UNCHANGED <<answer, got, buf, nr, len, success, clean>>
    BY DEF HeaderEnd, FollowsInv, Follows
  <1>2. /\ Informs \in {0, 4} /\ Informs \in Nat /\ got \in Nat /\ nr \in Nat /\ nr = got - Informs
        /\ got <= Len(answer) /\ Len(answer) \in Nat /\ i \in Nat
        /\ \A k \in 1 .. nr : Buf(k) = answer[Informs + k]
    BY <1>1, InBuffer DEF InHeader, Taken, StatusType
  <1>3. PICK m, e \in 1 .. Len(answer) : Layout(answer, m, e) /\ i \in m + 3 - Informs .. e - Informs
    BY <1>1 DEF InHeader
  <1>4. /\ e \in m + 3 .. Len(answer) - 2 /\ HeaderLen(answer) = e + 2 /\ m \in Nat /\ e \in Nat
        /\ m > Informs + 1
        /\ \A n \in m + 3 .. Len(answer) - 2 : BlankAt(answer, n) <=> n = e
    BY <1>2, <1>3 DEF Layout, Informs
  <1>5. got \in {Len(answer), HeaderLen(answer)}
    BY <1>1 DEF InHeader
  <1>6. /\ i + 2 <= nr /\ i \in 1 .. nr /\ i + 1 \in 1 .. nr /\ i + 2 \in 1 .. nr
        /\ Informs + i \in m + 3 .. Len(answer) - 2 /\ Informs + i <= e
        /\ Informs + (i + 1) = Informs + i + 1 /\ Informs + (i + 2) = Informs + i + 2
    BY <1>2, <1>3, <1>4, <1>5
  <1>7. BlankLine(i) <=> Informs + i = e
    <2>1. BlankLine(i) <=> BlankAt(answer, Informs + i)
      BY <1>2, <1>6 DEF BlankLine, BlankAt
    <2> QED BY <1>4, <1>6, <2>1
  <1>8. Informs' = Informs /\ Taken'
    BY <1>1 DEF Informs, InHeader, Taken, Copied, Held, Cut
  <1>9. CASE Informs + i = e
    <2>1. i' = i + 3 /\ pc' = IF i + 3 > nr THEN "more.end" ELSE "body"
      BY <1>2, <1>6, <1>7, <1>9 DEF HeaderEnd, Goto
    <2>2. i' = HeaderLen(answer) + 1 - Informs
      BY <1>2, <1>4, <1>9, <2>1
    <2>3. AtBody'
      BY <1>1, <1>3, <1>8, <2>2 DEF AtBody, InHeader
    <2>4. CASE i + 3 > nr
      <3>1. got = HeaderLen(answer)
        BY <1>2, <1>4, <1>5, <1>9, <2>4
      <3> QED BY <1>1, <2>1, <2>3, <2>4, <3>1 DEF Follows
    <2>5. CASE ~(i + 3 > nr)
      <3>1. got = Len(answer) /\ HeaderLen(answer) < Len(answer)
        BY <1>2, <1>4, <1>5, <1>9, <2>5
      <3> QED BY <1>1, <2>1, <2>3, <2>5, <3>1 DEF Follows
    <2> QED BY <2>4, <2>5
  <1>10. CASE Informs + i # e
    <2>1. i' = i + 1 /\ pc' = "end"
      BY <1>1, <1>2, <1>6, <1>7, <1>10 DEF HeaderEnd, Goto
    <2>2. i' \in m + 3 - Informs' .. e - Informs'
      BY <1>2, <1>3, <1>4, <1>6, <1>8, <1>10, <2>1
    <2>3. InHeader'
      BY <1>1, <1>3, <1>8, <2>2 DEF InHeader
    <2> QED BY <2>1, <2>3 DEF Follows
  <1> QED BY <1>9, <1>10

(* the body, which the next piece must bring as a whole,                   *)
LEMMA FollowsMoreForBody ==
  ASSUME StatusType, Regular(answer), FollowsInv, MoreForBody
  PROVE  FollowsInv'
  <1> SUFFICES ASSUME clean' PROVE Follows'
    BY DEF FollowsInv
  <1>1. pc = "more.end" /\ ReadMore(i, "body") /\ clean
    BY DEF MoreForBody, ReadMore, Read, TooLate
  <1>2. AtBody /\ got = HeaderLen(answer)
    BY <1>1 DEF FollowsInv, Follows
  <1>3. PICK m, e \in 1 .. Len(answer) : Layout(answer, m, e)
    BY <1>2 DEF AtBody
  <1>4. /\ Informs \in {0, 4} /\ Informs \in Nat /\ got \in Nat /\ nr \in Nat /\ nr = got - Informs
        /\ got <= Len(answer) /\ Len(answer) \in Nat /\ Held /\ answer[Informs + 1] = "ok"
    BY <1>2, InBuffer DEF AtBody, Taken, Copied
  <1>5. /\ HeaderLen(answer) = e + 2 /\ Body(answer) = Len(answer) - e - 2 /\ m \in Nat /\ e \in Nat
        /\ e >= m + 3 /\ answer[m] = "name1" /\ m >= 1
    BY <1>3, <1>4 DEF Layout
  <1>6. CASE Read(i, "body")
    <2>1. i = got - Informs + 1
      BY <1>2, <1>4 DEF AtBody
    <2>2. /\ Copied' /\ pc' = "body" /\ UNCHANGED <<answer, i, len, success>>
          /\ StatusType' /\ Informs' = Informs /\ (answer[Informs + 1] = "ok")'
      BY <1>4, <1>6, <2>1, CopiedOn DEF Steps
    <2>3. got' \in got + 1 .. Len(answer)
      BY <1>6 DEF Read
    <2>4. got' = Len(answer) /\ HeaderLen(answer) < Len(answer)
      <3>1. got' > HeaderLen(answer) /\ got' \in Nat /\ m <= got'
        BY <1>2, <1>4, <1>5, <2>3
      <3>2. Named(answer, got')
        BY <1>5, <3>1 DEF Named
      <3>3. got' \in {Len(answer), HeaderLen(answer)}
        BY <2>2, <3>2 DEF Copied, Cut
      <3> QED BY <1>4, <1>5, <3>1, <3>3
    <2>5. AtBody'
      BY <1>2, <2>2 DEF AtBody, Taken
    <2> QED BY <2>2, <2>4, <2>5 DEF Follows
  <1>7. CASE TooLate /\ got # Len(answer)
    BY <1>7 DEF Follows, TooLate, Done, Goto
  <1>8. CASE TooLate /\ got = Len(answer)
    <2>1. Body(answer) = 0
      BY <1>2, <1>4, <1>5, <1>8
    <2>2. ~Accepted(answer)
      BY <2>1 DEF Accepted
    <2>3. ~Accepted(answer')
      BY <1>8, <2>2 DEF TooLate
    <2> QED BY <1>8, <2>3 DEF Follows, TooLate, Done, Goto
  <1> QED BY <1>1, <1>6, <1>7, <1>8 DEF ReadMore

(* and of which nothing is left to be read,                                *)
LEMMA FollowsReadBody ==
  ASSUME StatusType, Regular(answer), FollowsInv, ReadBody
  PROVE  FollowsInv'
  <1> SUFFICES ASSUME clean' PROVE Follows'
    BY DEF FollowsInv
  <1>1. pc = "body" /\ clean
    BY DEF ReadBody, ReadMore, Read, TooLate
  <1>2. AtBody /\ got = Len(answer) /\ HeaderLen(answer) < Len(answer)
    BY <1>1 DEF FollowsInv, Follows
  <1>3. /\ Informs \in Nat /\ nr = got - Informs /\ Len(answer) \in Nat /\ nr \in Nat
    BY <1>2, InBuffer DEF AtBody, Taken
  <1>4. PICK m, e \in 1 .. Len(answer) : Layout(answer, m, e)
    BY <1>2 DEF AtBody
  <1>5. HeaderLen(answer) = e + 2 /\ Body(answer) = Len(answer) - e - 2 /\ e \in Nat
    BY <1>3, <1>4 DEF Layout
  <1>6. i = e + 3 - Informs /\ len = Len(answer) - e - 2
    BY <1>2, <1>3, <1>5 DEF AtBody
  <1>7. ~(nr - i + 1 < len)
    BY <1>2, <1>3, <1>5, <1>6
  <1>8. pc' = "parse" /\ UNCHANGED <<answer, got, buf, nr, i, len, success, clean>>
    BY <1>7 DEF ReadBody, Goto
  <1>9. AtBody'
    BY <1>2, <1>8 DEF AtBody, Taken, Copied, Held, Cut, Informs
  <1> QED BY <1>2, <1>8, <1>9 DEF Follows

(* and the IPP status and request id, which lie in the body or are missed. *)
LEMMA FollowsParse ==
  ASSUME StatusType, Regular(answer), FollowsInv, Parse
  PROVE  FollowsInv'
  <1> SUFFICES ASSUME clean' PROVE Follows'
    BY DEF FollowsInv
  <1>1. /\ pc = "parse" /\ clean /\ pc' = "done" /\ answer' = answer
        /\ success' = (Buf(i + 1) = "mine" /\ Buf(i) \in {"good", "attr"})
    BY DEF Parse, Done, Goto
  <1>2. AtBody /\ got = Len(answer) /\ HeaderLen(answer) < Len(answer)
    BY <1>1 DEF FollowsInv, Follows
  <1>3. /\ Informs \in {0, 4} /\ Informs \in Nat /\ nr = got - Informs /\ Len(answer) \in Nat /\ nr \in Nat
        /\ \A k \in 1 .. nr : Buf(k) = answer[Informs + k]
        /\ answer[Informs + 1] = "ok" /\ nr >= 1
    BY <1>2, InBuffer DEF AtBody, Taken
  <1>4. PICK m, e \in 1 .. Len(answer) : Layout(answer, m, e)
    BY <1>2 DEF AtBody
  <1>5. /\ HeaderLen(answer) = e + 2 /\ Body(answer) = Len(answer) - e - 2 /\ e \in Nat /\ m \in Nat
        /\ e >= m + 3 /\ m > Informs + 1
        /\ Body(answer) # 1 /\ (Body(answer) > 0 => answer[e + 3] # "attr")
    BY <1>3, <1>4 DEF Layout, Informs
  <1>6. i = e + 3 - Informs
    BY <1>2, <1>3, <1>5 DEF AtBody
  <1>7. /\ i \in 1 .. nr /\ Informs + i = e + 3 /\ i >= 5 /\ i \in Nat /\ Body(answer) > 0
        /\ HeaderLen(answer) + 1 = e + 3 /\ HeaderLen(answer) + 2 = e + 4
    BY <1>2, <1>3, <1>5, <1>6
  <1>8. Buf(i) = answer[e + 3] /\ Buf(i) # "attr"
    BY <1>3, <1>5, <1>7
  <1>9. Accepted(answer) <=> Body(answer) >= 2 /\ answer[e + 3] = "good" /\ answer[e + 4] = "mine"
    <2>1. Informs + 1 \in 1 .. Len(answer)
      BY <1>2, <1>3
    <2> QED BY <1>3, <1>7, <2>1 DEF Accepted
  <1>10. Body(answer) >= 2
    BY <1>3, <1>5, <1>7
  <1>11. i + 1 \in 1 .. nr /\ Informs + (i + 1) = e + 4
    BY <1>2, <1>3, <1>5, <1>6, <1>7, <1>10
  <1>12. Buf(i + 1) = answer[e + 4]
    BY <1>3, <1>11
  <1>13. success' <=> Accepted(answer)
    BY <1>1, <1>8, <1>9, <1>10, <1>12
  <1>14. got' = Len(answer)
    BY <1>2 DEF Parse
  <1> QED BY <1>1, <1>13, <1>14 DEF Follows

(* What the parser knows is never lost, and holds at the start.            *)
LEMMA FollowsStep ==
  ASSUME StatusType, Regular(answer), FollowsInv, [Next]_vars
  PROVE  FollowsInv'
  <1>1. CASE MoreForEnd \/ Spin
    <2>1. pc \in {"more.value", "spin"}
      BY <1>1 DEF MoreForEnd, Spin
    <2>2. ASSUME NEW next, Read(i, next), clean' PROVE clean
      BY <2>2 DEF Read
    <2>3. clean' => clean
      BY <1>1, <2>2 DEF MoreForEnd, Spin, ReadMore, TooLate, vars
    <2> QED BY <2>1, <2>3 DEF FollowsInv, Follows
  <1>2. CASE UNCHANGED vars
    BY <1>2 DEF vars, FollowsInv, Follows, Searching, InHeader, AtBody, Taken, Copied, Held, Cut, Informs
  <1> QED BY <1>1, <1>2, FollowsReadAnswer, FollowsStatusLine, FollowsSkipToName, FollowsMoreForName,
             FollowsContentLength, FollowsHeaderEnd, FollowsMoreForBody, FollowsReadBody, FollowsParse
          DEF Next

LEMMA FollowsInit ==
  ASSUME Init, Regular(answer)
  PROVE  FollowsInv
  <1>1. got = 0 /\ buf \in Seq(Tokens) /\ pc = "read" /\ Informs \in {0, 4}
    BY AnswersAssumption DEF Init, Informs, InfoEnd
  <1>2. CASE Informs = 0
    <2>1. got - Informs = 0 /\ Len(buf) >= 0
      BY <1>1, <1>2
    <2>2. Held
      BY <1>1, <1>2, <2>1 DEF Held
    <2> QED BY <1>1, <1>2, <2>2 DEF FollowsInv, Follows
  <1>3. CASE Informs = 4
    BY <1>1, <1>3 DEF FollowsInv, Follows
  <1> QED BY <1>1, <1>2, <1>3

(* The verdict on a regular answer is right, whatever the pieces that the  *)
(* parser copes with, the time they take and what the memory held before:  *)
(* the job is removed if and only if the printer took it and each piece of *)
(* its answer came in time.                                                *)
THEOREM VerdictIsRight ==
  ASSUME \A a \in Answers : Regular(a)
  PROVE  Spec => []Verdict
  <1> DEFINE Inv == StatusType /\ FollowsInv
  <1>1. Init => Inv
    BY StatusInit, FollowsInit DEF StatusType
  <1>2. Inv /\ [Next]_vars => Inv'
    BY StatusStep, FollowsStep DEF StatusType
  <1>3. Inv => Verdict
    BY DEF FollowsInv, Follows, Verdict
  <1> QED BY <1>1, <1>2, <1>3, PTL DEF Spec
=============================================================================
