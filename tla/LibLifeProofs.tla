--------------------------- MODULE LibLifeProofs ---------------------------
(***************************************************************************)
(* Proofs about start and stop, for any number of threads and instances.   *)
(***************************************************************************)
EXTENDS LibLife, FiniteSetTheorems, SequenceTheorems, TLAPS

-----------------------------------------------------------------------------
(***************************************************************************)
(* Stacks: a step on top of what remains, and the steps that are in one.   *)
(***************************************************************************)

(* A stack with one step more.                                             *)
Push(f, r) == <<f>> \o r

(* The stack has step x for instance i of part p.                          *)
Has(s, x, p, i) == \E k \in DOMAIN s : s[k] = <<x, p, i>>

(* What remains when a thread is done with an object: nothing, the rest of *)
(* tcp_init, or the close of one part or the other.                        *)
Zero    == Push(<<"zero", "wp", 0>>, << >>)
Pool    == Push(<<"check", "wp", 0>>, Zero)
CloseIo == Push(<<"clos", "io", 0>>, << >>)
CloseWp == Push(<<"clos", "wp", 0>>, << >>)

Rests == {<< >>, Zero, Pool, CloseIo, CloseWp}

(* The destructor at its three steps.                                      *)
Last(p, i, r)    == Push(<<"free", p, i>>, r)
Joining(p, i, r) == Push(<<"join", p, i>>, Last(p, i, r))
Whole(p, i, r)   == Push(<<"stop", p, i>>, Joining(p, i, r))

(* What remains of tcp_init after part p.                                  *)
RestOf(p) == IF p = "io" THEN Pool ELSE Zero

AStep == Steps \X Parts \X (0 .. MaxObjs)

LEMMA StepType == \A x \in Steps, p \in Parts, i \in 0 .. MaxObjs : <<x, p, i>> \in AStep
  BY DEF AStep

LEMMA InstType == 0 \in 0 .. MaxObjs /\ Insts \subseteq 0 .. MaxObjs /\ 0 \notin Insts
  BY LibAssumption DEF Insts

(* A short sequence is its first element before the others.                *)
LEMMA ShortOnes ==
  ASSUME NEW S, NEW a \in S, NEW b \in S, NEW c \in S
  PROVE  <<a>> \o <<b>> = <<a, b>> /\ <<a>> \o <<b, c>> = <<a, b, c>>
<1>1. /\ <<a>> \in Seq(S) /\ <<b>> \in Seq(S) /\ <<b, c>> \in Seq(S)
      /\ <<a, b>> \in Seq(S) /\ <<a, b, c>> \in Seq(S)
      /\ Len(<<a>>) = 1 /\ Len(<<b>>) = 1 /\ Len(<<b, c>>) = 2
      /\ Len(<<a, b>>) = 2 /\ Len(<<a, b, c>>) = 3
  OBVIOUS
<1>2. <<a>> \o <<b>> = <<a, b>>
  <2>1. /\ <<a>> \o <<b>> \in Seq(S) /\ Len(<<a>> \o <<b>>) = 2
        /\ \A k \in 1 .. 2 : (<<a>> \o <<b>>)[k] = IF k <= 1 THEN <<a>>[k] ELSE <<b>>[k - 1]
    BY <1>1, ConcatProperties
  <2>2. \A k \in 1 .. 2 : (<<a>> \o <<b>>)[k] = <<a, b>>[k]
    BY <2>1
  <2> QED
    BY <1>1, <2>1, <2>2, SeqEqual
<1>3. <<a>> \o <<b, c>> = <<a, b, c>>
  <2>1. /\ <<a>> \o <<b, c>> \in Seq(S) /\ Len(<<a>> \o <<b, c>>) = 3
        /\ \A k \in 1 .. 3 : (<<a>> \o <<b, c>>)[k] = IF k <= 1 THEN <<a>>[k] ELSE <<b, c>>[k - 1]
    BY <1>1, ConcatProperties
  <2>2. \A k \in 1 .. 3 : (<<a>> \o <<b, c>>)[k] = <<a, b, c>>[k]
    BY <2>1
  <2> QED
    BY <1>1, <2>1, <2>2, SeqEqual
<1> QED
  BY <1>2, <1>3

(* A step on top of a stack: the top, the rest, and the steps in it.       *)
LEMMA PushFacts ==
  ASSUME NEW f \in AStep, NEW r \in Seq(AStep)
  PROVE  /\ Push(f, r) \in Seq(AStep) /\ Push(f, r) # << >>
         /\ Head(Push(f, r)) = f /\ Tail(Push(f, r)) = r
         /\ \A x, p, i : Has(Push(f, r), x, p, i) <=> f = <<x, p, i>> \/ Has(r, x, p, i)
<1> DEFINE s == <<f>> \o r
<1>1. <<f>> \in Seq(AStep) /\ Len(<<f>>) = 1 /\ <<f>>[1] = f
  OBVIOUS
<1>2. /\ s \in Seq(AStep) /\ Len(s) = 1 + Len(r) /\ Len(r) \in Nat
      /\ DOMAIN r = 1 .. Len(r) /\ DOMAIN s = 1 .. Len(s)
      /\ \A k \in 1 .. Len(<<f>>) + Len(r) : s[k] = IF k <= Len(<<f>>) THEN <<f>>[k] ELSE r[k - Len(<<f>>)]
  BY <1>1, ConcatProperties, LenProperties
<1>3. s # << >> /\ s[1] = f /\ \A k \in 1 .. Len(r) : s[k + 1] = r[k]
  BY <1>1, <1>2
<1>4. Head(s) = f /\ Tail(s) = r
  <2>1. Head(s) = s[1]
    BY <1>2, <1>3
  <2>2. /\ Tail(s) \in Seq(AStep) /\ Len(Tail(s)) = Len(s) - 1
        /\ \A k \in 1 .. Len(Tail(s)) : Tail(s)[k] = s[k + 1]
    BY <1>2, <1>3, HeadTailProperties
  <2>3. Len(Tail(s)) = Len(r) /\ \A k \in 1 .. Len(Tail(s)) : Tail(s)[k] = r[k]
    BY <1>2, <1>3, <2>2
  <2>4. Tail(s) = r
    BY <2>2, <2>3, SeqEqual
  <2> QED
    BY <1>3, <2>1, <2>4
<1>5. ASSUME NEW x, NEW p, NEW i
      PROVE  (\E k \in DOMAIN s : s[k] = <<x, p, i>>)
               <=> f = <<x, p, i>> \/ \E k \in DOMAIN r : r[k] = <<x, p, i>>
  <2>1. ASSUME NEW k \in DOMAIN s, s[k] = <<x, p, i>>, k # 1
        PROVE  \E m \in DOMAIN r : r[m] = <<x, p, i>>
    <3>1. k - 1 \in 1 .. Len(r) /\ (k - 1) + 1 = k
      BY <1>2, <2>1
    <3>2. r[k - 1] = s[k]
      BY <1>3, <3>1
    <3> QED
      BY <1>2, <2>1, <3>1, <3>2
  <2>2. ASSUME NEW k \in DOMAIN r, r[k] = <<x, p, i>>
        PROVE  \E m \in DOMAIN s : s[m] = <<x, p, i>>
    <3>1. k + 1 \in DOMAIN s
      BY <1>2
    <3>2. s[k + 1] = r[k]
      BY <1>2, <1>3
    <3> QED
      BY <2>2, <3>1, <3>2
  <2>3. 1 \in DOMAIN s
    BY <1>2
  <2> QED
    BY <1>3, <2>1, <2>2, <2>3
<1> QED
  BY <1>2, <1>3, <1>4, <1>5 DEF Push, Has

LEMMA NoSteps == << >> \in Seq(AStep) /\ \A x, p, i : ~Has(<< >>, x, p, i)
  BY EmptySeq DEF Has

(* A stack that is not empty is its top on its rest.                       *)
LEMMA TopAndRest ==
  ASSUME NEW s \in Seq(AStep), s # << >>
  PROVE  Head(s) \in AStep /\ Tail(s) \in Seq(AStep) /\ s = Push(Head(s), Tail(s))
<1>1. Head(s) \in AStep /\ Tail(s) \in Seq(AStep) /\ s = <<Head(s)>> \o Tail(s)
  <2>1. Head(s) \in AStep /\ Tail(s) \in Seq(AStep)
    BY HeadTailProperties
  <2>2. /\ Push(Head(s), Tail(s)) \in Seq(AStep)
        /\ Len(Push(Head(s), Tail(s))) = 1 + Len(Tail(s))
        /\ \A k \in 1 .. 1 + Len(Tail(s)) :
             Push(Head(s), Tail(s))[k] = IF k <= 1 THEN Head(s) ELSE Tail(s)[k - 1]
    <3>1. <<Head(s)>> \in Seq(AStep) /\ Len(<<Head(s)>>) = 1 /\ <<Head(s)>>[1] = Head(s)
      BY <2>1
    <3>2. /\ <<Head(s)>> \o Tail(s) \in Seq(AStep)
          /\ Len(<<Head(s)>> \o Tail(s)) = Len(<<Head(s)>>) + Len(Tail(s))
          /\ \A k \in 1 .. Len(<<Head(s)>>) + Len(Tail(s)) :
               (<<Head(s)>> \o Tail(s))[k]
                 = IF k <= Len(<<Head(s)>>) THEN <<Head(s)>>[k] ELSE Tail(s)[k - Len(<<Head(s)>>)]
      BY <2>1, <3>1, ConcatProperties
    <3> QED
      BY <3>1, <3>2 DEF Push
  <2>3. /\ Len(Tail(s)) = Len(s) - 1 /\ \A k \in 1 .. Len(Tail(s)) : Tail(s)[k] = s[k + 1]
        /\ Len(s) \in Nat
    BY HeadTailProperties, LenProperties
  <2>4. Head(s) = s[1]
    BY EmptySeq
  <2> HIDE DEF Push
  <2>5. Len(Push(Head(s), Tail(s))) = Len(s)
    BY <2>2, <2>3
  <2>6. \A k \in 1 .. Len(s) : Push(Head(s), Tail(s))[k] = s[k]
    BY <2>2, <2>3, <2>4
  <2>7. Push(Head(s), Tail(s)) = s
    BY <2>2, <2>5, <2>6, SeqEqual
  <2> QED
    BY <2>1, <2>7 DEF Push
<1> QED
  BY <1>1 DEF Push

(* The steps that go on top of a rest.                                     *)
LEMMA OnTop ==
  ASSUME NEW r \in Seq(AStep)
  PROVE  /\ << >> \o r = r
         /\ \A f \in AStep : <<f>> \o r = Push(f, r)
         /\ \A f, g \in AStep : <<f, g>> \o r = Push(f, Push(g, r))
         /\ \A p \in Parts, i \in Insts : Destructor(p, i) \o r = Whole(p, i, r)
<1>1. << >> \o r = r
  BY ConcatEmptySeq
<1>2. \A f, g \in AStep : <<f, g>> \o r = <<f>> \o (<<g>> \o r)
  <2> TAKE f, g \in AStep
  <2>1. <<f>> \in Seq(AStep) /\ <<g>> \in Seq(AStep)
    OBVIOUS
  <2>2. (<<f>> \o <<g>>) \o r = <<f>> \o (<<g>> \o r)
    BY <2>1, ConcatAssociative
  <2>3. <<f>> \o <<g>> = <<f, g>>
    BY ShortOnes
  <2> QED
    BY <2>2, <2>3
<1>3. ASSUME NEW p \in Parts, NEW i \in Insts
      PROVE  Destructor(p, i) \o r = Whole(p, i, r)
  <2> DEFINE f == <<"stop", p, i>>
             g == <<"join", p, i>>
             h == <<"free", p, i>>
  <2>1. f \in AStep /\ g \in AStep /\ h \in AStep
    <3>1. i \in 0 .. MaxObjs
      BY InstType
    <3>2. "stop" \in Steps /\ "join" \in Steps /\ "free" \in Steps
      BY DEF Steps
    <3> QED
      BY <3>1, <3>2, StepType
  <2>2. <<f>> \in Seq(AStep) /\ <<g, h>> \in Seq(AStep)
    BY <2>1
  <2>3. (<<f>> \o <<g, h>>) \o r = <<f>> \o (<<g, h>> \o r)
    BY <2>2, ConcatAssociative
  <2>4. <<f>> \o <<g, h>> = <<f, g, h>>
    BY <2>1, ShortOnes
  <2>5. <<g, h>> \o r = <<g>> \o (<<h>> \o r)
    BY <1>2, <2>1
  <2> QED
    BY <2>3, <2>4, <2>5 DEF Destructor, Whole, Joining, Last, Push
<1> QED
  BY <1>1, <1>2, <1>3 DEF Push

-----------------------------------------------------------------------------
(* Stack s is step x for instance i of part p on top of rest r.            *)
Pushed(s, x, p, i, r) ==
  /\ s \in Seq(AStep) /\ s # << >> /\ Head(s) = <<x, p, i>> /\ Tail(s) = r
  /\ \A y, q, j : Has(s, y, q, j) <=> (y = x /\ q = p /\ j = i) \/ Has(r, y, q, j)

LEMMA PushStep ==
  \A x \in Steps, p \in Parts, i \in 0 .. MaxObjs, r \in Seq(AStep) :
    Pushed(Push(<<x, p, i>>, r), x, p, i, r)
<1> TAKE x \in Steps, p \in Parts, i \in 0 .. MaxObjs, r \in Seq(AStep)
<1>1. <<x, p, i>> \in AStep
  BY StepType
<1>2. \A y, q, j : <<x, p, i>> = <<y, q, j>> <=> y = x /\ q = p /\ j = i
  OBVIOUS
<1> HIDE DEF Push, AStep
<1> QED
  BY <1>1, <1>2, PushFacts DEF Pushed

LEMMA StepsAre ==
  /\ "check" \in Steps /\ "install" \in Steps /\ "ref" \in Steps /\ "setup" \in Steps
  /\ "table" \in Steps /\ "threads" \in Steps /\ "zero" \in Steps /\ "already" \in Steps
  /\ "clos" \in Steps /\ "aref" \in Steps /\ "qref" \in Steps /\ "use" \in Steps
  /\ "put" \in Steps /\ "defr" \in Steps /\ "stop" \in Steps /\ "join" \in Steps
  /\ "free" \in Steps /\ "exec" \in Steps
  /\ "io" \in Parts /\ "wp" \in Parts
  BY DEF Steps, Parts

(* The rests are stacks of steps of tcp_init, or the closes.               *)
LEMMA RestFacts ==
  /\ Pushed(Zero, "zero", "wp", 0, << >>) /\ Pushed(Pool, "check", "wp", 0, Zero)
  /\ Pushed(CloseIo, "clos", "io", 0, << >>) /\ Pushed(CloseWp, "clos", "wp", 0, << >>)
  /\ \A r \in Rests :
       /\ r \in Seq(AStep)
       /\ \A x, p, i : Has(r, x, p, i) => x \in {"check", "zero", "clos"} /\ i = 0
<1> USE StepsAre, InstType, NoSteps, PushStep
<1> HIDE DEF Push, AStep, Steps, Parts, Has, Pushed
<1>1. Pushed(Zero, "zero", "wp", 0, << >>)
  BY ZenonT(30) DEF Zero
<1>2. Zero \in Seq(AStep)
  BY <1>1 DEF Pushed
<1>3. Pushed(Pool, "check", "wp", 0, Zero)
  BY <1>2, ZenonT(30) DEF Pool
<1>4. Pushed(CloseIo, "clos", "io", 0, << >>)
  BY ZenonT(30) DEF CloseIo
<1>5. Pushed(CloseWp, "clos", "wp", 0, << >>)
  BY ZenonT(30) DEF CloseWp
<1>6. \A r \in Rests :
        /\ r \in Seq(AStep)
        /\ \A x, p, i : Has(r, x, p, i) => x \in {"check", "zero", "clos"} /\ i = 0
  <2> DEFINE Q(r) == /\ r \in Seq(AStep)
                     /\ \A x, p, i : Has(r, x, p, i) => x \in {"check", "zero", "clos"} /\ i = 0
  <2>1. Q(<< >>)
    BY NoSteps
  <2>2. Q(Zero)
    BY <1>1, <2>1 DEF Pushed
  <2>3. Q(Pool)
    <3>1. /\ Pool \in Seq(AStep)
          /\ \A y, q, j : Has(Pool, y, q, j) <=> (y = "check" /\ q = "wp" /\ j = 0) \/ Has(Zero, y, q, j)
      BY <1>3 DEF Pushed
    <3> QED
      BY <2>2, <3>1
  <2>4. Q(CloseIo)
    BY <1>4, <2>1 DEF Pushed
  <2>5. Q(CloseWp)
    BY <1>5, <2>1 DEF Pushed
  <2> HIDE DEF Q
  <2>6. \A r \in Rests : Q(r)
    BY <2>1, <2>2, <2>3, <2>4, <2>5 DEF Rests
  <2> QED
    BY <2>6 DEF Q
<1> QED
  BY <1>1, <1>3, <1>4, <1>5, <1>6

(* The stacks of the destructors.                                          *)
LEMMA DestructorFacts ==
  \A p \in Parts, i \in Insts, r \in Rests :
    /\ Pushed(Last(p, i, r), "free", p, i, r)
    /\ Pushed(Joining(p, i, r), "join", p, i, Last(p, i, r))
    /\ Pushed(Whole(p, i, r), "stop", p, i, Joining(p, i, r))
<1> TAKE p \in Parts, i \in Insts, r \in Rests
<1> USE StepsAre, PushStep
<1>1. i \in 0 .. MaxObjs /\ r \in Seq(AStep)
  BY InstType, RestFacts
<1> HIDE DEF Push, AStep, Steps, Parts, Has, Insts, Rests, Pushed
<1>2. Pushed(Last(p, i, r), "free", p, i, r)
  BY <1>1, ZenonT(30) DEF Last
<1>3. Last(p, i, r) \in Seq(AStep)
  BY <1>2 DEF Pushed
<1>4. Pushed(Joining(p, i, r), "join", p, i, Last(p, i, r))
  BY <1>1, <1>3, ZenonT(30) DEF Joining
<1>5. Joining(p, i, r) \in Seq(AStep)
  BY <1>4 DEF Pushed
<1>6. Pushed(Whole(p, i, r), "stop", p, i, Joining(p, i, r))
  BY <1>1, <1>5, ZenonT(30) DEF Whole
<1> QED
  BY <1>2, <1>4, <1>6

(* What the rest of a stack with the given top can be.                     *)
Below(x, p, i, r) ==
  /\ x \in {"check", "install", "ref"} => i = 0 /\ r = RestOf(p)
  /\ x = "setup" => i \in Insts /\ r = RestOf(p)
  /\ x \in {"table", "threads"} => p = "io" /\ i \in Insts /\ r = Pool
  /\ x \in {"zero", "already", "aref", "qref"} => i = 0 /\ r = << >>
  /\ x = "clos" => i = 0 /\ (r = << >> \/ (p = "io" /\ r = CloseWp))
  /\ x = "zero" => p = "wp"
  /\ x = "aref" => p = "io"
  /\ x = "qref" => p = "wp"
  /\ x \in {"use", "put"} => i \in Insts /\ r = Push(<<"defr", p, i>>, << >>)
  /\ x = "use" => p = "io"
  /\ x = "put" => p = "wp"
  /\ x = "defr" => i \in Insts /\ r \in Rests
  /\ x = "stop" => i \in Insts /\ \E q \in Rests : r = Joining(p, i, q)
  /\ x = "join" => i \in Insts /\ \E q \in Rests : r = Last(p, i, q)
  /\ x = "free" => i \in Insts /\ r \in Rests
  /\ x = "exec" => p = "wp" /\ i \in Insts /\ r = << >>

(* A stack is empty, or its top is on a rest it can be on.                 *)
Shaped(s) == s = << >> \/ Below(Head(s)[1], Head(s)[2], Head(s)[3], Tail(s))

LEMMA ShapedTop ==
  ASSUME NEW s \in Seq(AStep), s # << >>, NEW x, NEW p, NEW i, Head(s) = <<x, p, i>>
  PROVE  /\ x \in Steps /\ p \in Parts /\ i \in 0 .. MaxObjs
         /\ Pushed(s, x, p, i, Tail(s)) /\ Tail(s) \in Seq(AStep)
         /\ Shaped(s) <=> Below(x, p, i, Tail(s))
<1>1. Head(s) \in AStep /\ Tail(s) \in Seq(AStep) /\ s = Push(Head(s), Tail(s))
  BY TopAndRest
<1>2. x \in Steps /\ p \in Parts /\ i \in 0 .. MaxObjs
  BY <1>1 DEF AStep
<1>3. Pushed(s, x, p, i, Tail(s))
  <2> HIDE DEF Push, Pushed, AStep
  <2> QED
    BY <1>1, <1>2, PushStep
<1>4. Head(s)[1] = x /\ Head(s)[2] = p /\ Head(s)[3] = i
  OBVIOUS
<1> QED
  BY <1>1, <1>2, <1>3, <1>4 DEF Shaped

LEMMA ShapedPushed ==
  \A s, x, p, i, r : Pushed(s, x, p, i, r) => (Shaped(s) <=> Below(x, p, i, r))
<1> TAKE s, x, p, i, r
<1> HAVE Pushed(s, x, p, i, r)
<1>1. s # << >> /\ Head(s) = <<x, p, i>> /\ Tail(s) = r
  BY DEF Pushed
<1>2. Head(s)[1] = x /\ Head(s)[2] = p /\ Head(s)[3] = i
  BY <1>1
<1> QED
  BY <1>1, <1>2 DEF Shaped

(* The stacks a step leaves are shaped.                                    *)
Good(s) == s \in Seq(AStep) /\ Shaped(s)

LEMMA GoodPush ==
  \A x \in Steps, p \in Parts, i \in 0 .. MaxObjs, r \in Seq(AStep) :
    Below(x, p, i, r) => Good(Push(<<x, p, i>>, r))
<1> TAKE x \in Steps, p \in Parts, i \in 0 .. MaxObjs, r \in Seq(AStep)
<1>1. Pushed(Push(<<x, p, i>>, r), x, p, i, r)
  <2> HIDE DEF Push, Pushed, AStep, Steps, Parts
  <2> QED
    BY PushStep
<1>2. Shaped(Push(<<x, p, i>>, r)) <=> Below(x, p, i, r)
  BY <1>1, ShapedPushed
<1> QED
  BY <1>1, <1>2 DEF Good, Pushed

LEMMA GoodRests ==
  /\ \A r \in Rests : Good(r)
  /\ \A p \in Parts : RestOf(p) \in Rests
  /\ << >> \in Rests /\ CloseIo \in Rests /\ CloseWp \in Rests
<1> USE StepsAre, InstType
<1> HIDE DEF Push, AStep, Steps, Pushed, Insts, Pool, Zero, CloseIo, CloseWp, Below
<1>1. << >> \in Rests /\ Pool \in Rests /\ Zero \in Rests /\ CloseWp \in Rests /\ CloseIo \in Rests
  BY DEF Rests
<1>2. Good(<< >>)
  BY NoSteps DEF Good, Shaped
<1>3. /\ Below("zero", "wp", 0, << >>) /\ Below("check", "wp", 0, Zero)
      /\ Below("clos", "io", 0, << >>) /\ Below("clos", "wp", 0, << >>)
  BY DEF Below, RestOf
<1>4. Good(Zero) /\ Good(Pool) /\ Good(CloseIo) /\ Good(CloseWp)
  BY <1>1, <1>3, RestFacts, ShapedPushed DEF Good
<1> QED
  BY <1>1, <1>2, <1>4 DEF Rests, RestOf, Parts

LEMMA GoodDestructor ==
  \A p \in Parts, i \in Insts, r \in Rests :
    Good(Last(p, i, r)) /\ Good(Joining(p, i, r)) /\ Good(Whole(p, i, r))
<1> TAKE p \in Parts, i \in Insts, r \in Rests
<1>1. /\ Below("stop", p, i, Joining(p, i, r)) /\ Below("join", p, i, Last(p, i, r))
      /\ Below("free", p, i, r)
  BY DEF Below
<1> HIDE DEF Below, Joining, Last, Whole, Pushed, Insts, Rests, Parts
<1>2. /\ Pushed(Last(p, i, r), "free", p, i, r)
      /\ Pushed(Joining(p, i, r), "join", p, i, Last(p, i, r))
      /\ Pushed(Whole(p, i, r), "stop", p, i, Joining(p, i, r))
  BY DestructorFacts
<1>3. Shaped(Last(p, i, r)) /\ Shaped(Joining(p, i, r)) /\ Shaped(Whole(p, i, r))
  BY <1>1, <1>2, ShapedPushed
<1> QED
  BY <1>2, <1>3 DEF Good, Pushed

-----------------------------------------------------------------------------
(***************************************************************************)
(* What is so of every instance, in every state.                           *)
(***************************************************************************)
H(t, x, p, i) == Has(todo[t], x, p, i)

Shapes == \A t \in Threads : Shaped(todo[t])

(* Threads with a reference, counted by the object.                        *)
Holds(t, p, i) == \E x \in {"setup", "table", "threads", "defr"} : H(t, x, p, i)

Refs(p, i) == {t \in Threads : Holds(t, p, i)}

Counted(p, i) ==
  /\ refs[p][i] = Cardinality(Refs(p, i))
  /\ stat[p][i] \notin {"open", "closing"} => Refs(p, i) = {}

(* One thread runs the destructor, exactly while the object is dying.      *)
Destructed(p, i) ==
  /\ stat[p][i] = "dying" <=> \E t \in Threads : H(t, "free", p, i)
  /\ \A t, u \in Threads : H(t, "free", p, i) /\ H(u, "free", p, i) => t = u
  /\ \A t \in Threads : /\ H(t, "stop", p, i) => H(t, "join", p, i)
                        /\ H(t, "join", p, i) => H(t, "free", p, i)

(* The handle names the one instance that is there.                        *)
Named(p, i) ==
  /\ stat[p][i] \in {"open", "closing", "dying"} <=> handle[p] = i
  /\ stat[p][i] = "none" <=> i > made[p]

Builds(t, p, i) == H(t, "table", p, i) \/ H(t, "threads", p, i)

(* One thread sets an object up, unless it has failed.                     *)
Built(p, i) ==
  /\ \A t \in Threads : /\ H(t, "table", p, i) => setup[p][i] = "divs"
                        /\ H(t, "threads", p, i) => setup[p][i] = "table"
  /\ \A t, u \in Threads : Builds(t, p, i) /\ Builds(u, p, i) => t = u
  /\ setup[p][i] \in {"divs", "table"} => fault \/ \E t \in Threads : Builds(t, p, i)

Past(p, i)   == \E t \in Threads : H(t, "free", p, i) /\ ~H(t, "stop", p, i)
AtJoin(p, i) == \E t \in Threads : H(t, "join", p, i) /\ ~H(t, "stop", p, i)

(* Where an instance has got to, and its thread with it.                   *)
Running(p, i) ==
  /\ setup[p][i] = "freed" => stat[p][i] = "dead"
  /\ stat[p][i] = "none" => setup[p][i] = "none"
  /\ stat[p][i] \in {"none", "dead"} \/ Past(p, i) => ~actived[p][i]
  /\ actived[p][i] => setup[p][i] = "live" /\ (thr[p][i] # "none" \/ fault)
  /\ thr[p][i] # "none" => setup[p][i] \in {"live", "freed"}
  /\ stat[p][i] \in {"open", "closing"} /\ setup[p][i] = "live" /\ ~fault
       => actived[p][i] /\ thr[p][i] = "up"
  /\ thr[p][i] = "up" => actived[p][i] \/ AtJoin(p, i) \/ Own(p, i) \in selfjoin
  /\ Own(p, i) \in selfjoin => /\ stat[p][i] \in {"dying", "dead"}
                               /\ \A t \in Threads : ~H(t, "join", p, i)
  /\ AtJoin(p, i) => thr[p][i] # "none" \/ fault

Instance(p, i) ==
  Counted(p, i) /\ Destructed(p, i) /\ Named(p, i) /\ Built(p, i) /\ Running(p, i)

(* The tasks of a pool, and the one its thread has in hand.                *)
Work(i) ==
  /\ tasks[i] + Held(i) <= MaxTasks
  /\ lost[i] + Held(i) <= 1
  /\ lost[i] > 0 => ~actived["wp"][i]
  /\ lost[i] + Held(i) > 0 => setup["wp"][i] # "none"
  /\ tasks[i] > 0 => handle["wp"] = i

Instances == \A p \in Parts, i \in Insts : Instance(p, i)
Works == \A i \in Insts : Work(i)

Base == TypeOK /\ Shapes /\ Instances /\ Works

-----------------------------------------------------------------------------
(***************************************************************************)
(* What a step leaves on the stacks.                                       *)
(***************************************************************************)

(* Thread t goes on with stack s.                                          *)
Leaves(t, s) == todo' = [todo EXCEPT ![t] = s]

LEMMA StacksType ==
  ASSUME TypeOK
  PROVE  todo \in [Threads -> Seq(AStep)]
  BY DEF TypeOK, AStep

LEMMA LeavesFacts ==
  ASSUME TypeOK, Shapes, NEW t \in Threads, NEW s, Leaves(t, s), Good(s)
  PROVE  /\ Shapes' /\ todo' \in [Threads -> Seq(AStep)]
         /\ todo'[t] = s /\ \A u \in Threads \ {t} : todo'[u] = todo[u]
<1>1. todo \in [Threads -> Seq(AStep)]
  BY StacksType
<1> HIDE DEF AStep
<1>2. todo' \in [Threads -> Seq(AStep)]
  BY <1>1 DEF Leaves, Good
<1>3. todo'[t] = s /\ \A u \in Threads \ {t} : todo'[u] = todo[u]
  BY <1>1 DEF Leaves
<1>4. \A u \in Threads : Shaped(todo'[u])
  BY <1>3 DEF Shapes, Good
<1>5. Shapes'
  BY <1>4 DEF Shapes, Shaped, Below
<1> QED
  BY <1>2, <1>3, <1>5

(* The step a thread is at, and what is below it.                          *)
LEMMA AtFacts ==
  ASSUME TypeOK, Shapes, NEW t \in Threads, NEW x, NEW p, NEW i, At(t, x, p, i)
  PROVE  LET r == Tail(todo[t]) IN
         /\ x \in Steps /\ p \in Parts /\ i \in 0 .. MaxObjs
         /\ Pushed(todo[t], x, p, i, r) /\ r \in Seq(AStep) /\ Below(x, p, i, r)
         /\ \A y, q, j : H(t, y, q, j) <=> (y = x /\ q = p /\ j = i) \/ Has(r, y, q, j)
<1>1. todo[t] \in Seq(AStep) /\ todo[t] # << >> /\ Head(todo[t]) = <<x, p, i>>
  BY StacksType DEF At, Idle
<1>2. Shaped(todo[t])
  BY DEF Shapes
<1> HIDE DEF AStep, Below, Pushed
<1>3. /\ x \in Steps /\ p \in Parts /\ i \in 0 .. MaxObjs
      /\ Pushed(todo[t], x, p, i, Tail(todo[t])) /\ Tail(todo[t]) \in Seq(AStep)
      /\ Below(x, p, i, Tail(todo[t]))
  BY <1>1, <1>2, ShapedTop
<1> QED
  BY <1>3 DEF Pushed, H

LEMMA DoesLeaves ==
  ASSUME TypeOK, Shapes, NEW t \in Threads, NEW x, NEW p, NEW i
  PROVE  LET r == Tail(todo[t]) IN
         /\ Does(t, x, p, i, << >>) => At(t, x, p, i) /\ Leaves(t, r)
         /\ \A y \in Steps, q \in Parts, j \in 0 .. MaxObjs :
              Does(t, x, p, i, <<<<y, q, j>>>>) => At(t, x, p, i) /\ Leaves(t, Push(<<y, q, j>>, r))
         /\ \A y \in Steps, z \in Steps, q \in Parts, j \in 0 .. MaxObjs :
              Does(t, x, p, i, <<<<y, q, j>>, <<z, q, j>>>>)
                => At(t, x, p, i) /\ Leaves(t, Push(<<y, q, j>>, Push(<<z, q, j>>, r)))
         /\ \A q \in Parts, j \in Insts :
              Does(t, x, p, i, Destructor(q, j)) => At(t, x, p, i) /\ Leaves(t, Whole(q, j, r))
<1> DEFINE r == Tail(todo[t])
<1>1. ASSUME At(t, x, p, i)
      PROVE  /\ r \in Seq(AStep) /\ << >> \o r = r
             /\ \A f \in AStep : <<f>> \o r = Push(f, r)
             /\ \A f, g \in AStep : <<f, g>> \o r = Push(f, Push(g, r))
             /\ \A q \in Parts, j \in Insts : Destructor(q, j) \o r = Whole(q, j, r)
  <2>1. r \in Seq(AStep)
    BY <1>1, AtFacts
  <2> HIDE DEF r, AStep, Push, Destructor, Whole, Parts, Insts
  <2> QED
    BY <2>1, OnTop
<1>2. todo \in [Threads -> Seq(AStep)]
  BY StacksType
<1> HIDE DEF AStep, Push, Destructor, Whole, Parts, Insts, Steps
<1>3. \A m : Does(t, x, p, i, m) => At(t, x, p, i) /\ Leaves(t, m \o r)
  BY <1>2 DEF Does, Leaves
<1> HIDE DEF r, Does, At, Leaves
<1>4. Does(t, x, p, i, << >>) => At(t, x, p, i) /\ Leaves(t, r)
  BY <1>1, <1>3
<1>5. ASSUME NEW y \in Steps, NEW z \in Steps, NEW q \in Parts, NEW j \in 0 .. MaxObjs
      PROVE  /\ Does(t, x, p, i, <<<<y, q, j>>>>)
                  => At(t, x, p, i) /\ Leaves(t, Push(<<y, q, j>>, r))
             /\ Does(t, x, p, i, <<<<y, q, j>>, <<z, q, j>>>>)
                  => At(t, x, p, i) /\ Leaves(t, Push(<<y, q, j>>, Push(<<z, q, j>>, r)))
  <2>1. <<y, q, j>> \in AStep /\ <<z, q, j>> \in AStep
    BY StepType
  <2> DEFINE f == <<y, q, j>>
             g == <<z, q, j>>
  <2> HIDE DEF f, g
  <2>2. f \in AStep /\ g \in AStep
    BY <2>1 DEF f, g
  <2>3. /\ Does(t, x, p, i, <<f>>) => At(t, x, p, i) /\ Leaves(t, Push(f, r))
        /\ Does(t, x, p, i, <<f, g>>) => At(t, x, p, i) /\ Leaves(t, Push(f, Push(g, r)))
    BY <1>1, <1>3, <2>2
  <2> QED
    BY <2>3 DEF f, g
<1>6. ASSUME NEW q \in Parts, NEW j \in Insts
      PROVE  Does(t, x, p, i, Destructor(q, j)) => At(t, x, p, i) /\ Leaves(t, Whole(q, j, r))
  BY <1>1, <1>3
<1> QED
  BY <1>4, <1>5, <1>6 DEF r

(* The other threads are where they were.                                  *)
Only(t) ==
  /\ Shapes' /\ todo' \in [Threads -> Seq(AStep)]
  /\ \A u \in Threads \ {t} : todo'[u] = todo[u]

LEMMA LeavesRest ==
  ASSUME TypeOK, Shapes, NEW t \in Threads, NEW r, Good(r), Leaves(t, r)
  PROVE  /\ Only(t)
         /\ \A y, q, j : H(t, y, q, j)' <=> Has(r, y, q, j)
  BY LeavesFacts DEF Only, H

LEMMA LeavesPush ==
  ASSUME TypeOK, Shapes, NEW t \in Threads, NEW x \in Steps, NEW p \in Parts,
         NEW i \in 0 .. MaxObjs, NEW r \in Seq(AStep), Below(x, p, i, r),
         Leaves(t, Push(<<x, p, i>>, r))
  PROVE  /\ Only(t)
         /\ \A y, q, j : H(t, y, q, j)' <=> (y = x /\ q = p /\ j = i) \/ Has(r, y, q, j)
<1> HIDE DEF AStep, Push, Below, Steps, Parts, Leaves, Good
<1>1. Good(Push(<<x, p, i>>, r)) /\ Pushed(Push(<<x, p, i>>, r), x, p, i, r)
  BY GoodPush, PushStep
<1>2. /\ Only(t)
      /\ \A y, q, j : H(t, y, q, j)' <=> Has(Push(<<x, p, i>>, r), y, q, j)
  BY <1>1, LeavesRest
<1> QED
  BY <1>1, <1>2 DEF Pushed

(* Stacks written out.                                                     *)
LEMMA Literals ==
  \A f, g, h \in AStep :
    /\ <<f>> = Push(f, << >>) /\ <<f, g>> = Push(f, Push(g, << >>))
    /\ <<f, g, h>> = Push(f, Push(g, Push(h, << >>)))
<1> TAKE f, g, h \in AStep
<1> HIDE DEF AStep
<1>1. <<f>> \in Seq(AStep) /\ <<g>> \in Seq(AStep) /\ <<h>> \in Seq(AStep) /\ << >> \in Seq(AStep)
  OBVIOUS
<1>2. <<f>> \o << >> = <<f>> /\ <<g>> \o << >> = <<g>> /\ <<h>> \o << >> = <<h>>
  BY <1>1, ConcatEmptySeq
<1>3. <<f>> \o <<g>> = <<f, g>> /\ <<g>> \o <<h>> = <<g, h>> /\ <<f>> \o <<g, h>> = <<f, g, h>>
  BY ShortOnes
<1> QED
  BY <1>2, <1>3 DEF Push

LEMMA LiteralSteps ==
  \A x \in Steps, p \in Parts, i \in 0 .. MaxObjs :
    <<<<x, p, i>>>> = Push(<<x, p, i>>, << >>)
<1> TAKE x \in Steps, p \in Parts, i \in 0 .. MaxObjs
<1>1. <<x, p, i>> \in AStep
  BY StepType
<1> DEFINE f == <<x, p, i>>
<1> HIDE DEF f
<1>2. f \in AStep
  BY <1>1 DEF f
<1>3. <<f>> = Push(f, << >>)
  BY <1>2, Literals
<1> QED
  BY <1>3 DEF f

(* What is left to do of tcp_init, once a part is there or has failed.     *)
LEMMA RestOfFacts ==
  /\ \A p \in Parts :
       /\ RestOf(p) \in Rests /\ RestOf(p) \in Seq(AStep) /\ Good(RestOf(p))
       /\ \A y, q, j : Has(RestOf(p), y, q, j)
                         <=> q = "wp" /\ j = 0 /\ (y = "zero" \/ (y = "check" /\ p = "io"))
  /\ \A p \in Parts :
       /\ Rollback(p) \in Rests /\ Rollback(p) \in Seq(AStep) /\ Good(Rollback(p))
       /\ \A y, q, j : Has(Rollback(p), y, q, j) <=> y = "clos" /\ q = "io" /\ j = 0 /\ p = "wp"
  /\ Good(CloseWp) /\ CloseWp \in Seq(AStep)
  /\ \A y, q, j : Has(CloseWp, y, q, j) <=> y = "clos" /\ q = "wp" /\ j = 0
<1>1. /\ Rollback("wp") = CloseIo /\ Rollback("io") = << >>
      /\ RestOf("io") = Pool /\ RestOf("wp") = Zero
  <2>1. <<<<"clos", "io", 0>>>> = Push(<<"clos", "io", 0>>, << >>)
    BY LiteralSteps, StepsAre, InstType
  <2> QED
    BY <2>1 DEF Rollback, CloseIo, RestOf
<1> HIDE DEF Rollback, RestOf, CloseIo, CloseWp, Pool, Zero, Pushed, Rests, Good, AStep
<1>2. /\ \A y, q, j : Has(Zero, y, q, j) <=> y = "zero" /\ q = "wp" /\ j = 0
      /\ \A y, q, j : Has(CloseIo, y, q, j) <=> y = "clos" /\ q = "io" /\ j = 0
      /\ \A y, q, j : Has(CloseWp, y, q, j) <=> y = "clos" /\ q = "wp" /\ j = 0
  BY RestFacts, NoSteps DEF Pushed
<1>3. \A y, q, j : Has(Pool, y, q, j) <=> q = "wp" /\ j = 0 /\ (y = "zero" \/ y = "check")
  <2>1. \A y, q, j : Has(Pool, y, q, j) <=> (y = "check" /\ q = "wp" /\ j = 0) \/ Has(Zero, y, q, j)
    BY RestFacts DEF Pushed
  <2> QED
    BY <1>2, <2>1
<1>4. /\ Pool \in Rests /\ Zero \in Rests /\ CloseIo \in Rests /\ CloseWp \in Rests
      /\ << >> \in Rests
  BY DEF Rests
<1>5. \A r \in Rests : r \in Seq(AStep) /\ Good(r)
  BY RestFacts, GoodRests
<1>6. \A y, q, j : ~Has(<< >>, y, q, j)
  BY NoSteps
<1> QED
  BY <1>1, <1>2, <1>3, <1>4, <1>5, <1>6 DEF Parts

-----------------------------------------------------------------------------
(***************************************************************************)
(* The steps of every operation, before and after.                         *)
(***************************************************************************)

(* Nobody's references, destructors and tasks in hand have changed.        *)
Owned == {"setup", "table", "threads", "defr", "stop", "join", "free", "exec"}

Calm ==
  \A u \in Threads, y \in Owned, q \in Parts, j \in 0 .. MaxObjs : H(u, y, q, j)' <=> H(u, y, q, j)

LEMMA CalmOnly ==
  ASSUME NEW t \in Threads, Only(t),
         \A y \in Owned, q \in Parts, j \in 0 .. MaxObjs : H(t, y, q, j)' <=> H(t, y, q, j)
  PROVE  Calm
  BY DEF Calm, Only, H

LEMMA IdleFacts ==
  ASSUME TypeOK, NEW t \in Threads, NEW m, Starts(t, m)
  PROVE  (\A y, q, j : ~H(t, y, q, j)) /\ Leaves(t, m)
  BY NoSteps DEF Starts, Idle, H, Leaves

LEMMA InitDoes ==
  ASSUME TypeOK, Shapes, NEW t \in Threads, tcp_init(t)
  PROVE  /\ Only(t) /\ Calm /\ \A y, q, j : ~H(t, y, q, j)
         /\ \A y, q, j : H(t, y, q, j)'
              <=> j = 0 /\ ((y = "check" /\ q \in Parts) \/ (y = "zero" /\ q = "wp"))
<1> DEFINE f == <<"check", "io", 0>>
           g == <<"check", "wp", 0>>
           h == <<"zero", "wp", 0>>
<1>1. f \in AStep /\ g \in AStep /\ h \in AStep
  BY StepType, StepsAre, InstType
<1>2. Starts(t, <<f, g, h>>)
  BY DEF tcp_init
<1>3. /\ Push(f, Pool) = Push(f, Push(g, Push(h, << >>)))
  BY DEF Pool, Zero
<1>4. <<f, g, h>> = Push(f, Pool)
  <2> HIDE DEF f, g, h, AStep
  <2> QED
    BY <1>1, <1>3, Literals
<1>5. Leaves(t, Push(<<"check", "io", 0>>, RestOf("io"))) /\ \A y, q, j : ~H(t, y, q, j)
  BY <1>2, <1>4, IdleFacts DEF RestOf
<1>6. Below("check", "io", 0, RestOf("io"))
  BY DEF Below
<1> HIDE DEF f, g, h, AStep, Below, Leaves
<1>7. /\ Only(t)
      /\ \A y, q, j : H(t, y, q, j)' <=> (y = "check" /\ q = "io" /\ j = 0) \/ Has(RestOf("io"), y, q, j)
  BY <1>5, <1>6, StepsAre, InstType, RestOfFacts, LeavesPush
<1>8. \A y, q, j : H(t, y, q, j)'
        <=> j = 0 /\ ((y = "check" /\ q \in Parts) \/ (y = "zero" /\ q = "wp"))
  BY <1>7, RestOfFacts, StepsAre DEF Parts
<1>9. Calm
  BY <1>5, <1>7, <1>8, CalmOnly, InstType DEF Owned
<1> QED
  BY <1>5, <1>7, <1>8, <1>9

LEMMA UninitDoes ==
  ASSUME TypeOK, Shapes, NEW t \in Threads, tcp_uninit(t)
  PROVE  /\ Only(t) /\ Calm /\ \A y, q, j : ~H(t, y, q, j)
         /\ \A y, q, j : H(t, y, q, j)' <=> y = "clos" /\ q \in Parts /\ j = 0
<1> DEFINE f == <<"clos", "io", 0>>
           g == <<"clos", "wp", 0>>
<1>1. f \in AStep /\ g \in AStep
  BY StepType, StepsAre, InstType
<1>2. Starts(t, <<f, g>>)
  BY DEF tcp_uninit
<1>3. Push(f, CloseWp) = Push(f, Push(g, << >>))
  BY DEF CloseWp
<1>4. <<f, g>> = Push(f, CloseWp)
  <2> HIDE DEF f, g, AStep
  <2> QED
    BY <1>1, <1>3, Literals
<1>5. Leaves(t, Push(<<"clos", "io", 0>>, CloseWp)) /\ \A y, q, j : ~H(t, y, q, j)
  BY <1>2, <1>4, IdleFacts
<1>6. Below("clos", "io", 0, CloseWp)
  BY DEF Below
<1> HIDE DEF f, g, AStep, Below, Leaves
<1>7. /\ Only(t)
      /\ \A y, q, j : H(t, y, q, j)' <=> (y = "clos" /\ q = "io" /\ j = 0) \/ Has(CloseWp, y, q, j)
  BY <1>5, <1>6, StepsAre, InstType, RestOfFacts, LeavesPush
<1>8. \A y, q, j : H(t, y, q, j)' <=> y = "clos" /\ q \in Parts /\ j = 0
  BY <1>7, RestOfFacts, StepsAre DEF Parts
<1>9. Calm
  BY <1>5, <1>7, <1>8, CalmOnly, InstType DEF Owned
<1> QED
  BY <1>5, <1>7, <1>8, <1>9

(* A thread replaces its stack by one step, or by the rollback.            *)
LEMMA ReturnsFacts ==
  ASSUME TypeOK, Shapes, NEW t \in Threads, NEW x \in {"check", "install", "ref"}, NEW p
  PROVE  /\ Returns(t, x, p, <<<<"already", p, 0>>>>)
              => /\ At(t, x, p, 0) /\ Only(t) /\ p \in Parts
                 /\ \A y, q, j : H(t, y, q, j)' <=> y = "already" /\ q = p /\ j = 0
         /\ Returns(t, x, p, Rollback(p))
              => /\ At(t, x, p, 0) /\ Only(t) /\ p \in Parts
                 /\ \A y, q, j : H(t, y, q, j)' <=> y = "clos" /\ q = "io" /\ j = 0 /\ p = "wp"
<1>1. \A m : Returns(t, x, p, m) => At(t, x, p, 0) /\ Leaves(t, m)
  BY DEF Returns, Leaves
<1>2. At(t, x, p, 0) => p \in Parts
  BY AtFacts
<1> HIDE DEF AStep, Below, Leaves, At, Returns
<1>3. ASSUME Returns(t, x, p, <<<<"already", p, 0>>>>)
      PROVE  /\ At(t, x, p, 0) /\ Only(t) /\ p \in Parts
             /\ \A y, q, j : H(t, y, q, j)' <=> y = "already" /\ q = p /\ j = 0
  <2>1. At(t, x, p, 0) /\ p \in Parts /\ Leaves(t, <<<<"already", p, 0>>>>)
    BY <1>1, <1>2, <1>3
  <2>2. Leaves(t, Push(<<"already", p, 0>>, << >>))
    BY <2>1, LiteralSteps, StepsAre, InstType
  <2>3. Below("already", p, 0, << >>)
    BY DEF Below
  <2>4. /\ Only(t)
        /\ \A y, q, j : H(t, y, q, j)' <=> (y = "already" /\ q = p /\ j = 0) \/ Has(<< >>, y, q, j)
    BY <2>1, <2>2, <2>3, StepsAre, InstType, NoSteps, LeavesPush
  <2> QED
    BY <2>1, <2>4, NoSteps
<1>4. ASSUME Returns(t, x, p, Rollback(p))
      PROVE  /\ At(t, x, p, 0) /\ Only(t) /\ p \in Parts
             /\ \A y, q, j : H(t, y, q, j)' <=> y = "clos" /\ q = "io" /\ j = 0 /\ p = "wp"
  <2>1. At(t, x, p, 0) /\ p \in Parts /\ Leaves(t, Rollback(p))
    BY <1>1, <1>2, <1>4
  <2>2. Good(Rollback(p))
    BY <2>1, RestOfFacts
  <2>3. Only(t) /\ \A y, q, j : H(t, y, q, j)' <=> Has(Rollback(p), y, q, j)
    BY <2>1, <2>2, LeavesRest
  <2> QED
    BY <2>1, <2>3, RestOfFacts
<1> QED
  BY <1>3, <1>4

(* What is left of tcp_init after part p.                                  *)
After(p, y, q, j) == q = "wp" /\ j = 0 /\ (y = "zero" \/ (y = "check" /\ p = "io"))

LEMMA BuilderFacts ==
  ASSUME TypeOK, Shapes, NEW t \in Threads, NEW p, NEW i,
         NEW x \in {"check", "install", "ref", "setup", "table", "threads"}, At(t, x, p, i)
  PROVE  /\ p \in Parts /\ i \in 0 .. MaxObjs /\ Tail(todo[t]) = RestOf(p)
         /\ x \in {"check", "install", "ref"} => i = 0
         /\ x \in {"setup", "table", "threads"} => i \in Insts
         /\ x \in {"table", "threads"} => p = "io"
         /\ \A y, q, j : H(t, y, q, j) <=> (y = x /\ q = p /\ j = i) \/ After(p, y, q, j)
<1>1. /\ p \in Parts /\ i \in 0 .. MaxObjs /\ Below(x, p, i, Tail(todo[t]))
      /\ \A y, q, j : H(t, y, q, j) <=> (y = x /\ q = p /\ j = i) \/ Has(Tail(todo[t]), y, q, j)
  BY AtFacts
<1>2. /\ Tail(todo[t]) = RestOf(p)
      /\ x \in {"check", "install", "ref"} => i = 0
      /\ x \in {"setup", "table", "threads"} => i \in Insts
      /\ x \in {"table", "threads"} => p = "io"
  BY <1>1 DEF Below, RestOf
<1>3. \A y, q, j : Has(RestOf(p), y, q, j) <=> After(p, y, q, j)
  BY <1>1, RestOfFacts DEF After
<1> QED
  BY <1>1, <1>2, <1>3

LEMMA BuilderGoesOn ==
  ASSUME TypeOK, Shapes, NEW t \in Threads, NEW p, NEW i, NEW j \in 0 .. MaxObjs,
         NEW x \in {"check", "install", "ref", "setup", "table", "threads"},
         NEW y \in Steps,
         Does(t, x, p, i, <<<<y, p, j>>>>), p \in Parts => Below(y, p, j, RestOf(p))
  PROVE  /\ At(t, x, p, i) /\ Only(t)
         /\ \A z, q, k : H(t, z, q, k)' <=> (z = y /\ q = p /\ k = j) \/ After(p, z, q, k)
<1>1. At(t, x, p, i)
  BY DEF Does
<1>2. p \in Parts /\ i \in 0 .. MaxObjs /\ Tail(todo[t]) = RestOf(p)
  BY <1>1, BuilderFacts
<1>3. RestOf(p) \in Seq(AStep)
  BY <1>2, RestOfFacts
<1>4. Leaves(t, Push(<<y, p, j>>, RestOf(p)))
  <2> HIDE DEF Does, Leaves, Push, RestOf, AStep, Steps, Parts
  <2> QED
    BY <1>2, DoesLeaves
<1>5. Below(y, p, j, RestOf(p))
  BY <1>2
<1> HIDE DEF Does, Leaves, Push, RestOf, AStep, Steps, Parts, Below
<1>6. /\ Only(t)
      /\ \A z, q, k : H(t, z, q, k)' <=> (z = y /\ q = p /\ k = j) \/ Has(RestOf(p), z, q, k)
  BY <1>2, <1>3, <1>4, <1>5, LeavesPush
<1> QED
  BY <1>1, <1>2, <1>6, RestOfFacts DEF After

LEMMA CheckDoes ==
  ASSUME TypeOK, Shapes, NEW t \in Threads, NEW p, Check(t, p)
  PROVE  /\ p \in Parts /\ Only(t) /\ Calm
         /\ \A y, q, j : H(t, y, q, j) <=> (y = "check" /\ q = p /\ j = 0) \/ After(p, y, q, j)
         /\ \/ /\ handle[p] # 0
               /\ \A y, q, j : H(t, y, q, j)' <=> y = "already" /\ q = p /\ j = 0
            \/ /\ handle[p] = 0
               /\ \A y, q, j : H(t, y, q, j)'
                                 <=> (y = "install" /\ q = p /\ j = 0) \/ After(p, y, q, j)
<1>1. At(t, "check", p, 0)
  BY DEF Check, Returns, Does
<1>2. /\ p \in Parts
      /\ \A y, q, j : H(t, y, q, j) <=> (y = "check" /\ q = p /\ j = 0) \/ After(p, y, q, j)
  BY <1>1, BuilderFacts
<1>3. CASE handle[p] # 0
  <2>1. Returns(t, "check", p, <<<<"already", p, 0>>>>)
    BY <1>3 DEF Check
  <2>2. Only(t) /\ \A y, q, j : H(t, y, q, j)' <=> y = "already" /\ q = p /\ j = 0
    BY <2>1, ReturnsFacts
  <2>3. Calm
    BY <1>2, <2>2, CalmOnly DEF Owned, After
  <2> QED
    BY <1>2, <1>3, <2>2, <2>3
<1>4. CASE handle[p] = 0
  <2>1. Does(t, "check", p, 0, <<<<"install", p, 0>>>>)
    BY <1>4 DEF Check
  <2>2. Below("install", p, 0, RestOf(p))
    BY DEF Below
  <2> HIDE DEF Does, Below
  <2>3. Only(t) /\ \A y, q, j : H(t, y, q, j)'
                                 <=> (y = "install" /\ q = p /\ j = 0) \/ After(p, y, q, j)
    BY <2>1, <2>2, StepsAre, InstType, BuilderGoesOn
  <2>4. Calm
    BY <1>2, <2>3, CalmOnly DEF Owned, After
  <2> QED
    BY <1>2, <1>4, <2>3, <2>4
<1> QED
  BY <1>3, <1>4

LEMMA InstallDoes ==
  ASSUME TypeOK, Shapes, NEW t \in Threads, NEW p, Install(t, p)
  PROVE  LET i == made[p] + 1 IN
         /\ p \in Parts /\ Only(t) /\ Calm
         /\ \A y, q, j : H(t, y, q, j) <=> (y = "install" /\ q = p /\ j = 0) \/ After(p, y, q, j)
         /\ \/ /\ i \in Insts /\ made' = [made EXCEPT ![p] = i] /\ handle[p] = 0
               /\ handle' = [handle EXCEPT ![p] = i] /\ stat' = Set(stat, p, i, "open")
               /\ \A y, q, j : H(t, y, q, j)'
                                 <=> (y = "ref" /\ q = p /\ j = 0) \/ After(p, y, q, j)
            \/ /\ i \in Insts /\ made' = [made EXCEPT ![p] = i] /\ handle[p] # 0
               /\ handle' = handle /\ stat' = Set(stat, p, i, "dead")
               /\ \A y, q, j : H(t, y, q, j)' <=> y = "already" /\ q = p /\ j = 0
            \/ /\ UNCHANGED <<handle, made, stat>>
               /\ \A y, q, j : H(t, y, q, j)' <=> y = "clos" /\ q = "io" /\ j = 0 /\ p = "wp"
<1> DEFINE i == made[p] + 1
<1>1. At(t, "install", p, 0)
  BY DEF Install, Returns, Does
<1>2. /\ p \in Parts
      /\ \A y, q, j : H(t, y, q, j) <=> (y = "install" /\ q = p /\ j = 0) \/ After(p, y, q, j)
  BY <1>1, BuilderFacts
<1>3. CASE Does(t, "install", p, 0, <<<<"ref", p, 0>>>>)
           /\ i \in Insts /\ made' = [made EXCEPT ![p] = i] /\ handle[p] = 0
           /\ handle' = [handle EXCEPT ![p] = i] /\ stat' = Set(stat, p, i, "open")
  <2>1. Below("ref", p, 0, RestOf(p))
    BY DEF Below
  <2> HIDE DEF Does, Below, i
  <2>2. Only(t) /\ \A y, q, j : H(t, y, q, j)'
                                 <=> (y = "ref" /\ q = p /\ j = 0) \/ After(p, y, q, j)
    BY <1>3, <2>1, StepsAre, InstType, BuilderGoesOn
  <2>3. Calm
    BY <1>2, <2>2, CalmOnly DEF Owned, After
  <2> QED
    BY <1>2, <1>3, <2>2, <2>3 DEF i
<1>4. CASE Returns(t, "install", p, <<<<"already", p, 0>>>>)
           /\ i \in Insts /\ made' = [made EXCEPT ![p] = i] /\ handle[p] # 0
           /\ handle' = handle /\ stat' = Set(stat, p, i, "dead")
  <2>1. Only(t) /\ \A y, q, j : H(t, y, q, j)' <=> y = "already" /\ q = p /\ j = 0
    BY <1>4, ReturnsFacts
  <2>2. Calm
    BY <1>2, <2>1, CalmOnly DEF Owned, After
  <2> QED
    BY <1>2, <1>4, <2>1, <2>2
<1>5. CASE Returns(t, "install", p, Rollback(p)) /\ UNCHANGED <<handle, made, stat>>
  <2>1. Only(t) /\ \A y, q, j : H(t, y, q, j)' <=> y = "clos" /\ q = "io" /\ j = 0 /\ p = "wp"
    BY <1>5, ReturnsFacts
  <2>2. Calm
    BY <1>2, <2>1, CalmOnly DEF Owned, After
  <2> QED
    BY <1>2, <1>5, <2>1, <2>2
<1> QED
  BY <1>3, <1>4, <1>5 DEF Install

LEMMA RefDoes ==
  ASSUME TypeOK, Shapes, NEW t \in Threads, NEW p, Ref(t, p)
  PROVE  LET i == handle[p] IN
         /\ p \in Parts /\ Only(t)
         /\ \A y, q, j : H(t, y, q, j) <=> (y = "ref" /\ q = p /\ j = 0) \/ After(p, y, q, j)
         /\ \/ /\ i # 0 /\ stat[p][i] = "open" /\ refs' = Set(refs, p, i, refs[p][i] + 1)
               /\ \A y, q, j : H(t, y, q, j)'
                                 <=> (y = "setup" /\ q = p /\ j = i) \/ After(p, y, q, j)
            \/ /\ i # 0 => stat[p][i] # "open"
               /\ UNCHANGED refs /\ Calm
               /\ \A y, q, j : H(t, y, q, j)' <=> y = "clos" /\ q = "io" /\ j = 0 /\ p = "wp"
<1> DEFINE i == handle[p]
<1>1. At(t, "ref", p, 0)
  BY DEF Ref, Returns, Does
<1>2. /\ p \in Parts /\ i \in 0 .. MaxObjs
      /\ \A y, q, j : H(t, y, q, j) <=> (y = "ref" /\ q = p /\ j = 0) \/ After(p, y, q, j)
  BY <1>1, BuilderFacts DEF TypeOK
<1>3. CASE Does(t, "ref", p, 0, <<<<"setup", p, i>>>>)
           /\ i # 0 /\ stat[p][i] = "open" /\ refs' = Set(refs, p, i, refs[p][i] + 1)
  <2>1. Below("setup", p, i, RestOf(p))
    BY <1>2, <1>3 DEF Below, Insts
  <2> HIDE DEF Does, Below, i
  <2>2. Only(t) /\ \A y, q, j : H(t, y, q, j)'
                                 <=> (y = "setup" /\ q = p /\ j = i) \/ After(p, y, q, j)
    BY <1>2, <1>3, <2>1, StepsAre, InstType, BuilderGoesOn
  <2> QED
    BY <1>2, <1>3, <2>2 DEF i
<1>4. CASE Returns(t, "ref", p, Rollback(p)) /\ UNCHANGED refs /\ (i # 0 => stat[p][i] # "open")
  <2>1. Only(t) /\ \A y, q, j : H(t, y, q, j)' <=> y = "clos" /\ q = "io" /\ j = 0 /\ p = "wp"
    BY <1>4, ReturnsFacts
  <2>2. Calm
    BY <1>2, <2>1, CalmOnly DEF Owned, After
  <2> QED
    BY <1>2, <1>4, <2>1, <2>2
<1> QED
  BY <1>3, <1>4 DEF Ref

(* Nothing is left of tcp_init, or the attach of a link.                   *)
LEMMA ReturnDoes ==
  ASSUME TypeOK, Shapes, NEW t \in Threads, NEW p, Return(t, p)
  PROVE  /\ p \in Parts /\ Only(t) /\ Calm
         /\ \/ p = "wp" /\ \A y, q, j : H(t, y, q, j) <=> y = "zero" /\ q = p /\ j = 0
            \/ \A y, q, j : H(t, y, q, j) <=> y = "already" /\ q = p /\ j = 0
         /\ \A y, q, j : H(t, y, q, j)' => y = "aref" /\ q = "io" /\ j = 0
<1> PICK c \in {<< >>, Attach} : Does(t, "zero", p, 0, c) \/ Does(t, "already", p, 0, c)
  BY DEF Return
<1>1. PICK x \in {"zero", "already"} : Does(t, x, p, 0, c)
  OBVIOUS
<1>2. At(t, x, p, 0)
  BY <1>1 DEF Does
<1>3. /\ p \in Parts /\ Below(x, p, 0, Tail(todo[t]))
      /\ \A y, q, j : H(t, y, q, j) <=> (y = x /\ q = p /\ j = 0) \/ Has(Tail(todo[t]), y, q, j)
  BY <1>2, AtFacts
<1>4. Tail(todo[t]) = << >> /\ (x = "zero" => p = "wp")
  BY <1>3 DEF Below
<1>5. \A y, q, j : H(t, y, q, j) <=> y = x /\ q = p /\ j = 0
  <2>1. \A y, q, j : ~Has(Tail(todo[t]), y, q, j)
    BY <1>4, NoSteps
  <2> QED
    BY <1>3, <2>1
<1>6. Only(t) /\ \A y, q, j : H(t, y, q, j)' => y = "aref" /\ q = "io" /\ j = 0
  <2>1. CASE c = << >>
    <3>1. Leaves(t, << >>)
      <4> HIDE DEF Does, Leaves
      <4> QED
        BY <1>1, <1>4, <2>1, DoesLeaves
    <3>2. Good(<< >>)
      BY GoodRests
    <3> QED
      BY <3>1, <3>2, LeavesRest, NoSteps
  <2>2. CASE c = Attach
    <3>1. Leaves(t, Push(<<"aref", "io", 0>>, << >>))
      <4>1. Does(t, x, p, 0, <<<<"aref", "io", 0>>>>)
        BY <1>1, <2>2 DEF Attach
      <4> HIDE DEF Does, Leaves, Push, Steps, Parts
      <4> QED
        BY <1>4, <4>1, DoesLeaves, StepsAre, InstType
    <3>2. Below("aref", "io", 0, << >>)
      BY DEF Below
    <3> HIDE DEF Leaves, Push, Below
    <3>3. Only(t) /\ \A y, q, j : H(t, y, q, j)'
                       <=> (y = "aref" /\ q = "io" /\ j = 0) \/ Has(<< >>, y, q, j)
      BY <3>1, <3>2, LeavesPush, StepsAre, InstType, NoSteps
    <3> QED
      BY <3>3, NoSteps
  <2> QED
    BY <2>1, <2>2
<1>7. Calm
  BY <1>5, <1>6, CalmOnly DEF Owned
<1> QED
  BY <1>3, <1>4, <1>5, <1>6, <1>7

(* The set-up of a part goes on, with the reference.                       *)
LEMMA DivisionsDoes ==
  ASSUME TypeOK, Shapes, NEW t \in Threads, NEW i, Divisions(t, i), ub' = "no"
  PROVE  /\ i \in Insts /\ Only(t)
         /\ setup["io"][i] = "none" /\ setup' = Set(setup, "io", i, "divs")
         /\ UNCHANGED <<handle, made, obj, actived, thr, pool, ub, flags>>
         /\ \A y, q, j : H(t, y, q, j)
                           <=> (y = "setup" /\ q = "io" /\ j = i) \/ After("io", y, q, j)
         /\ \A y, q, j : H(t, y, q, j)'
                           <=> (y = "table" /\ q = "io" /\ j = i) \/ After("io", y, q, j)
<1>1. Does(t, "setup", "io", i, <<<<"table", "io", i>>>>)
  BY DEF Divisions, Undefined
<1>2. /\ setup["io"][i] = "none" /\ setup' = Set(setup, "io", i, "divs")
      /\ UNCHANGED <<handle, made, obj, actived, thr, pool, ub, flags>>
  BY DEF Divisions, Undefined
<1>3. At(t, "setup", "io", i)
  BY <1>1 DEF Does
<1>4. /\ i \in Insts /\ i \in 0 .. MaxObjs
      /\ \A y, q, j : H(t, y, q, j)
                        <=> (y = "setup" /\ q = "io" /\ j = i) \/ After("io", y, q, j)
  BY <1>3, BuilderFacts
<1>5. Below("table", "io", i, RestOf("io"))
  BY <1>4 DEF Below, RestOf
<1> HIDE DEF Does, Below
<1>6. Only(t) /\ \A y, q, j : H(t, y, q, j)'
                   <=> (y = "table" /\ q = "io" /\ j = i) \/ After("io", y, q, j)
  BY <1>1, <1>4, <1>5, StepsAre, BuilderGoesOn
<1> QED
  BY <1>2, <1>4, <1>6

LEMMA TableDoes ==
  ASSUME TypeOK, Shapes, NEW t \in Threads, NEW i, Table(t, i)
  PROVE  /\ i \in Insts /\ Only(t)
         /\ UNCHANGED <<handle, made, obj, actived, thr, pool, ub, selfjoin>>
         /\ \A y, q, j : H(t, y, q, j)
                           <=> (y = "table" /\ q = "io" /\ j = i) \/ After("io", y, q, j)
         /\ \/ /\ setup' = Set(setup, "io", i, "table") /\ UNCHANGED fault
               /\ \A y, q, j : H(t, y, q, j)'
                                 <=> (y = "threads" /\ q = "io" /\ j = i) \/ After("io", y, q, j)
            \/ /\ UNCHANGED setup /\ fault' = TRUE
               /\ \A y, q, j : H(t, y, q, j)' <=> y = "defr" /\ q = "io" /\ j = i
<1>1. At(t, "table", "io", i) /\ UNCHANGED <<handle, made, obj, actived, thr, pool, ub, selfjoin>>
  BY DEF Table, Does
<1>2. /\ i \in Insts /\ i \in 0 .. MaxObjs
      /\ \A y, q, j : H(t, y, q, j)
                        <=> (y = "table" /\ q = "io" /\ j = i) \/ After("io", y, q, j)
  BY <1>1, BuilderFacts
<1>3. CASE Does(t, "table", "io", i, <<<<"threads", "io", i>>>>)
           /\ setup' = Set(setup, "io", i, "table") /\ UNCHANGED fault
  <2>1. Below("threads", "io", i, RestOf("io"))
    BY <1>2 DEF Below, RestOf
  <2> HIDE DEF Does, Below
  <2>2. Only(t) /\ \A y, q, j : H(t, y, q, j)'
                     <=> (y = "threads" /\ q = "io" /\ j = i) \/ After("io", y, q, j)
    BY <1>2, <1>3, <2>1, StepsAre, BuilderGoesOn
  <2> QED
    BY <1>1, <1>2, <1>3, <2>2
<1>4. CASE Leaves(t, <<<<"defr", "io", i>>>>) /\ UNCHANGED setup /\ fault' = TRUE
  <2>1. Leaves(t, Push(<<"defr", "io", i>>, << >>))
    BY <1>2, <1>4, LiteralSteps, StepsAre
  <2>2. Below("defr", "io", i, << >>)
    BY <1>2, GoodRests DEF Below
  <2> HIDE DEF Leaves, Push, Below
  <2>3. Only(t) /\ \A y, q, j : H(t, y, q, j)'
                     <=> (y = "defr" /\ q = "io" /\ j = i) \/ Has(<< >>, y, q, j)
    BY <1>2, <2>1, <2>2, LeavesPush, StepsAre, NoSteps
  <2> QED
    BY <1>1, <1>2, <1>4, <2>3, NoSteps
<1> QED
  BY <1>3, <1>4 DEF Table, Leaves

LEMMA IoThreadsDoes ==
  ASSUME TypeOK, Shapes, NEW t \in Threads, NEW i, IoThreads(t, i)
  PROVE  /\ i \in Insts /\ Only(t)
         /\ UNCHANGED <<handle, made, obj, pool, ub, selfjoin>>
         /\ setup' = Set(setup, "io", i, "live")
         /\ \/ /\ actived' = Set(actived, "io", i, TRUE) /\ thr' = Set(thr, "io", i, "up")
               /\ UNCHANGED fault
            \/ /\ \E a \in BOOLEAN : actived' = Set(actived, "io", i, a)
               /\ fault' = TRUE /\ UNCHANGED thr
         /\ \A y, q, j : H(t, y, q, j)
                           <=> (y = "threads" /\ q = "io" /\ j = i) \/ After("io", y, q, j)
         /\ \A y, q, j : H(t, y, q, j)'
                           <=> (y = "defr" /\ q = "io" /\ j = i) \/ After("io", y, q, j)
<1>1. /\ Does(t, "threads", "io", i, <<<<"defr", "io", i>>>>)
      /\ UNCHANGED <<handle, made, obj, pool, ub, selfjoin>>
      /\ setup' = Set(setup, "io", i, "live")
      /\ \/ /\ actived' = Set(actived, "io", i, TRUE) /\ thr' = Set(thr, "io", i, "up")
            /\ UNCHANGED fault
         \/ /\ \E a \in BOOLEAN : actived' = Set(actived, "io", i, a)
            /\ fault' = TRUE /\ UNCHANGED thr
  BY DEF IoThreads
<1>2. At(t, "threads", "io", i)
  BY <1>1 DEF Does
<1>3. /\ i \in Insts /\ i \in 0 .. MaxObjs
      /\ \A y, q, j : H(t, y, q, j)
                        <=> (y = "threads" /\ q = "io" /\ j = i) \/ After("io", y, q, j)
  BY <1>2, BuilderFacts
<1>4. Below("defr", "io", i, RestOf("io"))
  BY <1>3, GoodRests, StepsAre DEF Below
<1> HIDE DEF Does, Below
<1>5. Only(t) /\ \A y, q, j : H(t, y, q, j)'
                   <=> (y = "defr" /\ q = "io" /\ j = i) \/ After("io", y, q, j)
  BY <1>1, <1>3, <1>4, StepsAre, BuilderGoesOn
<1> QED
  BY <1>1, <1>3, <1>5

LEMMA PoolThreadDoes ==
  ASSUME TypeOK, Shapes, NEW t \in Threads, NEW i, PoolThread(t, i), ub' = "no"
  PROVE  /\ i \in Insts /\ Only(t)
         /\ setup["wp"][i] = "none" /\ setup' = Set(setup, "wp", i, "live")
         /\ actived' = Set(actived, "wp", i, TRUE)
         /\ UNCHANGED <<handle, made, obj, pool, ub, selfjoin>>
         /\ \A y, q, j : H(t, y, q, j)
                           <=> (y = "setup" /\ q = "wp" /\ j = i) \/ After("wp", y, q, j)
         /\ \/ /\ thr' = Set(thr, "wp", i, "up") /\ UNCHANGED fault
               /\ \A y, q, j : H(t, y, q, j)'
                                 <=> (y = "defr" /\ q = "wp" /\ j = i) \/ After("wp", y, q, j)
            \/ /\ fault' = TRUE /\ UNCHANGED thr
               /\ \A y, q, j : H(t, y, q, j)'
                                 <=> (y = "defr" /\ q = "wp" /\ j = i) \/ (y = "clos" /\ q = "io" /\ j = 0)
<1> DEFINE Fails == Leaves(t, <<<<"defr", "wp", i>>>> \o Rollback("wp"))
<1>1. /\ At(t, "setup", "wp", i)
      /\ setup["wp"][i] = "none" /\ setup' = Set(setup, "wp", i, "live")
      /\ actived' = Set(actived, "wp", i, TRUE)
      /\ UNCHANGED <<handle, made, obj, pool, ub, selfjoin>>
      /\ \/ /\ thr' = Set(thr, "wp", i, "up") /\ UNCHANGED fault
            /\ Does(t, "setup", "wp", i, <<<<"defr", "wp", i>>>>)
         \/ fault' = TRUE /\ UNCHANGED thr /\ Fails
  BY DEF PoolThread, Undefined, Leaves
<1>2. /\ i \in Insts /\ i \in 0 .. MaxObjs
      /\ \A y, q, j : H(t, y, q, j)
                        <=> (y = "setup" /\ q = "wp" /\ j = i) \/ After("wp", y, q, j)
  BY <1>1, BuilderFacts
<1>3. Below("defr", "wp", i, RestOf("wp")) /\ Below("defr", "wp", i, Rollback("wp"))
  BY <1>2, GoodRests, RestOfFacts, StepsAre DEF Below
<1>4. CASE Does(t, "setup", "wp", i, <<<<"defr", "wp", i>>>>)
           /\ thr' = Set(thr, "wp", i, "up") /\ UNCHANGED fault
  <2> HIDE DEF Does, Below
  <2>1. Only(t) /\ \A y, q, j : H(t, y, q, j)'
                     <=> (y = "defr" /\ q = "wp" /\ j = i) \/ After("wp", y, q, j)
    BY <1>2, <1>3, <1>4, StepsAre, BuilderGoesOn
  <2> QED
    BY <1>1, <1>2, <1>4, <2>1
<1>5. CASE Fails /\ fault' = TRUE /\ UNCHANGED thr
  <2>1. <<<<"defr", "wp", i>>>> \o Rollback("wp") = Push(<<"defr", "wp", i>>, Rollback("wp"))
    BY DEF Push
  <2>2. Leaves(t, Push(<<"defr", "wp", i>>, Rollback("wp")))
    BY <1>5, <2>1
  <2> HIDE DEF Leaves, Push, Below, Fails
  <2>3. Only(t) /\ \A y, q, j : H(t, y, q, j)'
                     <=> (y = "defr" /\ q = "wp" /\ j = i) \/ Has(Rollback("wp"), y, q, j)
    BY <1>2, <1>3, <2>2, LeavesPush, StepsAre, RestOfFacts
  <2>4. Only(t) /\ \A y, q, j : H(t, y, q, j)'
                     <=> (y = "defr" /\ q = "wp" /\ j = i) \/ (y = "clos" /\ q = "io" /\ j = 0)
    BY <2>3, StepsAre, RestOfFacts
  <2> QED
    BY <1>1, <1>2, <1>5, <2>4
<1> QED
  BY <1>1, <1>4, <1>5

(* The reference is given back, by the last one with the destructor.       *)
LEMMA DefrDoes ==
  ASSUME TypeOK, Shapes, NEW t \in Threads, NEW p, NEW i, objdefr(t, p, i)
  PROVE  /\ p \in Parts /\ i \in Insts /\ Only(t)
         /\ refs' = Set(refs, p, i, refs[p][i] - 1)
         /\ \E r \in Rests :
              /\ \A y, q, j : H(t, y, q, j) <=> (y = "defr" /\ q = p /\ j = i) \/ Has(r, y, q, j)
              /\ \/ /\ stat[p][i] = "closing" /\ refs[p][i] = 1
                    /\ stat' = Set(stat, p, i, "dying")
                    /\ \A y, q, j : H(t, y, q, j)'
                         <=> (y \in {"stop", "join", "free"} /\ q = p /\ j = i) \/ Has(r, y, q, j)
                 \/ /\ ~(stat[p][i] = "closing" /\ refs[p][i] = 1)
                    /\ UNCHANGED stat
                    /\ \A y, q, j : H(t, y, q, j)' <=> Has(r, y, q, j)
         /\ UNCHANGED <<handle, made, setup, actived, thr, pool, ub, flags>>
<1> DEFINE r == Tail(todo[t])
<1>1. At(t, "defr", p, i) /\ refs' = Set(refs, p, i, refs[p][i] - 1)
      /\ UNCHANGED <<handle, made, setup, actived, thr, pool, ub, flags>>
  BY DEF objdefr
<1>2. /\ p \in Parts /\ Below("defr", p, i, r)
      /\ \A y, q, j : H(t, y, q, j) <=> (y = "defr" /\ q = p /\ j = i) \/ Has(r, y, q, j)
  BY <1>1, AtFacts
<1>3. i \in Insts /\ r \in Rests
  BY <1>2 DEF Below
<1>4. CASE Does(t, "defr", p, i, Destructor(p, i)) /\ stat' = Set(stat, p, i, "dying")
           /\ stat[p][i] = "closing" /\ refs[p][i] = 1
  <2> HIDE DEF r
  <2>1. Leaves(t, Whole(p, i, r))
    <3> HIDE DEF Does, Leaves, Whole, Parts, Insts
    <3> QED
      BY <1>2, <1>3, <1>4, DoesLeaves DEF r
  <2>2. Good(Whole(p, i, r))
    BY <1>2, <1>3, GoodDestructor
  <2>3. Only(t) /\ \A y, q, j : H(t, y, q, j)' <=> Has(Whole(p, i, r), y, q, j)
    BY <2>1, <2>2, LeavesRest
  <2>4. \A y, q, j : Has(Whole(p, i, r), y, q, j)
          <=> (y \in {"stop", "join", "free"} /\ q = p /\ j = i) \/ Has(r, y, q, j)
    BY <1>2, <1>3, DestructorFacts DEF Pushed
  <2>5. \A y, q, j : H(t, y, q, j)'
          <=> (y \in {"stop", "join", "free"} /\ q = p /\ j = i) \/ Has(r, y, q, j)
    BY <2>3, <2>4
  <2> QED
    BY <1>1, <1>2, <1>3, <1>4, <2>3, <2>5
<1>5. CASE Does(t, "defr", p, i, << >>) /\ UNCHANGED stat
           /\ ~(stat[p][i] = "closing" /\ refs[p][i] = 1)
  <2>1. Leaves(t, r)
    <3> HIDE DEF Does, Leaves
    <3> QED
      BY <1>5, DoesLeaves
  <2>2. Good(r)
    BY <1>3, GoodRests
  <2> HIDE DEF r
  <2>3. Only(t) /\ \A y, q, j : H(t, y, q, j)' <=> Has(r, y, q, j)
    BY <2>1, <2>2, LeavesRest
  <2> QED
    BY <1>1, <1>2, <1>3, <1>5, <2>3
<1> QED
  BY <1>4, <1>5 DEF objdefr

(* What is below a close: nothing, or the close of the pool.               *)
Closes(p, y, q, j) == p = "io" /\ y = "clos" /\ q = "wp" /\ j = 0

LEMMA ClosDoes ==
  ASSUME TypeOK, Shapes, NEW t \in Threads, NEW p, objclos(t, p)
  PROVE  LET i == handle[p] IN
         /\ p \in Parts /\ i \in 0 .. MaxObjs /\ Only(t)
         /\ \E r \in {<< >>, CloseWp} :
              /\ \A y, q, j : H(t, y, q, j) <=> (y = "clos" /\ q = p /\ j = 0) \/ Has(r, y, q, j)
              /\ \A y, q, j : Has(r, y, q, j) => Closes(p, y, q, j)
              /\ \/ /\ i # 0 /\ stat[p][i] = "open" /\ refs[p][i] = 0
                    /\ stat' = Set(stat, p, i, "dying")
                    /\ \A y, q, j : H(t, y, q, j)'
                         <=> (y \in {"stop", "join", "free"} /\ q = p /\ j = i) \/ Has(r, y, q, j)
                 \/ /\ \/ /\ i # 0 /\ stat[p][i] = "open" /\ refs[p][i] > 0
                          /\ stat' = Set(stat, p, i, "closing")
                       \/ /\ i # 0 => stat[p][i] # "open"
                          /\ UNCHANGED stat
                    /\ Calm
                    /\ \A y, q, j : H(t, y, q, j)' <=> Has(r, y, q, j)
         /\ UNCHANGED <<handle, made, refs, setup, actived, thr, pool, ub, flags>>
<1> DEFINE r == Tail(todo[t])
           i == handle[p]
<1>1. At(t, "clos", p, 0)
      /\ UNCHANGED <<handle, made, refs, setup, actived, thr, pool, ub, flags>>
  BY DEF objclos
<1>2. /\ p \in Parts /\ Below("clos", p, 0, r)
      /\ \A y, q, j : H(t, y, q, j) <=> (y = "clos" /\ q = p /\ j = 0) \/ Has(r, y, q, j)
  BY <1>1, AtFacts
<1>3. /\ r \in {<< >>, CloseWp} /\ Good(r) /\ r \in Rests
      /\ \A y, q, j : Has(r, y, q, j) => Closes(p, y, q, j)
  <2>1. r = << >> \/ (p = "io" /\ r = CloseWp)
    BY <1>2 DEF Below
  <2> HIDE DEF r
  <2>2. CASE r = << >>
    BY <2>2, GoodRests, NoSteps
  <2>3. CASE p = "io" /\ r = CloseWp
    BY <2>3, GoodRests, RestOfFacts DEF Closes
  <2> QED
    BY <2>1, <2>2, <2>3
<1>4. i \in 0 .. MaxObjs
  BY <1>2 DEF TypeOK
<1>5. CASE Does(t, "clos", p, 0, Destructor(p, i)) /\ stat' = Set(stat, p, i, "dying")
           /\ i # 0 /\ stat[p][i] = "open" /\ refs[p][i] = 0
  <2> HIDE DEF r, i
  <2>0. i \in Insts
    BY <1>4, <1>5, LibAssumption DEF Insts
  <2>1. Leaves(t, Whole(p, i, r))
    <3> HIDE DEF Does, Leaves, Whole, Parts, Insts
    <3> QED
      BY <1>2, <2>0, <1>5, DoesLeaves DEF r
  <2>2. Good(Whole(p, i, r))
    BY <1>2, <1>3, <2>0, GoodDestructor
  <2>3. Only(t) /\ \A y, q, j : H(t, y, q, j)' <=> Has(Whole(p, i, r), y, q, j)
    BY <2>1, <2>2, LeavesRest
  <2>4. \A y, q, j : Has(Whole(p, i, r), y, q, j)
          <=> (y \in {"stop", "join", "free"} /\ q = p /\ j = i) \/ Has(r, y, q, j)
    BY <1>2, <1>3, <2>0, DestructorFacts DEF Pushed
  <2>5. \A y, q, j : H(t, y, q, j)'
          <=> (y \in {"stop", "join", "free"} /\ q = p /\ j = i) \/ Has(r, y, q, j)
    BY <2>3, <2>4
  <2> QED
    BY <1>1, <1>2, <1>3, <1>4, <1>5, <2>3, <2>5 DEF i
<1>6. CASE /\ Does(t, "clos", p, 0, << >>)
           /\ \/ /\ i # 0 /\ stat[p][i] = "open" /\ refs[p][i] > 0
                 /\ stat' = Set(stat, p, i, "closing")
              \/ /\ i # 0 => stat[p][i] # "open"
                 /\ UNCHANGED stat
  <2>1. Leaves(t, r)
    <3> HIDE DEF Does, Leaves
    <3> QED
      BY <1>6, DoesLeaves
  <2> HIDE DEF r, i
  <2>2. Only(t) /\ \A y, q, j : H(t, y, q, j)' <=> Has(r, y, q, j)
    BY <1>3, <2>1, LeavesRest
  <2>3. Calm
    BY <1>2, <1>3, <2>2, CalmOnly DEF Owned, Closes
  <2> QED
    BY <1>1, <1>2, <1>3, <1>4, <1>6, <2>2, <2>3 DEF i
<1> QED
  BY <1>5, <1>6 DEF objclos

(* The destructor, step by step.                                           *)
(* actived is reset, or was already, and the join left out.                *)
Stops(t, p, i, r) ==
  /\ \A y, q, j : H(t, y, q, j)
       <=> (y \in {"stop", "join", "free"} /\ q = p /\ j = i) \/ Has(r, y, q, j)
  /\ \/ /\ actived[p][i] /\ actived' = Set(actived, p, i, FALSE)
        /\ \A y, q, j : H(t, y, q, j)'
             <=> (y \in {"join", "free"} /\ q = p /\ j = i) \/ Has(r, y, q, j)
     \/ /\ ~actived[p][i] /\ UNCHANGED actived
        /\ \A y, q, j : H(t, y, q, j)'
             <=> (y = "free" /\ q = p /\ j = i) \/ Has(r, y, q, j)

LEMMA StopDoes ==
  ASSUME TypeOK, Shapes, NEW t \in Threads, NEW p, NEW i, Stop(t, p, i), ub' = "no"
  PROVE  /\ p \in Parts /\ i \in Insts /\ Only(t) /\ setup[p][i] # "divs"
         /\ \E r \in Rests : Stops(t, p, i, r)
         /\ UNCHANGED <<handle, made, obj, setup, thr, pool, ub, flags>>
<1> USE DEF Stops
<1> DEFINE s == Tail(todo[t])
<1>1. At(t, "stop", p, i) /\ setup[p][i] # "divs"
      /\ UNCHANGED <<handle, made, obj, setup, thr, pool, ub, flags>>
      /\ \/ /\ actived[p][i] /\ actived' = Set(actived, p, i, FALSE)
            /\ Does(t, "stop", p, i, << >>)
         \/ /\ ~actived[p][i] /\ UNCHANGED actived
            /\ Leaves(t, Tail(Tail(todo[t])))
  <2>1. todo \in [Threads -> Seq(AStep)]
    BY StacksType
  <2> QED
    BY <2>1 DEF Stop, Undefined, Leaves
<1>2. /\ p \in Parts /\ Below("stop", p, i, s)
      /\ \A y, q, j : H(t, y, q, j) <=> (y = "stop" /\ q = p /\ j = i) \/ Has(s, y, q, j)
  BY <1>1, AtFacts
<1>3. i \in Insts /\ \E r \in Rests : s = Joining(p, i, r)
  BY <1>2 DEF Below
<1>4. PICK r \in Rests : s = Joining(p, i, r)
  BY <1>3
<1>5. /\ Good(s) /\ Good(Last(p, i, r)) /\ Tail(s) = Last(p, i, r)
      /\ \A y, q, j : /\ Has(Last(p, i, r), y, q, j)
                           <=> (y = "free" /\ q = p /\ j = i) \/ Has(r, y, q, j)
                      /\ Has(s, y, q, j)
                           <=> (y \in {"join", "free"} /\ q = p /\ j = i) \/ Has(r, y, q, j)
  <2> HIDE DEF s
  <2>1. Good(s) /\ Good(Last(p, i, r))
    BY <1>2, <1>3, <1>4, GoodDestructor
  <2>2. /\ Pushed(Last(p, i, r), "free", p, i, r) /\ Pushed(s, "join", p, i, Last(p, i, r))
    BY <1>2, <1>3, <1>4, DestructorFacts
  <2> QED
    BY <2>1, <2>2 DEF Pushed
<1>6. \A y, q, j : H(t, y, q, j)
        <=> (y \in {"stop", "join", "free"} /\ q = p /\ j = i) \/ Has(r, y, q, j)
  <2> HIDE DEF s
  <2> QED
    BY <1>2, <1>5
<1>7. CASE /\ actived[p][i] /\ actived' = Set(actived, p, i, FALSE)
           /\ Does(t, "stop", p, i, << >>)
  <2>1. Leaves(t, s)
    <3> HIDE DEF Does, Leaves
    <3> QED
      BY <1>7, DoesLeaves
  <2> HIDE DEF s
  <2>2. Only(t) /\ \A y, q, j : H(t, y, q, j)' <=> Has(s, y, q, j)
    BY <1>5, <2>1, LeavesRest
  <2>3. \A y, q, j : H(t, y, q, j)'
          <=> (y \in {"join", "free"} /\ q = p /\ j = i) \/ Has(r, y, q, j)
    BY <1>5, <2>2
  <2> QED
    BY <1>1, <1>2, <1>3, <1>6, <1>7, <2>2, <2>3
<1>8. CASE /\ ~actived[p][i] /\ UNCHANGED actived
           /\ Leaves(t, Tail(Tail(todo[t])))
  <2>1. Leaves(t, Last(p, i, r))
    BY <1>5, <1>8
  <2> HIDE DEF s, Leaves
  <2>2. Only(t) /\ \A y, q, j : H(t, y, q, j)' <=> Has(Last(p, i, r), y, q, j)
    BY <1>5, <2>1, LeavesRest
  <2>3. \A y, q, j : H(t, y, q, j)'
          <=> (y = "free" /\ q = p /\ j = i) \/ Has(r, y, q, j)
    BY <1>5, <2>2
  <2> QED
    BY <1>1, <1>2, <1>3, <1>6, <1>8, <2>2, <2>3
<1> QED
  BY <1>1, <1>7, <1>8

LEMMA JoinDoes ==
  ASSUME TypeOK, Shapes, NEW t \in Threads, NEW p, NEW i, Join(t, p, i), ub' = "no"
  PROVE  /\ p \in Parts /\ i \in Insts /\ Only(t)
         /\ thr[p][i] = "ended" \/ t = Own(p, i)
         /\ selfjoin' = IF t = Own(p, i) THEN selfjoin \cup {t} ELSE selfjoin
         /\ \E r \in Rests :
              /\ \A y, q, j : H(t, y, q, j)
                   <=> (y \in {"join", "free"} /\ q = p /\ j = i) \/ Has(r, y, q, j)
              /\ \A y, q, j : H(t, y, q, j)'
                   <=> (y = "free" /\ q = p /\ j = i) \/ Has(r, y, q, j)
         /\ UNCHANGED <<handle, made, obj, setup, actived, thr, pool, ub, fault>>
<1> DEFINE s == Tail(todo[t])
<1>1. /\ At(t, "join", p, i) /\ Does(t, "join", p, i, << >>)
      /\ thr[p][i] = "ended" \/ t = Own(p, i)
      /\ selfjoin' = IF t = Own(p, i) THEN selfjoin \cup {t} ELSE selfjoin
      /\ UNCHANGED <<handle, made, obj, setup, actived, thr, pool, ub, fault>>
  BY DEF Join, Undefined
<1>2. /\ p \in Parts /\ Below("join", p, i, s)
      /\ \A y, q, j : H(t, y, q, j) <=> (y = "join" /\ q = p /\ j = i) \/ Has(s, y, q, j)
  BY <1>1, AtFacts
<1>3. i \in Insts /\ \E r \in Rests : s = Last(p, i, r)
  BY <1>2 DEF Below
<1>4. PICK r \in Rests : s = Last(p, i, r)
  BY <1>3
<1>5. /\ Good(s)
      /\ \A y, q, j : Has(s, y, q, j) <=> (y = "free" /\ q = p /\ j = i) \/ Has(r, y, q, j)
  <2> HIDE DEF s
  <2> QED
    BY <1>2, <1>3, <1>4, GoodDestructor, DestructorFacts DEF Pushed
<1>6. Leaves(t, s)
  <2> HIDE DEF Does, Leaves
  <2> QED
    BY <1>1, DoesLeaves
<1> HIDE DEF s
<1>7. Only(t) /\ \A y, q, j : H(t, y, q, j)' <=> Has(s, y, q, j)
  BY <1>5, <1>6, LeavesRest
<1>8. /\ \A y, q, j : H(t, y, q, j)
           <=> (y \in {"join", "free"} /\ q = p /\ j = i) \/ Has(r, y, q, j)
      /\ \A y, q, j : H(t, y, q, j)' <=> (y = "free" /\ q = p /\ j = i) \/ Has(r, y, q, j)
  BY <1>2, <1>5, <1>7
<1> QED
  BY <1>1, <1>2, <1>3, <1>7, <1>8

LEMMA FreeDoes ==
  ASSUME TypeOK, Shapes, NEW t \in Threads, NEW p, NEW i, Free(t, p, i)
  PROVE  /\ p \in Parts /\ i \in Insts /\ Only(t)
         /\ setup' = Set(setup, p, i, "freed")
         /\ tasks' = IF p = "wp" THEN [tasks EXCEPT ![i] = 0] ELSE tasks
         /\ handle' = IF handle[p] = i THEN [handle EXCEPT ![p] = 0] ELSE handle
         /\ stat' = Set(stat, p, i, "dead")
         /\ \E r \in Rests :
              /\ \A y, q, j : H(t, y, q, j) <=> (y = "free" /\ q = p /\ j = i) \/ Has(r, y, q, j)
              /\ \A y, q, j : H(t, y, q, j)' <=> Has(r, y, q, j)
         /\ UNCHANGED <<made, refs, actived, thr, lost, ub, flags>>
<1> DEFINE r == Tail(todo[t])
<1>1. Does(t, "free", p, i, << >>)
  BY DEF Free
<1>2. At(t, "free", p, i)
  BY <1>1 DEF Does
<1>3. /\ p \in Parts /\ Below("free", p, i, r)
      /\ \A y, q, j : H(t, y, q, j) <=> (y = "free" /\ q = p /\ j = i) \/ Has(r, y, q, j)
  BY <1>2, AtFacts
<1>4. i \in Insts /\ r \in Rests
  BY <1>3 DEF Below
<1>5. Leaves(t, r) /\ Good(r)
  <2>1. Leaves(t, r)
    <3> HIDE DEF Does, Leaves
    <3> QED
      BY <1>1, DoesLeaves
  <2> HIDE DEF r
  <2> QED
    BY <1>4, <2>1, GoodRests
<1> HIDE DEF r
<1>6. Only(t) /\ \A y, q, j : H(t, y, q, j)' <=> Has(r, y, q, j)
  BY <1>5, LeavesRest
<1> QED
  BY <1>3, <1>4, <1>6 DEF Free

(* A reference is taken for a call.                                        *)
LEMMA EnterDoes ==
  ASSUME TypeOK, Shapes, NEW t \in Threads, NEW s, NEW p, NEW next,
         Enter(t, s, p, next), <<s, p, next>> \in {<<"aref", "io", "use">>, <<"qref", "wp", "put">>}
  PROVE  LET i == handle[p] IN
         /\ p \in Parts /\ Only(t)
         /\ \A y, q, j : H(t, y, q, j) <=> y = s /\ q = p /\ j = 0
         /\ \/ /\ i \in Insts /\ stat[p][i] = "open" /\ refs' = Set(refs, p, i, refs[p][i] + 1)
               /\ \A y, q, j : H(t, y, q, j)' <=> y \in {next, "defr"} /\ q = p /\ j = i
            \/ /\ UNCHANGED refs /\ Calm
               /\ \A y, q, j : ~H(t, y, q, j)'
         /\ UNCHANGED <<handle, made, stat, setup, actived, thr, pool, ub, flags>>
<1> DEFINE r == Tail(todo[t])
           i == handle[p]
<1>1. /\ At(t, s, p, 0) /\ UNCHANGED <<handle, made, stat, setup, actived, thr, pool, ub, flags>>
      /\ \/ /\ i # 0 /\ stat[p][i] = "open" /\ refs' = Set(refs, p, i, refs[p][i] + 1)
            /\ Does(t, s, p, 0, <<<<next, p, i>>, <<"defr", p, i>>>>)
         \/ UNCHANGED refs /\ Does(t, s, p, 0, << >>)
  BY DEF Enter, Does
<1>2. /\ p \in Parts /\ Below(s, p, 0, r)
      /\ \A y, q, j : H(t, y, q, j) <=> (y = s /\ q = p /\ j = 0) \/ Has(r, y, q, j)
  BY <1>1, AtFacts
<1>3. (s = "aref" /\ p = "io" /\ next = "use") \/ (s = "qref" /\ p = "wp" /\ next = "put")
  OBVIOUS
<1>4. r = << >> /\ \A y, q, j : H(t, y, q, j) <=> y = s /\ q = p /\ j = 0
  <2>1. r = << >>
    BY <1>2, <1>3 DEF Below
  <2>2. \A y, q, j : ~Has(r, y, q, j)
    BY <2>1, NoSteps
  <2> HIDE DEF r
  <2> QED
    BY <1>2, <2>1, <2>2
<1>5. i \in 0 .. MaxObjs
  BY <1>2 DEF TypeOK
<1>6. CASE /\ i # 0 /\ stat[p][i] = "open" /\ refs' = Set(refs, p, i, refs[p][i] + 1)
           /\ Does(t, s, p, 0, <<<<next, p, i>>, <<"defr", p, i>>>>)
  <2> HIDE DEF i, r
  <2>1. i \in Insts
    BY <1>5, <1>6, LibAssumption DEF Insts
  <2>2. next \in Steps
    BY <1>3, StepsAre
  <2>3. Leaves(t, Push(<<next, p, i>>, Push(<<"defr", p, i>>, << >>)))
    <3> HIDE DEF Does, Leaves, Push, Steps, Parts
    <3> QED
      BY <1>2, <1>4, <1>5, <1>6, <2>2, DoesLeaves, StepsAre DEF r
  <2>4. Pushed(Push(<<"defr", p, i>>, << >>), "defr", p, i, << >>)
    <3> HIDE DEF Push, Pushed, Steps, Parts
    <3> QED
      BY <1>2, <1>5, PushStep, StepsAre, NoSteps
  <2>5. Below(next, p, i, Push(<<"defr", p, i>>, << >>))
    BY <1>3, <2>1 DEF Below
  <2>6. Push(<<"defr", p, i>>, << >>) \in Seq(AStep)
        /\ \A y, q, j : Has(Push(<<"defr", p, i>>, << >>), y, q, j) <=> y = "defr" /\ q = p /\ j = i
    <3> HIDE DEF Push
    <3> QED
      BY <2>4, NoSteps DEF Pushed
  <2> HIDE DEF Leaves, Push, Below, Steps, Parts
  <2>7. /\ Only(t)
        /\ \A y, q, j : H(t, y, q, j)'
             <=> (y = next /\ q = p /\ j = i) \/ Has(Push(<<"defr", p, i>>, << >>), y, q, j)
    BY <1>2, <1>5, <2>2, <2>3, <2>5, <2>6, LeavesPush
  <2>8. \A y, q, j : H(t, y, q, j)' <=> y \in {next, "defr"} /\ q = p /\ j = i
    BY <2>6, <2>7
  <2> QED
    BY <1>1, <1>2, <1>4, <1>6, <2>1, <2>7, <2>8 DEF i
<1>7. CASE UNCHANGED refs /\ Does(t, s, p, 0, << >>)
  <2>1. Leaves(t, << >>)
    <3> HIDE DEF Does, Leaves
    <3> QED
      BY <1>4, <1>7, DoesLeaves
  <2>2. Only(t) /\ \A y, q, j : ~H(t, y, q, j)'
    BY <2>1, GoodRests, LeavesRest, NoSteps
  <2>3. Calm
    BY <1>3, <1>4, <2>2, CalmOnly DEF Owned
  <2> QED
    BY <1>1, <1>2, <1>4, <1>7, <2>2, <2>3
<1> QED
  BY <1>1, <1>6, <1>7

(* The call is done, its reference still to be given back.                 *)
LEMMA CallDoes ==
  ASSUME TypeOK, Shapes, NEW t \in Threads, NEW x \in {"use", "put"}, NEW p, NEW i,
         At(t, x, p, i)
  PROVE  /\ p \in Parts /\ i \in Insts /\ H(t, "defr", p, i)
         /\ Does(t, x, p, i, << >>)
              => Only(t) /\ Calm /\ \A y, q, j : H(t, y, q, j)' <=> y = "defr" /\ q = p /\ j = i
<1> DEFINE r == Tail(todo[t])
<1>1. /\ p \in Parts /\ Below(x, p, i, r)
      /\ \A y, q, j : H(t, y, q, j) <=> (y = x /\ q = p /\ j = i) \/ Has(r, y, q, j)
  BY AtFacts
<1>2. i \in Insts /\ i \in 0 .. MaxObjs /\ r = Push(<<"defr", p, i>>, << >>)
  BY <1>1, InstType DEF Below
<1>3. Pushed(r, "defr", p, i, << >>)
  <2> HIDE DEF r, Push, Pushed, Steps, Parts
  <2> QED
    BY <1>1, <1>2, PushStep, StepsAre, NoSteps
<1>4. Good(r)
  <2>1. Below("defr", p, i, << >>)
    BY <1>2, GoodRests DEF Below
  <2> HIDE DEF r
  <2>2. Shaped(r)
    BY <1>3, <2>1, ShapedPushed
  <2> QED
    BY <1>3, <2>2 DEF Good, Pushed
<1>5. \A y, q, j : Has(r, y, q, j) <=> y = "defr" /\ q = p /\ j = i
  <2> HIDE DEF r
  <2> QED
    BY <1>3, NoSteps DEF Pushed
<1>6. ASSUME Does(t, x, p, i, << >>)
      PROVE  Only(t) /\ Calm /\ \A y, q, j : H(t, y, q, j)' <=> y = "defr" /\ q = p /\ j = i
  <2>1. Leaves(t, r)
    <3> HIDE DEF Does, Leaves
    <3> QED
      BY <1>6, DoesLeaves
  <2> HIDE DEF r
  <2>2. Only(t) /\ \A y, q, j : H(t, y, q, j)' <=> Has(r, y, q, j)
    BY <1>4, <2>1, LeavesRest
  <2>3. Calm
    BY <1>1, <1>5, <2>2, CalmOnly DEF Owned
  <2> QED
    BY <1>5, <2>2, <2>3
<1> HIDE DEF r
<1> QED
  BY <1>1, <1>2, <1>5, <1>6

(* A thread that goes on with nothing, or with a call.                     *)
LEMMA CallLeaves ==
  ASSUME TypeOK, Shapes, NEW t \in Threads, NEW c \in {<< >>, Attach, Queue}, Leaves(t, c)
  PROVE  Only(t) /\ \A y, q, j : H(t, y, q, j)' => y \in {"aref", "qref"} /\ j = 0
<1>1. CASE c = << >>
  BY <1>1, GoodRests, LeavesRest, NoSteps
<1>2. CASE c # << >>
  <2>1. PICK x \in {"aref", "qref"}, p \in Parts : c = <<<<x, p, 0>>>> /\ Below(x, p, 0, << >>)
    <3>1. c = <<<<"aref", "io", 0>>>> \/ c = <<<<"qref", "wp", 0>>>>
      BY <1>2 DEF Attach, Queue
    <3>2. Below("aref", "io", 0, << >>) /\ Below("qref", "wp", 0, << >>)
      BY DEF Below
    <3> HIDE DEF Below
    <3> QED
      BY <3>1, <3>2, StepsAre
  <2>2. x \in Steps
    BY StepsAre
  <2>3. Leaves(t, Push(<<x, p, 0>>, << >>))
    BY <2>1, <2>2, LiteralSteps, InstType
  <2> HIDE DEF Leaves, Push, Below, Parts, Steps
  <2>4. /\ Only(t)
        /\ \A y, q, j : H(t, y, q, j)' <=> (y = x /\ q = p /\ j = 0) \/ Has(<< >>, y, q, j)
    BY <2>1, <2>2, <2>3, LeavesPush, InstType, NoSteps
  <2> QED
    BY <2>4, NoSteps
<1> QED
  BY <1>1, <1>2

(* A thread of the library starts on a handler or a task.                  *)
LEMMA HandleDoes ==
  ASSUME TypeOK, Shapes, NEW i \in Insts, Handle(i)
  PROVE  /\ Own("io", i) \in Threads /\ Only(Own("io", i)) /\ Calm
         /\ \A y, q, j : ~H(Own("io", i), y, q, j)
         /\ \A y, q, j : H(Own("io", i), y, q, j)' => y \in {"aref", "qref"} /\ j = 0
<1> DEFINE t == Own("io", i)
<1>1. t \in Threads
  BY StepsAre DEF Threads, Workers
<1>2. PICK c \in {Attach, Queue} : Starts(t, c)
  BY DEF Handle
<1>3. (\A y, q, j : ~H(t, y, q, j)) /\ Leaves(t, c)
  BY <1>1, <1>2, IdleFacts
<1>4. Only(t) /\ \A y, q, j : H(t, y, q, j)' => y \in {"aref", "qref"} /\ j = 0
  BY <1>1, <1>3, CallLeaves
<1>5. Calm
  BY <1>1, <1>3, <1>4, CalmOnly DEF Owned
<1> QED
  BY <1>1, <1>3, <1>4, <1>5

LEMMA TakeDoes ==
  ASSUME TypeOK, Shapes, NEW i \in Insts, Take(i)
  PROVE  /\ Own("wp", i) \in Threads /\ Only(Own("wp", i))
         /\ \A y, q, j : ~H(Own("wp", i), y, q, j)
         /\ \A y, q, j : H(Own("wp", i), y, q, j)' <=> y = "exec" /\ q = "wp" /\ j = i
<1> DEFINE t == Own("wp", i)
<1>1. t \in Threads
  BY StepsAre DEF Threads, Workers
<1>2. Starts(t, <<<<"exec", "wp", i>>>>)
  BY DEF Take
<1>3. (\A y, q, j : ~H(t, y, q, j)) /\ Leaves(t, <<<<"exec", "wp", i>>>>)
  BY <1>1, <1>2, IdleFacts
<1>4. i \in 0 .. MaxObjs /\ Below("exec", "wp", i, << >>)
  BY InstType DEF Below
<1>5. Leaves(t, Push(<<"exec", "wp", i>>, << >>))
  BY <1>3, <1>4, LiteralSteps, StepsAre
<1> HIDE DEF t, Leaves, Push, Below, Parts, Steps
<1>6. /\ Only(t)
      /\ \A y, q, j : H(t, y, q, j)' <=> (y = "exec" /\ q = "wp" /\ j = i) \/ Has(<< >>, y, q, j)
  BY <1>1, <1>4, <1>5, LeavesPush, NoSteps, StepsAre
<1>7. \A y, q, j : H(t, y, q, j)' <=> y = "exec" /\ q = "wp" /\ j = i
  BY <1>6, NoSteps
<1> QED
  BY <1>1, <1>3, <1>6, <1>7 DEF t

LEMMA ExecDoes ==
  ASSUME TypeOK, Shapes, NEW i, Exec(i), Own("wp", i) \in Threads
  PROVE  /\ i \in Insts /\ Only(Own("wp", i))
         /\ \A y, q, j : H(Own("wp", i), y, q, j) <=> y = "exec" /\ q = "wp" /\ j = i
         /\ \A y, q, j : H(Own("wp", i), y, q, j)' => y \in {"aref", "qref"} /\ j = 0
<1> DEFINE t == Own("wp", i)
           r == Tail(todo[t])
<1>1. At(t, "exec", "wp", i) /\ \E c \in {<< >>, Attach, Queue} : Does(t, "exec", "wp", i, c)
  <2>1. Calls(PoolCalls) \subseteq {Attach, Queue}
    BY DEF Calls
  <2> QED
    BY <2>1 DEF Exec
<1>2. PICK c \in {<< >>, Attach, Queue} : Does(t, "exec", "wp", i, c)
  BY <1>1
<1>3. /\ Below("exec", "wp", i, r)
      /\ \A y, q, j : H(t, y, q, j) <=> (y = "exec" /\ q = "wp" /\ j = i) \/ Has(r, y, q, j)
  BY <1>1, AtFacts
<1>4. i \in Insts /\ r = << >>
  BY <1>3 DEF Below
<1>5. \A y, q, j : H(t, y, q, j) <=> y = "exec" /\ q = "wp" /\ j = i
  <2>1. \A y, q, j : ~Has(r, y, q, j)
    BY <1>4, NoSteps
  <2> HIDE DEF r
  <2> QED
    BY <1>3, <2>1
<1>6. Leaves(t, c)
  <2>1. CASE c = << >>
    <3> HIDE DEF Does, Leaves
    <3> QED
      BY <1>2, <1>4, <2>1, DoesLeaves
  <2>2. CASE c # << >>
    <3>1. PICK x \in {"aref", "qref"}, p \in Parts : c = <<<<x, p, 0>>>>
      <4>1. c = <<<<"aref", "io", 0>>>> \/ c = <<<<"qref", "wp", 0>>>>
        BY <2>2 DEF Attach, Queue
      <4> QED
        BY <4>1, StepsAre
    <3>2. x \in Steps
      BY StepsAre
    <3>3. Leaves(t, Push(<<x, p, 0>>, << >>))
      <4>1. Does(t, "exec", "wp", i, <<<<x, p, 0>>>>) /\ r = << >>
        BY <1>2, <1>4, <3>1
      <4> HIDE DEF Does, Leaves, Push, Steps, Parts
      <4> QED
        BY <3>2, <4>1, DoesLeaves, InstType
    <3> QED
      BY <3>1, <3>2, <3>3, LiteralSteps, InstType
  <2> QED
    BY <2>1, <2>2
<1>7. Only(t) /\ \A y, q, j : H(t, y, q, j)' => y \in {"aref", "qref"} /\ j = 0
  BY <1>6, CallLeaves
<1> QED
  BY <1>4, <1>5, <1>7

-----------------------------------------------------------------------------
(***************************************************************************)
(* Counting references, and instances a step leaves alone.                 *)
(***************************************************************************)
LEMMA ThreadsFinite == IsFiniteSet(Threads)
<1>1. IsFiniteSet(Insts)
  BY FS_Interval, LibAssumption DEF Insts
<1>2. IsFiniteSet(Parts)
  <2>1. IsFiniteSet({"io"})
    BY FS_Singleton
  <2>2. IsFiniteSet({"io"} \cup {"wp"})
    BY <2>1, FS_AddElement
  <2>3. Parts = {"io"} \cup {"wp"}
    BY DEF Parts
  <2> QED
    BY <2>2, <2>3
<1>3. Workers = Parts \X Insts
  BY DEF Workers, Own
<1>4. IsFiniteSet(Workers)
  BY <1>1, <1>2, <1>3, FS_Product
<1> QED
  BY <1>4, FS_Union, LibAssumption DEF Threads

LEMMA RefsFinite ==
  \A p \in Parts, i \in Insts :
    /\ IsFiniteSet(Refs(p, i)) /\ Cardinality(Refs(p, i)) \in Nat
    /\ Cardinality(Refs(p, i)) = 0 <=> Refs(p, i) = {}
<1> TAKE p \in Parts, i \in Insts
<1>1. Refs(p, i) \in SUBSET Threads
  BY DEF Refs
<1>2. IsFiniteSet(Refs(p, i))
  BY <1>1, ThreadsFinite, FS_Subset
<1> QED
  BY <1>2, FS_CardinalityType, FS_EmptySet

LEMMA RefsStep ==
  ASSUME NEW t \in Threads, NEW p \in Parts, NEW i \in Insts,
         \A u \in Threads \ {t} : Holds(u, p, i)' <=> Holds(u, p, i)
  PROVE  /\ (Holds(t, p, i)' <=> Holds(t, p, i)) => Refs(p, i)' = Refs(p, i)
         /\ ~Holds(t, p, i) /\ Holds(t, p, i)'
              => Cardinality(Refs(p, i)') = Cardinality(Refs(p, i)) + 1
         /\ Holds(t, p, i) /\ ~Holds(t, p, i)'
              => /\ Cardinality(Refs(p, i)') = Cardinality(Refs(p, i)) - 1
                 /\ Cardinality(Refs(p, i)) \in Nat \ {0}
                 /\ Cardinality(Refs(p, i)) = 1 => Refs(p, i)' = {}
<1>1. IsFiniteSet(Refs(p, i)) /\ Cardinality(Refs(p, i)) \in Nat
      /\ (Cardinality(Refs(p, i)) = 0 <=> Refs(p, i) = {})
  BY RefsFinite
<1>2. (Holds(t, p, i)' <=> Holds(t, p, i)) => Refs(p, i)' = Refs(p, i)
  BY DEF Refs, Threads, Workers, Own
<1>3. ASSUME ~Holds(t, p, i), Holds(t, p, i)'
      PROVE  Cardinality(Refs(p, i)') = Cardinality(Refs(p, i)) + 1
  <2>1. Refs(p, i)' = Refs(p, i) \cup {t} /\ t \notin Refs(p, i)
    BY <1>3 DEF Refs
  <2> QED
    BY <1>1, <2>1, FS_AddElement
<1>4. ASSUME Holds(t, p, i), ~Holds(t, p, i)'
      PROVE  /\ Cardinality(Refs(p, i)') = Cardinality(Refs(p, i)) - 1
             /\ Cardinality(Refs(p, i)) \in Nat \ {0}
             /\ Cardinality(Refs(p, i)) = 1 => Refs(p, i)' = {}
  <2>1. Refs(p, i)' = Refs(p, i) \ {t} /\ t \in Refs(p, i)
    BY <1>4 DEF Refs
  <2>2. Cardinality(Refs(p, i)') = Cardinality(Refs(p, i)) - 1 /\ IsFiniteSet(Refs(p, i)')
    BY <1>1, <2>1, FS_RemoveElement
  <2>3. Cardinality(Refs(p, i)) # 0
    BY <1>1, <2>1
  <2>4. Cardinality(Refs(p, i)') = 0 => Refs(p, i)' = {}
    BY <2>2, FS_EmptySet
  <2> QED
    BY <1>1, <2>2, <2>3, <2>4
<1> QED
  BY <1>2, <1>3, <1>4

(* A step that leaves an instance alone.                                   *)
Same(q, j) ==
  /\ stat'[q][j] = stat[q][j] /\ refs'[q][j] = refs[q][j] /\ setup'[q][j] = setup[q][j]
  /\ actived'[q][j] = actived[q][j] /\ thr'[q][j] = thr[q][j]
  /\ handle'[q] = j <=> handle[q] = j
  /\ j > made'[q] <=> j > made[q]
  /\ Own(q, j) \in selfjoin' <=> Own(q, j) \in selfjoin
  /\ fault => fault'
  /\ \A u \in Threads, y \in Owned \ {"exec"} : H(u, y, q, j)' <=> H(u, y, q, j)

LEMMA SameInstance ==
  ASSUME NEW q \in Parts, NEW j \in Insts, Instance(q, j), Same(q, j)
  PROVE  Instance(q, j)'
<1>1. \A u \in Threads :
        /\ H(u, "setup", q, j)' <=> H(u, "setup", q, j)
        /\ H(u, "table", q, j)' <=> H(u, "table", q, j)
        /\ H(u, "threads", q, j)' <=> H(u, "threads", q, j)
        /\ H(u, "defr", q, j)' <=> H(u, "defr", q, j)
        /\ H(u, "stop", q, j)' <=> H(u, "stop", q, j)
        /\ H(u, "join", q, j)' <=> H(u, "join", q, j)
        /\ H(u, "free", q, j)' <=> H(u, "free", q, j)
  BY DEF Same, Owned
<1>2. Refs(q, j)' = Refs(q, j)
  BY <1>1 DEF Refs, Holds, Threads, Workers, Own
<1>3. /\ stat'[q][j] = stat[q][j] /\ refs'[q][j] = refs[q][j] /\ setup'[q][j] = setup[q][j]
      /\ actived'[q][j] = actived[q][j] /\ thr'[q][j] = thr[q][j]
      /\ handle'[q] = j <=> handle[q] = j
      /\ j > made'[q] <=> j > made[q]
      /\ Own(q, j) \in selfjoin' <=> Own(q, j) \in selfjoin
      /\ fault => fault'
  BY DEF Same
<1>4. Counted(q, j)'
  BY <1>2, <1>3 DEF Instance, Counted
<1>5. Destructed(q, j)'
  BY <1>1, <1>3 DEF Instance, Destructed
<1>6. Named(q, j)'
  BY <1>3 DEF Instance, Named
<1>7. Built(q, j)'
  BY <1>1, <1>3 DEF Instance, Built, Builds
<1>8. /\ Past(q, j)' <=> Past(q, j)
      /\ AtJoin(q, j)' <=> AtJoin(q, j)
  BY <1>1 DEF Past, AtJoin
<1>9. Running(q, j)'
  <2>1. Running(q, j)
    BY DEF Instance
  <2>2. (\A t \in Threads : ~H(t, "join", q, j)) <=> (\A t \in Threads : ~H(t, "join", q, j)')
    BY <1>1
  <2> HIDE DEF H
  <2> QED
    BY <1>3, <1>8, <2>1, <2>2 DEF Running, Own
<1> QED
  BY <1>4, <1>5, <1>6, <1>7, <1>9 DEF Instance

(* The same of a pool's tasks.                                             *)
Holding(i) == \E q \in Parts, j \in 0 .. MaxObjs : H(Own("wp", i), "exec", q, j)

LEMMA HeldIs ==
  todo \in [Threads -> Seq(AStep)] => \A i \in Insts : Held(i) = IF Holding(i) THEN 1 ELSE 0
<1> HAVE todo \in [Threads -> Seq(AStep)]
<1> TAKE i \in Insts
<1> DEFINE s == todo[Own("wp", i)]
<1>1. s \in Seq(AStep)
  BY StepsAre DEF Threads, Workers
<1>2. \A k \in DOMAIN s : s[k] \in AStep
  BY <1>1, ElementOfSeq, LenProperties
<1>3. (\E k \in DOMAIN s : s[k][1] = "exec")
        <=> \E q \in Parts, j \in 0 .. MaxObjs : \E k \in DOMAIN s : s[k] = <<"exec", q, j>>
  <2>1. ASSUME NEW k \in DOMAIN s, s[k][1] = "exec"
        PROVE  \E q \in Parts, j \in 0 .. MaxObjs : s[k] = <<"exec", q, j>>
    <3>1. PICK x \in Steps, q \in Parts, j \in 0 .. MaxObjs : s[k] = <<x, q, j>>
      BY <1>2 DEF AStep
    <3> QED
      BY <2>1, <3>1
  <2>2. ASSUME NEW k \in DOMAIN s, NEW q, NEW j, s[k] = <<"exec", q, j>>
        PROVE  s[k][1] = "exec"
    BY <2>2
  <2> QED
    BY <2>1, <2>2
<1> QED
  BY <1>3 DEF Held, Holding, H, Has

LEMMA HeldIsNext ==
  (todo \in [Threads -> Seq(AStep)] => \A i \in Insts : Held(i) = IF Holding(i) THEN 1 ELSE 0)'
  BY HeldIs, PTL

-----------------------------------------------------------------------------
(***************************************************************************)
(* Every step keeps them.                                                  *)
(***************************************************************************)
UBs == {"no", "unready", "freed", "unjoined", "twice"}

Marks == ub' \in UBs /\ mixed' \in BOOLEAN

LEMMA SetFacts ==
  ASSUME NEW S, NEW f \in [Parts -> [Insts -> S]], NEW p \in Parts, NEW i \in Insts, NEW v \in S
  PROVE  /\ Set(f, p, i, v) \in [Parts -> [Insts -> S]]
         /\ Set(f, p, i, v)[p][i] = v
         /\ \A q \in Parts, j \in Insts : q # p \/ j # i => Set(f, p, i, v)[q][j] = f[q][j]
  BY DEF Set

LEMMA TodoType == \A s : s \in [Threads -> Seq(AStep)] <=> s \in [Threads -> Seq(Steps \X Parts \X (0 .. MaxObjs))]
  BY DEF AStep

LEMMA WorkStays ==
  ASSUME TypeOK, todo' \in [Threads -> Seq(AStep)], NEW i \in Insts, Work(i),
         Holding(i)' <=> Holding(i), tasks'[i] = tasks[i], lost'[i] = lost[i],
         lost[i] > 0 => ~actived'["wp"][i],
         setup["wp"][i] # "none" => setup'["wp"][i] # "none",
         handle["wp"] = i => handle'["wp"] = i
  PROVE  Work(i)'
<1>1. Held(i) = IF Holding(i) THEN 1 ELSE 0
  BY StacksType, HeldIs
<1>2. Held(i)' = IF Holding(i)' THEN 1 ELSE 0
  BY HeldIsNext
<1>3. Held(i)' = Held(i)
  BY <1>1, <1>2
<1> QED
  BY <1>3 DEF Work

LEMMA CalmHolding ==
  ASSUME Calm
  PROVE  \A i \in Insts : Holding(i)' <=> Holding(i)
<1> TAKE i \in Insts
<1>1. Own("wp", i) \in Threads
  BY StepsAre DEF Threads, Workers
<1>2. \A q \in Parts, j \in 0 .. MaxObjs :
        H(Own("wp", i), "exec", q, j)' <=> H(Own("wp", i), "exec", q, j)
  BY <1>1 DEF Calm, Owned
<1> QED
  BY <1>2 DEF Holding, Own

LEMMA CalmStays ==
  ASSUME Base, Shapes', todo' \in [Threads -> Seq(AStep)], Calm, Marks,
         UNCHANGED <<handle, made, obj, setup, actived, thr, pool, flags>>
  PROVE  Base'
<1>1. /\ UNCHANGED <<handle, made, stat, refs, setup, actived, thr, tasks, lost, fault, selfjoin>>
  BY DEF obj, pool, flags
<1>2. TypeOK'
  BY <1>1, TodoType DEF Base, TypeOK, Marks, UBs
<1>3. Instances'
  <2> SUFFICES ASSUME NEW q \in Parts, NEW j \in Insts PROVE Instance(q, j)'
    BY DEF Instances
  <2>1. Same(q, j)
    BY <1>1, InstType DEF Same, Calm
  <2> QED
    BY <2>1, SameInstance DEF Base, Instances
<1>4. Works'
  <2> SUFFICES ASSUME NEW j \in Insts PROVE Work(j)'
    BY DEF Works
  <2>1. Work(j) /\ TypeOK
    BY DEF Base, Works
  <2>2. Holding(j)' <=> Holding(j)
    BY CalmHolding
  <2> QED
    BY <1>1, <2>1, <2>2, WorkStays DEF Work
<1> QED
  BY <1>2, <1>3, <1>4 DEF Base

LEMMA CalmInstance ==
  ASSUME Calm, NEW p \in Parts, NEW i \in Insts
  PROVE  /\ \A u \in Threads :
              /\ H(u, "setup", p, i)' <=> H(u, "setup", p, i)
              /\ H(u, "table", p, i)' <=> H(u, "table", p, i)
              /\ H(u, "threads", p, i)' <=> H(u, "threads", p, i)
              /\ H(u, "defr", p, i)' <=> H(u, "defr", p, i)
              /\ H(u, "stop", p, i)' <=> H(u, "stop", p, i)
              /\ H(u, "join", p, i)' <=> H(u, "join", p, i)
              /\ H(u, "free", p, i)' <=> H(u, "free", p, i)
         /\ Refs(p, i)' = Refs(p, i)
         /\ Past(p, i)' <=> Past(p, i)
         /\ AtJoin(p, i)' <=> AtJoin(p, i)
<1>1. \A u \in Threads :
        /\ H(u, "setup", p, i)' <=> H(u, "setup", p, i)
        /\ H(u, "table", p, i)' <=> H(u, "table", p, i)
        /\ H(u, "threads", p, i)' <=> H(u, "threads", p, i)
        /\ H(u, "defr", p, i)' <=> H(u, "defr", p, i)
        /\ H(u, "stop", p, i)' <=> H(u, "stop", p, i)
        /\ H(u, "join", p, i)' <=> H(u, "join", p, i)
        /\ H(u, "free", p, i)' <=> H(u, "free", p, i)
  BY InstType DEF Calm, Owned
<1>2. Refs(p, i)' = Refs(p, i)
  BY <1>1 DEF Refs, Holds, Threads, Workers, Own
<1>3. /\ Past(p, i)' <=> Past(p, i)
      /\ AtJoin(p, i)' <=> AtJoin(p, i)
  BY <1>1 DEF Past, AtJoin
<1> QED
  BY <1>1, <1>2, <1>3

(* An object in the place of one that was not there.                       *)
LEMMA InstallNew ==
  ASSUME Base, NEW t \in Threads, NEW p \in Parts, NEW i \in Insts, Marks, i = made[p] + 1,
         Only(t), Calm, made' = [made EXCEPT ![p] = i],
         UNCHANGED <<refs, setup, actived, thr, tasks, lost, fault, selfjoin>>,
         \/ /\ handle[p] = 0 /\ handle' = [handle EXCEPT ![p] = i]
            /\ stat' = Set(stat, p, i, "open")
         \/ handle[p] # 0 /\ handle' = handle /\ stat' = Set(stat, p, i, "dead")
  PROVE  Base'
<1>0. TypeOK /\ Shapes /\ Shapes' /\ todo' \in [Threads -> Seq(AStep)]
  BY DEF Base, Only
<1> USE <1>0
<1>1. /\ made[p] \in 0 .. MaxObjs /\ handle[p] \in 0 .. MaxObjs /\ MaxObjs \in Nat
      /\ stat \in [Parts -> [Insts -> {"none", "open", "closing", "dying", "dead"}]]
      /\ handle \in [Parts -> 0 .. MaxObjs] /\ made \in [Parts -> 0 .. MaxObjs]
  BY LibAssumption DEF TypeOK
<1>2. PICK v \in {"open", "dead"} :
        /\ stat' = Set(stat, p, i, v)
        /\ v = "open" => handle[p] = 0 /\ handle' = [handle EXCEPT ![p] = i]
        /\ v = "dead" => handle[p] # 0 /\ handle' = handle
  OBVIOUS
<1>21. stat'[p][i] = v /\ \A q \in Parts, j \in Insts : q # p \/ j # i => stat'[q][j] = stat[q][j]
  BY <1>1, <1>2 DEF Set
<1>22. stat' \in [Parts -> [Insts -> {"none", "open", "closing", "dying", "dead"}]]
  BY <1>1, <1>2 DEF Set
<1>3. /\ i \in Nat /\ made'[p] = i
      /\ \A q \in Parts : q # p => made'[q] = made[q] /\ handle'[q] = handle[q]
  BY <1>1, <1>2 DEF Insts
<1>4. /\ v = "open" => handle[p] = 0 /\ handle'[p] = i
      /\ v = "dead" => handle[p] # 0 /\ handle'[p] = handle[p]
  BY <1>1, <1>2
<1>5. Instance(p, i) /\ stat[p][i] = "none"
  <2>1. Instance(p, i)
    BY DEF Base, Instances
  <2>2. i > made[p]
    BY <1>1
  <2> QED
    BY <2>1, <2>2 DEF Instance, Named
<1>6. Instance(p, i)'
  <2>1. /\ setup[p][i] = "none" /\ ~actived[p][i] /\ thr[p][i] = "none"
        /\ Own(p, i) \notin selfjoin /\ Refs(p, i) = {}
        /\ \A u \in Threads : ~H(u, "free", p, i) /\ ~H(u, "join", p, i)
    BY <1>5 DEF Instance, Running, Counted, Destructed
  <2>2. handle[p] # i
    BY <1>5 DEF Instance, Named
  <2>3. Refs(p, i)' = Refs(p, i)
    BY CalmInstance
  <2>4. \A u \in Threads : ~H(u, "free", p, i)' /\ ~H(u, "join", p, i)' /\ ~H(u, "stop", p, i)'
    <3>1. \A u \in Threads : ~H(u, "stop", p, i)
      BY <1>5, <2>1 DEF Instance, Destructed
    <3> QED
      BY <2>1, <3>1, CalmInstance
  <2>5. Counted(p, i)'
    BY <1>5, <2>1, <2>3 DEF Instance, Counted
  <2>6. Destructed(p, i)'
    BY <1>21, <2>4 DEF Destructed
  <2>7. Named(p, i)'
    BY <1>21, <1>3, <1>4, <2>2 DEF Named
  <2>8. Built(p, i)'
    <3>1. \A u \in Threads : ~H(u, "table", p, i) /\ ~H(u, "threads", p, i)
      BY <1>5, <2>1 DEF Instance, Built
    <3>2. \A u \in Threads : ~H(u, "table", p, i)' /\ ~H(u, "threads", p, i)'
      BY <3>1, CalmInstance
    <3>3. setup'[p][i] = "none"
      BY <2>1
    <3> QED
      BY <3>2, <3>3 DEF Built, Builds
  <2>9. Running(p, i)'
    <3>1. ~Past(p, i)' /\ ~AtJoin(p, i)'
      BY <2>4 DEF Past, AtJoin
    <3>2. /\ setup'[p][i] = "none" /\ ~actived'[p][i] /\ thr'[p][i] = "none"
          /\ Own(p, i) \notin selfjoin' /\ stat'[p][i] \in {"open", "dead"}
      BY <1>21, <2>1
    <3> QED
      BY <3>1, <3>2 DEF Running, Own
  <2> QED
    BY <2>5, <2>6, <2>7, <2>8, <2>9 DEF Instance
<1>7. Instances'
  <2> SUFFICES ASSUME NEW q \in Parts, NEW j \in Insts PROVE Instance(q, j)'
    BY DEF Instances
  <2>1. CASE q # p \/ j # i
    <3>1. handle'[q] = j <=> handle[q] = j
      BY <1>2, <1>3, <1>4, <2>1, InstType
    <3>2. j > made'[q] <=> j > made[q]
      <4>1. j \in Nat
        BY DEF Insts
      <4> QED
        BY <1>1, <1>3, <2>1, <4>1
    <3>3. Same(q, j)
      BY <1>21, <2>1, <3>1, <3>2, InstType DEF Same, Calm
    <3> QED
      BY <3>3, SameInstance DEF Base, Instances
  <2> QED
    BY <1>6, <2>1
<1>8. Works'
  <2> SUFFICES ASSUME NEW j \in Insts PROVE Work(j)'
    BY DEF Works
  <2>1. Work(j)
    BY DEF Base, Works
  <2>2. Holding(j)' <=> Holding(j)
    BY CalmHolding
  <2>3. handle["wp"] = j => handle'["wp"] = j
    BY <1>2, <1>3, <1>4, InstType, StepsAre
  <2> QED
    BY <2>1, <2>2, <2>3, WorkStays DEF Work
<1>9. TypeOK'
  <2>1. made' \in [Parts -> 0 .. MaxObjs] /\ handle' \in [Parts -> 0 .. MaxObjs]
    BY <1>1, InstType
  <2> QED
    BY <1>22, <2>1, TodoType DEF TypeOK, Marks, UBs
<1> QED
  BY <1>7, <1>8, <1>9 DEF Base

LEMMA InstallKeeps ==
  ASSUME Base, NEW t \in Threads, NEW p, Install(t, p), Marks
  PROVE  Base'
<1>1. TypeOK /\ Shapes
  BY DEF Base
<1> DEFINE i == made[p] + 1
<1>2. /\ p \in Parts /\ Only(t) /\ Calm
      /\ UNCHANGED <<refs, setup, actived, thr, tasks, lost, fault, selfjoin>>
      /\ \/ /\ i \in Insts /\ made' = [made EXCEPT ![p] = i] /\ handle[p] = 0
            /\ handle' = [handle EXCEPT ![p] = i] /\ stat' = Set(stat, p, i, "open")
         \/ /\ i \in Insts /\ made' = [made EXCEPT ![p] = i] /\ handle[p] # 0
            /\ handle' = handle /\ stat' = Set(stat, p, i, "dead")
         \/ UNCHANGED <<handle, made, stat>>
  BY <1>1, InstallDoes DEF Install, pool, flags
<1>3. Shapes' /\ todo' \in [Threads -> Seq(AStep)]
  BY <1>2 DEF Only
<1>4. CASE UNCHANGED <<handle, made, stat>>
  BY <1>2, <1>3, <1>4, CalmStays DEF obj, pool, flags
<1>5. ASSUME i \in Insts, made' = [made EXCEPT ![p] = i],
             \/ /\ handle[p] = 0 /\ handle' = [handle EXCEPT ![p] = i]
                /\ stat' = Set(stat, p, i, "open")
             \/ handle[p] # 0 /\ handle' = handle /\ stat' = Set(stat, p, i, "dead")
      PROVE  Base'
  <2>1. PICK k \in Insts : k = made[p] + 1
    BY <1>5
  <2>2. /\ made' = [made EXCEPT ![p] = k]
        /\ \/ /\ handle[p] = 0 /\ handle' = [handle EXCEPT ![p] = k]
              /\ stat' = Set(stat, p, k, "open")
           \/ handle[p] # 0 /\ handle' = handle /\ stat' = Set(stat, p, k, "dead")
    BY <1>5, <2>1
  <2> HIDE DEF i
  <2> QED
    BY <1>2, <2>1, <2>2, InstallNew
<1> QED
  BY <1>2, <1>4, <1>5

(***************************************************************************)
(* A step of t that concerns instance i of part p alone.                   *)
(***************************************************************************)
Elsewhere(t, p, i) ==
  \A q \in Parts, j \in Insts :
    q # p \/ j # i =>
      /\ stat'[q][j] = stat[q][j] /\ refs'[q][j] = refs[q][j] /\ setup'[q][j] = setup[q][j]
      /\ actived'[q][j] = actived[q][j] /\ thr'[q][j] = thr[q][j]
      /\ handle'[q] = j <=> handle[q] = j
      /\ made'[q] = made[q]
      /\ Own(q, j) \in selfjoin' <=> Own(q, j) \in selfjoin
      /\ \A y \in Owned : H(t, y, q, j)' <=> H(t, y, q, j)

LEMMA OtherThreads ==
  ASSUME NEW t \in Threads, Only(t)
  PROVE  \A u \in Threads \ {t} : \A y, q, j : H(u, y, q, j)' <=> H(u, y, q, j)
  BY DEF Only, H

LEMMA OneInstance ==
  ASSUME Base, NEW t \in Threads, NEW p \in Parts, NEW i \in Insts, Only(t),
         TypeOK', Elsewhere(t, p, i), fault => fault', Instance(p, i)', Works'
  PROVE  Base'
<1>1. Instances'
  <2> SUFFICES ASSUME NEW q \in Parts, NEW j \in Insts PROVE Instance(q, j)'
    BY DEF Instances
  <2>1. CASE q # p \/ j # i
    <3>1. \A u \in Threads, y \in Owned : H(u, y, q, j)' <=> H(u, y, q, j)
      <4> SUFFICES ASSUME NEW u \in Threads, NEW y \in Owned PROVE H(u, y, q, j)' <=> H(u, y, q, j)
        OBVIOUS
      <4>1. CASE u = t
        BY <2>1, <4>1 DEF Elsewhere
      <4>2. CASE u # t
        BY <4>2, OtherThreads
      <4> QED
        BY <4>1, <4>2
    <3>2. Same(q, j)
      BY <2>1, <3>1 DEF Elsewhere, Same
    <3> QED
      BY <3>2, SameInstance DEF Base, Instances
  <2> QED
    BY <2>1
<1> QED
  BY <1>1 DEF Base, Only

(* An object that somebody refers to is open or closing.                   *)
Holder == {"setup", "table", "threads", "defr"}

LEMMA HolderFacts ==
  ASSUME NEW p \in Parts, NEW i \in Insts, Instance(p, i), NEW t \in Threads, NEW x \in Holder,
         H(t, x, p, i)
  PROVE  /\ stat[p][i] \in {"open", "closing"} /\ handle[p] = i
         /\ t \in Refs(p, i) /\ Own(p, i) \notin selfjoin /\ ~Past(p, i) /\ ~AtJoin(p, i)
         /\ setup[p][i] # "freed"
         /\ \A u \in Threads : /\ ~H(u, "free", p, i) /\ ~H(u, "join", p, i)
                               /\ ~H(u, "stop", p, i)
<1>1. t \in Refs(p, i)
  BY DEF Refs, Holds, Holder
<1>2. stat[p][i] \in {"open", "closing"} /\ handle[p] = i
  BY <1>1 DEF Instance, Counted, Named
<1>3. \A u \in Threads : ~H(u, "free", p, i) /\ ~H(u, "join", p, i) /\ ~H(u, "stop", p, i)
  BY <1>2 DEF Instance, Destructed
<1>4. Own(p, i) \notin selfjoin /\ setup[p][i] # "freed"
  BY <1>2 DEF Instance, Running
<1>5. ~Past(p, i) /\ ~AtJoin(p, i)
  BY <1>3 DEF Past, AtJoin
<1> QED
  BY <1>1, <1>2, <1>3, <1>4, <1>5

(* Nothing about the pool's tasks has changed.                             *)
LEMMA SameWorks ==
  ASSUME TypeOK, Works, todo' \in [Threads -> Seq(AStep)], tasks' = tasks, lost' = lost,
         \A j \in Insts : /\ Holding(j)' <=> Holding(j)
                          /\ lost[j] > 0 => ~actived'["wp"][j]
                          /\ setup["wp"][j] # "none" => setup'["wp"][j] # "none"
                          /\ handle["wp"] = j => handle'["wp"] = j
  PROVE  Works'
<1> SUFFICES ASSUME NEW j \in Insts PROVE Work(j)'
  BY DEF Works
<1>1. Work(j)
  BY DEF Works
<1> QED
  BY <1>1, WorkStays

LEMMA SameHolding ==
  ASSUME NEW t \in Threads, Only(t),
         \A q \in Parts, j \in 0 .. MaxObjs : H(t, "exec", q, j)' <=> H(t, "exec", q, j)
  PROVE  \A j \in Insts : Holding(j)' <=> Holding(j)
<1> TAKE j \in Insts
<1>1. Own("wp", j) \in Threads
  BY StepsAre DEF Threads, Workers
<1>2. \A q \in Parts, k \in 0 .. MaxObjs :
        H(Own("wp", j), "exec", q, k)' <=> H(Own("wp", j), "exec", q, k)
  BY <1>1, OtherThreads
<1> QED
  BY <1>2 DEF Holding, Own

(* A reference is given back; the last one of a closing object starts the  *)
(* destructor.                                                             *)
LEMMA DefrInstance ==
  ASSUME NEW t \in Threads, NEW p \in Parts, NEW i \in Insts, TypeOK, Instance(p, i), Only(t),
         UNCHANGED <<handle, made, setup, actived, thr, fault, selfjoin>>,
         refs'[p][i] = refs[p][i] - 1,
         H(t, "defr", p, i), ~H(t, "defr", p, i)',
         \A y \in {"setup", "table", "threads"} : ~H(t, y, p, i) /\ ~H(t, y, p, i)',
         \/ /\ stat[p][i] = "closing" /\ refs[p][i] = 1 /\ stat'[p][i] = "dying"
            /\ H(t, "stop", p, i)' /\ H(t, "join", p, i)' /\ H(t, "free", p, i)'
         \/ /\ ~(stat[p][i] = "closing" /\ refs[p][i] = 1) /\ stat'[p][i] = stat[p][i]
            /\ ~H(t, "stop", p, i)' /\ ~H(t, "join", p, i)' /\ ~H(t, "free", p, i)'
  PROVE  Instance(p, i)'
<1>1. /\ stat[p][i] \in {"open", "closing"} /\ handle[p] = i
      /\ t \in Refs(p, i) /\ Own(p, i) \notin selfjoin /\ ~Past(p, i) /\ ~AtJoin(p, i)
      /\ setup[p][i] # "freed"
      /\ \A u \in Threads : /\ ~H(u, "free", p, i) /\ ~H(u, "join", p, i)
                            /\ ~H(u, "stop", p, i)
  BY HolderFacts DEF Holder
<1>2. \A u \in Threads \ {t} :
        /\ H(u, "setup", p, i)' <=> H(u, "setup", p, i)
        /\ H(u, "table", p, i)' <=> H(u, "table", p, i)
        /\ H(u, "threads", p, i)' <=> H(u, "threads", p, i)
        /\ H(u, "defr", p, i)' <=> H(u, "defr", p, i)
        /\ ~H(u, "stop", p, i)' /\ ~H(u, "join", p, i)' /\ ~H(u, "free", p, i)'
  BY <1>1, OtherThreads
<1>3. /\ \A u \in Threads \ {t} : Holds(u, p, i)' <=> Holds(u, p, i)
      /\ Holds(t, p, i) /\ ~Holds(t, p, i)'
  BY <1>2 DEF Holds
<1>4. /\ Cardinality(Refs(p, i)') = Cardinality(Refs(p, i)) - 1
      /\ Cardinality(Refs(p, i)) = 1 => Refs(p, i)' = {}
  BY <1>3, RefsStep
<1>5. refs[p][i] = Cardinality(Refs(p, i))
  BY DEF Instance, Counted
<1>6. Counted(p, i)'
  BY <1>1, <1>4, <1>5 DEF Counted
<1>7. Destructed(p, i)'
  BY <1>1, <1>2 DEF Destructed
<1>8. Named(p, i)'
  BY <1>1 DEF Named, Instance
<1>9. Built(p, i)'
  <2>1. Built(p, i)
    BY DEF Instance
  <2>2. \A u \in Threads : /\ H(u, "table", p, i)' <=> H(u, "table", p, i)
                           /\ H(u, "threads", p, i)' <=> H(u, "threads", p, i)
    BY <1>2
  <2> QED
    BY <2>1, <2>2 DEF Built, Builds
<1>10. Running(p, i)'
  <2>1. ~Past(p, i)' /\ ~AtJoin(p, i)'
    <3>1. \A u \in Threads : H(u, "free", p, i)' => H(u, "stop", p, i)'
      BY <1>2
    <3>2. \A u \in Threads : H(u, "join", p, i)' => H(u, "stop", p, i)'
      BY <1>2
    <3> QED
      BY <3>1, <3>2 DEF Past, AtJoin
  <2>2. Running(p, i)
    BY DEF Instance
  <2>3. stat'[p][i] \in {"open", "closing", "dying"} /\ (stat'[p][i] # "dying" => stat'[p][i] = stat[p][i])
    BY <1>1
  <2>4. Own(p, i) \notin selfjoin'
    BY <1>1
  <2> QED
    BY <1>1, <2>1, <2>2, <2>3, <2>4 DEF Running, Own
<1> QED
  BY <1>6, <1>7, <1>8, <1>9, <1>10 DEF Instance

LEMMA DefrKeeps ==
  ASSUME Base, NEW t \in Threads, NEW p, NEW i, objdefr(t, p, i), Marks
  PROVE  Base'
<1>1. TypeOK /\ Shapes /\ Works
  BY DEF Base
<1>2. /\ p \in Parts /\ i \in Insts /\ Only(t)
      /\ refs' = Set(refs, p, i, refs[p][i] - 1)
      /\ UNCHANGED <<handle, made, setup, actived, thr, tasks, lost, fault, selfjoin>>
      /\ \E r \in Rests :
           /\ \A y, q, j : H(t, y, q, j) <=> (y = "defr" /\ q = p /\ j = i) \/ Has(r, y, q, j)
           /\ \/ /\ stat[p][i] = "closing" /\ refs[p][i] = 1
                 /\ stat' = Set(stat, p, i, "dying")
                 /\ \A y, q, j : H(t, y, q, j)'
                      <=> (y \in {"stop", "join", "free"} /\ q = p /\ j = i) \/ Has(r, y, q, j)
              \/ /\ ~(stat[p][i] = "closing" /\ refs[p][i] = 1)
                 /\ UNCHANGED stat
                 /\ \A y, q, j : H(t, y, q, j)' <=> Has(r, y, q, j)
  BY <1>1, DefrDoes DEF pool, flags
<1> PICK r \in Rests :
        /\ \A y, q, j : H(t, y, q, j) <=> (y = "defr" /\ q = p /\ j = i) \/ Has(r, y, q, j)
        /\ \/ /\ stat[p][i] = "closing" /\ refs[p][i] = 1
              /\ stat' = Set(stat, p, i, "dying")
              /\ \A y, q, j : H(t, y, q, j)'
                   <=> (y \in {"stop", "join", "free"} /\ q = p /\ j = i) \/ Has(r, y, q, j)
           \/ /\ ~(stat[p][i] = "closing" /\ refs[p][i] = 1)
              /\ UNCHANGED stat
              /\ \A y, q, j : H(t, y, q, j)' <=> Has(r, y, q, j)
  BY <1>2
<1>3. \A q, j : \A y \in Owned : ~Has(r, y, q, j)
  BY RestFacts DEF Owned
<1>4. /\ refs \in [Parts -> [Insts -> Nat]]
      /\ stat \in [Parts -> [Insts -> {"none", "open", "closing", "dying", "dead"}]]
      /\ Instance(p, i)
  BY <1>1, <1>2 DEF TypeOK, Base, Instances
<1>5. H(t, "defr", p, i) /\ ~H(t, "defr", p, i)'
  BY <1>3 DEF Owned
<1>6. refs[p][i] \in Nat \ {0}
  <2>1. Holds(t, p, i) /\ Counted(p, i)
    BY <1>4, <1>5 DEF Holds, Instance
  <2>2. Refs(p, i) # {}
    BY <2>1 DEF Refs
  <2> QED
    BY <1>2, <2>1, <2>2, RefsFinite DEF Counted
<1>7. /\ refs' \in [Parts -> [Insts -> Nat]] /\ refs'[p][i] = refs[p][i] - 1
      /\ \A q \in Parts, j \in Insts : q # p \/ j # i => refs'[q][j] = refs[q][j]
  BY <1>2, <1>4, <1>6 DEF Set
<1>8. /\ stat' \in [Parts -> [Insts -> {"none", "open", "closing", "dying", "dead"}]]
      /\ stat'[p][i] = IF stat[p][i] = "closing" /\ refs[p][i] = 1 THEN "dying" ELSE stat[p][i]
      /\ \A q \in Parts, j \in Insts : q # p \/ j # i => stat'[q][j] = stat[q][j]
  BY <1>2, <1>4 DEF Set
<1>9. TypeOK'
  BY <1>1, <1>2, <1>7, <1>8, TodoType DEF TypeOK, Marks, UBs, Only
<1>10. Elsewhere(t, p, i)
  <2>1. \A y \in Owned, q \in Parts, j \in Insts :
          q # p \/ j # i => (H(t, y, q, j)' <=> H(t, y, q, j))
    BY <1>3
  <2> QED
    BY <1>2, <1>7, <1>8, <2>1 DEF Elsewhere
<1>11. Instance(p, i)'
  <2>1. \A y \in {"setup", "table", "threads"} : ~H(t, y, p, i) /\ ~H(t, y, p, i)'
    BY <1>3 DEF Owned
  <2>2. \/ /\ stat[p][i] = "closing" /\ refs[p][i] = 1 /\ stat'[p][i] = "dying"
           /\ H(t, "stop", p, i)' /\ H(t, "join", p, i)' /\ H(t, "free", p, i)'
        \/ /\ ~(stat[p][i] = "closing" /\ refs[p][i] = 1) /\ stat'[p][i] = stat[p][i]
           /\ ~H(t, "stop", p, i)' /\ ~H(t, "join", p, i)' /\ ~H(t, "free", p, i)'
    BY <1>3, <1>8 DEF Owned
  <2> QED
    BY <1>1, <1>2, <1>4, <1>5, <1>7, <2>1, <2>2, DefrInstance
<1>12. Works'
  <2>1. \A q \in Parts, j \in 0 .. MaxObjs : H(t, "exec", q, j)' <=> H(t, "exec", q, j)
    BY <1>3 DEF Owned
  <2>2. \A j \in Insts : Holding(j)' <=> Holding(j)
    BY <1>2, <2>1, SameHolding
  <2>3. \A j \in Insts : lost[j] > 0 => ~actived'["wp"][j]
    BY <1>1, <1>2 DEF Works, Work
  <2> QED
    BY <1>1, <1>2, <2>2, <2>3, SameWorks DEF Only
<1> QED
  BY <1>2, <1>9, <1>10, <1>11, <1>12, OneInstance

(* A handle is closed; an object without references starts its destructor. *)
LEMMA ClosInstance ==
  ASSUME NEW t \in Threads, NEW p \in Parts, NEW i \in Insts, TypeOK, Instance(p, i), Only(t),
         UNCHANGED <<handle, made, refs, setup, actived, thr, fault, selfjoin>>,
         stat[p][i] = "open", handle[p] = i,
         \A y \in Owned : ~H(t, y, p, i),
         \A y \in Owned \ {"stop", "join", "free"} : ~H(t, y, p, i)',
         \/ /\ refs[p][i] = 0 /\ stat'[p][i] = "dying"
            /\ H(t, "stop", p, i)' /\ H(t, "join", p, i)' /\ H(t, "free", p, i)'
         \/ /\ stat'[p][i] = "closing"
            /\ ~H(t, "stop", p, i)' /\ ~H(t, "join", p, i)' /\ ~H(t, "free", p, i)'
  PROVE  Instance(p, i)'
<1>1. /\ Own(p, i) \notin selfjoin /\ setup[p][i] # "freed"
      /\ \A u \in Threads : ~H(u, "free", p, i) /\ ~H(u, "join", p, i) /\ ~H(u, "stop", p, i)
  BY DEF Instance, Running, Destructed
<1>2. ~AtJoin(p, i)
  BY <1>1 DEF AtJoin
<1>3. \A u \in Threads :
        /\ H(u, "setup", p, i)' <=> H(u, "setup", p, i)
        /\ H(u, "table", p, i)' <=> H(u, "table", p, i)
        /\ H(u, "threads", p, i)' <=> H(u, "threads", p, i)
        /\ H(u, "defr", p, i)' <=> H(u, "defr", p, i)
  BY OtherThreads DEF Owned
<1>4. \A u \in Threads \ {t} :
        ~H(u, "stop", p, i)' /\ ~H(u, "join", p, i)' /\ ~H(u, "free", p, i)'
  BY <1>1, OtherThreads
<1>5. Refs(p, i)' = Refs(p, i)
  BY <1>3 DEF Refs, Holds, Threads, Workers, Own
<1>6. Counted(p, i)'
  BY <1>5, RefsFinite DEF Instance, Counted
<1>7. Destructed(p, i)'
  BY <1>4 DEF Destructed
<1>8. Named(p, i)'
  BY DEF Instance, Named
<1>9. Built(p, i)'
  <2>1. Built(p, i)
    BY DEF Instance
  <2> QED
    BY <1>3, <2>1 DEF Built, Builds
<1>10. Running(p, i)'
  <2>1. ~Past(p, i)' /\ ~AtJoin(p, i)'
    <3>1. \A u \in Threads : /\ H(u, "free", p, i)' => H(u, "stop", p, i)'
                             /\ H(u, "join", p, i)' => H(u, "stop", p, i)'
      BY <1>4
    <3> QED
      BY <3>1 DEF Past, AtJoin
  <2>2. Running(p, i)
    BY DEF Instance
  <2>3. stat'[p][i] \in {"closing", "dying"} /\ Own(p, i) \notin selfjoin'
    BY <1>1
  <2> QED
    BY <1>1, <1>2, <2>1, <2>2, <2>3 DEF Running, Own
<1> QED
  BY <1>6, <1>7, <1>8, <1>9, <1>10 DEF Instance

LEMMA ClosNamed ==
  ASSUME Base, NEW t \in Threads, NEW p \in Parts, NEW i \in Insts, Marks, i = handle[p],
         Only(t), UNCHANGED <<handle, made, refs, setup, actived, thr, tasks, lost, fault, selfjoin>>,
         stat[p][i] = "open",
         \A q, j : \A y \in Owned : ~H(t, y, q, j),
         \/ /\ refs[p][i] = 0 /\ stat' = Set(stat, p, i, "dying")
            /\ \A q, j : \A y \in Owned :
                 H(t, y, q, j)' <=> y \in {"stop", "join", "free"} /\ q = p /\ j = i
         \/ stat' = Set(stat, p, i, "closing") /\ \A q, j : \A y \in Owned : ~H(t, y, q, j)'
  PROVE  Base'
<1>1. /\ TypeOK /\ Shapes /\ Works /\ Instance(p, i)
      /\ stat \in [Parts -> [Insts -> {"none", "open", "closing", "dying", "dead"}]]
  BY DEF Base, Instances, TypeOK
<1>2. /\ stat' \in [Parts -> [Insts -> {"none", "open", "closing", "dying", "dead"}]]
      /\ \A q \in Parts, j \in Insts : q # p \/ j # i => stat'[q][j] = stat[q][j]
  BY <1>1 DEF Set
<1>3. TypeOK'
  BY <1>1, <1>2, TodoType DEF TypeOK, Marks, UBs, Only
<1>4. Elsewhere(t, p, i)
  <2>1. \A y \in Owned, q \in Parts, j \in Insts :
          q # p \/ j # i => (H(t, y, q, j)' <=> H(t, y, q, j))
    OBVIOUS
  <2> QED
    BY <1>2, <2>1 DEF Elsewhere
<1>5. Instance(p, i)'
  <2>1. \/ /\ refs[p][i] = 0 /\ stat'[p][i] = "dying"
           /\ H(t, "stop", p, i)' /\ H(t, "join", p, i)' /\ H(t, "free", p, i)'
        \/ /\ stat'[p][i] = "closing"
           /\ ~H(t, "stop", p, i)' /\ ~H(t, "join", p, i)' /\ ~H(t, "free", p, i)'
    BY <1>1 DEF Set, Owned
  <2>2. \A y \in Owned \ {"stop", "join", "free"} : ~H(t, y, p, i)'
    OBVIOUS
  <2>3. \A y \in Owned : ~H(t, y, p, i)
    OBVIOUS
  <2> QED
    BY <1>1, <2>1, <2>2, <2>3, ClosInstance
<1>6. Works'
  <2>1. \A q \in Parts, j \in 0 .. MaxObjs : H(t, "exec", q, j)' <=> H(t, "exec", q, j)
    BY DEF Owned
  <2>2. \A j \in Insts : Holding(j)' <=> Holding(j)
    BY <2>1, SameHolding
  <2>3. \A j \in Insts : lost[j] > 0 => ~actived'["wp"][j]
    BY <1>1 DEF Works, Work
  <2> QED
    BY <1>1, <2>2, <2>3, SameWorks DEF Only
<1> QED
  BY <1>3, <1>4, <1>5, <1>6, OneInstance

LEMMA ClosKeeps ==
  ASSUME Base, NEW t \in Threads, NEW p, objclos(t, p), Marks
  PROVE  Base'
<1> DEFINE i == handle[p]
<1>1. TypeOK /\ Shapes
  BY DEF Base
<1>2. /\ p \in Parts /\ i \in 0 .. MaxObjs /\ Only(t)
      /\ UNCHANGED <<handle, made, refs, setup, actived, thr, tasks, lost, fault, selfjoin>>
      /\ UNCHANGED <<handle, made, refs, setup, actived, thr, pool, flags>>
  BY <1>1, ClosDoes DEF pool, flags
<1>3. PICK r \in {<< >>, CloseWp} :
        /\ \A y, q, j : H(t, y, q, j) <=> (y = "clos" /\ q = p /\ j = 0) \/ Has(r, y, q, j)
        /\ \/ /\ i # 0 /\ stat[p][i] = "open" /\ refs[p][i] = 0
              /\ stat' = Set(stat, p, i, "dying")
              /\ \A y, q, j : H(t, y, q, j)'
                   <=> (y \in {"stop", "join", "free"} /\ q = p /\ j = i) \/ Has(r, y, q, j)
           \/ /\ \/ /\ i # 0 /\ stat[p][i] = "open"
                    /\ stat' = Set(stat, p, i, "closing")
                 \/ UNCHANGED stat
              /\ Calm
              /\ \A y, q, j : H(t, y, q, j)' <=> Has(r, y, q, j)
  BY <1>1, ClosDoes
<1>4. \A q, j : \A y \in Owned : ~Has(r, y, q, j)
  <2>1. r \in Rests
    BY GoodRests
  <2> QED
    BY <2>1, RestFacts DEF Owned
<1>5. \A q, j : \A y \in Owned : ~H(t, y, q, j)
  BY <1>3, <1>4 DEF Owned
<1>6. CASE Calm /\ UNCHANGED stat
  BY <1>2, <1>6, CalmStays DEF obj, Only
<1>7. ASSUME i # 0, stat[p][i] = "open",
             \/ /\ refs[p][i] = 0 /\ stat' = Set(stat, p, i, "dying")
                /\ \A y, q, j : H(t, y, q, j)'
                     <=> (y \in {"stop", "join", "free"} /\ q = p /\ j = i) \/ Has(r, y, q, j)
             \/ /\ stat' = Set(stat, p, i, "closing")
                /\ \A y, q, j : H(t, y, q, j)' <=> Has(r, y, q, j)
      PROVE  Base'
  <2>1. i \in Insts
    BY <1>2, <1>7, LibAssumption DEF Insts
  <2>2. PICK k \in Insts : k = handle[p]
    BY <2>1
  <2>3. /\ stat[p][k] = "open"
        /\ \/ /\ refs[p][k] = 0 /\ stat' = Set(stat, p, k, "dying")
              /\ \A q, j : \A y \in Owned :
                   H(t, y, q, j)' <=> y \in {"stop", "join", "free"} /\ q = p /\ j = k
           \/ stat' = Set(stat, p, k, "closing") /\ \A q, j : \A y \in Owned : ~H(t, y, q, j)'
    BY <1>4, <1>7, <2>2
  <2> HIDE DEF i
  <2> QED
    BY <1>2, <1>5, <2>2, <2>3, ClosNamed
<1> HIDE DEF i
<1> QED
  BY <1>3, <1>6, <1>7

(* A reference is taken to an open object.                                 *)
LEMMA RefInstance ==
  ASSUME NEW t \in Threads, NEW p \in Parts, NEW i \in Insts, Instance(p, i), Only(t),
         UNCHANGED <<handle, made, stat, setup, actived, thr, fault, selfjoin>>,
         stat[p][i] = "open", refs'[p][i] = refs[p][i] + 1, NEW x \in {"setup", "defr"},
         \A y \in Owned : ~H(t, y, p, i), \A y \in Owned : H(t, y, p, i)' <=> y = x
  PROVE  Instance(p, i)'
<1>1. \A u \in Threads :
        /\ H(u, "table", p, i)' <=> H(u, "table", p, i)
        /\ H(u, "threads", p, i)' <=> H(u, "threads", p, i)
        /\ H(u, "stop", p, i)' <=> H(u, "stop", p, i)
        /\ H(u, "join", p, i)' <=> H(u, "join", p, i)
        /\ H(u, "free", p, i)' <=> H(u, "free", p, i)
  BY OtherThreads DEF Owned
<1>2. \A u \in Threads \ {t} :
        /\ H(u, "setup", p, i)' <=> H(u, "setup", p, i)
        /\ H(u, "defr", p, i)' <=> H(u, "defr", p, i)
  BY OtherThreads
<1>3. /\ \A u \in Threads \ {t} : Holds(u, p, i)' <=> Holds(u, p, i)
      /\ ~Holds(t, p, i) /\ Holds(t, p, i)'
  <2>1. ~Holds(t, p, i) /\ Holds(t, p, i)'
    BY DEF Holds, Owned
  <2> QED
    BY <1>1, <1>2, <2>1 DEF Holds
<1>4. Cardinality(Refs(p, i)') = Cardinality(Refs(p, i)) + 1
  BY <1>3, RefsStep
<1>5. Counted(p, i)'
  BY <1>4 DEF Instance, Counted
<1>6. Destructed(p, i)'
  BY <1>1 DEF Instance, Destructed
<1>7. Named(p, i)'
  BY DEF Instance, Named
<1>8. Built(p, i)'
  <2>1. Built(p, i)
    BY DEF Instance
  <2> QED
    BY <1>1, <2>1 DEF Built, Builds
<1>9. Running(p, i)'
  <2>1. /\ Past(p, i)' <=> Past(p, i)
        /\ AtJoin(p, i)' <=> AtJoin(p, i)
    BY <1>1 DEF Past, AtJoin
  <2>2. Running(p, i)
    BY DEF Instance
  <2>3. (\A u \in Threads : ~H(u, "join", p, i)) => (\A u \in Threads : ~H(u, "join", p, i)')
    BY <1>1
  <2> QED
    BY <2>1, <2>2, <2>3 DEF Running, Own
<1> QED
  BY <1>5, <1>6, <1>7, <1>8, <1>9 DEF Instance

LEMMA RefNamed ==
  ASSUME Base, NEW t \in Threads, NEW p \in Parts, NEW i \in Insts, Marks, Only(t),
         UNCHANGED <<handle, made, stat, setup, actived, thr, tasks, lost, fault, selfjoin>>,
         stat[p][i] = "open", refs' = Set(refs, p, i, refs[p][i] + 1), NEW x \in {"setup", "defr"},
         \A q, j : \A y \in Owned : ~H(t, y, q, j),
         \A q, j : \A y \in Owned : H(t, y, q, j)' <=> y = x /\ q = p /\ j = i
  PROVE  Base'
<1>1. /\ TypeOK /\ Shapes /\ Works /\ Instance(p, i)
      /\ refs \in [Parts -> [Insts -> Nat]]
  BY DEF Base, Instances, TypeOK
<1>2. /\ refs' \in [Parts -> [Insts -> Nat]] /\ refs'[p][i] = refs[p][i] + 1
      /\ \A q \in Parts, j \in Insts : q # p \/ j # i => refs'[q][j] = refs[q][j]
  BY <1>1 DEF Set
<1>3. TypeOK'
  BY <1>1, <1>2, TodoType DEF TypeOK, Marks, UBs, Only
<1>4. Elsewhere(t, p, i)
  <2>1. \A y \in Owned, q \in Parts, j \in Insts :
          q # p \/ j # i => (H(t, y, q, j)' <=> H(t, y, q, j))
    OBVIOUS
  <2> QED
    BY <1>2, <2>1 DEF Elsewhere
<1>5. Instance(p, i)'
  <2>1. \A y \in Owned : ~H(t, y, p, i)
    OBVIOUS
  <2>2. \A y \in Owned : H(t, y, p, i)' <=> y = x
    OBVIOUS
  <2> QED
    BY <1>1, <1>2, <2>1, <2>2, RefInstance
<1>6. Works'
  <2>1. \A q \in Parts, j \in 0 .. MaxObjs : H(t, "exec", q, j)' <=> H(t, "exec", q, j)
    BY DEF Owned
  <2>2. \A j \in Insts : Holding(j)' <=> Holding(j)
    BY <2>1, SameHolding
  <2>3. \A j \in Insts : lost[j] > 0 => ~actived'["wp"][j]
    BY <1>1 DEF Works, Work
  <2> QED
    BY <1>1, <2>2, <2>3, SameWorks DEF Only
<1> QED
  BY <1>3, <1>4, <1>5, <1>6, OneInstance

LEMMA RefKeeps ==
  ASSUME Base, NEW t \in Threads, NEW p, Ref(t, p), Marks
  PROVE  Base'
<1> DEFINE i == handle[p]
<1>1. TypeOK /\ Shapes
  BY DEF Base
<1>2. /\ p \in Parts /\ Only(t)
      /\ \A y, q, j : H(t, y, q, j) <=> (y = "ref" /\ q = p /\ j = 0) \/ After(p, y, q, j)
      /\ UNCHANGED <<handle, made, stat, setup, actived, thr, tasks, lost, fault, selfjoin>>
      /\ UNCHANGED <<handle, made, stat, setup, actived, thr, pool, flags>>
      /\ \/ /\ i # 0 /\ stat[p][i] = "open" /\ refs' = Set(refs, p, i, refs[p][i] + 1)
            /\ \A y, q, j : H(t, y, q, j)'
                              <=> (y = "setup" /\ q = p /\ j = i) \/ After(p, y, q, j)
         \/ UNCHANGED refs /\ Calm
  BY <1>1, RefDoes DEF Ref, pool, flags
<1>3. \A q, j : \A y \in Owned : ~After(p, y, q, j)
  BY DEF After, Owned
<1>4. CASE UNCHANGED refs /\ Calm
  BY <1>2, <1>4, CalmStays DEF obj, Only
<1>5. ASSUME i # 0, stat[p][i] = "open", refs' = Set(refs, p, i, refs[p][i] + 1),
             \A y, q, j : H(t, y, q, j)' <=> (y = "setup" /\ q = p /\ j = i) \/ After(p, y, q, j)
      PROVE  Base'
  <2>1. i \in Insts
    BY <1>1, <1>2, <1>5, LibAssumption DEF Insts, TypeOK
  <2>2. PICK k \in Insts : k = handle[p]
    BY <2>1
  <2>3. /\ stat[p][k] = "open" /\ refs' = Set(refs, p, k, refs[p][k] + 1)
        /\ \A q, j : \A y \in Owned : H(t, y, q, j)' <=> y = "setup" /\ q = p /\ j = k
    BY <1>3, <1>5, <2>2
  <2>4. \A q, j : \A y \in Owned : ~H(t, y, q, j)
    BY <1>2, <1>3 DEF Owned
  <2> HIDE DEF i
  <2> QED
    BY <1>2, <2>3, <2>4, RefNamed
<1> HIDE DEF i
<1> QED
  BY <1>2, <1>4, <1>5

LEMMA EnterKeeps ==
  ASSUME Base, NEW t \in Threads, NEW s, NEW p, NEW next, Enter(t, s, p, next),
         <<s, p, next>> \in {<<"aref", "io", "use">>, <<"qref", "wp", "put">>}, Marks
  PROVE  Base'
<1> DEFINE i == handle[p]
<1>1. TypeOK /\ Shapes
  BY DEF Base
<1>2. /\ p \in Parts /\ Only(t)
      /\ \A y, q, j : H(t, y, q, j) <=> y = s /\ q = p /\ j = 0
      /\ UNCHANGED <<handle, made, stat, setup, actived, thr, tasks, lost, fault, selfjoin>>
      /\ UNCHANGED <<handle, made, stat, setup, actived, thr, pool, flags>>
      /\ \/ /\ i \in Insts /\ stat[p][i] = "open" /\ refs' = Set(refs, p, i, refs[p][i] + 1)
            /\ \A y, q, j : H(t, y, q, j)' <=> y \in {next, "defr"} /\ q = p /\ j = i
         \/ UNCHANGED refs /\ Calm
  BY <1>1, EnterDoes DEF pool, flags
<1>3. s \notin Owned /\ next \notin Owned
  BY DEF Owned
<1>4. CASE UNCHANGED refs /\ Calm
  BY <1>2, <1>4, CalmStays DEF obj, Only
<1>5. ASSUME i \in Insts, stat[p][i] = "open", refs' = Set(refs, p, i, refs[p][i] + 1),
             \A y, q, j : H(t, y, q, j)' <=> y \in {next, "defr"} /\ q = p /\ j = i
      PROVE  Base'
  <2>1. PICK k \in Insts : k = handle[p]
    BY <1>5
  <2>2. /\ stat[p][k] = "open" /\ refs' = Set(refs, p, k, refs[p][k] + 1)
        /\ \A q, j : \A y \in Owned : H(t, y, q, j)' <=> y = "defr" /\ q = p /\ j = k
    BY <1>3, <1>5, <2>1 DEF Owned
  <2>3. \A q, j : \A y \in Owned : ~H(t, y, q, j)
    BY <1>2, <1>3
  <2> HIDE DEF i
  <2> QED
    BY <1>2, <2>2, <2>3, RefNamed
<1> HIDE DEF i
<1> QED
  BY <1>2, <1>4, <1>5

(* A step of the set-up of an object, by the thread that refers to it.     *)
Advance(p, i, x, z) ==
  \/ /\ x = "setup" /\ z = "table" /\ setup[p][i] = "none" /\ setup'[p][i] = "divs"
     /\ actived'[p][i] = actived[p][i] /\ thr'[p][i] = thr[p][i]
  \/ /\ x = "table" /\ z = "threads" /\ setup'[p][i] = "table"
     /\ actived'[p][i] = actived[p][i] /\ thr'[p][i] = thr[p][i]
  \/ /\ x = "table" /\ z = "defr" /\ setup'[p][i] = setup[p][i] /\ fault'
     /\ actived'[p][i] = actived[p][i] /\ thr'[p][i] = thr[p][i]
  \/ /\ x = "threads" \/ (x = "setup" /\ setup[p][i] = "none")
     /\ z = "defr" /\ setup'[p][i] = "live"
     /\ \/ actived'[p][i] /\ thr'[p][i] = "up"
        \/ thr'[p][i] = thr[p][i] /\ fault'

(* The thread had step x, and has step z instead.                          *)
Moves(t, p, i, x, z) ==
  /\ \A y \in Owned : H(t, y, p, i) <=> y = x
  /\ \A y \in Owned : H(t, y, p, i)' <=> y = z

LEMMA BuildInstance ==
  ASSUME NEW t \in Threads, NEW p \in Parts, NEW i \in Insts, Instance(p, i), Only(t),
         UNCHANGED <<handle, made, stat, refs, selfjoin>>, fault => fault',
         actived'[p][i] \in BOOLEAN,
         NEW x \in {"setup", "table", "threads"}, NEW z \in {"table", "threads", "defr"},
         Moves(t, p, i, x, z), Advance(p, i, x, z)
  PROVE  Instance(p, i)'
<1> USE DEF Moves
<1>0. x \in Holder /\ H(t, x, p, i) /\ x \in Owned /\ z \in Owned
  BY DEF Holder, Owned
<1>1. /\ stat[p][i] \in {"open", "closing"} /\ handle[p] = i
      /\ Own(p, i) \notin selfjoin /\ ~Past(p, i) /\ ~AtJoin(p, i) /\ setup[p][i] # "freed"
      /\ \A u \in Threads : /\ ~H(u, "free", p, i) /\ ~H(u, "join", p, i)
                            /\ ~H(u, "stop", p, i)
  BY <1>0, HolderFacts
<1>2. \A u \in Threads :
        ~H(u, "stop", p, i)' /\ ~H(u, "join", p, i)' /\ ~H(u, "free", p, i)'
  BY <1>1, OtherThreads DEF Owned
<1>3. \A u \in Threads \ {t} :
        /\ H(u, "setup", p, i)' <=> H(u, "setup", p, i)
        /\ H(u, "table", p, i)' <=> H(u, "table", p, i)
        /\ H(u, "threads", p, i)' <=> H(u, "threads", p, i)
        /\ H(u, "defr", p, i)' <=> H(u, "defr", p, i)
  BY OtherThreads
<1>4. /\ H(t, "table", p, i) <=> x = "table"
      /\ H(t, "threads", p, i) <=> x = "threads"
      /\ H(t, "table", p, i)' <=> z = "table"
      /\ H(t, "threads", p, i)' <=> z = "threads"
      /\ H(t, "defr", p, i)' <=> z = "defr"
  BY DEF Owned
<1>5. Refs(p, i)' = Refs(p, i)
  <2>1. Holds(t, p, i) /\ Holds(t, p, i)'
    BY <1>0, <1>4 DEF Holds, Holder
  <2>2. \A u \in Threads \ {t} : Holds(u, p, i)' <=> Holds(u, p, i)
    BY <1>3 DEF Holds
  <2> QED
    BY <2>1, <2>2, RefsStep
<1>6. Counted(p, i)'
  BY <1>5 DEF Instance, Counted
<1>7. Destructed(p, i)'
  BY <1>1, <1>2 DEF Destructed
<1>8. Named(p, i)'
  BY DEF Instance, Named
<1>9. /\ \A u \in Threads : /\ H(u, "table", p, i) => setup[p][i] = "divs"
                            /\ H(u, "threads", p, i) => setup[p][i] = "table"
      /\ \A u, w \in Threads : Builds(u, p, i) /\ Builds(w, p, i) => u = w
      /\ setup[p][i] \in {"divs", "table"} => fault \/ \E u \in Threads : Builds(u, p, i)
  BY DEF Instance, Built
<1>10. \A u \in Threads \ {t} : ~H(u, "table", p, i)' /\ ~H(u, "threads", p, i)'
  <2> SUFFICES ASSUME NEW u \in Threads \ {t} PROVE ~H(u, "table", p, i) /\ ~H(u, "threads", p, i)
    BY <1>3
  <2>1. CASE x = "setup"
    BY <1>9, <2>1 DEF Advance
  <2>2. CASE x \in {"table", "threads"}
    <3>1. Builds(t, p, i)
      BY <1>4, <2>2 DEF Builds
    <3> QED
      BY <1>9, <3>1 DEF Builds
  <2> QED
    BY <2>1, <2>2
<1>11. Built(p, i)'
  <2>1. \A u \in Threads : /\ H(u, "table", p, i)' => setup'[p][i] = "divs"
                           /\ H(u, "threads", p, i)' => setup'[p][i] = "table"
    BY <1>4, <1>10 DEF Advance
  <2>2. \A u, w \in Threads : Builds(u, p, i)' /\ Builds(w, p, i)' => u = w
    BY <1>10 DEF Builds
  <2>3. setup'[p][i] \in {"divs", "table"} => fault' \/ Builds(t, p, i)'
    BY <1>4 DEF Builds, Advance
  <2> QED
    BY <2>1, <2>2, <2>3 DEF Built
<1>12. Running(p, i)'
  <2>1. ~Past(p, i)' /\ ~AtJoin(p, i)'
    BY <1>2 DEF Past, AtJoin
  <2>2. Running(p, i)
    BY DEF Instance
  <2>3. (x = "table" => setup[p][i] = "divs") /\ (x = "threads" => setup[p][i] = "table")
    BY <1>4, <1>9
  <2>4. thr[p][i] = "none" /\ ~actived[p][i]
    BY <1>1, <2>2, <2>3 DEF Running, Advance
  <2>5. /\ stat'[p][i] \in {"open", "closing"} /\ Own(p, i) \notin selfjoin'
        /\ setup'[p][i] \in {"divs", "table", "live"}
    BY <1>1, <2>3 DEF Advance
  <2>6. \/ ~actived'[p][i] /\ thr'[p][i] = "none" /\ setup'[p][i] # "live"
        \/ actived'[p][i] /\ thr'[p][i] = "up" /\ setup'[p][i] = "live"
        \/ thr'[p][i] = "none" /\ fault' /\ setup'[p][i] = "live"
    BY <2>3, <2>4 DEF Advance
  <2> QED
    BY <2>1, <2>5, <2>6 DEF Running, Own
<1> QED
  BY <1>6, <1>7, <1>8, <1>11, <1>12 DEF Instance

LEMMA BuildNamed ==
  ASSUME Base, NEW t \in Threads, NEW p \in Parts, NEW i \in Insts, Marks, Only(t),
         UNCHANGED <<handle, made, stat, refs, tasks, lost, selfjoin>>, fault' \in BOOLEAN,
         fault => fault',
         NEW a \in BOOLEAN, NEW h \in {"none", "up", "ended"},
         NEW s \in {"none", "divs", "table", "live"},
         setup' = Set(setup, p, i, s), actived' = Set(actived, p, i, a),
         thr' = Set(thr, p, i, h),
         NEW x \in {"setup", "table", "threads"}, NEW z \in {"table", "threads", "defr"},
         p = "wp" => x = "setup",
         \A q, j : \A y \in Owned : H(t, y, q, j) <=> y = x /\ q = p /\ j = i,
         \A q, j : \A y \in Owned : H(t, y, q, j)' <=> y = z /\ q = p /\ j = i,
         Advance(p, i, x, z)
  PROVE  Base'
<1>1. /\ TypeOK /\ Shapes /\ Works /\ Instance(p, i)
      /\ setup \in [Parts -> [Insts -> {"none", "divs", "table", "live", "freed"}]]
      /\ actived \in [Parts -> [Insts -> BOOLEAN]]
      /\ thr \in [Parts -> [Insts -> {"none", "up", "ended"}]]
  BY DEF Base, Instances, TypeOK
<1>2. /\ setup' \in [Parts -> [Insts -> {"none", "divs", "table", "live", "freed"}]]
      /\ setup'[p][i] = s
      /\ \A q \in Parts, j \in Insts : q # p \/ j # i => setup'[q][j] = setup[q][j]
  BY <1>1 DEF Set
<1>3. /\ actived' \in [Parts -> [Insts -> BOOLEAN]] /\ actived'[p][i] = a
      /\ \A q \in Parts, j \in Insts : q # p \/ j # i => actived'[q][j] = actived[q][j]
  BY <1>1 DEF Set
<1>4. /\ thr' \in [Parts -> [Insts -> {"none", "up", "ended"}]]
      /\ \A q \in Parts, j \in Insts : q # p \/ j # i => thr'[q][j] = thr[q][j]
  BY <1>1 DEF Set
<1>5. TypeOK'
  BY <1>1, <1>2, <1>3, <1>4, TodoType DEF TypeOK, Marks, UBs, Only
<1>6. Elsewhere(t, p, i)
  <2>1. \A y \in Owned, q \in Parts, j \in Insts :
          q # p \/ j # i => (H(t, y, q, j)' <=> H(t, y, q, j))
    OBVIOUS
  <2> QED
    BY <1>2, <1>3, <1>4, <2>1 DEF Elsewhere
<1>7. Instance(p, i)'
  <2>1. Moves(t, p, i, x, z)
    BY DEF Moves
  <2>3. actived'[p][i] \in BOOLEAN
    BY <1>3
  <2>4. UNCHANGED <<handle, made, stat, refs, selfjoin>>
    OBVIOUS
  <2> QED
    BY <1>1, <2>1, <2>3, <2>4, BuildInstance
<1>8. Works'
  <2>1. \A q \in Parts, j \in 0 .. MaxObjs : H(t, "exec", q, j)' <=> H(t, "exec", q, j)
    BY DEF Owned
  <2>2. \A j \in Insts : Holding(j)' <=> Holding(j)
    BY <2>1, SameHolding
  <2>3. \A j \in Insts : lost[j] > 0 => ~actived["wp"][j] /\ setup["wp"][j] # "none"
    <3> TAKE j \in Insts
    <3> HAVE lost[j] > 0
    <3>1. Work(j) /\ lost[j] \in Nat
      BY <1>1 DEF Works, TypeOK
    <3>2. Held(j) \in {0, 1}
      BY DEF Held
    <3> QED
      BY <3>1, <3>2 DEF Work
  <2>4. \A j \in Insts : setup["wp"][j] # "none" => setup'["wp"][j] # "none"
    <3>1. setup'[p][i] = "none" => setup[p][i] = "none"
      BY <1>1 DEF Advance
    <3> QED
      BY <1>2, <3>1, StepsAre
  <2>5. \A j \in Insts : lost[j] > 0 => ~actived'["wp"][j]
    <3>1. p = "wp" => setup[p][i] = "none"
      BY DEF Advance
    <3> QED
      BY <1>3, <2>3, <3>1, StepsAre
  <2> QED
    BY <1>1, <2>2, <2>4, <2>5, SameWorks DEF Only
<1> QED
  BY <1>5, <1>6, <1>7, <1>8, OneInstance

LEMMA SetSame ==
  ASSUME NEW S, NEW f \in [Parts -> [Insts -> S]], NEW p \in Parts, NEW i \in Insts
  PROVE  Set(f, p, i, f[p][i]) = f /\ f[p][i] \in S
<1> DEFINE g == Set(f, p, i, f[p][i])
<1>1. g \in [Parts -> [Insts -> S]] /\ \A q \in Parts, j \in Insts : g[q][j] = f[q][j]
  BY DEF Set
<1> HIDE DEF g
<1>2. \A q \in Parts : g[q] = f[q]
  BY <1>1
<1>3. g = f
  BY <1>1, <1>2
<1> QED
  BY <1>3 DEF g

LEMMA SetsSame ==
  ASSUME TypeOK, NEW p \in Parts, NEW i \in Insts
  PROVE  /\ Set(setup, p, i, setup[p][i]) = setup
         /\ Set(actived, p, i, actived[p][i]) = actived /\ actived[p][i] \in BOOLEAN
         /\ Set(thr, p, i, thr[p][i]) = thr /\ thr[p][i] \in {"none", "up", "ended"}
<1>1. /\ setup \in [Parts -> [Insts -> {"none", "divs", "table", "live", "freed"}]]
      /\ actived \in [Parts -> [Insts -> BOOLEAN]]
      /\ thr \in [Parts -> [Insts -> {"none", "up", "ended"}]]
  BY DEF TypeOK
<1>2. Set(setup, p, i, setup[p][i]) = setup
  BY <1>1, SetSame
<1>3. Set(actived, p, i, actived[p][i]) = actived /\ actived[p][i] \in BOOLEAN
  BY <1>1, SetSame
<1>4. Set(thr, p, i, thr[p][i]) = thr /\ thr[p][i] \in {"none", "up", "ended"}
  BY <1>1, SetSame
<1> QED
  BY <1>2, <1>3, <1>4

(* A step that changes no more than the marks.                             *)
LEMMA StillStays ==
  ASSUME Base, Marks, UNCHANGED <<handle, made, obj, setup, actived, thr, pool, todo, flags>>
  PROVE  Base'
<1>1. todo' = todo
  OBVIOUS
<1>2. \A u, y, q, j : H(u, y, q, j)' <=> H(u, y, q, j)
  BY <1>1 DEF H
<1>3. Calm
  BY <1>2 DEF Calm
<1>4. Shapes' /\ todo' \in [Threads -> Seq(AStep)]
  <2>1. \A u \in Threads : Shaped(todo'[u])
    BY <1>1 DEF Base, Shapes
  <2>2. Shapes'
    BY <2>1 DEF Shapes, Shaped, Below
  <2> QED
    BY <1>1, <2>2, StacksType DEF Base
<1> QED
  BY <1>3, <1>4, CalmStays

LEMMA NotOwned ==
  \A p, y, q, j : y \in Owned => ~After(p, y, q, j) /\ y # "clos"
  BY DEF After, Owned

LEMMA DivisionsKeeps ==
  ASSUME Base, NEW t \in Threads, NEW i, Divisions(t, i), ub' = "no", Marks
  PROVE  Base'
<1>1. TypeOK /\ Shapes
  BY DEF Base
<1>2. /\ i \in Insts /\ Only(t)
      /\ setup["io"][i] = "none" /\ setup' = Set(setup, "io", i, "divs")
      /\ UNCHANGED <<handle, made, stat, refs, actived, thr, tasks, lost, fault, selfjoin>>
      /\ \A y, q, j : H(t, y, q, j)
                        <=> (y = "setup" /\ q = "io" /\ j = i) \/ After("io", y, q, j)
      /\ \A y, q, j : H(t, y, q, j)'
                        <=> (y = "table" /\ q = "io" /\ j = i) \/ After("io", y, q, j)
  BY <1>1, DivisionsDoes DEF obj, pool, flags
<1>3. /\ actived' = Set(actived, "io", i, actived["io"][i]) /\ actived["io"][i] \in BOOLEAN
      /\ thr' = Set(thr, "io", i, thr["io"][i]) /\ thr["io"][i] \in {"none", "up", "ended"}
  BY <1>1, <1>2, SetsSame, StepsAre
<1>4. /\ \A q, j : \A y \in Owned : H(t, y, q, j) <=> y = "setup" /\ q = "io" /\ j = i
      /\ \A q, j : \A y \in Owned : H(t, y, q, j)' <=> y = "table" /\ q = "io" /\ j = i
  BY <1>2, NotOwned
<1>5. setup'["io"][i] = "divs"
  BY <1>1, <1>2, StepsAre DEF Set, TypeOK
<1>6. Advance("io", i, "setup", "table")
  BY <1>2, <1>5 DEF Advance
<1>7. fault' \in BOOLEAN
  BY <1>1, <1>2 DEF TypeOK
<1> QED
  BY <1>2, <1>3, <1>4, <1>6, <1>7, StepsAre, BuildNamed

LEMMA TableKeeps ==
  ASSUME Base, NEW t \in Threads, NEW i, Table(t, i), Marks
  PROVE  Base'
<1>1. TypeOK /\ Shapes
  BY DEF Base
<1>2. /\ i \in Insts /\ Only(t)
      /\ UNCHANGED <<handle, made, stat, refs, actived, thr, tasks, lost, selfjoin>>
      /\ \A y, q, j : H(t, y, q, j)
                        <=> (y = "table" /\ q = "io" /\ j = i) \/ After("io", y, q, j)
      /\ \/ /\ setup' = Set(setup, "io", i, "table") /\ UNCHANGED fault
            /\ \A y, q, j : H(t, y, q, j)'
                              <=> (y = "threads" /\ q = "io" /\ j = i) \/ After("io", y, q, j)
         \/ /\ UNCHANGED setup /\ fault' = TRUE
            /\ \A y, q, j : H(t, y, q, j)' <=> y = "defr" /\ q = "io" /\ j = i
  BY <1>1, TableDoes DEF obj, pool
<1>3. /\ actived' = Set(actived, "io", i, actived["io"][i]) /\ actived["io"][i] \in BOOLEAN
      /\ thr' = Set(thr, "io", i, thr["io"][i]) /\ thr["io"][i] \in {"none", "up", "ended"}
      /\ setup = Set(setup, "io", i, setup["io"][i])
  BY <1>1, <1>2, SetsSame, StepsAre
<1>4. \A q, j : \A y \in Owned : H(t, y, q, j) <=> y = "table" /\ q = "io" /\ j = i
  BY <1>2, NotOwned
<1>5. Instance("io", i) /\ setup["io"][i] = "divs"
  <2>1. Instance("io", i) /\ H(t, "table", "io", i)
    BY <1>2, StepsAre DEF Base, Instances
  <2> QED
    BY <2>1 DEF Instance, Built
<1>6. CASE /\ setup' = Set(setup, "io", i, "table") /\ UNCHANGED fault
           /\ \A y, q, j : H(t, y, q, j)'
                             <=> (y = "threads" /\ q = "io" /\ j = i) \/ After("io", y, q, j)
  <2>1. \A q, j : \A y \in Owned : H(t, y, q, j)' <=> y = "threads" /\ q = "io" /\ j = i
    BY <1>6, NotOwned
  <2>2. setup'["io"][i] = "table"
    BY <1>1, <1>2, <1>6, StepsAre DEF Set, TypeOK
  <2>3. Advance("io", i, "table", "threads")
    BY <1>2, <2>2 DEF Advance
  <2>4. fault' \in BOOLEAN /\ fault' = fault
    BY <1>1, <1>6 DEF TypeOK
  <2> QED
    BY <1>2, <1>3, <1>4, <1>6, <2>1, <2>3, <2>4, StepsAre, BuildNamed
<1>7. CASE /\ UNCHANGED setup /\ fault' = TRUE
           /\ \A y, q, j : H(t, y, q, j)' <=> y = "defr" /\ q = "io" /\ j = i
  <2>1. \A q, j : \A y \in Owned : H(t, y, q, j)' <=> y = "defr" /\ q = "io" /\ j = i
    BY <1>7
  <2>2. Advance("io", i, "table", "defr")
    BY <1>2, <1>7 DEF Advance
  <2>3. setup' = Set(setup, "io", i, "divs")
    BY <1>3, <1>5, <1>7
  <2> QED
    BY <1>2, <1>3, <1>4, <1>7, <2>1, <2>2, <2>3, StepsAre, BuildNamed
<1> QED
  BY <1>2, <1>6, <1>7

LEMMA IoThreadsKeeps ==
  ASSUME Base, NEW t \in Threads, NEW i, IoThreads(t, i), Marks
  PROVE  Base'
<1>1. TypeOK /\ Shapes
  BY DEF Base
<1>2. /\ i \in Insts /\ Only(t)
      /\ UNCHANGED <<handle, made, stat, refs, tasks, lost, selfjoin>>
      /\ setup' = Set(setup, "io", i, "live")
      /\ \/ /\ actived' = Set(actived, "io", i, TRUE) /\ thr' = Set(thr, "io", i, "up")
            /\ UNCHANGED fault
         \/ /\ \E a \in BOOLEAN : actived' = Set(actived, "io", i, a)
            /\ fault' = TRUE /\ UNCHANGED thr
      /\ \A y, q, j : H(t, y, q, j)
                        <=> (y = "threads" /\ q = "io" /\ j = i) \/ After("io", y, q, j)
      /\ \A y, q, j : H(t, y, q, j)'
                        <=> (y = "defr" /\ q = "io" /\ j = i) \/ After("io", y, q, j)
  BY <1>1, IoThreadsDoes DEF obj, pool
<1>3. thr = Set(thr, "io", i, thr["io"][i]) /\ thr["io"][i] \in {"none", "up", "ended"}
  BY <1>1, <1>2, SetsSame, StepsAre
<1>4. /\ \A q, j : \A y \in Owned : H(t, y, q, j) <=> y = "threads" /\ q = "io" /\ j = i
      /\ \A q, j : \A y \in Owned : H(t, y, q, j)' <=> y = "defr" /\ q = "io" /\ j = i
  BY <1>2, NotOwned
<1>5. PICK a \in BOOLEAN, h \in {"none", "up", "ended"} :
        /\ actived' = Set(actived, "io", i, a) /\ thr' = Set(thr, "io", i, h)
        /\ \/ a = TRUE /\ h = "up" /\ fault' = fault
           \/ h = thr["io"][i] /\ fault' = TRUE
  BY <1>2, <1>3
<1>6. setup'["io"][i] = "live" /\ actived'["io"][i] = a /\ thr'["io"][i] = h
  BY <1>1, <1>2, <1>5, StepsAre DEF Set, TypeOK
<1>7. Advance("io", i, "threads", "defr")
  BY <1>5, <1>6 DEF Advance
<1>8. fault' \in BOOLEAN /\ (fault => fault')
  BY <1>1, <1>5 DEF TypeOK
<1> QED
  BY <1>2, <1>4, <1>5, <1>7, <1>8, StepsAre, BuildNamed

LEMMA PoolThreadKeeps ==
  ASSUME Base, NEW t \in Threads, NEW i, PoolThread(t, i), ub' = "no", Marks
  PROVE  Base'
<1>1. TypeOK /\ Shapes
  BY DEF Base
<1>2. /\ i \in Insts /\ Only(t)
      /\ UNCHANGED <<handle, made, stat, refs, tasks, lost, selfjoin>>
      /\ setup["wp"][i] = "none" /\ setup' = Set(setup, "wp", i, "live")
      /\ actived' = Set(actived, "wp", i, TRUE)
      /\ \A y, q, j : H(t, y, q, j)
                        <=> (y = "setup" /\ q = "wp" /\ j = i) \/ After("wp", y, q, j)
      /\ \/ /\ thr' = Set(thr, "wp", i, "up") /\ UNCHANGED fault
            /\ \A y, q, j : H(t, y, q, j)'
                              <=> (y = "defr" /\ q = "wp" /\ j = i) \/ After("wp", y, q, j)
         \/ /\ fault' = TRUE /\ UNCHANGED thr
            /\ \A y, q, j : H(t, y, q, j)'
                              <=> (y = "defr" /\ q = "wp" /\ j = i) \/ (y = "clos" /\ q = "io" /\ j = 0)
  BY <1>1, PoolThreadDoes DEF obj, pool
<1>3. thr = Set(thr, "wp", i, thr["wp"][i]) /\ thr["wp"][i] \in {"none", "up", "ended"}
  BY <1>1, <1>2, SetsSame, StepsAre
<1>4. /\ \A q, j : \A y \in Owned : H(t, y, q, j) <=> y = "setup" /\ q = "wp" /\ j = i
      /\ \A q, j : \A y \in Owned : H(t, y, q, j)' <=> y = "defr" /\ q = "wp" /\ j = i
  BY <1>2, NotOwned
<1>5. PICK a \in BOOLEAN, h \in {"none", "up", "ended"} :
        /\ a = TRUE /\ actived' = Set(actived, "wp", i, a)
        /\ thr' = Set(thr, "wp", i, h)
        /\ \/ h = "up" /\ fault' = fault
           \/ h = thr["wp"][i] /\ fault' = TRUE
  BY <1>2, <1>3
<1>6. setup'["wp"][i] = "live" /\ actived'["wp"][i] = TRUE /\ thr'["wp"][i] = h
  BY <1>1, <1>2, <1>5, StepsAre DEF Set, TypeOK
<1>7. Advance("wp", i, "setup", "defr")
  BY <1>2, <1>5, <1>6 DEF Advance
<1>8. fault' \in BOOLEAN /\ (fault => fault')
  BY <1>1, <1>5 DEF TypeOK
<1>9. /\ UNCHANGED <<handle, made, stat, refs, tasks, lost, selfjoin>>
      /\ setup' = Set(setup, "wp", i, "live") /\ actived' = Set(actived, "wp", i, a)
      /\ thr' = Set(thr, "wp", i, h) /\ i \in Insts /\ Only(t) /\ "wp" \in Parts
  BY <1>2, <1>5, StepsAre
<1> QED
  BY <1>4, <1>7, <1>8, <1>9, BuildNamed

(* The thread that runs a destructor has the object to itself.             *)
LEMMA DestructorAt ==
  ASSUME NEW p \in Parts, NEW i \in Insts, Instance(p, i), NEW t \in Threads, H(t, "free", p, i)
  PROVE  /\ stat[p][i] = "dying" /\ handle[p] = i /\ Refs(p, i) = {} /\ refs[p][i] = 0
         /\ \A u \in Threads : \A y \in Holder : ~H(u, y, p, i)
         /\ \A u \in Threads \ {t} : ~H(u, "free", p, i) /\ ~H(u, "join", p, i) /\ ~H(u, "stop", p, i)
         /\ Past(p, i) <=> ~H(t, "stop", p, i)
         /\ AtJoin(p, i) <=> H(t, "join", p, i) /\ ~H(t, "stop", p, i)
         /\ ~(i > made[p])
<1>1. stat[p][i] = "dying"
  BY DEF Instance, Destructed
<1>2. handle[p] = i /\ Refs(p, i) = {} /\ refs[p][i] = 0 /\ ~(i > made[p])
  BY <1>1, RefsFinite DEF Instance, Named, Counted
<1>3. \A u \in Threads : \A y \in Holder : ~H(u, y, p, i)
  BY <1>2 DEF Refs, Holds, Holder
<1>4. \A u \in Threads \ {t} : ~H(u, "free", p, i) /\ ~H(u, "join", p, i) /\ ~H(u, "stop", p, i)
  BY DEF Instance, Destructed
<1>5. /\ Past(p, i) <=> ~H(t, "stop", p, i)
      /\ AtJoin(p, i) <=> H(t, "join", p, i) /\ ~H(t, "stop", p, i)
  BY <1>4 DEF Past, AtJoin
<1> QED
  BY <1>1, <1>2, <1>3, <1>4, <1>5

(* A step of a destructor leaves the references alone, and the others have *)
(* no step of it.                                                          *)
Destroys(t, p, i) ==
  /\ \A y \in Owned : H(t, y, p, i) => y \in {"stop", "join", "free"}
  /\ \A y \in Owned : H(t, y, p, i)' => y \in {"stop", "join", "free"}

LEMMA DestructorGoesOn ==
  ASSUME NEW p \in Parts, NEW i \in Insts, Instance(p, i), NEW t \in Threads, H(t, "free", p, i),
         Only(t), Destroys(t, p, i)
  PROVE  /\ \A u \in Threads : \A y \in Holder : ~H(u, y, p, i)'
         /\ Refs(p, i)' = {}
         /\ \A u \in Threads \ {t} :
              ~H(u, "free", p, i)' /\ ~H(u, "join", p, i)' /\ ~H(u, "stop", p, i)'
         /\ Past(p, i)' <=> H(t, "free", p, i)' /\ ~H(t, "stop", p, i)'
         /\ AtJoin(p, i)' <=> H(t, "join", p, i)' /\ ~H(t, "stop", p, i)'
<1>1. /\ \A u \in Threads : \A y \in Holder : ~H(u, y, p, i)
      /\ \A u \in Threads \ {t} : ~H(u, "free", p, i) /\ ~H(u, "join", p, i) /\ ~H(u, "stop", p, i)
  BY DestructorAt
<1>2. \A u \in Threads \ {t} :
        /\ ~H(u, "free", p, i)' /\ ~H(u, "join", p, i)' /\ ~H(u, "stop", p, i)'
        /\ \A y \in Holder : ~H(u, y, p, i)'
  BY <1>1, OtherThreads
<1>3. \A u \in Threads : \A y \in Holder : ~H(u, y, p, i)'
  BY <1>2 DEF Destroys, Owned, Holder
<1>4. Refs(p, i)' = {}
  BY <1>3 DEF Refs, Holds, Holder, Threads, Workers, Own
<1>5. /\ Past(p, i)' <=> H(t, "free", p, i)' /\ ~H(t, "stop", p, i)'
      /\ AtJoin(p, i)' <=> H(t, "join", p, i)' /\ ~H(t, "stop", p, i)'
  BY <1>2 DEF Past, AtJoin
<1> QED
  BY <1>2, <1>3, <1>4, <1>5

(* It resets actived, unless an earlier failure had.                       *)
LEMMA StopInstance ==
  ASSUME NEW t \in Threads, NEW p \in Parts, NEW i \in Insts, Instance(p, i), Only(t),
         UNCHANGED <<handle, made, stat, refs, setup, thr, fault, selfjoin>>, Destroys(t, p, i),
         H(t, "stop", p, i), H(t, "join", p, i), H(t, "free", p, i),
         ~H(t, "stop", p, i)', H(t, "free", p, i)', ~actived'[p][i],
         H(t, "join", p, i)' <=> actived[p][i]
  PROVE  Instance(p, i)'
<1>1. /\ stat[p][i] = "dying" /\ handle[p] = i /\ Refs(p, i) = {} /\ refs[p][i] = 0
      /\ \A u \in Threads : \A y \in Holder : ~H(u, y, p, i)
      /\ ~Past(p, i) /\ ~AtJoin(p, i)
  BY DestructorAt
<1>2. /\ \A u \in Threads : \A y \in Holder : ~H(u, y, p, i)'
      /\ Refs(p, i)' = {}
      /\ \A u \in Threads \ {t} :
           ~H(u, "free", p, i)' /\ ~H(u, "join", p, i)' /\ ~H(u, "stop", p, i)'
      /\ Past(p, i)' /\ (AtJoin(p, i)' <=> H(t, "join", p, i)')
  BY DestructorGoesOn
<1>3. Counted(p, i)'
  BY <1>1, <1>2, FS_EmptySet DEF Counted
<1>4. Destructed(p, i)'
  BY <1>1, <1>2 DEF Destructed
<1>5. Named(p, i)'
  BY DEF Instance, Named
<1>6. Built(p, i)'
  BY <1>1, <1>2 DEF Instance, Built, Builds, Holder
<1>7. Running(p, i)'
  <2>1. Running(p, i) /\ Own(p, i) \notin selfjoin
    BY DEF Instance, Running
  <2> QED
    BY <1>1, <1>2, <2>1 DEF Running, Own
<1> QED
  BY <1>3, <1>4, <1>5, <1>6, <1>7 DEF Instance

(* It joins the thread, unless that is the one it runs on.                 *)
LEMMA JoinInstance ==
  ASSUME NEW t \in Threads, NEW p \in Parts, NEW i \in Insts, Instance(p, i), Only(t),
         UNCHANGED <<handle, made, stat, refs, setup, actived, thr, fault>>, Destroys(t, p, i),
         thr[p][i] = "ended" \/ t = Own(p, i),
         selfjoin' = IF t = Own(p, i) THEN selfjoin \cup {t} ELSE selfjoin,
         ~H(t, "stop", p, i), H(t, "join", p, i), H(t, "free", p, i),
         ~H(t, "stop", p, i)', ~H(t, "join", p, i)', H(t, "free", p, i)'
  PROVE  Instance(p, i)'
<1>1. /\ stat[p][i] = "dying" /\ handle[p] = i /\ Refs(p, i) = {} /\ refs[p][i] = 0
      /\ \A u \in Threads : \A y \in Holder : ~H(u, y, p, i)
      /\ Past(p, i) /\ AtJoin(p, i)
  BY DestructorAt
<1>2. /\ \A u \in Threads : \A y \in Holder : ~H(u, y, p, i)'
      /\ Refs(p, i)' = {}
      /\ \A u \in Threads \ {t} :
           ~H(u, "free", p, i)' /\ ~H(u, "join", p, i)' /\ ~H(u, "stop", p, i)'
      /\ Past(p, i)' /\ ~AtJoin(p, i)'
  BY DestructorGoesOn
<1>3. Counted(p, i)'
  BY <1>1, <1>2, FS_EmptySet DEF Counted
<1>4. Destructed(p, i)'
  BY <1>1, <1>2 DEF Destructed
<1>5. Named(p, i)'
  BY DEF Instance, Named
<1>6. Built(p, i)'
  BY <1>1, <1>2 DEF Instance, Built, Builds, Holder
<1>7. Running(p, i)'
  <2>1. Running(p, i) /\ Own(p, i) \notin selfjoin
    BY DEF Instance, Running
  <2>2. \A u \in Threads : ~H(u, "join", p, i)'
    BY <1>2
  <2>3. Own(p, i) \in selfjoin' <=> t = Own(p, i)
    BY <2>1
  <2> QED
    BY <1>1, <1>2, <2>1, <2>2, <2>3 DEF Running, Own
<1> QED
  BY <1>3, <1>4, <1>5, <1>6, <1>7 DEF Instance

(* The object is gone.                                                     *)
LEMMA FreeInstance ==
  ASSUME NEW t \in Threads, NEW p \in Parts, NEW i \in Insts, Instance(p, i), Only(t),
         UNCHANGED <<made, refs, actived, thr, fault, selfjoin>>, Destroys(t, p, i),
         setup'[p][i] = "freed", stat'[p][i] = "dead", handle'[p] # i,
         ~H(t, "stop", p, i), ~H(t, "join", p, i), H(t, "free", p, i),
         ~H(t, "stop", p, i)', ~H(t, "join", p, i)', ~H(t, "free", p, i)'
  PROVE  Instance(p, i)'
<1>1. /\ stat[p][i] = "dying" /\ Refs(p, i) = {} /\ refs[p][i] = 0
      /\ \A u \in Threads : \A y \in Holder : ~H(u, y, p, i)
      /\ Past(p, i) /\ ~AtJoin(p, i) /\ ~(i > made[p])
  BY DestructorAt DEF Instance, Named
<1>2. /\ \A u \in Threads : \A y \in Holder : ~H(u, y, p, i)'
      /\ Refs(p, i)' = {}
      /\ \A u \in Threads \ {t} :
           ~H(u, "free", p, i)' /\ ~H(u, "join", p, i)' /\ ~H(u, "stop", p, i)'
      /\ ~Past(p, i)' /\ ~AtJoin(p, i)'
  BY DestructorGoesOn
<1>3. Counted(p, i)'
  BY <1>1, <1>2, FS_EmptySet DEF Counted
<1>4. Destructed(p, i)'
  BY <1>1, <1>2 DEF Destructed
<1>5. Named(p, i)'
  BY <1>1 DEF Named
<1>6. Built(p, i)'
  BY <1>1, <1>2 DEF Instance, Built, Builds, Holder
<1>7. Running(p, i)'
  <2>1. Running(p, i)
    BY DEF Instance
  <2>2. \A u \in Threads : ~H(u, "join", p, i)'
    BY <1>2
  <2> QED
    BY <1>1, <1>2, <2>1, <2>2 DEF Running, Own
<1> QED
  BY <1>3, <1>4, <1>5, <1>6, <1>7 DEF Instance

(* A thread that has seen actived reset ends.                              *)
LEMMA LookInstance ==
  ASSUME NEW p \in Parts, NEW i \in Insts, Instance(p, i), UNCHANGED todo,
         UNCHANGED <<handle, made, stat, refs, setup, actived, fault, selfjoin>>,
         ~actived[p][i], thr[p][i] = "up", thr'[p][i] = "ended"
  PROVE  Instance(p, i)'
<1>1. \A u, y, q, j : H(u, y, q, j)' <=> H(u, y, q, j)
  BY DEF H
<1>2. Refs(p, i)' = Refs(p, i)
  BY <1>1 DEF Refs, Holds, Threads, Workers, Own
<1>3. /\ Past(p, i)' <=> Past(p, i)
      /\ AtJoin(p, i)' <=> AtJoin(p, i)
  BY <1>1 DEF Past, AtJoin
<1>4. Counted(p, i)' /\ Destructed(p, i)' /\ Named(p, i)' /\ Built(p, i)'
  BY <1>1, <1>2 DEF Instance, Counted, Destructed, Named, Built, Builds
<1>5. Running(p, i)'
  <2>1. Running(p, i)
    BY DEF Instance
  <2>2. (\A u \in Threads : ~H(u, "join", p, i)) => (\A u \in Threads : ~H(u, "join", p, i)')
    BY <1>1
  <2> QED
    BY <1>3, <2>1, <2>2 DEF Running, Own
<1> QED
  BY <1>4, <1>5 DEF Instance

LEMMA LookKeeps ==
  ASSUME Base, NEW p \in Parts, NEW i \in Insts, Look(p, i), ub' = "no", Marks
  PROVE  Base'
<1>1. /\ TypeOK /\ Shapes /\ Works /\ Instance(p, i)
      /\ thr \in [Parts -> [Insts -> {"none", "up", "ended"}]]
  BY DEF Base, Instances, TypeOK
<1>2. /\ ~actived[p][i] /\ thr[p][i] = "up" /\ thr' = Set(thr, p, i, "ended")
      /\ UNCHANGED <<handle, made, stat, refs, setup, actived, tasks, lost, todo, fault, selfjoin>>
  BY DEF Look, Undefined, obj, pool, flags
<1>3. /\ thr' \in [Parts -> [Insts -> {"none", "up", "ended"}]] /\ thr'[p][i] = "ended"
      /\ \A q \in Parts, j \in Insts : q # p \/ j # i => thr'[q][j] = thr[q][j]
  BY <1>1, <1>2 DEF Set
<1>4. Own(p, i) \in Threads
  BY DEF Threads, Workers
<1>5. \A u, y, q, j : H(u, y, q, j)' <=> H(u, y, q, j)
  BY <1>2 DEF H
<1>6. Only(Own(p, i))
  <2>1. \A u \in Threads : Shaped(todo'[u])
    BY <1>1, <1>2 DEF Shapes
  <2>2. Shapes'
    BY <2>1 DEF Shapes, Shaped, Below
  <2>3. todo' \in [Threads -> Seq(AStep)]
    BY <1>1, <1>2, StacksType
  <2> QED
    BY <1>2, <2>2, <2>3 DEF Only, Own
<1>7. TypeOK'
  BY <1>1, <1>2, <1>3 DEF TypeOK, Marks, UBs
<1>8. Elsewhere(Own(p, i), p, i)
  <2> DEFINE t == Own(p, i)
  <2>1. \A y \in Owned, q \in Parts, j \in Insts : H(t, y, q, j)' <=> H(t, y, q, j)
    BY <1>5
  <2> QED
    BY <1>2, <1>3, <2>1 DEF Elsewhere, Own
<1>9. Instance(p, i)'
  BY <1>1, <1>2, <1>3, LookInstance
<1>10. Works'
  <2>1. \A j \in Insts : Holding(j)' <=> Holding(j)
    BY <1>5 DEF Holding, Own
  <2>2. \A j \in Insts : lost[j] > 0 => ~actived'["wp"][j]
    BY <1>1, <1>2 DEF Works, Work
  <2>3. todo' \in [Threads -> Seq(AStep)]
    BY <1>1, <1>2, StacksType
  <2> QED
    BY <1>1, <1>2, <2>1, <2>2, <2>3, SameWorks
<1> QED
  BY <1>2, <1>4, <1>6, <1>7, <1>8, <1>9, <1>10, OneInstance

(* A thread has the steps B of the destructor, on top of rest r.           *)
Tops(t, B, p, i, r) ==
  \A y, q, j : H(t, y, q, j) <=> (y \in B /\ q = p /\ j = i) \/ Has(r, y, q, j)

LEMMA DestroysFacts ==
  ASSUME NEW t \in Threads, NEW p \in Parts, NEW i \in Insts, NEW r \in Rests,
         NEW B \in SUBSET {"stop", "join", "free"}, NEW A \in SUBSET {"stop", "join", "free"},
         Tops(t, B, p, i, r), Tops(t, A, p, i, r)'
  PROVE  /\ Destroys(t, p, i)
         /\ \A y \in {"stop", "join", "free"} : /\ H(t, y, p, i) <=> y \in B
                                                /\ H(t, y, p, i)' <=> y \in A
         /\ \A y \in Owned, q \in Parts, j \in Insts :
              q # p \/ j # i => (H(t, y, q, j)' <=> H(t, y, q, j))
         /\ \A q, j : H(t, "exec", q, j)' <=> H(t, "exec", q, j)
<1>1. \A q, j : \A y \in Owned : ~Has(r, y, q, j)
  BY RestFacts DEF Owned
<1>2. \A q, j : \A y \in Owned : /\ H(t, y, q, j) <=> y \in B /\ q = p /\ j = i
                                 /\ H(t, y, q, j)' <=> y \in A /\ q = p /\ j = i
  BY <1>1 DEF Tops
<1>3. Destroys(t, p, i)
  BY <1>2 DEF Destroys
<1>4. \A y \in {"stop", "join", "free"} : /\ H(t, y, p, i) <=> y \in B
                                          /\ H(t, y, p, i)' <=> y \in A
  BY <1>2 DEF Owned
<1>5. \A q, j : H(t, "exec", q, j)' <=> H(t, "exec", q, j)
  BY <1>2 DEF Owned
<1> QED
  BY <1>2, <1>3, <1>4, <1>5

LEMMA StopKeeps ==
  ASSUME Base, NEW t \in Threads, NEW p, NEW i, Stop(t, p, i), ub' = "no", Marks
  PROVE  Base'
<1>1. TypeOK /\ Shapes /\ Works
  BY DEF Base
<1>2. /\ p \in Parts /\ i \in Insts /\ Only(t)
      /\ UNCHANGED <<handle, made, stat, refs, setup, thr, tasks, lost, fault, selfjoin>>
  BY <1>1, StopDoes DEF obj, pool, flags
<1>3. PICK r \in Rests, A \in {{"join", "free"}, {"free"}} :
        /\ \A y, q, j : H(t, y, q, j)
             <=> (y \in {"stop", "join", "free"} /\ q = p /\ j = i) \/ Has(r, y, q, j)
        /\ \A y, q, j : H(t, y, q, j)' <=> (y \in A /\ q = p /\ j = i) \/ Has(r, y, q, j)
        /\ A = {"join", "free"} => actived[p][i] /\ actived' = Set(actived, p, i, FALSE)
        /\ A = {"free"} => ~actived[p][i] /\ UNCHANGED actived
  <2>1. PICK r \in Rests : Stops(t, p, i, r)
    BY <1>1, StopDoes
  <2>2. {"join", "free"} # {"free"}
    OBVIOUS
  <2> QED
    BY <2>1, <2>2 DEF Stops
<1>4. /\ Destroys(t, p, i)
      /\ \A y \in {"stop", "join", "free"} : H(t, y, p, i) /\ (H(t, y, p, i)' <=> y \in A)
      /\ \A y \in Owned, q \in Parts, j \in Insts :
           q # p \/ j # i => (H(t, y, q, j)' <=> H(t, y, q, j))
      /\ \A q, j : H(t, "exec", q, j)' <=> H(t, "exec", q, j)
  <2> DEFINE B == {"stop", "join", "free"}
  <2>1. /\ B \in SUBSET {"stop", "join", "free"} /\ A \in SUBSET {"stop", "join", "free"}
        /\ Tops(t, B, p, i, r) /\ Tops(t, A, p, i, r)'
    BY <1>3 DEF Tops
  <2> HIDE DEF B
  <2>2. /\ Destroys(t, p, i)
        /\ \A y \in {"stop", "join", "free"} : /\ H(t, y, p, i) <=> y \in B
                                               /\ H(t, y, p, i)' <=> y \in A
        /\ \A y \in Owned, q \in Parts, j \in Insts :
             q # p \/ j # i => (H(t, y, q, j)' <=> H(t, y, q, j))
        /\ \A q, j : H(t, "exec", q, j)' <=> H(t, "exec", q, j)
    BY <1>2, <2>1, DestroysFacts
  <2> QED
    BY <2>2 DEF B
<1>5. /\ actived \in [Parts -> [Insts -> BOOLEAN]] /\ Instance(p, i)
  BY <1>1, <1>2 DEF TypeOK, Base, Instances
<1>6. /\ actived' \in [Parts -> [Insts -> BOOLEAN]] /\ ~actived'[p][i]
      /\ \A q \in Parts, j \in Insts : q # p \/ j # i => actived'[q][j] = actived[q][j]
  <2>1. CASE actived' = Set(actived, p, i, FALSE)
    BY <1>2, <1>5, <2>1 DEF Set
  <2>2. CASE ~actived[p][i] /\ actived' = actived
    BY <1>2, <1>5, <2>2
  <2> QED
    BY <1>3, <2>1, <2>2
<1>7. TypeOK'
  BY <1>1, <1>2, <1>6, TodoType DEF TypeOK, Marks, UBs, Only
<1>8. Elsewhere(t, p, i)
  BY <1>2, <1>4, <1>6 DEF Elsewhere
<1>9. Instance(p, i)'
  <2>1. H(t, "stop", p, i) /\ H(t, "join", p, i) /\ H(t, "free", p, i)
    BY <1>4
  <2>2. ~H(t, "stop", p, i)' /\ H(t, "free", p, i)'
    BY <1>4
  <2>3. H(t, "join", p, i)' <=> actived[p][i]
    BY <1>3, <1>4
  <2> QED
    BY <1>2, <1>4, <1>5, <1>6, <2>1, <2>2, <2>3, StopInstance
<1>10. Works'
  <2>1. \A j \in Insts : Holding(j)' <=> Holding(j)
    BY <1>2, <1>4, SameHolding
  <2>2. \A j \in Insts : lost[j] > 0 => ~actived["wp"][j]
    BY <1>1 DEF Works, Work
  <2>3. \A j \in Insts : lost[j] > 0 => ~actived'["wp"][j]
    BY <1>6, <2>2, StepsAre
  <2> QED
    BY <1>1, <1>2, <2>1, <2>3, SameWorks DEF Only
<1> QED
  BY <1>2, <1>7, <1>8, <1>9, <1>10, OneInstance

LEMMA JoinKeeps ==
  ASSUME Base, NEW t \in Threads, NEW p, NEW i, Join(t, p, i), ub' = "no", Marks
  PROVE  Base'
<1>1. TypeOK /\ Shapes /\ Works
  BY DEF Base
<1>2. /\ p \in Parts /\ i \in Insts /\ Only(t)
      /\ thr[p][i] = "ended" \/ t = Own(p, i)
      /\ selfjoin' = IF t = Own(p, i) THEN selfjoin \cup {t} ELSE selfjoin
      /\ UNCHANGED <<handle, made, stat, refs, setup, actived, thr, tasks, lost, fault>>
  BY <1>1, JoinDoes DEF obj, pool
<1>3. PICK r \in Rests :
        /\ \A y, q, j : H(t, y, q, j)
             <=> (y \in {"join", "free"} /\ q = p /\ j = i) \/ Has(r, y, q, j)
        /\ \A y, q, j : H(t, y, q, j)' <=> (y = "free" /\ q = p /\ j = i) \/ Has(r, y, q, j)
  BY <1>1, JoinDoes
<1>4. /\ Destroys(t, p, i)
      /\ ~H(t, "stop", p, i) /\ H(t, "join", p, i) /\ H(t, "free", p, i)
      /\ ~H(t, "stop", p, i)' /\ ~H(t, "join", p, i)' /\ H(t, "free", p, i)'
      /\ \A y \in Owned, q \in Parts, j \in Insts :
           q # p \/ j # i => (H(t, y, q, j)' <=> H(t, y, q, j))
      /\ \A q, j : H(t, "exec", q, j)' <=> H(t, "exec", q, j)
  <2> DEFINE B == {"join", "free"}
             A == {"free"}
  <2>1. /\ B \in SUBSET {"stop", "join", "free"} /\ A \in SUBSET {"stop", "join", "free"}
        /\ Tops(t, B, p, i, r) /\ Tops(t, A, p, i, r)'
    BY <1>3 DEF Tops
  <2> HIDE DEF A, B
  <2>2. /\ Destroys(t, p, i)
        /\ \A y \in {"stop", "join", "free"} : /\ H(t, y, p, i) <=> y \in B
                                               /\ H(t, y, p, i)' <=> y \in A
        /\ \A y \in Owned, q \in Parts, j \in Insts :
             q # p \/ j # i => (H(t, y, q, j)' <=> H(t, y, q, j))
        /\ \A q, j : H(t, "exec", q, j)' <=> H(t, "exec", q, j)
    BY <1>2, <2>1, DestroysFacts
  <2> QED
    BY <2>2 DEF A, B
<1>5. Instance(p, i) /\ selfjoin \subseteq Workers
  BY <1>1, <1>2 DEF TypeOK, Base, Instances
<1>6. selfjoin' \subseteq Workers
  BY <1>2, <1>5 DEF Workers
<1>7. TypeOK'
  BY <1>1, <1>2, <1>6, TodoType DEF TypeOK, Marks, UBs, Only
<1>8. Elsewhere(t, p, i)
  <2>1. \A q \in Parts, j \in Insts :
          q # p \/ j # i => (Own(q, j) \in selfjoin' <=> Own(q, j) \in selfjoin)
    BY <1>2 DEF Own
  <2> QED
    BY <1>2, <1>4, <2>1 DEF Elsewhere
<1>9. Instance(p, i)'
  BY <1>2, <1>4, <1>5, JoinInstance
<1>10. Works'
  <2>1. \A j \in Insts : Holding(j)' <=> Holding(j)
    BY <1>2, <1>4, SameHolding
  <2>2. \A j \in Insts : lost[j] > 0 => ~actived'["wp"][j]
    BY <1>1, <1>2 DEF Works, Work
  <2> QED
    BY <1>1, <1>2, <2>1, <2>2, SameWorks DEF Only
<1> QED
  BY <1>2, <1>7, <1>8, <1>9, <1>10, OneInstance

LEMMA FreeKeeps ==
  ASSUME Base, NEW t \in Threads, NEW p, NEW i, Free(t, p, i), Marks
  PROVE  Base'
<1>1. TypeOK /\ Shapes /\ Works
  BY DEF Base
<1>2. /\ p \in Parts /\ i \in Insts /\ Only(t)
      /\ setup' = Set(setup, p, i, "freed") /\ stat' = Set(stat, p, i, "dead")
      /\ tasks' = IF p = "wp" THEN [tasks EXCEPT ![i] = 0] ELSE tasks
      /\ handle' = IF handle[p] = i THEN [handle EXCEPT ![p] = 0] ELSE handle
      /\ UNCHANGED <<made, refs, actived, thr, lost, fault, selfjoin>>
  BY <1>1, FreeDoes DEF flags
<1>3. PICK r \in Rests :
        /\ \A y, q, j : H(t, y, q, j) <=> (y = "free" /\ q = p /\ j = i) \/ Has(r, y, q, j)
        /\ \A y, q, j : H(t, y, q, j)' <=> Has(r, y, q, j)
  BY <1>1, FreeDoes
<1>4. /\ Destroys(t, p, i)
      /\ ~H(t, "stop", p, i) /\ ~H(t, "join", p, i) /\ H(t, "free", p, i)
      /\ ~H(t, "stop", p, i)' /\ ~H(t, "join", p, i)' /\ ~H(t, "free", p, i)'
      /\ \A y \in Owned, q \in Parts, j \in Insts :
           q # p \/ j # i => (H(t, y, q, j)' <=> H(t, y, q, j))
      /\ \A q, j : H(t, "exec", q, j)' <=> H(t, "exec", q, j)
  <2> DEFINE B == {"free"}
             A == {}
  <2>1. /\ B \in SUBSET {"stop", "join", "free"} /\ A \in SUBSET {"stop", "join", "free"}
        /\ Tops(t, B, p, i, r) /\ Tops(t, A, p, i, r)'
    BY <1>3 DEF Tops
  <2> HIDE DEF A, B
  <2>2. /\ Destroys(t, p, i)
        /\ \A y \in {"stop", "join", "free"} : /\ H(t, y, p, i) <=> y \in B
                                               /\ H(t, y, p, i)' <=> y \in A
        /\ \A y \in Owned, q \in Parts, j \in Insts :
             q # p \/ j # i => (H(t, y, q, j)' <=> H(t, y, q, j))
        /\ \A q, j : H(t, "exec", q, j)' <=> H(t, "exec", q, j)
    BY <1>2, <2>1, DestroysFacts
  <2> QED
    BY <2>2 DEF A, B
<1>5. /\ Instance(p, i)
      /\ stat \in [Parts -> [Insts -> {"none", "open", "closing", "dying", "dead"}]]
      /\ setup \in [Parts -> [Insts -> {"none", "divs", "table", "live", "freed"}]]
      /\ handle \in [Parts -> 0 .. MaxObjs] /\ tasks \in [Insts -> 0 .. MaxTasks]
      /\ 0 \in 0 .. MaxObjs /\ 0 \in 0 .. MaxTasks
  BY <1>1, <1>2, InstType, LibAssumption DEF TypeOK, Base, Instances
<1>6. handle[p] = i
  BY <1>2, <1>4, <1>5, DestructorAt
<1>7. /\ handle' \in [Parts -> 0 .. MaxObjs] /\ handle'[p] = 0
      /\ \A q \in Parts : q # p => handle'[q] = handle[q]
  BY <1>2, <1>5, <1>6
<1>8. /\ setup' \in [Parts -> [Insts -> {"none", "divs", "table", "live", "freed"}]]
      /\ setup'[p][i] = "freed"
      /\ \A q \in Parts, j \in Insts : q # p \/ j # i => setup'[q][j] = setup[q][j]
  BY <1>2, <1>5 DEF Set
<1>9. /\ stat' \in [Parts -> [Insts -> {"none", "open", "closing", "dying", "dead"}]]
      /\ stat'[p][i] = "dead"
      /\ \A q \in Parts, j \in Insts : q # p \/ j # i => stat'[q][j] = stat[q][j]
  BY <1>2, <1>5 DEF Set
<1>10. /\ tasks' \in [Insts -> 0 .. MaxTasks]
       /\ p = "wp" => tasks'[i] = 0
       /\ \A j \in Insts : p # "wp" \/ j # i => tasks'[j] = tasks[j]
  BY <1>2, <1>5
<1>11. TypeOK'
  BY <1>1, <1>2, <1>7, <1>8, <1>9, <1>10, TodoType DEF TypeOK, Marks, UBs, Only
<1>12. Elsewhere(t, p, i)
  <2>1. \A q \in Parts, j \in Insts : q # p \/ j # i => (handle'[q] = j <=> handle[q] = j)
    BY <1>6, <1>7, InstType
  <2> QED
    BY <1>2, <1>4, <1>8, <1>9, <2>1 DEF Elsewhere
<1>13. Instance(p, i)'
  <2>1. handle'[p] # i
    BY <1>2, <1>7, InstType
  <2> QED
    BY <1>2, <1>4, <1>5, <1>8, <1>9, <2>1, FreeInstance
<1>14. Works'
  <2> SUFFICES ASSUME NEW j \in Insts PROVE Work(j)'
    BY DEF Works
  <2>1. Work(j) /\ lost[j] \in Nat
    BY <1>1 DEF Works, TypeOK
  <2>2. Holding(j)' <=> Holding(j)
    BY <1>2, <1>4, SameHolding
  <2>3. Held(j) = IF Holding(j) THEN 1 ELSE 0
    BY <1>1, StacksType, HeldIs
  <2>4. Held(j)' = IF Holding(j)' THEN 1 ELSE 0
    BY <1>2, HeldIsNext DEF Only
  <2>5. Held(j)' = Held(j) /\ Held(j) \in {0, 1}
    BY <2>2, <2>3, <2>4
  <2>6. setup["wp"][j] # "none" => setup'["wp"][j] # "none"
    BY <1>8, StepsAre
  <2>7. /\ tasks'[j] > 0 => handle'["wp"] = j
        /\ tasks'[j] <= tasks[j] /\ tasks'[j] \in Nat /\ tasks[j] \in Nat
    <3>1. tasks[j] \in Nat /\ tasks'[j] \in Nat
      BY <1>5, <1>10, LibAssumption
    <3>2. CASE p # "wp"
      BY <1>7, <1>10, <2>1, <3>1, <3>2, StepsAre DEF Work
    <3>3. CASE p = "wp" /\ j = i
      BY <1>10, <3>1, <3>3
    <3>4. CASE p = "wp" /\ j # i
      <4>1. ~(tasks[j] > 0)
        BY <1>6, <2>1, <3>4 DEF Work
      <4> QED
        BY <1>10, <3>1, <3>4, <4>1
    <3> QED
      BY <3>2, <3>3, <3>4
  <2>8. tasks'[j] + Held(j)' <= MaxTasks
    BY <2>1, <2>5, <2>7, LibAssumption DEF Work
  <2> QED
    BY <1>2, <2>1, <2>5, <2>6, <2>7, <2>8 DEF Work
<1> QED
  BY <1>2, <1>11, <1>12, <1>13, <1>14, OneInstance

(* A step of a pool's thread, or of one that queues a task.                *)
LEMMA PoolOnly ==
  ASSUME Base, NEW t \in Threads, NEW i \in Insts, Marks, Only(t),
         UNCHANGED <<handle, made, stat, refs, setup, actived, thr, fault, selfjoin>>,
         tasks' \in [Insts -> 0 .. MaxTasks], lost' \in [Insts -> Nat],
         \A j \in Insts \ {i} : tasks'[j] = tasks[j] /\ lost'[j] = lost[j],
         \/ t = Own("wp", i)
         \/ \A q \in Parts, j \in 0 .. MaxObjs : H(t, "exec", q, j)' <=> H(t, "exec", q, j),
         \A y \in Owned \ {"exec"}, q \in Parts, j \in Insts : H(t, y, q, j)' <=> H(t, y, q, j),
         Work(i)'
  PROVE  Base'
<1>1. TypeOK /\ Shapes /\ Works
  BY DEF Base
<1>2. TypeOK'
  BY <1>1, TodoType DEF TypeOK, Marks, UBs, Only
<1>3. Instances'
  <2> SUFFICES ASSUME NEW q \in Parts, NEW j \in Insts PROVE Instance(q, j)'
    BY DEF Instances
  <2>1. \A u \in Threads, y \in Owned \ {"exec"} : H(u, y, q, j)' <=> H(u, y, q, j)
    <3> TAKE u \in Threads, y \in Owned \ {"exec"}
    <3>1. CASE u = t
      BY <3>1
    <3>2. CASE u # t
      BY <3>2, OtherThreads
    <3> QED
      BY <3>1, <3>2
  <2>2. Same(q, j)
    BY <2>1 DEF Same
  <2> QED
    BY <2>2, SameInstance DEF Base, Instances
<1>4. Works'
  <2> SUFFICES ASSUME NEW j \in Insts PROVE Work(j)'
    BY DEF Works
  <2>1. CASE j # i
    <3>1. Work(j)
      BY <1>1 DEF Works
    <3>2. Holding(j)' <=> Holding(j)
      <4>1. Own("wp", j) \in Threads /\ Own("wp", j) # Own("wp", i)
        BY <2>1, StepsAre DEF Threads, Workers, Own
      <4>2. \A q \in Parts, k \in 0 .. MaxObjs :
              H(Own("wp", j), "exec", q, k)' <=> H(Own("wp", j), "exec", q, k)
        BY <4>1, OtherThreads
      <4> QED
        BY <4>2 DEF Holding, Own
    <3>3. lost[j] > 0 => ~actived'["wp"][j]
      BY <3>1 DEF Work
    <3> QED
      BY <1>1, <2>1, <3>1, <3>2, <3>3, WorkStays DEF Only
  <2> QED
    BY <2>1
<1> QED
  BY <1>2, <1>3, <1>4 DEF Base, Only

(* What is in the hand of the pool's thread.                               *)
LEMMA HeldFacts ==
  ASSUME TypeOK, NEW i \in Insts
  PROVE  /\ Held(i) = IF Holding(i) THEN 1 ELSE 0
         /\ todo' \in [Threads -> Seq(AStep)] => Held(i)' = IF Holding(i)' THEN 1 ELSE 0
         /\ tasks[i] \in Nat /\ lost[i] \in Nat /\ MaxTasks \in Nat
<1>1. Held(i) = IF Holding(i) THEN 1 ELSE 0
  BY StacksType, HeldIs
<1>2. todo' \in [Threads -> Seq(AStep)] => Held(i)' = IF Holding(i)' THEN 1 ELSE 0
  BY HeldIsNext
<1> QED
  BY <1>1, <1>2, LibAssumption DEF TypeOK

LEMMA AliveFacts ==
  ASSUME NEW p \in Parts, NEW i \in Insts, Instance(p, i), actived[p][i]
  PROVE  setup[p][i] = "live" /\ (stat[p][i] \in {"open", "closing", "dying"} => handle[p] = i)
         /\ stat[p][i] \notin {"none", "dead"}
  BY DEF Instance, Running, Named

LEMMA TakeKeeps ==
  ASSUME Base, NEW i \in Insts, Take(i), Marks
  PROVE  Base'
<1> DEFINE t == Own("wp", i)
<1>1. TypeOK /\ Shapes /\ Work(i) /\ Instance("wp", i)
  BY StepsAre DEF Base, Works, Instances
<1>2. /\ t \in Threads /\ Only(t)
      /\ \A y, q, j : ~H(t, y, q, j)
      /\ \A y, q, j : H(t, y, q, j)' <=> y = "exec" /\ q = "wp" /\ j = i
  BY <1>1, TakeDoes
<1>3. /\ actived["wp"][i] /\ tasks[i] > 0 /\ tasks' = [tasks EXCEPT ![i] = @ - 1]
      /\ UNCHANGED <<handle, made, stat, refs, setup, actived, thr, lost, fault, selfjoin>>
  BY DEF Take, Alive, obj, flags
<1>4. /\ tasks[i] \in Nat /\ lost[i] \in Nat /\ MaxTasks \in Nat
      /\ tasks \in [Insts -> 0 .. MaxTasks] /\ lost \in [Insts -> Nat]
  BY <1>1, HeldFacts DEF TypeOK
<1>5. /\ tasks' \in [Insts -> 0 .. MaxTasks] /\ tasks'[i] = tasks[i] - 1
      /\ \A j \in Insts \ {i} : tasks'[j] = tasks[j]
  BY <1>3, <1>4
<1>6. ~Holding(i) /\ Holding(i)'
  <2>1. ~Holding(i)
    BY <1>2 DEF Holding
  <2>2. \E q \in Parts, j \in 0 .. MaxObjs : H(t, "exec", q, j)'
    BY <1>2, StepsAre, InstType
  <2>3. Holding(i)'
    BY <2>2 DEF Holding, Own
  <2> QED
    BY <2>1, <2>3
<1>7. Held(i) = 0 /\ Held(i)' = 1
  BY <1>1, <1>2, <1>6, HeldFacts DEF Only
<1>8. Work(i)'
  <2>1. lost[i] = 0
    BY <1>1, <1>3, <1>4 DEF Work
  <2>2. setup["wp"][i] = "live" /\ handle["wp"] = i
    BY <1>1, <1>3 DEF Instance, Running, Work
  <2> QED
    BY <1>1, <1>3, <1>4, <1>5, <1>7, <2>1, <2>2 DEF Work
<1>9. \A y \in Owned \ {"exec"}, q \in Parts, j \in Insts : H(t, y, q, j)' <=> H(t, y, q, j)
  BY <1>2
<1> QED
  BY <1>2, <1>3, <1>4, <1>5, <1>8, <1>9, PoolOnly

LEMMA ExecKeeps ==
  ASSUME Base, NEW i, Exec(i), Own("wp", i) \in Threads, Marks
  PROVE  Base'
<1> DEFINE t == Own("wp", i)
<1>1. TypeOK /\ Shapes
  BY DEF Base
<1>2. /\ i \in Insts /\ Only(t)
      /\ \A y, q, j : H(t, y, q, j) <=> y = "exec" /\ q = "wp" /\ j = i
      /\ \A y, q, j : H(t, y, q, j)' => y \in {"aref", "qref"} /\ j = 0
  BY <1>1, ExecDoes
<1>3. /\ \/ ~actived["wp"][i] /\ lost' = [lost EXCEPT ![i] = @ + 1] /\ tasks' = tasks
         \/ actived["wp"][i] /\ lost' = lost /\ tasks' = tasks
         \/ actived["wp"][i] /\ lost' = lost /\ tasks' = [tasks EXCEPT ![i] = @ + 1]
      /\ UNCHANGED <<handle, made, stat, refs, setup, actived, thr, fault, selfjoin>>
  BY DEF Exec, obj, flags
<1>4. Work(i) /\ Instance("wp", i)
  BY <1>2, StepsAre DEF Base, Works, Instances
<1>5. /\ tasks[i] \in Nat /\ lost[i] \in Nat /\ MaxTasks \in Nat
      /\ tasks \in [Insts -> 0 .. MaxTasks] /\ lost \in [Insts -> Nat]
  BY <1>1, <1>2, HeldFacts DEF TypeOK
<1>6. Holding(i) /\ ~Holding(i)'
  <2>1. \A q, j : ~H(t, "exec", q, j)'
    BY <1>2
  <2>2. ~Holding(i)'
    BY <2>1 DEF Holding, Own
  <2>3. Holding(i)
    BY <1>2, StepsAre, InstType DEF Holding
  <2> QED
    BY <2>2, <2>3
<1>7. Held(i) = 1 /\ Held(i)' = 0
  BY <1>1, <1>2, <1>6, HeldFacts DEF Only
<1>8. lost[i] = 0 /\ setup["wp"][i] # "none" /\ tasks[i] + 1 <= MaxTasks
  BY <1>4, <1>5, <1>7 DEF Work
<1>9. actived["wp"][i] => handle["wp"] = i
  BY <1>2, <1>4, StepsAre DEF Instance, Running, Named, Base, TypeOK
<1>10. /\ tasks' \in [Insts -> 0 .. MaxTasks] /\ lost' \in [Insts -> Nat]
       /\ \A j \in Insts \ {i} : tasks'[j] = tasks[j] /\ lost'[j] = lost[j]
       /\ \/ ~actived["wp"][i] /\ lost'[i] = 1 /\ tasks'[i] = tasks[i]
          \/ actived["wp"][i] /\ lost'[i] = 0 /\ tasks'[i] \in {tasks[i], tasks[i] + 1}
  BY <1>2, <1>3, <1>5, <1>8
<1>11. Work(i)'
  BY <1>3, <1>4, <1>5, <1>7, <1>8, <1>9, <1>10 DEF Work
<1>12. \A y \in Owned \ {"exec"}, q \in Parts, j \in Insts : H(t, y, q, j)' <=> H(t, y, q, j)
  BY <1>2 DEF Owned
<1> QED
  BY <1>2, <1>3, <1>10, <1>11, <1>12, PoolOnly

LEMMA QueuedKeeps ==
  ASSUME Base, NEW t \in Threads, NEW i, wp_queued(t, i), ub' = "no", Marks
  PROVE  Base'
<1>1. TypeOK /\ Shapes
  BY DEF Base
<1>2. /\ At(t, "put", "wp", i) /\ setup["wp"][i] = "live" /\ Does(t, "put", "wp", i, << >>)
      /\ \/ tasks[i] + Held(i) < MaxTasks /\ tasks' = [tasks EXCEPT ![i] = @ + 1]
         \/ tasks' = tasks
      /\ UNCHANGED <<handle, made, stat, refs, setup, actived, thr, lost, fault, selfjoin>>
  <2> HIDE DEF Held, At, Does
  <2>1. ~Undefined(Misuse("wp", i))
    BY DEF Undefined, Misuse
  <2> QED
    BY <2>1 DEF wp_queued, obj, flags
<1>3. /\ i \in Insts /\ H(t, "defr", "wp", i) /\ Only(t) /\ Calm
  BY <1>1, <1>2, CallDoes
<1>4. Work(i) /\ Instance("wp", i) /\ handle["wp"] = i
  <2>1. Work(i) /\ Instance("wp", i)
    BY <1>3, StepsAre DEF Base, Works, Instances
  <2> QED
    BY <1>3, <2>1, HolderFacts, StepsAre DEF Holder
<1>5. /\ tasks[i] \in Nat /\ lost[i] \in Nat /\ MaxTasks \in Nat
      /\ tasks \in [Insts -> 0 .. MaxTasks] /\ lost \in [Insts -> Nat]
  BY <1>1, <1>3, HeldFacts DEF TypeOK
<1>6. Held(i)' = Held(i) /\ Held(i) \in {0, 1}
  <2>1. Holding(i)' <=> Holding(i)
    BY <1>3, CalmHolding
  <2> QED
    BY <1>1, <1>3, <2>1, HeldFacts DEF Only
<1>7. /\ tasks' \in [Insts -> 0 .. MaxTasks] /\ lost' \in [Insts -> Nat]
      /\ \A j \in Insts \ {i} : tasks'[j] = tasks[j] /\ lost'[j] = lost[j]
      /\ tasks'[i] = tasks[i] \/ (tasks[i] + Held(i) < MaxTasks /\ tasks'[i] = tasks[i] + 1)
  BY <1>2, <1>3, <1>5, <1>6
<1>8. Work(i)'
  BY <1>2, <1>4, <1>5, <1>6, <1>7 DEF Work
<1>9. \A y \in Owned, q \in Parts, j \in Insts : H(t, y, q, j)' <=> H(t, y, q, j)
  BY <1>3, InstType DEF Calm
<1>10. \A q \in Parts, j \in 0 .. MaxObjs : H(t, "exec", q, j)' <=> H(t, "exec", q, j)
  BY <1>3 DEF Calm, Owned
<1> QED
  BY <1>2, <1>3, <1>7, <1>8, <1>9, <1>10, PoolOnly

(* Steps that only move a thread on.                                       *)
LEMMA CalmSteps ==
  ASSUME Base, NEW t \in Threads, Marks,
         \/ tcp_init(t) \/ tcp_uninit(t)
         \/ \E p : Check(t, p) \/ Return(t, p)
         \/ \E i : io_attach(t, i) /\ ub' = "no"
  PROVE  Base'
<1>1. TypeOK /\ Shapes
  BY DEF Base
<1>2. CASE tcp_init(t)
  <2>1. Only(t) /\ Calm
    BY <1>1, <1>2, InitDoes
  <2> QED
    BY <1>2, <2>1, CalmStays DEF tcp_init, Only
<1>3. CASE tcp_uninit(t)
  <2>1. Only(t) /\ Calm
    BY <1>1, <1>3, UninitDoes
  <2> QED
    BY <1>3, <2>1, CalmStays DEF tcp_uninit, Only
<1>4. ASSUME NEW p, Check(t, p)
      PROVE  Base'
  <2>1. Only(t) /\ Calm
    BY <1>1, <1>4, CheckDoes
  <2> QED
    BY <1>4, <2>1, CalmStays DEF Check, Only
<1>5. ASSUME NEW p, Return(t, p)
      PROVE  Base'
  <2>1. Only(t) /\ Calm
    BY <1>1, <1>5, ReturnDoes
  <2> QED
    BY <1>5, <2>1, CalmStays DEF Return, Only
<1>6. ASSUME NEW i, io_attach(t, i), ub' = "no"
      PROVE  Base'
  <2>1. /\ At(t, "use", "io", i) /\ Does(t, "use", "io", i, << >>)
        /\ UNCHANGED <<handle, made, obj, setup, actived, thr, pool, ub, flags>>
    <3>1. ~Undefined(Misuse("io", i))
      BY <1>6 DEF Undefined, Misuse
    <3> QED
      BY <1>6, <3>1 DEF io_attach
  <2>2. Only(t) /\ Calm
    BY <1>1, <2>1, CallDoes
  <2> QED
    BY <2>1, <2>2, CalmStays DEF Only
<1> QED
  BY <1>2, <1>3, <1>4, <1>5, <1>6

LEMMA HandleKeeps ==
  ASSUME Base, NEW i \in Insts, Handle(i), Marks
  PROVE  Base'
<1>1. TypeOK /\ Shapes
  BY DEF Base
<1>2. Only(Own("io", i)) /\ Calm
  BY <1>1, HandleDoes
<1> QED
  BY <1>2, CalmStays DEF Handle, Only

(* The steps that may run into undefined behaviour.                        *)
LEMMA UndefinedKeeps ==
  ASSUME Base, NEW w, Undefined(w), Marks
  PROVE  Base'
  BY StillStays DEF Undefined

(* The marks a step leaves.                                                *)
LEMMA MarksKept ==
  ASSUME ub = "no", mixed' \in BOOLEAN
  PROVE  /\ UNCHANGED ub => Marks
         /\ \A w \in UBs : Undefined(w) => Marks
  BY DEF Marks, UBs, Undefined

LEMMA MisuseFacts == \A p, i : Misuse(p, i) \in {"freed", "unready"}
  BY DEF Misuse

(* Each of them is undefined, or is what its lemma says.                   *)
LEMMA MayFail ==
  ASSUME ub = "no", mixed' \in BOOLEAN, NEW t \in Threads, NEW p, NEW i,
         \/ Stop(t, p, i) \/ Join(t, p, i) \/ Divisions(t, i) \/ PoolThread(t, i)
         \/ io_attach(t, i) \/ wp_queued(t, i) \/ Look(p, i)
  PROVE  Marks /\ (ub' = "no" \/ \E w : Undefined(w))
<1>1. (\E w \in UBs : Undefined(w)) \/ UNCHANGED ub
  <2> HIDE DEF Undefined, Misuse
  <2>1. CASE Stop(t, p, i)
    BY <2>1 DEF Stop, UBs
  <2>2. CASE Join(t, p, i)
    BY <2>2 DEF Join, UBs
  <2>3. CASE Divisions(t, i)
    BY <2>3 DEF Divisions, UBs
  <2>4. CASE PoolThread(t, i)
    BY <2>4 DEF PoolThread, UBs
  <2>5. CASE io_attach(t, i)
    BY <2>5, MisuseFacts DEF io_attach, UBs
  <2>6. CASE wp_queued(t, i)
    BY <2>6, MisuseFacts DEF wp_queued, UBs
  <2>7. CASE Look(p, i)
    BY <2>7 DEF Look, UBs
  <2> QED
    BY <2>1, <2>2, <2>3, <2>4, <2>5, <2>6, <2>7
<1> QED
  BY <1>1, MarksKept

LEMMA InitialiseKeeps ==
  ASSUME Base, ub = "no", mixed' \in BOOLEAN, NEW t \in Threads, NEW p, NEW i, Initialise(t, p, i)
  PROVE  Base'
<1>1. CASE Check(t, p)
  <2>1. Marks
    BY <1>1, MarksKept DEF Check
  <2> QED
    BY <1>1, <2>1, CalmSteps
<1>2. CASE Install(t, p)
  <2>1. Marks
    BY <1>2, MarksKept DEF Install
  <2> QED
    BY <1>2, <2>1, InstallKeeps
<1>3. CASE Ref(t, p)
  <2>1. Marks
    BY <1>3, MarksKept DEF Ref
  <2> QED
    BY <1>3, <2>1, RefKeeps
<1>4. CASE Return(t, p)
  <2>1. Marks
    BY <1>4, MarksKept DEF Return
  <2> QED
    BY <1>4, <2>1, CalmSteps
<1>5. CASE Divisions(t, i)
  BY <1>5, MayFail, UndefinedKeeps, DivisionsKeeps
<1>6. CASE Table(t, i)
  <2>1. Marks
    BY <1>6, MarksKept DEF Table
  <2> QED
    BY <1>6, <2>1, TableKeeps
<1>7. CASE IoThreads(t, i)
  <2>1. Marks
    BY <1>7, MarksKept DEF IoThreads
  <2> QED
    BY <1>7, <2>1, IoThreadsKeeps
<1>8. CASE PoolThread(t, i)
  BY <1>8, MayFail, UndefinedKeeps, PoolThreadKeeps
<1> QED
  BY <1>1, <1>2, <1>3, <1>4, <1>5, <1>6, <1>7, <1>8 DEF Initialise

LEMMA UseKeeps ==
  ASSUME Base, ub = "no", mixed' \in BOOLEAN, NEW t \in Threads, NEW i, Use(t, i)
  PROVE  Base'
<1>1. CASE Enter(t, "aref", "io", "use")
  <2>1. Marks
    BY <1>1, MarksKept DEF Enter
  <2> QED
    BY <1>1, <2>1, EnterKeeps
<1>2. CASE Enter(t, "qref", "wp", "put")
  <2>1. Marks
    BY <1>2, MarksKept DEF Enter
  <2> QED
    BY <1>2, <2>1, EnterKeeps
<1>3. CASE io_attach(t, i)
  BY <1>3, MayFail, UndefinedKeeps, CalmSteps
<1>4. CASE wp_queued(t, i)
  BY <1>4, MayFail, UndefinedKeeps, QueuedKeeps
<1> QED
  BY <1>1, <1>2, <1>3, <1>4 DEF Use

LEMMA StepKeeps ==
  ASSUME Base, mixed' \in BOOLEAN, NEW t \in Threads, Step(t)
  PROVE  Base'
<1>0. ub = "no"
  BY DEF Step
<1>1. CASE Continue(t)
  <2> DEFINE p == Head(todo[t])[2]
             i == Head(todo[t])[3]
  <2>1. \/ objdefr(t, p, i) \/ objclos(t, p) \/ Destruct(t, p, i)
        \/ t \in Users /\ Initialise(t, p, i)
        \/ Use(t, i)
        \/ t = Own("wp", i) /\ Exec(i)
    BY <1>1 DEF Continue
  <2>2. PICK q, j : q = p /\ j = i
    OBVIOUS
  <2>3. \/ objdefr(t, q, j) \/ objclos(t, q) \/ Destruct(t, q, j)
        \/ t \in Users /\ Initialise(t, q, j)
        \/ Use(t, j)
        \/ t = Own("wp", j) /\ Exec(j)
    BY <2>1, <2>2
  <2> HIDE DEF p, i
  <2>4. CASE objdefr(t, q, j)
    <3>1. Marks
      BY <1>0, <2>4, MarksKept DEF objdefr
    <3> QED
      BY <2>4, <3>1, DefrKeeps
  <2>5. CASE objclos(t, q)
    <3>1. Marks
      BY <1>0, <2>5, MarksKept DEF objclos
    <3> QED
      BY <2>5, <3>1, ClosKeeps
  <2>6. CASE Stop(t, q, j)
    BY <1>0, <2>6, MayFail, UndefinedKeeps, StopKeeps
  <2>7. CASE Join(t, q, j)
    BY <1>0, <2>7, MayFail, UndefinedKeeps, JoinKeeps
  <2>8. CASE Free(t, q, j)
    <3>1. Marks
      BY <1>0, <2>8, MarksKept DEF Free
    <3> QED
      BY <2>8, <3>1, FreeKeeps
  <2>9. CASE Initialise(t, q, j)
    BY <1>0, <2>9, InitialiseKeeps
  <2>10. CASE Use(t, j)
    BY <1>0, <2>10, UseKeeps
  <2>11. CASE t = Own("wp", j) /\ Exec(j)
    <3>1. Marks
      BY <1>0, <2>11, MarksKept DEF Exec
    <3> QED
      BY <2>11, <3>1, ExecKeeps
  <2> QED
    BY <2>3, <2>4, <2>5, <2>6, <2>7, <2>8, <2>9, <2>10, <2>11 DEF Destruct
<1>2. CASE Poll(t)
  <2>1. ASSUME NEW i \in Insts, Take(i)
        PROVE  Base'
    <3>1. Marks
      BY <1>0, <2>1, MarksKept DEF Take
    <3> QED
      BY <2>1, <3>1, TakeKeeps
  <2>2. ASSUME NEW i \in Insts, NEW p \in Parts, Look(p, i)
        PROVE  Base'
    BY <1>0, <2>2, MayFail, UndefinedKeeps, LookKeeps
  <2> QED
    BY <1>2, <2>1, <2>2 DEF Poll
<1> QED
  BY <1>1, <1>2 DEF Step

LEMMA BaseNext ==
  ASSUME Base, [Next]_vars
  PROVE  Base'
<1>1. CASE UNCHANGED vars
  <2>1. /\ UNCHANGED <<handle, made, obj, setup, actived, thr, pool, todo, flags>>
        /\ ub' = ub /\ mixed' = mixed
    BY <1>1 DEF vars, real, obj, pool, flags
  <2>2. Marks
    BY <2>1 DEF Base, TypeOK, Marks, UBs
  <2> QED
    BY <2>1, <2>2, StillStays
<1>2. CASE Next
  <2>1. mixed' \in BOOLEAN
    BY <1>2 DEF Next
  <2>2. ASSUME NEW t \in Threads, Step(t)
        PROVE  Base'
    BY <2>1, <2>2, StepKeeps
  <2>3. CASE Begin
    <3>1. ub = "no"
      BY <2>3 DEF Begin
    <3>2. ASSUME NEW t \in Starters, tcp_init(t)
          PROVE  Base'
      <4>1. t \in Threads /\ Marks
        BY <2>1, <3>1, <3>2, MarksKept, LibAssumption DEF tcp_init, Threads
      <4> QED
        BY <3>2, <4>1, CalmSteps
    <3>3. ASSUME NEW t \in Stoppers, tcp_uninit(t)
          PROVE  Base'
      <4>1. t \in Threads /\ Marks
        BY <2>1, <3>1, <3>3, MarksKept, LibAssumption DEF tcp_uninit, Threads
      <4> QED
        BY <3>3, <4>1, CalmSteps
    <3>4. ASSUME NEW i \in Insts, Handle(i)
          PROVE  Base'
      <4>1. Marks
        BY <2>1, <3>1, <3>4, MarksKept DEF Handle
      <4> QED
        BY <3>4, <4>1, HandleKeeps
    <3> QED
      BY <2>3, <3>2, <3>3, <3>4 DEF Begin
  <2> QED
    BY <1>2, <2>2, <2>3 DEF Next
<1> QED
  BY <1>1, <1>2

LEMMA BaseInit == Init => Base
<1> SUFFICES ASSUME Init PROVE Base
  OBVIOUS
<1>1. \A t \in Threads : todo[t] = << >>
  BY DEF Init
<1>2. \A t \in Threads : \A x, p, i : ~H(t, x, p, i)
  BY <1>1, NoSteps DEF H
<1>3. TypeOK
  <2>1. todo \in [Threads -> Seq(Steps \X Parts \X (0 .. MaxObjs))]
    <3>1. << >> \in Seq(AStep)
      BY NoSteps
    <3>2. todo \in [Threads -> Seq(AStep)]
      BY <3>1 DEF Init
    <3> QED
      BY <3>2, TodoType
  <2>2. /\ handle \in [Parts -> 0 .. MaxObjs] /\ made \in [Parts -> 0 .. MaxObjs]
        /\ tasks \in [Insts -> 0 .. MaxTasks] /\ lost \in [Insts -> Nat]
    BY LibAssumption, InstType DEF Init
  <2>3. /\ stat \in [Parts -> [Insts -> {"none", "open", "closing", "dying", "dead"}]]
        /\ refs \in [Parts -> [Insts -> Nat]]
    BY DEF Init
  <2>4. /\ setup \in [Parts -> [Insts -> {"none", "divs", "table", "live", "freed"}]]
        /\ actived \in [Parts -> [Insts -> BOOLEAN]]
        /\ thr \in [Parts -> [Insts -> {"none", "up", "ended"}]]
    BY DEF Init
  <2>5. /\ ub \in {"no", "unready", "freed", "unjoined", "twice"}
        /\ fault \in BOOLEAN /\ selfjoin \subseteq Workers /\ mixed \in BOOLEAN
    BY DEF Init
  <2> QED
    BY <2>1, <2>2, <2>3, <2>4, <2>5 DEF TypeOK
<1>4. Shapes
  BY <1>1 DEF Shapes, Shaped
<1>5. Instances
  <2> SUFFICES ASSUME NEW p \in Parts, NEW i \in Insts PROVE Instance(p, i)
    BY DEF Instances
  <2>1. Refs(p, i) = {} /\ ~Past(p, i) /\ ~AtJoin(p, i)
    BY <1>2 DEF Refs, Holds, Past, AtJoin
  <2>2. /\ stat[p][i] = "none" /\ refs[p][i] = 0 /\ setup[p][i] = "none" /\ ~actived[p][i]
        /\ thr[p][i] = "none" /\ handle[p] = 0 /\ made[p] = 0 /\ selfjoin = {}
    BY DEF Init
  <2>3. Counted(p, i)
    BY <2>1, <2>2, FS_EmptySet DEF Counted
  <2>4. Destructed(p, i) /\ Built(p, i)
    BY <1>2, <2>2 DEF Destructed, Built, Builds
  <2>5. Named(p, i)
    BY <2>2 DEF Named, Insts
  <2>6. Running(p, i)
    BY <2>1, <2>2 DEF Running
  <2> QED
    BY <2>3, <2>4, <2>5, <2>6 DEF Instance
<1>6. Works
  <2> SUFFICES ASSUME NEW i \in Insts PROVE Work(i)
    BY DEF Works
  <2>1. Own("wp", i) \in Threads
    BY StepsAre DEF Threads, Workers
  <2>2. ~Holding(i)
    BY <1>2, <2>1 DEF Holding
  <2>3. Held(i) = 0
    BY <1>3, <2>2, HeldFacts
  <2> QED
    BY <2>3, LibAssumption DEF Work, Init
<1> QED
  BY <1>3, <1>4, <1>5, <1>6 DEF Base

(* The library's objects are counted, set up, stopped and given back as    *)
(* the code means them to be, whatever threads, instances and tasks there  *)
(* are (objrefr, objdefr, objclos, __io_init, __wp_init, the destructors). *)
THEOREM LibBase == Spec => []Base
  BY BaseInit, BaseNext, PTL DEF Spec

(* A pool that is gone has no task in its list, and its thread has dropped *)
(* at most the one it had taken when it was told to stop (__wp_run,        *)
(* __wp_uninit).                                                           *)
THEOREM PoolAccounts == Spec => []TasksAccounted
<1>1. Base => TasksAccounted
  <2> SUFFICES ASSUME Base, NEW i \in Insts
               PROVE  /\ lost[i] <= 1 /\ (lost[i] > 0 => ~actived["wp"][i])
                      /\ stat["wp"][i] = "dead" => tasks[i] = 0
    BY DEF TasksAccounted
  <2>1. TypeOK /\ Work(i) /\ Instance("wp", i)
    BY StepsAre DEF Base, Works, Instances
  <2>2. tasks[i] \in Nat /\ lost[i] \in Nat /\ Held(i) \in {0, 1}
    BY <2>1, HeldFacts
  <2>3. stat["wp"][i] = "dead" => handle["wp"] # i
    BY <2>1 DEF Instance, Named
  <2> QED
    BY <2>1, <2>2, <2>3 DEF Work
<1> QED
  BY <1>1, LibBase, PTL

-----------------------------------------------------------------------------
(***************************************************************************)
(* tcp_init and tcp_uninit apart: what is so until an init has overlapped  *)
(* an uninit.                                                              *)
(***************************************************************************)
Inits == {"check", "install", "ref", "setup", "table", "threads", "zero", "already"}

(* Only the application's threads initialise.                              *)
Mine ==
  \A t \in Threads \ Users : \A x \in Inits, p \in Parts, i \in 0 .. MaxObjs : ~H(t, x, p, i)

Ordered == ~mixed => ~Overlap

(* A thread on the way from the compare and swap to the end of the set-up. *)
Maker(t, p) ==
  H(t, "ref", p, 0) \/ \E x \in {"setup", "table", "threads"}, i \in Insts : H(t, x, p, i)

(* One init at a time builds a part, and until it is done nobody else      *)
(* touches it.                                                             *)
Sole(p) ==
  /\ \A t, u \in Threads : Maker(t, p) /\ Maker(u, p) => t = u
  /\ \A t \in Threads :
       /\ Maker(t, p) => handle[p] # 0
       /\ H(t, "ref", p, 0) => setup[p][handle[p]] = "none"
       /\ \A i \in Insts : H(t, "setup", p, i) => setup[p][i] = "none"
       /\ H(t, "already", p, 0) => handle[p] # 0
  /\ ~fault /\ handle[p] # 0 /\ setup[p][handle[p]] # "live" => \E t \in Threads : Maker(t, p)

Alone == ~mixed => \A p \in Parts : Sole(p)

(* A user has not begun to build the part; it has built one of the two; a  *)
(* part is ready; a part is not there, or not for long.                    *)
Before(t, p) == H(t, "check", p, 0) \/ H(t, "install", p, 0)
Mid(t)       == ~Before(t, "io") /\ Before(t, "wp")
Ready(p)     == handle[p] # 0 /\ setup[p][handle[p]] = "live"
Out(p) ==
  \/ handle[p] = 0
  \/ stat[p][handle[p]] \in {"closing", "dying"}
  \/ \E t \in Threads : H(t, "clos", p, 0)

Through(t, p) ==
  /\ H(t, "zero", "wp", 0) /\ ~Before(t, "io") /\ ~Maker(t, "io")
  /\ ~Before(t, p) /\ ~Maker(t, p)

Parted ==
  /\ \A t \in Threads : Mid(t) => handle["io"] # 0 /\ handle["wp"] = 0
  /\ \A t \in Threads, p \in Parts : Through(t, p) => Ready(p)
  /\ \A t, u \in Threads : Mid(t) /\ Mid(u) => t = u
  /\ (\A t \in Threads : ~Mid(t)) => (Out("io") <=> Out("wp"))

Promised == ~mixed /\ ~fault => Parted

(* Nothing of part p goes down.                                            *)
Steady(p) ==
  /\ \A i \in Insts : stat[p][i] \notin {"closing", "dying"}
  /\ \A t \in Threads : ~H(t, "clos", p, 0)

LEMMA SteadyIs == \A p : ~Stopping(p) <=> Steady(p)
  BY DEF Stopping, Steady, H, Has

LEMMA InitialisingIs ==
  todo \in [Threads -> Seq(AStep)] =>
    \A t \in Threads : Initialising(t) <=> \E x \in Inits, p \in Parts, i \in 0 .. MaxObjs : H(t, x, p, i)
<1> HAVE todo \in [Threads -> Seq(AStep)]
<1> TAKE t \in Threads
<1> DEFINE s == todo[t]
<1>1. s \in Seq(AStep)
  OBVIOUS
<1>2. \A k \in DOMAIN s : s[k] \in AStep
  BY <1>1, ElementOfSeq, LenProperties
<1>3. ASSUME NEW k \in DOMAIN s, s[k][1] \in Inits
      PROVE  \E x \in Inits, p \in Parts, i \in 0 .. MaxObjs : H(t, x, p, i)
  <2>1. PICK x \in Steps, p \in Parts, i \in 0 .. MaxObjs : s[k] = <<x, p, i>>
    BY <1>2 DEF AStep
  <2>2. x \in Inits
    BY <1>3, <2>1
  <2> QED
    BY <2>1, <2>2 DEF H, Has
<1>4. ASSUME NEW x \in Inits, NEW p \in Parts, NEW i \in 0 .. MaxObjs, H(t, x, p, i)
      PROVE  \E k \in DOMAIN s : s[k][1] \in Inits
  BY <1>4 DEF H, Has
<1> QED
  BY <1>3, <1>4 DEF Initialising, Inits

(* While an init is at work nothing goes down.                             *)
LEMMA Peace ==
  TypeOK /\ Mine /\ ~Overlap =>
    \A t \in Threads, x \in Inits, p \in Parts, i \in 0 .. MaxObjs :
      H(t, x, p, i) => t \in Users /\ Steady("io") /\ Steady("wp")
<1> SUFFICES ASSUME TypeOK, Mine, ~Overlap, NEW t \in Threads, NEW x \in Inits, NEW p \in Parts,
                    NEW i \in 0 .. MaxObjs, H(t, x, p, i)
             PROVE  t \in Users /\ Steady("io") /\ Steady("wp")
  OBVIOUS
<1>1. t \in Users
  BY DEF Mine
<1>2. Initialising(t)
  BY InitialisingIs, StacksType
<1>3. \A q \in Parts : ~Stopping(q)
  BY <1>1, <1>2 DEF Overlap
<1> QED
  BY <1>1, <1>3, SteadyIs, StepsAre

LEMMA PeaceNext ==
  (TypeOK /\ Mine /\ ~Overlap =>
     \A t \in Threads, x \in Inits, p \in Parts, i \in 0 .. MaxObjs :
       H(t, x, p, i) => t \in Users /\ Steady("io") /\ Steady("wp"))'
  BY Peace, PTL

(* A step that leaves the steps of every tcp_init alone.                   *)
Apart ==
  \A u \in Threads, x \in Inits, q \in Parts, j \in 0 .. MaxObjs : H(u, x, q, j)' <=> H(u, x, q, j)

LEMMA ApartIs ==
  ASSUME NEW t \in Threads, Only(t),
         \A x \in Inits, q \in Parts, j \in 0 .. MaxObjs : H(t, x, q, j)' <=> H(t, x, q, j)
  PROVE  Apart
<1> SUFFICES ASSUME NEW u \in Threads, NEW x \in Inits, NEW q \in Parts, NEW j \in 0 .. MaxObjs
             PROVE  H(u, x, q, j)' <=> H(u, x, q, j)
  BY DEF Apart
<1>1. CASE u = t
  BY <1>1
<1>2. CASE u # t
  BY <1>2, OtherThreads
<1> QED
  BY <1>1, <1>2

(* Nor what is to be closed.                                               *)
Shut == \A u \in Threads, q \in Parts : H(u, "clos", q, 0)' <=> H(u, "clos", q, 0)

LEMMA ApartAll ==
  ASSUME NEW t \in Threads, Only(t),
         \A x \in Inits \cup {"clos"}, q \in Parts, j \in 0 .. MaxObjs :
           H(t, x, q, j)' <=> H(t, x, q, j)
  PROVE  Apart /\ Shut
<1>1. Apart
  BY ApartIs
<1>2. \A q \in Parts : H(t, "clos", q, 0)' <=> H(t, "clos", q, 0)
  BY InstType
<1>3. \A u \in Threads \ {t}, q \in Parts : H(u, "clos", q, 0)' <=> H(u, "clos", q, 0)
  BY OtherThreads
<1> QED
  BY <1>1, <1>2, <1>3 DEF Shut

LEMMA ApartMine ==
  ASSUME Mine, Apart
  PROVE  Mine'
  BY DEF Mine, Apart, Threads, Workers, Own

LEMMA MakersSame ==
  ASSUME NEW t \in Threads,
         \A x \in Inits, q \in Parts, j \in 0 .. MaxObjs : H(t, x, q, j)' <=> H(t, x, q, j)
  PROVE  /\ \A p \in Parts : /\ Maker(t, p)' <=> Maker(t, p)
                             /\ Before(t, p)' <=> Before(t, p)
         /\ Mid(t)' <=> Mid(t)
<1>1. \A x \in Inits, p \in Parts, i \in Insts : H(t, x, p, i)' <=> H(t, x, p, i)
  BY InstType
<1>2. \A x \in Inits, p \in Parts : H(t, x, p, 0)' <=> H(t, x, p, 0)
  BY InstType
<1>3. \A p \in Parts : Maker(t, p)' <=> Maker(t, p)
  BY <1>1, <1>2 DEF Maker, Inits
<1>4. \A p \in Parts : Before(t, p)' <=> Before(t, p)
  BY <1>2 DEF Before, Inits
<1>5. Mid(t)' <=> Mid(t)
  BY <1>4, StepsAre DEF Mid
<1> QED
  BY <1>3, <1>4, <1>5

(* A caller of io_attach or wp_queued has that step and its reference.     *)
LEMMA CallerFacts ==
  ASSUME TypeOK, Shapes, NEW t \in Threads, NEW x \in {"use", "put"}, NEW p, NEW i, At(t, x, p, i)
  PROVE  \A y, q, j : H(t, y, q, j) <=> y \in {x, "defr"} /\ q = p /\ j = i
<1>1. /\ x \in Steps /\ p \in Parts /\ i \in 0 .. MaxObjs
      /\ \E r : /\ Below(x, p, i, r)
                /\ \A y, q, j : H(t, y, q, j) <=> (y = x /\ q = p /\ j = i) \/ Has(r, y, q, j)
  BY AtFacts
<1> PICK r : /\ Below(x, p, i, r)
             /\ \A y, q, j : H(t, y, q, j) <=> (y = x /\ q = p /\ j = i) \/ Has(r, y, q, j)
  BY <1>1
<1>2. r = Push(<<"defr", p, i>>, << >>)
  BY DEF Below
<1>3. \A y, q, j : Has(Push(<<"defr", p, i>>, << >>), y, q, j) <=> y = "defr" /\ q = p /\ j = i
  <2>1. Pushed(Push(<<"defr", p, i>>, << >>), "defr", p, i, << >>)
    <3> HIDE DEF Push, Pushed, Steps, Parts, AStep
    <3> QED
      BY <1>1, StepsAre, NoSteps, PushStep
  <2> QED
    BY <2>1, NoSteps DEF Pushed
<1>4. \A y, q, j : Has(r, y, q, j) <=> y = "defr" /\ q = p /\ j = i
  BY <1>2, <1>3
<1> QED
  BY <1>4

(* What is on its way out stays so, or all is.                             *)
Closings == (\A p \in Parts : Out(p)' <=> Out(p)) \/ \A p \in Parts : Out(p)'

(* Neither the handles nor what is set up change, nor does a call fail.    *)
Quiet == Apart /\ Closings /\ UNCHANGED <<handle, setup, fault>>

LEMMA OutSame ==
  ASSUME NEW p \in Parts, handle'[p] = handle[p],
         \A i \in Insts : stat'[p][i] = stat[p][i]
                            \/ (stat[p][i] = "closing" /\ stat'[p][i] = "dying"),
         handle[p] \in 0 .. MaxObjs,
         \A u \in Threads : H(u, "clos", p, 0)' <=> H(u, "clos", p, 0)
  PROVE  Out(p)' <=> Out(p)
<1>1. handle[p] # 0 => handle[p] \in Insts
  BY DEF Insts
<1> QED
  BY <1>1 DEF Out

LEMMA QuietIs ==
  ASSUME TypeOK, Apart, Shut, UNCHANGED <<handle, stat, setup, fault>>
  PROVE  Quiet
<1>1. ASSUME NEW p \in Parts
      PROVE  Out(p)' <=> Out(p)
  <2>1. handle[p] \in 0 .. MaxObjs
    BY DEF TypeOK
  <2>2. \A u \in Threads : H(u, "clos", p, 0)' <=> H(u, "clos", p, 0)
    BY DEF Shut
  <2> QED
    BY <2>1, <2>2, OutSame
<1> QED
  BY <1>1 DEF Quiet, Closings

LEMMA TodoApart ==
  ASSUME UNCHANGED todo
  PROVE  Apart /\ Shut
  BY DEF Apart, Shut, H, Has

LEMMA UndefinedQuiet ==
  ASSUME TypeOK, NEW w, Undefined(w)
  PROVE  Quiet
<1>1. UNCHANGED <<handle, stat, setup, fault, todo>>
  BY DEF Undefined, obj, flags
<1> QED
  BY <1>1, TodoApart, QuietIs

LEMMA UninitQuiet ==
  ASSUME TypeOK, Shapes, NEW t \in Threads, tcp_uninit(t)
  PROVE  Quiet
<1>1. /\ Only(t) /\ \A y, q, j : ~H(t, y, q, j)
      /\ \A y, q, j : H(t, y, q, j)' <=> y = "clos" /\ q \in Parts /\ j = 0
  BY UninitDoes
<1>2. \A x \in Inits, q \in Parts, j \in 0 .. MaxObjs : H(t, x, q, j)' <=> H(t, x, q, j)
  BY <1>1 DEF Inits
<1>3. UNCHANGED <<handle, setup, fault>>
  BY DEF tcp_uninit, flags
<1>4. \A p \in Parts : Out(p)'
  <2>1. \A p \in Parts : H(t, "clos", p, 0)'
    BY <1>1
  <2> QED
    BY <2>1 DEF Out
<1> QED
  BY <1>1, <1>2, <1>3, <1>4, ApartIs DEF Quiet, Closings

LEMMA DefrQuiet ==
  ASSUME TypeOK, Shapes, NEW t \in Threads, NEW p, NEW i, objdefr(t, p, i)
  PROVE  Quiet
<1>1. /\ p \in Parts /\ i \in Insts /\ Only(t) /\ UNCHANGED <<handle, setup, fault>>
      /\ \/ stat[p][i] = "closing" /\ stat' = Set(stat, p, i, "dying")
         \/ UNCHANGED stat
      /\ \E r \in Rests :
           /\ \A y, q, j : H(t, y, q, j) <=> (y = "defr" /\ q = p /\ j = i) \/ Has(r, y, q, j)
           /\ \/ \A y, q, j : H(t, y, q, j)'
                    <=> (y \in {"stop", "join", "free"} /\ q = p /\ j = i) \/ Has(r, y, q, j)
              \/ \A y, q, j : H(t, y, q, j)' <=> Has(r, y, q, j)
  BY DefrDoes DEF flags
<1>2. \A x \in Inits \cup {"clos"}, q \in Parts, j \in 0 .. MaxObjs :
        H(t, x, q, j)' <=> H(t, x, q, j)
  BY <1>1 DEF Inits
<1>3. Apart /\ Shut
  BY <1>1, <1>2, ApartAll
<1>4. ASSUME NEW q \in Parts
      PROVE  Out(q)' <=> Out(q)
  <2>1. \A j \in Insts : stat'[q][j] = stat[q][j]
                           \/ (stat[q][j] = "closing" /\ stat'[q][j] = "dying")
    <3>1. stat \in [Parts -> [Insts -> {"none", "open", "closing", "dying", "dead"}]]
      BY DEF TypeOK
    <3>2. CASE UNCHANGED stat
      BY <3>2
    <3>3. CASE stat[p][i] = "closing" /\ stat' = Set(stat, p, i, "dying")
      BY <1>1, <3>1, <3>3 DEF Set
    <3> QED
      BY <1>1, <3>2, <3>3
  <2>2. \A u \in Threads : H(u, "clos", q, 0)' <=> H(u, "clos", q, 0)
    BY <1>3 DEF Shut
  <2>3. handle'[q] = handle[q] /\ handle[q] \in 0 .. MaxObjs
    BY <1>1 DEF TypeOK
  <2> QED
    BY <2>1, <2>2, <2>3, OutSame
<1> QED
  BY <1>1, <1>3, <1>4 DEF Quiet, Closings

LEMMA ClosQuiet ==
  ASSUME Base, NEW t \in Threads, NEW p, objclos(t, p)
  PROVE  Quiet
<1>1. TypeOK /\ Shapes
  BY DEF Base
<1>2. p \in Parts /\ Only(t) /\ UNCHANGED <<handle, setup, fault>>
  BY <1>1, ClosDoes DEF flags
<1> PICK i : i = handle[p]
  OBVIOUS
<1>3. /\ i \in 0 .. MaxObjs
      /\ \E r \in {<< >>, CloseWp} :
           /\ \A y, q, j : H(t, y, q, j) <=> (y = "clos" /\ q = p /\ j = 0) \/ Has(r, y, q, j)
           /\ \A y, q, j : Has(r, y, q, j) => Closes(p, y, q, j)
           /\ \/ \A y, q, j : H(t, y, q, j)'
                    <=> (y \in {"stop", "join", "free"} /\ q = p /\ j = i) \/ Has(r, y, q, j)
              \/ \A y, q, j : H(t, y, q, j)' <=> Has(r, y, q, j)
      /\ \/ i # 0 /\ stat[p][i] = "open" /\ stat' = Set(stat, p, i, "dying")
         \/ i # 0 /\ stat[p][i] = "open" /\ stat' = Set(stat, p, i, "closing")
         \/ (i # 0 => stat[p][i] # "open") /\ UNCHANGED stat
  BY <1>1, ClosDoes
<1>4. \A x \in Inits, q \in Parts, j \in 0 .. MaxObjs : H(t, x, q, j)' <=> H(t, x, q, j)
  BY <1>3 DEF Inits
<1>5. Out(p) /\ Out(p)'
  <2>1. H(t, "clos", p, 0)
    BY <1>3
  <2>2. i # 0 => stat'[p][i] \in {"closing", "dying"}
    <3> HAVE i # 0
    <3>1. i \in Insts
      BY <1>3 DEF Insts
    <3>2. stat[p][i] \in {"open", "closing", "dying"}
      BY <1>2, <3>1 DEF Base, Instances, Instance, Named
    <3>3. stat[p] \in [Insts -> {"none", "open", "closing", "dying", "dead"}]
      BY <1>1, <1>2 DEF TypeOK
    <3> QED
      BY <1>1, <1>2, <1>3, <3>1, <3>2, <3>3 DEF Set, TypeOK
  <2>3. handle'[p] = i
    BY <1>2
  <2> QED
    BY <2>1, <2>2, <2>3 DEF Out
<1>6. ASSUME NEW q \in Parts, q # p
      PROVE  Out(q)' <=> Out(q)
  <2>1. H(t, "clos", q, 0)' <=> H(t, "clos", q, 0)
    BY <1>3, <1>6
  <2>2. \A u \in Threads : H(u, "clos", q, 0)' <=> H(u, "clos", q, 0)
    BY <1>2, <2>1, OtherThreads
  <2>3. \A j \in Insts : stat'[q][j] = stat[q][j]
    BY <1>1, <1>2, <1>3, <1>6 DEF Set, TypeOK
  <2>4. handle'[q] = handle[q] /\ handle[q] \in 0 .. MaxObjs
    BY <1>1, <1>2 DEF TypeOK
  <2> QED
    BY <2>2, <2>3, <2>4, OutSame
<1> QED
  BY <1>2, <1>4, <1>5, <1>6, ApartIs DEF Quiet, Closings

LEMMA StopQuiet ==
  ASSUME TypeOK, Shapes, NEW t \in Threads, NEW p, NEW i, Stop(t, p, i), ub' = "no"
  PROVE  Quiet
<1>1. /\ Only(t) /\ UNCHANGED <<handle, stat, setup, fault>>
      /\ \E r \in Rests : Stops(t, p, i, r)
  BY StopDoes DEF obj, flags
<1>2. \A x \in Inits \cup {"clos"}, q \in Parts, j \in 0 .. MaxObjs :
        H(t, x, q, j)' <=> H(t, x, q, j)
  BY <1>1 DEF Inits, Stops
<1> QED
  BY <1>1, <1>2, ApartAll, QuietIs

LEMMA JoinQuiet ==
  ASSUME TypeOK, Shapes, NEW t \in Threads, NEW p, NEW i, Join(t, p, i), ub' = "no"
  PROVE  Quiet
<1>1. /\ Only(t) /\ UNCHANGED <<handle, stat, setup, fault>>
      /\ \E r \in Rests :
           /\ \A y, q, j : H(t, y, q, j)
                <=> (y \in {"join", "free"} /\ q = p /\ j = i) \/ Has(r, y, q, j)
           /\ \A y, q, j : H(t, y, q, j)'
                <=> (y = "free" /\ q = p /\ j = i) \/ Has(r, y, q, j)
  BY JoinDoes DEF obj
<1>2. \A x \in Inits \cup {"clos"}, q \in Parts, j \in 0 .. MaxObjs :
        H(t, x, q, j)' <=> H(t, x, q, j)
  BY <1>1 DEF Inits
<1> QED
  BY <1>1, <1>2, ApartAll, QuietIs

LEMMA FreeApart ==
  ASSUME TypeOK, Shapes, NEW t \in Threads, NEW p, NEW i, Free(t, p, i)
  PROVE  Apart /\ Shut
<1>1. /\ Only(t)
      /\ \E r \in Rests :
           /\ \A y, q, j : H(t, y, q, j) <=> (y = "free" /\ q = p /\ j = i) \/ Has(r, y, q, j)
           /\ \A y, q, j : H(t, y, q, j)' <=> Has(r, y, q, j)
  BY FreeDoes
<1>2. \A x \in Inits \cup {"clos"}, q \in Parts, j \in 0 .. MaxObjs :
        H(t, x, q, j)' <=> H(t, x, q, j)
  BY <1>1 DEF Inits
<1> QED
  BY <1>1, <1>2, ApartAll

LEMMA EnterQuiet ==
  ASSUME TypeOK, Shapes, NEW t \in Threads, NEW s, NEW p, NEW next,
         Enter(t, s, p, next), <<s, p, next>> \in {<<"aref", "io", "use">>, <<"qref", "wp", "put">>}
  PROVE  Quiet
<1>1. /\ Only(t) /\ UNCHANGED <<handle, stat, setup, fault>>
      /\ \A y, q, j : H(t, y, q, j) <=> y = s /\ q = p /\ j = 0
      /\ \/ \A y, q, j : H(t, y, q, j)' <=> y \in {next, "defr"} /\ q = p /\ j = handle[p]
         \/ \A y, q, j : ~H(t, y, q, j)'
  BY EnterDoes DEF obj, flags
<1>2. \A x \in Inits \cup {"clos"}, q \in Parts, j \in 0 .. MaxObjs :
        H(t, x, q, j)' <=> H(t, x, q, j)
  BY <1>1 DEF Inits
<1> QED
  BY <1>1, <1>2, ApartAll, QuietIs

LEMMA CallQuiet ==
  ASSUME TypeOK, Shapes, NEW t \in Threads, NEW i, io_attach(t, i) \/ wp_queued(t, i), ub' = "no"
  PROVE  Quiet
<1>1. UNCHANGED <<handle, stat, setup, fault>>
  BY DEF io_attach, wp_queued, Undefined, obj, flags
<1>2. \E x \in {"use", "put"}, p \in Parts : At(t, x, p, i) /\ Does(t, x, p, i, << >>)
  <2>1. ~Undefined(Misuse("io", i)) /\ ~Undefined(Misuse("wp", i))
    BY DEF Undefined, Misuse
  <2> QED
    BY <2>1, StepsAre DEF io_attach, wp_queued
<1> PICK x \in {"use", "put"}, p \in Parts : At(t, x, p, i) /\ Does(t, x, p, i, << >>)
  BY <1>2
<1> HIDE DEF At, Does
<1>3. Only(t) /\ \A y, q, j : H(t, y, q, j)' <=> y = "defr" /\ q = p /\ j = i
  BY CallDoes
<1>4. \A y, q, j : H(t, y, q, j) <=> y \in {x, "defr"} /\ q = p /\ j = i
  BY CallerFacts
<1>5. \A y \in Inits \cup {"clos"}, q \in Parts, j \in 0 .. MaxObjs :
        H(t, y, q, j)' <=> H(t, y, q, j)
  BY <1>3, <1>4 DEF Inits
<1> QED
  BY <1>1, <1>3, <1>5, ApartAll, QuietIs

LEMMA HandleQuiet ==
  ASSUME TypeOK, Shapes, NEW i \in Insts, Handle(i)
  PROVE  Quiet
<1> DEFINE t == Own("io", i)
<1>1. /\ t \in Threads /\ Only(t) /\ \A y, q, j : ~H(t, y, q, j)
      /\ \A y, q, j : H(t, y, q, j)' => y \in {"aref", "qref"} /\ j = 0
  BY HandleDoes
<1>2. UNCHANGED <<handle, stat, setup, fault>>
  BY DEF Handle, obj, flags
<1>3. \A x \in Inits \cup {"clos"}, q \in Parts, j \in 0 .. MaxObjs :
        H(t, x, q, j)' <=> H(t, x, q, j)
  BY <1>1 DEF Inits
<1> QED
  BY <1>1, <1>2, <1>3, ApartAll, QuietIs

LEMMA TakeQuiet ==
  ASSUME TypeOK, Shapes, NEW i \in Insts, Take(i)
  PROVE  Quiet
<1> DEFINE t == Own("wp", i)
<1>1. /\ t \in Threads /\ Only(t) /\ \A y, q, j : ~H(t, y, q, j)
      /\ \A y, q, j : H(t, y, q, j)' <=> y = "exec" /\ q = "wp" /\ j = i
  BY TakeDoes
<1>2. UNCHANGED <<handle, stat, setup, fault>>
  BY DEF Take, obj, flags
<1>3. \A x \in Inits \cup {"clos"}, q \in Parts, j \in 0 .. MaxObjs :
        H(t, x, q, j)' <=> H(t, x, q, j)
  BY <1>1 DEF Inits
<1> QED
  BY <1>1, <1>2, <1>3, ApartAll, QuietIs

LEMMA ExecQuiet ==
  ASSUME TypeOK, Shapes, NEW i, Exec(i), Own("wp", i) \in Threads
  PROVE  Quiet
<1> DEFINE t == Own("wp", i)
<1>1. /\ Only(t) /\ \A y, q, j : H(t, y, q, j) <=> y = "exec" /\ q = "wp" /\ j = i
      /\ \A y, q, j : H(t, y, q, j)' => y \in {"aref", "qref"} /\ j = 0
  BY ExecDoes
<1>2. UNCHANGED <<handle, stat, setup, fault>>
  BY DEF Exec, obj, flags
<1>3. \A x \in Inits \cup {"clos"}, q \in Parts, j \in 0 .. MaxObjs :
        H(t, x, q, j)' <=> H(t, x, q, j)
  BY <1>1 DEF Inits
<1> QED
  BY <1>1, <1>2, <1>3, ApartAll, QuietIs

LEMMA LookQuiet ==
  ASSUME TypeOK, NEW p, NEW i, Look(p, i), ub' = "no"
  PROVE  Quiet
<1>1. ~Undefined("freed")
  BY DEF Undefined
<1>2. UNCHANGED <<handle, stat, setup, fault, todo>>
  BY <1>1 DEF Look, obj, flags
<1> QED
  BY <1>2, TodoApart, QuietIs

-----------------------------------------------------------------------------
(***************************************************************************)
(* One init at a time.                                                     *)
(***************************************************************************)

(* What a step must leave alone for the others' sake.                      *)
Kin == {"ref", "setup", "table", "threads"}

LEMMA MakerIs ==
  \A t \in Threads, p \in Parts :
    /\ Maker(t, p) => \E x \in Kin, i \in 0 .. MaxObjs : H(t, x, p, i)
    /\ Maker(t, p) <=> H(t, "ref", p, 0) \/ \E x \in {"setup", "table", "threads"}, i \in Insts : H(t, x, p, i)
<1>1. Insts \subseteq 0 .. MaxObjs /\ 0 \in 0 .. MaxObjs
  BY InstType
<1> QED
  BY <1>1 DEF Maker, Kin

LEMMA OthersMake ==
  ASSUME NEW t \in Threads, Only(t)
  PROVE  \A u \in Threads \ {t}, p \in Parts :
           /\ Maker(u, p)' <=> Maker(u, p)
           /\ \A x, i : H(u, x, p, i)' <=> H(u, x, p, i)
<1>1. \A u \in Threads \ {t} : \A x, p, i : H(u, x, p, i)' <=> H(u, x, p, i)
  BY OtherThreads
<1> QED
  BY <1>1 DEF Maker

(* Steps that have nothing to do with the making of part p.                *)
LEMMA SoleStays ==
  ASSUME NEW p \in Parts, Sole(p), NEW t \in Threads, Only(t),
         handle'[p] = handle[p], \A i \in Insts : setup'[p][i] = setup[p][i], fault => fault',
         handle[p] \in 0 .. MaxObjs,
         \A x \in Kin, i \in 0 .. MaxObjs : H(t, x, p, i)' <=> H(t, x, p, i),
         H(t, "already", p, 0)' => H(t, "already", p, 0) \/ handle[p] # 0
  PROVE  Sole(p)'
<1>1. \A x \in Kin, u \in Threads : /\ \A i \in Insts : H(u, x, p, i)' <=> H(u, x, p, i)
                                    /\ H(u, x, p, 0)' <=> H(u, x, p, 0)
  BY InstType, OthersMake
<1>2. \A u \in Threads : Maker(u, p)' <=> Maker(u, p)
  BY <1>1 DEF Maker, Kin
<1>3. \A u \in Threads : H(u, "already", p, 0)' => H(u, "already", p, 0) \/ handle[p] # 0
  BY OthersMake
<1>4. handle[p] # 0 => setup'[p][handle[p]] = setup[p][handle[p]]
  BY DEF Insts
<1>5. ASSUME NEW u \in Threads
      PROVE  /\ Maker(u, p)' => handle'[p] # 0
             /\ H(u, "ref", p, 0)' => setup'[p][handle'[p]] = "none"
             /\ \A i \in Insts : H(u, "setup", p, i)' => setup'[p][i] = "none"
             /\ H(u, "already", p, 0)' => handle'[p] # 0
  <2>1. Maker(u, p)' => handle'[p] # 0
    BY <1>2 DEF Sole
  <2>2. H(u, "ref", p, 0)' => setup'[p][handle'[p]] = "none"
    <3>1. H(u, "ref", p, 0)' => Maker(u, p) /\ H(u, "ref", p, 0)
      BY <1>1 DEF Maker, Kin
    <3> QED
      BY <1>4, <3>1 DEF Sole
  <2>3. \A i \in Insts : H(u, "setup", p, i)' => setup'[p][i] = "none"
    BY <1>1 DEF Sole, Kin
  <2>4. H(u, "already", p, 0)' => handle'[p] # 0
    BY <1>3 DEF Sole
  <2> QED
    BY <2>1, <2>2, <2>3, <2>4
<1>6. \A u, v \in Threads : Maker(u, p)' /\ Maker(v, p)' => u = v
  BY <1>2 DEF Sole
<1>7. ~fault' /\ handle'[p] # 0 /\ setup'[p][handle'[p]] # "live" => \E u \in Threads : Maker(u, p)'
  BY <1>2, <1>4 DEF Sole
<1> QED
  BY <1>5, <1>6, <1>7 DEF Sole

(* The thread that makes a part goes on with it, or is done.               *)
LEMMA SoleMoves ==
  ASSUME NEW p \in Parts, Sole(p), NEW t \in Threads, Only(t), Maker(t, p),
         handle'[p] = handle[p],
         ~H(t, "ref", p, 0)', ~H(t, "already", p, 0)',
         \A i \in Insts : H(t, "setup", p, i)' => setup'[p][i] = "none",
         Maker(t, p)' \/ fault' \/ setup'[p][handle[p]] = "live"
  PROVE  Sole(p)'
<1>1. \A u \in Threads \ {t} : ~Maker(u, p)' /\ ~Maker(u, p)
  BY OthersMake DEF Sole
<1>2. handle'[p] # 0
  BY DEF Sole
<1>3. \A u \in Threads \ {t} : ~H(u, "ref", p, 0)' /\ \A i \in Insts : ~H(u, "setup", p, i)'
  BY <1>1 DEF Maker
<1> QED
  BY <1>1, <1>2, <1>3 DEF Sole

(* The thread that has put the handle in place makes the part.             *)
LEMMA SoleBegins ==
  ASSUME NEW p \in Parts, Sole(p), NEW t \in Threads, Only(t),
         handle[p] = 0, handle'[p] # 0, setup'[p][handle'[p]] = "none",
         H(t, "ref", p, 0)', \A i \in Insts : ~H(t, "setup", p, i)'
  PROVE  Sole(p)'
<1>1. \A u \in Threads \ {t} : ~Maker(u, p)'
  BY OthersMake DEF Sole
<1>2. \A u \in Threads \ {t} : ~H(u, "ref", p, 0)' /\ \A i \in Insts : ~H(u, "setup", p, i)'
  BY <1>1 DEF Maker
<1>3. Maker(t, p)'
  BY DEF Maker
<1> QED
  BY <1>1, <1>2, <1>3 DEF Sole

(* What is so before and after a step as long as no init has overlapped an *)
(* uninit.                                                                 *)
Peaceful ==
  Base /\ Mine /\ ~Overlap /\ \A p \in Parts : Sole(p)

LEMMA SolesQuiet ==
  ASSUME Peaceful, Quiet
  PROVE  \A p \in Parts : Sole(p)'
<1> SUFFICES ASSUME NEW p \in Parts PROVE Sole(p)'
  OBVIOUS
<1>1. \A u \in Threads, x \in Inits : /\ \A i \in Insts : H(u, x, p, i)' <=> H(u, x, p, i)
                                      /\ H(u, x, p, 0)' <=> H(u, x, p, 0)
  BY InstType DEF Quiet, Apart
<1>2. \A u \in Threads : Maker(u, p)' <=> Maker(u, p)
  BY <1>1 DEF Maker, Inits
<1>3. UNCHANGED <<handle, setup, fault>>
  BY DEF Quiet
<1>4. Sole(p)
  BY DEF Peaceful
<1> QED
  BY <1>1, <1>2, <1>3, <1>4 DEF Sole, Inits

(* A destructor runs to its end only while no init is at work.             *)
LEMMA SolesFree ==
  ASSUME Peaceful, NEW t \in Threads, NEW q, NEW i, Free(t, q, i)
  PROVE  \A p \in Parts : Sole(p)'
<1>1. TypeOK /\ Shapes /\ Mine /\ ~Overlap
  BY DEF Peaceful, Base
<1>2. /\ q \in Parts /\ i \in Insts /\ H(t, "free", q, i)
      /\ setup' = Set(setup, q, i, "freed") /\ UNCHANGED fault
      /\ handle' = IF handle[q] = i THEN [handle EXCEPT ![q] = 0] ELSE handle
  BY <1>1, FreeDoes DEF flags
<1>3. Instance(q, i)
  BY <1>2 DEF Peaceful, Base, Instances
<1>4. stat[q][i] = "dying" /\ handle[q] = i
  BY <1>2, <1>3 DEF Instance, Destructed, Named
<1>5. ~Steady("io") \/ ~Steady("wp")
  BY <1>2, <1>4 DEF Steady, Parts
<1>6. \A u \in Threads, x \in Inits, p \in Parts, j \in 0 .. MaxObjs : ~H(u, x, p, j)
  BY <1>1, <1>5, Peace
<1>7. \A u \in Threads, x \in Inits, p \in Parts, j \in 0 .. MaxObjs : ~H(u, x, p, j)'
  BY <1>1, <1>6, FreeApart DEF Apart
<1> SUFFICES ASSUME NEW p \in Parts PROVE Sole(p)'
  OBVIOUS
<1>8. \A u \in Threads : /\ ~Maker(u, p) /\ ~Maker(u, p)'
                         /\ ~H(u, "ref", p, 0)' /\ ~H(u, "already", p, 0)'
                         /\ \A j \in Insts : ~H(u, "setup", p, j)'
  <2> TAKE u \in Threads
  <2>1. \A x \in Inits : /\ \A j \in Insts : ~H(u, x, p, j) /\ ~H(u, x, p, j)'
                         /\ ~H(u, x, p, 0) /\ ~H(u, x, p, 0)'
    BY <1>6, <1>7, InstType
  <2> QED
    BY <2>1 DEF Maker, Inits
<1>9. handle'[p] # 0 => p # q /\ handle'[p] = handle[p] /\ setup'[p] = setup[p]
  <2>1. handle \in [Parts -> 0 .. MaxObjs] /\ p \in Parts /\ q \in Parts
    BY <1>1, <1>2 DEF TypeOK
  <2>2. p = q => handle'[p] = 0
    BY <1>2, <1>4, <2>1
  <2>3. p # q => handle'[p] = handle[p] /\ setup'[p] = setup[p]
    BY <1>1, <1>2, <1>4, <2>1 DEF Set, TypeOK
  <2> QED
    BY <2>2, <2>3
<1>10. Sole(p)
  BY DEF Peaceful
<1> QED
  BY <1>2, <1>8, <1>9, <1>10 DEF Sole

(* What is so of the threads in a peaceful state.                          *)
LEMMA PeacefulFacts ==
  ASSUME Peaceful
  PROVE  /\ TypeOK /\ Shapes /\ Mine /\ ~Overlap
         /\ handle \in [Parts -> 0 .. MaxObjs]
         /\ setup \in [Parts -> [Insts -> {"none", "divs", "table", "live", "freed"}]]
         /\ \A p \in Parts : Sole(p) /\ \A i \in Insts : Instance(p, i)
  BY DEF Peaceful, Base, Instances, TypeOK

LEMMA SolesInit ==
  ASSUME Peaceful, NEW t \in Threads, tcp_init(t)
  PROVE  \A p \in Parts : Sole(p)'
<1> SUFFICES ASSUME NEW p \in Parts PROVE Sole(p)'
  OBVIOUS
<1>1. TypeOK /\ Shapes /\ Sole(p) /\ handle[p] \in 0 .. MaxObjs
  BY PeacefulFacts
<1>2. /\ Only(t) /\ \A y, q, j : ~H(t, y, q, j)
      /\ \A y, q, j : H(t, y, q, j)'
           <=> j = 0 /\ ((y = "check" /\ q \in Parts) \/ (y = "zero" /\ q = "wp"))
  BY <1>1, InitDoes
<1>3. UNCHANGED <<handle, setup, fault>>
  BY DEF tcp_init, flags
<1>4. /\ handle'[p] = handle[p] /\ \A i \in Insts : setup'[p][i] = setup[p][i]
      /\ fault => fault'
  BY <1>3
<1>5. /\ \A x \in Kin, i \in 0 .. MaxObjs : H(t, x, p, i)' <=> H(t, x, p, i)
      /\ H(t, "already", p, 0)' => H(t, "already", p, 0) \/ handle[p] # 0
  BY <1>2 DEF Kin
<1> QED
  BY <1>1, <1>2, <1>4, <1>5, SoleStays

LEMMA SolesCheck ==
  ASSUME Peaceful, NEW t \in Threads, NEW k, Check(t, k)
  PROVE  \A p \in Parts : Sole(p)'
<1> SUFFICES ASSUME NEW p \in Parts PROVE Sole(p)'
  OBVIOUS
<1>1. TypeOK /\ Shapes /\ Sole(p) /\ handle[p] \in 0 .. MaxObjs
  BY PeacefulFacts
<1>2. /\ k \in Parts /\ Only(t)
      /\ \A y, q, j : H(t, y, q, j) <=> (y = "check" /\ q = k /\ j = 0) \/ After(k, y, q, j)
      /\ \/ /\ handle[k] # 0
            /\ \A y, q, j : H(t, y, q, j)' <=> y = "already" /\ q = k /\ j = 0
         \/ \A y, q, j : H(t, y, q, j)' <=> (y = "install" /\ q = k /\ j = 0) \/ After(k, y, q, j)
  BY <1>1, CheckDoes
<1>3. UNCHANGED <<handle, setup, fault>>
  BY DEF Check, flags
<1>4. /\ handle'[p] = handle[p] /\ \A i \in Insts : setup'[p][i] = setup[p][i]
      /\ fault => fault'
  BY <1>3
<1>5. /\ \A x \in Kin, i \in 0 .. MaxObjs : H(t, x, p, i)' <=> H(t, x, p, i)
      /\ H(t, "already", p, 0)' => H(t, "already", p, 0) \/ handle[p] # 0
  BY <1>2 DEF Kin, After
<1> QED
  BY <1>1, <1>2, <1>4, <1>5, SoleStays

LEMMA SolesReturn ==
  ASSUME Peaceful, NEW t \in Threads, NEW k, Return(t, k)
  PROVE  \A p \in Parts : Sole(p)'
<1> SUFFICES ASSUME NEW p \in Parts PROVE Sole(p)'
  OBVIOUS
<1>1. TypeOK /\ Shapes /\ Sole(p) /\ handle[p] \in 0 .. MaxObjs
  BY PeacefulFacts
<1>2. /\ Only(t)
      /\ \/ \A y, q, j : H(t, y, q, j) <=> y = "zero" /\ q = k /\ j = 0
         \/ \A y, q, j : H(t, y, q, j) <=> y = "already" /\ q = k /\ j = 0
      /\ \A y, q, j : H(t, y, q, j)' => y = "aref" /\ q = "io" /\ j = 0
  BY <1>1, ReturnDoes
<1>3. UNCHANGED <<handle, setup, fault>>
  BY DEF Return, flags
<1>4. /\ handle'[p] = handle[p] /\ \A i \in Insts : setup'[p][i] = setup[p][i]
      /\ fault => fault'
  BY <1>3
<1>5. /\ \A x \in Kin, i \in 0 .. MaxObjs : H(t, x, p, i)' <=> H(t, x, p, i)
      /\ H(t, "already", p, 0)' => H(t, "already", p, 0) \/ handle[p] # 0
  BY <1>2 DEF Kin
<1> QED
  BY <1>1, <1>2, <1>4, <1>5, SoleStays

LEMMA SolesInstall ==
  ASSUME Peaceful, NEW t \in Threads, NEW k, Install(t, k)
  PROVE  \A p \in Parts : Sole(p)'
<1> SUFFICES ASSUME NEW p \in Parts PROVE Sole(p)'
  OBVIOUS
<1> DEFINE i == made[k] + 1
<1>1. TypeOK /\ Shapes /\ Sole(p) /\ handle \in [Parts -> 0 .. MaxObjs]
  BY PeacefulFacts
<1>2. /\ k \in Parts /\ Only(t)
      /\ \A y, q, j : H(t, y, q, j) <=> (y = "install" /\ q = k /\ j = 0) \/ After(k, y, q, j)
      /\ \/ /\ i \in Insts /\ handle[k] = 0 /\ handle' = [handle EXCEPT ![k] = i]
            /\ \A y, q, j : H(t, y, q, j)' <=> (y = "ref" /\ q = k /\ j = 0) \/ After(k, y, q, j)
         \/ /\ handle[k] # 0 /\ handle' = handle
            /\ \A y, q, j : H(t, y, q, j)' <=> y = "already" /\ q = k /\ j = 0
         \/ /\ handle' = handle
            /\ \A y, q, j : H(t, y, q, j)' <=> y = "clos" /\ q = "io" /\ j = 0 /\ k = "wp"
  BY <1>1, InstallDoes
<1>3. UNCHANGED <<setup, fault>>
  BY DEF Install, flags
<1>4. \A x \in Kin, j \in 0 .. MaxObjs : ~H(t, x, p, j)
  BY <1>2 DEF Kin, After
<1> DEFINE New == /\ i \in Insts /\ handle[k] = 0 /\ handle' = [handle EXCEPT ![k] = i]
                  /\ \A y, q, j : H(t, y, q, j)'
                                    <=> (y = "ref" /\ q = k /\ j = 0) \/ After(k, y, q, j)
<1>5. CASE p = k /\ New
  <2>1. handle[p] = 0 /\ handle'[p] = i /\ handle'[p] # 0
    BY <1>1, <1>2, <1>5, InstType
  <2>2. stat[p][i] = "none"
    <3>1. Instance(p, i) /\ made[k] \in Nat
      BY <1>5, PeacefulFacts DEF TypeOK
    <3> QED
      BY <1>5, <3>1 DEF Instance, Named
  <2>3. setup'[p][handle'[p]] = "none"
    BY <1>3, <1>5, <2>1, <2>2, PeacefulFacts DEF Instance, Running
  <2>4. H(t, "ref", p, 0)' /\ \A j \in Insts : ~H(t, "setup", p, j)'
    BY <1>5 DEF After
  <2> QED
    BY <1>1, <1>2, <2>1, <2>3, <2>4, SoleBegins
<1>6. CASE ~(p = k /\ New)
  <2>1. /\ handle'[p] = handle[p] /\ \A j \in Insts : setup'[p][j] = setup[p][j]
        /\ fault => fault'
    BY <1>1, <1>2, <1>3, <1>6
  <2>2. /\ \A x \in Kin, j \in 0 .. MaxObjs : ~H(t, x, p, j)'
        /\ H(t, "already", p, 0)' => H(t, "already", p, 0) \/ handle[p] # 0
    <3>1. CASE p = k
      BY <1>1, <1>2, <1>6, <3>1 DEF Kin, After
    <3>2. CASE p # k
      BY <1>2, <3>2 DEF Kin, After
    <3> QED
      BY <3>1, <3>2
  <2> QED
    BY <1>1, <1>2, <1>4, <2>1, <2>2, SoleStays
<1> QED
  BY <1>5, <1>6

(* The reference finds the object that the thread has just put in place.   *)
LEMMA RefFinds ==
  ASSUME Peaceful, NEW t \in Threads, NEW k \in Parts, H(t, "ref", k, 0), NEW i, i = handle[k]
  PROVE  i \in Insts /\ setup[k][i] = "none" /\ stat[k][i] = "open"
<1>1. Sole(k)
  BY PeacefulFacts
<1>2. i # 0 /\ setup[k][i] = "none"
  BY <1>1 DEF Sole, Maker
<1>3. i \in Insts
  BY <1>2, PeacefulFacts DEF Insts
<1>4. Steady(k)
  <2>1. "ref" \in Inits /\ 0 \in 0 .. MaxObjs
    BY InstType DEF Inits
  <2> QED
    BY <2>1, PeacefulFacts, Peace DEF Parts
<1>5. stat[k][i] = "open"
  BY <1>3, <1>4, PeacefulFacts DEF Steady, Instance, Named
<1> QED
  BY <1>2, <1>3, <1>5

LEMMA SolesRef ==
  ASSUME Peaceful, NEW t \in Threads, NEW k, Ref(t, k)
  PROVE  \A p \in Parts : Sole(p)'
<1> SUFFICES ASSUME NEW p \in Parts PROVE Sole(p)'
  OBVIOUS
<1> PICK i : i = handle[k]
  OBVIOUS
<1>1. TypeOK /\ Shapes /\ Sole(p) /\ handle \in [Parts -> 0 .. MaxObjs]
  BY PeacefulFacts
<1>2. /\ k \in Parts /\ Only(t)
      /\ \A y, q, j : H(t, y, q, j) <=> (y = "ref" /\ q = k /\ j = 0) \/ After(k, y, q, j)
      /\ \/ /\ i # 0
            /\ \A y, q, j : H(t, y, q, j)' <=> (y = "setup" /\ q = k /\ j = i) \/ After(k, y, q, j)
         \/ i # 0 => stat[k][i] # "open"
  BY <1>1, RefDoes
<1>3. UNCHANGED <<handle, setup, fault>>
  BY DEF Ref, flags
<1>4. /\ \A y, q, j : H(t, y, q, j)' <=> (y = "setup" /\ q = k /\ j = i) \/ After(k, y, q, j)
      /\ i \in Insts /\ setup[k][i] = "none"
  <2>1. H(t, "ref", k, 0)
    BY <1>2
  <2>2. i \in Insts /\ setup[k][i] = "none" /\ stat[k][i] = "open"
    BY <1>2, <2>1, RefFinds
  <2> QED
    BY <1>2, <2>2, InstType
<1>5. CASE p = k
  <2>1. Maker(t, p)
    BY <1>2, <1>5 DEF Maker
  <2>2. ~H(t, "ref", p, 0)' /\ ~H(t, "already", p, 0)'
    BY <1>4 DEF After
  <2>3. \A j \in Insts : H(t, "setup", p, j)' => setup'[p][j] = "none"
    BY <1>3, <1>4, <1>5 DEF After
  <2>4. Maker(t, p)'
    <3>1. H(t, "setup", p, i)'
      BY <1>4, <1>5
    <3> QED
      BY <1>4, <3>1 DEF Maker
  <2>5. handle'[p] = handle[p]
    BY <1>3
  <2> QED
    BY <1>1, <1>2, <2>1, <2>2, <2>3, <2>4, <2>5, SoleMoves
<1>6. CASE p # k
  <2>1. /\ handle'[p] = handle[p] /\ \A j \in Insts : setup'[p][j] = setup[p][j]
        /\ fault => fault'
    BY <1>3
  <2>2. /\ \A x \in Kin, j \in 0 .. MaxObjs : ~H(t, x, p, j) /\ ~H(t, x, p, j)'
        /\ ~H(t, "already", p, 0)'
    BY <1>2, <1>4, <1>6 DEF Kin, After
  <2> QED
    BY <1>1, <1>2, <2>1, <2>2, SoleStays
<1> QED
  BY <1>5, <1>6

(* The builder of a part is its only maker, and the part is the handle's.  *)
LEMMA BuildingFacts ==
  ASSUME Peaceful, NEW t \in Threads, NEW p \in Parts, NEW i \in Insts,
         NEW x \in {"setup", "table", "threads"}, H(t, x, p, i)
  PROVE  Maker(t, p) /\ handle[p] = i
<1>1. Instance(p, i)
  BY PeacefulFacts
<1>2. x \in Holder
  BY DEF Holder
<1>3. handle[p] = i
  BY <1>1, <1>2, HolderFacts
<1> QED
  BY <1>3 DEF Maker

(* A step of the set-up of instance i of part k, from x to z.              *)
LEMMA SolesBuild ==
  ASSUME Peaceful, NEW t \in Threads, NEW k \in Parts, NEW i \in Insts, Only(t),
         NEW x \in {"setup", "table", "threads"}, NEW z \in {"table", "threads", "defr"},
         UNCHANGED handle, fault => fault',
         \A q \in Parts \ {k} : setup'[q] = setup[q],
         \A y, q, j : H(t, y, q, j) <=> (y = x /\ q = k /\ j = i) \/ After(k, y, q, j),
         \A q, j : \A y \in Inits :
           H(t, y, q, j)' => (y = z /\ q = k /\ j = i) \/ After(k, y, q, j),
         z # "defr" => H(t, z, k, i)',
         z = "defr" => fault' \/ setup'[k][i] = "live"
  PROVE  \A p \in Parts : Sole(p)'
<1> SUFFICES ASSUME NEW p \in Parts PROVE Sole(p)'
  OBVIOUS
<1>1. Sole(p) /\ handle[p] \in 0 .. MaxObjs
  BY PeacefulFacts
<1>2. CASE p = k
  <2>1. Maker(t, p) /\ handle[p] = i
    BY <1>2, BuildingFacts
  <2>2. ~H(t, "ref", p, 0)' /\ ~H(t, "already", p, 0)' /\ \A j \in Insts : ~H(t, "setup", p, j)'
    BY DEF Inits, After
  <2>3. Maker(t, p)' \/ fault' \/ setup'[p][handle[p]] = "live"
    BY <1>2, <2>1 DEF Maker
  <2> QED
    BY <1>1, <2>1, <2>2, <2>3, SoleMoves
<1>3. CASE p # k
  <2>1. /\ \A y \in Kin, j \in 0 .. MaxObjs : ~H(t, y, p, j) /\ ~H(t, y, p, j)'
        /\ ~H(t, "already", p, 0)'
    BY <1>3 DEF Kin, Inits, After
  <2>2. handle'[p] = handle[p] /\ \A j \in Insts : setup'[p][j] = setup[p][j]
    BY <1>3
  <2> QED
    BY <1>1, <2>1, <2>2, SoleStays
<1> QED
  BY <1>2, <1>3

LEMMA SetElse ==
  ASSUME Peaceful, NEW k \in Parts, NEW i \in Insts, NEW v, setup' = Set(setup, k, i, v)
  PROVE  (\A q \in Parts \ {k} : setup'[q] = setup[q]) /\ setup'[k][i] = v
  BY PeacefulFacts DEF Set

LEMMA SolesDivisions ==
  ASSUME Peaceful, NEW t \in Threads, NEW i, Divisions(t, i), ub' = "no"
  PROVE  \A p \in Parts : Sole(p)'
<1>1. /\ i \in Insts /\ Only(t) /\ "io" \in Parts
      /\ setup' = Set(setup, "io", i, "divs") /\ UNCHANGED <<handle, fault>>
      /\ \A y, q, j : H(t, y, q, j) <=> (y = "setup" /\ q = "io" /\ j = i) \/ After("io", y, q, j)
      /\ \A y, q, j : H(t, y, q, j)' <=> (y = "table" /\ q = "io" /\ j = i) \/ After("io", y, q, j)
  BY PeacefulFacts, DivisionsDoes, StepsAre DEF flags
<1>2. \A q \in Parts \ {"io"} : setup'[q] = setup[q]
  BY <1>1, SetElse
<1>3. \A q, j : \A y \in Inits :
        H(t, y, q, j)' => (y = "table" /\ q = "io" /\ j = i) \/ After("io", y, q, j)
  BY <1>1
<1>4. H(t, "table", "io", i)'
  BY <1>1
<1> QED
  BY <1>1, <1>2, <1>3, <1>4, SolesBuild

LEMMA SolesTable ==
  ASSUME Peaceful, NEW t \in Threads, NEW i, Table(t, i)
  PROVE  \A p \in Parts : Sole(p)'
<1>1. /\ i \in Insts /\ Only(t) /\ "io" \in Parts /\ UNCHANGED handle
      /\ \A y, q, j : H(t, y, q, j) <=> (y = "table" /\ q = "io" /\ j = i) \/ After("io", y, q, j)
      /\ \/ /\ setup' = Set(setup, "io", i, "table") /\ UNCHANGED fault
            /\ \A y, q, j : H(t, y, q, j)'
                              <=> (y = "threads" /\ q = "io" /\ j = i) \/ After("io", y, q, j)
         \/ /\ UNCHANGED setup /\ fault' = TRUE
            /\ \A y, q, j : H(t, y, q, j)' <=> y = "defr" /\ q = "io" /\ j = i
  BY PeacefulFacts, TableDoes, StepsAre
<1>2. CASE /\ setup' = Set(setup, "io", i, "table") /\ UNCHANGED fault
           /\ \A y, q, j : H(t, y, q, j)'
                             <=> (y = "threads" /\ q = "io" /\ j = i) \/ After("io", y, q, j)
  <2>1. \A q \in Parts \ {"io"} : setup'[q] = setup[q]
    BY <1>1, <1>2, SetElse
  <2>2. /\ \A q, j : \A y \in Inits :
             H(t, y, q, j)' => (y = "threads" /\ q = "io" /\ j = i) \/ After("io", y, q, j)
        /\ H(t, "threads", "io", i)'
    BY <1>2
  <2>3. fault => fault'
    BY <1>2
  <2> QED
    BY <1>1, <2>1, <2>2, <2>3, SolesBuild
<1>3. CASE /\ UNCHANGED setup /\ fault' = TRUE
           /\ \A y, q, j : H(t, y, q, j)' <=> y = "defr" /\ q = "io" /\ j = i
  <2>1. /\ \A q, j : \A y \in Inits :
             H(t, y, q, j)' => (y = "defr" /\ q = "io" /\ j = i) \/ After("io", y, q, j)
        /\ \A q \in Parts \ {"io"} : setup'[q] = setup[q]
        /\ fault'
    BY <1>3
  <2> QED
    BY <1>1, <2>1, SolesBuild
<1> QED
  BY <1>1, <1>2, <1>3

LEMMA SolesIoThreads ==
  ASSUME Peaceful, NEW t \in Threads, NEW i, IoThreads(t, i)
  PROVE  \A p \in Parts : Sole(p)'
<1>1. /\ i \in Insts /\ Only(t) /\ "io" \in Parts /\ UNCHANGED handle
      /\ setup' = Set(setup, "io", i, "live") /\ (fault => fault')
      /\ \A y, q, j : H(t, y, q, j)
                        <=> (y = "threads" /\ q = "io" /\ j = i) \/ After("io", y, q, j)
      /\ \A y, q, j : H(t, y, q, j)' <=> (y = "defr" /\ q = "io" /\ j = i) \/ After("io", y, q, j)
  BY PeacefulFacts, IoThreadsDoes, StepsAre
<1>2. (\A q \in Parts \ {"io"} : setup'[q] = setup[q]) /\ setup'["io"][i] = "live"
  BY <1>1, SetElse
<1>3. \A q, j : \A y \in Inits :
        H(t, y, q, j)' => (y = "defr" /\ q = "io" /\ j = i) \/ After("io", y, q, j)
  BY <1>1
<1> QED
  BY <1>1, <1>2, <1>3, SolesBuild

LEMMA SolesPoolThread ==
  ASSUME Peaceful, NEW t \in Threads, NEW i, PoolThread(t, i), ub' = "no"
  PROVE  \A p \in Parts : Sole(p)'
<1>1. /\ i \in Insts /\ Only(t) /\ "wp" \in Parts /\ UNCHANGED handle
      /\ setup' = Set(setup, "wp", i, "live") /\ (fault => fault')
      /\ \A y, q, j : H(t, y, q, j) <=> (y = "setup" /\ q = "wp" /\ j = i) \/ After("wp", y, q, j)
      /\ \/ \A y, q, j : H(t, y, q, j)'
                           <=> (y = "defr" /\ q = "wp" /\ j = i) \/ After("wp", y, q, j)
         \/ \A y, q, j : H(t, y, q, j)'
                           <=> (y = "defr" /\ q = "wp" /\ j = i) \/ (y = "clos" /\ q = "io" /\ j = 0)
  BY PeacefulFacts, PoolThreadDoes, StepsAre
<1>2. (\A q \in Parts \ {"wp"} : setup'[q] = setup[q]) /\ setup'["wp"][i] = "live"
  BY <1>1, SetElse
<1>3. \A q, j : \A y \in Inits :
        H(t, y, q, j)' => (y = "defr" /\ q = "wp" /\ j = i) \/ After("wp", y, q, j)
  BY <1>1 DEF Inits
<1> QED
  BY <1>1, <1>2, <1>3, SolesBuild

(* A step leaves tcp_init alone, ends a destructor, or is tcp_init's own.  *)
InitStep(t) ==
  t \in Users /\ (tcp_init(t) \/ \E p, i : Initialise(t, p, i) /\ ub' = "no")

LEMMA StepKinds ==
  ASSUME Base, mixed' \in BOOLEAN, NEW t \in Threads, Step(t)
  PROVE  Quiet \/ (\E p, i : Free(t, p, i)) \/ InitStep(t)
<1> USE StepsAre
<1>1. TypeOK /\ Shapes /\ ub = "no"
  BY DEF Base, Step
<1>2. \A w : Undefined(w) => Quiet
  BY <1>1, UndefinedQuiet
<1>3. CASE Continue(t)
  <2>1. \E p, i : \/ objdefr(t, p, i) \/ objclos(t, p) \/ Destruct(t, p, i)
                  \/ t \in Users /\ Initialise(t, p, i)
                  \/ Use(t, i)
                  \/ t = Own("wp", i) /\ Exec(i)
    BY <1>3 DEF Continue
  <2> PICK p, i : \/ objdefr(t, p, i) \/ objclos(t, p) \/ Destruct(t, p, i)
                  \/ t \in Users /\ Initialise(t, p, i)
                  \/ Use(t, i)
                  \/ t = Own("wp", i) /\ Exec(i)
    BY <2>1
  <2>2. CASE objdefr(t, p, i)
    BY <1>1, <2>2, DefrQuiet
  <2>3. CASE objclos(t, p)
    BY <2>3, ClosQuiet
  <2>4. CASE Stop(t, p, i)
    BY <1>1, <1>2, <2>4, MayFail, StopQuiet
  <2>5. CASE Join(t, p, i)
    BY <1>1, <1>2, <2>5, MayFail, JoinQuiet
  <2>6. CASE Free(t, p, i)
    BY <2>6
  <2>7. CASE t \in Users /\ Initialise(t, p, i)
    <3>1. CASE Divisions(t, i)
      <4>1. ub' = "no" \/ \E w : Undefined(w)
        BY <1>1, <3>1, MayFail
      <4> QED
        BY <1>2, <2>7, <4>1 DEF InitStep
    <3>2. CASE PoolThread(t, i)
      <4>1. ub' = "no" \/ \E w : Undefined(w)
        BY <1>1, <3>2, MayFail
      <4> QED
        BY <1>2, <2>7, <4>1 DEF InitStep
    <3>3. CASE \/ Check(t, p) \/ Install(t, p) \/ Ref(t, p) \/ Return(t, p)
               \/ Table(t, i) \/ IoThreads(t, i)
      <4>1. ub' = "no"
        BY <1>1, <3>3 DEF Check, Install, Ref, Return, Table, IoThreads
      <4> QED
        BY <2>7, <4>1 DEF InitStep
    <3> QED
      BY <2>7, <3>1, <3>2, <3>3 DEF Initialise
  <2>8. CASE Use(t, i)
    <3>1. CASE Enter(t, "aref", "io", "use") \/ Enter(t, "qref", "wp", "put")
      BY <1>1, <3>1, EnterQuiet
    <3>2. CASE io_attach(t, i) \/ wp_queued(t, i)
      BY <1>1, <1>2, <3>2, MayFail, CallQuiet
    <3> QED
      BY <2>8, <3>1, <3>2 DEF Use
  <2>9. CASE t = Own("wp", i) /\ Exec(i)
    BY <1>1, <2>9, ExecQuiet
  <2> QED
    BY <2>2, <2>3, <2>4, <2>5, <2>6, <2>7, <2>8, <2>9 DEF Destruct
<1>4. CASE Poll(t)
  <2>1. ASSUME NEW i \in Insts, Take(i)
        PROVE  Quiet
    BY <1>1, <2>1, TakeQuiet
  <2>2. ASSUME NEW i \in Insts, NEW p \in Parts, Look(p, i)
        PROVE  Quiet
    BY <1>1, <1>2, <2>2, MayFail, LookQuiet
  <2> QED
    BY <1>4, <2>1, <2>2 DEF Poll
<1> QED
  BY <1>3, <1>4 DEF Step

LEMMA NextKinds ==
  ASSUME Base, [Next]_vars
  PROVE  \/ Quiet
         \/ \E t \in Threads : \E p, i : Free(t, p, i)
         \/ \E t \in Threads : InitStep(t)
<1>1. TypeOK /\ Shapes
  BY DEF Base
<1>2. CASE UNCHANGED vars
  BY <1>1, <1>2, TodoApart, QuietIs DEF vars, real, obj
<1>3. CASE \E t \in Threads : Step(t) /\ Next
  <2>1. mixed' \in BOOLEAN
    BY <1>3 DEF Next
  <2> QED
    BY <1>3, <2>1, StepKinds
<1>4. CASE Begin
  <2>1. ASSUME NEW t \in Starters, tcp_init(t)
        PROVE  t \in Threads /\ InitStep(t)
    BY <2>1, LibAssumption DEF InitStep, Threads
  <2>2. ASSUME NEW t \in Stoppers, tcp_uninit(t)
        PROVE  Quiet
    BY <1>1, <2>2, UninitQuiet, LibAssumption DEF Threads
  <2>3. ASSUME NEW i \in Insts, Handle(i)
        PROVE  Quiet
    BY <1>1, <2>3, HandleQuiet
  <2> QED
    BY <1>4, <2>1, <2>2, <2>3 DEF Begin
<1> QED
  BY <1>2, <1>3, <1>4 DEF Next

LEMMA InitStepOnly ==
  ASSUME Base, NEW t \in Threads, InitStep(t)
  PROVE  Only(t)
<1>1. TypeOK /\ Shapes
  BY DEF Base
<1>2. CASE tcp_init(t)
  BY <1>1, <1>2, InitDoes
<1>3. ASSUME NEW p, NEW i, Initialise(t, p, i), ub' = "no"
      PROVE  Only(t)
  <2>1. CASE Check(t, p)
    BY <1>1, <2>1, CheckDoes
  <2>2. CASE Install(t, p)
    BY <1>1, <2>2, InstallDoes
  <2>3. CASE Ref(t, p)
    BY <1>1, <2>3, RefDoes
  <2>4. CASE Return(t, p)
    BY <1>1, <2>4, ReturnDoes
  <2>5. CASE Divisions(t, i)
    BY <1>1, <1>3, <2>5, DivisionsDoes
  <2>6. CASE Table(t, i)
    BY <1>1, <2>6, TableDoes
  <2>7. CASE IoThreads(t, i)
    BY <1>1, <2>7, IoThreadsDoes
  <2>8. CASE PoolThread(t, i)
    BY <1>1, <1>3, <2>8, PoolThreadDoes
  <2> QED
    BY <1>3, <2>1, <2>2, <2>3, <2>4, <2>5, <2>6, <2>7, <2>8 DEF Initialise
<1> QED
  BY <1>2, <1>3 DEF InitStep

LEMMA SolesInitStep ==
  ASSUME Peaceful, NEW t \in Threads, InitStep(t)
  PROVE  \A p \in Parts : Sole(p)'
<1>1. CASE tcp_init(t)
  BY <1>1, SolesInit
<1>2. ASSUME NEW p, NEW i, Initialise(t, p, i), ub' = "no"
      PROVE  \A k \in Parts : Sole(k)'
  <2>1. CASE Check(t, p)
    BY <2>1, SolesCheck
  <2>2. CASE Install(t, p)
    BY <2>2, SolesInstall
  <2>3. CASE Ref(t, p)
    BY <2>3, SolesRef
  <2>4. CASE Return(t, p)
    BY <2>4, SolesReturn
  <2>5. CASE Divisions(t, i)
    BY <1>2, <2>5, SolesDivisions
  <2>6. CASE Table(t, i)
    BY <2>6, SolesTable
  <2>7. CASE IoThreads(t, i)
    BY <2>7, SolesIoThreads
  <2>8. CASE PoolThread(t, i)
    BY <1>2, <2>8, SolesPoolThread
  <2> QED
    BY <1>2, <2>1, <2>2, <2>3, <2>4, <2>5, <2>6, <2>7, <2>8 DEF Initialise
<1> QED
  BY <1>1, <1>2 DEF InitStep

(* The parts of the invariant that are about inits and uninits together.   *)
LEMMA MineNext ==
  ASSUME Base, Mine, [Next]_vars
  PROVE  Mine'
<1>1. CASE Quiet
  BY <1>1, ApartMine DEF Quiet
<1>2. ASSUME NEW t \in Threads, NEW p, NEW i, Free(t, p, i)
      PROVE  Mine'
  BY <1>2, FreeApart, ApartMine DEF Base
<1>3. ASSUME NEW t \in Threads, InitStep(t)
      PROVE  Mine'
  <2>1. Only(t) /\ t \in Users
    BY <1>3, InitStepOnly DEF InitStep
  <2>2. \A u \in Threads \ Users : u # t /\ \A x, p, i : H(u, x, p, i)' <=> H(u, x, p, i)
    BY <2>1, OtherThreads
  <2> QED
    BY <2>2 DEF Mine, Threads, Workers, Own
<1> QED
  BY <1>1, <1>2, <1>3, NextKinds

LEMMA OrderedNext ==
  ASSUME Ordered, [Next]_vars
  PROVE  Ordered' /\ (~mixed' => ~mixed)
<1>1. CASE Next
  BY <1>1 DEF Next, Ordered
<1>2. CASE UNCHANGED vars
  BY <1>2 DEF vars, real, Ordered, Overlap, Initialising, Stopping
<1> QED
  BY <1>1, <1>2

LEMMA AloneNext ==
  ASSUME Base, Mine, Ordered, Alone, [Next]_vars
  PROVE  Alone'
<1> SUFFICES ASSUME ~mixed' PROVE \A p \in Parts : Sole(p)'
  BY DEF Alone
<1>1. Peaceful
  BY OrderedNext DEF Ordered, Alone, Peaceful
<1>2. CASE Quiet
  BY <1>1, <1>2, SolesQuiet
<1>3. ASSUME NEW t \in Threads, NEW p, NEW i, Free(t, p, i)
      PROVE  \A k \in Parts : Sole(k)'
  BY <1>1, <1>3, SolesFree
<1>4. ASSUME NEW t \in Threads, InitStep(t)
      PROVE  \A k \in Parts : Sole(k)'
  BY <1>1, <1>4, SolesInitStep
<1> QED
  BY <1>2, <1>3, <1>4, NextKinds

-----------------------------------------------------------------------------
(***************************************************************************)
(* The ways into undefined behaviour.                                      *)
(***************************************************************************)

(* What undefined behaviour w is due to.                                   *)
Cause(w) ==
  /\ w = "unready" => fault \/ mixed \/ \E t \in Users : Initialising(t)
  /\ w = "freed" => selfjoin # {}
  /\ w = "unjoined" => fault
  /\ w = "twice" => mixed

(* The parts of the invariant that the causes need.                        *)
Known == Base /\ Mine /\ Alone

LEMMA KnownFacts ==
  ASSUME Known
  PROVE  /\ TypeOK /\ Shapes
         /\ \A p \in Parts, i \in Insts : Instance(p, i)
         /\ handle \in [Parts -> 0 .. MaxObjs]
         /\ setup \in [Parts -> [Insts -> {"none", "divs", "table", "live", "freed"}]]
  BY DEF Known, Base, Instances, TypeOK

(* The walk over the divisions without a table.                            *)
LEMMA StopCause ==
  ASSUME Known, NEW t \in Threads, NEW p, NEW i, At(t, "stop", p, i), setup[p][i] = "divs"
  PROVE  fault
<1>1. /\ p \in Parts /\ i \in 0 .. MaxObjs /\ Below("stop", p, i, Tail(todo[t]))
      /\ H(t, "stop", p, i)
  BY KnownFacts, AtFacts
<1>2. i \in Insts
  BY <1>1 DEF Below
<1>3. Instance(p, i)
  BY <1>1, <1>2, KnownFacts
<1> SUFFICES ASSUME ~fault PROVE FALSE
  OBVIOUS
<1>4. PICK u \in Threads : Builds(u, p, i)
  BY <1>3 DEF Instance, Built
<1>5. PICK x \in Holder : H(u, x, p, i)
  BY <1>4 DEF Builds, Holder
<1>6. ~H(t, "stop", p, i)
  BY <1>1, <1>2, <1>3, <1>5, HolderFacts
<1> QED
  BY <1>1, <1>6

(* The thread to join was never created.                                   *)
LEMMA JoinCause ==
  ASSUME Known, NEW t \in Threads, NEW p, NEW i, At(t, "join", p, i), thr[p][i] = "none"
  PROVE  fault
<1>1. /\ p \in Parts /\ i \in 0 .. MaxObjs /\ Below("join", p, i, Tail(todo[t]))
      /\ \A y, q, j : H(t, y, q, j) <=> (y = "join" /\ q = p /\ j = i) \/ Has(Tail(todo[t]), y, q, j)
  BY KnownFacts, AtFacts
<1>2. i \in Insts /\ \E q \in Rests : Tail(todo[t]) = Last(p, i, q)
  BY <1>1 DEF Below
<1>3. PICK q \in Rests : Tail(todo[t]) = Last(p, i, q)
  BY <1>2
<1>4. ~Has(Tail(todo[t]), "stop", p, i)
  <2>1. Pushed(Last(p, i, q), "free", p, i, q)
    BY <1>1, <1>2, DestructorFacts
  <2>2. Has(Last(p, i, q), "stop", p, i) <=> Has(q, "stop", p, i)
    BY <2>1 DEF Pushed
  <2>3. ~Has(q, "stop", p, i)
    BY RestFacts
  <2> QED
    BY <1>3, <2>2, <2>3
<1>5. AtJoin(p, i)
  BY <1>1, <1>4 DEF AtJoin
<1>6. Instance(p, i)
  BY <1>1, <1>2, KnownFacts
<1> QED
  BY <1>5, <1>6 DEF Instance, Running

(* A second set-up of the same object.                                     *)
LEMMA TwiceCause ==
  ASSUME Known, NEW t \in Threads, NEW p \in Parts, NEW i, At(t, "setup", p, i),
         setup[p][i] # "none"
  PROVE  mixed
<1>1. H(t, "setup", p, i) /\ Below("setup", p, i, Tail(todo[t]))
  BY KnownFacts, AtFacts
<1>2. i \in Insts
  BY <1>1 DEF Below
<1> QED
  BY <1>1, <1>2 DEF Known, Alone, Sole

(* A part used before it is ready.                                         *)
LEMMA UseCause ==
  ASSUME Known, NEW t \in Threads, NEW x \in {"use", "put"}, NEW p, NEW i, At(t, x, p, i),
         setup[p][i] # "live"
  PROVE  Misuse(p, i) = "unready" /\ Cause("unready")
<1>1. p \in Parts /\ i \in Insts /\ H(t, "defr", p, i)
  BY KnownFacts, CallDoes
<1>2. Instance(p, i) /\ "defr" \in Holder
  BY <1>1, KnownFacts DEF Holder
<1>3. stat[p][i] \in {"open", "closing"} /\ handle[p] = i /\ setup[p][i] # "freed"
  BY <1>1, <1>2, HolderFacts
<1>4. Misuse(p, i) = "unready"
  BY <1>3 DEF Misuse
<1>5. ASSUME ~fault, ~mixed
      PROVE  \E u \in Users : Initialising(u)
  <2>1. Sole(p) /\ handle[p] # 0
    BY <1>1, <1>3, <1>5, InstType DEF Known, Alone
  <2>2. PICK u \in Threads : Maker(u, p)
    BY <1>3, <1>5, <2>1 DEF Sole
  <2>3. PICK y \in Kin, j \in 0 .. MaxObjs : H(u, y, p, j)
    BY <1>1, <2>2, MakerIs
  <2>4. y \in Inits
    BY DEF Kin, Inits
  <2>5. Initialising(u)
    BY <1>1, <2>3, <2>4, KnownFacts, StacksType, InitialisingIs
  <2>6. u \in Users
    BY <1>1, <2>3, <2>4 DEF Known, Mine
  <2> QED
    BY <2>5, <2>6
<1> QED
  BY <1>4, <1>5 DEF Cause

(* A thread whose object is gone.                                          *)
LEMMA LookCause ==
  ASSUME Known, NEW p \in Parts, NEW i \in Insts, thr[p][i] = "up",
         setup[p][i] = "freed" \/ stat[p][i] = "dead"
  PROVE  selfjoin # {}
<1>1. Instance(p, i)
  BY KnownFacts
<1>2. stat[p][i] = "dead" /\ ~actived[p][i]
  BY <1>1 DEF Instance, Running
<1>3. ~AtJoin(p, i)
  BY <1>1, <1>2 DEF Instance, Destructed, AtJoin
<1> QED
  BY <1>1, <1>2, <1>3 DEF Instance, Running

LEMMA CausePrimed ==
  ASSUME NEW w, Cause(w), Undefined(w), mixed => mixed'
  PROVE  UndefinedForCause'
<1>1. ub' = w /\ UNCHANGED <<todo, fault, selfjoin>>
  BY DEF Undefined, flags
<1>2. \A t \in Users : Initialising(t)' <=> Initialising(t)
  BY <1>1 DEF Initialising
<1> QED
  BY <1>1, <1>2 DEF Cause, UndefinedForCause

(* A step that runs into undefined behaviour has a cause.                  *)
LEMMA StepCause ==
  ASSUME Known, mixed => mixed', NEW t \in Threads, Step(t), ub' # "no"
  PROVE  UndefinedForCause'
<1> USE StepsAre
<1>1. ub = "no"
  BY DEF Step
<1>2. CASE Continue(t)
  <2>1. \E p, i : \/ objdefr(t, p, i) \/ objclos(t, p) \/ Destruct(t, p, i)
                  \/ t \in Users /\ Initialise(t, p, i)
                  \/ Use(t, i)
                  \/ t = Own("wp", i) /\ Exec(i)
    BY <1>2 DEF Continue
  <2> PICK p, i : \/ objdefr(t, p, i) \/ objclos(t, p) \/ Destruct(t, p, i)
                  \/ t \in Users /\ Initialise(t, p, i)
                  \/ Use(t, i)
                  \/ t = Own("wp", i) /\ Exec(i)
    BY <2>1
  <2>2. \/ Stop(t, p, i) \/ Join(t, p, i) \/ Divisions(t, i) \/ PoolThread(t, i)
        \/ io_attach(t, i) \/ wp_queued(t, i)
    BY <1>1, <2>1 DEF objdefr, objclos, Destruct, Free, Initialise, Check, Install, Ref, Return,
                      Table, IoThreads, Use, Enter, Exec
  <2> HIDE DEF Undefined, At, Misuse
  <2>3. CASE Stop(t, p, i)
    <3>1. At(t, "stop", p, i) /\ setup[p][i] = "divs" /\ Undefined("unready")
      BY <1>1, <2>3 DEF Stop
    <3>2. Cause("unready")
      BY <3>1, StopCause DEF Cause
    <3> QED
      BY <3>1, <3>2, CausePrimed
  <2>4. CASE Join(t, p, i)
    <3>1. At(t, "join", p, i) /\ thr[p][i] = "none" /\ Undefined("unjoined")
      BY <1>1, <2>4 DEF Join
    <3>2. Cause("unjoined")
      BY <3>1, JoinCause DEF Cause
    <3> QED
      BY <3>1, <3>2, CausePrimed
  <2>5. CASE Divisions(t, i) \/ PoolThread(t, i)
    <3>1. \E q \in Parts : At(t, "setup", q, i) /\ setup[q][i] # "none" /\ Undefined("twice")
      BY <1>1, <2>5 DEF Divisions, PoolThread
    <3>2. Cause("twice")
      BY <3>1, TwiceCause DEF Cause
    <3> QED
      BY <3>1, <3>2, CausePrimed
  <2>6. CASE io_attach(t, i) \/ wp_queued(t, i)
    <3>1. \E x \in {"use", "put"}, q \in Parts :
            At(t, x, q, i) /\ setup[q][i] # "live" /\ Undefined(Misuse(q, i))
      BY <1>1, <2>6 DEF io_attach, wp_queued
    <3>2. Cause("unready") /\ Undefined("unready")
      BY <3>1, UseCause
    <3> QED
      BY <3>2, CausePrimed
  <2> QED
    BY <2>2, <2>3, <2>4, <2>5, <2>6
<1>3. CASE Poll(t)
  <2>1. PICK i \in Insts : Take(i) \/ \E p \in Parts : Look(p, i)
    BY <1>3 DEF Poll
  <2>2. ~Take(i)
    BY <1>1 DEF Take
  <2>3. PICK p \in Parts : Look(p, i)
    BY <2>1, <2>2
  <2>4. thr[p][i] = "up" /\ (setup[p][i] = "freed" \/ stat[p][i] = "dead") /\ Undefined("freed")
    BY <1>1, <2>3 DEF Look
  <2>5. Cause("freed")
    BY <2>4, LookCause DEF Cause
  <2> QED
    BY <2>4, <2>5, CausePrimed
<1> QED
  BY <1>2, <1>3 DEF Step

LEMMA CauseNext ==
  ASSUME Base, Mine, Alone, UndefinedForCause, [Next]_vars
  PROVE  UndefinedForCause'
<1>1. CASE ub' = "no"
  BY <1>1 DEF UndefinedForCause
<1>2. CASE UNCHANGED vars
  BY <1>2 DEF vars, real, UndefinedForCause, Initialising
<1>3. CASE ub' # "no" /\ Next
  <2>1. ~Begin
    BY <1>3 DEF Begin, tcp_init, tcp_uninit, Handle
  <2>2. PICK t \in Threads : Step(t)
    BY <1>3, <2>1 DEF Next
  <2>3. mixed => mixed'
    BY <1>3 DEF Next
  <2> QED
    BY <1>3, <2>2, <2>3, StepCause DEF Known
<1> QED
  BY <1>1, <1>2, <1>3

-----------------------------------------------------------------------------
LEMMA CausesInit == Init => Mine /\ Ordered /\ Alone /\ UndefinedForCause
<1> HAVE Init
<1>1. \A t \in Threads : \A x, p, i : ~H(t, x, p, i)
  BY NoSteps DEF Init, H
<1>2. Mine
  BY <1>1 DEF Mine
<1>3. Ordered
  <2>1. \A t \in Threads : ~Initialising(t)
    BY DEF Init, Initialising
  <2> QED
    BY <2>1 DEF Ordered, Overlap, Threads
<1>4. \A p \in Parts : handle[p] = 0
  BY DEF Init
<1>5. Alone
  BY <1>1, <1>4 DEF Alone, Sole, Maker
<1>6. UndefinedForCause
  BY DEF Init, UndefinedForCause
<1> QED
  BY <1>2, <1>3, <1>5, <1>6

(* Until an init has overlapped an uninit, one init at a time builds a     *)
(* part, and until it is done nobody else touches it (the compare and swap *)
(* of io_init and wp_init).                                                *)
THEOREM OneAtATime == Spec => [](Mine /\ Ordered /\ Alone)
<1>1. Init => Mine /\ Ordered /\ Alone
  BY CausesInit
<1>2. Base /\ Mine /\ Ordered /\ Alone /\ [Next]_vars => (Mine /\ Ordered /\ Alone)'
  BY MineNext, OrderedNext, AloneNext
<1> QED
  BY <1>1, <1>2, LibBase, PTL DEF Spec

(* The program meets undefined behaviour only in the four ways that        *)
(* UndefinedForCause names; io_attach and wp_queued never meet a freed     *)
(* object (io.c, wpool.c).                                                 *)
THEOREM UndefinedHasCause == Spec => []UndefinedForCause
<1>1. Init => UndefinedForCause
  BY CausesInit
<1>2. Base /\ (Mine /\ Ordered /\ Alone) /\ UndefinedForCause /\ [Next]_vars => UndefinedForCause'
  BY CauseNext
<1> QED
  BY <1>1, <1>2, LibBase, OneAtATime, PTL DEF Spec

-----------------------------------------------------------------------------
(***************************************************************************)
(* What tcp_init promises.                                                 *)
(***************************************************************************)

(* Nothing has overlapped and nothing has failed.                          *)
Careful == Peaceful /\ Parted /\ ~fault

(* A step of t that neither builds a part nor takes one down.              *)
LEMMA PartedMoves ==
  ASSUME Parted, NEW t \in Threads, Only(t), UNCHANGED handle,
         Mid(t)' <=> Mid(t),
         \A p \in Parts : Out(p)' <=> Out(p),
         \A p \in Parts : Ready(p) => Ready(p)',
         \A p \in Parts : Through(t, p)' => Through(t, p) \/ Ready(p)'
  PROVE  Parted'
<1>1. \A u \in Threads \ {t} : \A x, p, i : H(u, x, p, i)' <=> H(u, x, p, i)
  BY OtherThreads
<1>2. \A u \in Threads \ {t} : \A p : /\ Maker(u, p)' <=> Maker(u, p)
                                      /\ Before(u, p)' <=> Before(u, p)
  BY <1>1 DEF Maker, Before
<1>3. \A u \in Threads \ {t} : (Mid(u)' <=> Mid(u)) /\ \A p : Through(u, p)' <=> Through(u, p)
  BY <1>1, <1>2 DEF Mid, Through
<1>4. \A u \in Threads : Mid(u)' <=> Mid(u)
  BY <1>3
<1>5. \A u \in Threads, p \in Parts : Through(u, p)' => Through(u, p) \/ Ready(p)'
  BY <1>3
<1>6. \A u \in Threads : Mid(u)' => handle'["io"] # 0 /\ handle'["wp"] = 0
  BY <1>4 DEF Parted
<1>7. \A u \in Threads, p \in Parts : Through(u, p)' => Ready(p)'
  BY <1>5 DEF Parted
<1>8. \A u, v \in Threads : Mid(u)' /\ Mid(v)' => u = v
  BY <1>4 DEF Parted
<1>9. (\A u \in Threads : ~Mid(u)') => (Out("io")' <=> Out("wp")')
  BY <1>4, StepsAre DEF Parted
<1> QED
  BY <1>6, <1>7, <1>8, <1>9 DEF Parted

(* The other threads' place in tcp_init.                                   *)
LEMMA OthersGo ==
  ASSUME NEW t \in Threads, Only(t)
  PROVE  \A u \in Threads \ {t} : /\ Mid(u)' <=> Mid(u)
                                  /\ \A p : Through(u, p)' <=> Through(u, p)
<1>1. \A u \in Threads \ {t} : \A x, p, i : H(u, x, p, i)' <=> H(u, x, p, i)
  BY OtherThreads
<1>2. \A u \in Threads \ {t} : \A p : /\ Maker(u, p)' <=> Maker(u, p)
                                      /\ Before(u, p)' <=> Before(u, p)
  BY <1>1 DEF Maker, Before
<1> QED
  BY <1>1, <1>2 DEF Mid, Through

(* Where no object changes and nothing is closed, what is on its way out   *)
(* stays so.                                                               *)
LEMMA OutsSame ==
  ASSUME TypeOK, UNCHANGED <<handle, stat>>, NEW t \in Threads, Only(t),
         \A q \in Parts : H(t, "clos", q, 0)' <=> H(t, "clos", q, 0)
  PROVE  \A p \in Parts : Out(p)' <=> Out(p)
<1> SUFFICES ASSUME NEW p \in Parts PROVE Out(p)' <=> Out(p)
  OBVIOUS
<1>1. \A u \in Threads : H(u, "clos", p, 0)' <=> H(u, "clos", p, 0)
  BY OtherThreads
<1>2. /\ handle'[p] = handle[p] /\ handle[p] \in 0 .. MaxObjs
      /\ \A i \in Insts : stat'[p][i] = stat[p][i]
                            \/ (stat[p][i] = "closing" /\ stat'[p][i] = "dying")
  BY DEF TypeOK
<1> QED
  BY <1>1, <1>2, OutSame

(* The steps that leave tcp_init alone.                                    *)
LEMMA PartedQuiet ==
  ASSUME Parted, Quiet
  PROVE  Parted'
<1>1. UNCHANGED <<handle, setup>> /\ Apart /\ Closings
  BY DEF Quiet
<1>2. ASSUME NEW u \in Threads
      PROVE  /\ \A p \in Parts : (Maker(u, p)' <=> Maker(u, p)) /\ (Before(u, p)' <=> Before(u, p))
             /\ Mid(u)' <=> Mid(u)
             /\ \A p \in Parts : Through(u, p)' <=> Through(u, p)
  <2>1. \A x \in Inits, q \in Parts, j \in 0 .. MaxObjs : H(u, x, q, j)' <=> H(u, x, q, j)
    BY <1>1 DEF Apart
  <2>2. /\ \A p \in Parts : (Maker(u, p)' <=> Maker(u, p)) /\ (Before(u, p)' <=> Before(u, p))
        /\ Mid(u)' <=> Mid(u)
    BY <2>1, MakersSame
  <2>3. H(u, "zero", "wp", 0)' <=> H(u, "zero", "wp", 0)
    BY <2>1, InstType, StepsAre DEF Inits
  <2> QED
    BY <2>2, <2>3, StepsAre DEF Through
<1>3. \A p \in Parts : Ready(p)' <=> Ready(p)
  BY <1>1 DEF Ready
<1>4. (Out("io") <=> Out("wp")) => (Out("io")' <=> Out("wp")')
  BY <1>1, StepsAre DEF Closings
<1>5. \A u \in Threads : Mid(u)' => handle'["io"] # 0 /\ handle'["wp"] = 0
  BY <1>1, <1>2 DEF Parted
<1>6. \A u \in Threads, p \in Parts : Through(u, p)' => Ready(p)'
  BY <1>2, <1>3 DEF Parted
<1>7. \A u, v \in Threads : Mid(u)' /\ Mid(v)' => u = v
  BY <1>2 DEF Parted
<1>8. (\A u \in Threads : ~Mid(u)') => (Out("io")' <=> Out("wp")')
  BY <1>2, <1>4 DEF Parted
<1> QED
  BY <1>5, <1>6, <1>7, <1>8 DEF Parted

(* The end of a destructor, while no init is at work.                      *)
LEMMA PartedFree ==
  ASSUME Careful, NEW t \in Threads, NEW k, NEW i, Free(t, k, i)
  PROVE  Parted'
<1>1. TypeOK /\ Shapes /\ Mine /\ ~Overlap /\ Parted
  BY PeacefulFacts DEF Careful
<1>2. /\ k \in Parts /\ i \in Insts /\ Only(t) /\ H(t, "free", k, i)
      /\ handle' = IF handle[k] = i THEN [handle EXCEPT ![k] = 0] ELSE handle
      /\ stat' = Set(stat, k, i, "dead")
  BY <1>1, FreeDoes
<1>3. Instance(k, i) /\ handle \in [Parts -> 0 .. MaxObjs]
  BY <1>2, PeacefulFacts DEF Careful
<1>4. stat[k][i] = "dying" /\ handle[k] = i
  BY <1>2, <1>3 DEF Instance, Destructed, Named
<1>5. ~Steady("io") \/ ~Steady("wp")
  BY <1>2, <1>4 DEF Steady, Parts
<1>6. \A u \in Threads, x \in Inits, p \in Parts, j \in 0 .. MaxObjs : ~H(u, x, p, j)
  BY <1>1, <1>5, Peace
<1>7. Apart /\ Shut
  BY <1>1, FreeApart
<1>8. \A u \in Threads : /\ ~Mid(u) /\ ~Mid(u)' /\ \A p \in Parts : ~Through(u, p)'
  <2> TAKE u \in Threads
  <2>1. \A x \in Inits : ~H(u, x, "wp", 0) /\ ~H(u, x, "wp", 0)'
    BY <1>6, <1>7, InstType, StepsAre DEF Apart
  <2> QED
    BY <2>1 DEF Mid, Before, Through, Inits
<1>9. Out("io") <=> Out("wp")
  BY <1>1, <1>8 DEF Parted
<1>10. Out(k) /\ Out(k)'
  BY <1>2, <1>3, <1>4, InstType DEF Out
<1>11. ASSUME NEW p \in Parts, p # k
       PROVE  Out(p)' <=> Out(p)
  <2>1. /\ handle'[p] = handle[p] /\ handle[p] \in 0 .. MaxObjs
        /\ \A j \in Insts : stat'[p][j] = stat[p][j]
    BY <1>1, <1>2, <1>3, <1>11 DEF TypeOK, Set
  <2>2. \A u \in Threads : H(u, "clos", p, 0)' <=> H(u, "clos", p, 0)
    BY <1>7 DEF Shut
  <2> QED
    BY <2>1, <2>2, OutSame
<1>12. Out("io")' <=> Out("wp")'
  BY <1>2, <1>9, <1>10, <1>11 DEF Parts
<1> QED
  BY <1>8, <1>12, StepsAre DEF Parted

LEMMA CarefulFacts ==
  ASSUME Careful
  PROVE  /\ TypeOK /\ Shapes /\ Parted /\ Peaceful
         /\ handle \in [Parts -> 0 .. MaxObjs]
         /\ setup \in [Parts -> [Insts -> {"none", "divs", "table", "live", "freed"}]]
  BY PeacefulFacts DEF Careful

LEMMA PartedInit ==
  ASSUME Careful, NEW t \in Threads, tcp_init(t)
  PROVE  Parted'
<1>1. TypeOK /\ Shapes /\ Parted
  BY CarefulFacts
<1>2. /\ Only(t) /\ \A y, q, j : ~H(t, y, q, j)
      /\ \A y, q, j : H(t, y, q, j)'
           <=> j = 0 /\ ((y = "check" /\ q \in Parts) \/ (y = "zero" /\ q = "wp"))
  BY <1>1, InitDoes
<1>3. UNCHANGED <<handle, stat, setup>>
  BY DEF tcp_init, obj
<1>4. \A p \in Parts : Out(p)' <=> Out(p)
  BY <1>1, <1>2, <1>3, OutsSame
<1>5. ~Mid(t)' /\ ~Mid(t) /\ \A p \in Parts : ~Through(t, p)'
  BY <1>2, StepsAre DEF Mid, Before, Through
<1>6. \A p \in Parts : Ready(p) => Ready(p)'
  BY <1>3 DEF Ready
<1> QED
  BY <1>1, <1>2, <1>3, <1>4, <1>5, <1>6, PartedMoves

LEMMA PartedCheck ==
  ASSUME Careful, NEW t \in Threads, NEW k, Check(t, k)
  PROVE  Parted'
<1>1. TypeOK /\ Shapes /\ Parted
  BY CarefulFacts
<1>2. /\ k \in Parts /\ Only(t)
      /\ \A y, q, j : H(t, y, q, j) <=> (y = "check" /\ q = k /\ j = 0) \/ After(k, y, q, j)
      /\ \/ /\ handle[k] # 0
            /\ \A y, q, j : H(t, y, q, j)' <=> y = "already" /\ q = k /\ j = 0
         \/ \A y, q, j : H(t, y, q, j)' <=> (y = "install" /\ q = k /\ j = 0) \/ After(k, y, q, j)
  BY <1>1, CheckDoes
<1>3. UNCHANGED <<handle, stat, setup>>
  BY DEF Check, obj
<1>4. \A p \in Parts : Out(p)' <=> Out(p)
  <2>1. \A q \in Parts : H(t, "clos", q, 0)' <=> H(t, "clos", q, 0)
    BY <1>2 DEF After
  <2> QED
    BY <1>1, <1>2, <1>3, <2>1, OutsSame
<1>5. \A p \in Parts : Ready(p) => Ready(p)'
  BY <1>3 DEF Ready
<1>6. k = "wp" => Mid(t) /\ handle[k] = 0
  <2>1. k = "wp" => Mid(t)
    BY <1>2 DEF Mid, Before, After
  <2> QED
    BY <1>1, <2>1 DEF Parted
<1>7. (Mid(t)' <=> Mid(t)) /\ \A p \in Parts : Through(t, p)' => Through(t, p)
  <2>1. CASE k = "io"
    <3>1. ~Mid(t) /\ ~Mid(t)' /\ \A p \in Parts : ~Through(t, p)'
      BY <1>2, <2>1 DEF Mid, Before, Through, After
    <3> QED
      BY <3>1
  <2>2. CASE k = "wp"
    <3>1. \A y, q, j : H(t, y, q, j)' <=> (y = "install" /\ q = "wp" /\ j = 0) \/ After("wp", y, q, j)
      BY <1>2, <1>6, <2>2
    <3>2. Mid(t) /\ Mid(t)' /\ ~Through(t, "wp")'
      BY <1>6, <2>2, <3>1 DEF Mid, Before, Through, After
    <3>3. Through(t, "io")
      BY <1>2, <2>2 DEF Through, Before, Maker, After
    <3> QED
      BY <3>2, <3>3 DEF Parts
  <2> QED
    BY <1>2, <2>1, <2>2 DEF Parts
<1> QED
  BY <1>1, <1>2, <1>3, <1>4, <1>5, <1>7, PartedMoves

LEMMA PartedReturn ==
  ASSUME Careful, NEW t \in Threads, NEW k, Return(t, k)
  PROVE  Parted'
<1>1. TypeOK /\ Shapes /\ Parted
  BY CarefulFacts
<1>2. /\ Only(t)
      /\ \/ \A y, q, j : H(t, y, q, j) <=> y = "zero" /\ q = k /\ j = 0
         \/ \A y, q, j : H(t, y, q, j) <=> y = "already" /\ q = k /\ j = 0
      /\ \A y, q, j : H(t, y, q, j)' => y = "aref" /\ q = "io" /\ j = 0
  BY <1>1, ReturnDoes
<1>3. UNCHANGED <<handle, stat, setup>>
  BY DEF Return, obj
<1>4. \A p \in Parts : Out(p)' <=> Out(p)
  <2>1. \A q \in Parts : H(t, "clos", q, 0)' <=> H(t, "clos", q, 0)
    BY <1>2
  <2> QED
    BY <1>1, <1>2, <1>3, <2>1, OutsSame
<1>5. \A p \in Parts : Ready(p) => Ready(p)'
  BY <1>3 DEF Ready
<1>6. ~Mid(t)' /\ ~Mid(t) /\ \A p \in Parts : ~Through(t, p)'
  BY <1>2 DEF Mid, Before, Through
<1> QED
  BY <1>1, <1>2, <1>3, <1>4, <1>5, <1>6, PartedMoves

(* Thread t is at step x of the set-up of part k, with the rest of tcp_init*)
(* to do.                                                                  *)
Building(t, x, k, i) ==
  \A y, q, j : H(t, y, q, j) <=> (y = x /\ q = k /\ j = i) \/ After(k, y, q, j)

(* A step of the set-up of a part, or the reference before it.             *)
LEMMA PartedBuild ==
  ASSUME Careful, NEW t \in Threads, NEW k \in Parts, NEW i \in Insts, Only(t),
         NEW x \in {"ref", "setup", "table", "threads"}, NEW a,
         NEW z \in {"setup", "table", "threads", "defr"},
         UNCHANGED <<handle, stat>>,
         \A q \in Parts : Ready(q) => Ready(q)',
         Building(t, x, k, a), Building(t, z, k, i)',
         z = "defr" => Ready(k)'
  PROVE  Parted'
<1>1. TypeOK /\ Parted
  BY CarefulFacts
<1>2. \A p \in Parts : Out(p)' <=> Out(p)
  <2>1. \A q \in Parts : H(t, "clos", q, 0)' <=> H(t, "clos", q, 0)
    BY DEF Building, After
  <2> QED
    BY <1>1, <2>1, OutsSame
<1>3. Mid(t)' <=> Mid(t)
  BY DEF Building, Mid, Before, After
<1>4. z # "defr" => Maker(t, k)'
  BY DEF Building, Maker
<1>5. k = "io" => ~Through(t, "wp")'
  BY DEF Building, Through, Before, After
<1>6. k = "wp" => Through(t, "io")
  BY DEF Building, Through, Before, Maker, After
<1>7. \A p \in Parts : Through(t, p)' => Through(t, p) \/ Ready(p)'
  <2>1. Through(t, k)' => Ready(k)'
    BY <1>4 DEF Through
  <2> QED
    BY <1>5, <1>6, <2>1 DEF Parts
<1> QED
  BY <1>1, <1>2, <1>3, <1>7, PartedMoves

LEMMA PartedRef ==
  ASSUME Careful, NEW t \in Threads, NEW k, Ref(t, k)
  PROVE  Parted'
<1> PICK i : i = handle[k]
  OBVIOUS
<1>1. TypeOK /\ Shapes /\ Peaceful /\ handle \in [Parts -> 0 .. MaxObjs]
  BY CarefulFacts
<1>2. /\ k \in Parts /\ Only(t)
      /\ \A y, q, j : H(t, y, q, j) <=> (y = "ref" /\ q = k /\ j = 0) \/ After(k, y, q, j)
      /\ \/ /\ i # 0
            /\ \A y, q, j : H(t, y, q, j)' <=> (y = "setup" /\ q = k /\ j = i) \/ After(k, y, q, j)
         \/ i # 0 => stat[k][i] # "open"
  BY <1>1, RefDoes
<1>3. UNCHANGED <<handle, stat, setup>>
  BY DEF Ref
<1>4. /\ i \in Insts
      /\ \A y, q, j : H(t, y, q, j)' <=> (y = "setup" /\ q = k /\ j = i) \/ After(k, y, q, j)
  <2>1. H(t, "ref", k, 0)
    BY <1>2
  <2>2. i \in Insts /\ stat[k][i] = "open"
    BY <1>1, <1>2, <2>1, RefFinds
  <2> QED
    BY <1>2, <2>2, InstType
<1>5. \A p \in Parts : Ready(p) => Ready(p)'
  BY <1>3 DEF Ready
<1>6. Building(t, "ref", k, 0) /\ Building(t, "setup", k, i)'
  BY <1>2, <1>4 DEF Building
<1> QED
  BY <1>2, <1>3, <1>4, <1>5, <1>6, PartedBuild

LEMMA ReadyKept ==
  ASSUME Careful, NEW k \in Parts, NEW i \in Insts, NEW v, setup' = Set(setup, k, i, v),
         UNCHANGED handle, setup[k][i] = "live" => v = "live"
  PROVE  \A q \in Parts : Ready(q) => Ready(q)'
<1> SUFFICES ASSUME NEW q \in Parts, Ready(q) PROVE Ready(q)'
  OBVIOUS
<1>1. handle[q] \in Insts /\ handle'[q] = handle[q] /\ setup[q][handle[q]] = "live"
  BY CarefulFacts DEF Ready, Insts
<1>2. setup'[q][handle[q]] = "live"
  BY <1>1, CarefulFacts DEF Set
<1> QED
  BY <1>1, <1>2, InstType DEF Ready

LEMMA PartedDivisions ==
  ASSUME Careful, NEW t \in Threads, NEW i, Divisions(t, i), ub' = "no"
  PROVE  Parted'
<1>1. /\ i \in Insts /\ Only(t) /\ "io" \in Parts
      /\ setup["io"][i] = "none" /\ setup' = Set(setup, "io", i, "divs")
      /\ UNCHANGED <<handle, stat>>
      /\ \A y, q, j : H(t, y, q, j) <=> (y = "setup" /\ q = "io" /\ j = i) \/ After("io", y, q, j)
      /\ \A y, q, j : H(t, y, q, j)' <=> (y = "table" /\ q = "io" /\ j = i) \/ After("io", y, q, j)
  BY CarefulFacts, DivisionsDoes, StepsAre DEF obj
<1>2. \A q \in Parts : Ready(q) => Ready(q)'
  BY <1>1, ReadyKept
<1>3. Building(t, "setup", "io", i) /\ Building(t, "table", "io", i)'
  BY <1>1 DEF Building
<1> QED
  BY <1>1, <1>2, <1>3, PartedBuild

LEMMA PartedTable ==
  ASSUME Careful, NEW t \in Threads, NEW i, Table(t, i), ~fault'
  PROVE  Parted'
<1>1. /\ i \in Insts /\ Only(t) /\ "io" \in Parts /\ UNCHANGED <<handle, stat>>
      /\ \A y, q, j : H(t, y, q, j) <=> (y = "table" /\ q = "io" /\ j = i) \/ After("io", y, q, j)
      /\ setup' = Set(setup, "io", i, "table")
      /\ \A y, q, j : H(t, y, q, j)' <=> (y = "threads" /\ q = "io" /\ j = i) \/ After("io", y, q, j)
  BY CarefulFacts, TableDoes, StepsAre DEF obj
<1>2. setup["io"][i] = "divs"
  <2>1. Instance("io", i) /\ H(t, "table", "io", i)
    BY <1>1, CarefulFacts, PeacefulFacts
  <2> QED
    BY <2>1 DEF Instance, Built
<1>3. \A q \in Parts : Ready(q) => Ready(q)'
  BY <1>1, <1>2, ReadyKept
<1>4. Building(t, "table", "io", i) /\ Building(t, "threads", "io", i)'
  BY <1>1 DEF Building
<1> QED
  BY <1>1, <1>3, <1>4, PartedBuild

(* The builder's part is ready once the set-up is live.                    *)
LEMMA BuildsReady ==
  ASSUME Careful, NEW t \in Threads, NEW k \in Parts, NEW i \in Insts,
         NEW x \in {"setup", "table", "threads"}, H(t, x, k, i), UNCHANGED handle,
         setup' = Set(setup, k, i, "live")
  PROVE  Ready(k)'
<1>1. handle[k] = i
  BY CarefulFacts, BuildingFacts
<1>2. setup'[k][i] = "live"
  BY CarefulFacts, SetElse
<1> QED
  BY <1>1, <1>2, InstType DEF Ready

LEMMA PartedIoThreads ==
  ASSUME Careful, NEW t \in Threads, NEW i, IoThreads(t, i)
  PROVE  Parted'
<1>1. /\ i \in Insts /\ Only(t) /\ "io" \in Parts /\ UNCHANGED <<handle, stat>>
      /\ setup' = Set(setup, "io", i, "live")
      /\ \A y, q, j : H(t, y, q, j)
                        <=> (y = "threads" /\ q = "io" /\ j = i) \/ After("io", y, q, j)
      /\ \A y, q, j : H(t, y, q, j)' <=> (y = "defr" /\ q = "io" /\ j = i) \/ After("io", y, q, j)
  BY CarefulFacts, IoThreadsDoes, StepsAre DEF obj
<1>2. \A q \in Parts : Ready(q) => Ready(q)'
  BY <1>1, ReadyKept
<1>3. Ready("io")'
  <2>1. H(t, "threads", "io", i)
    BY <1>1
  <2> QED
    BY <1>1, <2>1, BuildsReady
<1>4. Building(t, "threads", "io", i) /\ Building(t, "defr", "io", i)'
  BY <1>1 DEF Building
<1> QED
  BY <1>1, <1>2, <1>3, <1>4, PartedBuild

LEMMA PartedPoolThread ==
  ASSUME Careful, NEW t \in Threads, NEW i, PoolThread(t, i), ub' = "no", ~fault'
  PROVE  Parted'
<1>1. /\ i \in Insts /\ Only(t) /\ "wp" \in Parts /\ UNCHANGED <<handle, stat>>
      /\ setup' = Set(setup, "wp", i, "live")
      /\ \A y, q, j : H(t, y, q, j) <=> (y = "setup" /\ q = "wp" /\ j = i) \/ After("wp", y, q, j)
      /\ \A y, q, j : H(t, y, q, j)' <=> (y = "defr" /\ q = "wp" /\ j = i) \/ After("wp", y, q, j)
  BY CarefulFacts, PoolThreadDoes, StepsAre DEF obj
<1>2. \A q \in Parts : Ready(q) => Ready(q)'
  BY <1>1, ReadyKept
<1>3. Ready("wp")'
  <2>1. H(t, "setup", "wp", i)
    BY <1>1
  <2> QED
    BY <1>1, <2>1, BuildsReady
<1>4. Building(t, "setup", "wp", i) /\ Building(t, "defr", "wp", i)'
  BY <1>1 DEF Building
<1> QED
  BY <1>1, <1>2, <1>3, <1>4, PartedBuild

(* A handle put in place while nobody builds the parts.                    *)
LEMMA PartedFirst ==
  ASSUME Careful, NEW t \in Threads, Only(t), NEW i \in Insts,
         handle["io"] = 0, handle' = [handle EXCEPT !["io"] = i],
         Building(t, "install", "io", 0), Building(t, "ref", "io", 0)'
  PROVE  Parted'
<1>1. TypeOK /\ Mine /\ ~Overlap /\ Parted /\ handle \in [Parts -> 0 .. MaxObjs]
  BY CarefulFacts, PeacefulFacts
<1>2. \A u \in Threads : ~Mid(u)
  BY <1>1 DEF Parted
<1>3. handle["wp"] = 0
  <2>1. H(t, "install", "io", 0)
    BY DEF Building
  <2>2. Steady("wp")
    BY <1>1, <2>1, Peace, InstType, StepsAre DEF Inits
  <2>3. Out("io") /\ (Out("io") <=> Out("wp"))
    BY <1>1, <1>2 DEF Parted, Out
  <2>4. handle["wp"] # 0 => handle["wp"] \in Insts
    BY <1>1, StepsAre DEF Insts
  <2> QED
    BY <2>2, <2>3, <2>4 DEF Out, Steady
<1>4. \A u \in Threads, p \in Parts : ~Through(u, p)
  BY <1>1, <1>3 DEF Parted, Ready, Parts
<1>5. handle'["io"] # 0 /\ handle'["wp"] = 0
  BY <1>1, <1>3, InstType, StepsAre
<1>6. Mid(t)' /\ \A p \in Parts : ~Through(t, p)'
  <2>1. Mid(t)' /\ Maker(t, "io")'
    BY DEF Building, Mid, Before, Maker, After
  <2> QED
    BY <2>1 DEF Through
<1>7. \A u \in Threads : u # t => ~Mid(u)' /\ \A p \in Parts : ~Through(u, p)'
  BY <1>2, <1>4, OthersGo
<1>8. \A u \in Threads : Mid(u)' => handle'["io"] # 0 /\ handle'["wp"] = 0
  BY <1>5
<1>9. \A u \in Threads, p \in Parts : Through(u, p)' => Ready(p)'
  BY <1>6, <1>7
<1>10. \A u, v \in Threads : Mid(u)' /\ Mid(v)' => u = v
  BY <1>7
<1>11. (\A u \in Threads : ~Mid(u)') => (Out("io")' <=> Out("wp")')
  BY <1>6
<1> QED
  BY <1>8, <1>9, <1>10, <1>11 DEF Parted

(* The handle of the pool, put in place by the one who has built the other *)
(* part.                                                                   *)
LEMMA PartedSecond ==
  ASSUME Careful, Base', Mine', ~Overlap', NEW t \in Threads, Only(t), NEW i \in Insts,
         handle["wp"] = 0, handle' = [handle EXCEPT !["wp"] = i], UNCHANGED setup,
         Building(t, "install", "wp", 0), Building(t, "ref", "wp", 0)'
  PROVE  Parted'
<1>1. TypeOK /\ Parted /\ handle \in [Parts -> 0 .. MaxObjs] /\ TypeOK'
  BY CarefulFacts DEF Base
<1>2. Mid(t) /\ Through(t, "io")
  BY DEF Building, Mid, Before, Through, Maker, After
<1>3. handle["io"] # 0 /\ \A u \in Threads : u # t => ~Mid(u)
  BY <1>1, <1>2 DEF Parted
<1>4. ~Mid(t)' /\ ~Through(t, "wp")'
  <2>1. ~Mid(t)' /\ Maker(t, "wp")'
    BY DEF Building, Mid, Before, Maker, After
  <2> QED
    BY <2>1 DEF Through
<1>5. \A u \in Threads : ~Mid(u)'
  BY <1>3, <1>4, OthersGo
<1>6. ~Ready("wp") /\ (Ready("io") => Ready("io")')
  BY <1>1, StepsAre DEF Ready
<1>7. Ready("io")
  BY <1>1, <1>2, StepsAre DEF Parted
<1>8. \A u \in Threads, p \in Parts : Through(u, p)' => Ready(p)'
  <2> SUFFICES ASSUME NEW u \in Threads, Through(u, "wp")'
               PROVE  FALSE
    BY <1>6, <1>7 DEF Parts
  <2>1. u # t
    BY <1>4
  <2>2. Through(u, "wp")
    BY <2>1, OthersGo
  <2> QED
    BY <1>1, <1>6, <2>2, StepsAre DEF Parted
<1>9. handle'["io"] # 0 /\ handle'["wp"] # 0
  BY <1>1, <1>3, InstType, StepsAre
<1>10. Steady("io")' /\ Steady("wp")'
  <2>1. H(t, "ref", "wp", 0)'
    BY DEF Building
  <2> QED
    BY <1>1, <2>1, PeaceNext, InstType, StepsAre DEF Inits
<1>11. ~Out("io")' /\ ~Out("wp")'
  <2>1. handle'["io"] \in Insts /\ handle'["wp"] \in Insts
    BY <1>1, <1>9, StepsAre DEF TypeOK, Insts
  <2> QED
    BY <1>9, <1>10, <2>1 DEF Out, Steady
<1>12. \A u \in Threads : Mid(u)' => handle'["io"] # 0 /\ handle'["wp"] = 0
  BY <1>5
<1>13. \A u, v \in Threads : Mid(u)' /\ Mid(v)' => u = v
  BY <1>5
<1>14. (\A u \in Threads : ~Mid(u)') => (Out("io")' <=> Out("wp")')
  BY <1>11
<1> QED
  BY <1>8, <1>12, <1>13, <1>14 DEF Parted

(* The pool that could not be allocated: the other part is closed.         *)
LEMMA PartedRollback ==
  ASSUME Careful, NEW t \in Threads, Only(t), UNCHANGED <<handle, setup>>,
         Building(t, "install", "wp", 0),
         \A y, q, j : H(t, y, q, j)' <=> y = "clos" /\ q = "io" /\ j = 0
  PROVE  Parted'
<1>1. Parted
  BY CarefulFacts
<1>2. Mid(t)
  BY DEF Building, Mid, Before, After
<1>3. handle["wp"] = 0 /\ \A u \in Threads : u # t => ~Mid(u)
  BY <1>1, <1>2 DEF Parted
<1>4. ~Mid(t)' /\ \A p \in Parts : ~Through(t, p)'
  BY DEF Mid, Before, Through
<1>5. \A u \in Threads : ~Mid(u)'
  BY <1>3, <1>4, OthersGo
<1>6. \A u \in Threads, p \in Parts : Through(u, p)' => Ready(p)'
  <2>1. \A u \in Threads, p \in Parts : Through(u, p)' => Through(u, p)
    BY <1>4, OthersGo
  <2> QED
    BY <1>1, <2>1 DEF Parted, Ready
<1>7. Out("io")' /\ Out("wp")'
  <2>1. H(t, "clos", "io", 0)' /\ handle'["wp"] = 0
    BY <1>3
  <2> QED
    BY <2>1 DEF Out
<1>8. \A u \in Threads : Mid(u)' => handle'["io"] # 0 /\ handle'["wp"] = 0
  BY <1>5
<1>9. \A u, v \in Threads : Mid(u)' /\ Mid(v)' => u = v
  BY <1>5
<1>10. (\A u \in Threads : ~Mid(u)') => (Out("io")' <=> Out("wp")')
  BY <1>7
<1> QED
  BY <1>6, <1>8, <1>9, <1>10 DEF Parted

(* The thread leaves tcp_init before it has put a handle in place: another *)
(* was quicker, or there is no memory.                                     *)
LEMMA PartedLeaves ==
  ASSUME Careful, NEW t \in Threads, Only(t), UNCHANGED <<handle, setup>>,
         Building(t, "install", "io", 0),
         \A y, q, j : H(t, y, q, j)' => y = "already",
         \A i \in Insts : \A p \in Parts : stat'[p][i] = stat[p][i] \/ handle[p] # i
  PROVE  Parted'
<1>1. Parted /\ TypeOK /\ handle \in [Parts -> 0 .. MaxObjs]
  BY CarefulFacts
<1>2. ~Mid(t) /\ ~Mid(t)' /\ \A p \in Parts : ~Through(t, p)'
  BY DEF Building, Mid, Before, Through, After
<1>3. \A p \in Parts : Ready(p) => Ready(p)'
  BY DEF Ready
<1>4. \A p \in Parts : Out(p)' <=> Out(p)
  <2> SUFFICES ASSUME NEW p \in Parts PROVE Out(p)' <=> Out(p)
    OBVIOUS
  <2>1. ~H(t, "clos", p, 0) /\ ~H(t, "clos", p, 0)'
    BY DEF Building, After
  <2>2. \A u \in Threads : H(u, "clos", p, 0)' <=> H(u, "clos", p, 0)
    BY <2>1, OtherThreads
  <2>3. handle[p] # 0 => stat'[p][handle[p]] = stat[p][handle[p]]
    BY <1>1 DEF Insts
  <2> QED
    BY <2>2, <2>3 DEF Out
<1> QED
  BY <1>1, <1>2, <1>3, <1>4, PartedMoves

LEMMA PartedInstall ==
  ASSUME Careful, Base', Mine', ~Overlap', NEW t \in Threads, NEW k, Install(t, k)
  PROVE  Parted'
<1> DEFINE i == made[k] + 1
<1>1. TypeOK /\ Shapes /\ Peaceful /\ Parted /\ handle \in [Parts -> 0 .. MaxObjs]
  BY CarefulFacts
<1>2. /\ k \in Parts /\ Only(t)
      /\ \A y, q, j : H(t, y, q, j) <=> (y = "install" /\ q = k /\ j = 0) \/ After(k, y, q, j)
      /\ \/ /\ i \in Insts /\ handle[k] = 0 /\ handle' = [handle EXCEPT ![k] = i]
            /\ \A y, q, j : H(t, y, q, j)' <=> (y = "ref" /\ q = k /\ j = 0) \/ After(k, y, q, j)
         \/ /\ i \in Insts /\ handle[k] # 0 /\ handle' = handle /\ stat' = Set(stat, k, i, "dead")
            /\ \A y, q, j : H(t, y, q, j)' <=> y = "already" /\ q = k /\ j = 0
         \/ /\ UNCHANGED <<handle, stat>>
            /\ \A y, q, j : H(t, y, q, j)' <=> y = "clos" /\ q = "io" /\ j = 0 /\ k = "wp"
  BY <1>1, InstallDoes
<1>3. UNCHANGED setup /\ Building(t, "install", k, 0)
  BY <1>2 DEF Install, Building
<1>4. CASE /\ i \in Insts /\ handle[k] = 0 /\ handle' = [handle EXCEPT ![k] = i]
           /\ \A y, q, j : H(t, y, q, j)' <=> (y = "ref" /\ q = k /\ j = 0) \/ After(k, y, q, j)
  <2>1. Building(t, "ref", k, 0)'
    BY <1>4 DEF Building
  <2>2. CASE k = "io"
    BY <1>2, <1>3, <1>4, <2>1, <2>2, PartedFirst
  <2>3. CASE k = "wp"
    BY <1>2, <1>3, <1>4, <2>1, <2>3, PartedSecond
  <2> QED
    BY <1>2, <2>2, <2>3 DEF Parts
<1>5. CASE /\ i \in Insts /\ handle[k] # 0 /\ handle' = handle /\ stat' = Set(stat, k, i, "dead")
           /\ \A y, q, j : H(t, y, q, j)' <=> y = "already" /\ q = k /\ j = 0
  <2>1. k = "wp" => Mid(t)
    BY <1>3 DEF Building, Mid, Before, After
  <2>2. k = "io"
    BY <1>1, <1>2, <1>5, <2>1 DEF Parted, Parts
  <2>3. handle[k] # i
    <3>1. Instance(k, i) /\ made[k] \in Nat
      BY <1>1, <1>2, <1>5, PeacefulFacts DEF TypeOK
    <3> QED
      BY <1>5, <3>1 DEF Instance, Named
  <2>4. \A j \in Insts : \A p \in Parts : stat'[p][j] = stat[p][j] \/ handle[p] # j
    BY <1>1, <1>2, <1>5, <2>3 DEF Set, TypeOK
  <2>5. \A y, q, j : H(t, y, q, j)' => y = "already"
    BY <1>5
  <2> QED
    BY <1>2, <1>3, <1>5, <2>2, <2>4, <2>5, PartedLeaves
<1>6. CASE /\ UNCHANGED <<handle, stat>>
           /\ \A y, q, j : H(t, y, q, j)' <=> y = "clos" /\ q = "io" /\ j = 0 /\ k = "wp"
  <2>1. CASE k = "io"
    <3>1. \A y, q, j : H(t, y, q, j)' => y = "already"
      BY <1>6, <2>1
    <3>2. \A j \in Insts : \A p \in Parts : stat'[p][j] = stat[p][j] \/ handle[p] # j
      BY <1>6
    <3> QED
      BY <1>2, <1>3, <1>6, <2>1, <3>1, <3>2, PartedLeaves
  <2>2. CASE k = "wp"
    <3>1. \A y, q, j : H(t, y, q, j)' <=> y = "clos" /\ q = "io" /\ j = 0
      BY <1>6, <2>2
    <3> QED
      BY <1>2, <1>3, <1>6, <2>2, <3>1, PartedRollback
  <2> QED
    BY <1>2, <2>1, <2>2 DEF Parts
<1> QED
  BY <1>2, <1>4, <1>5, <1>6

LEMMA PartedInitStep ==
  ASSUME Careful, Base', Mine', ~Overlap', ~fault', NEW t \in Threads, InitStep(t)
  PROVE  Parted'
<1>1. CASE tcp_init(t)
  BY <1>1, PartedInit
<1>2. ASSUME NEW p, NEW i, Initialise(t, p, i), ub' = "no"
      PROVE  Parted'
  <2>1. CASE Check(t, p)
    BY <2>1, PartedCheck
  <2>2. CASE Install(t, p)
    BY <2>2, PartedInstall
  <2>3. CASE Ref(t, p)
    BY <2>3, PartedRef
  <2>4. CASE Return(t, p)
    BY <2>4, PartedReturn
  <2>5. CASE Divisions(t, i)
    BY <1>2, <2>5, PartedDivisions
  <2>6. CASE Table(t, i)
    BY <2>6, PartedTable
  <2>7. CASE IoThreads(t, i)
    BY <2>7, PartedIoThreads
  <2>8. CASE PoolThread(t, i)
    BY <1>2, <2>8, PartedPoolThread
  <2> QED
    BY <1>2, <2>1, <2>2, <2>3, <2>4, <2>5, <2>6, <2>7, <2>8 DEF Initialise
<1> QED
  BY <1>1, <1>2 DEF InitStep

(* A failure is not forgotten.                                             *)
LEMMA FaultStays ==
  ASSUME Base, [Next]_vars, fault
  PROVE  fault'
<1>1. CASE Quiet
  BY <1>1 DEF Quiet
<1>2. ASSUME NEW t \in Threads, NEW p, NEW i, Free(t, p, i)
      PROVE  fault'
  BY <1>2 DEF Free, flags
<1>3. ASSUME NEW t \in Threads, InitStep(t)
      PROVE  fault'
  <2>1. CASE tcp_init(t)
    BY <2>1 DEF tcp_init, flags
  <2>2. ASSUME NEW p, NEW i, Initialise(t, p, i)
        PROVE  fault'
    <3>1. CASE Check(t, p) \/ Install(t, p) \/ Ref(t, p) \/ Return(t, p)
      BY <3>1 DEF Check, Install, Ref, Return, flags
    <3>2. CASE Divisions(t, i)
      BY <3>2 DEF Divisions, Undefined, flags
    <3>3. CASE Table(t, i)
      BY <3>3 DEF Table
    <3>4. CASE IoThreads(t, i)
      BY <3>4 DEF IoThreads
    <3>5. CASE PoolThread(t, i)
      BY <3>5 DEF PoolThread, Undefined, flags
    <3> QED
      BY <2>2, <3>1, <3>2, <3>3, <3>4, <3>5 DEF Initialise
  <2> QED
    BY <1>3, <2>1, <2>2 DEF InitStep
<1> QED
  BY <1>1, <1>2, <1>3, NextKinds

LEMMA PromisedNext ==
  ASSUME Base, Mine, Ordered, Alone, Promised, [Next]_vars
  PROVE  Promised'
<1> SUFFICES ASSUME ~mixed', ~fault' PROVE Parted'
  BY DEF Promised
<1>1. Base' /\ Mine' /\ ~Overlap'
  BY BaseNext, MineNext, OrderedNext DEF Ordered
<1>2. Careful
  BY OrderedNext, FaultStays DEF Ordered, Alone, Promised, Peaceful, Careful
<1>3. CASE Quiet
  BY <1>2, <1>3, PartedQuiet DEF Careful
<1>4. ASSUME NEW t \in Threads, NEW p, NEW i, Free(t, p, i)
      PROVE  Parted'
  BY <1>2, <1>4, PartedFree
<1>5. ASSUME NEW t \in Threads, InitStep(t)
      PROVE  Parted'
  BY <1>1, <1>2, <1>5, PartedInitStep
<1> QED
  BY <1>3, <1>4, <1>5, NextKinds

(* Where no init has overlapped an uninit and nothing has failed.          *)
LEMMA CarefulIs ==
  ASSUME Base, Mine, Ordered, Alone, Promised, ~mixed, ~fault
  PROVE  Careful
  BY DEF Ordered, Alone, Promised, Peaceful, Careful

(* A part that is ready and not going down is at work.                     *)
LEMMA ReadyIsUp ==
  ASSUME Careful, NEW p \in Parts, Ready(p), Steady(p)
  PROVE  Up(p)
<1> PICK i : i = handle[p]
  OBVIOUS
<1>1. i # 0 /\ i \in Insts /\ setup[p][i] = "live"
  BY CarefulFacts DEF Ready, Insts
<1>2. Instance(p, i)
  BY <1>1, CarefulFacts, PeacefulFacts
<1>3. stat[p][i] = "open"
  BY <1>1, <1>2 DEF Instance, Named, Steady
<1>4. actived[p][i] /\ thr[p][i] = "up"
  BY <1>1, <1>2, <1>3 DEF Instance, Running, Careful
<1> QED
  BY <1>1, <1>3, <1>4 DEF Up

(* A thread about to return has nothing else to do.                        *)
LEMMA ReturnsIs ==
  ASSUME TypeOK, Shapes, NEW t \in Threads, NEW x \in {"zero", "already"}, NEW p, At(t, x, p, 0)
  PROVE  p \in Parts /\ \A y, q, j : H(t, y, q, j) <=> y = x /\ q = p /\ j = 0
<1>1. PICK r : /\ p \in Parts /\ Below(x, p, 0, r)
               /\ \A y, q, j : H(t, y, q, j) <=> (y = x /\ q = p /\ j = 0) \/ Has(r, y, q, j)
  BY AtFacts
<1>2. r = << >>
  BY <1>1 DEF Below
<1>3. \A y, q, j : ~Has(r, y, q, j)
  BY <1>2, NoSteps
<1> QED
  BY <1>1, <1>3

LEMMA UpAfter ==
  ASSUME Careful, NEW t \in Users, At(t, "zero", "wp", 0)
  PROVE  \A p \in Parts : Up(p)
<1>1. TypeOK /\ Shapes /\ Mine /\ ~Overlap /\ Parted /\ t \in Threads
  BY CarefulFacts, PeacefulFacts DEF Threads
<1>2. \A y, q, j : H(t, y, q, j) <=> y = "zero" /\ q = "wp" /\ j = 0
  BY <1>1, ReturnsIs
<1>3. \A p \in Parts : Through(t, p)
  BY <1>2 DEF Through, Before, Maker
<1>4. Steady("io") /\ Steady("wp")
  BY <1>1, <1>2, Peace, InstType, StepsAre DEF Inits
<1> QED
  BY <1>1, <1>3, <1>4, ReadyIsUp DEF Parted, Parts

(* Two inits at work are more than one.                                    *)
LEMMA MoreThanOne ==
  ASSUME NEW t \in Users, NEW u \in Users, t # u, Initialising(t), Initialising(u)
  PROVE  Cardinality({v \in Users : Initialising(v)}) > 1
<1> DEFINE S == {v \in Users : Initialising(v)}
<1>1. IsFiniteSet(S)
  BY FS_Subset, LibAssumption
<1>2. IsFiniteSet({t}) /\ Cardinality({t}) = 1
  BY FS_Singleton
<1>3. Cardinality({t} \cup {u}) = 2
  BY <1>2, FS_AddElement
<1>4. Cardinality({t} \cup {u}) <= Cardinality(S)
  <2>1. {t} \cup {u} \in SUBSET S
    OBVIOUS
  <2> HIDE DEF S
  <2> QED
    BY <1>1, <2>1, FS_Subset
<1>5. Cardinality(S) \in Nat
  BY <1>1, FS_CardinalityType
<1> QED
  BY <1>3, <1>4, <1>5

LEMMA AlreadyUp ==
  ASSUME Careful, NEW t \in Users, NEW k, At(t, "already", k, 0)
  PROVE  \/ \A p \in Parts : Up(p)
         \/ Cardinality({v \in Users : Initialising(v)}) > 1
<1>1. /\ TypeOK /\ Shapes /\ Mine /\ ~Overlap /\ Parted /\ ~fault /\ t \in Threads
      /\ handle \in [Parts -> 0 .. MaxObjs]
  BY CarefulFacts, PeacefulFacts DEF Threads, Careful
<1>2. k \in Parts /\ \A y, q, j : H(t, y, q, j) <=> y = "already" /\ q = k /\ j = 0
  BY <1>1, ReturnsIs
<1>3. Steady("io") /\ Steady("wp")
  BY <1>1, <1>2, Peace, InstType DEF Inits
<1>4. Initialising(t)
  BY <1>1, <1>2, StacksType, InitialisingIs, InstType DEF Inits
<1> SUFFICES ASSUME \A u \in Users : Initialising(u) => u = t
             PROVE  \A p \in Parts : Up(p)
  BY <1>4, MoreThanOne
<1>5. \A u \in Threads : \A x \in Inits, p \in Parts, j \in 0 .. MaxObjs : H(u, x, p, j) => u = t
  <2> SUFFICES ASSUME NEW u \in Threads, NEW x \in Inits, NEW p \in Parts, NEW j \in 0 .. MaxObjs,
                      H(u, x, p, j)
               PROVE  u = t
    OBVIOUS
  <2>1. Initialising(u)
    BY <1>1, StacksType, InitialisingIs
  <2>2. u \in Users
    BY <1>1 DEF Mine
  <2> QED
    BY <2>1, <2>2
<1>6. \A u \in Threads : ~Mid(u) /\ \A p \in Parts : ~Maker(u, p)
  <2> TAKE u \in Threads
  <2>1. ~Mid(t) /\ \A p \in Parts : ~Maker(t, p)
    BY <1>2 DEF Mid, Before, Maker
  <2>2. u # t => ~Mid(u)
    BY <1>5, InstType, StepsAre DEF Mid, Before, Inits
  <2>3. u # t => \A p \in Parts : ~Maker(u, p)
    BY <1>5, MakerIs DEF Kin, Inits
  <2> QED
    BY <2>1, <2>2, <2>3
<1>7. Out("io") <=> Out("wp")
  BY <1>1, <1>6 DEF Parted
<1>8. \A p \in Parts : Sole(p) /\ (Out(p) <=> handle[p] = 0)
  <2> TAKE p \in Parts
  <2>1. Sole(p) /\ Steady(p)
    BY <1>3, CarefulFacts, PeacefulFacts DEF Parts
  <2>2. handle[p] # 0 => handle[p] \in Insts
    BY <1>1 DEF Insts
  <2> QED
    BY <2>1, <2>2 DEF Out, Steady
<1>9. handle[k] # 0
  BY <1>1, <1>2, <1>8 DEF Sole
<1>10. \A p \in Parts : handle[p] # 0
  BY <1>2, <1>7, <1>8, <1>9, StepsAre DEF Parts
<1>11. \A p \in Parts : Ready(p)
  BY <1>1, <1>6, <1>8, <1>10 DEF Sole, Ready
<1> QED
  BY <1>3, <1>11, ReadyIsUp DEF Parts

LEMMA BothThere ==
  ASSUME Careful, \A u \in Users : ~Initialising(u), \A p \in Parts : ~Stopping(p)
  PROVE  handle["io"] = 0 <=> handle["wp"] = 0
<1>1. TypeOK /\ Mine /\ Parted /\ handle \in [Parts -> 0 .. MaxObjs]
  BY CarefulFacts, PeacefulFacts
<1>2. \A u \in Threads : ~Mid(u)
  <2> SUFFICES ASSUME NEW u \in Threads, Mid(u) PROVE FALSE
    OBVIOUS
  <2>1. PICK x \in Inits : H(u, x, "wp", 0)
    BY DEF Mid, Before, Inits
  <2>2. u \in Users
    BY <1>1, <2>1, InstType, StepsAre DEF Mine
  <2>3. Initialising(u)
    BY <1>1, <2>1, StacksType, InitialisingIs, InstType, StepsAre
  <2> QED
    BY <2>2, <2>3
<1>3. \A p \in Parts : Out(p) <=> handle[p] = 0
  <2> TAKE p \in Parts
  <2>1. Steady(p)
    BY SteadyIs
  <2>2. handle[p] # 0 => handle[p] \in Insts
    BY <1>1 DEF Insts
  <2> QED
    BY <2>1, <2>2 DEF Out, Steady
<1> QED
  BY <1>1, <1>2, <1>3, StepsAre DEF Parted

LEMMA PromisesHold ==
  ASSUME Base, Mine, Ordered, Alone, Promised
  PROVE  InitPromises
<1>1. ASSUME ~mixed, ~fault
      PROVE  Careful
  BY <1>1, CarefulIs
<1>2. UpAfterInit
  BY <1>1, UpAfter DEF UpAfterInit
<1>3. AlreadyIsNoError
  BY <1>1, AlreadyUp DEF AlreadyIsNoError
<1>4. BothOrNeither
  BY <1>1, BothThere DEF BothOrNeither
<1> QED
  BY <1>2, <1>3, <1>4 DEF InitPromises, Base

LEMMA PromisedInit == Init => Promised
<1> HAVE Init
<1>1. \A t \in Threads : \A x, p, i : ~H(t, x, p, i)
  BY NoSteps DEF Init, H
<1>2. \A p \in Parts : handle[p] = 0
  BY DEF Init
<1>3. \A t \in Threads : ~Mid(t) /\ \A p : ~Through(t, p)
  BY <1>1 DEF Mid, Before, Through
<1>4. Out("io") /\ Out("wp")
  BY <1>2, StepsAre DEF Out
<1> QED
  BY <1>3, <1>4 DEF Promised, Parted

(* tcp_init keeps what it promises: a result of 0 means that both parts are*)
(* at work, EALREADY is no error while another init is about, and when none*)
(* is, both parts are there or neither (tcp.c, io.c, wpool.c).             *)
THEOREM InitKeepsPromises == Spec => []InitPromises
<1>1. Init => Promised
  BY PromisedInit
<1>2. Base /\ (Mine /\ Ordered /\ Alone) /\ Promised /\ [Next]_vars => Promised'
  BY PromisedNext
<1>3. Base /\ (Mine /\ Ordered /\ Alone) /\ Promised => InitPromises
  BY PromisesHold
<1> QED
  BY <1>1, <1>2, <1>3, LibBase, OneAtATime, PTL DEF Spec
=============================================================================
