--------------------------- MODULE SublistsProofs ---------------------------
(***************************************************************************)
(* What Only returns for every list, by induction.  The induction is over  *)
(* a set: WFMin gives a set of numbers that is not empty a smallest one.   *)
(***************************************************************************)
EXTENDS Sublists, Integers, Sequences, SequenceTheorems, WellFoundedInduction, TLAPS

LessThan == {xy \in Nat \X Nat : xy[1] < xy[2]}

(* A set of naturals that is not empty has a smallest member.              *)
LEMMA Smallest ==
  ASSUME NEW T, T \subseteq Nat, T # {}
  PROVE  \E x \in T : \A y \in T : x <= y
<1>1. OpToRel(<, Nat) = LessThan
  BY DEF OpToRel, LessThan
<1>2. PICK x \in T : \A y \in T : ~ (<<y, x>> \in LessThan)
  BY NatLessThanWellFounded, <1>1, WFMin
<1>3. ASSUME NEW y \in T
      PROVE  x <= y
  <2>1. x \in Nat /\ y \in Nat
    OBVIOUS
  <2>2. ~ (y < x)
    BY <1>2, <2>1 DEF LessThan
  <2> QED
    BY <2>1, <2>2
<1> QED
  BY <1>3

(* Induction over the naturals, for a set S of them.                       *)
LEMMA Induction ==
  ASSUME NEW S, 0 \in S, \A n \in Nat : n \in S => n + 1 \in S
  PROVE  \A n \in Nat : n \in S
<1> SUFFICES ASSUME Nat \ S # {} PROVE FALSE
  OBVIOUS
<1>1. PICK x \in Nat \ S : \A y \in Nat \ S : x <= y
  <2>1. Nat \ S \subseteq Nat
    OBVIOUS
  <2> QED
    BY <2>1, Smallest
<1>2. x \in Nat /\ x # 0 /\ x \notin S
  OBVIOUS
<1>3. x - 1 \in Nat /\ (x - 1) + 1 = x /\ ~ (x <= x - 1)
  BY <1>2
<1>4. x - 1 \in S
  BY <1>1, <1>3
<1> QED
  BY <1>2, <1>3, <1>4

-----------------------------------------------------------------------------
More(q, x, T) == IF x \in T THEN Append(q, x) ELSE q

(* F is the function Only computes over the first n items.                 *)
Upto(s, T, n, F) ==
  F = [i \in 0 .. n |-> IF i = 0 THEN << >>
                        ELSE IF s[i] \in T THEN Append(F[i - 1], s[i]) ELSE F[i - 1]]

(* There is such a function: the walk over the list goes on by one item.   *)
LEMMA UptoExists ==
  ASSUME NEW s, NEW T
  PROVE  \A n \in Nat : \E F : Upto(s, T, n, F)
<1> DEFINE S == {n \in Nat : \E F : Upto(s, T, n, F)}
<1>1. 0 \in S
  <2>1. Upto(s, T, 0, [i \in 0 .. 0 |-> << >>])
    BY DEF Upto
  <2> QED
    BY <2>1
<1>2. ASSUME NEW n \in Nat, n \in S
      PROVE  n + 1 \in S
  <2>1. PICK F : Upto(s, T, n, F)
    BY <1>2
  <2> DEFINE G == [i \in 0 .. n + 1 |-> IF i \in 0 .. n THEN F[i]
                                        ELSE More(F[n], s[n + 1], T)]
  <2>2. \A i \in 0 .. n : G[i] = F[i]
    OBVIOUS
  <2>3. \A i \in 0 .. n : F[i] = IF i = 0 THEN << >>
                                 ELSE IF s[i] \in T THEN Append(F[i - 1], s[i]) ELSE F[i - 1]
    BY <2>1 DEF Upto
  <2>4. G[n + 1] = IF s[n + 1] \in T THEN Append(G[n], s[n + 1]) ELSE G[n]
    BY <2>2 DEF More
  <2>5. ASSUME NEW i \in 0 .. n + 1
        PROVE  G[i] = IF i = 0 THEN << >>
                      ELSE IF s[i] \in T THEN Append(G[i - 1], s[i]) ELSE G[i - 1]
    <3>1. CASE i = 0
      BY <3>1, <2>2, <2>3
    <3>2. CASE i \in 1 .. n
      <4>1. i - 1 \in 0 .. n /\ i \in 0 .. n /\ i # 0
        BY <3>2
      <4>2. G[i] = F[i] /\ G[i - 1] = F[i - 1]
        BY <4>1, <2>2
      <4> HIDE DEF G
      <4> QED
        BY <4>1, <4>2, <2>3
    <3>3. CASE i = n + 1
      <4>1. i # 0 /\ i - 1 = n
        BY <3>3
      <4> HIDE DEF G
      <4> QED
        BY <4>1, <2>4, <3>3
    <3> QED
      BY <3>1, <3>2, <3>3
  <2>6. G = [i \in 0 .. n + 1 |-> G[i]]
    OBVIOUS
  <2>7. Upto(s, T, n + 1, G)
    <3> HIDE DEF G
    <3> QED
      BY <2>5, <2>6 DEF Upto
  <2> QED
    BY <2>7
<1> HIDE DEF S
<1>3. \A n \in Nat : n \in S
  BY <1>1, <1>2, Induction
<1> QED
  BY <1>3 DEF S

(* Only walks the list item by item.                                       *)
LEMMA OnlyWalks ==
  ASSUME NEW s, NEW T, Len(s) \in Nat
  PROVE  \E F : /\ Only(s, T) = F[Len(s)]
                /\ F[0] = << >>
                /\ \A i \in 1 .. Len(s) : F[i] = More(F[i - 1], s[i], T)
<1> DEFINE F == CHOOSE F : F = [i \in 0 .. Len(s) |->
                                  IF i = 0 THEN << >>
                                  ELSE IF s[i] \in T THEN Append(F[i - 1], s[i]) ELSE F[i - 1]]
<1>1. Upto(s, T, Len(s), F)
  <2>1. \E G : Upto(s, T, Len(s), G)
    BY UptoExists
  <2> QED
    BY <2>1 DEF Upto
<1>2. Only(s, T) = F[Len(s)]
  BY DEF Only
<1> HIDE DEF F
<1>3. F[0] = << >>
  BY <1>1 DEF Upto
<1>4. ASSUME NEW i \in 1 .. Len(s)
      PROVE  F[i] = More(F[i - 1], s[i], T)
  <2>1. i \in 0 .. Len(s) /\ i # 0
    OBVIOUS
  <2> QED
    BY <2>1, <1>1 DEF Upto, More
<1> QED
  BY <1>2, <1>3, <1>4

(* The induction that every fact about Only is proved by: W holds of what  *)
(* has been kept of the first n items, for every n.                        *)
LEMMA OnlyInduction ==
  ASSUME NEW S, NEW s \in Seq(S), NEW T, NEW W,
         <<0, << >>>> \in W,
         \A n \in 0 .. Len(s) - 1 : \A q \in Seq(S) :
           <<n, q>> \in W => <<n + 1, More(q, s[n + 1], T)>> \in W
  PROVE  <<Len(s), Only(s, T)>> \in W /\ Only(s, T) \in Seq(S)
<1>0. Len(s) \in Nat
  OBVIOUS
<1>1. PICK F : /\ Only(s, T) = F[Len(s)]
               /\ F[0] = << >>
               /\ \A i \in 1 .. Len(s) : F[i] = More(F[i - 1], s[i], T)
  BY <1>0, OnlyWalks
<1> DEFINE Q == {n \in Nat : n <= Len(s) => F[n] \in Seq(S) /\ <<n, F[n]>> \in W}
<1>2. 0 \in Q
  <2>1. << >> \in Seq(S)
    OBVIOUS
  <2>2. F[0] \in Seq(S) /\ <<0, F[0]>> \in W
    BY <1>1, <2>1
  <2> QED
    BY <2>2
<1>3. ASSUME NEW n \in Nat, n \in Q
      PROVE  n + 1 \in Q
  <2> SUFFICES ASSUME n + 1 <= Len(s)
               PROVE  F[n + 1] \in Seq(S) /\ <<n + 1, F[n + 1]>> \in W
    OBVIOUS
  <2>1. F[n] \in Seq(S) /\ <<n, F[n]>> \in W
    BY <1>0, <1>3
  <2>2. n + 1 \in 1 .. Len(s) /\ s[n + 1] \in S /\ n \in 0 .. Len(s) - 1 /\ (n + 1) - 1 = n
    BY <1>0
  <2>3. F[n + 1] = More(F[n], s[n + 1], T)
    BY <1>1, <2>2
  <2>4. F[n + 1] \in Seq(S)
    BY <2>1, <2>2, <2>3 DEF More
  <2> QED
    BY <2>1, <2>2, <2>3, <2>4
<1> HIDE DEF Q
<1>4. \A n \in Nat : n \in Q
  BY <1>2, <1>3, Induction
<1> QED
  BY <1>0, <1>1, <1>4 DEF Q

-----------------------------------------------------------------------------
(* Nothing is kept that is not an item of the list and in T.               *)
LEMMA OnlyFrom ==
  ASSUME NEW S, NEW s \in Seq(S), NEW T
  PROVE  /\ Only(s, T) \in Seq(S)
         /\ \A k \in 1 .. Len(Only(s, T)) :
              \E j \in 1 .. Len(s) : Only(s, T)[k] = s[j] /\ s[j] \in T
<1> DEFINE W == {w \in Nat \X Seq(S) :
                   \A k \in 1 .. Len(w[2]) : \E j \in 1 .. w[1] : w[2][k] = s[j] /\ s[j] \in T}
<1>1. <<0, << >>>> \in W
  <2>1. << >> \in Seq(S) /\ Len(<< >>) = 0
    OBVIOUS
  <2>2. ASSUME NEW n \in Nat, NEW q \in Seq(S), n = 0, Len(q) = 0
        PROVE  <<n, q>> \in W
    <3>1. 1 .. n = {} /\ 1 .. Len(q) = {}
      BY <2>2
    <3>2. \A k \in 1 .. Len(q) : \E j \in 1 .. n : q[k] = s[j] /\ s[j] \in T
      BY <2>2, <3>1
    <3> QED
      BY <3>2
  <2> HIDE DEF W
  <2> QED
    BY <2>1, <2>2
<1>2. ASSUME NEW n \in 0 .. Len(s) - 1, NEW q \in Seq(S), <<n, q>> \in W
      PROVE  <<n + 1, More(q, s[n + 1], T)>> \in W
  <2>1. s[n + 1] \in S /\ n + 1 \in Nat
    OBVIOUS
  <2>2. More(q, s[n + 1], T) \in Seq(S)
    BY <2>1 DEF More
  <2>3. ASSUME NEW k \in 1 .. Len(More(q, s[n + 1], T))
        PROVE  \E j \in 1 .. n + 1 : More(q, s[n + 1], T)[k] = s[j] /\ s[j] \in T
    <3>1. CASE k \in 1 .. Len(q)
      BY <1>2, <3>1, <2>1 DEF More
    <3>2. CASE k \notin 1 .. Len(q)
      BY <2>1, <2>3, <3>2 DEF More
    <3> QED
      BY <3>1, <3>2
  <2> QED
    BY <2>1, <2>2, <2>3
<1> HIDE DEF W
<1>3. <<Len(s), Only(s, T)>> \in W /\ Only(s, T) \in Seq(S)
  BY <1>1, <1>2, OnlyInduction
<1> QED
  BY <1>3 DEF W

(* Every item in T is kept.                                                *)
LEMMA OnlyAll ==
  ASSUME NEW S, NEW s \in Seq(S), NEW T
  PROVE  \A j \in 1 .. Len(s) : s[j] \in T =>
           \E k \in 1 .. Len(Only(s, T)) : Only(s, T)[k] = s[j]
<1> DEFINE W == {w \in Nat \X Seq(S) :
                   \A j \in 1 .. w[1] : s[j] \in T => \E k \in 1 .. Len(w[2]) : w[2][k] = s[j]}
<1>1. <<0, << >>>> \in W
  <2>1. << >> \in Seq(S) /\ Len(<< >>) = 0
    OBVIOUS
  <2>2. ASSUME NEW n \in Nat, NEW q \in Seq(S), n = 0, Len(q) = 0
        PROVE  <<n, q>> \in W
    <3>1. 1 .. n = {} /\ 1 .. Len(q) = {}
      BY <2>2
    <3>2. \A j \in 1 .. n : s[j] \in T => \E k \in 1 .. Len(q) : q[k] = s[j]
      BY <2>2, <3>1
    <3> QED
      BY <3>2
  <2> HIDE DEF W
  <2> QED
    BY <2>1, <2>2
<1>2. ASSUME NEW n \in 0 .. Len(s) - 1, NEW q \in Seq(S), <<n, q>> \in W
      PROVE  <<n + 1, More(q, s[n + 1], T)>> \in W
  <2>1. s[n + 1] \in S /\ n + 1 \in Nat
    OBVIOUS
  <2>2. More(q, s[n + 1], T) \in Seq(S)
    BY <2>1 DEF More
  <2>3. ASSUME NEW j \in 1 .. n + 1, s[j] \in T
        PROVE  \E k \in 1 .. Len(More(q, s[n + 1], T)) : More(q, s[n + 1], T)[k] = s[j]
    <3>1. CASE j = n + 1
      BY <2>1, <2>3, <3>1 DEF More
    <3>2. CASE j \in 1 .. n
      <4>1. PICK k \in 1 .. Len(q) : q[k] = s[j]
        BY <1>2, <2>3, <3>2
      <4> QED
        BY <2>1, <4>1 DEF More
    <3> QED
      BY <3>1, <3>2
  <2> QED
    BY <2>1, <2>2, <2>3
<1> HIDE DEF W
<1>3. <<Len(s), Only(s, T)>> \in W
  BY <1>1, <1>2, OnlyInduction
<1> QED
  BY <1>3 DEF W

(* Items that differ stay different.                                       *)
LEMMA OnlyDistinct ==
  ASSUME NEW S, NEW s \in Seq(S), NEW T,
         \A i, j \in 1 .. Len(s) : s[i] = s[j] => i = j
  PROVE  \A i, j \in 1 .. Len(Only(s, T)) : Only(s, T)[i] = Only(s, T)[j] => i = j
<1> DEFINE W == {w \in Nat \X Seq(S) :
                   /\ \A k \in 1 .. Len(w[2]) : \E j \in 1 .. w[1] : w[2][k] = s[j]
                   /\ \A i, j \in 1 .. Len(w[2]) : w[2][i] = w[2][j] => i = j}
<1>1. <<0, << >>>> \in W
  <2>1. << >> \in Seq(S) /\ Len(<< >>) = 0
    OBVIOUS
  <2>2. ASSUME NEW n \in Nat, NEW q \in Seq(S), n = 0, Len(q) = 0
        PROVE  <<n, q>> \in W
    <3>1. 1 .. n = {} /\ 1 .. Len(q) = {}
      BY <2>2
    <3>2. /\ \A k \in 1 .. Len(q) : \E j \in 1 .. n : q[k] = s[j]
          /\ \A i, j \in 1 .. Len(q) : q[i] = q[j] => i = j
      BY <2>2, <3>1
    <3> QED
      BY <3>2
  <2> HIDE DEF W
  <2> QED
    BY <2>1, <2>2
<1>2. ASSUME NEW n \in 0 .. Len(s) - 1, NEW q \in Seq(S), <<n, q>> \in W
      PROVE  <<n + 1, More(q, s[n + 1], T)>> \in W
  <2>1. s[n + 1] \in S /\ n + 1 \in Nat /\ n + 1 \in 1 .. Len(s)
    OBVIOUS
  <2>2. More(q, s[n + 1], T) \in Seq(S)
    BY <2>1 DEF More
  <2>3. \A k \in 1 .. Len(q) : \E j \in 1 .. n : q[k] = s[j]
    BY <1>2
  <2>4. \A k \in 1 .. Len(q) : q[k] # s[n + 1]
    BY <2>1, <2>3
  <2>5. ASSUME NEW k \in 1 .. Len(More(q, s[n + 1], T))
        PROVE  \E j \in 1 .. n + 1 : More(q, s[n + 1], T)[k] = s[j]
    <3>1. CASE k \in 1 .. Len(q)
      BY <2>3, <3>1, <2>1 DEF More
    <3>2. CASE k \notin 1 .. Len(q)
      BY <2>1, <2>5, <3>2 DEF More
    <3> QED
      BY <3>1, <3>2
  <2>6. \A i, j \in 1 .. Len(q) : q[i] = q[j] => i = j
    BY <1>2
  <2>7. \A i, j \in 1 .. Len(More(q, s[n + 1], T)) :
          More(q, s[n + 1], T)[i] = More(q, s[n + 1], T)[j] => i = j
    BY <2>1, <2>4, <2>6 DEF More
  <2> QED
    BY <2>1, <2>2, <2>5, <2>7
<1> HIDE DEF W
<1>3. <<Len(s), Only(s, T)>> \in W
  BY <1>1, <1>2, OnlyInduction
<1> QED
  BY <1>3 DEF W

(* The last item is kept last.                                             *)
LEMMA OnlyLast ==
  ASSUME NEW S, NEW s \in Seq(S), NEW T, Len(s) > 0, s[Len(s)] \in T
  PROVE  Len(Only(s, T)) > 0 /\ Only(s, T)[Len(Only(s, T))] = s[Len(s)]
<1> DEFINE W == {w \in Nat \X Seq(S) : w[1] > 0 /\ s[w[1]] \in T =>
                                         Len(w[2]) > 0 /\ w[2][Len(w[2])] = s[w[1]]}
<1>1. <<0, << >>>> \in W
  <2>1. << >> \in Seq(S) /\ Len(<< >>) = 0
    OBVIOUS
  <2>2. ASSUME NEW n \in Nat, NEW q \in Seq(S), n = 0, Len(q) = 0
        PROVE  <<n, q>> \in W
    <3>1. 1 .. n = {} /\ 1 .. Len(q) = {}
      BY <2>2
    <3>2. n > 0 /\ s[n] \in T => Len(q) > 0 /\ q[Len(q)] = s[n]
      BY <2>2, <3>1
    <3> QED
      BY <3>2
  <2> HIDE DEF W
  <2> QED
    BY <2>1, <2>2
<1>2. ASSUME NEW n \in 0 .. Len(s) - 1, NEW q \in Seq(S), <<n, q>> \in W
      PROVE  <<n + 1, More(q, s[n + 1], T)>> \in W
  <2>1. s[n + 1] \in S /\ n + 1 \in Nat
    OBVIOUS
  <2>2. More(q, s[n + 1], T) \in Seq(S)
    BY <2>1 DEF More
  <2>3. ASSUME s[n + 1] \in T
        PROVE  /\ Len(More(q, s[n + 1], T)) > 0
               /\ More(q, s[n + 1], T)[Len(More(q, s[n + 1], T))] = s[n + 1]
    BY <2>1, <2>3 DEF More
  <2> QED
    BY <2>1, <2>2, <2>3
<1> HIDE DEF W
<1>3. <<Len(s), Only(s, T)>> \in W
  BY <1>1, <1>2, OnlyInduction
<1> QED
  BY <1>3 DEF W

-----------------------------------------------------------------------------
(* Nothing comes of the empty list.                                        *)
LEMMA OnlyEmpty ==
  ASSUME NEW T
  PROVE  Only(<< >>, T) = << >>
<1>1. Len(<< >>) = 0 /\ Len(<< >>) \in Nat
  OBVIOUS
<1>2. PICK F : Only(<< >>, T) = F[Len(<< >>)] /\ F[0] = << >>
  BY <1>1, OnlyWalks
<1> QED
  BY <1>1, <1>2

(* An item more is kept at the end.                                        *)
LEMMA MoreConcat ==
  ASSUME NEW S, NEW p \in Seq(S), NEW q \in Seq(S), NEW x \in S, NEW T
  PROVE  More(p \o q, x, T) = p \o More(q, x, T) /\ More(q, x, T) \in Seq(S)
<1>1. Append(p \o q, x) \in Seq(S) /\ p \o Append(q, x) \in Seq(S)
  OBVIOUS
<1>2. Len(Append(p \o q, x)) = Len(p \o Append(q, x))
  OBVIOUS
<1>3. \A i \in 1 .. Len(Append(p \o q, x)) : Append(p \o q, x)[i] = (p \o Append(q, x))[i]
  OBVIOUS
<1>4. Append(p \o q, x) = p \o Append(q, x)
  BY <1>1, <1>2, <1>3, SeqEqual
<1>5. CASE x \in T
  <2>1. Append(q, x) \in Seq(S)
    OBVIOUS
  <2> QED
    BY <1>4, <1>5, <2>1 DEF More
<1>6. CASE x \notin T
  BY <1>6 DEF More
<1> QED
  BY <1>5, <1>6

Walks(s, T, F) ==
  F[0] = << >> /\ \A i \in 1 .. Len(s) : F[i] = More(F[i - 1], s[i], T)

(* The walk of Only, by a name.                                            *)
LEMMA WalkExists ==
  ASSUME NEW s, NEW T, Len(s) \in Nat
  PROVE  \E F : Only(s, T) = F[Len(s)] /\ Walks(s, T, F)
BY OnlyWalks DEF Walks

(* What is kept of two lists, one after the other.                         *)
LEMMA OnlyConcat ==
  ASSUME NEW S, NEW a \in Seq(S), NEW b \in Seq(S), NEW T
  PROVE  Only(a \o b, T) = Only(a, T) \o Only(b, T)
<1> DEFINE c == a \o b
           m == Len(a)
           n == Len(b)
<1>1. /\ c \in Seq(S) /\ m \in Nat /\ n \in Nat /\ Len(c) = m + n
      /\ \A i \in 1 .. m : c[i] = a[i]
      /\ \A j \in 1 .. n : c[m + j] = b[j] /\ b[j] \in S
  <2>1. \A j \in 1 .. n : m + j \in 1 .. m + n /\ ~(m + j <= m) /\ (m + j) - m = j
    OBVIOUS
  <2> QED
    BY <2>1, ConcatProperties
<1> HIDE DEF c
<1>2. PICK F : Only(c, T) = F[Len(c)] /\ Walks(c, T, F)
  <2>1. Len(c) \in Nat
    BY <1>1
  <2> QED
    BY <2>1, WalkExists
<1>3. PICK A : Only(a, T) = A[Len(a)] /\ Walks(a, T, A)
  BY WalkExists
<1>4. PICK B : Only(b, T) = B[Len(b)] /\ Walks(b, T, B)
  BY WalkExists
<1>9. /\ Only(c, T) = F[m + n] /\ F[0] = << >>
      /\ \A i \in 1 .. m + n : F[i] = More(F[i - 1], c[i], T)
  BY <1>1, <1>2 DEF Walks
<1>10. /\ Only(a, T) = A[m] /\ A[0] = << >>
       /\ \A i \in 1 .. m : A[i] = More(A[i - 1], a[i], T)
  BY <1>1, <1>3 DEF Walks
<1>11. /\ Only(b, T) = B[n] /\ B[0] = << >>
       /\ \A i \in 1 .. n : B[i] = More(B[i - 1], b[i], T)
  BY <1>1, <1>4 DEF Walks
<1>5. Only(a, T) \in Seq(S)
  BY OnlyFrom
<1> HIDE DEF m, n
<1> DEFINE P == {i \in Nat : i <= m => F[i] = A[i]}
<1>6. \A i \in Nat : i \in P
  <2>1. 0 \in P
    BY <1>1, <1>9, <1>10
  <2>2. ASSUME NEW i \in Nat, i \in P PROVE i + 1 \in P
    <3> SUFFICES ASSUME i + 1 <= m PROVE F[i + 1] = A[i + 1]
      OBVIOUS
    <3>1. i + 1 \in 1 .. m /\ i + 1 \in 1 .. m + n /\ (i + 1) - 1 = i /\ i <= m
      BY <1>1
    <3>2. F[i] = A[i]
      BY <2>2, <3>1
    <3> QED
      BY <1>1, <1>9, <1>10, <3>1, <3>2
  <2> HIDE DEF P
  <2> QED
    BY <2>1, <2>2, Induction
<1>7. F[m] = Only(a, T)
  BY <1>1, <1>10, <1>6
<1> DEFINE Q == {j \in Nat : j <= n => B[j] \in Seq(S) /\ F[m + j] = Only(a, T) \o B[j]}
<1>8. \A j \in Nat : j \in Q
  <2>1. 0 \in Q
    <3>1. m + 0 = m /\ B[0] = << >> /\ << >> \in Seq(S)
      BY <1>1, <1>11, EmptySeq
    <3>2. Only(a, T) \o << >> = Only(a, T)
      BY <1>5, ConcatEmptySeq
    <3> QED
      BY <1>7, <3>1, <3>2
  <2>2. ASSUME NEW j \in Nat, j \in Q PROVE j + 1 \in Q
    <3> SUFFICES ASSUME j + 1 <= n
                 PROVE  B[j + 1] \in Seq(S) /\ F[m + (j + 1)] = Only(a, T) \o B[j + 1]
      OBVIOUS
    <3>1. /\ j + 1 \in 1 .. n /\ (j + 1) - 1 = j /\ j <= n
          /\ m + (j + 1) \in 1 .. m + n /\ (m + (j + 1)) - 1 = m + j
      BY <1>1
    <3>2. B[j] \in Seq(S) /\ F[m + j] = Only(a, T) \o B[j]
      BY <2>2, <3>1
    <3>3. B[j + 1] = More(B[j], b[j + 1], T) /\ b[j + 1] \in S
      BY <1>1, <1>11, <3>1
    <3>4. F[m + (j + 1)] = More(Only(a, T) \o B[j], b[j + 1], T)
      BY <1>1, <1>9, <3>1, <3>2, ZenonT(30)
    <3>5. /\ More(Only(a, T) \o B[j], b[j + 1], T) = Only(a, T) \o More(B[j], b[j + 1], T)
          /\ More(B[j], b[j + 1], T) \in Seq(S)
      BY <1>5, <3>2, <3>3, MoreConcat
    <3> QED
      BY <3>3, <3>4, <3>5
  <2> HIDE DEF Q
  <2> QED
    BY <2>1, <2>2, Induction
<1> QED
  BY <1>1, <1>9, <1>11, <1>8 DEF c

(* What is kept of one item.                                               *)
LEMMA OnlyOne ==
  ASSUME NEW x, NEW T
  PROVE  Only(<<x>>, T) = IF x \in T THEN <<x>> ELSE << >>
<1>1. Len(<<x>>) = 1 /\ <<x>>[1] = x /\ Append(<< >>, x) = <<x>>
  OBVIOUS
<1>2. PICK F : /\ Only(<<x>>, T) = F[1] /\ F[0] = << >>
               /\ \A i \in 1 .. 1 : F[i] = More(F[i - 1], <<x>>[i], T)
  BY <1>1, OnlyWalks
<1>3. F[1] = More(F[0], x, T)
  <2>1. 1 \in 1 .. 1 /\ 1 - 1 = 0
    OBVIOUS
  <2>2. F[1] = More(F[1 - 1], <<x>>[1], T)
    BY <1>2, <2>1
  <2> QED
    BY <1>1, <2>1, <2>2
<1> QED
  BY <1>1, <1>2, <1>3 DEF More

(* A list whose items are all in T is kept whole.                          *)
LEMMA OnlyWhole ==
  ASSUME NEW S, NEW s \in Seq(S), NEW T, \A i \in 1 .. Len(s) : s[i] \in T
  PROVE  Only(s, T) = s
<1> DEFINE W == {w \in Nat \X Seq(S) : Len(w[2]) = w[1] /\ \A i \in 1 .. w[1] : w[2][i] = s[i]}
<1>1. <<0, << >>>> \in W
  <2>1. << >> \in Seq(S) /\ Len(<< >>) = 0
    OBVIOUS
  <2>2. ASSUME NEW n \in Nat, NEW q \in Seq(S), n = 0, Len(q) = 0
        PROVE  <<n, q>> \in W
    <3>1. 1 .. n = {}
      BY <2>2
    <3>2. \A i \in 1 .. n : q[i] = s[i]
      BY <3>1
    <3> QED
      BY <2>2, <3>2
  <2> HIDE DEF W
  <2> QED
    BY <2>1, <2>2
<1>2. ASSUME NEW n \in 0 .. Len(s) - 1, NEW q \in Seq(S), <<n, q>> \in W
      PROVE  <<n + 1, More(q, s[n + 1], T)>> \in W
  <2>1. s[n + 1] \in S /\ n + 1 \in Nat /\ s[n + 1] \in T
    OBVIOUS
  <2>2. More(q, s[n + 1], T) = Append(q, s[n + 1]) /\ Append(q, s[n + 1]) \in Seq(S)
    BY <2>1 DEF More
  <2>3. /\ Len(Append(q, s[n + 1])) = n + 1
        /\ \A i \in 1 .. n + 1 : Append(q, s[n + 1])[i] = s[i]
    BY <1>2, <2>1
  <2> QED
    BY <2>1, <2>2, <2>3
<1> HIDE DEF W
<1>3. <<Len(s), Only(s, T)>> \in W /\ Only(s, T) \in Seq(S)
  BY <1>1, <1>2, OnlyInduction
<1>4. Len(Only(s, T)) = Len(s) /\ \A i \in 1 .. Len(s) : Only(s, T)[i] = s[i]
  BY <1>3 DEF W
<1> QED
  BY <1>3, <1>4, SeqEqual

(* Of a list without items in T nothing is kept.                           *)
LEMMA OnlyNone ==
  ASSUME NEW S, NEW s \in Seq(S), NEW T, \A i \in 1 .. Len(s) : s[i] \notin T
  PROVE  Only(s, T) = << >>
<1>1. /\ Only(s, T) \in Seq(S)
      /\ \A k \in 1 .. Len(Only(s, T)) :
           \E j \in 1 .. Len(s) : Only(s, T)[k] = s[j] /\ s[j] \in T
  BY OnlyFrom
<1>2. Len(Only(s, T)) \in Nat
  BY <1>1
<1>3. 1 .. Len(Only(s, T)) = {}
  BY <1>1
<1>4. Len(Only(s, T)) = 0
  <2>1. Len(Only(s, T)) # 0 => 1 \in 1 .. Len(Only(s, T))
    BY <1>2
  <2> QED
    BY <1>3, <2>1
<1> QED
  BY <1>1, <1>4, EmptySeq
=============================================================================
