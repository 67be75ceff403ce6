--------------------------- MODULE LinkLifeProofs ---------------------------
(***************************************************************************)
(* What holds of the life of links in every run, for any number of links,  *)
(* threads and descriptors.                                                *)
(***************************************************************************)
EXTENDS LinkLife, SublistsProofs, FiniteSetTheorems, SequenceTheorems, TLAPS

-----------------------------------------------------------------------------
(***************************************************************************)
(* The stacks of steps that occur, by name, and what each of them means.   *)
(***************************************************************************)
Empty      == << >>
Fields     == <<"fields">>
Defr1      == <<"defr">>
DefrReturn == <<"defr", "return">>
DefrClos   == <<"defr", "clos">>
DefrDefr   == <<"defr", "defr">>
Return1    == <<"return">>
Clos1      == <<"clos">>
ClosDefr   == <<"clos", "defr">>
CloseDefr  == <<"close", "defr">>
TstDefr    == <<"tst", "defr">>
LoadRecv   == <<"load", "recv">>
Recv1      == <<"recv">>

(* The destructor, and what the thread has left to do after it.            *)
D3       == <<"close", "unlist", "closed">>
D3Return == <<"close", "unlist", "closed", "return">>
D3Clos   == <<"close", "unlist", "closed", "clos">>
D2       == <<"unlist", "closed">>
D2Return == <<"unlist", "closed", "return">>
D2Clos   == <<"unlist", "closed", "clos">>
D1       == <<"closed">>
D1Return == <<"closed", "return">>
D1Clos   == <<"closed", "clos">>

Closing   == {D3, D3Return, D3Clos}
Unlisting == {D2, D2Return, D2Clos}
Freeing   == {D1, D1Return, D1Clos}

UserStacks ==
  {Empty, Fields, Defr1, DefrReturn, DefrClos, DefrDefr, Return1, Clos1,
   CloseDefr, TstDefr} \cup Closing \cup Unlisting \cup Freeing
EpollStacks  == {Empty, Clos1, LoadRecv, Recv1, Defr1, ClosDefr, D3, D2, D1}
UninitStacks == {Empty, Clos1, D3, D2, D1}

Stacks == UserStacks \cup EpollStacks \cup UninitStacks

StacksOf(t) == IF t = "epoll" THEN EpollStacks
               ELSE IF t = "uninit" THEN UninitStacks ELSE UserStacks

(* The references a thread with this stack holds.                          *)
Weight(s) ==
  IF s = DefrDefr THEN 2
  ELSE IF s \in {Fields, Defr1, DefrReturn, DefrClos, ClosDefr, CloseDefr, TstDefr,
                 LoadRecv, Recv1} THEN 1
  ELSE 0

(* The destructor is at work, and has the link still to take off the list. *)
Destructing(s) == s \in Closing \cup Unlisting \cup Freeing
ToUnlist(s)    == s \in Closing \cup Unlisting

-----------------------------------------------------------------------------
(***************************************************************************)
(* The inductive invariant.                                                *)
(***************************************************************************)

(* Threads are at one of the stacks, and have a link when there is a step. *)
Places ==
  \A t \in Threads : /\ todo[t] \in StacksOf(t)
                     /\ cur[t] = NoLink <=> todo[t] = Empty

Holds(l) == {h \in Threads \X {1, 2} : cur[h[1]] = l /\ h[2] <= Weight(todo[h[1]])}

(* Every reference a thread has is counted.                                *)
Counts ==
  \A l \in Links : /\ Cardinality(Holds(l)) <= refs[l]
                   /\ stat[l] \in {"none", "destructing", "gone"} => refs[l] = 0

(* A destructor runs on one thread, exactly while the link is destructing. *)
OneDestructor ==
  /\ \A l \in Links : stat[l] = "destructing" =>
       \E t \in Threads : cur[t] = l /\ Destructing(todo[t])
  /\ \A t \in Threads : Destructing(todo[t]) => stat[cur[t]] = "destructing"
  /\ \A t, u \in Threads :
       Destructing(todo[t]) /\ Destructing(todo[u]) /\ cur[t] = cur[u] => t = u

(* The callbacks follow the state of the link.                             *)
Told ==
  \A l \in Links :
    told[l] = CASE stat[l] = "destructing" -> <<"preclose">>
                [] stat[l] = "gone" -> <<"preclose", "closed">>
                [] OTHER -> << >>

(* The links that nl_count counts.                                         *)
Counted ==
  {l \in Links : \/ stat[l] \in {"open", "closing"}
                 \/ \E t \in Threads : cur[t] = l /\ ToUnlist(todo[t])}

Listed ==
  /\ IsFiniteSet(Counted) /\ nl_count = Cardinality(Counted)
  /\ \A i \in 1 .. Len(listed) : listed[i] \in Counted
  /\ \A i, j \in 1 .. Len(listed) : listed[i] = listed[j] => i = j

(* A link is complete when its protocol is set; before, its creator is     *)
(* alone with it.                                                          *)
Complete(l) == proto[l] # "unset"

Creation ==
  /\ \A l \in Links : stat[l] = "none" => ~Complete(l)
  /\ \A l \in known : Complete(l)
  /\ \A i \in 1 .. Len(hlds) : Complete(hlds[i])
  /\ \A t \in Threads : todo[t] # Empty => (Complete(cur[t]) <=> todo[t] # Fields)
  /\ \A t \in Threads : todo[t] = Fields => stat[cur[t]] # "none"
  /\ \A t, u \in Threads : todo[t] = Fields /\ todo[u] = Fields /\ cur[t] = cur[u] => t = u

(* A number in ncb->sockfd is of the link's own socket.                    *)
Sockets ==
  /\ \A l \in Links : sockfd[l] # 0 => files[sockfd[l]] = l
  /\ \A t \in Threads : todo[t] = Fields => \E f \in Fds : files[f] = cur[t]
  /\ \A t \in Threads : todo[t] = CloseDefr => cur[t] \in shot
  /\ todo["epoll"] = Recv1 /\ reg # 0 => files[reg] = cur["epoll"] \/ cur["epoll"] \in shot

(* What ncb_uninit has still to close, and what it has closed itself.      *)
UninitWork ==
  /\ ~starved =>
       \A l \in due : \/ stat[l] \notin {"none", "open"}
                      \/ stat[l] # "none" /\ \E i \in 1 .. Len(hlds) : hlds[i] = l
                      \/ stat[l] # "none" /\ todo["uninit"] = Clos1 /\ cur["uninit"] = l
  /\ starved => last = NoLink
  /\ last = NoLink => own = {} /\ hlds = << >> /\ todo["uninit"] = Empty
  /\ hlds # << >> => /\ last \notin own /\ cur["uninit"] # last
                     /\ \A i \in 1 .. Len(hlds) - 1 : hlds[i] # last

IInv ==
  /\ TypeOK /\ Places /\ Counts /\ OneDestructor /\ Told /\ Listed
  /\ Creation /\ Sockets /\ UninitWork

-----------------------------------------------------------------------------
(* The stack a thread is at, by its next step.                             *)
LEMMA Heads ==
  ASSUME NEW a \in Stacks, a # << >>
  PROVE  /\ Head(a) = "fields" => a = Fields
         /\ Head(a) = "defr" => a \in {Defr1, DefrReturn, DefrClos, DefrDefr}
         /\ Head(a) = "return" => a = Return1
         /\ Head(a) = "clos" => a \in {Clos1, ClosDefr}
         /\ Head(a) = "close" => a \in {CloseDefr} \cup Closing
         /\ Head(a) = "tst" => a = TstDefr
         /\ Head(a) = "load" => a = LoadRecv
         /\ Head(a) = "recv" => a = Recv1
         /\ Head(a) = "unlist" => a \in Unlisting
         /\ Head(a) = "closed" => a \in Freeing
BY DEF Stacks, UserStacks, EpollStacks, UninitStacks, Closing, Unlisting, Freeing,
       Empty, Fields, Defr1, DefrReturn, DefrClos, DefrDefr, Return1, Clos1, ClosDefr,
       CloseDefr, TstDefr, LoadRecv, Recv1, D3, D3Return, D3Clos, D2, D2Return, D2Clos,
       D1, D1Return, D1Clos

(* What is left of a stack after its first step.                           *)
LEMMA Tails ==
  /\ Tail(Fields) = Empty /\ Tail(Defr1) = Empty /\ Tail(DefrReturn) = Return1
  /\ Tail(DefrClos) = Clos1 /\ Tail(DefrDefr) = Defr1 /\ Tail(Return1) = Empty
  /\ Tail(Clos1) = Empty /\ Tail(ClosDefr) = Defr1 /\ Tail(CloseDefr) = Defr1
  /\ Tail(TstDefr) = Defr1 /\ Tail(LoadRecv) = Recv1 /\ Tail(Recv1) = Empty
  /\ Tail(D3) = D2 /\ Tail(D3Return) = D2Return /\ Tail(D3Clos) = D2Clos
  /\ Tail(D2) = D1 /\ Tail(D2Return) = D1Return /\ Tail(D2Clos) = D1Clos
  /\ Tail(D1) = Empty /\ Tail(D1Return) = Return1 /\ Tail(D1Clos) = Clos1
BY DEF Stacks, UserStacks, EpollStacks, UninitStacks, Closing, Unlisting, Freeing,
       Empty, Fields, Defr1, DefrReturn, DefrClos, DefrDefr, Return1, Clos1, ClosDefr,
       CloseDefr, TstDefr, LoadRecv, Recv1, D3, D3Return, D3Clos, D2, D2Return, D2Clos,
       D1, D1Return, D1Clos

(* A list that begins with p and goes on with q is p \o q.                 *)
LEMMA Joined ==
  ASSUME NEW S, NEW p \in Seq(S), NEW q \in Seq(S), NEW r \in Seq(S),
         Len(r) = Len(p) + Len(q),
         \A k \in 1 .. Len(p) : r[k] = p[k],
         \A k \in 1 .. Len(q) : r[Len(p) + k] = q[k]
  PROVE  p \o q = r
<1>1. Len(p) \in Nat /\ Len(q) \in Nat
  OBVIOUS
<1>2. p \o q \in Seq(S) /\ Len(p \o q) = Len(p) + Len(q)
  BY ConcatProperties
<1>3. ASSUME NEW k \in 1 .. Len(p) + Len(q)
      PROVE  (p \o q)[k] = r[k]
  <2>0. (p \o q)[k] = IF k <= Len(p) THEN p[k] ELSE q[k - Len(p)]
    BY ConcatProperties
  <2>1. CASE k <= Len(p)
    BY <1>1, <2>1, <2>0
  <2>2. CASE ~(k <= Len(p))
    <3>1. k - Len(p) \in 1 .. Len(q) /\ Len(p) + (k - Len(p)) = k
      BY <1>1, <2>2
    <3>2. r[Len(p) + (k - Len(p))] = q[k - Len(p)]
      BY <3>1
    <3> QED
      BY <2>0, <2>2, <3>1, <3>2
  <2> QED
    BY <2>1, <2>2
<1> QED
  BY <1>2, <1>3, SeqEqual

(* The stacks that begin when a step leaves more to do.                    *)
LEMMA Joins ==
  /\ \A a \in Stacks : << >> \o a = a
  /\ ncb_deconstruct \o Empty = D3 /\ ncb_deconstruct \o Return1 = D3Return
  /\ ncb_deconstruct \o Clos1 = D3Clos
  /\ <<"defr">> \o Empty = Defr1 /\ <<"defr", "return">> \o Empty = DefrReturn
  /\ <<"defr", "clos">> \o Empty = DefrClos /\ <<"defr">> \o Defr1 = DefrDefr
  /\ <<"load", "recv">> \o Empty = LoadRecv /\ <<"clos", "defr">> \o Empty = ClosDefr
<1>1. \A a \in Stacks : << >> \o a = a
  BY DEF Stacks, UserStacks, EpollStacks, UninitStacks, Closing, Unlisting, Freeing,
       Empty, Fields, Defr1, DefrReturn, DefrClos, DefrDefr, Return1, Clos1, ClosDefr,
       CloseDefr, TstDefr, LoadRecv, Recv1, D3, D3Return, D3Clos, D2, D2Return, D2Clos,
       D1, D1Return, D1Clos
<1>2. ncb_deconstruct \o Empty = D3
  BY DEF ncb_deconstruct, Empty, D3
<1>3. ncb_deconstruct \o Return1 = D3Return /\ ncb_deconstruct \o Clos1 = D3Clos
  <2> DEFINE S == {"close", "unlist", "closed", "return", "clos"}
  <2>1. /\ ncb_deconstruct \in Seq(S) /\ Len(ncb_deconstruct) = 3
        /\ Return1 \in Seq(S) /\ Len(Return1) = 1 /\ Clos1 \in Seq(S) /\ Len(Clos1) = 1
        /\ D3Return \in Seq(S) /\ Len(D3Return) = 4
        /\ D3Clos \in Seq(S) /\ Len(D3Clos) = 4
    BY DEF ncb_deconstruct, Return1, Clos1, D3Return, D3Clos
  <2>2. \A k \in 1 .. 3 : D3Return[k] = ncb_deconstruct[k] /\ D3Clos[k] = ncb_deconstruct[k]
    BY DEF ncb_deconstruct, D3Return, D3Clos
  <2>3. \A k \in 1 .. 1 : D3Return[3 + k] = Return1[k] /\ D3Clos[3 + k] = Clos1[k]
    BY DEF Return1, Clos1, D3Return, D3Clos
  <2> HIDE DEF S
  <2>4. ncb_deconstruct \o Return1 = D3Return
    <3>1. /\ Len(D3Return) = Len(ncb_deconstruct) + Len(Return1)
          /\ \A k \in 1 .. Len(ncb_deconstruct) : D3Return[k] = ncb_deconstruct[k]
          /\ \A k \in 1 .. Len(Return1) : D3Return[Len(ncb_deconstruct) + k] = Return1[k]
      BY <2>1, <2>2, <2>3
    <3> QED
      BY <2>1, <3>1, Joined, Zenon
  <2>5. ncb_deconstruct \o Clos1 = D3Clos
    <3>1. /\ Len(D3Clos) = Len(ncb_deconstruct) + Len(Clos1)
          /\ \A k \in 1 .. Len(ncb_deconstruct) : D3Clos[k] = ncb_deconstruct[k]
          /\ \A k \in 1 .. Len(Clos1) : D3Clos[Len(ncb_deconstruct) + k] = Clos1[k]
      BY <2>1, <2>2, <2>3
    <3> QED
      BY <2>1, <3>1, Joined, Zenon
  <2> QED
    BY <2>4, <2>5
<1>4. <<"defr">> \o Empty = Defr1 /\ <<"defr", "return">> \o Empty = DefrReturn
  BY DEF Empty, Defr1, DefrReturn
<1>5. <<"defr", "clos">> \o Empty = DefrClos
  BY DEF Empty, DefrClos
<1>7. <<"defr">> \o Defr1 = DefrDefr
  <2>1. /\ Defr1 \in Seq({"defr"}) /\ Len(Defr1) = 1
        /\ DefrDefr \in Seq({"defr"}) /\ Len(DefrDefr) = 2
        /\ \A k \in 1 .. 1 : DefrDefr[k] = Defr1[k]
        /\ \A k \in 1 .. 1 : DefrDefr[1 + k] = Defr1[k]
    BY DEF Defr1, DefrDefr
  <2>2. /\ Len(DefrDefr) = Len(Defr1) + Len(Defr1)
        /\ \A k \in 1 .. Len(Defr1) : DefrDefr[k] = Defr1[k]
        /\ \A k \in 1 .. Len(Defr1) : DefrDefr[Len(Defr1) + k] = Defr1[k]
    BY <2>1
  <2>3. Defr1 \o Defr1 = DefrDefr
    BY <2>1, <2>2, Joined, Zenon
  <2> QED
    BY <2>3 DEF Defr1
<1>6. <<"load", "recv">> \o Empty = LoadRecv /\ <<"clos", "defr">> \o Empty = ClosDefr
  BY DEF Empty, LoadRecv, ClosDefr
<1> QED
  BY <1>1, <1>2, <1>3, <1>4, <1>5, <1>6, <1>7

(* The references of each stack: the destructor and objclos hold none.     *)
LEMMA Weights ==
  /\ Weight(Empty) = 0 /\ Weight(Return1) = 0 /\ Weight(Clos1) = 0
  /\ Weight(Fields) = 1 /\ Weight(Defr1) = 1 /\ Weight(DefrReturn) = 1
  /\ Weight(DefrClos) = 1 /\ Weight(ClosDefr) = 1 /\ Weight(CloseDefr) = 1
  /\ Weight(TstDefr) = 1 /\ Weight(LoadRecv) = 1 /\ Weight(Recv1) = 1
  /\ Weight(DefrDefr) = 2
  /\ \A s \in Closing \cup Unlisting \cup Freeing : Weight(s) = 0
BY DEF Weight, Closing, Unlisting, Freeing,
       Empty, Fields, Defr1, DefrReturn, DefrClos, DefrDefr, Return1, Clos1, ClosDefr,
       CloseDefr, TstDefr, LoadRecv, Recv1, D3, D3Return, D3Clos, D2, D2Return, D2Clos,
       D1, D1Return, D1Clos

-----------------------------------------------------------------------------
(***************************************************************************)
(* What a step of thread t does to the stacks.                             *)
(***************************************************************************)

(* Thread t, and no other, takes a step from one stack to the next.        *)
Went(t) ==
  /\ todo' \in [Threads -> Stacks] /\ cur' \in [Threads -> Links \cup {NoLink}]
  /\ \A u \in Threads : u # t => todo'[u] = todo[u] /\ cur'[u] = cur[u]
  /\ todo'[t] \in StacksOf(t)
  /\ cur'[t] = NoLink <=> todo'[t] = Empty

(* It goes on with the link it works on.                                   *)
GoesOn(t) ==
  /\ Went(t) /\ todo[t] # Empty /\ cur[t] \in Links
  /\ todo'[t] # Empty => cur'[t] = cur[t]

(* It begins to work on link l.                                            *)
Begins(t, l) == Went(t) /\ todo[t] = Empty /\ todo'[t] # Empty /\ cur'[t] = l

(* The stacks of one thread are stacks.                                    *)
LEMMA StacksTyped ==
  /\ Stacks \subseteq Seq(Labels)
  /\ \A t \in Threads : StacksOf(t) \subseteq Stacks
  /\ "epoll" \in Threads /\ "uninit" \in Threads
<1>1. UserStacks \subseteq Seq(Labels)
  BY DEF UserStacks, Closing, Unlisting, Freeing, Labels,
         Empty, Fields, Defr1, DefrReturn, DefrClos, DefrDefr, Return1, Clos1,
         CloseDefr, TstDefr, D3, D3Return, D3Clos, D2, D2Return, D2Clos, D1, D1Return, D1Clos
<1>2. EpollStacks \cup UninitStacks \subseteq Seq(Labels)
  BY DEF EpollStacks, UninitStacks, Labels, Empty, Clos1, LoadRecv, Recv1, Defr1, ClosDefr,
         D3, D2, D1
<1> QED
  BY <1>1, <1>2 DEF Stacks, StacksOf, Threads

(* A next step takes the head of the stack off and puts others before.     *)
LEMMA DoesStep ==
  ASSUME TypeOK, Places, NEW t \in Threads, NEW s, NEW more, Does(t, s, more),
         more \o Tail(todo[t]) \in StacksOf(t)
  PROVE  /\ GoesOn(t)
         /\ todo[t] \in StacksOf(t) /\ todo[t] # << >> /\ Head(todo[t]) = s
         /\ todo'[t] = more \o Tail(todo[t])
<1>1. todo[t] \in StacksOf(t) /\ todo[t] # << >> /\ Head(todo[t]) = s /\ todo[t] # Empty
  BY DEF Places, Does, At, Idle, Empty
<1>2. todo \in [Threads -> Stacks] /\ cur \in [Threads -> Links \cup {NoLink}]
  <2>1. \A u \in Threads : todo[u] \in Stacks
    BY StacksTyped DEF Places
  <2> QED
    BY <2>1 DEF TypeOK
<1>3. todo'[t] = more \o Tail(todo[t]) /\ \A u \in Threads : u # t => todo'[u] = todo[u]
  BY <1>2 DEF Does
<1>4. todo' \in [Threads -> Stacks]
  BY <1>2, StacksTyped DEF Does
<1>5. cur' = [cur EXCEPT ![t] = IF todo'[t] = Empty THEN NoLink ELSE cur[t]]
  BY DEF Does, Empty
<1>6. cur[t] \in Links /\ cur[t] # NoLink
  BY <1>1, <1>2, LifeAssumption DEF Places
<1> QED
  BY <1>1, <1>2, <1>3, <1>4, <1>5, <1>6 DEF GoesOn, Went

(* A thread that begins has the steps it begins with.                      *)
LEMMA StartsStep ==
  ASSUME TypeOK, Places, NEW t \in Threads, NEW l \in Links, NEW steps \in StacksOf(t),
         steps # Empty, Starts(t, l, steps)
  PROVE  Begins(t, l) /\ todo'[t] = steps
<1>1. todo[t] = Empty
  BY DEF Starts, Idle, Empty
<1>2. todo \in [Threads -> Stacks] /\ cur \in [Threads -> Links \cup {NoLink}]
  <2>1. \A u \in Threads : todo[u] \in Stacks
    BY StacksTyped DEF Places
  <2> QED
    BY <2>1 DEF TypeOK
<1>3. l # NoLink
  BY LifeAssumption
<1>4. /\ todo'[t] = steps /\ cur'[t] = l
      /\ \A u \in Threads : u # t => todo'[u] = todo[u] /\ cur'[u] = cur[u]
  BY <1>2 DEF Starts
<1>5. todo' \in [Threads -> Stacks] /\ cur' \in [Threads -> Links \cup {NoLink}]
  BY <1>2, StacksTyped DEF Starts
<1> QED
  BY <1>1, <1>3, <1>4, <1>5 DEF Begins, Went

-----------------------------------------------------------------------------
(***************************************************************************)
(* Who holds a link.                                                       *)
(***************************************************************************)

(* Finitely many threads hold finitely many references.                    *)
LEMMA HoldsFinite ==
  ASSUME NEW l \in Links
  PROVE  IsFiniteSet(Holds(l)) /\ Cardinality(Holds(l)) \in Nat
<1>1. IsFiniteSet(Threads)
  <2>1. IsFiniteSet({"epoll"} \cup {"uninit"})
    BY FS_Singleton, FS_Union
  <2> QED
    BY <2>1, FS_Union, LifeAssumption DEF Threads
<1>2. IsFiniteSet({1, 2})
  <2>1. IsFiniteSet({1} \cup {2})
    BY FS_Singleton, FS_Union
  <2> QED
    BY <2>1
<1>3. IsFiniteSet(Threads \X {1, 2})
  BY <1>1, <1>2, FS_Product
<1>4. Holds(l) \subseteq Threads \X {1, 2}
  BY DEF Holds
<1> QED
  BY <1>3, <1>4, FS_Subset, FS_CardinalityType

(* A stack holds no more than two references.                              *)
LEMMA WeightTyped == \A s \in Stacks : Weight(s) \in 0 .. 2
BY DEF Weight

(* One reference held is one counted, two different ones are two.          *)
LEMMA HeldCounted ==
  ASSUME TypeOK, Counts, NEW l \in Links, NEW x \in Holds(l)
  PROVE  refs[l] >= 1 /\ \A y \in Holds(l) : y # x => refs[l] >= 2
<1>1. refs[l] \in Nat /\ Cardinality(Holds(l)) <= refs[l]
  BY DEF TypeOK, Counts
<1>2. /\ IsFiniteSet(Holds(l) \ {x}) /\ Cardinality(Holds(l)) \in Nat
      /\ Cardinality(Holds(l) \ {x}) \in Nat
      /\ Cardinality(Holds(l) \ {x}) = Cardinality(Holds(l)) - 1
  <2>1. IsFiniteSet(Holds(l)) /\ Cardinality(Holds(l)) \in Nat
    BY HoldsFinite
  <2>2. IsFiniteSet(Holds(l) \ {x}) /\ Cardinality(Holds(l) \ {x}) = Cardinality(Holds(l)) - 1
    BY <2>1, FS_RemoveElement
  <2> QED
    BY <2>1, <2>2, FS_CardinalityType
<1>3. ASSUME NEW y \in Holds(l), y # x
      PROVE  Cardinality(Holds(l) \ {x}) # 0
  BY <1>2, <1>3, FS_EmptySet
<1> QED
  BY <1>1, <1>2, <1>3

(* A thread that holds the link once is counted once.                      *)
LEMMA HolderCounted ==
  ASSUME TypeOK, Places, Counts, NEW t \in Threads, NEW l \in Links, cur[t] = l
  PROVE  /\ Weight(todo[t]) <= refs[l]
         /\ Weight(todo[t]) >= 1 =>
              \A u \in Threads : u # t /\ cur[u] = l /\ Weight(todo[u]) >= 1 => refs[l] >= 2
<1>1. \A u \in Threads : Weight(todo[u]) \in 0 .. 2
  BY WeightTyped, StacksTyped DEF Places
<1>2. \A u \in Threads, k \in {1, 2} :
        cur[u] = l /\ k <= Weight(todo[u]) => <<u, k>> \in Holds(l)
  BY DEF Holds
<1>3. refs[l] \in Nat
  BY DEF TypeOK
<1>4. CASE Weight(todo[t]) = 0
  BY <1>3, <1>4
<1>5. CASE Weight(todo[t]) >= 1
  <2>1. <<t, 1>> \in Holds(l)
    BY <1>1, <1>2, <1>5
  <2>2. refs[l] >= 1 /\ \A y \in Holds(l) : y # <<t, 1>> => refs[l] >= 2
    BY <2>1, HeldCounted
  <2>3. ASSUME Weight(todo[t]) = 2
        PROVE  refs[l] >= 2
    <3>1. <<t, 2>> \in Holds(l)
      <4>1. 2 \in {1, 2} /\ 2 <= Weight(todo[t])
        BY <2>3
      <4> QED
        BY <1>2, <4>1, Zenon
    <3>2. <<t, 2>> # <<t, 1>>
      OBVIOUS
    <3> QED
      BY <2>2, <3>1, <3>2
  <2>4. ASSUME NEW u \in Threads, u # t, cur[u] = l, Weight(todo[u]) >= 1
        PROVE  refs[l] >= 2
    <3>1. <<u, 1>> \in Holds(l) /\ <<u, 1>> # <<t, 1>>
      BY <1>1, <1>2, <2>4
    <3> QED
      BY <2>2, <3>1
  <2> QED
    BY <1>1, <1>3, <2>2, <2>3, <2>4
<1> QED
  BY <1>1, <1>4, <1>5

-----------------------------------------------------------------------------
(***************************************************************************)
(* What each action does, by the stacks it goes from and to.               *)
(***************************************************************************)

(* Stacks at which nothing is owed to the socket of the link.              *)
Quiet(s) == s \notin {Fields, CloseDefr, Recv1}

Plain == {Empty, Fields, Defr1, DefrReturn, DefrClos, DefrDefr, Return1, Clos1, ClosDefr,
          CloseDefr, TstDefr, LoadRecv, Recv1}

(* How the stacks differ.                                                  *)
LEMMA Marks ==
  /\ \A s \in {Empty, Defr1, DefrReturn, DefrClos, DefrDefr, Return1, Clos1, ClosDefr,
               TstDefr, LoadRecv} \cup Closing \cup Unlisting \cup Freeing : Quiet(s)
  /\ \A s \in Plain : ~Destructing(s) /\ ~ToUnlist(s)
  /\ \A s \in Closing \cup Unlisting : Destructing(s) /\ ToUnlist(s)
  /\ \A s \in Freeing : Destructing(s) /\ ~ToUnlist(s)
  /\ \A s \in {Fields, Defr1, DefrReturn, DefrClos, DefrDefr, Return1, Clos1, ClosDefr,
               CloseDefr, TstDefr, LoadRecv, Recv1} \cup Closing \cup Unlisting \cup Freeing :
       s # Empty
  /\ \A s \in {Empty, Fields, Defr1, DefrReturn, DefrClos, DefrDefr, Return1, ClosDefr,
          CloseDefr, TstDefr, LoadRecv, Recv1} \cup Closing \cup Unlisting \cup Freeing :
       s # Clos1
BY DEF Quiet, Plain, Destructing, ToUnlist,
       Empty, Fields, Defr1, DefrReturn, DefrClos, DefrDefr, Return1, Clos1, ClosDefr,
       CloseDefr, TstDefr, LoadRecv, Recv1, D3, D3Return, D3Clos, D2, D2Return, D2Clos,
       D1, D1Return, D1Clos, Closing, Unlisting, Freeing

(* The stacks with a label on top, and who has them.                       *)
LEMMA Tops ==
  ASSUME NEW t \in Threads, NEW a \in StacksOf(t), a # << >>
  PROVE  /\ Head(a) = "fields" => a = Fields /\ t \in Users
         /\ Head(a) = "defr" => /\ a \in {Defr1, DefrReturn, DefrClos, DefrDefr}
                                /\ a # Defr1 => t \in Users
                                /\ t # "uninit"
         /\ Head(a) = "return" => a = Return1 /\ t \in Users
         /\ Head(a) = "clos" => /\ a \in {Clos1, ClosDefr}
                                /\ a = ClosDefr => t = "epoll"
         /\ Head(a) = "close" => /\ a \in {CloseDefr, D3, D3Return, D3Clos}
                                 /\ a # D3 => t \in Users
         /\ Head(a) = "tst" => a = TstDefr /\ t \in Users
         /\ Head(a) = "load" => a = LoadRecv /\ t = "epoll"
         /\ Head(a) = "recv" => a = Recv1 /\ t = "epoll"
         /\ Head(a) = "unlist" => a \in {D2, D2Return, D2Clos} /\ (a # D2 => t \in Users)
         /\ Head(a) = "closed" => a \in {D1, D1Return, D1Clos} /\ (a # D1 => t \in Users)
<1> USE DEF StacksOf, Threads, Closing, Unlisting, Freeing,
       Empty, Fields, Defr1, DefrReturn, DefrClos, DefrDefr, Return1, Clos1, ClosDefr,
       CloseDefr, TstDefr, LoadRecv, Recv1, D3, D3Return, D3Clos, D2, D2Return, D2Clos,
       D1, D1Return, D1Clos
<1>1. CASE t = "epoll"
  BY <1>1 DEF EpollStacks
<1>2. CASE t = "uninit"
  BY <1>2 DEF UninitStacks
<1>3. CASE t \in Users /\ t # "epoll" /\ t # "uninit"
  BY <1>3 DEF UserStacks
<1> QED
  BY <1>1, <1>2, <1>3

(* The stacks of the users, of the epoll thread and of ncb_uninit.         *)
LEMMA Homes ==
  /\ \A t \in Threads : /\ Empty \in StacksOf(t) /\ Clos1 \in StacksOf(t)
                        /\ D3 \in StacksOf(t) /\ D2 \in StacksOf(t) /\ D1 \in StacksOf(t)
                        /\ t # "uninit" => Defr1 \in StacksOf(t)
  /\ LoadRecv \in StacksOf("epoll") /\ Recv1 \in StacksOf("epoll")
  /\ ClosDefr \in StacksOf("epoll")
  /\ \A t \in Users :
       /\ Fields \in StacksOf(t) /\ DefrReturn \in StacksOf(t) /\ DefrClos \in StacksOf(t)
       /\ DefrDefr \in StacksOf(t) /\ Return1 \in StacksOf(t)
       /\ CloseDefr \in StacksOf(t) /\ TstDefr \in StacksOf(t)
       /\ D3Return \in StacksOf(t) /\ D2Return \in StacksOf(t) /\ D1Return \in StacksOf(t)
       /\ D3Clos \in StacksOf(t) /\ D2Clos \in StacksOf(t) /\ D1Clos \in StacksOf(t)
       /\ t \in Threads
BY LifeAssumption DEF StacksOf, UserStacks, EpollStacks, UninitStacks,
   Closing, Unlisting, Freeing, Threads

(* objdefr gives one reference back; the last one of a closing link starts *)
(* the destructor.                                                         *)
LEMMA DefrDoes ==
  ASSUME TypeOK, Places, Counts, NEW t \in Threads, objdefr(t)
  PROVE  /\ GoesOn(t) /\ Quiet(todo[t]) /\ Quiet(todo'[t]) /\ ~Destructing(todo[t])
         /\ todo[t] # Clos1 /\ t # "uninit"
         /\ refs' = [refs EXCEPT ![cur[t]] = @ - 1]
         /\ UNCHANGED <<ncb, files, list, known, own, hist, reg, un>>
         /\ \/ /\ Weight(todo'[t]) = Weight(todo[t]) - 1 /\ Weight(todo[t]) >= 1
               /\ ~Destructing(todo'[t]) /\ UNCHANGED <<stat, told>>
            \/ /\ todo'[t] \in Closing /\ Weight(todo[t]) = 1
               /\ stat[cur[t]] = "closing" /\ refs[cur[t]] = 1
               /\ stat' = [stat EXCEPT ![cur[t]] = "destructing"]
               /\ told' = [told EXCEPT ![cur[t]] = Append(@, "preclose")]
<1> DEFINE a == todo[t]
<1>1. a \in StacksOf(t) /\ a # << >> /\ Head(a) = "defr" /\ cur[t] \in Links
  <2>1. a \in StacksOf(t) /\ a # << >> /\ Head(a) = "defr"
    BY DEF Places, objdefr, Defr, At, Idle
  <2> QED
    BY <2>1 DEF Places, TypeOK, Empty
<1>2. a \in {Defr1, DefrReturn, DefrClos, DefrDefr} /\ (a # Defr1 => t \in Users) /\ t # "uninit"
  BY <1>1, Tops
<1>3. /\ refs' = [refs EXCEPT ![cur[t]] = @ - 1]
      /\ UNCHANGED <<ncb, files, list, known, hist, reg, un>>
  BY DEF objdefr, Defr
<1>4. a # Clos1 /\ Quiet(a) /\ ~Destructing(a)
  BY <1>2, Marks DEF Plain
<1>5. CASE stat[cur[t]] = "closing" /\ refs[cur[t]] = 1
  <2>1. Destructs(t, cur[t], "defr")
    BY <1>5 DEF objdefr, Defr
  <2>2. a # DefrDefr
    BY <1>1, <1>5, HolderCounted, Weights
  <2>3. ncb_deconstruct \o Tail(a) \in {D3, D3Return, D3Clos} \cap StacksOf(t)
    <3>1. CASE a = Defr1
      BY <3>1, Tails, Joins, Homes
    <3>2. CASE a \in {DefrReturn, DefrClos}
      BY <1>2, <2>2, <3>2, <3>1, Tails, Joins, Homes
    <3> QED
      BY <1>2, <2>2, <3>1, <3>2
  <2>4. GoesOn(t) /\ todo'[t] \in {D3, D3Return, D3Clos}
    BY <2>1, <2>3, DoesStep DEF Destructs
  <2>5. todo'[t] \in Closing /\ Quiet(todo'[t])
    BY <2>4, Marks DEF Closing
  <2>6. Weight(a) = 1
    BY <1>2, <2>2, Weights
  <2>7. /\ stat' = [stat EXCEPT ![cur[t]] = "destructing"]
        /\ told' = [told EXCEPT ![cur[t]] = Append(@, "preclose")] /\ own' = own
    BY <2>1, <1>2 DEF Destructs
  <2> QED
    BY <1>2, <1>3, <1>4, <1>5, <2>4, <2>5, <2>6, <2>7
<1>6. CASE ~(stat[cur[t]] = "closing" /\ refs[cur[t]] = 1)
  <2>1. Does(t, "defr", << >>) /\ UNCHANGED <<told, own, stat>>
    BY <1>6 DEF objdefr, Defr, Passes
  <2>2. << >> \o Tail(a) \in {Empty, Return1, Clos1, Defr1} \cap StacksOf(t)
    <3>1. Tail(a) \in {Empty, Return1, Clos1, Defr1} \cap StacksOf(t)
      <4>1. CASE a = Defr1
        BY <4>1, Tails, Homes
      <4>2. CASE a # Defr1
        BY <1>2, <4>2, Tails, Homes
      <4> QED
        BY <4>1, <4>2
    <3> QED
      BY <3>1, StacksTyped, Joins
  <2>3. GoesOn(t) /\ todo'[t] = << >> \o Tail(a)
    BY <2>1, <2>2, DoesStep
  <2>4. << >> \o Tail(a) = Tail(a)
    BY <1>2, Tails, Joins, StacksTyped, Homes DEF Plain
  <2>5. Weight(Tail(a)) = Weight(a) - 1 /\ Weight(a) >= 1
    <3>1. a = DefrDefr => Weight(Tail(a)) = 1 /\ Weight(a) = 2
      BY Tails, Weights
    <3>2. a \in {Defr1, DefrReturn, DefrClos} => Weight(Tail(a)) = 0 /\ Weight(a) = 1
      BY Tails, Weights
    <3>3. (Weight(Tail(a)) = 1 /\ Weight(a) = 2) \/ (Weight(Tail(a)) = 0 /\ Weight(a) = 1)
      BY <1>2, <3>1, <3>2
    <3> QED
      BY <3>3
  <2>6. Quiet(Tail(a)) /\ ~Destructing(Tail(a))
    BY <2>2, <2>4, Marks DEF Plain
  <2> QED
    BY <1>2, <1>3, <1>4, <2>1, <2>3, <2>4, <2>5, <2>6
<1> QED
  BY <1>5, <1>6

(* objclos marks an open link, or starts its destructor when nobody is in. *)
LEMMA ClosDoes ==
  ASSUME TypeOK, Places, Counts, NEW t \in Threads, objclos(t)
  PROVE  /\ GoesOn(t) /\ Quiet(todo[t]) /\ Quiet(todo'[t]) /\ ~Destructing(todo[t])
         /\ Weight(todo'[t]) = Weight(todo[t])
         /\ t = "uninit" => todo[t] = Clos1
         /\ todo'[t] # Clos1
         /\ UNCHANGED <<refs, ncb, files, list, known, hist, reg, un>>
         /\ \/ /\ ~Destructing(todo'[t]) /\ UNCHANGED <<told, own>>
               /\ \/ stat[cur[t]] = "open" /\ stat' = [stat EXCEPT ![cur[t]] = "closing"]
                  \/ stat[cur[t]] # "open" /\ UNCHANGED stat
            \/ /\ todo'[t] \in Closing
               /\ stat[cur[t]] = "open" /\ refs[cur[t]] = 0
               /\ stat' = [stat EXCEPT ![cur[t]] = "destructing"]
               /\ told' = [told EXCEPT ![cur[t]] = Append(@, "preclose")]
               /\ own' = IF t = "uninit" THEN own \cup {cur[t]} ELSE own
<1> DEFINE a == todo[t]
<1>1. a \in StacksOf(t) /\ a # << >> /\ Head(a) = "clos" /\ cur[t] \in Links
  <2>1. a \in StacksOf(t) /\ a # << >> /\ Head(a) = "clos"
    BY DEF Places, objclos, Clos, At, Idle
  <2> QED
    BY <2>1 DEF Places, TypeOK, Empty
<1>2. a \in {Clos1, ClosDefr} /\ (a = ClosDefr => t = "epoll")
  BY <1>1, Tops
<1>3. UNCHANGED <<refs, ncb, files, list, known, hist, reg, un>>
  BY DEF objclos, Clos
<1>4. Quiet(a) /\ ~Destructing(a)
  BY <1>2, Marks DEF Plain
<1>5. CASE stat[cur[t]] = "open" /\ refs[cur[t]] = 0
  <2>1. Destructs(t, cur[t], "clos")
    BY <1>5 DEF objclos, Clos
  <2>2. a = Clos1
    BY <1>1, <1>2, <1>5, HolderCounted, Weights
  <2>3. ncb_deconstruct \o Tail(a) = D3 /\ D3 \in StacksOf(t)
    BY <2>2, Tails, Joins, Homes
  <2>4. GoesOn(t) /\ todo'[t] = D3
    BY <2>1, <2>3, DoesStep DEF Destructs
  <2>5. todo'[t] \in Closing /\ Quiet(todo'[t]) /\ todo'[t] # Clos1 /\ Weight(todo'[t]) = Weight(a)
    BY <2>2, <2>4, Marks, Weights DEF Closing
  <2>6. /\ stat' = [stat EXCEPT ![cur[t]] = "destructing"]
        /\ told' = [told EXCEPT ![cur[t]] = Append(@, "preclose")]
        /\ own' = IF t = "uninit" THEN own \cup {cur[t]} ELSE own
    BY <2>1 DEF Destructs
  <2> QED
    BY <1>3, <1>4, <1>5, <2>2, <2>4, <2>5, <2>6
<1>6. CASE ~(stat[cur[t]] = "open" /\ refs[cur[t]] = 0)
  <2>1. /\ Does(t, "clos", << >>) /\ UNCHANGED <<told, own>>
        /\ \/ stat[cur[t]] = "open" /\ stat' = [stat EXCEPT ![cur[t]] = "closing"]
           \/ stat[cur[t]] # "open" /\ UNCHANGED stat
    BY <1>6 DEF objclos, Clos, Passes
  <2>2. << >> \o Tail(a) = Tail(a) /\ Tail(a) \in {Empty, Defr1} \cap StacksOf(t)
    BY <1>2, Tails, Homes, Joins, StacksTyped, LifeAssumption
  <2>3. GoesOn(t) /\ todo'[t] = Tail(a)
    BY <2>1, <2>2, DoesStep
  <2>4. Weight(Tail(a)) = Weight(a)
    BY <1>2, Tails, Weights
  <2>5. Quiet(Tail(a)) /\ ~Destructing(Tail(a)) /\ Tail(a) # Clos1
    BY <2>2, Marks DEF Plain
  <2>6. t = "uninit" => a = Clos1
    BY <1>2
  <2> QED
    BY <1>3, <1>4, <2>1, <2>3, <2>4, <2>5, <2>6
<1> QED
  BY <1>5, <1>6

(* io_close frees the number, in *_destroy and in the destructor.          *)
LEMMA CloseDoes ==
  ASSUME TypeOK, Places, NEW t \in Threads, io_close(t)
  PROVE  /\ GoesOn(t) /\ Quiet(todo'[t]) /\ todo'[t] # Clos1
         /\ Weight(todo'[t]) = Weight(todo[t])
         /\ \/ todo[t] = CloseDefr /\ ~Destructing(todo'[t])
            \/ todo[t] \in Closing /\ todo'[t] \in Unlisting
         /\ files' = IF sockfd[cur[t]] > 0 THEN [files EXCEPT ![sockfd[cur[t]]] = NoLink]
                     ELSE files
         /\ sockfd' = [sockfd EXCEPT ![cur[t]] = 0]
         /\ UNCHANGED <<stat, refs, proto, list, user, hist, reg, un>>
<1> DEFINE a == todo[t]
<1>1. a \in StacksOf(t) /\ a # << >> /\ Head(a) = "close" /\ cur[t] \in Links
  <2>1. a \in StacksOf(t) /\ a # << >> /\ Head(a) = "close"
    BY DEF Places, io_close, Does, At, Idle
  <2> QED
    BY <2>1 DEF Places, TypeOK, Empty
<1>2. a \in {CloseDefr, D3, D3Return, D3Clos} /\ (a # D3 => t \in Users)
  BY <1>1, Tops
<1>3. << >> \o Tail(a) = Tail(a) /\ Tail(a) \in StacksOf(t)
  <2>1. CASE a = D3
    BY <2>1, Tails, Homes, Joins, StacksTyped
  <2>2. CASE a # D3
    BY <1>2, <2>2, Tails, Homes, Joins, StacksTyped, LifeAssumption
  <2> QED
    BY <2>1, <2>2
<1>4. GoesOn(t) /\ todo'[t] = Tail(a)
  <2>1. Does(t, "close", << >>)
    BY DEF io_close
  <2> QED
    BY <1>3, <2>1, DoesStep
<1>5. CASE a = CloseDefr
  <2>1. Tail(a) = Defr1
    BY <1>5, Tails
  <2>2. Weight(Tail(a)) = Weight(a)
    BY <1>5, <2>1, Weights
  <2>3. Quiet(Tail(a)) /\ ~Destructing(Tail(a)) /\ Tail(a) # Clos1
    BY <2>1, Marks DEF Plain
  <2> QED
    BY <1>4, <1>5, <2>2, <2>3 DEF io_close
<1>6. CASE a \in {D3, D3Return, D3Clos}
  <2>1. a \in Closing /\ Tail(a) \in Unlisting
    BY <1>6, Tails DEF Closing, Unlisting
  <2>2. Weight(Tail(a)) = Weight(a)
    BY <2>1, Weights
  <2>3. Quiet(Tail(a)) /\ Tail(a) # Clos1
    BY <2>1, Marks
  <2> QED
    BY <1>4, <2>1, <2>2, <2>3 DEF io_close
<1> QED
  BY <1>2, <1>5, <1>6

(* The destructor takes the link off the list and counts it down.          *)
LEMMA UnlistDoes ==
  ASSUME TypeOK, Places, NEW t \in Threads, Unlist(t)
  PROVE  /\ GoesOn(t) /\ Quiet(todo[t]) /\ Quiet(todo'[t]) /\ todo'[t] # Clos1
         /\ Weight(todo'[t]) = Weight(todo[t])
         /\ todo[t] \in Unlisting /\ todo'[t] \in Freeing
         /\ listed' = Only(listed, Links \ {cur[t]})
         /\ nl_count' = IF nl_count > 0 THEN nl_count - 1 ELSE nl_count
         /\ UNCHANGED <<stat, refs, ncb, files, user, hist, reg, un>>
<1> DEFINE a == todo[t]
<1>1. a \in StacksOf(t) /\ a # << >> /\ Head(a) = "unlist" /\ cur[t] \in Links
  <2>1. a \in StacksOf(t) /\ a # << >> /\ Head(a) = "unlist"
    BY DEF Places, Unlist, Does, At, Idle
  <2> QED
    BY <2>1 DEF Places, TypeOK, Empty
<1>2. a \in {D2, D2Return, D2Clos} /\ (a # D2 => t \in Users)
  BY <1>1, Tops
<1>3. << >> \o Tail(a) = Tail(a) /\ Tail(a) \in StacksOf(t)
  <2>1. CASE a = D2
    BY <2>1, Tails, Homes, Joins, StacksTyped
  <2>2. CASE a # D2
    BY <1>2, <2>2, Tails, Homes, Joins, StacksTyped
  <2> QED
    BY <2>1, <2>2
<1>4. GoesOn(t) /\ todo'[t] = Tail(a)
  <2>1. Does(t, "unlist", << >>)
    BY DEF Unlist
  <2> QED
    BY <1>3, <2>1, DoesStep
<1>5. a \in Unlisting /\ Tail(a) \in Freeing
  BY <1>2, Tails DEF Unlisting, Freeing
<1>6. Weight(Tail(a)) = Weight(a)
  BY <1>5, Weights
<1>7. Quiet(a) /\ Quiet(Tail(a)) /\ Tail(a) # Clos1
  BY <1>5, Marks
<1> QED
  BY <1>4, <1>5, <1>6, <1>7 DEF Unlist

(* The destructor tells the user and gives the memory back.                *)
LEMMA ClosedDoes ==
  ASSUME TypeOK, Places, NEW t \in Threads, ncb_post_closed(t)
  PROVE  /\ GoesOn(t) /\ Quiet(todo[t]) /\ Quiet(todo'[t])
         /\ todo'[t] = Clos1 => t # "uninit"
         /\ Weight(todo'[t]) = Weight(todo[t])
         /\ todo[t] \in Freeing /\ ~Destructing(todo'[t])
         /\ told' = [told EXCEPT ![cur[t]] = Append(@, "closed")]
         /\ stat' = [stat EXCEPT ![cur[t]] = "gone"]
         /\ UNCHANGED <<refs, ncb, files, list, known, own, hist, reg, un>>
<1> DEFINE a == todo[t]
<1>1. a \in StacksOf(t) /\ a # << >> /\ Head(a) = "closed" /\ cur[t] \in Links
  <2>1. a \in StacksOf(t) /\ a # << >> /\ Head(a) = "closed"
    BY DEF Places, ncb_post_closed, Does, At, Idle
  <2> QED
    BY <2>1 DEF Places, TypeOK, Empty
<1>2. a \in {D1, D1Return, D1Clos} /\ (a # D1 => t \in Users)
  BY <1>1, Tops
<1>3. << >> \o Tail(a) = Tail(a) /\ Tail(a) \in StacksOf(t)
  <2>1. CASE a = D1
    BY <2>1, Tails, Homes, Joins, StacksTyped
  <2>2. CASE a # D1
    BY <1>2, <2>2, Tails, Homes, Joins, StacksTyped
  <2> QED
    BY <2>1, <2>2
<1>4. GoesOn(t) /\ todo'[t] = Tail(a)
  <2>1. Does(t, "closed", << >>)
    BY DEF ncb_post_closed
  <2> QED
    BY <1>3, <2>1, DoesStep
<1>5. a \in Freeing /\ Tail(a) \in {Empty, Return1, Clos1}
  BY <1>2, Tails DEF Freeing
<1>6. Weight(Tail(a)) = Weight(a)
  BY <1>5, Weights
<1>7. Quiet(a) /\ Quiet(Tail(a)) /\ ~Destructing(Tail(a))
  BY <1>5, Marks DEF Plain
<1>8. Tail(a) = Clos1 => t # "uninit"
  <2>1. a = D1 => Tail(a) # Clos1
    BY Tails, Marks
  <2> QED
    BY <1>2, <2>1, LifeAssumption
<1> QED
  BY <1>4, <1>5, <1>6, <1>7, <1>8 DEF ncb_post_closed

(* The creator completes the link.                                         *)
LEMMA FillDoes ==
  ASSUME TypeOK, Places, NEW t \in Users, Fill(t)
  PROVE  /\ t \in Threads /\ GoesOn(t) /\ Quiet(todo'[t]) /\ todo'[t] # Empty
         /\ todo[t] = Fields /\ ~Destructing(todo'[t])
         /\ Weight(todo'[t]) = Weight(todo[t]) /\ t # "uninit" /\ t # "epoll"
         /\ sockfd' = [sockfd EXCEPT ![cur[t]] = OwnFd(cur[t])]
         /\ \E p \in Protocols : proto' = [proto EXCEPT ![cur[t]] = p]
         /\ known' = known \/ known' = known \cup {cur[t]}
         /\ UNCHANGED <<stat, refs, files, list, told, own, hist, reg, un>>
<1>0. t \in Threads /\ t # "uninit" /\ t # "epoll"
  BY LifeAssumption DEF Threads
<1> DEFINE a == todo[t]
<1>1. a \in StacksOf(t) /\ a # << >> /\ Head(a) = "fields" /\ cur[t] \in Links
  <2>1. a \in StacksOf(t) /\ a # << >> /\ Head(a) = "fields"
    BY <1>0 DEF Places, Fill, At, Idle
  <2> QED
    BY <1>0, <2>1 DEF Places, TypeOK, Empty
<1>2. a = Fields /\ Tail(a) = Empty
  BY <1>0, <1>1, Tops, Tails
<1>3. PICK more \in {<<"defr">>, <<"defr", "return">>, <<"defr", "clos">>} :
        Does(t, "fields", more)
  BY DEF Fill
<1>4. more \o Tail(a) \in {Defr1, DefrReturn, DefrClos}
  BY <1>2, <1>3, Joins
<1>5. more \o Tail(a) \in StacksOf(t)
  BY <1>0, <1>4, Homes
<1>6. GoesOn(t) /\ todo'[t] \in {Defr1, DefrReturn, DefrClos}
  BY <1>0, <1>3, <1>4, <1>5, DoesStep
<1>7. Quiet(todo'[t]) /\ todo'[t] # Empty /\ ~Destructing(todo'[t])
  BY <1>6, Marks DEF Plain
<1>8. Weight(todo'[t]) = Weight(a)
  BY <1>2, <1>6, Weights
<1>9. /\ sockfd' = [sockfd EXCEPT ![cur[t]] = OwnFd(cur[t])]
      /\ \E p \in Protocols : proto' = [proto EXCEPT ![cur[t]] = p]
      /\ known' = known \/ known' = known \cup {cur[t]}
      /\ UNCHANGED <<stat, refs, files, list, told, own, hist, reg, un>>
  BY DEF Fill
<1> QED
  BY <1>0, <1>2, <1>6, <1>7, <1>8, <1>9

(* A create call returns the handle.                                       *)
LEMMA ReturnDoes ==
  ASSUME TypeOK, Places, NEW t \in Users, Return(t)
  PROVE  /\ t \in Threads /\ GoesOn(t) /\ todo[t] = Return1 /\ todo'[t] = Empty
         /\ known' = known \cup {cur[t]}
         /\ UNCHANGED <<stat, refs, ncb, files, list, told, own, hist, reg, un>>
<1>0. t \in Threads
  BY DEF Threads
<1> DEFINE a == todo[t]
<1>1. a \in StacksOf(t) /\ a # << >> /\ Head(a) = "return" /\ cur[t] \in Links
  <2>1. a \in StacksOf(t) /\ a # << >> /\ Head(a) = "return"
    BY <1>0 DEF Places, Return, Does, At, Idle
  <2> QED
    BY <1>0, <2>1 DEF Places, TypeOK, Empty
<1>2. a = Return1 /\ << >> \o Tail(a) = Empty /\ Empty \in StacksOf(t)
  <2>1. a = Return1 /\ Tail(a) = Empty
    BY <1>0, <1>1, Tops, Tails
  <2>2. Empty \in StacksOf(t)
    BY <1>0, Homes
  <2> QED
    BY <1>0, <2>1, <2>2, Joins, StacksTyped
<1>3. GoesOn(t) /\ todo'[t] = Empty
  <2>1. Does(t, "return", << >>)
    BY DEF Return
  <2> QED
    BY <1>0, <1>2, <2>1, DoesStep
<1> QED
  BY <1>0, <1>2, <1>3 DEF Return

(* tcp_settst_r takes a reference of its own, or fails.                    *)
LEMMA TemplateDoes ==
  ASSUME TypeOK, Places, NEW t \in Users, SetTemplate(t)
  PROVE  /\ t \in Threads /\ GoesOn(t) /\ todo[t] = TstDefr
         /\ \/ /\ todo'[t] = DefrDefr /\ stat[cur[t]] = "open"
               /\ refs' = [refs EXCEPT ![cur[t]] = @ + 1]
            \/ todo'[t] = Defr1 /\ UNCHANGED refs
         /\ UNCHANGED <<stat, ncb, files, list, user, hist, reg, un>>
<1>0. t \in Threads /\ t # "uninit"
  BY LifeAssumption DEF Threads
<1> DEFINE a == todo[t]
<1>1. a \in StacksOf(t) /\ a # << >> /\ Head(a) = "tst" /\ cur[t] \in Links
  <2>1. a \in StacksOf(t) /\ a # << >> /\ Head(a) = "tst"
    BY <1>0 DEF Places, SetTemplate, Does, At, Idle
  <2> QED
    BY <1>0, <2>1 DEF Places, TypeOK, Empty
<1>2. a = TstDefr /\ Tail(a) = Defr1 /\ << >> \o Defr1 = Defr1 /\ <<"defr">> \o Defr1 = DefrDefr
  BY <1>0, <1>1, Tops, Tails, Joins, Homes, StacksTyped
<1>3. Defr1 \in StacksOf(t) /\ DefrDefr \in StacksOf(t)
  BY <1>0, Homes
<1>4. CASE Does(t, "tst", <<"defr">>) /\ objrefr(cur[t])
  <2>1. GoesOn(t) /\ todo'[t] = DefrDefr
    BY <1>0, <1>2, <1>3, <1>4, DoesStep
  <2> QED
    BY <1>0, <1>2, <1>4, <2>1 DEF SetTemplate, objrefr, user
<1>5. CASE Does(t, "tst", << >>) /\ UNCHANGED <<stat, refs, told, own>>
  <2>1. GoesOn(t) /\ todo'[t] = Defr1
    BY <1>0, <1>2, <1>3, <1>5, DoesStep
  <2> QED
    BY <1>0, <1>2, <1>5, <2>1 DEF SetTemplate, user
<1> QED
  BY <1>4, <1>5 DEF SetTemplate

(* The read handler loads the number of the socket.                        *)
LEMMA LoadDoes ==
  ASSUME TypeOK, Places, Load
  PROVE  /\ GoesOn("epoll") /\ todo["epoll"] = LoadRecv /\ todo'["epoll"] = Recv1
         /\ reg' = sockfd[cur["epoll"]]
         /\ UNCHANGED <<stat, refs, ncb, files, list, user, hist, un>>
<1> DEFINE t == "epoll"
<1>0. t \in Threads
  BY DEF Threads
<1> DEFINE a == todo[t]
<1>1. a \in StacksOf(t) /\ a # << >> /\ Head(a) = "load"
  BY <1>0 DEF Places, Load, Does, At, Idle
<1>2. a = LoadRecv /\ << >> \o Tail(a) = Recv1 /\ Recv1 \in StacksOf(t)
  <2>1. a = LoadRecv /\ Tail(a) = Recv1
    BY <1>0, <1>1, Tops, Tails
  <2>2. Recv1 \in StacksOf(t)
    BY Homes
  <2> QED
    BY <1>0, <2>1, <2>2, Joins, StacksTyped
<1>3. GoesOn(t) /\ todo'[t] = Recv1
  <2>1. Does(t, "load", << >>)
    BY DEF Load
  <2> QED
    BY <1>0, <1>2, <2>1, DoesStep
<1> QED
  BY <1>2, <1>3 DEF Load

(* The read handler receives, and reads on or leaves.                      *)
LEMMA RecvDoes ==
  ASSUME TypeOK, Places, RecvMore \/ RecvEnd
  PROVE  /\ GoesOn("epoll") /\ todo["epoll"] = Recv1
         /\ todo'["epoll"] \in {LoadRecv, Defr1, ClosDefr}
         /\ reg' = 0
         /\ UNCHANGED <<stat, refs, ncb, files, list, user, hist, un>>
<1> DEFINE t == "epoll"
<1>0. t \in Threads /\ t # "uninit"
  BY DEF Threads
<1> DEFINE a == todo[t]
<1>1. PICK more \in {<<"load", "recv">>, <<"defr">>, <<"clos", "defr">>} : Does(t, "recv", more)
  BY DEF RecvMore, RecvEnd
<1>2. a \in StacksOf(t) /\ a # << >> /\ Head(a) = "recv"
  BY <1>0, <1>1 DEF Places, Does, At, Idle
<1>3. a = Recv1 /\ Tail(a) = Empty
  BY <1>0, <1>2, Tops, Tails
<1>4. more \o Tail(a) \in {LoadRecv, Defr1, ClosDefr}
  BY <1>1, <1>3, Joins
<1>5. more \o Tail(a) \in StacksOf(t)
  BY <1>0, <1>4, Homes
<1>6. GoesOn(t) /\ todo'[t] = more \o Tail(a)
  BY <1>0, <1>1, <1>5, DoesStep
<1> QED
  BY <1>3, <1>4, <1>6 DEF RecvMore, RecvEnd

(* The kernel gives out a free number.                                     *)
LEMMA LowestFree ==
  ASSUME FreeFds # {}
  PROVE  LowestFd \in Fds /\ files[LowestFd] = NoLink
<1>1. FreeFds \subseteq Nat
  <2>1. Cardinality(Fds) \in Nat
    BY LifeAssumption, FS_CardinalityType
  <2> QED
    BY <2>1, LifeAssumption DEF FreeFds
<1>2. \E f \in FreeFds : \A g \in FreeFds : f <= g
  BY <1>1, Smallest
<1>3. LowestFd \in FreeFds
  BY <1>2 DEF LowestFd
<1> QED
  BY <1>3 DEF FreeFds

(* A create call: the link is alive, referenced and on the list at once.   *)
LEMMA CreateDoes ==
  ASSUME TypeOK, Places, NEW t \in Creators, NEW l \in Links, Create(t, l)
  PROVE  /\ t \in Threads /\ t # "uninit" /\ t # "epoll"
         /\ Begins(t, l) /\ todo'[t] = Fields /\ stat[l] = "none"
         /\ LowestFd \in Fds /\ files[LowestFd] = NoLink
         /\ files' = [files EXCEPT ![LowestFd] = l]
         /\ stat' = [stat EXCEPT ![l] = "open"]
         /\ refs' = [refs EXCEPT ![l] = 1]
         /\ listed' = Append(listed, l) /\ nl_count' = nl_count + 1
         /\ UNCHANGED <<ncb, user, hist, reg, un>>
<1>1. t \in Users /\ t \in Threads /\ t # "uninit" /\ t # "epoll"
  BY LifeAssumption DEF Threads
<1>2. <<"fields">> \in StacksOf(t) /\ <<"fields">> # Empty /\ Fields = <<"fields">>
  BY <1>1, Homes, Marks DEF Fields
<1>3. Begins(t, l) /\ todo'[t] = Fields
  BY <1>1, <1>2, StartsStep DEF Create
<1>4. stat[l] = "none"
  <2>1. l = Fresh /\ l # NoLink
    BY LifeAssumption DEF Create
  <2>2. l \in Unused
    BY <2>1 DEF Fresh
  <2> QED
    BY <2>2 DEF Unused
<1>5. LowestFd \in Fds /\ files[LowestFd] = NoLink
  BY LowestFree DEF Create
<1> QED
  BY <1>1, <1>3, <1>4, <1>5 DEF Create

(* A destroy call closes the link and has its descriptor closed next.      *)
LEMMA DestroyDoes ==
  ASSUME TypeOK, Places, NEW t \in Workers, NEW l \in Links, Destroy(t, l)
  PROVE  /\ t \in Threads /\ t # "uninit" /\ t # "epoll"
         /\ Begins(t, l) /\ todo'[t] = CloseDefr /\ stat[l] = "open" /\ l \in known
         /\ stat' = [stat EXCEPT ![l] = "closing"]
         /\ refs' = [refs EXCEPT ![l] = @ + 1]
         /\ shot' = shot \cup {l}
         /\ UNCHANGED <<ncb, files, list, user, leaked, own, reg, un>>
<1>1. t \in Users /\ t \in Threads /\ t # "uninit" /\ t # "epoll"
  BY LifeAssumption DEF Threads
<1>2. /\ <<"close", "defr">> \in StacksOf(t) /\ <<"close", "defr">> # Empty
      /\ CloseDefr = <<"close", "defr">>
  BY <1>1, Homes, Marks DEF CloseDefr
<1>3. Begins(t, l) /\ todo'[t] = CloseDefr
  BY <1>1, <1>2, StartsStep DEF Destroy
<1> QED
  BY <1>1, <1>3 DEF Destroy

(* A command of nis_cntl takes a reference on an open link.                *)
LEMMA CntlDoes ==
  ASSUME TypeOK, Places, NEW t \in Workers, NEW l \in Links, nis_cntl(t, l)
  PROVE  /\ t \in Threads /\ t # "uninit" /\ t # "epoll"
         /\ Begins(t, l) /\ todo'[t] \in {Defr1, TstDefr} /\ stat[l] = "open" /\ l \in known
         /\ refs' = [refs EXCEPT ![l] = @ + 1]
         /\ UNCHANGED <<stat, ncb, files, list, user, hist, reg, un>>
<1>1. t \in Users /\ t \in Threads /\ t # "uninit" /\ t # "epoll"
  BY LifeAssumption DEF Threads
<1>2. PICK steps \in {Defr1, TstDefr} : Starts(t, l, steps)
  BY DEF nis_cntl, Defr1, TstDefr
<1>3. steps \in StacksOf(t) /\ steps # Empty
  BY <1>1, Homes, Marks
<1>4. Begins(t, l) /\ todo'[t] = steps
  BY <1>1, <1>2, <1>3, StartsStep
<1> QED
  BY <1>1, <1>4 DEF nis_cntl, objrefr, user

(* A hang-up closes a link the epoll thread knows.                         *)
LEMMA HangupDoes ==
  ASSUME TypeOK, Places, NEW l \in Links, Hangup(l)
  PROVE  /\ Begins("epoll", l) /\ todo'["epoll"] = Clos1 /\ l \in known
         /\ UNCHANGED <<stat, refs, ncb, files, list, user, hist, reg, un>>
<1>1. "epoll" \in Threads
  BY DEF Threads
<1>2. <<"clos">> \in StacksOf("epoll") /\ <<"clos">> # Empty /\ Clos1 = <<"clos">>
  BY <1>1, Homes, Marks DEF Clos1
<1>3. Begins("epoll", l) /\ todo'["epoll"] = Clos1
  BY <1>1, <1>2, StartsStep DEF Hangup
<1> QED
  BY <1>3 DEF Hangup

(* A read handler takes a reference on an open link.                       *)
LEMMA InputDoes ==
  ASSUME TypeOK, Places, NEW l \in Links, Input(l)
  PROVE  /\ Begins("epoll", l) /\ todo'["epoll"] = LoadRecv /\ l \in known /\ stat[l] = "open"
         /\ refs' = [refs EXCEPT ![l] = @ + 1]
         /\ UNCHANGED <<stat, ncb, files, list, user, hist, reg, un>>
<1>1. "epoll" \in Threads
  BY DEF Threads
<1>2. /\ <<"load", "recv">> \in StacksOf("epoll") /\ <<"load", "recv">> # Empty
      /\ LoadRecv = <<"load", "recv">>
  BY <1>1, Homes, Marks DEF LoadRecv
<1>3. Begins("epoll", l) /\ todo'["epoll"] = LoadRecv
  BY <1>1, <1>2, StartsStep DEF Input
<1> QED
  BY <1>3 DEF Input, objrefr, user

(* ncb_uninit closes the next of the handles it has copied.                *)
LEMMA UninitCloseDoes ==
  ASSUME TypeOK, Places, UninitClose
  PROVE  /\ hlds # << >> /\ Head(hlds) \in Links /\ hlds' = Tail(hlds)
         /\ Begins("uninit", Head(hlds)) /\ todo'["uninit"] = Clos1
         /\ UNCHANGED <<stat, refs, ncb, files, list, user, hist, reg, last, due, starved>>
<1>1. "uninit" \in Threads
  BY DEF Threads
<1>2. <<"clos">> \in StacksOf("uninit") /\ <<"clos">> # Empty /\ Clos1 = <<"clos">>
  BY <1>1, Homes, Marks DEF Clos1
<1>3. hlds # << >> /\ Head(hlds) \in Links
  BY DEF UninitClose, TypeOK
<1>4. Begins("uninit", Head(hlds)) /\ todo'["uninit"] = Clos1
  BY <1>1, <1>2, <1>3, StartsStep DEF UninitClose
<1> QED
  BY <1>3, <1>4 DEF UninitClose

-----------------------------------------------------------------------------
(***************************************************************************)
(* Every step is one of these.                                             *)
(***************************************************************************)
LEMMA StepCases ==
  ASSUME [Next]_vars
  PROVE  \/ \E t \in Threads : \/ objdefr(t) \/ objclos(t) \/ io_close(t) \/ Unlist(t)
                               \/ ncb_post_closed(t)
         \/ \E t \in Users : Fill(t) \/ Return(t) \/ SetTemplate(t)
         \/ Load \/ (RecvMore \/ RecvEnd)
         \/ \E t \in Creators, l \in Links : Create(t, l)
         \/ \E t \in Workers, l \in Links :
              Destroy(t, l) \/ nis_cntl(t, l) \/ nis_cntl_unknown(t, l)
         \/ \E l \in Links : Hangup(l) \/ Input(l)
         \/ \E p \in Uninits : UninitCopy(p)
         \/ \E p \in Uninits : UninitNoMemory(p)
         \/ UninitClose
         \/ UNCHANGED vars
<1>1. CASE \E t \in Threads : Continue(t)
  <2>1. PICK t \in Threads : Continue(t)
    BY <1>1
  <2> QED
    BY <2>1 DEF Continue, DestructStep, CreateStep
<1> QED
  BY <1>1 DEF Next

(* Either one thread goes from one stack to the next, or none.             *)
LEMMA OneMoves ==
  ASSUME TypeOK, Places, Counts, [Next]_vars
  PROVE  (\E t \in Threads : Went(t)) \/ UNCHANGED <<todo, cur>>
<1> SUFFICES ASSUME ~ UNCHANGED <<todo, cur>>
             PROVE  \E t \in Threads : Went(t)
  OBVIOUS
<1> USE DEF GoesOn, Begins
<1>1. ASSUME NEW t \in Threads, objdefr(t) PROVE Went(t)
  BY <1>1, DefrDoes
<1>2. ASSUME NEW t \in Threads, objclos(t) PROVE Went(t)
  BY <1>2, ClosDoes
<1>3. ASSUME NEW t \in Threads, io_close(t) PROVE Went(t)
  BY <1>3, CloseDoes
<1>4. ASSUME NEW t \in Threads, Unlist(t) PROVE Went(t)
  BY <1>4, UnlistDoes
<1>5. ASSUME NEW t \in Threads, ncb_post_closed(t) PROVE Went(t)
  BY <1>5, ClosedDoes
<1>6. ASSUME NEW t \in Users, Fill(t) PROVE t \in Threads /\ Went(t)
  BY <1>6, FillDoes
<1>7. ASSUME NEW t \in Users, Return(t) PROVE t \in Threads /\ Went(t)
  BY <1>7, ReturnDoes
<1>8. ASSUME NEW t \in Users, SetTemplate(t) PROVE t \in Threads /\ Went(t)
  BY <1>8, TemplateDoes
<1>9. Load => Went("epoll")
  BY LoadDoes
<1>10. RecvMore \/ RecvEnd => Went("epoll")
  BY RecvDoes
<1>11. ASSUME NEW t \in Creators, NEW l \in Links, Create(t, l) PROVE t \in Threads /\ Went(t)
  BY <1>11, CreateDoes
<1>12. ASSUME NEW t \in Workers, NEW l \in Links, Destroy(t, l) PROVE t \in Threads /\ Went(t)
  BY <1>12, DestroyDoes
<1>13. ASSUME NEW t \in Workers, NEW l \in Links, nis_cntl(t, l) PROVE t \in Threads /\ Went(t)
  BY <1>13, CntlDoes
<1>14. ASSUME NEW l \in Links, Hangup(l) PROVE Went("epoll")
  BY <1>14, HangupDoes
<1>15. ASSUME NEW l \in Links, Input(l) PROVE Went("epoll")
  BY <1>15, InputDoes
<1>16. UninitClose => Went("uninit")
  BY UninitCloseDoes
<1>17. \A t \in Workers, l \in Links : nis_cntl_unknown(t, l) => UNCHANGED <<todo, cur>>
  BY DEF nis_cntl_unknown
<1>18. \A p \in Uninits : UninitCopy(p) \/ UninitNoMemory(p) => UNCHANGED <<todo, cur>>
  BY DEF UninitCopy, UninitNoMemory
<1>19. UNCHANGED vars => UNCHANGED <<todo, cur>>
  BY DEF vars
<1>20. "epoll" \in Threads /\ "uninit" \in Threads
  BY DEF Threads
<1> QED
  BY <1>1, <1>2, <1>3, <1>4, <1>5, <1>6, <1>7, <1>8, <1>9, <1>10, <1>11, <1>12, <1>13,
     <1>14, <1>15, <1>16, <1>17, <1>18, <1>19, <1>20, StepCases

(* Places is kept.                                                         *)
LEMMA PlacesKept ==
  ASSUME TypeOK, Places, Counts, [Next]_vars
  PROVE  Places'
<1>1. CASE UNCHANGED <<todo, cur>>
  BY <1>1 DEF Places
<1>2. ASSUME NEW t \in Threads, Went(t)
      PROVE  Places'
  BY <1>2 DEF Went, Places
<1> QED
  BY <1>1, <1>2, OneMoves

(* How many references thread t has on link l.                             *)
Share(t, l) == IF cur[t] = l THEN Weight(todo[t]) ELSE 0

(* The references held follow those of the thread that moves.              *)
LEMMA HoldsMove ==
  ASSUME TypeOK, Places, NEW t \in Threads, Went(t), NEW l \in Links
  PROVE  /\ Cardinality(Holds(l)) \in Nat /\ Cardinality(Holds(l)') \in Nat
         /\ Share(t, l)' <= Share(t, l) => Cardinality(Holds(l)') <= Cardinality(Holds(l))
         /\ Share(t, l)' <= Share(t, l) - 1 =>
              Cardinality(Holds(l)') <= Cardinality(Holds(l)) - 1
         /\ Share(t, l)' <= Share(t, l) + 1 =>
              Cardinality(Holds(l)') <= Cardinality(Holds(l)) + 1
<1>1. IsFiniteSet(Holds(l)) /\ Cardinality(Holds(l)) \in Nat
  BY HoldsFinite
<1>2. Share(t, l) \in 0 .. 2 /\ Share(t, l)' \in 0 .. 2
  BY WeightTyped, StacksTyped DEF Share, Places, Went
<1>3. \A h \in Threads \X {1, 2} : h \in Holds(l) <=> h[2] <= Share(h[1], l)
  BY DEF Holds, Share
<1>4. \A h \in Threads \X {1, 2} : h \in Holds(l)' <=> h[2] <= Share(h[1], l)'
  BY DEF Holds, Share
<1>5. \A u \in Threads : u # t => Share(u, l)' = Share(u, l)
  BY DEF Went, Share
<1>6. Holds(l) \subseteq Threads \X {1, 2} /\ Holds(l)' \subseteq Threads \X {1, 2}
  BY DEF Holds
<1>7. ASSUME Share(t, l)' <= Share(t, l)
      PROVE  Holds(l)' \subseteq Holds(l)
  BY <1>2, <1>3, <1>4, <1>5, <1>6, <1>7
<1>8. ASSUME Share(t, l)' <= Share(t, l) - 1
      PROVE  /\ Holds(l)' \subseteq Holds(l) \ {<<t, Share(t, l)>>}
             /\ <<t, Share(t, l)>> \in Holds(l)
  BY <1>2, <1>3, <1>4, <1>5, <1>6, <1>8
<1>9. ASSUME Share(t, l)' <= Share(t, l) + 1
      PROVE  Holds(l)' \subseteq Holds(l) \cup {<<t, Share(t, l) + 1>>}
  BY <1>2, <1>3, <1>4, <1>5, <1>6, <1>9
<1>10. /\ IsFiniteSet(Holds(l) \ {<<t, Share(t, l)>>})
       /\ <<t, Share(t, l)>> \in Holds(l) =>
            Cardinality(Holds(l) \ {<<t, Share(t, l)>>}) = Cardinality(Holds(l)) - 1
  BY <1>1, FS_RemoveElement
<1>11. /\ IsFiniteSet(Holds(l) \cup {<<t, Share(t, l) + 1>>})
       /\ \/ Cardinality(Holds(l) \cup {<<t, Share(t, l) + 1>>}) = Cardinality(Holds(l)) + 1
          \/ Cardinality(Holds(l) \cup {<<t, Share(t, l) + 1>>}) = Cardinality(Holds(l))
  BY <1>1, FS_AddElement
<1>12. Cardinality(Holds(l)') \in Nat
  <2>1. IsFiniteSet(Threads \X {1, 2})
    <3>1. IsFiniteSet({"epoll"} \cup {"uninit"}) /\ IsFiniteSet({1} \cup {2})
      BY FS_Singleton, FS_Union
    <3>2. IsFiniteSet(Threads)
      BY <3>1, FS_Union, LifeAssumption DEF Threads
    <3> QED
      BY <3>1, <3>2, FS_Product
  <2> QED
    BY <1>6, <2>1, FS_Subset, FS_CardinalityType
<1>13. Share(t, l)' <= Share(t, l) => Cardinality(Holds(l)') <= Cardinality(Holds(l))
  BY <1>1, <1>7, FS_Subset
<1>14. ASSUME Share(t, l)' <= Share(t, l) - 1
       PROVE  Cardinality(Holds(l)') <= Cardinality(Holds(l)) - 1
  BY <1>8, <1>10, <1>14, FS_Subset
<1>15. ASSUME Share(t, l)' <= Share(t, l) + 1
       PROVE  Cardinality(Holds(l)') <= Cardinality(Holds(l)) + 1
  <2>1. Cardinality(Holds(l)') <= Cardinality(Holds(l) \cup {<<t, Share(t, l) + 1>>})
    BY <1>9, <1>11, <1>15, FS_Subset
  <2> QED
    BY <1>1, <1>11, <1>12, <2>1
<1> QED
  BY <1>1, <1>12, <1>13, <1>14, <1>15

Dead == {"none", "destructing", "gone"}

(* Counts is kept when the count of each link follows the share of the     *)
(* thread that moves, and stays zero for links that nobody may be in.      *)
LEMMA CountsStep ==
  ASSUME TypeOK, Places, Counts, NEW t \in Threads, Went(t),
         \A l \in Links : \/ refs'[l] = refs[l] /\ Share(t, l)' <= Share(t, l)
                          \/ refs'[l] = refs[l] + 1 /\ Share(t, l)' <= Share(t, l) + 1
                          \/ refs'[l] = refs[l] - 1 /\ Share(t, l)' <= Share(t, l) - 1,
         \A l \in Links : stat'[l] \in Dead => refs'[l] = 0
  PROVE  Counts'
<1>1. ASSUME NEW l \in Links
      PROVE  Cardinality(Holds(l)') <= refs'[l]
  <2>1. refs[l] \in Nat /\ Cardinality(Holds(l)) <= refs[l]
    BY DEF TypeOK, Counts
  <2>2. /\ Cardinality(Holds(l)) \in Nat /\ Cardinality(Holds(l)') \in Nat
        /\ Share(t, l)' <= Share(t, l) => Cardinality(Holds(l)') <= Cardinality(Holds(l))
        /\ Share(t, l)' <= Share(t, l) - 1 =>
             Cardinality(Holds(l)') <= Cardinality(Holds(l)) - 1
        /\ Share(t, l)' <= Share(t, l) + 1 =>
             Cardinality(Holds(l)') <= Cardinality(Holds(l)) + 1
    BY HoldsMove
  <2> QED
    BY <2>1, <2>2
<1> QED
  BY <1>1 DEF Counts, Dead

(* The share of a thread that goes on, or begins.                          *)
LEMMA ShareGoesOn ==
  ASSUME TypeOK, Places, NEW t \in Threads, GoesOn(t)
  PROVE  /\ \A l \in Links : l = cur[t] =>
              Share(t, l) = Weight(todo[t]) /\ Share(t, l)' = Weight(todo'[t])
         /\ \A l \in Links : l # cur[t] => Share(t, l) = 0 /\ Share(t, l)' = 0
         /\ Weight(todo[t]) \in 0 .. 2 /\ Weight(todo'[t]) \in 0 .. 2
<1>1. Weight(todo[t]) \in 0 .. 2 /\ Weight(todo'[t]) \in 0 .. 2
  BY WeightTyped, StacksTyped DEF Places, GoesOn, Went
<1>2. CASE todo'[t] = Empty
  <2>1. cur'[t] = NoLink /\ Weight(todo'[t]) = 0
    BY <1>2, Weights DEF GoesOn, Went
  <2> QED
    BY <1>1, <2>1, LifeAssumption DEF Share, GoesOn
<1>3. CASE todo'[t] # Empty
  BY <1>1, <1>3 DEF Share, GoesOn
<1> QED
  BY <1>2, <1>3

(* A thread that begins held nothing before.                               *)
LEMMA ShareBegins ==
  ASSUME TypeOK, Places, NEW t \in Threads, NEW l \in Links, Begins(t, l)
  PROVE  /\ Share(t, l) = 0 /\ Share(t, l)' = Weight(todo'[t])
         /\ \A k \in Links : k # l => Share(t, k) = 0 /\ Share(t, k)' = 0
<1>1. cur[t] = NoLink
  BY DEF Places, Begins
<1> QED
  BY <1>1, LifeAssumption DEF Share, Begins


(* Counts is kept.                                                         *)
LEMMA CountsKept ==
  ASSUME TypeOK, Places, Counts, OneDestructor, [Next]_vars
  PROVE  Counts'
<1>0. /\ refs \in [Links -> Nat] /\ \A l \in Links : stat[l] \in Dead => refs[l] = 0
      /\ stat \in [Links -> {"none", "open", "closing", "destructing", "gone"}]
  BY DEF TypeOK, Counts, Dead
<1>1. ASSUME NEW t \in Threads, objdefr(t) PROVE Counts'
  <2> DEFINE c == cur[t]
  <2>1. /\ GoesOn(t) /\ Weight(todo'[t]) <= Weight(todo[t]) - 1 /\ Weight(todo[t]) >= 1
        /\ refs' = [refs EXCEPT ![c] = @ - 1]
    <3>1. todo'[t] \in Closing => Weight(todo'[t]) = 0
      BY Weights
    <3>2. /\ GoesOn(t) /\ refs' = [refs EXCEPT ![c] = @ - 1]
          /\ \/ Weight(todo'[t]) = Weight(todo[t]) - 1 /\ Weight(todo[t]) >= 1
             \/ Weight(todo'[t]) = 0 /\ Weight(todo[t]) = 1
      BY <1>1, <3>1, DefrDoes
    <3>3. Weight(todo[t]) \in 0 .. 2 /\ Weight(todo'[t]) \in 0 .. 2
      BY <3>2, ShareGoesOn
    <3> QED
      BY <3>2, <3>3
  <2>2. \/ UNCHANGED stat
        \/ stat' = [stat EXCEPT ![c] = "destructing"] /\ refs[c] = 1
    BY <1>1, DefrDoes
  <2>3. c \in Links /\ Went(t)
    BY <2>1 DEF GoesOn
  <2>4. stat[c] \notin Dead
    <3>1. Weight(todo[t]) <= refs[c]
      BY <2>3, HolderCounted
    <3>2. refs[c] # 0
      BY <1>0, <2>1, <2>3, <3>1, ShareGoesOn
    <3> QED
      BY <1>0, <2>3, <3>2
  <2>5. \A l \in Links : \/ refs'[l] = refs[l] /\ Share(t, l)' <= Share(t, l)
                         \/ refs'[l] = refs[l] - 1 /\ Share(t, l)' <= Share(t, l) - 1
    <3>1. /\ \A l \in Links : l = c =>
               Share(t, l) = Weight(todo[t]) /\ Share(t, l)' = Weight(todo'[t])
          /\ \A l \in Links : l # c => Share(t, l) = 0 /\ Share(t, l)' = 0
          /\ Weight(todo[t]) \in 0 .. 2 /\ Weight(todo'[t]) \in 0 .. 2
      BY <2>1, ShareGoesOn
    <3>2. \A l \in Links : l = c => refs'[l] = refs[l] - 1 /\ Share(t, l)' <= Share(t, l) - 1
      BY <1>0, <2>1, <2>3, <3>1
    <3>3. \A l \in Links : l # c => refs'[l] = refs[l] /\ Share(t, l)' <= Share(t, l)
      BY <1>0, <2>1, <3>1
    <3> QED
      BY <3>2, <3>3
  <2>6. \A l \in Links : stat'[l] \in Dead => refs'[l] = 0
    BY <1>0, <2>1, <2>2, <2>3, <2>4
  <2> QED
    BY <2>3, <2>5, <2>6, CountsStep
<1>2. ASSUME NEW t \in Threads, GoesOn(t), Weight(todo'[t]) = Weight(todo[t]), refs' = refs,
             \A l \in Links : stat'[l] \in Dead => stat[l] \in Dead \/ refs[l] = 0
      PROVE  Counts'
  <2>1. Went(t) /\ cur[t] \in Links
    BY <1>2 DEF GoesOn
  <2>2. \A l \in Links : refs'[l] = refs[l] /\ Share(t, l)' <= Share(t, l)
    <3>1. /\ \A l \in Links : l = cur[t] =>
               Share(t, l) = Weight(todo[t]) /\ Share(t, l)' = Weight(todo'[t])
          /\ \A l \in Links : l # cur[t] => Share(t, l) = 0 /\ Share(t, l)' = 0
          /\ Weight(todo[t]) \in 0 .. 2 /\ Weight(todo'[t]) \in 0 .. 2
      BY <1>2, ShareGoesOn
    <3> QED
      BY <1>2, <3>1
  <2>3. \A l \in Links : stat'[l] \in Dead => refs'[l] = 0
    BY <1>0, <1>2
  <2> QED
    BY <2>1, <2>2, <2>3, CountsStep
<1>3. ASSUME NEW t \in Threads, objclos(t) PROVE Counts'
  <2>1. GoesOn(t) /\ Weight(todo'[t]) = Weight(todo[t]) /\ refs' = refs
    BY <1>3, ClosDoes
  <2>2. \/ stat' = [stat EXCEPT ![cur[t]] = "closing"]
        \/ UNCHANGED stat
        \/ stat' = [stat EXCEPT ![cur[t]] = "destructing"] /\ refs[cur[t]] = 0
    BY <1>3, ClosDoes
  <2>3. \A l \in Links : stat'[l] \in Dead => stat[l] \in Dead \/ refs[l] = 0
    BY <1>0, <2>2 DEF Dead
  <2> QED
    BY <1>2, <2>1, <2>3
<1>4. ASSUME NEW t \in Threads, io_close(t) PROVE Counts'
  <2>1. GoesOn(t) /\ Weight(todo'[t]) = Weight(todo[t]) /\ refs' = refs /\ stat' = stat
    BY <1>4, CloseDoes
  <2> QED
    BY <1>2, <2>1
<1>5. ASSUME NEW t \in Threads, Unlist(t) PROVE Counts'
  <2>1. GoesOn(t) /\ Weight(todo'[t]) = Weight(todo[t]) /\ refs' = refs /\ stat' = stat
    BY <1>5, UnlistDoes
  <2> QED
    BY <1>2, <2>1
<1>6. ASSUME NEW t \in Threads, ncb_post_closed(t) PROVE Counts'
  <2>1. /\ GoesOn(t) /\ Weight(todo'[t]) = Weight(todo[t]) /\ refs' = refs
        /\ stat' = [stat EXCEPT ![cur[t]] = "gone"] /\ todo[t] \in Freeing
    BY <1>6, ClosedDoes
  <2>2. stat[cur[t]] = "destructing"
    BY <2>1, Marks DEF OneDestructor
  <2>3. \A l \in Links : stat'[l] \in Dead => stat[l] \in Dead \/ refs[l] = 0
    BY <1>0, <2>1, <2>2 DEF Dead
  <2> QED
    BY <1>2, <2>1, <2>3
<1>7. ASSUME NEW t \in Users, Fill(t) PROVE Counts'
  <2>1. /\ GoesOn(t) /\ Weight(todo'[t]) = Weight(todo[t]) /\ refs' = refs /\ stat' = stat
        /\ t \in Threads
    BY <1>7, FillDoes
  <2> QED
    BY <1>2, <2>1
<1>8. ASSUME NEW t \in Users, Return(t) PROVE Counts'
  <2>1. /\ GoesOn(t) /\ Weight(todo'[t]) = Weight(todo[t]) /\ refs' = refs /\ stat' = stat
        /\ t \in Threads
    BY <1>8, ReturnDoes, Weights
  <2> QED
    BY <1>2, <2>1
<1>9. ASSUME NEW t \in Users, SetTemplate(t) PROVE Counts'
  <2>1. /\ t \in Threads /\ GoesOn(t) /\ Went(t) /\ cur[t] \in Links /\ stat' = stat
    BY <1>9, TemplateDoes DEF GoesOn
  <2>2. CASE todo'[t] = Defr1 /\ refs' = refs
    <3>1. Weight(todo'[t]) = Weight(todo[t])
      BY <1>9, <2>2, TemplateDoes, Weights
    <3> QED
      BY <1>2, <2>1, <2>2, <3>1
  <2>3. CASE /\ todo'[t] = DefrDefr /\ stat[cur[t]] = "open"
             /\ refs' = [refs EXCEPT ![cur[t]] = @ + 1]
    <3>1. Weight(todo'[t]) = 2 /\ Weight(todo[t]) = 1
      BY <1>9, <2>3, TemplateDoes, Weights
    <3>2. \A l \in Links : \/ refs'[l] = refs[l] /\ Share(t, l)' <= Share(t, l)
                           \/ refs'[l] = refs[l] + 1 /\ Share(t, l)' <= Share(t, l) + 1
      <4>1. /\ \A l \in Links : l = cur[t] =>
               Share(t, l) = Weight(todo[t]) /\ Share(t, l)' = Weight(todo'[t])
            /\ \A l \in Links : l # cur[t] => Share(t, l) = 0 /\ Share(t, l)' = 0
            /\ Weight(todo[t]) \in 0 .. 2 /\ Weight(todo'[t]) \in 0 .. 2
        BY <2>1, ShareGoesOn
      <4>2. \A l \in Links : l = cur[t] =>
              refs'[l] = refs[l] + 1 /\ Share(t, l)' <= Share(t, l) + 1
        BY <1>0, <2>1, <2>3, <3>1, <4>1
      <4>3. \A l \in Links : l # cur[t] => refs'[l] = refs[l] /\ Share(t, l)' <= Share(t, l)
        BY <1>0, <2>1, <2>3, <4>1
      <4> QED
        BY <4>2, <4>3
    <3>3. \A l \in Links : stat'[l] \in Dead => refs'[l] = 0
      BY <1>0, <2>1, <2>3 DEF Dead
    <3> QED
      BY <2>1, <3>2, <3>3, CountsStep
  <2> QED
    BY <1>9, <2>2, <2>3, TemplateDoes
<1>10. Load => Counts'
  <2>1. Load => /\ GoesOn("epoll") /\ Weight(todo'["epoll"]) = Weight(todo["epoll"])
                /\ refs' = refs /\ stat' = stat /\ "epoll" \in Threads
    BY LoadDoes, Weights, StacksTyped
  <2> QED
    BY <1>2, <2>1
<1>11. RecvMore \/ RecvEnd => Counts'
  <2>1. RecvMore \/ RecvEnd =>
           /\ GoesOn("epoll") /\ Weight(todo'["epoll"]) = Weight(todo["epoll"])
           /\ refs' = refs /\ stat' = stat /\ "epoll" \in Threads
    BY RecvDoes, Weights, StacksTyped
  <2> QED
    BY <1>2, <2>1
<1>12. ASSUME NEW t \in Threads, NEW l \in Links, Begins(t, l), Weight(todo'[t]) <= 1,
              refs' = [refs EXCEPT ![l] = @ + 1], stat'[l] \notin Dead,
              \A k \in Links : k # l => stat'[k] = stat[k]
       PROVE  Counts'
  <2>1. Went(t) /\ Weight(todo'[t]) \in 0 .. 2
    BY <1>12, WeightTyped, StacksTyped DEF Begins, Went
  <2>2. \A k \in Links : \/ refs'[k] = refs[k] /\ Share(t, k)' <= Share(t, k)
                         \/ refs'[k] = refs[k] + 1 /\ Share(t, k)' <= Share(t, k) + 1
    BY <1>0, <1>12, <2>1, ShareBegins
  <2>3. \A k \in Links : stat'[k] \in Dead => refs'[k] = 0
    BY <1>0, <1>12
  <2> QED
    BY <2>1, <2>2, <2>3, CountsStep
<1>13. ASSUME NEW t \in Creators, NEW l \in Links, Create(t, l) PROVE Counts'
  <2>1. /\ t \in Threads /\ Begins(t, l) /\ Weight(todo'[t]) <= 1
        /\ stat[l] = "none" /\ stat' = [stat EXCEPT ![l] = "open"]
        /\ refs' = [refs EXCEPT ![l] = 1]
    BY <1>13, CreateDoes, Weights
  <2>2. refs' = [refs EXCEPT ![l] = @ + 1]
    <3>1. refs[l] = 0
      BY <1>0, <2>1 DEF Dead
    <3>2. refs[l] + 1 = 1
      BY <3>1
    <3> QED
      BY <2>1, <3>2
  <2>3. stat'[l] \notin Dead /\ \A k \in Links : k # l => stat'[k] = stat[k]
    BY <1>0, <2>1 DEF Dead
  <2> QED
    BY <1>12, <2>1, <2>2, <2>3
<1>14. ASSUME NEW t \in Workers, NEW l \in Links, Destroy(t, l) PROVE Counts'
  <2>1. /\ t \in Threads /\ Begins(t, l) /\ Weight(todo'[t]) <= 1
        /\ stat' = [stat EXCEPT ![l] = "closing"] /\ refs' = [refs EXCEPT ![l] = @ + 1]
    BY <1>14, DestroyDoes, Weights
  <2>2. stat'[l] \notin Dead /\ \A k \in Links : k # l => stat'[k] = stat[k]
    BY <1>0, <2>1 DEF Dead
  <2> QED
    BY <1>12, <2>1, <2>2
<1>15. ASSUME NEW t \in Workers, NEW l \in Links, nis_cntl(t, l) PROVE Counts'
  <2>1. /\ t \in Threads /\ Begins(t, l) /\ Weight(todo'[t]) <= 1
        /\ stat' = stat /\ stat[l] = "open" /\ refs' = [refs EXCEPT ![l] = @ + 1]
    BY <1>15, CntlDoes, Weights
  <2>2. stat'[l] \notin Dead
    BY <2>1 DEF Dead
  <2> QED
    BY <1>12, <2>1, <2>2
<1>16. ASSUME NEW l \in Links, Input(l) PROVE Counts'
  <2>1. /\ "epoll" \in Threads /\ Begins("epoll", l) /\ Weight(todo'["epoll"]) <= 1
        /\ stat' = stat /\ stat[l] = "open" /\ refs' = [refs EXCEPT ![l] = @ + 1]
    BY <1>16, InputDoes, Weights, StacksTyped
  <2>2. stat'[l] \notin Dead
    BY <2>1 DEF Dead
  <2> QED
    BY <1>12, <2>1, <2>2
<1>17. ASSUME NEW t \in Threads, NEW l \in Links, Begins(t, l), Weight(todo'[t]) = 0,
              refs' = refs, stat' = stat
       PROVE  Counts'
  <2>1. Went(t)
    BY <1>17 DEF Begins
  <2>2. \A k \in Links : refs'[k] = refs[k] /\ Share(t, k)' <= Share(t, k)
    BY <1>0, <1>17, <2>1, ShareBegins
  <2> QED
    BY <1>0, <1>17, <2>1, <2>2, CountsStep
<1>18. ASSUME NEW l \in Links, Hangup(l) PROVE Counts'
  <2>1. /\ "epoll" \in Threads /\ Begins("epoll", l) /\ Weight(todo'["epoll"]) = 0
        /\ refs' = refs /\ stat' = stat
    BY <1>18, HangupDoes, Weights, StacksTyped
  <2> QED
    BY <1>17, <2>1
<1>19. UninitClose => Counts'
  <2> SUFFICES ASSUME UninitClose PROVE Counts'
    OBVIOUS
  <2>1. /\ "uninit" \in Threads /\ Head(hlds) \in Links
        /\ Begins("uninit", Head(hlds)) /\ Weight(todo'["uninit"]) = 0
        /\ refs' = refs /\ stat' = stat
    BY UninitCloseDoes, Weights, StacksTyped
  <2> QED
    BY <1>17, <2>1
<1>20. ASSUME NEW t \in Workers, NEW l \in Links, nis_cntl_unknown(t, l) PROVE Counts'
  <2>1. /\ UNCHANGED <<todo, cur, stat>> /\ refs' = [refs EXCEPT ![l] = @ + 1]
        /\ stat[l] = "open"
    BY <1>20 DEF nis_cntl_unknown, objrefr
  <2>2. \A k \in Links : Holds(k)' = Holds(k)
    BY <2>1 DEF Holds
  <2>3. \A k \in Links : Cardinality(Holds(k)) \in Nat /\ Cardinality(Holds(k)) <= refs[k]
    BY HoldsFinite DEF Counts
  <2>4. \A k \in Links : Cardinality(Holds(k)') <= refs'[k]
    BY <1>0, <2>1, <2>2, <2>3
  <2>5. \A k \in Links : stat'[k] \in Dead => refs'[k] = 0
    BY <1>0, <2>1 DEF Dead
  <2> QED
    BY <2>4, <2>5 DEF Counts, Dead
<1>21. ASSUME UNCHANGED <<todo, cur, refs, stat>> PROVE Counts'
  BY <1>21 DEF Counts, Holds
<1>22. \A p \in Uninits : UninitCopy(p) \/ UninitNoMemory(p) => Counts'
  BY <1>21 DEF UninitCopy, UninitNoMemory
<1>23. UNCHANGED vars => Counts'
  BY <1>21 DEF vars
<1> QED
  BY <1>1, <1>3, <1>4, <1>5, <1>6, <1>7, <1>8, <1>9, <1>10, <1>11, <1>13, <1>14, <1>15,
     <1>16, <1>18, <1>19, <1>20, <1>22, <1>23, StepCases

(* A thread at a destructor works on a link.                               *)
LEMMA DestructorHasLink ==
  ASSUME TypeOK, Places, NEW t \in Threads, Destructing(todo[t])
  PROVE  todo[t] # Empty /\ cur[t] \in Links
<1>1. todo[t] # Empty
  BY Marks DEF Destructing
<1> QED
  BY <1>1 DEF TypeOK, Places

(* OneDestructor is kept when no destructor takes part in a step.          *)
LEMMA DestructorElsewhere ==
  ASSUME TypeOK, Places, OneDestructor, NEW t \in Threads, Went(t),
         ~Destructing(todo[t]), ~Destructing(todo'[t]),
         \A l \in Links : stat'[l] = "destructing" <=> stat[l] = "destructing"
  PROVE  OneDestructor'
<1>1. \A u \in Threads : u # t => todo'[u] = todo[u] /\ cur'[u] = cur[u]
  BY DEF Went
<1>2. \A u \in Threads : Destructing(todo'[u]) =>
        u # t /\ Destructing(todo[u]) /\ cur[u] \in Links /\ stat[cur[u]] = "destructing"
  BY <1>1, DestructorHasLink DEF OneDestructor
<1>3. ASSUME NEW l \in Links, stat'[l] = "destructing"
      PROVE  \E u \in Threads : cur'[u] = l /\ Destructing(todo'[u])
  <2>1. PICK u \in Threads : cur[u] = l /\ Destructing(todo[u])
    BY <1>3 DEF OneDestructor
  <2> QED
    BY <1>1, <2>1
<1>4. \A u \in Threads : Destructing(todo'[u]) => stat'[cur'[u]] = "destructing"
  BY <1>1, <1>2
<1>5. \A u, v \in Threads :
        Destructing(todo'[u]) /\ Destructing(todo'[v]) /\ cur'[u] = cur'[v] => u = v
  BY <1>1, <1>2 DEF OneDestructor
<1> QED
  BY <1>3, <1>4, <1>5 DEF OneDestructor, Destructing

(* OneDestructor is kept when a destructor starts.                         *)
LEMMA DestructorStarts ==
  ASSUME TypeOK, Places, OneDestructor, NEW t \in Threads, GoesOn(t),
         ~Destructing(todo[t]), todo'[t] \in Closing, stat[cur[t]] # "destructing",
         stat' = [stat EXCEPT ![cur[t]] = "destructing"]
  PROVE  OneDestructor'
<1>0. Destructing(todo'[t]) /\ todo'[t] # Empty /\ cur'[t] = cur[t] /\ cur[t] \in Links
  BY Marks DEF GoesOn
<1>1. \A u \in Threads : u # t => todo'[u] = todo[u] /\ cur'[u] = cur[u]
  BY DEF GoesOn, Went
<1>2. \A u \in Threads : u # t /\ Destructing(todo'[u]) =>
        Destructing(todo[u]) /\ cur[u] \in Links /\ stat[cur[u]] = "destructing"
  BY <1>1, DestructorHasLink DEF OneDestructor
<1>3. ASSUME NEW l \in Links, stat'[l] = "destructing"
      PROVE  \E u \in Threads : cur'[u] = l /\ Destructing(todo'[u])
  <2>1. CASE l = cur[t]
    BY <1>0, <2>1
  <2>2. CASE l # cur[t]
    <3>1. stat[l] = "destructing"
      BY <1>3, <2>2 DEF TypeOK
    <3>2. PICK u \in Threads : cur[u] = l /\ Destructing(todo[u])
      BY <3>1 DEF OneDestructor
    <3> QED
      BY <1>1, <2>2, <3>2
  <2> QED
    BY <2>1, <2>2
<1>4. \A u \in Threads : Destructing(todo'[u]) => stat'[cur'[u]] = "destructing"
  BY <1>0, <1>1, <1>2 DEF TypeOK
<1>5. \A u, v \in Threads :
        Destructing(todo'[u]) /\ Destructing(todo'[v]) /\ cur'[u] = cur'[v] => u = v
  BY <1>0, <1>1, <1>2 DEF OneDestructor
<1> QED
  BY <1>3, <1>4, <1>5 DEF OneDestructor, Destructing

(* OneDestructor is kept when a destructor goes on.                        *)
LEMMA DestructorGoesOn ==
  ASSUME TypeOK, Places, OneDestructor, NEW t \in Threads, GoesOn(t),
         Destructing(todo[t]), Destructing(todo'[t]), stat' = stat
  PROVE  OneDestructor'
<1>0. todo'[t] # Empty /\ cur'[t] = cur[t]
  BY Marks DEF GoesOn, Destructing
<1>1. \A u \in Threads : u # t => todo'[u] = todo[u] /\ cur'[u] = cur[u]
  BY DEF GoesOn, Went
<1>2. \A u \in Threads : cur'[u] = cur[u] /\ (Destructing(todo'[u]) <=> Destructing(todo[u]))
  BY <1>0, <1>1
<1> QED
  BY <1>2 DEF OneDestructor, Destructing

(* OneDestructor is kept when a destructor ends.                           *)
LEMMA DestructorEnds ==
  ASSUME TypeOK, Places, OneDestructor, NEW t \in Threads, GoesOn(t),
         Destructing(todo[t]), ~Destructing(todo'[t]),
         stat' = [stat EXCEPT ![cur[t]] = "gone"]
  PROVE  OneDestructor'
<1>0. cur[t] \in Links
  BY DEF GoesOn
<1>1. \A u \in Threads : u # t => todo'[u] = todo[u] /\ cur'[u] = cur[u]
  BY DEF GoesOn, Went
<1>2. \A u \in Threads : Destructing(todo'[u]) =>
        /\ u # t /\ Destructing(todo[u]) /\ cur[u] \in Links /\ cur[u] # cur[t]
        /\ stat[cur[u]] = "destructing"
  BY <1>1, DestructorHasLink DEF OneDestructor
<1>3. ASSUME NEW l \in Links, stat'[l] = "destructing"
      PROVE  \E u \in Threads : cur'[u] = l /\ Destructing(todo'[u])
  <2>1. l # cur[t] /\ stat[l] = "destructing"
    BY <1>0, <1>3 DEF TypeOK
  <2>2. PICK u \in Threads : cur[u] = l /\ Destructing(todo[u])
    BY <2>1 DEF OneDestructor
  <2> QED
    BY <1>1, <2>1, <2>2
<1>4. \A u \in Threads : Destructing(todo'[u]) => stat'[cur'[u]] = "destructing"
  BY <1>0, <1>1, <1>2 DEF TypeOK
<1>5. \A u, v \in Threads :
        Destructing(todo'[u]) /\ Destructing(todo'[v]) /\ cur'[u] = cur'[v] => u = v
  BY <1>1, <1>2 DEF OneDestructor
<1> QED
  BY <1>3, <1>4, <1>5 DEF OneDestructor, Destructing

(* OneDestructor is kept.                                                  *)
LEMMA OneDestructorKept ==
  ASSUME TypeOK, Places, Counts, OneDestructor, [Next]_vars
  PROVE  OneDestructor'
<1>0. stat \in [Links -> {"none", "open", "closing", "destructing", "gone"}]
  BY DEF TypeOK
<1>1. ASSUME NEW t \in Threads, objdefr(t) PROVE OneDestructor'
  <2>1. GoesOn(t) /\ ~Destructing(todo[t])
    BY <1>1, DefrDoes
  <2>2. CASE ~Destructing(todo'[t]) /\ UNCHANGED stat
    BY <2>1, <2>2, DestructorElsewhere DEF GoesOn
  <2>3. CASE /\ todo'[t] \in Closing /\ stat[cur[t]] = "closing"
             /\ stat' = [stat EXCEPT ![cur[t]] = "destructing"]
    BY <2>1, <2>3, DestructorStarts
  <2> QED
    BY <1>1, <2>2, <2>3, DefrDoes
<1>2. ASSUME NEW t \in Threads, objclos(t) PROVE OneDestructor'
  <2>1. GoesOn(t) /\ ~Destructing(todo[t])
    BY <1>2, ClosDoes
  <2>2. CASE /\ ~Destructing(todo'[t])
             /\ \/ stat[cur[t]] = "open" /\ stat' = [stat EXCEPT ![cur[t]] = "closing"]
                \/ stat[cur[t]] # "open" /\ UNCHANGED stat
    <3>1. \A l \in Links : stat'[l] = "destructing" <=> stat[l] = "destructing"
      BY <1>0, <2>2
    <3> QED
      BY <2>1, <2>2, <3>1, DestructorElsewhere DEF GoesOn
  <2>3. CASE /\ todo'[t] \in Closing /\ stat[cur[t]] = "open"
             /\ stat' = [stat EXCEPT ![cur[t]] = "destructing"]
    BY <2>1, <2>3, DestructorStarts
  <2> QED
    BY <1>2, <2>2, <2>3, ClosDoes
<1>3. ASSUME NEW t \in Threads, io_close(t) PROVE OneDestructor'
  <2>1. GoesOn(t) /\ stat' = stat
    BY <1>3, CloseDoes
  <2>2. CASE todo[t] = CloseDefr /\ ~Destructing(todo'[t])
    BY <2>1, <2>2, Marks, DestructorElsewhere DEF GoesOn, Plain
  <2>3. CASE todo[t] \in Closing /\ todo'[t] \in Unlisting
    BY <2>1, <2>3, Marks, DestructorGoesOn
  <2> QED
    BY <1>3, <2>2, <2>3, CloseDoes
<1>4. ASSUME NEW t \in Threads, Unlist(t) PROVE OneDestructor'
  <2>1. GoesOn(t) /\ stat' = stat /\ Destructing(todo[t]) /\ Destructing(todo'[t])
    BY <1>4, UnlistDoes, Marks
  <2> QED
    BY <2>1, DestructorGoesOn
<1>5. ASSUME NEW t \in Threads, ncb_post_closed(t) PROVE OneDestructor'
  <2>1. /\ GoesOn(t) /\ Destructing(todo[t]) /\ ~Destructing(todo'[t])
        /\ stat' = [stat EXCEPT ![cur[t]] = "gone"]
    BY <1>5, ClosedDoes, Marks
  <2> QED
    BY <2>1, DestructorEnds
<1>6. ASSUME NEW t \in Threads, Went(t), todo[t] \in Plain, todo'[t] \in Plain,
             \A l \in Links : stat'[l] = "destructing" <=> stat[l] = "destructing"
      PROVE  OneDestructor'
  BY <1>6, Marks, DestructorElsewhere
<1>7. ASSUME NEW t \in Users, Fill(t) PROVE OneDestructor'
  <2>1. /\ t \in Threads /\ Went(t) /\ todo[t] = Fields /\ ~Destructing(todo'[t]) /\ stat' = stat
    BY <1>7, FillDoes DEF GoesOn
  <2> QED
    BY <2>1, Marks, DestructorElsewhere DEF Plain
<1>8. ASSUME NEW t \in Users, Return(t) PROVE OneDestructor'
  <2>1. t \in Threads /\ Went(t) /\ todo[t] = Return1 /\ todo'[t] = Empty /\ stat' = stat
    BY <1>8, ReturnDoes DEF GoesOn
  <2> QED
    BY <2>1, <1>6 DEF Plain
<1>9. ASSUME NEW t \in Users, SetTemplate(t) PROVE OneDestructor'
  <2>1. /\ t \in Threads /\ Went(t) /\ todo[t] = TstDefr /\ todo'[t] \in {DefrDefr, Defr1}
        /\ stat' = stat
    BY <1>9, TemplateDoes DEF GoesOn
  <2> QED
    BY <2>1, <1>6 DEF Plain
<1>10. Load => OneDestructor'
  <2>1. Load => /\ "epoll" \in Threads /\ Went("epoll") /\ todo["epoll"] \in Plain
                /\ todo'["epoll"] \in Plain /\ stat' = stat
    BY LoadDoes, StacksTyped DEF GoesOn, Plain
  <2> QED
    BY <2>1, <1>6
<1>11. RecvMore \/ RecvEnd => OneDestructor'
  <2>1. RecvMore \/ RecvEnd =>
          /\ "epoll" \in Threads /\ Went("epoll") /\ todo["epoll"] \in Plain
          /\ todo'["epoll"] \in Plain /\ stat' = stat
    BY RecvDoes, StacksTyped DEF GoesOn, Plain
  <2> QED
    BY <2>1, <1>6
<1>12. ASSUME NEW t \in Creators, NEW l \in Links, Create(t, l) PROVE OneDestructor'
  <2>1. /\ t \in Threads /\ Went(t) /\ todo[t] = Empty /\ todo'[t] = Fields
        /\ stat[l] = "none" /\ stat' = [stat EXCEPT ![l] = "open"]
    BY <1>12, CreateDoes DEF Begins
  <2>2. \A k \in Links : stat'[k] = "destructing" <=> stat[k] = "destructing"
    BY <1>0, <2>1
  <2> QED
    BY <2>1, <2>2, <1>6 DEF Plain
<1>13. ASSUME NEW t \in Workers, NEW l \in Links, Destroy(t, l) PROVE OneDestructor'
  <2>1. /\ t \in Threads /\ Went(t) /\ todo[t] = Empty /\ todo'[t] = CloseDefr
        /\ stat[l] = "open" /\ stat' = [stat EXCEPT ![l] = "closing"]
    BY <1>13, DestroyDoes DEF Begins
  <2>2. \A k \in Links : stat'[k] = "destructing" <=> stat[k] = "destructing"
    BY <1>0, <2>1
  <2> QED
    BY <2>1, <2>2, <1>6 DEF Plain
<1>14. ASSUME NEW t \in Workers, NEW l \in Links, nis_cntl(t, l) PROVE OneDestructor'
  <2>1. /\ t \in Threads /\ Went(t) /\ todo[t] = Empty /\ todo'[t] \in {Defr1, TstDefr}
        /\ stat' = stat
    BY <1>14, CntlDoes DEF Begins
  <2> QED
    BY <2>1, <1>6 DEF Plain
<1>15. ASSUME NEW l \in Links, Hangup(l) PROVE OneDestructor'
  <2>1. /\ Went("epoll") /\ todo["epoll"] = Empty /\ todo'["epoll"] = Clos1 /\ stat' = stat
        /\ "epoll" \in Threads
    BY <1>15, HangupDoes, StacksTyped DEF Begins
  <2> QED
    BY <2>1, <1>6 DEF Plain
<1>16. ASSUME NEW l \in Links, Input(l) PROVE OneDestructor'
  <2>1. /\ Went("epoll") /\ todo["epoll"] = Empty /\ todo'["epoll"] = LoadRecv /\ stat' = stat
        /\ "epoll" \in Threads
    BY <1>16, InputDoes, StacksTyped DEF Begins
  <2> QED
    BY <2>1, <1>6 DEF Plain
<1>17. UninitClose => OneDestructor'
  <2>1. UninitClose => /\ Went("uninit") /\ todo["uninit"] = Empty /\ todo'["uninit"] = Clos1
                       /\ stat' = stat /\ "uninit" \in Threads
    BY UninitCloseDoes, StacksTyped DEF Begins
  <2> QED
    BY <2>1, <1>6 DEF Plain
<1>18. ASSUME UNCHANGED <<todo, cur, stat>> PROVE OneDestructor'
  BY <1>18 DEF OneDestructor
<1>19. \A t \in Workers, l \in Links : nis_cntl_unknown(t, l) => OneDestructor'
  BY <1>18 DEF nis_cntl_unknown, objrefr
<1>20. \A p \in Uninits : UninitCopy(p) \/ UninitNoMemory(p) => OneDestructor'
  BY <1>18 DEF UninitCopy, UninitNoMemory
<1>21. UNCHANGED vars => OneDestructor'
  BY <1>18 DEF vars
<1> QED
  BY <1>1, <1>2, <1>3, <1>4, <1>5, <1>7, <1>8, <1>9, <1>10, <1>11, <1>12, <1>13, <1>14, <1>15,
     <1>16, <1>17, <1>19, <1>20, <1>21, StepCases

-----------------------------------------------------------------------------
(* Told, link by link.                                                     *)
LEMMA ToldAs ==
  Told <=> \A l \in Links :
             /\ stat[l] = "destructing" => told[l] = <<"preclose">>
             /\ stat[l] = "gone" => told[l] = <<"preclose", "closed">>
             /\ stat[l] \notin {"destructing", "gone"} => told[l] = << >>
BY DEF Told

(* Told is kept.                                                           *)
LEMMA ToldKept ==
  ASSUME TypeOK, Places, Counts, OneDestructor, Told, [Next]_vars
  PROVE  Told'
<1>0. /\ stat \in [Links -> {"none", "open", "closing", "destructing", "gone"}]
      /\ told \in [Links -> Seq({"preclose", "closed"})]
      /\ \A l \in Links :
             /\ stat[l] = "destructing" => told[l] = <<"preclose">>
             /\ stat[l] = "gone" => told[l] = <<"preclose", "closed">>
             /\ stat[l] \notin {"destructing", "gone"} => told[l] = << >>
  BY ToldAs DEF TypeOK
<1>1. ASSUME \A l \in Links :
               /\ stat'[l] = "destructing" => told'[l] = <<"preclose">>
               /\ stat'[l] = "gone" => told'[l] = <<"preclose", "closed">>
               /\ stat'[l] \notin {"destructing", "gone"} => told'[l] = << >>
      PROVE  Told'
  BY <1>1 DEF Told
<1>2. /\ Append(<< >>, "preclose") = <<"preclose">>
      /\ Append(<<"preclose">>, "closed") = <<"preclose", "closed">>
  <2> DEFINE S == {"preclose", "closed"}
  <2>1. /\ <<"preclose">> \in Seq(S) /\ Len(<<"preclose">>) = 1 /\ <<"preclose">>[1] = "preclose"
        /\ <<"preclose", "closed">> \in Seq(S) /\ Len(<<"preclose", "closed">>) = 2
        /\ \A i \in 1 .. 2 : <<"preclose", "closed">>[i] = IF i = 1 THEN "preclose" ELSE "closed"
    OBVIOUS
  <2> HIDE DEF S
  <2>2. ASSUME NEW p \in Seq(S), NEW q \in Seq(S), Len(p) = 1, p[1] = "preclose", Len(q) = 2,
               \A i \in 1 .. 2 : q[i] = IF i = 1 THEN "preclose" ELSE "closed"
        PROVE  Append(p, "closed") = q
    <3>1. "closed" \in S
      BY DEF S
    <3>3. /\ Append(p, "closed") \in Seq(S) /\ Len(Append(p, "closed")) = Len(p) + 1
          /\ \A i \in 1 .. Len(p) : Append(p, "closed")[i] = p[i]
          /\ Append(p, "closed")[Len(p) + 1] = "closed"
      BY <3>1, AppendProperties
    <3>4. /\ Len(Append(p, "closed")) = 2 /\ Append(p, "closed")[1] = "preclose"
          /\ Append(p, "closed")[2] = "closed"
      BY <2>2, <3>3
    <3>2. /\ Append(p, "closed") \in Seq(S) /\ Len(Append(p, "closed")) = 2
          /\ \A i \in 1 .. 2 : Append(p, "closed")[i] = IF i = 1 THEN "preclose" ELSE "closed"
      BY <3>3, <3>4
    <3> QED
      BY <2>2, <3>2, SeqEqual
  <2>3. Append(<< >>, "preclose") = <<"preclose">>
    OBVIOUS
  <2> QED
    BY <2>1, <2>2, <2>3
<1>3. ASSUME NEW c \in Links, stat[c] \in {"open", "closing"},
             stat' = [stat EXCEPT ![c] = "destructing"],
             told' = [told EXCEPT ![c] = Append(@, "preclose")]
      PROVE  Told'
  <2>1. told'[c] = <<"preclose">> /\ stat'[c] = "destructing"
    BY <1>0, <1>2, <1>3
  <2>2. \A l \in Links : l # c => told'[l] = told[l] /\ stat'[l] = stat[l]
    BY <1>0, <1>3
  <2> QED
    BY <1>0, <1>1, <2>1, <2>2
<1>4. ASSUME told' = told,
             \A l \in Links : \/ stat'[l] = stat[l]
                              \/ /\ stat[l] \notin {"destructing", "gone"}
                                 /\ stat'[l] \notin {"destructing", "gone"}
      PROVE  Told'
  BY <1>0, <1>1, <1>4
<1>5. ASSUME NEW t \in Threads, objdefr(t) PROVE Told'
  <2>1. cur[t] \in Links
    BY <1>5, DefrDoes DEF GoesOn
  <2>2. CASE UNCHANGED <<stat, told>>
    BY <2>2, <1>4
  <2>3. CASE /\ stat[cur[t]] = "closing" /\ stat' = [stat EXCEPT ![cur[t]] = "destructing"]
             /\ told' = [told EXCEPT ![cur[t]] = Append(@, "preclose")]
    BY <2>1, <2>3, <1>3
  <2> QED
    BY <1>5, <2>2, <2>3, DefrDoes
<1>6. ASSUME NEW t \in Threads, objclos(t) PROVE Told'
  <2>1. cur[t] \in Links
    BY <1>6, ClosDoes DEF GoesOn
  <2>2. CASE /\ told' = told
             /\ \/ stat[cur[t]] = "open" /\ stat' = [stat EXCEPT ![cur[t]] = "closing"]
                \/ UNCHANGED stat
    BY <1>0, <2>2, <1>4
  <2>3. CASE /\ stat[cur[t]] = "open" /\ stat' = [stat EXCEPT ![cur[t]] = "destructing"]
             /\ told' = [told EXCEPT ![cur[t]] = Append(@, "preclose")]
    BY <2>1, <2>3, <1>3
  <2> QED
    BY <1>6, <2>2, <2>3, ClosDoes
<1>7. ASSUME NEW t \in Threads, ncb_post_closed(t) PROVE Told'
  <2> DEFINE c == cur[t]
  <2>1. /\ c \in Links /\ stat[c] = "destructing"
        /\ told' = [told EXCEPT ![c] = Append(@, "closed")]
        /\ stat' = [stat EXCEPT ![c] = "gone"]
    BY <1>7, ClosedDoes, Marks DEF GoesOn, OneDestructor
  <2> HIDE DEF c
  <2>2. told'[c] = <<"preclose", "closed">> /\ stat'[c] = "gone"
    BY <1>0, <1>2, <2>1
  <2>3. \A l \in Links : l # c => told'[l] = told[l] /\ stat'[l] = stat[l]
    BY <1>0, <2>1
  <2> QED
    BY <1>0, <1>1, <2>1, <2>2, <2>3
<1>8. ASSUME NEW t \in Creators, NEW l \in Links, Create(t, l) PROVE Told'
  <2>1. told' = told /\ stat[l] = "none" /\ stat' = [stat EXCEPT ![l] = "open"]
    BY <1>8, CreateDoes DEF user
  <2> QED
    BY <1>0, <1>4, <2>1
<1>9. ASSUME NEW t \in Workers, NEW l \in Links, Destroy(t, l) PROVE Told'
  <2>1. told' = told /\ stat[l] = "open" /\ stat' = [stat EXCEPT ![l] = "closing"]
    BY <1>9, DestroyDoes DEF user
  <2> QED
    BY <1>0, <1>4, <2>1
<1>10. ASSUME UNCHANGED <<stat, told>> PROVE Told'
  BY <1>10, <1>4
<1>11. ASSUME NEW t \in Threads, io_close(t) \/ Unlist(t) PROVE Told'
  BY <1>10, <1>11 DEF io_close, Unlist, user
<1>12. ASSUME NEW t \in Users, Fill(t) \/ Return(t) \/ SetTemplate(t) PROVE Told'
  BY <1>10, <1>12 DEF Fill, Return, SetTemplate, user, objrefr
<1>13. Load \/ (RecvMore \/ RecvEnd) => Told'
  BY <1>10 DEF Load, RecvMore, RecvEnd, user
<1>14. ASSUME NEW t \in Workers, NEW l \in Links, nis_cntl(t, l) \/ nis_cntl_unknown(t, l)
       PROVE  Told'
  BY <1>10, <1>14 DEF nis_cntl, nis_cntl_unknown, user, objrefr
<1>15. ASSUME NEW l \in Links, Hangup(l) \/ Input(l) PROVE Told'
  BY <1>10, <1>15 DEF Hangup, Input, user, objrefr
<1>16. \A p \in Uninits : UninitCopy(p) \/ UninitNoMemory(p) => Told'
  BY <1>10 DEF UninitCopy, UninitNoMemory, user
<1>17. UninitClose => Told'
  BY <1>10 DEF UninitClose, user
<1>18. UNCHANGED vars => Told'
  BY <1>10 DEF vars
<1> QED
  BY <1>5, <1>6, <1>7, <1>8, <1>9, <1>11, <1>12, <1>13, <1>14, <1>15, <1>16, <1>17, <1>18,
     StepCases

-----------------------------------------------------------------------------
(* The stacks and the links of the threads keep their types.               *)
LEMMA TodoTyped ==
  ASSUME TypeOK, Places, Counts, [Next]_vars
  PROVE  /\ todo' \in [Threads -> Seq(Labels)]
         /\ cur' \in [Threads -> Links \cup {NoLink}]
<1>1. CASE UNCHANGED <<todo, cur>>
  BY <1>1 DEF TypeOK
<1>2. ASSUME NEW t \in Threads, Went(t)
      PROVE  /\ todo' \in [Threads -> Seq(Labels)]
             /\ cur' \in [Threads -> Links \cup {NoLink}]
  BY <1>2, StacksTyped DEF Went
<1> QED
  BY <1>1, <1>2, OneMoves

(* The values of the variables but the stacks.                             *)
Typed1 ==
  /\ stat \in [Links -> {"none", "open", "closing", "destructing", "gone"}]
  /\ refs \in [Links -> Nat]
  /\ told \in [Links -> Seq({"preclose", "closed"})]

Typed2 ==
  /\ proto \in [Links -> Protocols \cup {"unset"}]
  /\ sockfd \in [Links -> Fds \cup {0}]
  /\ files \in [Fds -> Links \cup {NoLink}]
  /\ listed \in Seq(Links) /\ nl_count \in Nat

Typed3 ==
  /\ known \subseteq Links /\ leaked \subseteq Links /\ shot \subseteq Links
  /\ due \subseteq Links /\ own \subseteq Links /\ starved \in BOOLEAN
  /\ reg \in Fds \cup {0}
  /\ hlds \in Seq(Links) /\ last \in Links \cup {NoLink}

(* The objects and their callbacks keep their types.                       *)
LEMMA Typed1Kept ==
  ASSUME TypeOK, Places, Counts, [Next]_vars
  PROVE  Typed1'
<1>0. Typed1
  BY DEF TypeOK, Typed1
<1>20. ASSUME NEW c \in Links, NEW x \in {"preclose", "closed"},
              told' = [told EXCEPT ![c] = Append(@, x)]
       PROVE  told' \in [Links -> Seq({"preclose", "closed"})]
  <2>1. told[c] \in Seq({"preclose", "closed"})
    BY <1>0 DEF Typed1
  <2>2. Append(told[c], x) \in Seq({"preclose", "closed"})
    BY <2>1
  <2> QED
    BY <1>0, <1>20, <2>2 DEF Typed1
<1>21. ASSUME NEW c \in Links,
              refs' = [refs EXCEPT ![c] = @ + 1] \/ refs' = [refs EXCEPT ![c] = 1]
       PROVE  refs' \in [Links -> Nat]
  <2>1. CASE refs' = [refs EXCEPT ![c] = @ + 1]
    <3>1. refs[c] + 1 \in Nat
      BY <1>0 DEF Typed1
    <3> QED
      BY <1>0, <2>1, <3>1 DEF Typed1
  <2>2. CASE refs' = [refs EXCEPT ![c] = 1]
    BY <1>0, <2>2 DEF Typed1
  <2> QED
    BY <1>21, <2>1, <2>2
<1>1. ASSUME NEW t \in Threads, objdefr(t) PROVE Typed1'
  <2>1. /\ cur[t] \in Links /\ refs' = [refs EXCEPT ![cur[t]] = @ - 1]
        /\ \/ UNCHANGED <<stat, told>>
           \/ /\ stat' = [stat EXCEPT ![cur[t]] = "destructing"]
              /\ told' = [told EXCEPT ![cur[t]] = Append(@, "preclose")]
    BY <1>1, DefrDoes DEF GoesOn
  <2>2. Weight(todo[t]) <= refs[cur[t]] /\ Weight(todo[t]) \in 1 .. 2
    <3>1. Weight(todo[t]) <= refs[cur[t]]
      BY <2>1, HolderCounted
    <3>2. Weight(todo[t]) \in 0 .. 2
      BY WeightTyped, StacksTyped DEF Places
    <3>3. Weight(todo[t]) >= 1
      BY <1>1, DefrDoes
    <3> QED
      BY <3>1, <3>2, <3>3
  <2>3. refs[cur[t]] - 1 \in Nat
    BY <1>0, <2>1, <2>2 DEF Typed1
  <2>4. refs' \in [Links -> Nat]
    BY <1>0, <2>1, <2>3 DEF Typed1
  <2>5. told' \in [Links -> Seq({"preclose", "closed"})]
    BY <1>0, <1>20, <2>1 DEF Typed1
  <2>6. stat' \in [Links -> {"none", "open", "closing", "destructing", "gone"}]
    BY <1>0, <2>1 DEF Typed1
  <2> QED
    BY <2>4, <2>5, <2>6 DEF Typed1
<1>2. ASSUME NEW t \in Threads, objclos(t) PROVE Typed1'
  <2>1. /\ cur[t] \in Links /\ refs' = refs
        /\ \/ /\ told' = told
              /\ stat' = [stat EXCEPT ![cur[t]] = "closing"] \/ UNCHANGED stat
           \/ /\ stat' = [stat EXCEPT ![cur[t]] = "destructing"]
              /\ told' = [told EXCEPT ![cur[t]] = Append(@, "preclose")]
    BY <1>2, ClosDoes DEF GoesOn
  <2>2. told' \in [Links -> Seq({"preclose", "closed"})]
    BY <1>0, <1>20, <2>1 DEF Typed1
  <2>3. stat' \in [Links -> {"none", "open", "closing", "destructing", "gone"}]
    BY <1>0, <2>1 DEF Typed1
  <2> QED
    BY <1>0, <2>1, <2>2, <2>3 DEF Typed1
<1>3. ASSUME NEW t \in Threads, io_close(t) \/ Unlist(t) PROVE Typed1'
  BY <1>0, <1>3, CloseDoes, UnlistDoes DEF Typed1, user
<1>4. ASSUME NEW t \in Threads, ncb_post_closed(t) PROVE Typed1'
  <2>1. /\ cur[t] \in Links /\ refs' = refs /\ stat' = [stat EXCEPT ![cur[t]] = "gone"]
        /\ told' = [told EXCEPT ![cur[t]] = Append(@, "closed")]
    BY <1>4, ClosedDoes DEF GoesOn
  <2>2. told' \in [Links -> Seq({"preclose", "closed"})]
    BY <1>20, <2>1
  <2> QED
    BY <1>0, <2>1, <2>2 DEF Typed1
<1>5. ASSUME NEW t \in Users, Fill(t) \/ Return(t) PROVE Typed1'
  BY <1>0, <1>5, FillDoes, ReturnDoes DEF Typed1
<1>6. ASSUME NEW t \in Users, SetTemplate(t) PROVE Typed1'
  <2>1. refs' \in [Links -> Nat]
    BY <1>0, <1>6, <1>21, TemplateDoes DEF Typed1, GoesOn
  <2>2. /\ told' = told
        /\ stat' \in [Links -> {"none", "open", "closing", "destructing", "gone"}]
    BY <1>0, <1>6, TemplateDoes DEF Typed1, user
  <2> QED
    BY <1>0, <2>1, <2>2 DEF Typed1
<1>7. Load \/ (RecvMore \/ RecvEnd) => Typed1'
  BY <1>0, LoadDoes, RecvDoes DEF Typed1, user
<1>8. ASSUME NEW t \in Creators, NEW l \in Links, Create(t, l) PROVE Typed1'
  <2>1. refs' \in [Links -> Nat]
    BY <1>0, <1>8, <1>21, CreateDoes DEF Typed1
  <2>2. /\ told' = told
        /\ stat' \in [Links -> {"none", "open", "closing", "destructing", "gone"}]
    BY <1>0, <1>8, CreateDoes DEF Typed1, user
  <2> QED
    BY <1>0, <2>1, <2>2 DEF Typed1
<1>9. ASSUME NEW t \in Workers, NEW l \in Links, Destroy(t, l) PROVE Typed1'
  <2>1. refs' \in [Links -> Nat]
    BY <1>0, <1>9, <1>21, DestroyDoes DEF Typed1
  <2>2. /\ told' = told
        /\ stat' \in [Links -> {"none", "open", "closing", "destructing", "gone"}]
    BY <1>0, <1>9, DestroyDoes DEF Typed1, user
  <2> QED
    BY <1>0, <2>1, <2>2 DEF Typed1
<1>10. ASSUME NEW t \in Workers, NEW l \in Links, nis_cntl(t, l) PROVE Typed1'
  <2>1. refs' \in [Links -> Nat]
    BY <1>0, <1>10, <1>21, CntlDoes DEF Typed1
  <2>2. /\ told' = told
        /\ stat' \in [Links -> {"none", "open", "closing", "destructing", "gone"}]
    BY <1>0, <1>10, CntlDoes DEF Typed1, user
  <2> QED
    BY <1>0, <2>1, <2>2 DEF Typed1
<1>11. ASSUME NEW t \in Workers, NEW l \in Links, nis_cntl_unknown(t, l) PROVE Typed1'
  BY <1>0, <1>11 DEF Typed1, nis_cntl_unknown, objrefr
<1>12. ASSUME NEW l \in Links, Hangup(l) \/ Input(l) PROVE Typed1'
  BY <1>0, <1>12, HangupDoes, InputDoes DEF Typed1, user
<1>13. \A p \in Uninits : UninitCopy(p) \/ UninitNoMemory(p) => Typed1'
  BY <1>0 DEF UninitCopy, UninitNoMemory, Typed1, user
<1>14. UninitClose => Typed1'
  BY <1>0 DEF UninitClose, Typed1, user
<1>15. UNCHANGED vars => Typed1'
  BY <1>0 DEF vars, Typed1
<1> QED
  BY <1>1, <1>2, <1>3, <1>4, <1>5, <1>6, <1>7, <1>8, <1>9, <1>10, <1>11, <1>12, <1>13,
     <1>14, <1>15, StepCases

(* The descriptors, the list and its count keep their types.               *)
LEMMA Typed2Kept ==
  ASSUME TypeOK, Places, Counts, Sockets, [Next]_vars
  PROVE  Typed2'
<1>0. Typed2
  BY DEF TypeOK, Typed2
<1>1. ASSUME NEW t \in Threads, objdefr(t) \/ objclos(t) \/ ncb_post_closed(t) PROVE Typed2'
  BY <1>0, <1>1 DEF Typed2, objdefr, objclos, ncb_post_closed, ncb, list
<1>2. ASSUME NEW t \in Threads, io_close(t) PROVE Typed2'
  BY <1>0, <1>2, CloseDoes DEF Typed2, list, GoesOn
<1>3. ASSUME NEW t \in Threads, Unlist(t) PROVE Typed2'
  <2>1. /\ listed' = Only(listed, Links \ {cur[t]})
        /\ nl_count' = IF nl_count > 0 THEN nl_count - 1 ELSE nl_count
        /\ UNCHANGED <<ncb, files>>
    BY <1>3, UnlistDoes
  <2>2. Only(listed, Links \ {cur[t]}) \in Seq(Links)
    BY <1>0, OnlyFrom DEF Typed2
  <2>3. nl_count' \in Nat
    BY <1>0, <2>1 DEF Typed2
  <2> QED
    BY <1>0, <2>1, <2>2, <2>3 DEF Typed2, ncb
<1>4. ASSUME NEW t \in Users, Fill(t) PROVE Typed2'
  <2>1. /\ t \in Threads /\ todo[t] = Fields /\ cur[t] \in Links
        /\ sockfd' = [sockfd EXCEPT ![cur[t]] = OwnFd(cur[t])]
        /\ \E p \in Protocols : proto' = [proto EXCEPT ![cur[t]] = p]
        /\ UNCHANGED <<files, list>>
    BY <1>4, FillDoes DEF GoesOn
  <2>2. OwnFd(cur[t]) \in Fds
    BY <2>1 DEF Sockets, OwnFd
  <2> QED
    BY <1>0, <2>1, <2>2 DEF Typed2, list
<1>5. ASSUME NEW t \in Users, Return(t) \/ SetTemplate(t) PROVE Typed2'
  BY <1>0, <1>5, ReturnDoes, TemplateDoes DEF Typed2, ncb, list
<1>6. Load \/ (RecvMore \/ RecvEnd) => Typed2'
  BY <1>0, LoadDoes, RecvDoes DEF Typed2, ncb, list
<1>7. ASSUME NEW t \in Creators, NEW l \in Links, Create(t, l) PROVE Typed2'
  <2>1. /\ LowestFd \in Fds /\ files' = [files EXCEPT ![LowestFd] = l]
        /\ listed' = Append(listed, l) /\ nl_count' = nl_count + 1 /\ UNCHANGED ncb
    BY <1>7, CreateDoes
  <2>2. Append(listed, l) \in Seq(Links) /\ nl_count + 1 \in Nat
    BY <1>0 DEF Typed2
  <2>3. files' \in [Fds -> Links \cup {NoLink}]
    BY <1>0, <2>1 DEF Typed2
  <2> QED
    BY <1>0, <2>1, <2>2, <2>3 DEF Typed2, ncb
<1>8. ASSUME NEW t \in Workers, NEW l \in Links, Destroy(t, l) PROVE Typed2'
  BY <1>0, <1>8, DestroyDoes DEF Typed2, ncb, list
<1>9. ASSUME NEW t \in Workers, NEW l \in Links, nis_cntl(t, l) PROVE Typed2'
  BY <1>0, <1>9, CntlDoes DEF Typed2, ncb, list
<1>10. ASSUME NEW t \in Workers, NEW l \in Links, nis_cntl_unknown(t, l) PROVE Typed2'
  BY <1>0, <1>10 DEF Typed2, nis_cntl_unknown, ncb, list
<1>11. ASSUME NEW l \in Links, Hangup(l) \/ Input(l) PROVE Typed2'
  BY <1>0, <1>11, HangupDoes, InputDoes DEF Typed2, ncb, list
<1>12. ASSUME NEW p \in Uninits, UninitCopy(p) PROVE Typed2'
  <2>1. listed' \in Seq(Links)
    BY <1>0, <1>12, OnlyFrom DEF UninitCopy, Typed2
  <2> QED
    BY <1>0, <1>12, <2>1 DEF UninitCopy, Typed2, ncb
<1>13. UninitClose => Typed2'
  BY <1>0 DEF UninitClose, Typed2, ncb, list
<1>15. \A p \in Uninits : UninitNoMemory(p) => Typed2'
  BY <1>0 DEF UninitNoMemory, Typed2, ncb, list
<1>14. UNCHANGED vars => Typed2'
  BY <1>0 DEF vars, Typed2
<1> QED
  BY <1>1, <1>2, <1>3, <1>4, <1>5, <1>6, <1>7, <1>8, <1>9, <1>10, <1>11, <1>12, <1>13,
     <1>14, <1>15, StepCases

(* The users' handles and the work of ncb_uninit keep their types.         *)
LEMMA Typed3Kept ==
  ASSUME TypeOK, Places, Counts, [Next]_vars
  PROVE  Typed3'
<1>0. Typed3
  BY DEF TypeOK, Typed3
<1>1. ASSUME NEW t \in Threads, objdefr(t) PROVE Typed3'
  BY <1>0, <1>1, DefrDoes DEF Typed3, hist, un
<1>2. ASSUME NEW t \in Threads, objclos(t) PROVE Typed3'
  BY <1>0, <1>2, ClosDoes DEF Typed3, hist, un, GoesOn
<1>3. ASSUME NEW t \in Threads, io_close(t) \/ Unlist(t) \/ ncb_post_closed(t) PROVE Typed3'
  BY <1>0, <1>3 DEF Typed3, io_close, Unlist, ncb_post_closed, hist, un, user
<1>4. ASSUME NEW t \in Users, Fill(t) \/ Return(t) PROVE Typed3'
  BY <1>0, <1>4, FillDoes, ReturnDoes DEF Typed3, hist, un, GoesOn
<1>5. ASSUME NEW t \in Users, SetTemplate(t) PROVE Typed3'
  BY <1>0, <1>5, TemplateDoes DEF Typed3, hist, un, user
<1>6. Load => Typed3'
  <2>1. Load => cur["epoll"] \in Links /\ sockfd[cur["epoll"]] \in Fds \cup {0}
    BY LoadDoes DEF GoesOn, TypeOK
  <2> QED
    BY <1>0, <2>1, LoadDoes DEF Typed3, hist, un, user
<1>7. RecvMore \/ RecvEnd => Typed3'
  BY <1>0, RecvDoes DEF Typed3, hist, un, user
<1>8. ASSUME NEW t \in Creators, NEW l \in Links, Create(t, l) PROVE Typed3'
  BY <1>0, <1>8, CreateDoes DEF Typed3, hist, un, user
<1>9. ASSUME NEW t \in Workers, NEW l \in Links, Destroy(t, l) PROVE Typed3'
  BY <1>0, <1>9, DestroyDoes DEF Typed3, un, user
<1>10. ASSUME NEW t \in Workers, NEW l \in Links, nis_cntl(t, l) PROVE Typed3'
  BY <1>0, <1>10, CntlDoes DEF Typed3, hist, un, user
<1>11. ASSUME NEW t \in Workers, NEW l \in Links, nis_cntl_unknown(t, l) PROVE Typed3'
  BY <1>0, <1>11 DEF Typed3, nis_cntl_unknown, objrefr, un, user
<1>12. ASSUME NEW l \in Links, Hangup(l) \/ Input(l) PROVE Typed3'
  BY <1>0, <1>12, HangupDoes, InputDoes DEF Typed3, hist, un, user
<1>13. ASSUME NEW p \in Uninits, UninitCopy(p) PROVE Typed3'
  <2> DEFINE mine == {l \in Links : proto[l] = p}
  <2>1. listed \in Seq(Links) /\ listed # << >>
    BY <1>13 DEF UninitCopy, TypeOK
  <2>2. hlds' \in Seq(Links)
    BY <1>13, <2>1, OnlyFrom DEF UninitCopy
  <2>3. last' \in Links
    BY <1>13, <2>1 DEF UninitCopy, Last
  <2>4. due' \subseteq Links
    BY <1>13 DEF UninitCopy
  <2> QED
    BY <1>0, <1>13, <2>2, <2>3, <2>4 DEF UninitCopy, Typed3, hist, user
<1>14. UninitClose => Typed3'
  <2>1. UninitClose => hlds' \in Seq(Links)
    BY <1>0 DEF UninitClose, Typed3
  <2> QED
    BY <1>0, <2>1 DEF UninitClose, Typed3, hist, user
<1>15. UNCHANGED vars => Typed3'
  BY <1>0 DEF vars, Typed3
<1>16. \A p \in Uninits : UninitNoMemory(p) => Typed3'
  BY <1>0 DEF UninitNoMemory, Typed3, hist, user
<1> QED
  BY <1>1, <1>2, <1>3, <1>4, <1>5, <1>6, <1>7, <1>8, <1>9, <1>10, <1>11, <1>12, <1>13,
     <1>14, <1>15, <1>16, StepCases

(* TypeOK is kept.                                                         *)
LEMMA TypeKept ==
  ASSUME TypeOK, Places, Counts, Sockets, [Next]_vars
  PROVE  TypeOK'
BY TodoTyped, Typed1Kept, Typed2Kept, Typed3Kept DEF Typed1, Typed2, Typed3, TypeOK

-----------------------------------------------------------------------------
(***************************************************************************)
(* The list and its count.                                                 *)
(***************************************************************************)
Alive == {"open", "closing"}

(* A thread with a link to take off the list is in its destructor.         *)
LEMMA UnlistInDestructor == \A s \in Stacks : ToUnlist(s) => Destructing(s)
BY DEF ToUnlist, Destructing

(* What is counted stays the same when a thread moves outside of the       *)
(* destructor, or to the end of it.                                        *)
LEMMA CountedSame ==
  ASSUME NEW t \in Threads, Went(t),
         \A l \in Links : stat'[l] \in Alive <=> stat[l] \in Alive,
         ToUnlist(todo[t]) <=> ToUnlist(todo'[t]),
         ToUnlist(todo[t]) => cur'[t] = cur[t]
  PROVE  Counted' = Counted
<1>1. \A u \in Threads, l \in Links :
        (cur'[u] = l /\ ToUnlist(todo'[u])) <=> (cur[u] = l /\ ToUnlist(todo[u]))
  BY DEF Went
<1>2. \A l \in Links : l \in Counted' <=> l \in Counted
  BY <1>1 DEF Counted, Alive, ToUnlist
<1> QED
  BY <1>2 DEF Counted

(* A link whose destructor starts is still counted.                        *)
LEMMA CountedStarts ==
  ASSUME TypeOK, NEW t \in Threads, GoesOn(t), stat[cur[t]] \in Alive,
         stat' = [stat EXCEPT ![cur[t]] = "destructing"],
         ~Destructing(todo[t]), todo'[t] \in Closing, Places
  PROVE  Counted' = Counted
<1>0. /\ ~ToUnlist(todo[t]) /\ ToUnlist(todo'[t]) /\ todo'[t] # Empty
      /\ cur[t] \in Links /\ cur'[t] = cur[t]
  BY Marks, StacksTyped DEF GoesOn, Destructing, ToUnlist
<1>1. \A u \in Threads : u # t => todo'[u] = todo[u] /\ cur'[u] = cur[u]
  BY DEF GoesOn, Went
<1>2. cur[t] \in Counted /\ cur[t] \in Counted'
  BY <1>0 DEF Counted, Alive, ToUnlist
<1>3. ASSUME NEW l \in Links, l # cur[t]
      PROVE  l \in Counted' <=> l \in Counted
  <2>1. stat'[l] = stat[l]
    BY <1>3 DEF TypeOK
  <2>2. \A u \in Threads :
          (cur'[u] = l /\ ToUnlist(todo'[u])) <=> (cur[u] = l /\ ToUnlist(todo[u]))
    BY <1>0, <1>1, <1>3
  <2> QED
    BY <2>1, <2>2 DEF Counted, ToUnlist
<1> QED
  BY <1>2, <1>3 DEF Counted

(* A new link is not counted before.                                       *)
LEMMA CountedNew ==
  ASSUME TypeOK, Places, OneDestructor, NEW t \in Threads, NEW l \in Links, Begins(t, l),
         ~ToUnlist(todo'[t]), stat[l] = "none", stat' = [stat EXCEPT ![l] = "open"]
  PROVE  l \notin Counted /\ Counted' = Counted \cup {l}
<1>1. \A u \in Threads : u # t => todo'[u] = todo[u] /\ cur'[u] = cur[u]
  BY DEF Begins, Went
<1>2. cur[t] = NoLink
  BY DEF Begins, Places
<1>3. \A u \in Threads : ToUnlist(todo[u]) => cur[u] # l
  BY UnlistInDestructor, StacksTyped DEF OneDestructor, Places
<1>4. l \notin Counted /\ stat'[l] = "open"
  BY <1>3 DEF Counted, TypeOK
<1>5. ASSUME NEW k \in Links, k # l
      PROVE  k \in Counted' <=> k \in Counted
  <2>1. stat'[k] = stat[k]
    BY <1>5 DEF TypeOK
  <2>2. \A u \in Threads :
          (cur'[u] = k /\ ToUnlist(todo'[u])) <=> (cur[u] = k /\ ToUnlist(todo[u]))
    BY <1>1, <1>2, LifeAssumption DEF Begins
  <2> QED
    BY <2>1, <2>2 DEF Counted, ToUnlist
<1>6. l \in Counted'
  BY <1>4 DEF Counted
<1> QED
  BY <1>4, <1>5, <1>6 DEF Counted

(* A link taken off the list is counted before, and not any more.          *)
LEMMA CountedGoes ==
  ASSUME TypeOK, Places, OneDestructor, NEW t \in Threads, GoesOn(t),
         todo[t] \in Unlisting, todo'[t] \in Freeing, stat' = stat
  PROVE  cur[t] \in Counted /\ Counted' = Counted \ {cur[t]}
<1>0. /\ ToUnlist(todo[t]) /\ Destructing(todo[t]) /\ ~ToUnlist(todo'[t])
      /\ cur[t] \in Links
  BY Marks DEF GoesOn
<1>1. \A u \in Threads : u # t => todo'[u] = todo[u] /\ cur'[u] = cur[u]
  BY DEF GoesOn, Went
<1>2. cur[t] \in Counted
  BY <1>0 DEF Counted
<1>3. \A u \in Threads : u # t /\ ToUnlist(todo[u]) => cur[u] # cur[t]
  BY <1>0, UnlistInDestructor, StacksTyped DEF OneDestructor, Places
<1>4. stat[cur[t]] = "destructing"
  BY <1>0 DEF OneDestructor
<1>5. ASSUME NEW k \in Links
      PROVE  k \in Counted' <=> k \in Counted /\ k # cur[t]
  <2>1. CASE k = cur[t]
    BY <1>0, <1>1, <1>3, <1>4, <2>1 DEF Counted, ToUnlist
  <2>2. CASE k # cur[t]
    <3>1. \A u \in Threads :
            (cur'[u] = k /\ ToUnlist(todo'[u])) <=> (cur[u] = k /\ ToUnlist(todo[u]))
      BY <1>0, <1>1, <2>2
    <3> QED
      BY <2>2, <3>1 DEF Counted, ToUnlist
  <2> QED
    BY <2>1, <2>2
<1> QED
  BY <1>2, <1>5 DEF Counted

(* Listed is kept.                                                         *)
LEMMA ListedKept ==
  ASSUME TypeOK, Places, Counts, OneDestructor, Listed, [Next]_vars
  PROVE  Listed'
<1>0. stat \in [Links -> {"none", "open", "closing", "destructing", "gone"}]
  BY DEF TypeOK
<1>1. ASSUME Counted' = Counted, UNCHANGED <<listed, nl_count>> PROVE Listed'
  BY <1>1 DEF Listed
<1>2. ASSUME NEW t \in Threads, GoesOn(t), ~ToUnlist(todo[t]), ~ToUnlist(todo'[t]),
             \A l \in Links : stat'[l] \in Alive <=> stat[l] \in Alive,
             UNCHANGED <<listed, nl_count>>
      PROVE  Listed'
  BY <1>1, <1>2, CountedSame DEF GoesOn
<1>3. ASSUME NEW t \in Threads, NEW l \in Links, Begins(t, l), todo'[t] \in Plain,
             \A k \in Links : stat'[k] \in Alive <=> stat[k] \in Alive,
             UNCHANGED <<listed, nl_count>>
      PROVE  Listed'
  <2>1. ~ToUnlist(todo[t]) /\ ~ToUnlist(todo'[t]) /\ Went(t)
    BY <1>3, Marks DEF Begins, Plain
  <2> QED
    BY <1>1, <1>3, <2>1, CountedSame
<1>4. \A s \in Stacks : ~Destructing(s) => ~ToUnlist(s)
  BY UnlistInDestructor
<1>5. ASSUME NEW t \in Threads PROVE todo[t] \in Stacks /\ (Went(t) => todo'[t] \in Stacks)
  BY StacksTyped DEF Places, Went
<1>6. ASSUME NEW t \in Threads, objdefr(t) PROVE Listed'
  <2>1. GoesOn(t) /\ Went(t) /\ ~Destructing(todo[t]) /\ UNCHANGED <<listed, nl_count>>
    BY <1>6, DefrDoes DEF GoesOn, list
  <2>2. CASE ~Destructing(todo'[t]) /\ UNCHANGED stat
    BY <1>2, <1>4, <1>5, <2>1, <2>2
  <2>3. CASE /\ todo'[t] \in Closing /\ stat[cur[t]] = "closing"
             /\ stat' = [stat EXCEPT ![cur[t]] = "destructing"]
    BY <1>1, <2>1, <2>3, CountedStarts DEF Alive
  <2> QED
    BY <1>6, <2>2, <2>3, DefrDoes
<1>7. ASSUME NEW t \in Threads, objclos(t) PROVE Listed'
  <2>1. GoesOn(t) /\ Went(t) /\ ~Destructing(todo[t]) /\ UNCHANGED <<listed, nl_count>>
    BY <1>7, ClosDoes DEF GoesOn, list
  <2>2. CASE /\ ~Destructing(todo'[t])
             /\ \/ stat[cur[t]] = "open" /\ stat' = [stat EXCEPT ![cur[t]] = "closing"]
                \/ UNCHANGED stat
    <3>1. \A l \in Links : stat'[l] \in Alive <=> stat[l] \in Alive
      BY <1>0, <2>2 DEF Alive
    <3> QED
      BY <1>2, <1>4, <1>5, <2>1, <2>2, <3>1
  <2>3. CASE /\ todo'[t] \in Closing /\ stat[cur[t]] = "open"
             /\ stat' = [stat EXCEPT ![cur[t]] = "destructing"]
    BY <1>1, <2>1, <2>3, CountedStarts DEF Alive
  <2> QED
    BY <1>7, <2>2, <2>3, ClosDoes
<1>8. ASSUME NEW t \in Threads, io_close(t) PROVE Listed'
  <2>1. GoesOn(t) /\ Went(t) /\ stat' = stat /\ UNCHANGED <<listed, nl_count>>
    BY <1>8, CloseDoes DEF GoesOn, list
  <2>2. CASE todo[t] = CloseDefr /\ ~Destructing(todo'[t])
    BY <1>2, <1>4, <1>5, <2>1, <2>2, Marks DEF Plain
  <2>3. CASE todo[t] \in Closing /\ todo'[t] \in Unlisting
    <3>1. ToUnlist(todo[t]) /\ ToUnlist(todo'[t]) /\ cur'[t] = cur[t]
      BY <2>1, <2>3, Marks DEF GoesOn
    <3> QED
      BY <1>1, <2>1, <3>1, CountedSame
  <2> QED
    BY <1>8, <2>2, <2>3, CloseDoes
<1>9. ASSUME NEW t \in Threads, Unlist(t) PROVE Listed'
  <2> DEFINE c == cur[t]
  <2> DEFINE T == Links \ {cur[t]}
  <2>1. /\ listed' = Only(listed, T)
        /\ nl_count' = IF nl_count > 0 THEN nl_count - 1 ELSE nl_count
        /\ c \in Counted /\ Counted' = Counted \ {c} /\ c \in Links
    BY <1>9, UnlistDoes, CountedGoes DEF GoesOn
  <2>2. IsFiniteSet(Counted \ {c}) /\ Cardinality(Counted \ {c}) = Cardinality(Counted) - 1
    BY <2>1, FS_RemoveElement DEF Listed
  <2>3. nl_count = Cardinality(Counted) /\ nl_count \in Nat /\ nl_count # 0
    BY <2>1, FS_EmptySet DEF Listed, TypeOK
  <2>4. nl_count' = Cardinality(Counted \ {c})
    BY <2>1, <2>2, <2>3
  <2>5. listed \in Seq(Links)
    BY DEF TypeOK
  <2> HIDE DEF T
  <2>6. /\ Only(listed, T) \in Seq(Links)
        /\ \A k \in 1 .. Len(Only(listed, T)) :
              \E j \in 1 .. Len(listed) : Only(listed, T)[k] = listed[j] /\ listed[j] \in T
    BY <2>5, OnlyFrom
  <2>7. \A i, j \in 1 .. Len(Only(listed, T)) : Only(listed, T)[i] = Only(listed, T)[j] => i = j
    BY <2>5, OnlyDistinct DEF Listed
  <2>8. \A i \in 1 .. Len(Only(listed, T)) : Only(listed, T)[i] \in Counted \ {c}
    BY <2>6 DEF Listed, T
  <2>9. /\ IsFiniteSet(Counted') /\ nl_count' = Cardinality(Counted')
        /\ \A i \in 1 .. Len(listed') : listed'[i] \in Counted'
        /\ \A i, j \in 1 .. Len(listed') : listed'[i] = listed'[j] => i = j
    BY <2>1, <2>2, <2>4, <2>7, <2>8
  <2> QED
    BY <2>9 DEF Listed
<1>10. ASSUME NEW t \in Threads, ncb_post_closed(t) PROVE Listed'
  <2>1. /\ GoesOn(t) /\ Went(t) /\ todo[t] \in Freeing /\ ~Destructing(todo'[t])
        /\ stat' = [stat EXCEPT ![cur[t]] = "gone"] /\ UNCHANGED <<listed, nl_count>>
    BY <1>10, ClosedDoes DEF GoesOn, list
  <2>2. stat[cur[t]] = "destructing"
    BY <2>1, Marks DEF OneDestructor
  <2>3. \A l \in Links : stat'[l] \in Alive <=> stat[l] \in Alive
    BY <1>0, <2>1, <2>2 DEF Alive
  <2> QED
    BY <1>2, <1>4, <1>5, <2>1, <2>3, Marks
<1>11. ASSUME NEW t \in Users, Fill(t) PROVE Listed'
  <2>1. /\ t \in Threads /\ GoesOn(t) /\ Went(t) /\ todo[t] = Fields /\ ~Destructing(todo'[t])
        /\ stat' = stat /\ UNCHANGED <<listed, nl_count>>
    BY <1>11, FillDoes DEF GoesOn, list
  <2> QED
    BY <1>2, <1>4, <1>5, <2>1, Marks DEF Plain
<1>12. ASSUME NEW t \in Users, Return(t) PROVE Listed'
  <2>1. /\ t \in Threads /\ GoesOn(t) /\ todo[t] = Return1 /\ todo'[t] = Empty
        /\ stat' = stat /\ UNCHANGED <<listed, nl_count>>
    BY <1>12, ReturnDoes DEF list
  <2> QED
    BY <1>2, <2>1, Marks DEF Plain
<1>13. ASSUME NEW t \in Users, SetTemplate(t) PROVE Listed'
  <2>1. /\ t \in Threads /\ GoesOn(t) /\ todo[t] = TstDefr /\ todo'[t] \in {DefrDefr, Defr1}
        /\ stat' = stat /\ UNCHANGED <<listed, nl_count>>
    BY <1>13, TemplateDoes DEF list
  <2> QED
    BY <1>2, <2>1, Marks DEF Plain
<1>14. Load \/ (RecvMore \/ RecvEnd) => Listed'
  <2> SUFFICES ASSUME Load \/ (RecvMore \/ RecvEnd) PROVE Listed'
    OBVIOUS
  <2>1. /\ "epoll" \in Threads /\ GoesOn("epoll") /\ todo["epoll"] \in {LoadRecv, Recv1}
        /\ todo'["epoll"] \in {Recv1, LoadRecv, Defr1, ClosDefr}
        /\ stat' = stat /\ UNCHANGED <<listed, nl_count>>
    BY LoadDoes, RecvDoes, StacksTyped DEF list
  <2> QED
    BY <1>2, <2>1, Marks DEF Plain
<1>15. ASSUME NEW t \in Creators, NEW l \in Links, Create(t, l) PROVE Listed'
  <2>1. /\ t \in Threads /\ Begins(t, l) /\ todo'[t] = Fields /\ stat[l] = "none"
        /\ stat' = [stat EXCEPT ![l] = "open"]
        /\ listed' = Append(listed, l) /\ nl_count' = nl_count + 1
    BY <1>15, CreateDoes
  <2>2. l \notin Counted /\ Counted' = Counted \cup {l}
    BY <2>1, Marks, CountedNew DEF Plain
  <2>3. /\ IsFiniteSet(Counted \cup {l})
        /\ Cardinality(Counted \cup {l}) = Cardinality(Counted) + 1
    BY <2>2, FS_AddElement DEF Listed
  <2>4. /\ Len(listed') = Len(listed) + 1 /\ listed'[Len(listed) + 1] = l
        /\ \A i \in 1 .. Len(listed) : listed'[i] = listed[i]
        /\ Len(listed) \in Nat
    BY <2>1 DEF TypeOK
  <2>5. \A i \in 1 .. Len(listed) : listed[i] \in Counted /\ listed[i] # l
    BY <2>2 DEF Listed
  <2>6. ASSUME NEW i \in 1 .. Len(listed') PROVE listed'[i] \in Counted \cup {l}
    <3>1. i \in 1 .. Len(listed) \/ i = Len(listed) + 1
      BY <2>4, <2>6
    <3> QED
      BY <2>4, <2>5, <3>1
  <2>7. ASSUME NEW i \in 1 .. Len(listed'), NEW j \in 1 .. Len(listed'), listed'[i] = listed'[j]
        PROVE  i = j
    <3>1. /\ i \in 1 .. Len(listed) \/ i = Len(listed) + 1
          /\ j \in 1 .. Len(listed) \/ j = Len(listed) + 1
      BY <2>4, <2>7
    <3>2. \A m, n \in 1 .. Len(listed) : listed[m] = listed[n] => m = n
      BY DEF Listed
    <3> QED
      BY <2>4, <2>5, <2>7, <3>1, <3>2
  <2>8. /\ IsFiniteSet(Counted') /\ nl_count' = Cardinality(Counted')
        /\ \A i \in 1 .. Len(listed') : listed'[i] \in Counted'
        /\ \A i, j \in 1 .. Len(listed') : listed'[i] = listed'[j] => i = j
    BY <2>1, <2>2, <2>3, <2>6, <2>7 DEF Listed
  <2> QED
    BY <2>8 DEF Listed
<1>16. ASSUME NEW t \in Workers, NEW l \in Links, Destroy(t, l) PROVE Listed'
  <2>1. /\ t \in Threads /\ Begins(t, l) /\ todo'[t] = CloseDefr /\ stat[l] = "open"
        /\ stat' = [stat EXCEPT ![l] = "closing"] /\ UNCHANGED <<listed, nl_count>>
    BY <1>16, DestroyDoes DEF list
  <2>2. \A k \in Links : stat'[k] \in Alive <=> stat[k] \in Alive
    BY <1>0, <2>1 DEF Alive
  <2> QED
    BY <1>3, <2>1, <2>2 DEF Plain
<1>17. ASSUME NEW t \in Workers, NEW l \in Links, nis_cntl(t, l) PROVE Listed'
  <2>1. /\ t \in Threads /\ Begins(t, l) /\ todo'[t] \in {Defr1, TstDefr} /\ stat' = stat
        /\ UNCHANGED <<listed, nl_count>>
    BY <1>17, CntlDoes DEF list
  <2> QED
    BY <1>3, <2>1 DEF Plain
<1>18. ASSUME NEW l \in Links, Hangup(l) \/ Input(l) PROVE Listed'
  <2>1. /\ "epoll" \in Threads /\ Begins("epoll", l) /\ todo'["epoll"] \in {Clos1, LoadRecv}
        /\ stat' = stat /\ UNCHANGED <<listed, nl_count>>
    BY <1>18, HangupDoes, InputDoes, StacksTyped DEF list
  <2> QED
    BY <1>3, <2>1 DEF Plain
<1>19. UninitClose => Listed'
  <2> SUFFICES ASSUME UninitClose PROVE Listed'
    OBVIOUS
  <2>1. /\ "uninit" \in Threads /\ Head(hlds) \in Links /\ Begins("uninit", Head(hlds))
        /\ todo'["uninit"] = Clos1 /\ stat' = stat /\ UNCHANGED <<listed, nl_count>>
    BY UninitCloseDoes, StacksTyped DEF list
  <2> QED
    BY <1>3, <2>1 DEF Plain
<1>20. ASSUME NEW p \in Uninits, UninitCopy(p) PROVE Listed'
  <2> DEFINE T == Links \ {l \in Links : proto[l] = p}
  <2>1. /\ listed' = Only(listed, T) /\ nl_count' = nl_count /\ UNCHANGED <<stat, todo, cur>>
    BY <1>20 DEF UninitCopy
  <2>2. Counted' = Counted
    BY <2>1 DEF Counted
  <2>3. listed \in Seq(Links)
    BY DEF TypeOK
  <2> HIDE DEF T
  <2>4. /\ Only(listed, T) \in Seq(Links)
        /\ \A k \in 1 .. Len(Only(listed, T)) :
              \E j \in 1 .. Len(listed) : Only(listed, T)[k] = listed[j] /\ listed[j] \in T
    BY <2>3, OnlyFrom
  <2>5. \A i, j \in 1 .. Len(Only(listed, T)) : Only(listed, T)[i] = Only(listed, T)[j] => i = j
    BY <2>3, OnlyDistinct DEF Listed
  <2>6. \A i \in 1 .. Len(Only(listed, T)) : Only(listed, T)[i] \in Counted
    BY <2>4 DEF Listed
  <2>7. /\ IsFiniteSet(Counted') /\ nl_count' = Cardinality(Counted')
        /\ \A i \in 1 .. Len(listed') : listed'[i] \in Counted'
        /\ \A i, j \in 1 .. Len(listed') : listed'[i] = listed'[j] => i = j
    BY <2>1, <2>2, <2>5, <2>6 DEF Listed
  <2> QED
    BY <2>7 DEF Listed
<1>21. ASSUME UNCHANGED <<todo, cur, stat, listed, nl_count>> PROVE Listed'
  <2>1. Counted' = Counted
    BY <1>21 DEF Counted
  <2> QED
    BY <1>1, <1>21, <2>1
<1>22. \A t \in Workers, l \in Links : nis_cntl_unknown(t, l) => Listed'
  BY <1>21 DEF nis_cntl_unknown, objrefr, list
<1>23. UNCHANGED vars => Listed'
  BY <1>21 DEF vars
<1>24. \A p \in Uninits : UninitNoMemory(p) => Listed'
  BY <1>21 DEF UninitNoMemory, list
<1> QED
  BY <1>6, <1>7, <1>8, <1>9, <1>10, <1>11, <1>12, <1>13, <1>14, <1>15, <1>16, <1>17, <1>18,
     <1>19, <1>20, <1>22, <1>23, <1>24, StepCases

-----------------------------------------------------------------------------
(***************************************************************************)
(* Creation and sockets.                                                   *)
(***************************************************************************)
LEMMA Owing == Fields # CloseDefr /\ Fields # Recv1 /\ CloseDefr # Recv1 /\ Empty # Fields
BY DEF Fields, CloseDefr, Recv1, Empty

(* Creation is kept when a thread goes on with a complete link.            *)
LEMMA CreationGoesOn ==
  ASSUME TypeOK, Places, Creation, NEW t \in Threads, GoesOn(t), todo[t] # Fields, todo'[t] # Fields,
         UNCHANGED <<proto, hlds>>, known' = known \/ known' = known \cup {cur[t]},
         \A l \in Links : stat'[l] = "none" <=> stat[l] = "none"
  PROVE  Creation'
<1>1. \A u \in Threads : u # t => todo'[u] = todo[u] /\ cur'[u] = cur[u]
  BY DEF GoesOn, Went
<1>2. Complete(cur[t]) /\ cur[t] \in Links
  BY DEF Creation, GoesOn
<1>3. \A l : Complete(l)' <=> Complete(l)
  BY DEF Complete
<1>4. \A u \in Threads : todo'[u] = Fields => u # t /\ todo[u] = Fields /\ cur'[u] = cur[u]
  BY <1>1
<1>5. \A l \in Links : stat'[l] = "none" => proto'[l] = "unset"
  BY DEF Creation, Complete
<1>6. \A l \in known' : proto'[l] # "unset"
  BY <1>2 DEF Creation, Complete
<1>7. \A i \in 1 .. Len(hlds') : proto'[hlds'[i]] # "unset"
  BY DEF Creation, Complete
<1>8. ASSUME NEW u \in Threads, todo'[u] # Empty
      PROVE  proto'[cur'[u]] # "unset" <=> todo'[u] # Fields
  <2>1. CASE u = t
    BY <1>2, <1>8, <2>1 DEF GoesOn, Complete
  <2>2. CASE u # t
    BY <1>1, <1>8, <2>2 DEF Creation, Complete
  <2> QED
    BY <2>1, <2>2
<1>9. \A u \in Threads : todo'[u] = Fields => stat'[cur'[u]] # "none"
  <2>1. \A u \in Threads : todo[u] = Fields => cur[u] \in Links
    BY Owing DEF Places, TypeOK
  <2> QED
    BY <1>4, <2>1 DEF Creation
<1>10. \A u, v \in Threads :
         todo'[u] = Fields /\ todo'[v] = Fields /\ cur'[u] = cur'[v] => u = v
  BY <1>4 DEF Creation
<1> QED
  BY <1>5, <1>6, <1>7, <1>8, <1>9, <1>10 DEF Creation, Complete

(* Creation is kept when a thread begins with a complete link.             *)
LEMMA CreationBegins ==
  ASSUME TypeOK, Places, Creation, NEW t \in Threads, NEW l \in Links, Begins(t, l),
         todo'[t] # Fields, Complete(l), UNCHANGED <<proto, known>>,
         \A i \in 1 .. Len(hlds') : proto[hlds'[i]] # "unset",
         \A k \in Links : stat'[k] = "none" <=> stat[k] = "none"
  PROVE  Creation'
<1>1. \A u \in Threads : u # t => todo'[u] = todo[u] /\ cur'[u] = cur[u]
  BY DEF Begins, Went
<1>4. \A u \in Threads : todo'[u] = Fields =>
        u # t /\ todo[u] = Fields /\ cur'[u] = cur[u] /\ cur[u] \in Links
  BY <1>1, Owing DEF Places, TypeOK
<1>5. \A k \in Links : stat'[k] = "none" => proto'[k] = "unset"
  BY DEF Creation, Complete
<1>6. \A k \in known' : proto'[k] # "unset"
  BY DEF Creation, Complete
<1>7. \A i \in 1 .. Len(hlds') : proto'[hlds'[i]] # "unset"
  OBVIOUS
<1>8. ASSUME NEW u \in Threads, todo'[u] # Empty
      PROVE  proto'[cur'[u]] # "unset" <=> todo'[u] # Fields
  <2>1. CASE u = t
    BY <1>8, <2>1 DEF Begins, Complete
  <2>2. CASE u # t
    BY <1>1, <1>8, <2>2 DEF Creation, Complete
  <2> QED
    BY <2>1, <2>2
<1>9. \A u \in Threads : todo'[u] = Fields => stat'[cur'[u]] # "none"
  BY <1>4 DEF Creation
<1>10. \A u, v \in Threads :
         todo'[u] = Fields /\ todo'[v] = Fields /\ cur'[u] = cur'[v] => u = v
  BY <1>4 DEF Creation
<1> QED
  BY <1>5, <1>6, <1>7, <1>8, <1>9, <1>10 DEF Creation, Complete

(* Creation is kept when a link is created.                                *)
LEMMA CreationCreate ==
  ASSUME TypeOK, Places, Creation, NEW t \in Threads, NEW l \in Links, Begins(t, l),
         todo'[t] = Fields, UNCHANGED <<proto, known, hlds>>, stat[l] = "none",
         stat' = [stat EXCEPT ![l] = "open"]
  PROVE  Creation'
<1>1. \A u \in Threads : u # t => todo'[u] = todo[u] /\ cur'[u] = cur[u]
  BY DEF Begins, Went
<1>2. ~Complete(l) /\ cur'[t] = l /\ todo'[t] # Empty /\ stat'[l] = "open"
  BY DEF Creation, Begins, TypeOK
<1>3. \A k \in Links : k # l => stat'[k] = stat[k]
  BY DEF TypeOK
<1>4. \A u \in Threads : u # t /\ todo'[u] = Fields =>
        todo[u] = Fields /\ cur'[u] = cur[u] /\ cur[u] \in Links /\ cur[u] # l
  BY <1>1, Owing DEF Places, TypeOK, Creation
<1>5. \A k \in Links : stat'[k] = "none" => proto'[k] = "unset"
  BY <1>2, <1>3 DEF Creation, Complete
<1>6. \A k \in known' : proto'[k] # "unset"
  BY DEF Creation, Complete
<1>7. \A i \in 1 .. Len(hlds') : proto'[hlds'[i]] # "unset"
  BY DEF Creation, Complete
<1>8. ASSUME NEW u \in Threads, todo'[u] # Empty
      PROVE  proto'[cur'[u]] # "unset" <=> todo'[u] # Fields
  <2>1. CASE u = t
    BY <1>2, <2>1 DEF Complete
  <2>2. CASE u # t
    BY <1>1, <1>8, <2>2 DEF Creation, Complete
  <2> QED
    BY <2>1, <2>2
<1>9. \A u \in Threads : todo'[u] = Fields => stat'[cur'[u]] # "none"
  BY <1>2, <1>3, <1>4 DEF Creation
<1>10. \A u, v \in Threads :
         todo'[u] = Fields /\ todo'[v] = Fields /\ cur'[u] = cur'[v] => u = v
  BY <1>2, <1>4 DEF Creation
<1> QED
  BY <1>5, <1>6, <1>7, <1>8, <1>9, <1>10 DEF Creation, Complete

(* Creation is kept when the fields are filled in.                         *)
LEMMA CreationFill ==
  ASSUME TypeOK, Places, Creation, NEW t \in Threads, GoesOn(t), todo[t] = Fields,
         todo'[t] # Fields, todo'[t] # Empty, NEW p \in Protocols,
         proto' = [proto EXCEPT ![cur[t]] = p],
         known' = known \/ known' = known \cup {cur[t]}, UNCHANGED <<hlds, stat>>
  PROVE  Creation'
<1> DEFINE c == cur[t]
<1>1. \A u \in Threads : u # t => todo'[u] = todo[u] /\ cur'[u] = cur[u]
  BY DEF GoesOn, Went
<1>2. c \in Links /\ ~Complete(c) /\ p # "unset" /\ cur'[t] = c /\ stat[c] # "none"
  BY LifeAssumption DEF GoesOn, Creation
<1>3. proto'[c] # "unset" /\ \A k \in Links : k # c => proto'[k] = proto[k]
  BY <1>2 DEF TypeOK
<1>4. \A u \in Threads : todo'[u] = Fields =>
        u # t /\ todo[u] = Fields /\ cur'[u] = cur[u] /\ cur[u] \in Links
  BY <1>1, Owing DEF Places, TypeOK
<1>11. \A u \in Threads : u # t /\ todo[u] # Empty => cur[u] \in Links /\ cur[u] # c
  BY <1>2 DEF Creation, Places, TypeOK
<1> HIDE DEF c
<1>5. \A k \in Links : stat'[k] = "none" => proto'[k] = "unset"
  BY <1>2, <1>3 DEF Creation, Complete
<1>6. \A k \in known' : proto'[k] # "unset"
  <2>1. \A k \in known : k \in Links /\ proto[k] # "unset"
    BY DEF Creation, Complete, TypeOK
  <2> QED
    BY <1>3, <2>1 DEF c
<1>7. \A i \in 1 .. Len(hlds') : proto'[hlds'[i]] # "unset"
  <2>1. \A i \in 1 .. Len(hlds) : hlds[i] \in Links /\ proto[hlds[i]] # "unset"
    BY DEF Creation, Complete, TypeOK
  <2> QED
    BY <1>3, <2>1
<1>8. ASSUME NEW u \in Threads, todo'[u] # Empty
      PROVE  proto'[cur'[u]] # "unset" <=> todo'[u] # Fields
  <2>1. CASE u = t
    BY <1>2, <1>3, <2>1
  <2>2. CASE u # t
    BY <1>1, <1>3, <1>8, <1>11, <2>2 DEF Creation, Complete
  <2> QED
    BY <2>1, <2>2
<1>9. \A u \in Threads : todo'[u] = Fields => stat'[cur'[u]] # "none"
  BY <1>4 DEF Creation
<1>10. \A u, v \in Threads :
         todo'[u] = Fields /\ todo'[v] = Fields /\ cur'[u] = cur'[v] => u = v
  BY <1>4 DEF Creation
<1> QED
  BY <1>5, <1>6, <1>7, <1>8, <1>9, <1>10 DEF Creation, Complete

(* Creation is kept.                                                       *)
LEMMA CreationKept ==
  ASSUME TypeOK, Places, Counts, OneDestructor, Creation, [Next]_vars
  PROVE  Creation'
<1>0. stat \in [Links -> {"none", "open", "closing", "destructing", "gone"}]
  BY DEF TypeOK
<1>1. \A s : Quiet(s) => s # Fields
  BY DEF Quiet
<1>2. \A l \in known : l \in Links => Complete(l)
  BY DEF Creation
<1>3. ASSUME NEW t \in Threads, objdefr(t) PROVE Creation'
  <2>1. /\ GoesOn(t) /\ todo[t] # Fields /\ todo'[t] # Fields /\ UNCHANGED <<proto, hlds, known>>
        /\ UNCHANGED stat \/ /\ stat[cur[t]] = "closing"
                             /\ stat' = [stat EXCEPT ![cur[t]] = "destructing"]
    BY <1>1, <1>3, DefrDoes DEF ncb, un
  <2>2. \A l \in Links : stat'[l] = "none" <=> stat[l] = "none"
    BY <1>0, <2>1
  <2> QED
    BY <2>1, <2>2, CreationGoesOn
<1>4. ASSUME NEW t \in Threads, objclos(t) PROVE Creation'
  <2>1. /\ GoesOn(t) /\ todo[t] # Fields /\ todo'[t] # Fields /\ UNCHANGED <<proto, hlds, known>>
        /\ \/ UNCHANGED stat
           \/ stat[cur[t]] = "open" /\ stat' = [stat EXCEPT ![cur[t]] = "closing"]
           \/ stat[cur[t]] = "open" /\ stat' = [stat EXCEPT ![cur[t]] = "destructing"]
    BY <1>1, <1>4, ClosDoes DEF ncb, un
  <2>2. \A l \in Links : stat'[l] = "none" <=> stat[l] = "none"
    BY <1>0, <2>1
  <2> QED
    BY <2>1, <2>2, CreationGoesOn
<1>5. ASSUME NEW t \in Threads, io_close(t) PROVE Creation'
  <2>1. /\ GoesOn(t) /\ todo[t] # Fields /\ todo'[t] # Fields
        /\ UNCHANGED <<proto, hlds, known, stat>>
    BY <1>1, <1>5, CloseDoes, Owing, Marks DEF un, user
  <2> QED
    BY <2>1, CreationGoesOn
<1>6. ASSUME NEW t \in Threads, Unlist(t) PROVE Creation'
  <2>1. /\ GoesOn(t) /\ todo[t] # Fields /\ todo'[t] # Fields
        /\ UNCHANGED <<proto, hlds, known, stat>>
    BY <1>1, <1>6, UnlistDoes DEF un, user, ncb
  <2> QED
    BY <2>1, CreationGoesOn
<1>7. ASSUME NEW t \in Threads, ncb_post_closed(t) PROVE Creation'
  <2>1. /\ GoesOn(t) /\ todo[t] # Fields /\ todo'[t] # Fields /\ UNCHANGED <<proto, hlds, known>>
        /\ stat' = [stat EXCEPT ![cur[t]] = "gone"] /\ todo[t] \in Freeing
    BY <1>1, <1>7, ClosedDoes DEF un, ncb
  <2>2. stat[cur[t]] = "destructing"
    BY <2>1, Marks DEF OneDestructor
  <2>3. \A l \in Links : stat'[l] = "none" <=> stat[l] = "none"
    BY <1>0, <2>1, <2>2
  <2> QED
    BY <2>1, <2>3, CreationGoesOn
<1>8. ASSUME NEW t \in Users, Fill(t) PROVE Creation'
  <2>1. /\ t \in Threads /\ GoesOn(t) /\ todo[t] = Fields /\ todo'[t] # Fields
        /\ todo'[t] # Empty
        /\ known' = known \/ known' = known \cup {cur[t]}
        /\ UNCHANGED <<hlds, stat>>
    BY <1>1, <1>8, FillDoes DEF un
  <2>2. PICK p \in Protocols : proto' = [proto EXCEPT ![cur[t]] = p]
    BY <1>8, FillDoes
  <2>3. GoesOn(t) /\ todo[t] = Fields /\ todo'[t] # Fields /\ todo'[t] # Empty
    BY <2>1
  <2>4. known' = known \/ known' = known \cup {cur[t]}
    BY <2>1
  <2>5. t \in Threads /\ UNCHANGED <<hlds, stat>>
    BY <2>1
  <2> QED
    BY <2>2, <2>3, <2>4, <2>5, CreationFill
<1>9. ASSUME NEW t \in Users, Return(t) PROVE Creation'
  <2>1. /\ t \in Threads /\ GoesOn(t) /\ todo[t] # Fields /\ todo'[t] # Fields
        /\ known' = known \cup {cur[t]} /\ UNCHANGED <<proto, hlds, stat>>
    BY <1>1, <1>9, ReturnDoes, Marks DEF un, ncb
  <2> QED
    BY <2>1, CreationGoesOn
<1>10. ASSUME NEW t \in Users, SetTemplate(t) PROVE Creation'
  <2>1. /\ t \in Threads /\ GoesOn(t) /\ todo[t] # Fields /\ todo'[t] # Fields
        /\ UNCHANGED <<proto, hlds, stat, known>>
    BY <1>1, <1>10, TemplateDoes, Marks DEF un, ncb, user
  <2> QED
    BY <2>1, CreationGoesOn
<1>11. Load \/ (RecvMore \/ RecvEnd) => Creation'
  <2> SUFFICES ASSUME Load \/ (RecvMore \/ RecvEnd) PROVE Creation'
    OBVIOUS
  <2>1. /\ "epoll" \in Threads /\ GoesOn("epoll")
        /\ todo["epoll"] \in {LoadRecv, Recv1}
        /\ todo'["epoll"] \in {Recv1, LoadRecv, Defr1, ClosDefr}
        /\ UNCHANGED <<proto, hlds, stat, known>>
    BY LoadDoes, RecvDoes, StacksTyped DEF un, ncb, user
  <2>2. todo["epoll"] # Fields /\ todo'["epoll"] # Fields
    BY <1>1, <2>1, Marks, Owing
  <2> QED
    BY <2>1, <2>2, CreationGoesOn
<1>12. ASSUME NEW t \in Creators, NEW l \in Links, Create(t, l) PROVE Creation'
  BY <1>12, CreateDoes, CreationCreate DEF un, ncb, user
<1>13. ASSUME NEW t \in Workers, NEW l \in Links, Destroy(t, l) PROVE Creation'
  <2>1. /\ t \in Threads /\ Begins(t, l) /\ todo'[t] # Fields /\ Complete(l)
        /\ UNCHANGED <<proto, known, hlds>>
        /\ stat[l] = "open" /\ stat' = [stat EXCEPT ![l] = "closing"]
    BY <1>2, <1>13, DestroyDoes, Owing DEF un, ncb, user
  <2>2. \A k \in Links : stat'[k] = "none" <=> stat[k] = "none"
    BY <1>0, <2>1
  <2>3. \A i \in 1 .. Len(hlds') : proto[hlds'[i]] # "unset"
    BY <2>1 DEF Creation, Complete
  <2>4. UNCHANGED <<proto, known>>
    BY <2>1
  <2> QED
    BY <2>1, <2>2, <2>3, <2>4, CreationBegins
<1>14. ASSUME NEW t \in Workers, NEW l \in Links, nis_cntl(t, l) PROVE Creation'
  <2>1. /\ t \in Threads /\ Begins(t, l) /\ todo'[t] # Fields /\ Complete(l)
        /\ UNCHANGED <<proto, known, hlds, stat>>
    BY <1>1, <1>2, <1>14, CntlDoes, Marks DEF un, ncb, user
  <2>2. \A k \in Links : stat'[k] = "none" <=> stat[k] = "none"
    BY <2>1
  <2>3. \A i \in 1 .. Len(hlds') : proto[hlds'[i]] # "unset"
    BY <2>1 DEF Creation, Complete
  <2>4. UNCHANGED <<proto, known>>
    BY <2>1
  <2> QED
    BY <2>1, <2>2, <2>3, <2>4, CreationBegins
<1>15. ASSUME NEW l \in Links, Hangup(l) \/ Input(l) PROVE Creation'
  <2>1. /\ "epoll" \in Threads /\ Begins("epoll", l) /\ todo'["epoll"] # Fields /\ Complete(l)
        /\ UNCHANGED <<proto, known, hlds, stat>>
    BY <1>1, <1>2, <1>15, HangupDoes, InputDoes, Marks, StacksTyped DEF un, ncb, user
  <2>2. \A k \in Links : stat'[k] = "none" <=> stat[k] = "none"
    BY <2>1
  <2>3. \A i \in 1 .. Len(hlds') : proto[hlds'[i]] # "unset"
    BY <2>1 DEF Creation, Complete
  <2>4. UNCHANGED <<proto, known>>
    BY <2>1
  <2> QED
    BY <2>1, <2>2, <2>3, <2>4, CreationBegins
<1>16. UninitClose => Creation'
  <2> SUFFICES ASSUME UninitClose PROVE Creation'
    OBVIOUS
  <2>1. /\ "uninit" \in Threads /\ Head(hlds) \in Links /\ Begins("uninit", Head(hlds))
        /\ todo'["uninit"] # Fields /\ UNCHANGED <<proto, known, stat>>
        /\ hlds # << >> /\ hlds' = Tail(hlds)
    BY <1>1, UninitCloseDoes, Marks, StacksTyped DEF ncb, user
  <2>2. /\ Complete(Head(hlds))
        /\ \A i \in 1 .. Len(Tail(hlds)) : proto[Tail(hlds)[i]] # "unset"
    <3>1. hlds \in Seq(Links) /\ Head(hlds) = hlds[1] /\ 1 \in 1 .. Len(hlds)
      BY <2>1 DEF TypeOK
    <3>2. \A i \in 1 .. Len(Tail(hlds)) : i + 1 \in 1 .. Len(hlds) /\ Tail(hlds)[i] = hlds[i + 1]
      BY <2>1, <3>1
    <3> QED
      BY <3>1, <3>2 DEF Creation, Complete
  <2>3. \A i \in 1 .. Len(hlds') : proto[hlds'[i]] # "unset"
    BY <2>1, <2>2
  <2>5. \A k \in Links : stat'[k] = "none" <=> stat[k] = "none"
    BY <2>1
  <2>4. UNCHANGED <<proto, known>>
    BY <2>1
  <2> QED
    BY <2>1, <2>2, <2>3, <2>4, <2>5, CreationBegins
<1>17. ASSUME NEW p \in Uninits, UninitCopy(p) PROVE Creation'
  <2> DEFINE T == {l \in Links : proto[l] = p}
  <2>1. hlds' = Only(listed, T) /\ UNCHANGED <<proto, known, stat, todo, cur>>
    BY <1>17 DEF UninitCopy, ncb, user
  <2>2. listed \in Seq(Links) /\ p # "unset"
    BY LifeAssumption DEF TypeOK
  <2> HIDE DEF T
  <2>3. \A k \in 1 .. Len(Only(listed, T)) :
           \E j \in 1 .. Len(listed) : Only(listed, T)[k] = listed[j] /\ listed[j] \in T
    BY <2>2, OnlyFrom
  <2>4. \A i \in 1 .. Len(hlds') : proto[hlds'[i]] # "unset"
    BY <2>1, <2>2, <2>3 DEF T
  <2> QED
    BY <2>1, <2>4 DEF Creation, Complete
<1>18. ASSUME UNCHANGED <<todo, cur, proto, known, hlds, stat>> PROVE Creation'
  BY <1>18 DEF Creation, Complete
<1>19. \A t \in Workers, l \in Links : nis_cntl_unknown(t, l) => Creation'
  BY <1>18 DEF nis_cntl_unknown, objrefr, un, ncb, user
<1>20. UNCHANGED vars => Creation'
  BY <1>18 DEF vars
<1>21. \A p \in Uninits : UninitNoMemory(p) => Creation'
  BY <1>18 DEF UninitNoMemory, ncb, user
<1> QED
  BY <1>3, <1>4, <1>5, <1>6, <1>7, <1>8, <1>9, <1>10, <1>11, <1>12, <1>13, <1>14, <1>15, <1>16,
     <1>17, <1>19, <1>20, <1>21, StepCases

(* Descriptor numbers are positive.                                        *)
LEMMA FdsPositive == \A f \in Fds : f \in Nat /\ f > 0
<1>1. Cardinality(Fds) \in Nat
  BY LifeAssumption, FS_CardinalityType
<1> QED
  BY <1>1, LifeAssumption

(* What Sockets says is kept by a step that opens and closes no socket.    *)
LEMMA SocketsMove ==
  ASSUME TypeOK, Places, Sockets, NEW t \in Threads, Went(t), UNCHANGED <<sockfd, files>>,
         shot \subseteq shot', todo'[t] # Fields,
         todo'[t] = CloseDefr => cur'[t] \in shot',
         reg' = reg \/ t = "epoll", t = "epoll" => todo'[t] # Recv1
  PROVE  Sockets'
<1>1. \A u \in Threads : u # t => todo'[u] = todo[u] /\ cur'[u] = cur[u]
  BY DEF Went
<1>2. \A l \in Links : sockfd'[l] # 0 => files'[sockfd'[l]] = l
  BY DEF Sockets
<1>3. \A u \in Threads : todo'[u] = Fields => \E f \in Fds : files'[f] = cur'[u]
  <2> SUFFICES ASSUME NEW u \in Threads, todo'[u] = Fields
               PROVE  \E f \in Fds : files'[f] = cur'[u]
    OBVIOUS
  <2>1. u # t /\ todo[u] = Fields /\ cur'[u] = cur[u]
    BY <1>1
  <2>2. PICK f \in Fds : files[f] = cur[u]
    BY <2>1 DEF Sockets
  <2> QED
    BY <2>1, <2>2
<1>4. \A u \in Threads : todo'[u] = CloseDefr => cur'[u] \in shot'
  BY <1>1 DEF Sockets
<1>5. ASSUME todo'["epoll"] = Recv1, reg' # 0
      PROVE  files'[reg'] = cur'["epoll"] \/ cur'["epoll"] \in shot'
  <2>1. "epoll" \in Threads /\ "epoll" # t
    BY <1>5, StacksTyped
  <2>2. todo["epoll"] = Recv1 /\ cur'["epoll"] = cur["epoll"] /\ reg' = reg
    BY <1>1, <1>5, <2>1
  <2> QED
    BY <1>5, <2>2 DEF Sockets
<1> QED
  BY <1>2, <1>3, <1>4, <1>5 DEF Sockets

(* io_close only closes the link's own socket, which no link being made    *)
(* has, and which no handler works on unless the user has destroyed the    *)
(* link: a handler's reference keeps the destructor away.                  *)
LEMMA SocketsClose ==
  ASSUME TypeOK, Places, Counts, OneDestructor, Creation, Sockets,
         NEW t \in Threads, io_close(t)
  PROVE  Sockets'
<1> DEFINE c == cur[t]
           f == sockfd[c]
<1>1. /\ GoesOn(t) /\ Quiet(todo'[t])
      /\ todo[t] = CloseDefr \/ todo[t] \in Closing
      /\ files' = IF f > 0 THEN [files EXCEPT ![f] = NoLink] ELSE files
      /\ sockfd' = [sockfd EXCEPT ![c] = 0] /\ UNCHANGED <<reg, shot>>
  BY CloseDoes DEF hist
<1>2. c \in Links /\ \A u \in Threads : u # t => todo'[u] = todo[u] /\ cur'[u] = cur[u]
  BY <1>1 DEF GoesOn, Went
<1>3. todo'[t] # Fields /\ todo'[t] # CloseDefr /\ todo'[t] # Recv1
  BY <1>1 DEF Quiet
<1>4. Complete(c) /\ todo[t] # Empty
  <2>1. todo[t] # Fields /\ todo[t] # Empty
    <3>1. CASE todo[t] = CloseDefr
      BY <3>1, Owing, Marks
    <3>2. CASE todo[t] \in Closing
      BY <3>2, Marks DEF Quiet
    <3> QED
      BY <1>1, <3>1, <3>2
  <2> QED
    BY <2>1 DEF Creation
<1>5. /\ f \in Fds \cup {0} /\ files \in [Fds -> Links \cup {NoLink}]
      /\ sockfd \in [Links -> Fds \cup {0}] /\ reg \in Fds \cup {0}
      /\ f # 0 => files[f] = c
  BY <1>2 DEF TypeOK, Sockets
<1>6. \A g \in Fds : g # f => files'[g] = files[g]
  BY <1>1, <1>5
<1>7. \A l \in Links : l # c => sockfd'[l] = sockfd[l]
  BY <1>1, <1>5
<1>8. sockfd'[c] = 0
  BY <1>1, <1>2, <1>5
<1> HIDE DEF c, f
<1>9. \A l \in Links : sockfd'[l] # 0 => files'[sockfd'[l]] = l
  <2> SUFFICES ASSUME NEW l \in Links, sockfd'[l] # 0
               PROVE  files'[sockfd'[l]] = l
    OBVIOUS
  <2>1. l # c /\ sockfd'[l] = sockfd[l] /\ sockfd[l] \in Fds
    BY <1>5, <1>7, <1>8
  <2>2. files[sockfd[l]] = l
    BY <2>1 DEF Sockets
  <2>3. sockfd[l] # f
    BY <1>5, <2>1, <2>2
  <2> QED
    BY <1>6, <2>1, <2>2, <2>3
<1>10. \A u \in Threads : todo'[u] = Fields => \E g \in Fds : files'[g] = cur'[u]
  <2> SUFFICES ASSUME NEW u \in Threads, todo'[u] = Fields
               PROVE  \E g \in Fds : files'[g] = cur'[u]
    OBVIOUS
  <2>1. u # t /\ todo[u] = Fields /\ cur'[u] = cur[u]
    BY <1>2, <1>3
  <2>2. PICK g \in Fds : files[g] = cur[u]
    BY <2>1 DEF Sockets
  <2>3. cur[u] # c
    BY <1>4, <2>1, Owing DEF Creation
  <2>4. g # f
    BY <1>5, <2>2, <2>3, FdsPositive
  <2> QED
    BY <1>6, <2>1, <2>2, <2>4
<1>11. \A u \in Threads : todo'[u] = CloseDefr => cur'[u] \in shot'
  BY <1>1, <1>2, <1>3 DEF Sockets
<1>12. ASSUME todo'["epoll"] = Recv1, reg' # 0
       PROVE  files'[reg'] = cur'["epoll"] \/ cur'["epoll"] \in shot'
  <2> DEFINE e == cur["epoll"]
  <2>1. "epoll" \in Threads /\ "epoll" # t
    BY <1>3, <1>12, StacksTyped
  <2>2. todo["epoll"] = Recv1 /\ cur'["epoll"] = e /\ reg' = reg /\ shot' = shot /\ reg \in Fds
    BY <1>1, <1>2, <1>5, <1>12, <2>1
  <2>3. files[reg] = e \/ e \in shot
    BY <1>12, <2>2 DEF Sockets
  <2>4. CASE reg # f
    BY <1>6, <2>2, <2>3, <2>4
  <2>5. CASE reg = f /\ e # c
    BY <1>5, <1>12, <2>2, <2>3, <2>5
  <2>6. CASE e = c /\ todo[t] = CloseDefr
    BY <2>2, <2>6 DEF Sockets, c
  <2>7. CASE e = c /\ todo[t] \in Closing
    <3>1. stat[c] = "destructing"
      BY <2>7, Marks DEF OneDestructor, c
    <3>2. refs[c] = 0
      BY <1>2, <3>1 DEF Counts
    <3>3. Weight(todo["epoll"]) <= refs[c]
      BY <1>2, <2>1, <2>7, HolderCounted
    <3>4. Weight(Recv1) = 1
      BY DEF Weight, Recv1, DefrDefr
    <3> QED
      BY <2>2, <3>2, <3>3, <3>4
  <2> QED
    BY <1>1, <2>4, <2>5, <2>6, <2>7
<1> QED
  BY <1>9, <1>10, <1>11, <1>12 DEF Sockets

(* A new socket has a number that no link and no handler uses.             *)
LEMMA SocketsCreate ==
  ASSUME TypeOK, Places, Sockets, NEW t \in Creators, NEW l \in Links, Create(t, l)
  PROVE  Sockets'
<1> DEFINE f == LowestFd
<1>1. /\ t \in Threads /\ t # "epoll" /\ Begins(t, l) /\ todo'[t] = Fields
      /\ f \in Fds /\ files[f] = NoLink /\ files' = [files EXCEPT ![f] = l]
      /\ UNCHANGED <<sockfd, reg, shot>>
  BY CreateDoes DEF ncb, hist
<1>2. cur'[t] = l /\ \A u \in Threads : u # t => todo'[u] = todo[u] /\ cur'[u] = cur[u]
  BY <1>1 DEF Begins, Went
<1>3. /\ files \in [Fds -> Links \cup {NoLink}] /\ sockfd \in [Links -> Fds \cup {0}]
      /\ reg \in Fds \cup {0} /\ NoLink \notin Links
  BY LifeAssumption DEF TypeOK
<1>4. \A g \in Fds : g # f => files'[g] = files[g]
  BY <1>1, <1>3
<1>5. files'[f] = l
  BY <1>1, <1>3
<1> HIDE DEF f
<1>6. \A k \in Links : sockfd'[k] # 0 => files'[sockfd'[k]] = k
  <2> SUFFICES ASSUME NEW k \in Links, sockfd[k] # 0
               PROVE  files'[sockfd[k]] = k
    BY <1>1
  <2>1. files[sockfd[k]] = k /\ sockfd[k] \in Fds
    BY <1>3 DEF Sockets
  <2> QED
    BY <1>1, <1>3, <1>4, <2>1
<1>7. \A u \in Threads : todo'[u] = Fields => \E g \in Fds : files'[g] = cur'[u]
  <2> SUFFICES ASSUME NEW u \in Threads, todo'[u] = Fields
               PROVE  \E g \in Fds : files'[g] = cur'[u]
    OBVIOUS
  <2>1. CASE u = t
    BY <1>1, <1>2, <1>5, <2>1
  <2>2. CASE u # t
    <3>1. todo[u] = Fields /\ cur'[u] = cur[u] /\ cur[u] \in Links
      BY <1>2, <2>2, Owing DEF Places, TypeOK
    <3>2. PICK g \in Fds : files[g] = cur[u]
      BY <3>1 DEF Sockets
    <3> QED
      BY <1>1, <1>3, <1>4, <3>1, <3>2
  <2> QED
    BY <2>1, <2>2
<1>8. \A u \in Threads : todo'[u] = CloseDefr => cur'[u] \in shot'
  BY <1>1, <1>2, Owing DEF Sockets
<1>9. ASSUME todo'["epoll"] = Recv1, reg' # 0
      PROVE  files'[reg'] = cur'["epoll"] \/ cur'["epoll"] \in shot'
  <2>1. /\ "epoll" \in Threads /\ todo["epoll"] = Recv1 /\ cur'["epoll"] = cur["epoll"]
        /\ reg' = reg /\ reg \in Fds /\ shot' = shot
    BY <1>1, <1>2, <1>3, <1>9, StacksTyped
  <2>2. cur["epoll"] \in Links
    BY <2>1, Marks DEF Places, TypeOK
  <2>3. files[reg] = cur["epoll"] \/ cur["epoll"] \in shot
    BY <1>9, <2>1 DEF Sockets
  <2> QED
    BY <1>1, <1>3, <1>4, <2>1, <2>2, <2>3
<1> QED
  BY <1>6, <1>7, <1>8, <1>9 DEF Sockets

(* The link is given the number of its own socket.                         *)
LEMMA SocketsFill ==
  ASSUME TypeOK, Places, Sockets, NEW t \in Users, Fill(t)
  PROVE  Sockets'
<1> DEFINE c == cur[t]
<1>1. /\ t \in Threads /\ t # "epoll" /\ GoesOn(t) /\ Quiet(todo'[t]) /\ todo[t] = Fields
      /\ sockfd' = [sockfd EXCEPT ![c] = OwnFd(c)] /\ UNCHANGED <<files, reg, shot>>
  BY FillDoes DEF hist
<1>2. c \in Links /\ \A u \in Threads : u # t => todo'[u] = todo[u] /\ cur'[u] = cur[u]
  BY <1>1 DEF GoesOn, Went
<1>3. todo'[t] # Fields /\ todo'[t] # CloseDefr
  BY <1>1 DEF Quiet
<1>4. OwnFd(c) \in Fds /\ files[OwnFd(c)] = c
  <2>1. \E f \in Fds : files[f] = c
    BY <1>1 DEF Sockets
  <2> QED
    BY <2>1 DEF OwnFd
<1>5. sockfd'[c] = OwnFd(c) /\ \A l \in Links : l # c => sockfd'[l] = sockfd[l]
  BY <1>1, <1>2 DEF TypeOK
<1>6. \A l \in Links : sockfd'[l] # 0 => files'[sockfd'[l]] = l
  BY <1>1, <1>4, <1>5 DEF Sockets
<1>7. \A u \in Threads : todo'[u] = Fields => \E f \in Fds : files'[f] = cur'[u]
  <2> SUFFICES ASSUME NEW u \in Threads, todo'[u] = Fields
               PROVE  \E f \in Fds : files'[f] = cur'[u]
    OBVIOUS
  <2>1. todo[u] = Fields /\ cur'[u] = cur[u]
    BY <1>2, <1>3
  <2>2. PICK f \in Fds : files[f] = cur[u]
    BY <2>1 DEF Sockets
  <2> QED
    BY <1>1, <2>1, <2>2
<1>8. \A u \in Threads : todo'[u] = CloseDefr => cur'[u] \in shot'
  BY <1>1, <1>2, <1>3 DEF Sockets
<1>9. ASSUME todo'["epoll"] = Recv1, reg' # 0
      PROVE  files'[reg'] = cur'["epoll"] \/ cur'["epoll"] \in shot'
  <2>1. todo["epoll"] = Recv1 /\ cur'["epoll"] = cur["epoll"] /\ reg' = reg /\ shot' = shot
    BY <1>1, <1>2, <1>9, StacksTyped
  <2> QED
    BY <1>1, <1>9, <2>1 DEF Sockets
<1> QED
  BY <1>6, <1>7, <1>8, <1>9 DEF Sockets

(* The handler loads the number of its own link.                           *)
LEMMA SocketsLoad ==
  ASSUME TypeOK, Places, Sockets, Load
  PROVE  Sockets'
<1>1. /\ "epoll" \in Threads /\ GoesOn("epoll") /\ todo'["epoll"] = Recv1
      /\ reg' = sockfd[cur["epoll"]] /\ UNCHANGED <<sockfd, files, shot>>
  BY LoadDoes, StacksTyped DEF ncb, hist
<1>2. /\ cur["epoll"] \in Links /\ cur'["epoll"] = cur["epoll"]
      /\ \A u \in Threads : u # "epoll" => todo'[u] = todo[u] /\ cur'[u] = cur[u]
  <2>1. todo'["epoll"] # Empty
    BY <1>1, Marks
  <2> QED
    BY <1>1, <2>1 DEF GoesOn, Went
<1>3. \A l \in Links : sockfd'[l] # 0 => files'[sockfd'[l]] = l
  BY <1>1 DEF Sockets
<1>4. \A u \in Threads : todo'[u] = Fields => \E f \in Fds : files'[f] = cur'[u]
  <2> SUFFICES ASSUME NEW u \in Threads, todo'[u] = Fields
               PROVE  \E f \in Fds : files'[f] = cur'[u]
    OBVIOUS
  <2>1. todo[u] = Fields /\ cur'[u] = cur[u]
    BY <1>1, <1>2, Owing
  <2>2. PICK f \in Fds : files[f] = cur[u]
    BY <2>1 DEF Sockets
  <2> QED
    BY <1>1, <2>1, <2>2
<1>5. \A u \in Threads : todo'[u] = CloseDefr => cur'[u] \in shot'
  BY <1>1, <1>2, Owing DEF Sockets
<1>6. reg' # 0 => files'[reg'] = cur'["epoll"]
  BY <1>1, <1>2 DEF Sockets
<1> QED
  BY <1>3, <1>4, <1>5, <1>6 DEF Sockets

(* What Sockets says is kept.                                              *)
LEMMA SocketsKept ==
  ASSUME TypeOK, Places, Counts, OneDestructor, Creation, Sockets, [Next]_vars
  PROVE  Sockets'
<1>1. \A s : Quiet(s) => s # Fields /\ s # CloseDefr /\ s # Recv1
  BY DEF Quiet
<1>2. \A t : GoesOn(t) => Went(t)
  BY DEF GoesOn
<1>3. \A t, l : Begins(t, l) => Went(t)
  BY DEF Begins
<1>4. ASSUME NEW t \in Threads, Went(t), UNCHANGED <<sockfd, files, shot, reg>>, Quiet(todo'[t])
      PROVE  Sockets'
  BY <1>1, <1>4, SocketsMove
<1>5. \A t \in Threads : objdefr(t) => Sockets'
  BY <1>2, <1>4, DefrDoes DEF ncb, hist
<1>6. \A t \in Threads : objclos(t) => Sockets'
  BY <1>2, <1>4, ClosDoes DEF ncb, hist
<1>7. \A t \in Threads : io_close(t) => Sockets'
  BY SocketsClose
<1>8. \A t \in Threads : Unlist(t) => Sockets'
  BY <1>2, <1>4, UnlistDoes DEF ncb, hist
<1>9. \A t \in Threads : ncb_post_closed(t) => Sockets'
  BY <1>2, <1>4, ClosedDoes DEF ncb, hist
<1>10. \A t \in Users : Fill(t) => Sockets'
  BY SocketsFill
<1>11. \A t \in Users : Return(t) => Sockets'
  BY <1>2, <1>4, ReturnDoes, Marks DEF ncb, hist
<1>12. \A t \in Users : SetTemplate(t) => Sockets'
  BY <1>2, <1>4, TemplateDoes, Marks DEF ncb, hist
<1>13. Load => Sockets'
  BY SocketsLoad
<1>14. RecvMore \/ RecvEnd => Sockets'
  <2> SUFFICES ASSUME RecvMore \/ RecvEnd PROVE Sockets'
    OBVIOUS
  <2>1. /\ "epoll" \in Threads /\ Went("epoll") /\ Quiet(todo'["epoll"])
        /\ UNCHANGED <<sockfd, files, shot>>
    BY <1>2, RecvDoes, Marks, StacksTyped DEF ncb, hist
  <2> QED
    BY <1>1, <2>1, SocketsMove
<1>15. \A t \in Creators, l \in Links : Create(t, l) => Sockets'
  BY SocketsCreate
<1>16. ASSUME NEW t \in Workers, NEW l \in Links, Destroy(t, l) PROVE Sockets'
  <2>1. /\ t \in Threads /\ t # "epoll" /\ Begins(t, l) /\ todo'[t] = CloseDefr
        /\ shot' = shot \cup {l} /\ UNCHANGED <<sockfd, files, reg>>
    BY <1>16, DestroyDoes DEF ncb
  <2>2. Went(t) /\ cur'[t] \in shot' /\ todo'[t] # Fields /\ shot \subseteq shot'
    BY <1>3, <2>1, Owing DEF Begins
  <2> QED
    BY <2>1, <2>2, SocketsMove
<1>17. \A t \in Workers, l \in Links : nis_cntl(t, l) => Sockets'
  BY <1>3, <1>4, CntlDoes, Marks DEF ncb, hist
<1>18. \A l \in Links : Hangup(l) => Sockets'
  BY <1>3, <1>4, HangupDoes, Marks, StacksTyped DEF ncb, hist
<1>19. \A l \in Links : Input(l) => Sockets'
  BY <1>3, <1>4, InputDoes, Marks, StacksTyped DEF ncb, hist
<1>20. UninitClose => Sockets'
  BY <1>3, <1>4, UninitCloseDoes, Marks, StacksTyped DEF ncb, hist
<1>21. ASSUME UNCHANGED <<todo, cur, sockfd, files, reg, shot>> PROVE Sockets'
  BY <1>21 DEF Sockets
<1>22. \A p \in Uninits : UninitCopy(p) \/ UninitNoMemory(p) => Sockets'
  BY <1>21 DEF UninitCopy, UninitNoMemory, ncb, hist
<1>23. \A t \in Workers, l \in Links : nis_cntl_unknown(t, l) => Sockets'
  BY <1>21 DEF nis_cntl_unknown, ncb
<1>24. UNCHANGED vars => Sockets'
  BY <1>21 DEF vars
<1> QED
  BY <1>5, <1>6, <1>7, <1>8, <1>9, <1>10, <1>11, <1>12, <1>13, <1>14, <1>15, <1>16, <1>17, <1>18,
     <1>19, <1>20, <1>22, <1>23, <1>24, StepCases

-----------------------------------------------------------------------------
(* A link that is closing, or further, stays so, and none is unmade.       *)
Onward ==
  \A l \in Links : /\ stat[l] \notin {"none", "open"} => stat'[l] \notin {"none", "open"}
                   /\ stat[l] # "none" => stat'[l] # "none"

(* The work left to ncb_uninit is not touched by the steps of the others.  *)
LEMMA UninitOthers ==
  ASSUME TypeOK, UninitWork, NEW t \in Threads, t # "uninit", Went(t), UNCHANGED <<un, own>>,
         Onward
  PROVE  UninitWork'
<1>1. /\ todo'["uninit"] = todo["uninit"] /\ cur'["uninit"] = cur["uninit"]
      /\ UNCHANGED <<hlds, last, due, starved, own>> /\ due \subseteq Links
  BY StacksTyped DEF Went, un, TypeOK
<1>2. ~starved =>
        \A l \in due : \/ stat'[l] \notin {"none", "open"}
                       \/ stat'[l] # "none" /\ \E i \in 1 .. Len(hlds) : hlds[i] = l
                       \/ stat'[l] # "none" /\ todo["uninit"] = Clos1 /\ cur["uninit"] = l
  BY <1>1 DEF UninitWork, Onward
<1> QED
  BY <1>1, <1>2 DEF UninitWork

(* Nor by its own in the destructor, whose link is closed already.         *)
LEMMA UninitGoesOn ==
  ASSUME TypeOK, UninitWork, GoesOn("uninit"), todo["uninit"] # Clos1, UNCHANGED <<un, own>>,
         Onward
  PROVE  UninitWork'
<1>1. /\ UNCHANGED <<hlds, last, due, starved, own>> /\ due \subseteq Links
      /\ cur'["uninit"] \in {cur["uninit"], NoLink} /\ todo["uninit"] # Empty
  BY DEF GoesOn, Went, un, TypeOK
<1>3. last # NoLink /\ ~starved
  BY <1>1 DEF UninitWork
<1>2. \A l \in due : \/ stat'[l] \notin {"none", "open"}
                     \/ stat'[l] # "none" /\ \E i \in 1 .. Len(hlds) : hlds[i] = l
  BY <1>1, <1>3 DEF UninitWork, Onward
<1> QED
  BY <1>1, <1>2, <1>3 DEF UninitWork

(* Its objclos closes the link it has come to, if nobody has before; that  *)
(* is the last link of the list only when it has come to the end.          *)
LEMMA UninitCloses ==
  ASSUME TypeOK, Places, Counts, UninitWork, Onward, objclos("uninit")
  PROVE  UninitWork'
<1> DEFINE c == cur["uninit"]
<1>1. "uninit" \in Threads
  BY StacksTyped
<1>2. /\ GoesOn("uninit") /\ todo["uninit"] = Clos1 /\ UNCHANGED <<hlds, last, due, starved>>
      /\ \/ UNCHANGED own /\ stat[c] = "open" /\ stat' = [stat EXCEPT ![c] = "closing"]
         \/ UNCHANGED own /\ stat[c] # "open" /\ UNCHANGED stat
         \/ own' = own \cup {c} /\ stat' = [stat EXCEPT ![c] = "destructing"]
  BY <1>1, ClosDoes DEF un
<1>3. c \in Links /\ cur'["uninit"] \in {c, NoLink} /\ due \subseteq Links
  BY <1>2 DEF GoesOn, Went, TypeOK
<1>4. own' \subseteq own \cup {c} /\ stat'[c] # "open"
  BY <1>2, <1>3 DEF TypeOK
<1>6. last # NoLink /\ ~starved
  BY <1>2, Marks DEF UninitWork
<1>5. \A l \in due : \/ stat'[l] \notin {"none", "open"}
                     \/ stat'[l] # "none" /\ \E i \in 1 .. Len(hlds) : hlds[i] = l
  <2> SUFFICES ASSUME NEW l \in due
               PROVE  \/ stat'[l] \notin {"none", "open"}
                      \/ stat'[l] # "none" /\ \E i \in 1 .. Len(hlds) : hlds[i] = l
    OBVIOUS
  <2>1. CASE l = c
    <3>1. stat[c] # "none"
      BY <1>6, <2>1 DEF UninitWork
    <3>2. stat'[c] # "none"
      BY <1>3, <3>1 DEF Onward
    <3> QED
      BY <1>4, <2>1, <3>2
  <2>2. CASE l # c
    BY <1>3, <1>6, <2>2 DEF UninitWork, Onward
  <2> QED
    BY <2>1, <2>2
<1>7. hlds # << >> => last \notin own' /\ cur'["uninit"] # last
  BY <1>3, <1>4, <1>6 DEF UninitWork
<1> QED
  BY <1>2, <1>5, <1>6, <1>7 DEF UninitWork

(* ncb_uninit goes to the next handle.                                     *)
LEMMA UninitNext ==
  ASSUME TypeOK, Places, UninitWork, UninitClose
  PROVE  UninitWork'
<1>1. /\ hlds # << >> /\ Head(hlds) \in Links /\ hlds' = Tail(hlds)
      /\ todo["uninit"] = Empty /\ todo'["uninit"] = Clos1 /\ cur'["uninit"] = Head(hlds)
      /\ UNCHANGED <<stat, last, due, starved, own>>
  BY UninitCloseDoes DEF user, Begins
<1>2. /\ hlds \in Seq(Links) /\ Head(hlds) = hlds[1] /\ Len(hlds) \in Nat /\ Len(hlds) >= 1
      /\ Len(Tail(hlds)) = Len(hlds) - 1
      /\ \A i \in 1 .. Len(Tail(hlds)) : Tail(hlds)[i] = hlds[i + 1]
  BY <1>1 DEF TypeOK
<1>4. last # NoLink /\ ~starved /\ last \notin own
      /\ \A i \in 1 .. Len(hlds) - 1 : hlds[i] # last
  BY <1>1 DEF UninitWork
<1>3. \A l \in due : \/ stat'[l] \notin {"none", "open"}
                     \/ stat'[l] # "none" /\ \E i \in 1 .. Len(hlds') : hlds'[i] = l
                     \/ stat'[l] # "none" /\ todo'["uninit"] = Clos1 /\ cur'["uninit"] = l
  <2> SUFFICES ASSUME NEW l \in due
               PROVE  \/ stat[l] \notin {"none", "open"}
                      \/ stat[l] # "none" /\ \E i \in 1 .. Len(Tail(hlds)) : Tail(hlds)[i] = l
                      \/ stat[l] # "none" /\ hlds[1] = l
    BY <1>1, <1>2
  <2>1. CASE stat[l] \notin {"none", "open"}
    BY <2>1
  <2>2. CASE stat[l] # "none" /\ \E i \in 1 .. Len(hlds) : hlds[i] = l
    <3>1. PICK i \in 1 .. Len(hlds) : hlds[i] = l
      BY <2>2
    <3>2. CASE i = 1
      BY <2>2, <3>1, <3>2
    <3>3. CASE i # 1
      <4>1. i - 1 \in 1 .. Len(Tail(hlds)) /\ (i - 1) + 1 = i
        BY <1>2, <3>3
      <4>2. Tail(hlds)[i - 1] = l
        BY <1>2, <3>1, <4>1
      <4> QED
        BY <2>2, <4>1, <4>2
    <3> QED
      BY <3>2, <3>3
  <2>3. CASE stat[l] # "none" /\ todo["uninit"] = Clos1
    BY <1>1, <2>3, Marks
  <2> QED
    BY <1>4, <2>1, <2>2, <2>3 DEF UninitWork
<1>5. ASSUME Tail(hlds) # << >>
      PROVE  hlds[1] # last /\ \A i \in 1 .. Len(Tail(hlds)) - 1 : Tail(hlds)[i] # last
  <2>1. Len(Tail(hlds)) >= 1
    BY <1>2, <1>5
  <2>2. 1 \in 1 .. Len(hlds) - 1
    BY <1>2, <2>1
  <2>3. \A i \in 1 .. Len(Tail(hlds)) - 1 :
          i \in 1 .. Len(Tail(hlds)) /\ i + 1 \in 1 .. Len(hlds) - 1
    BY <1>2
  <2> QED
    BY <1>2, <1>4, <2>2, <2>3
<1> QED
  BY <1>1, <1>2, <1>3, <1>4, <1>5 DEF UninitWork

(* ncb_uninit copies the handles of the links it has to close: those on    *)
(* the list, none of which is gone.  The entry visited last can only be    *)
(* the last one copied.                                                    *)
LEMMA UninitCopies ==
  ASSUME TypeOK, Places, OneDestructor, Listed, UninitWork, NEW p \in Uninits, UninitCopy(p)
  PROVE  UninitWork'
<1> DEFINE mine == {l \in Links : proto[l] = p}
           q == Only(listed, mine)
           n == Len(listed)
<1>1. /\ todo["uninit"] = Empty /\ last = NoLink /\ listed # << >>
      /\ hlds' = q /\ last' = Last(listed) /\ due' = ToSet(listed) \cap mine
      /\ ~starved' /\ UNCHANGED <<todo, cur, stat, own>>
  BY DEF UninitCopy, user, Idle, Empty
<1>2. /\ listed \in Seq(Links) /\ n \in Nat /\ n > 0 /\ Last(listed) = listed[n]
      /\ listed[n] \in Links /\ ToSet(listed) = {listed[i] : i \in 1 .. n}
  BY <1>1 DEF TypeOK, Last, ToSet
<1>3. own = {} /\ cur["uninit"] = NoLink /\ NoLink \notin Links
  BY <1>1, LifeAssumption, StacksTyped DEF UninitWork, Places
<1> HIDE DEF mine
<1>4. \A l \in due' : stat[l] # "none" /\ \E i \in 1 .. Len(q) : q[i] = l
  <2> SUFFICES ASSUME NEW l \in due'
               PROVE  stat[l] # "none" /\ \E i \in 1 .. Len(q) : q[i] = l
    OBVIOUS
  <2>1. PICK j \in 1 .. n : listed[j] = l /\ l \in mine
    BY <1>1, <1>2
  <2>2. \E i \in 1 .. Len(q) : q[i] = listed[j]
    BY <1>2, <2>1, OnlyAll
  <2>3. l \in Counted
    BY <2>1 DEF Listed
  <2>4. stat[l] # "none"
    <3>1. CASE stat[l] \in {"open", "closing"}
      BY <3>1
    <3>2. CASE \E t \in Threads : cur[t] = l /\ ToUnlist(todo[t])
      <4>1. PICK t \in Threads : cur[t] = l /\ Destructing(todo[t])
        BY <3>2 DEF ToUnlist, Destructing
      <4> QED
        BY <4>1 DEF OneDestructor
    <3> QED
      BY <2>3, <3>1, <3>2 DEF Counted
  <2> QED
    BY <2>1, <2>2, <2>4
<1>5. \A i \in 1 .. Len(q) - 1 : q[i] # listed[n]
  <2> SUFFICES ASSUME NEW i \in 1 .. Len(q) - 1, q[i] = listed[n] PROVE FALSE
    OBVIOUS
  <2>1. q \in Seq(Links) /\ Len(q) \in Nat
    BY <1>2, OnlyFrom
  <2>2. i \in 1 .. Len(q) /\ Len(q) \in 1 .. Len(q) /\ i # Len(q)
    BY <2>1
  <2>3. PICK j \in 1 .. n : q[i] = listed[j] /\ listed[j] \in mine
    BY <1>2, <2>2, OnlyFrom
  <2>4. q[Len(q)] = listed[n]
    BY <1>2, <2>3, OnlyLast
  <2>5. \A h, k \in 1 .. Len(q) : q[h] = q[k] => h = k
    BY <1>2, OnlyDistinct DEF Listed
  <2> QED
    BY <2>2, <2>4, <2>5
<1> HIDE DEF q, n
<1> QED
  BY <1>1, <1>2, <1>3, <1>4, <1>5 DEF UninitWork

(* Without memory for its copy ncb_uninit leaves everything as it is.      *)
LEMMA UninitGivesUp ==
  ASSUME UninitWork, NEW p \in Uninits, UninitNoMemory(p)
  PROVE  UninitWork'
<1>1. /\ last = NoLink /\ starved' /\ UNCHANGED <<todo, hlds, last, own>>
  BY DEF UninitNoMemory, user
<1>2. own = {} /\ hlds = << >> /\ todo["uninit"] = Empty
  BY <1>1 DEF UninitWork
<1> QED
  BY <1>1, <1>2 DEF UninitWork

(* The work of ncb_uninit is kept.                                         *)
LEMMA UninitWorkKept ==
  ASSUME TypeOK, Places, Counts, OneDestructor, Listed, UninitWork, [Next]_vars
  PROVE  UninitWork'
<1>0. /\ stat \in [Links -> {"none", "open", "closing", "destructing", "gone"}]
      /\ \A t : GoesOn(t) => Went(t) /\ cur[t] \in Links
      /\ \A t, l : Begins(t, l) => Went(t)
  BY DEF TypeOK, GoesOn, Begins
<1>1. ASSUME UNCHANGED stat PROVE Onward
  BY <1>1 DEF Onward
<1>2. ASSUME NEW t \in Threads, objdefr(t) PROVE UninitWork'
  <2>1. /\ t # "uninit" /\ Went(t) /\ UNCHANGED <<un, own>>
        /\ UNCHANGED stat \/ /\ stat[cur[t]] = "closing"
                             /\ stat' = [stat EXCEPT ![cur[t]] = "destructing"]
    BY <1>0, <1>2, DefrDoes
  <2>2. Onward
    BY <1>0, <2>1 DEF Onward
  <2> QED
    BY <2>1, <2>2, UninitOthers
<1>3. ASSUME NEW t \in Threads, objclos(t) PROVE UninitWork'
  <2>1. /\ Went(t) /\ UNCHANGED un
        /\ \/ UNCHANGED stat
           \/ stat[cur[t]] = "open" /\ stat' = [stat EXCEPT ![cur[t]] = "closing"]
           \/ stat[cur[t]] = "open" /\ stat' = [stat EXCEPT ![cur[t]] = "destructing"]
        /\ t # "uninit" => UNCHANGED own
    BY <1>0, <1>3, ClosDoes
  <2>2. Onward
    BY <1>0, <2>1 DEF Onward
  <2>3. CASE t = "uninit"
    BY <1>3, <2>2, <2>3, UninitCloses
  <2>4. CASE t # "uninit"
    BY <2>1, <2>2, <2>4, UninitOthers
  <2> QED
    BY <2>3, <2>4
<1>4. ASSUME NEW t \in Threads, GoesOn(t), todo[t] # Clos1, UNCHANGED <<un, own>>, Onward
      PROVE  UninitWork'
  BY <1>0, <1>4, UninitOthers, UninitGoesOn
<1>5. ASSUME NEW t \in Threads, io_close(t) PROVE UninitWork'
  <2>1. GoesOn(t) /\ todo[t] # Clos1 /\ UNCHANGED <<un, own, stat>>
    BY <1>5, CloseDoes, Marks DEF user
  <2> QED
    BY <1>1, <1>4, <2>1
<1>6. ASSUME NEW t \in Threads, Unlist(t) PROVE UninitWork'
  <2>1. GoesOn(t) /\ todo[t] # Clos1 /\ UNCHANGED <<un, own, stat>>
    BY <1>6, UnlistDoes, Marks DEF user
  <2> QED
    BY <1>1, <1>4, <2>1
<1>7. ASSUME NEW t \in Threads, ncb_post_closed(t) PROVE UninitWork'
  <2>1. /\ GoesOn(t) /\ todo[t] # Clos1 /\ UNCHANGED <<un, own>>
        /\ stat' = [stat EXCEPT ![cur[t]] = "gone"]
    BY <1>7, ClosedDoes, Marks
  <2>2. Onward
    BY <1>0, <2>1 DEF Onward
  <2> QED
    BY <1>4, <2>1, <2>2
<1>8. ASSUME NEW t \in Users, Fill(t) \/ Return(t) \/ SetTemplate(t) PROVE UninitWork'
  <2>1. /\ t \in Threads /\ GoesOn(t) /\ todo[t] # Clos1 /\ UNCHANGED <<un, own, stat>>
    BY <1>8, FillDoes, ReturnDoes, TemplateDoes, Marks DEF user
  <2> QED
    BY <1>1, <1>4, <2>1
<1>9. ASSUME Load \/ (RecvMore \/ RecvEnd) PROVE UninitWork'
  <2>1. GoesOn("epoll") /\ todo["epoll"] # Clos1 /\ UNCHANGED <<un, own, stat>>
    BY <1>9, LoadDoes, RecvDoes, Marks DEF user
  <2> QED
    BY <1>1, <1>4, <2>1, StacksTyped
<1>10. ASSUME NEW t \in Creators, NEW l \in Links, Create(t, l) PROVE UninitWork'
  <2>1. /\ t \in Threads /\ t # "uninit" /\ Went(t) /\ UNCHANGED <<un, own>>
        /\ stat[l] = "none" /\ stat' = [stat EXCEPT ![l] = "open"]
    BY <1>0, <1>10, CreateDoes DEF user
  <2>2. Onward
    BY <1>0, <2>1 DEF Onward
  <2> QED
    BY <2>1, <2>2, UninitOthers
<1>11. ASSUME NEW t \in Workers, NEW l \in Links, Destroy(t, l) PROVE UninitWork'
  <2>1. /\ t \in Threads /\ t # "uninit" /\ Went(t) /\ UNCHANGED <<un, own>>
        /\ stat' = [stat EXCEPT ![l] = "closing"]
    BY <1>0, <1>11, DestroyDoes DEF user
  <2>2. Onward
    <3>1. stat[l] = "open"
      BY <1>11 DEF Destroy
    <3> QED
      BY <1>0, <2>1, <3>1 DEF Onward
  <2> QED
    BY <2>1, <2>2, UninitOthers
<1>12. ASSUME NEW t \in Workers, NEW l \in Links, nis_cntl(t, l) PROVE UninitWork'
  <2>1. t \in Threads /\ t # "uninit" /\ Went(t) /\ UNCHANGED <<un, own, stat>>
    BY <1>0, <1>12, CntlDoes DEF user
  <2> QED
    BY <1>1, <2>1, UninitOthers
<1>13. ASSUME NEW l \in Links, Hangup(l) \/ Input(l) PROVE UninitWork'
  <2>1. "epoll" \in Threads /\ Went("epoll") /\ UNCHANGED <<un, own, stat>>
    BY <1>0, <1>13, HangupDoes, InputDoes, StacksTyped DEF user
  <2> QED
    BY <1>1, <2>1, UninitOthers
<1>14. \A p \in Uninits : UninitCopy(p) \/ UninitNoMemory(p) => UninitWork'
  BY UninitCopies, UninitGivesUp
<1>15. UninitClose => UninitWork'
  BY UninitNext
<1>16. ASSUME UNCHANGED <<todo, cur, un, own, stat>> PROVE UninitWork'
  BY <1>16 DEF UninitWork, un
<1>17. \A t \in Workers, l \in Links : nis_cntl_unknown(t, l) => UninitWork'
  BY <1>16 DEF nis_cntl_unknown, objrefr
<1>18. UNCHANGED vars => UninitWork'
  BY <1>16 DEF vars, un
<1> QED
  BY <1>2, <1>3, <1>5, <1>6, <1>7, <1>8, <1>9, <1>10, <1>11, <1>12, <1>13, <1>14, <1>15, <1>17,
     <1>18, StepCases

-----------------------------------------------------------------------------
(* The inductive invariant holds before the first call.                    *)
LEMMA InitIInv == Init => IInv
<1> SUFFICES ASSUME Init PROVE IInv
  OBVIOUS
<1>1. /\ \A t \in Threads : todo[t] = Empty /\ cur[t] = NoLink
      /\ \A l \in Links : /\ stat[l] = "none" /\ refs[l] = 0 /\ proto[l] = "unset"
                          /\ sockfd[l] = 0 /\ told[l] = << >>
      /\ listed = << >> /\ nl_count = 0 /\ known = {} /\ reg = 0 /\ hlds = << >>
      /\ last = NoLink /\ due = {} /\ own = {} /\ ~starved /\ Len(<< >>) = 0
  BY DEF Init, Empty
<1>2. "epoll" \in Threads /\ "uninit" \in Threads /\ NoLink \notin Links
  BY LifeAssumption, StacksTyped
<1>3. TypeOK
  <2>1. todo \in [Threads -> Seq(Labels)] /\ cur \in [Threads -> Links \cup {NoLink}]
    BY DEF Init
  <2>2. /\ stat \in [Links -> {"none", "open", "closing", "destructing", "gone"}]
        /\ refs \in [Links -> Nat] /\ proto \in [Links -> Protocols \cup {"unset"}]
        /\ sockfd \in [Links -> Fds \cup {0}] /\ files \in [Fds -> Links \cup {NoLink}]
        /\ told \in [Links -> Seq({"preclose", "closed"})]
    BY DEF Init
  <2>3. /\ listed \in Seq(Links) /\ nl_count \in Nat /\ hlds \in Seq(Links)
        /\ last \in Links \cup {NoLink} /\ reg \in Fds \cup {0} /\ shot = {} /\ leaked = {}
        /\ starved = FALSE
    BY DEF Init
  <2> QED
    BY <1>1, <2>1, <2>2, <2>3 DEF TypeOK
<1>4. Places
  BY <1>1, Homes DEF Places
<1>5. Counts
  <2> SUFFICES ASSUME NEW l \in Links PROVE Cardinality(Holds(l)) <= refs[l] /\ refs[l] = 0
    BY DEF Counts
  <2>1. Holds(l) = {}
    BY <1>1, <1>2 DEF Holds
  <2> QED
    BY <1>1, <2>1, FS_EmptySet
<1>6. \A t \in Threads : ~Destructing(todo[t]) /\ ~ToUnlist(todo[t])
  BY <1>1, Marks DEF Plain
<1>7. OneDestructor /\ Told
  BY <1>1, <1>6 DEF OneDestructor, Told
<1>8. Listed
  <2>1. Counted = {}
    BY <1>1, <1>6 DEF Counted
  <2> QED
    BY <1>1, <2>1, FS_EmptySet DEF Listed
<1>9. Creation
  BY <1>1, Owing DEF Creation, Complete
<1>10. Sockets
  BY <1>1, <1>2, Owing, Marks DEF Sockets, Empty, Recv1, CloseDefr
<1>11. UninitWork
  BY <1>1, <1>2 DEF UninitWork
<1> QED
  BY <1>3, <1>4, <1>5, <1>7, <1>8, <1>9, <1>10, <1>11 DEF IInv

(* Every step keeps it.                                                    *)
LEMMA StepIInv == IInv /\ [Next]_vars => IInv'
BY TypeKept, PlacesKept, CountsKept, OneDestructorKept, ToldKept, ListedKept, CreationKept,
   SocketsKept, UninitWorkKept DEF IInv

(* In every state of every run, for any numbers of links, threads and      *)
(* descriptors: references are counted, one thread runs the destructor of  *)
(* a link, the list and nl_count agree, and numbers name the links' own    *)
(* sockets (ncb.c, object references, io.c).                               *)
THEOREM LinksSafe == Spec => []IInv
BY InitIInv, StepIInv, PTL DEF Spec

(* As many links are counted as are on the list, or more.                  *)
LEMMA ListFits ==
  ASSUME TypeOK, Listed
  PROVE  Len(listed) <= nl_count
<1>1. Len(listed) \in Nat /\ listed \in [1 .. Len(listed) -> Counted]
  BY DEF TypeOK, Listed
<1>2. listed \in Injection(1 .. Len(listed), Counted)
  BY <1>1 DEF Listed, Injection, IsInjective
<1>3. Cardinality(1 .. Len(listed)) <= Cardinality(Counted)
  BY <1>2, FS_Injection DEF Listed
<1>4. Cardinality(1 .. Len(listed)) = Len(listed)
  BY <1>1, FS_Interval
<1> QED
  BY <1>3, <1>4 DEF Listed

(* A counted link is there.                                                *)
LEMMA CountedLive ==
  ASSUME OneDestructor, NEW l \in Counted
  PROVE  stat[l] \notin {"none", "gone"}
<1>1. CASE stat[l] \in {"open", "closing"}
  BY <1>1
<1>2. CASE \E t \in Threads : cur[t] = l /\ ToUnlist(todo[t])
  BY <1>2 DEF ToUnlist, Destructing, OneDestructor
<1> QED
  BY <1>1, <1>2 DEF Counted

(* The step of the destructor a thread has reached.                        *)
LEMMA AtUnlist ==
  ASSUME Places, NEW t \in Threads, At(t, "unlist")
  PROVE  ToUnlist(todo[t]) /\ cur[t] # NoLink
<1>1. todo[t] \in Stacks /\ todo[t] # << >> /\ Head(todo[t]) = "unlist"
  BY StacksTyped DEF Places, At, Idle
<1>2. todo[t] \in Unlisting
  BY <1>1, Heads
<1> QED
  BY <1>2, Marks DEF Places

(* The list has no freed link and none twice, nl_count is never behind it, *)
(* and the assertion of ncb_deconstruct on nl_count never fails, although  *)
(* links leave the list and the count at different times (ncb.c).          *)
THEOREM ListIsSafe == Spec => []ListSafe
<1>1. IInv => ListSafe
  <2> SUFFICES ASSUME IInv PROVE ListSafe
    OBVIOUS
  <2> USE DEF IInv
  <2>1. \A l \in ToSet(listed) : stat[l] \notin {"none", "gone"}
    BY CountedLive DEF Listed, ToSet, TypeOK
  <2>2. IsInjective(listed)
    <3>1. DOMAIN listed = 1 .. Len(listed)
      BY DEF TypeOK
    <3>2. \A i, j \in 1 .. Len(listed) : listed[i] = listed[j] => i = j
      BY DEF Listed
    <3> HIDE DEF IInv
    <3> QED
      BY <3>1, <3>2 DEF IsInjective
  <2>3. Len(listed) <= nl_count
    BY ListFits
  <2>4. ASSUME NEW t \in Threads, At(t, "unlist") PROVE nl_count > 0
    <3>1. cur[t] \in Counted
      BY <2>4, AtUnlist DEF Counted, TypeOK
    <3>2. IsFiniteSet(Counted) /\ Cardinality(Counted) # 0 /\ nl_count = Cardinality(Counted)
      BY <3>1, FS_EmptySet DEF Listed
    <3> QED
      BY <3>2 DEF TypeOK
  <2> QED
    BY <2>1, <2>2, <2>3, <2>4 DEF ListSafe
<1> QED
  BY LinksSafe, <1>1, PTL

(* Each link's user gets preclose and then closed, once each, and before   *)
(* the memory is given back (ncb_deconstruct).                             *)
THEOREM CallbacksComeOnce == Spec => []CallbacksOnce
<1>1. IInv => CallbacksOnce
  <2> SUFFICES ASSUME IInv, NEW l \in Links
               PROVE  /\ told[l] \in {<< >>, <<"preclose">>, <<"preclose", "closed">>}
                      /\ stat[l] = "gone" <=> told[l] = <<"preclose", "closed">>
    BY DEF CallbacksOnce
  <2>1. told[l] = CASE stat[l] = "destructing" -> <<"preclose">>
                    [] stat[l] = "gone" -> <<"preclose", "closed">>
                    [] OTHER -> << >>
    BY DEF IInv, Told
  <2>2. <<"preclose", "closed">> # <<"preclose">> /\ <<"preclose", "closed">> # << >>
    OBVIOUS
  <2> HIDE DEF IInv
  <2> QED
    BY <2>1, <2>2
<1> QED
  BY LinksSafe, <1>1, PTL

(* io_close closes no number that names another link's socket, and a read  *)
(* handler meets another link's socket only when a *_destroy call has      *)
(* closed its own under it (ncb.c, io.c).                                  *)
THEOREM SocketsStayApart == Spec => []SocketsApart
<1>1. IInv => SocketsApart
  <2> SUFFICES ASSUME IInv PROVE SocketsApart
    OBVIOUS
  <2> USE DEF IInv
  <2>1. ForeignOnlyAfterDestroy
    <3> SUFFICES ASSUME At("epoll", "recv"), reg # 0, files[reg] # cur["epoll"]
                 PROVE  cur["epoll"] \in shot
      BY DEF ForeignOnlyAfterDestroy
    <3>1. todo["epoll"] \in Stacks /\ todo["epoll"] # << >> /\ Head(todo["epoll"]) = "recv"
      BY StacksTyped DEF Places, At, Idle
    <3>2. todo["epoll"] = Recv1
      BY <3>1, Heads
    <3> QED
      BY <3>2 DEF Sockets
  <2>2. ClosesOwnSocket
    <3> SUFFICES ASSUME NEW t \in Threads, At(t, "close"), sockfd[cur[t]] # 0
                 PROVE  files[sockfd[cur[t]]] = cur[t]
      BY DEF ClosesOwnSocket
    <3>1. cur[t] \in Links
      BY DEF Places, At, Idle, Empty, TypeOK
    <3> QED
      BY <3>1 DEF Sockets
  <2> QED
    BY <2>1, <2>2 DEF SocketsApart
<1> QED
  BY LinksSafe, <1>1, PTL

(* When ncb_uninit has gone through its handles, every link of the protocol*)
(* it found complete on the list is closed or closing, unless it had no    *)
(* memory for the handles; and the entry it still reads for its log has    *)
(* not been freed by itself (ncb.c:30-60).                                 *)
THEOREM UninitIsComplete == Spec => []UninitComplete
<1>1. IInv => UninitComplete
  <2> SUFFICES ASSUME IInv PROVE UninitComplete
    OBVIOUS
  <2> USE DEF IInv
  <2>1. UninitClosesAll
    <3> SUFFICES ASSUME Idle("uninit"), hlds = << >>, ~starved, NEW l \in due
                 PROVE  stat[l] # "open"
      BY DEF UninitClosesAll
    <3>1. todo["uninit"] # Clos1 /\ Len(hlds) = 0
      BY Marks DEF Idle, Empty
    <3> QED
      BY <3>1 DEF UninitWork
  <2>2. UninitReadsOwn
    BY DEF UninitReadsOwn, UninitWork
  <2> QED
    BY <2>1, <2>2 DEF UninitComplete
<1> QED
  BY LinksSafe, <1>1, PTL

-----------------------------------------------------------------------------
(***************************************************************************)
(* The abstract object.  A thread is inside a link exactly while it holds  *)
(* a reference.                                                            *)
(***************************************************************************)
Lives == [l \in Links |-> CASE stat[l] = "open" -> "live"
                            [] stat[l] = "closing" -> "dying"
                            [] stat[l] = "none" -> "none"
                            [] OTHER -> "dead"]

Insides == [l \in Links |-> {t \in Threads : cur[t] = l /\ ToSet(todo[t]) \cap Inner # {}}]

In(l) == {t \in Threads : cur[t] = l /\ Weight(todo[t]) >= 1}

(* The steps that use the link are those that hold a reference.            *)
LEMMA InnerHolds == \A s \in Stacks : ToSet(s) \cap Inner # {} <=> Weight(s) >= 1
<1> SUFFICES ASSUME NEW s \in Stacks
             PROVE  ToSet(s) \cap Inner # {} <=> Weight(s) >= 1
  OBVIOUS
<1>1. ToSet(s) \cap Inner # {} <=> \E i \in DOMAIN s : s[i] \in Inner
  BY DEF ToSet
<1>2. CASE s \in {Fields, Defr1, DefrReturn, DefrClos, DefrDefr, TstDefr, LoadRecv, Recv1}
  <2>1. 1 \in DOMAIN s /\ s[1] \in Inner
    BY <1>2 DEF Fields, Defr1, DefrReturn, DefrClos, DefrDefr, TstDefr, LoadRecv, Recv1, Inner
  <2>2. Weight(s) >= 1
    BY <1>2 DEF Weight
  <2> QED
    BY <1>1, <2>1, <2>2
<1>3. CASE s \in {ClosDefr, CloseDefr}
  <2>1. 2 \in DOMAIN s /\ s[2] \in Inner
    BY <1>3 DEF ClosDefr, CloseDefr, Inner
  <2>2. Weight(s) >= 1
    BY <1>3 DEF Weight
  <2> QED
    BY <1>1, <2>1, <2>2
<1>4. CASE s \in {Empty, Return1, Clos1} \cup Closing \cup Unlisting \cup Freeing
  <2>1. \A i \in DOMAIN s : s[i] \notin Inner
    BY <1>4 DEF Empty, Return1, Clos1, Closing, Unlisting, Freeing, D3, D3Return, D3Clos,
                D2, D2Return, D2Clos, D1, D1Return, D1Clos, Inner
  <2>2. Weight(s) = 0
    BY <1>4, Weights
  <2> QED
    BY <1>1, <2>1, <2>2
<1> QED
  BY <1>2, <1>3, <1>4 DEF Stacks, UserStacks, EpollStacks, UninitStacks, Closing, Unlisting, Freeing

(* So the threads inside are those that hold a reference.                  *)
LEMMA InsideHolds ==
  ASSUME Places
  PROVE  Insides = [l \in Links |-> In(l)]
<1>1. \A t \in Threads : todo[t] \in Stacks
  BY StacksTyped DEF Places
<1>2. \A l : {t \in Threads : cur[t] = l /\ ToSet(todo[t]) \cap Inner # {}} = In(l)
  BY <1>1, InnerHolds DEF In
<1> QED
  BY <1>2 DEF Insides

(* The same in the next state.                                             *)
LEMMA InsideHoldsNext ==
  ASSUME Places'
  PROVE  Insides' = [l \in Links |-> In(l)']
<1>1. \A t \in Threads : todo'[t] \in Stacks
  BY StacksTyped DEF Places
<1>2. \A l : {t \in Threads : cur'[t] = l /\ ToSet(todo'[t]) \cap Inner # {}} = In(l)'
  BY <1>1, InnerHolds DEF In
<1> QED
  BY <1>2 DEF Insides

(* The steps of the abstract object.                                       *)
LEMMA ObjectRests ==
  ASSUME Lives' = Lives, Insides' = Insides
  PROVE  UNCHANGED Object!vars
BY DEF Object!vars, Lives, Insides

(* Creation lets the creator in.                                           *)
LEMMA ObjectCreate ==
  ASSUME NEW l \in Links, NEW t \in Threads, Lives[l] = "none",
         Lives' = [Lives EXCEPT ![l] = "live"], Insides' = [Insides EXCEPT ![l] = {t}]
  PROVE  Object!Next
<1>1. Object!Create(l, t)
  BY DEF Object!Create, Object!Becomes, Object!Holds, Lives, Insides
<1> QED
  BY <1>1 DEF Object!Next

(* A thread enters a living object.                                        *)
LEMMA ObjectEnter ==
  ASSUME NEW l \in Links, NEW t \in Threads, Lives[l] = "live", Lives' = Lives,
         Insides' = [Insides EXCEPT ![l] = Insides[l] \cup {t}]
  PROVE  Object!Next
<1>1. Object!Enter(l, t)
  BY DEF Object!Enter, Object!Holds, Lives, Insides
<1> QED
  BY <1>1 DEF Object!Next

(* A close: with threads inside, with its own thread let in, or with       *)
(* nobody.                                                                 *)
LEMMA ObjectClose ==
  ASSUME NEW l \in Links, Lives[l] = "live",
         \/ Lives' = [Lives EXCEPT ![l] = "dying"] /\ Insides' = Insides
         \/ \E t \in Threads : /\ Lives' = [Lives EXCEPT ![l] = "dying"]
                               /\ Insides' = [Insides EXCEPT ![l] = Insides[l] \cup {t}]
         \/ Insides[l] = {} /\ Lives' = [Lives EXCEPT ![l] = "dead"] /\ Insides' = Insides
  PROVE  Object!Next
<1>1. Object!Close(l)
  BY DEF Object!Close, Object!Becomes, Object!Holds, Lives, Insides
<1> QED
  BY <1>1 DEF Object!Next

(* A thread leaves, perhaps as the last one.                               *)
LEMMA ObjectLeave ==
  ASSUME NEW l \in Links, NEW t \in Threads, t \in Insides[l],
         Insides' = [Insides EXCEPT ![l] = Insides[l] \ {t}],
         \/ Lives' = Lives
         \/ /\ Lives[l] = "dying" /\ Insides[l] = {t}
            /\ Lives' = [Lives EXCEPT ![l] = "dead"]
  PROVE  Object!Next
<1>1. Object!Leave(l, t)
  BY DEF Object!Leave, Object!Becomes, Object!Holds, Lives, Insides
<1> QED
  BY <1>1 DEF Object!Next

(* Who is inside after a step of thread t.                                 *)
LEMMA InMoves ==
  ASSUME Places, Places', NEW t \in Threads, Went(t),
         NEW I, I = [l \in Links |-> In(l)]
  PROVE  /\ Insides = I
         /\ GoesOn(t) /\ (Weight(todo'[t]) >= 1 <=> Weight(todo[t]) >= 1) => Insides' = I
         /\ GoesOn(t) /\ ~(Weight(todo'[t]) >= 1) /\ Weight(todo[t]) >= 1 =>
              t \in I[cur[t]] /\ Insides' = [I EXCEPT ![cur[t]] = I[cur[t]] \ {t}]
         /\ Begins(t, cur'[t]) /\ cur'[t] \in Links /\ Weight(todo'[t]) >= 1 =>
              Insides' = [I EXCEPT ![cur'[t]] = I[cur'[t]] \cup {t}]
         /\ Begins(t, cur'[t]) /\ ~(Weight(todo'[t]) >= 1) => Insides' = I
<1>1. Insides = I /\ Insides' = [l \in Links |-> In(l)']
  BY InsideHolds, InsideHoldsNext
<1>2. \A l, u : u \in In(l)' <=> u \in Threads /\ cur'[u] = l /\ Weight(todo'[u]) >= 1
  BY DEF In
<1>3. \A l, u : u \in In(l) <=> u \in Threads /\ cur[u] = l /\ Weight(todo[u]) >= 1
  BY DEF In
<1>4. \A u \in Threads : u # t => todo'[u] = todo[u] /\ cur'[u] = cur[u]
  BY DEF Went
<1>5. \A l, u : u # t => (u \in In(l)' <=> u \in In(l))
  BY <1>2, <1>3, <1>4
<1>6. /\ todo[t] = Empty => cur[t] = NoLink /\ cur[t] \notin Links
      /\ todo'[t] = Empty => cur'[t] = NoLink /\ cur'[t] \notin Links
      /\ ~(Weight(Empty) >= 1)
  BY Weights, LifeAssumption DEF Places
<1>7. ASSUME GoesOn(t), Weight(todo'[t]) >= 1 <=> Weight(todo[t]) >= 1
      PROVE  Insides' = I
  <2>1. \A l \in Links : t \in In(l)' <=> t \in In(l)
    BY <1>2, <1>3, <1>6, <1>7 DEF GoesOn
  <2>2. \A l \in Links : In(l)' = In(l)
    BY <1>5, <2>1
  <2> QED
    BY <1>1, <2>2
<1>8. ASSUME GoesOn(t), ~(Weight(todo'[t]) >= 1), Weight(todo[t]) >= 1
      PROVE  t \in I[cur[t]] /\ Insides' = [I EXCEPT ![cur[t]] = I[cur[t]] \ {t}]
  <2>1. cur[t] \in Links /\ t \in In(cur[t])
    BY <1>3, <1>8 DEF GoesOn
  <2>2. \A l \in Links : t \notin In(l)'
    BY <1>2, <1>8
  <2>3. \A l \in Links : l # cur[t] => t \notin In(l)
    BY <1>3
  <2>4. \A l \in Links : In(l)' = IF l = cur[t] THEN In(l) \ {t} ELSE In(l)
    BY <1>5, <2>2, <2>3
  <2> QED
    BY <1>1, <2>1, <2>4
<1>9. ASSUME Begins(t, cur'[t]), cur'[t] \in Links, Weight(todo'[t]) >= 1
      PROVE  Insides' = [I EXCEPT ![cur'[t]] = I[cur'[t]] \cup {t}]
  <2>1. \A l \in Links : t \notin In(l)
    BY <1>3, <1>6, <1>9 DEF Begins
  <2>2. \A l \in Links : t \in In(l)' <=> l = cur'[t]
    BY <1>2, <1>9
  <2>3. \A l \in Links : In(l)' = IF l = cur'[t] THEN In(l) \cup {t} ELSE In(l)
    BY <1>5, <2>1, <2>2
  <2> QED
    BY <1>1, <1>9, <2>3
<1>10. ASSUME Begins(t, cur'[t]), ~(Weight(todo'[t]) >= 1) PROVE Insides' = I
  <2>1. \A l \in Links : t \notin In(l) /\ t \notin In(l)'
    BY <1>2, <1>3, <1>6, <1>10 DEF Begins
  <2>2. \A l \in Links : In(l)' = In(l)
    BY <1>5, <2>1
  <2> QED
    BY <1>1, <2>2
<1> QED
  BY <1>1, <1>7, <1>8, <1>9, <1>10

(* How the abstract object lives when a link's state is changed.           *)
LEMMA LivesMove ==
  ASSUME TypeOK, NEW l \in Links, NEW s \in {"open", "closing", "destructing", "gone"},
         stat' = [stat EXCEPT ![l] = s]
  PROVE  Lives' = [Lives EXCEPT ![l] = IF s = "open" THEN "live"
                                       ELSE IF s = "closing" THEN "dying" ELSE "dead"]
<1> DEFINE L(s0) == CASE s0 = "open" -> "live" [] s0 = "closing" -> "dying"
                      [] s0 = "none" -> "none" [] OTHER -> "dead"
<1>1. Lives = [k \in Links |-> L(stat[k])] /\ Lives' = [k \in Links |-> L(stat'[k])]
  BY DEF Lives
<1>2. stat'[l] = s /\ \A k \in Links : k # l => stat'[k] = stat[k]
  BY DEF TypeOK
<1>3. L(s) = IF s = "open" THEN "live" ELSE IF s = "closing" THEN "dying" ELSE "dead"
  OBVIOUS
<1> HIDE DEF L
<1> QED
  BY <1>1, <1>2, <1>3

(* An object lives on when no link changes its state.                      *)
LEMMA LivesRest ==
  ASSUME UNCHANGED stat
  PROVE  Lives' = Lives
BY DEF Lives

(* Every step of the library is one of the abstract object, or none.       *)
LEMMA ObjectStep ==
  ASSUME IInv, [Next]_vars
  PROVE  [Object!Next]_(Object!vars)
<1> DEFINE I == [l \in Links |-> In(l)]
           Step == [Object!Next]_(Object!vars)
<1>1. TypeOK /\ Places /\ Counts /\ OneDestructor /\ Creation
  BY DEF IInv
<1>2. Places'
  BY <1>1, PlacesKept
<1>3. \A l \in Links : Lives[l] = (CASE stat[l] = "open" -> "live" [] stat[l] = "closing" -> "dying"
                                     [] stat[l] = "none" -> "none" [] OTHER -> "dead")
  BY DEF Lives
<1>4. \A t, l : (GoesOn(t) => Went(t) /\ cur[t] \in Links) /\ (Begins(t, l) => Went(t) /\ cur'[t] = l)
  BY DEF GoesOn, Begins
<1>5. ASSUME Lives' = Lives, Insides' = I, Insides = I PROVE Step
  BY <1>5, ObjectRests
<1>6. ASSUME NEW t \in Threads, GoesOn(t), Weight(todo'[t]) >= 1 <=> Weight(todo[t]) >= 1
      PROVE  Insides = I /\ Insides' = I
  BY <1>1, <1>2, <1>4, <1>6, InMoves
<1>7. ASSUME NEW t \in Threads, GoesOn(t), Weight(todo'[t]) >= 1 <=> Weight(todo[t]) >= 1,
             UNCHANGED stat
      PROVE  Step
  BY <1>5, <1>6, <1>7, LivesRest
<1>8. ASSUME NEW t \in Threads, NEW l \in Links, Begins(t, l)
      PROVE  /\ Insides = I
             /\ Weight(todo'[t]) >= 1 => Insides' = [Insides EXCEPT ![l] = Insides[l] \cup {t}]
             /\ ~(Weight(todo'[t]) >= 1) => Insides' = I
  <2>1. Went(t) /\ cur'[t] = l /\ Begins(t, cur'[t])
    BY <1>4, <1>8
  <2> QED
    BY <1>1, <1>2, <2>1, InMoves
<1>9. \A l \in Links : I[l] = In(l)
  OBVIOUS
<1> HIDE DEF I, Step
<1>10. ASSUME NEW t \in Threads, objdefr(t) PROVE Step
  <2> DEFINE c == cur[t]
  <2>1. /\ GoesOn(t) /\ Went(t) /\ c \in Links
        /\ \/ /\ Weight(todo'[t]) = Weight(todo[t]) - 1 /\ Weight(todo[t]) >= 1
              /\ UNCHANGED stat
           \/ /\ todo'[t] \in Closing /\ Weight(todo[t]) = 1
              /\ stat[c] = "closing" /\ refs[c] = 1
              /\ stat' = [stat EXCEPT ![c] = "destructing"]
    BY <1>1, <1>4, <1>10, DefrDoes
  <2>2. Weight(todo[t]) \in 0 .. 2 /\ \A s \in Closing : Weight(s) = 0
    BY <1>1, WeightTyped, StacksTyped, Weights DEF Places
  <2>3. Insides = I
    BY <1>1, <1>2, <2>1, InMoves DEF I
  <2>4. CASE Weight(todo[t]) = 2
    <3>1. Weight(todo'[t]) >= 1 /\ UNCHANGED stat
      BY <2>1, <2>4
    <3> QED
      BY <1>7, <2>1, <2>4, <3>1
  <2>5. CASE Weight(todo[t]) = 1
    <3>1. ~(Weight(todo'[t]) >= 1) /\ Weight(todo[t]) >= 1
      BY <2>1, <2>2, <2>5
    <3>2. t \in Insides[c] /\ Insides' = [Insides EXCEPT ![c] = Insides[c] \ {t}]
      BY <1>1, <1>2, <2>1, <2>3, <3>1, InMoves DEF I
    <3>3. CASE UNCHANGED stat
      BY <2>1, <3>2, <3>3, LivesRest, ObjectLeave DEF Step
    <3>4. CASE stat[c] = "closing" /\ refs[c] = 1 /\ stat' = [stat EXCEPT ![c] = "destructing"]
      <4>1. Lives[c] = "dying"
        BY <1>3, <2>1, <3>4
      <4>2. Lives' = [Lives EXCEPT ![c] = "dead"]
        BY <1>1, <2>1, <3>4, LivesMove
      <4>3. \A u \in Threads : u # t /\ cur[u] = c /\ Weight(todo[u]) >= 1 => refs[c] >= 2
        BY <1>1, <2>1, <3>1, HolderCounted
      <4>4. Insides[c] = {t}
        <5>1. In(c) \subseteq {t}
          BY <3>4, <4>3 DEF In
        <5> QED
          BY <1>9, <2>1, <2>3, <3>2, <5>1
      <4> QED
        BY <2>1, <3>2, <4>1, <4>2, <4>4, ObjectLeave DEF Step
    <3> QED
      BY <2>1, <3>3, <3>4
  <2> QED
    BY <2>1, <2>2, <2>4, <2>5
<1>11. ASSUME NEW t \in Threads, objclos(t) PROVE Step
  <2> DEFINE c == cur[t]
  <2>1. /\ GoesOn(t) /\ Weight(todo'[t]) = Weight(todo[t]) /\ c \in Links
        /\ \/ UNCHANGED stat
           \/ stat[c] = "open" /\ stat' = [stat EXCEPT ![c] = "closing"]
           \/ stat[c] = "open" /\ refs[c] = 0 /\ stat' = [stat EXCEPT ![c] = "destructing"]
    BY <1>1, <1>4, <1>11, ClosDoes
  <2>2. Insides = I /\ Insides' = Insides
    BY <1>6, <2>1
  <2>3. CASE UNCHANGED stat
    BY <1>7, <2>1, <2>3
  <2>4. CASE stat[c] = "open" /\ stat' = [stat EXCEPT ![c] = "closing"]
    <3>1. Lives[c] = "live" /\ Lives' = [Lives EXCEPT ![c] = "dying"]
      BY <1>1, <1>3, <2>1, <2>4, LivesMove
    <3> QED
      BY <2>1, <2>2, <3>1, ObjectClose DEF Step
  <2>5. CASE stat[c] = "open" /\ refs[c] = 0 /\ stat' = [stat EXCEPT ![c] = "destructing"]
    <3>1. Lives[c] = "live" /\ Lives' = [Lives EXCEPT ![c] = "dead"]
      BY <1>1, <1>3, <2>1, <2>5, LivesMove
    <3>2. \A u \in Threads : cur[u] = c => Weight(todo[u]) <= refs[c]
      BY <1>1, <2>1, HolderCounted
    <3>3. \A u \in Threads : Weight(todo[u]) \in 0 .. 2
      BY <1>1, WeightTyped, StacksTyped DEF Places
    <3>4. In(c) = {}
      BY <2>5, <3>2, <3>3 DEF In
    <3> QED
      BY <1>9, <2>1, <2>2, <3>1, <3>4, ObjectClose DEF Step
  <2> QED
    BY <2>1, <2>3, <2>4, <2>5
<1>12. ASSUME NEW t \in Threads, io_close(t) \/ Unlist(t) PROVE Step
  <2>1. GoesOn(t) /\ Weight(todo'[t]) = Weight(todo[t]) /\ UNCHANGED stat
    BY <1>1, <1>12, CloseDoes, UnlistDoes
  <2> QED
    BY <1>7, <2>1
<1>13. ASSUME NEW t \in Threads, ncb_post_closed(t) PROVE Step
  <2>1. /\ GoesOn(t) /\ Weight(todo'[t]) = Weight(todo[t]) /\ todo[t] \in Freeing
        /\ stat' = [stat EXCEPT ![cur[t]] = "gone"] /\ cur[t] \in Links
    BY <1>1, <1>4, <1>13, ClosedDoes
  <2>2. stat[cur[t]] = "destructing"
    BY <1>1, <2>1, Marks DEF OneDestructor
  <2>3. Lives' = [Lives EXCEPT ![cur[t]] = "dead"] /\ Lives[cur[t]] = "dead"
    BY <1>1, <1>3, <2>1, <2>2, LivesMove
  <2>4. Lives' = Lives
    BY <2>3 DEF Lives
  <2> QED
    BY <1>5, <1>6, <2>1, <2>4
<1>14. ASSUME NEW t \in Users, Fill(t) PROVE Step
  <2>1. /\ t \in Threads /\ GoesOn(t) /\ Weight(todo'[t]) = Weight(todo[t]) /\ UNCHANGED stat
    BY <1>1, <1>14, FillDoes
  <2> QED
    BY <1>7, <2>1
<1>15. ASSUME NEW t \in Users, Return(t) PROVE Step
  <2>1. /\ t \in Threads /\ GoesOn(t) /\ UNCHANGED stat
        /\ Weight(todo[t]) = 0 /\ Weight(todo'[t]) = 0
    BY <1>1, <1>15, ReturnDoes, Weights
  <2> QED
    BY <1>7, <2>1
<1>16. ASSUME NEW t \in Users, SetTemplate(t) PROVE Step
  <2>1. /\ t \in Threads /\ GoesOn(t) /\ UNCHANGED stat
        /\ Weight(todo[t]) = 1 /\ Weight(todo'[t]) \in {1, 2}
    BY <1>1, <1>16, TemplateDoes, Weights
  <2> QED
    BY <1>7, <2>1
<1>17. ASSUME Load \/ (RecvMore \/ RecvEnd) PROVE Step
  <2>1. /\ "epoll" \in Threads /\ GoesOn("epoll") /\ UNCHANGED stat
        /\ Weight(todo["epoll"]) = 1 /\ Weight(todo'["epoll"]) = 1
    BY <1>1, <1>17, LoadDoes, RecvDoes, Weights, StacksTyped
  <2> QED
    BY <1>7, <2>1
<1>18. ASSUME NEW t \in Creators, NEW l \in Links, Create(t, l) PROVE Step
  <2>1. /\ t \in Threads /\ Begins(t, l) /\ Weight(todo'[t]) = 1
        /\ stat[l] = "none" /\ stat' = [stat EXCEPT ![l] = "open"]
    BY <1>1, <1>18, CreateDoes, Weights
  <2>2. Insides = I /\ Insides' = [Insides EXCEPT ![l] = Insides[l] \cup {t}]
    BY <1>8, <2>1
  <2>3. In(l) = {}
    <3>1. refs[l] = 0
      BY <1>1, <2>1 DEF Counts
    <3>2. \A u \in Threads : cur[u] = l => Weight(todo[u]) <= refs[l]
      BY <1>1, HolderCounted
    <3>3. \A u \in Threads : Weight(todo[u]) \in 0 .. 2
      BY <1>1, WeightTyped, StacksTyped DEF Places
    <3> QED
      BY <3>1, <3>2, <3>3 DEF In
  <2>4. Insides[l] \cup {t} = {t}
    BY <1>9, <2>2, <2>3
  <2>5. Lives[l] = "none" /\ Lives' = [Lives EXCEPT ![l] = "live"]
    BY <1>1, <1>3, <2>1, LivesMove
  <2> QED
    BY <2>1, <2>2, <2>4, <2>5, ObjectCreate DEF Step
<1>19. ASSUME NEW t \in Workers, NEW l \in Links, Destroy(t, l) PROVE Step
  <2>1. /\ t \in Threads /\ Begins(t, l) /\ Weight(todo'[t]) = 1
        /\ stat[l] = "open" /\ stat' = [stat EXCEPT ![l] = "closing"]
    BY <1>1, <1>19, DestroyDoes, Weights
  <2>2. Insides' = [Insides EXCEPT ![l] = Insides[l] \cup {t}]
    BY <1>8, <2>1
  <2>3. Lives[l] = "live" /\ Lives' = [Lives EXCEPT ![l] = "dying"]
    BY <1>1, <1>3, <2>1, LivesMove
  <2> QED
    BY <2>1, <2>2, <2>3, ObjectClose DEF Step
<1>20. ASSUME NEW t \in Threads, NEW l \in Links, Begins(t, l), Weight(todo'[t]) = 1,
              stat[l] = "open", UNCHANGED stat
       PROVE  Step
  <2>1. Insides' = [Insides EXCEPT ![l] = Insides[l] \cup {t}]
    BY <1>8, <1>20
  <2>2. Lives[l] = "live" /\ Lives' = Lives
    BY <1>3, <1>20, LivesRest
  <2> QED
    BY <2>1, <2>2, ObjectEnter DEF Step
<1>21. ASSUME NEW t \in Workers, NEW l \in Links, nis_cntl(t, l) PROVE Step
  <2>1. /\ t \in Threads /\ Begins(t, l) /\ Weight(todo'[t]) = 1
        /\ stat[l] = "open" /\ UNCHANGED stat
    BY <1>1, <1>21, CntlDoes, Weights
  <2> QED
    BY <1>20, <2>1
<1>22. ASSUME NEW l \in Links, Input(l) PROVE Step
  <2>1. /\ "epoll" \in Threads /\ Begins("epoll", l) /\ Weight(todo'["epoll"]) = 1
        /\ stat[l] = "open" /\ UNCHANGED stat
    BY <1>1, <1>22, InputDoes, Weights, StacksTyped
  <2> QED
    BY <1>20, <2>1
<1>23. ASSUME NEW t \in Threads, NEW l \in Links, Begins(t, l), Weight(todo'[t]) = 0, UNCHANGED stat
       PROVE  Step
  <2>1. Insides = I /\ Insides' = I
    BY <1>8, <1>23
  <2> QED
    BY <1>5, <1>23, <2>1, LivesRest
<1>24. ASSUME NEW l \in Links, Hangup(l) PROVE Step
  <2>1. /\ "epoll" \in Threads /\ Begins("epoll", l) /\ Weight(todo'["epoll"]) = 0
        /\ UNCHANGED stat
    BY <1>1, <1>24, HangupDoes, Weights, StacksTyped
  <2> QED
    BY <1>23, <2>1
<1>25. ASSUME UninitClose PROVE Step
  <2>1. /\ "uninit" \in Threads /\ Head(hlds) \in Links /\ Begins("uninit", Head(hlds))
        /\ Weight(todo'["uninit"]) = 0 /\ UNCHANGED stat
    BY <1>1, <1>25, UninitCloseDoes, Weights, StacksTyped
  <2> QED
    BY <1>23, <2>1
<1>26. ASSUME UNCHANGED <<todo, cur, stat>> PROVE Step
  <2>1. Insides' = Insides
    BY <1>26 DEF Insides
  <2> QED
    BY <1>26, <2>1, LivesRest, ObjectRests DEF Step
<1>27. \A p \in Uninits : UninitCopy(p) \/ UninitNoMemory(p) => Step
  BY <1>26 DEF UninitCopy, UninitNoMemory
<1>28. \A t \in Workers, l \in Links : nis_cntl_unknown(t, l) => Step
  BY <1>26 DEF nis_cntl_unknown, objrefr
<1>29. UNCHANGED vars => Step
  BY <1>26 DEF vars
<1>30. Step
  BY <1>1, <1>10, <1>11, <1>12, <1>13, <1>14, <1>15, <1>16, <1>17, <1>18, <1>19, <1>21, <1>22,
     <1>24, <1>25, <1>27, <1>28, <1>29, StepCases
<1> QED
  BY <1>30 DEF Step

(* Reference counting implements the abstract object: nobody enters a link *)
(* that is closed, and it dies once, when the last thread has left or at a *)
(* close with nobody inside (object references, ncb_deconstruct).          *)
THEOREM LinksImplementObject == Spec => ImplementsObject
<1>1. Init => Object!Init
  <2> SUFFICES ASSUME Init PROVE Object!Init
    OBVIOUS
  <2>1. Lives = [l \in Links |-> "none"]
    BY DEF Init, Lives
  <2>2. Insides = [l \in Links |-> {}]
    <3>1. \A t \in Threads : cur[t] \notin Links
      BY LifeAssumption DEF Init
    <3> QED
      BY <3>1 DEF Insides
  <2> QED
    BY <2>1, <2>2 DEF Object!Init, Lives, Insides
<1>2. IInv /\ [Next]_vars => [Object!Next]_(Object!vars)
  BY ObjectStep
<1> QED
  BY LinksSafe, <1>1, <1>2, PTL DEF Spec, ImplementsObject, Object!Spec
=============================================================================
