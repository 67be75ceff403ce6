------------------------------ MODULE LibLife ------------------------------
(***************************************************************************)
(* Start and stop of the library for one protocol: tcp_init, tcp_uninit    *)
(* (udp_init and udp_uninit are the same calls), the epoll object of io.c, *)
(* the pool object of wpool.c and their threads, against io_attach and     *)
(* wp_queued of every thread.  An instance is an object allocated with     *)
(* objallo; the handle of a part names at most one.  The divisions of an   *)
(* epoll object are alike and kept as one.                                 *)
(*                                                                         *)
(* A thread's remaining steps are a stack of <<step, part, instance>>, so  *)
(* that a destructor can run inside any objdefr or objclos.                *)
(***************************************************************************)
EXTENDS Integers, Sequences, FiniteSets

CONSTANTS
  Users,     \* threads of the application
  Starters,  \* those that call tcp_init
  Creators,  \* those of them that attach a link afterwards
  Stoppers,  \* those that call tcp_uninit
  PoolCalls, \* what callbacks on the pool thread call, among "attach", "queue"
  MaxObjs,   \* bound on the instances of each part
  MaxTasks   \* bound on the tasks of a pool

ASSUME LibAssumption ==
  /\ IsFiniteSet(Users)
  /\ Creators \subseteq Starters /\ Starters \cup Stoppers \subseteq Users
  /\ PoolCalls \subseteq {"attach", "queue"}
  /\ MaxObjs \in Nat \ {0} /\ MaxTasks \in Nat

VARIABLES
  handle,   \* tcphld of io.c and of wpool.c, 0 for -1
  made,     \* instances allocated
  stat,     \* "none", "open", "closing", "dying" (destructor at work), "dead"
  refs,
  setup,    \* "none", "divs" (divisions set, no table), "table", "live",
            \* "freed"
  actived,
  thr,      \* the thread of an instance: "none", "up", "ended"
  tasks,    \* length of a pool's list
  lost,     \* tasks taken by a pool thread and neither run nor freed
  todo,
  ub,       \* "no", or the undefined behaviour the program has run into
  fault,    \* a system call or malloc has failed inside __io_init or __wp_init,
            \* which it does at most once
  selfjoin, \* instances whose destructor has run on their own thread
  mixed     \* an init has overlapped an uninit

Parts == {"io", "wp"}
Insts == 1 .. MaxObjs
Own(p, i) == <<p, i>>
Workers == {Own(p, i) : p \in Parts, i \in Insts}
Threads == Users \cup Workers

obj == <<stat, refs>>
pool == <<tasks, lost>>
hist == <<fault, selfjoin, mixed>>
flags == <<fault, selfjoin>>
real == <<handle, made, stat, refs, setup, actived, thr, tasks, lost, todo, ub,
          fault, selfjoin>>
vars == <<real, mixed>>

Init ==
  /\ handle = [p \in Parts |-> 0] /\ made = [p \in Parts |-> 0]
  /\ stat = [p \in Parts |-> [i \in Insts |-> "none"]]
  /\ refs = [p \in Parts |-> [i \in Insts |-> 0]]
  /\ setup = [p \in Parts |-> [i \in Insts |-> "none"]]
  /\ actived = [p \in Parts |-> [i \in Insts |-> FALSE]]
  /\ thr = [p \in Parts |-> [i \in Insts |-> "none"]]
  /\ tasks = [i \in Insts |-> 0] /\ lost = [i \in Insts |-> 0]
  /\ todo = [t \in Threads |-> << >>]
  /\ ub = "no" /\ fault = FALSE /\ selfjoin = {} /\ mixed = FALSE

-----------------------------------------------------------------------------
Idle(t) == todo[t] = << >>
At(t, s, p, i) == ~Idle(t) /\ Head(todo[t]) = <<s, p, i>>
Does(t, s, p, i, more) ==
  At(t, s, p, i) /\ todo' = [todo EXCEPT ![t] = more \o Tail(@)]

(* Thread t leaves tcp_init with the given steps still to do.              *)
Returns(t, s, p, steps) ==
  At(t, s, p, 0) /\ todo' = [todo EXCEPT ![t] = steps]

Starts(t, steps) == Idle(t) /\ todo' = [todo EXCEPT ![t] = steps]

Set(f, p, i, v) == [f EXCEPT ![p][i] = v]

Undefined(what) ==
  /\ ub' = what
  /\ UNCHANGED <<handle, made, obj, setup, actived, thr, pool, todo, flags>>

-----------------------------------------------------------------------------
(***************************************************************************)
(* References (objects library) and the destructors.                       *)
(***************************************************************************)

Destructor(p, i) == <<<<"stop", p, i>>, <<"join", p, i>>, <<"free", p, i>>>>

(* objdefr                                                                 *)
objdefr(t, p, i) ==
  /\ At(t, "defr", p, i)
  /\ refs' = Set(refs, p, i, refs[p][i] - 1)
  /\ IF stat[p][i] = "closing" /\ refs[p][i] = 1
     THEN stat' = Set(stat, p, i, "dying") /\ Does(t, "defr", p, i, Destructor(p, i))
     ELSE UNCHANGED stat /\ Does(t, "defr", p, i, << >>)
  /\ UNCHANGED <<handle, made, setup, actived, thr, pool, ub, flags>>

(* io_uninit, wp_uninit: objclos of the handle, if there is one.           *)
objclos(t, p) ==
  LET i == handle[p] IN
  /\ At(t, "clos", p, 0)
  /\ \/ /\ i # 0 /\ stat[p][i] = "open" /\ refs[p][i] = 0
        /\ stat' = Set(stat, p, i, "dying")
        /\ Does(t, "clos", p, 0, Destructor(p, i))
     \/ /\ i # 0 /\ stat[p][i] = "open" /\ refs[p][i] > 0
        /\ stat' = Set(stat, p, i, "closing")
        /\ Does(t, "clos", p, 0, << >>)
     \/ /\ i # 0 => stat[p][i] # "open"
        /\ Does(t, "clos", p, 0, << >>) /\ UNCHANGED stat
  /\ UNCHANGED <<handle, made, refs, setup, actived, thr, pool, ub, flags>>

(* actived = 0.  Without a table the walk over the divisions goes through  *)
(* a null pointer; an object not set up has no divisions and no thread.    *)
Stop(t, p, i) ==
  /\ At(t, "stop", p, i)
  /\ \/ setup[p][i] = "divs" /\ Undefined("unready")
     \/ /\ setup[p][i] # "divs" /\ actived[p][i]
        /\ actived' = Set(actived, p, i, FALSE)
        /\ Does(t, "stop", p, i, << >>)
        /\ UNCHANGED <<handle, made, obj, setup, thr, pool, ub, flags>>
     \/ /\ setup[p][i] # "divs" /\ ~actived[p][i]
        /\ todo' = [todo EXCEPT ![t] = Tail(Tail(@))]
        /\ UNCHANGED <<handle, made, obj, setup, actived, thr, pool, ub, flags>>

(* posix__pthread_join: a thread that joins itself gets EDEADLK and goes   *)
(* on.                                                                     *)
Join(t, p, i) ==
  /\ At(t, "join", p, i)
  /\ \/ thr[p][i] = "none" /\ Undefined("unjoined")
     \/ /\ thr[p][i] = "ended" \/ t = Own(p, i)
        /\ Does(t, "join", p, i, << >>)
        /\ selfjoin' = IF t = Own(p, i) THEN selfjoin \cup {t} ELSE selfjoin
        /\ UNCHANGED <<handle, made, obj, setup, actived, thr, pool, ub, fault>>

(* A faulty variant: the mutex is not recursive.                           *)
RelockNever == FALSE

(* posix__pthread_mutex_lock by the thread that holds the mutex.           *)
Relock == TRUE

(* A faulty variant: the tasks that came too late stay in the list.        *)
FreeKeepsTasks(t, p, i) ==
  /\ Does(t, "free", p, i, << >>)
  /\ setup' = Set(setup, p, i, "freed")
  /\ handle' = IF handle[p] = i THEN [handle EXCEPT ![p] = 0] ELSE handle
  /\ stat' = Set(stat, p, i, "dead")
  /\ UNCHANGED <<made, refs, actived, thr, pool, ub, flags>>

(* The rest of the destructors: close of the epoll instances and free of   *)
(* the table; free of the tasks that came too late, where __wp_get_task    *)
(* takes the mutex the destructor already holds.  The handle goes back to  *)
(* -1 if it is still this instance's, and the memory is given back.        *)
Free(t, p, i) ==
  /\ Does(t, "free", p, i, << >>)
  /\ p = "wp" /\ setup[p][i] = "live" => Relock
  /\ setup' = Set(setup, p, i, "freed")
  /\ tasks' = IF p = "wp" THEN [tasks EXCEPT ![i] = 0] ELSE tasks
  /\ handle' = IF handle[p] = i THEN [handle EXCEPT ![p] = 0] ELSE handle
  /\ stat' = Set(stat, p, i, "dead")
  /\ UNCHANGED <<made, refs, actived, thr, lost, ub, flags>>

Destruct(t, p, i) ==
  Stop(t, p, i) \/ Join(t, p, i) \/ Free(t, p, i)

-----------------------------------------------------------------------------
(***************************************************************************)
(* tcp_init and tcp_uninit.                                                *)
(***************************************************************************)

(* io_attach and wp_queued start with the reference.                       *)
Attach == <<<<"aref", "io", 0>>>>
Queue  == <<<<"qref", "wp", 0>>>>

(* tcp_init goes on with wp_init when io_init has returned 0.  At the bound*)
(* nobody calls it any more.                                               *)
tcp_init(t) ==
  /\ \A p \in Parts : made[p] < MaxObjs
  /\ Starts(t, <<<<"check", "io", 0>>, <<"check", "wp", 0>>, <<"zero", "wp", 0>>>>)
  /\ UNCHANGED <<handle, made, obj, setup, actived, thr, pool, ub, flags>>

(* ncb_uninit closes the links first, see LinkLife.  (A bound: no further  *)
(* stop once an init and a stop have overlapped.)                          *)
tcp_uninit(t) ==
  /\ ~mixed
  /\ Starts(t, <<<<"clos", "io", 0>>, <<"clos", "wp", 0>>>>)
  /\ UNCHANGED <<handle, made, obj, setup, actived, thr, pool, ub, flags>>

(* What is left of tcp_init after a negative result.                       *)
Rollback(p) == IF p = "wp" THEN <<<<"clos", "io", 0>>>> ELSE << >>

Check(t, p) ==
  /\ IF handle[p] # 0 THEN Returns(t, "check", p, <<<<"already", p, 0>>>>)
                      ELSE Does(t, "check", p, 0, <<<<"install", p, 0>>>>)
  /\ UNCHANGED <<handle, made, obj, setup, actived, thr, pool, ub, flags>>

(* A faulty variant: the handle is stored without a look at its old value. *)
InstallStore(t, p) ==
  LET i == made[p] + 1 IN
  /\ i \in Insts /\ made' = [made EXCEPT ![p] = i]
  /\ handle' = [handle EXCEPT ![p] = i] /\ stat' = Set(stat, p, i, "open")
  /\ Does(t, "install", p, 0, <<<<"ref", p, 0>>>>)
  /\ UNCHANGED <<refs, setup, actived, thr, pool, ub, flags>>

(* objallo, which may fail, and the compare and swap of the handle; the    *)
(* loser's object, which was never set up, is gone at once.                *)
Install(t, p) ==
  LET i == made[p] + 1 IN
  /\ \/ /\ i \in Insts /\ made' = [made EXCEPT ![p] = i]
        /\ \/ /\ handle[p] = 0
              /\ handle' = [handle EXCEPT ![p] = i]
              /\ stat' = Set(stat, p, i, "open")
              /\ Does(t, "install", p, 0, <<<<"ref", p, 0>>>>)
           \/ /\ handle[p] # 0 /\ UNCHANGED handle
              /\ stat' = Set(stat, p, i, "dead")
              /\ Returns(t, "install", p, <<<<"already", p, 0>>>>)
     \/ Returns(t, "install", p, Rollback(p)) /\ UNCHANGED <<handle, made, stat>>
  /\ UNCHANGED <<refs, setup, actived, thr, pool, ub, flags>>

(* objrefr of what the handle names now.                                   *)
Ref(t, p) ==
  LET i == handle[p] IN
  /\ \/ /\ i # 0 /\ stat[p][i] = "open"
        /\ refs' = Set(refs, p, i, refs[p][i] + 1)
        /\ Does(t, "ref", p, 0, <<<<"setup", p, i>>>>)
     \/ /\ i # 0 => stat[p][i] # "open"
        /\ Returns(t, "ref", p, Rollback(p)) /\ UNCHANGED refs
  /\ UNCHANGED <<handle, made, stat, setup, actived, thr, pool, ub, flags>>

(* __io_init: divisions, then the table, then the threads.                 *)
Divisions(t, i) ==
  /\ At(t, "setup", "io", i)
  /\ \/ setup["io"][i] # "none" /\ Undefined("twice")
     \/ /\ setup["io"][i] = "none"
        /\ setup' = Set(setup, "io", i, "divs")
        /\ Does(t, "setup", "io", i, <<<<"table", "io", i>>>>)
        /\ UNCHANGED <<handle, made, obj, actived, thr, pool, ub, flags>>

Table(t, i) ==
  /\ \/ /\ setup' = Set(setup, "io", i, "table")
        /\ Does(t, "table", "io", i, <<<<"threads", "io", i>>>>)
        /\ UNCHANGED fault
     \/ /\ At(t, "table", "io", i) /\ ~fault /\ fault' = TRUE
        /\ todo' = [todo EXCEPT ![t] = <<<<"defr", "io", i>>>>]
        /\ UNCHANGED setup
  /\ UNCHANGED <<handle, made, obj, actived, thr, pool, ub, selfjoin>>

(* epoll_create, which on failure leaves actived as malloc returned it, and*)
(* pthread_create, which on failure resets it.  Neither fails io_init.     *)
IoThreads(t, i) ==
  /\ Does(t, "threads", "io", i, <<<<"defr", "io", i>>>>)
  /\ setup' = Set(setup, "io", i, "live")
  /\ \/ /\ actived' = Set(actived, "io", i, TRUE) /\ thr' = Set(thr, "io", i, "up")
        /\ UNCHANGED fault
     \/ /\ \E a \in BOOLEAN : actived' = Set(actived, "io", i, a)
        /\ ~fault /\ fault' = TRUE /\ UNCHANGED thr
  /\ UNCHANGED <<handle, made, obj, pool, ub, selfjoin>>

(* __wp_init: a failure leaves actived set and the handle in place.        *)
PoolThread(t, i) ==
  /\ At(t, "setup", "wp", i)
  /\ \/ setup["wp"][i] # "none" /\ Undefined("twice")
     \/ /\ setup["wp"][i] = "none" /\ setup' = Set(setup, "wp", i, "live")
        /\ actived' = Set(actived, "wp", i, TRUE)
        /\ \/ /\ thr' = Set(thr, "wp", i, "up") /\ UNCHANGED fault
              /\ Does(t, "setup", "wp", i, <<<<"defr", "wp", i>>>>)
           \/ /\ ~fault /\ fault' = TRUE /\ UNCHANGED thr
              /\ todo' = [todo EXCEPT ![t] = <<<<"defr", "wp", i>>>> \o Rollback("wp")]
        /\ UNCHANGED <<handle, made, obj, pool, ub, selfjoin>>

(* tcp_init returns 0 or EALREADY to its caller, who may create and attach *)
(* a link now.                                                             *)
Return(t, p) ==
  /\ \E c \in {<< >>} \cup {Attach : u \in Creators \cap {t}} :
       Does(t, "zero", p, 0, c) \/ Does(t, "already", p, 0, c)
  /\ UNCHANGED <<handle, made, obj, setup, actived, thr, pool, ub, flags>>

Initialise(t, p, i) ==
  \/ Check(t, p) \/ Install(t, p) \/ Ref(t, p) \/ Return(t, p)
  \/ Divisions(t, i) \/ Table(t, i) \/ IoThreads(t, i) \/ PoolThread(t, i)

-----------------------------------------------------------------------------
(***************************************************************************)
(* io_attach and wp_queued, and the threads.                               *)
(***************************************************************************)

Calls(C) == {IF c = "attach" THEN Attach ELSE Queue : c \in C}

(* A faulty variant: the object is used without a reference.               *)
EnterUnreferenced(t, s, p, next) ==
  /\ LET i == handle[p] IN
     \/ i # 0 /\ Does(t, s, p, 0, <<<<next, p, i>>>>)
     \/ i = 0 /\ Does(t, s, p, 0, << >>)
  /\ UNCHANGED <<handle, made, obj, setup, actived, thr, pool, ub, flags>>

(* objrefr of the part's object; without one the call fails.               *)
Enter(t, s, p, next) ==
  /\ LET i == handle[p] IN
     \/ /\ i # 0 /\ stat[p][i] = "open"
        /\ refs' = Set(refs, p, i, refs[p][i] + 1)
        /\ Does(t, s, p, 0, <<<<next, p, i>>, <<"defr", p, i>>>>)
     \/ /\ i # 0 => stat[p][i] # "open"
        /\ Does(t, s, p, 0, << >>) /\ UNCHANGED refs
  /\ UNCHANGED <<handle, made, stat, setup, actived, thr, pool, ub, flags>>

Misuse(p, i) == IF stat[p][i] = "dead" \/ setup[p][i] = "freed" THEN "freed" ELSE "unready"

(* io_attach takes the epoll instance of division hld % divisions.         *)
io_attach(t, i) ==
  /\ At(t, "use", "io", i)
  /\ \/ setup["io"][i] # "live" /\ Undefined(Misuse("io", i))
     \/ /\ setup["io"][i] = "live" /\ Does(t, "use", "io", i, << >>)
        /\ UNCHANGED <<handle, made, obj, setup, actived, thr, pool, ub, flags>>

(* Tasks in the hand of the pool thread.                                   *)
Held(i) == IF \E k \in DOMAIN todo[Own("wp", i)] : todo[Own("wp", i)][k][1] = "exec"
           THEN 1 ELSE 0

(* __wp_add_task; without memory, or at the bound, no task is added.       *)
wp_queued(t, i) ==
  /\ At(t, "put", "wp", i)
  /\ \/ setup["wp"][i] # "live" /\ Undefined(Misuse("wp", i))
     \/ /\ setup["wp"][i] = "live" /\ Does(t, "put", "wp", i, << >>)
        /\ \/ tasks[i] + Held(i) < MaxTasks /\ tasks' = [tasks EXCEPT ![i] = @ + 1]
           \/ UNCHANGED tasks
        /\ UNCHANGED <<handle, made, obj, setup, actived, thr, lost, ub, flags>>

Use(t, i) ==
  \/ Enter(t, "aref", "io", "use") \/ Enter(t, "qref", "wp", "put")
  \/ io_attach(t, i) \/ wp_queued(t, i)

(* __epoll_proc and __wp_run look at actived in their object.              *)
Look(p, i) ==
  /\ Idle(Own(p, i)) /\ thr[p][i] = "up"
  /\ \/ (setup[p][i] = "freed" \/ stat[p][i] = "dead") /\ Undefined("freed")
     \/ /\ setup[p][i] # "freed" /\ stat[p][i] # "dead" /\ ~actived[p][i]
        /\ thr' = Set(thr, p, i, "ended")
        /\ UNCHANGED <<handle, made, obj, setup, actived, pool, todo, ub, flags>>

Alive(p, i) ==
  thr[p][i] = "up" /\ actived[p][i] /\ setup[p][i] # "freed" /\ stat[p][i] # "dead"

(* __iorun: a handler accepts a connection and attaches it, or queues a    *)
(* write task.                                                             *)
Handle(i) ==
  /\ Alive("io", i)
  /\ \E c \in {Attach, Queue} : Starts(Own("io", i), c)
  /\ UNCHANGED <<handle, made, obj, setup, actived, thr, pool, ub, flags>>

(* __wp_run: __wp_get_task.                                                *)
Take(i) ==
  /\ Alive("wp", i) /\ tasks[i] > 0
  /\ Starts(Own("wp", i), <<<<"exec", "wp", i>>>>)
  /\ tasks' = [tasks EXCEPT ![i] = @ - 1]
  /\ UNCHANGED <<handle, made, obj, setup, actived, thr, lost, ub, flags>>

(* The task is dropped when actived has been reset; else __wp_exec runs it,*)
(* and it is freed, or queued again, after callbacks of the link.          *)
Exec(i) ==
  LET t == Own("wp", i) IN
  /\ At(t, "exec", "wp", i)
  /\ \/ /\ ~actived["wp"][i] /\ Does(t, "exec", "wp", i, << >>)
        /\ lost' = [lost EXCEPT ![i] = @ + 1] /\ UNCHANGED tasks
     \/ /\ actived["wp"][i] /\ UNCHANGED lost
        /\ \/ /\ \E c \in {<< >>} \cup Calls(PoolCalls) : Does(t, "exec", "wp", i, c)
              /\ UNCHANGED tasks
           \/ /\ Does(t, "exec", "wp", i, << >>)
              /\ tasks' = [tasks EXCEPT ![i] = @ + 1]
  /\ UNCHANGED <<handle, made, obj, setup, actived, thr, ub, flags>>

-----------------------------------------------------------------------------
Initialising(t) ==
  \E k \in DOMAIN todo[t] : todo[t][k][1] \in
     {"check", "install", "ref", "setup", "table", "threads", "zero", "already"}

Stopping(p) ==
  \/ \E i \in Insts : stat[p][i] \in {"closing", "dying"}
  \/ \E t \in Threads : \E k \in DOMAIN todo[t] : todo[t][k] = <<"clos", p, 0>>

(* An init at work while something goes down.                              *)
Overlap == (\E t \in Users : Initialising(t)) /\ \E p \in Parts : Stopping(p)

Continue(t) ==
  /\ ~Idle(t)
  /\ LET p == Head(todo[t])[2]
         i == Head(todo[t])[3] IN
     \/ objdefr(t, p, i) \/ objclos(t, p) \/ Destruct(t, p, i)
     \/ t \in Users /\ Initialise(t, p, i)
     \/ Use(t, i)
     \/ t = Own("wp", i) /\ Exec(i)

Poll(t) ==
  \E i \in Insts :
    \/ t = Own("wp", i) /\ Take(i)
    \/ \E p \in Parts : t = Own(p, i) /\ Look(p, i)

Step(t) == ub = "no" /\ (Continue(t) \/ Poll(t))

Begin ==
  /\ ub = "no"
  /\ \/ \E t \in Starters : tcp_init(t)
     \/ \E t \in Stoppers : tcp_uninit(t)
     \/ \E i \in Insts : Handle(i)

Next ==
  /\ Begin \/ \E t \in Threads : Step(t)
  /\ mixed' = (mixed \/ Overlap')

Spec == Init /\ [][Next]_vars

(* Threads inside the library, and the library's own threads, go on.       *)
FairSpec == Spec /\ \A t \in Threads : WF_real(Step(t))

-----------------------------------------------------------------------------
(* What a thread may have to do.                                           *)
Steps ==
  {"check", "install", "ref", "setup", "table", "threads", "zero", "already", "clos",
   "aref", "qref", "use", "put", "defr", "stop", "join", "free", "exec"}

(* Every variable keeps its type.                                          *)
TypeOK ==
  /\ handle \in [Parts -> 0 .. MaxObjs] /\ made \in [Parts -> 0 .. MaxObjs]
  /\ stat \in [Parts -> [Insts -> {"none", "open", "closing", "dying", "dead"}]]
  /\ refs \in [Parts -> [Insts -> Nat]]
  /\ setup \in [Parts -> [Insts -> {"none", "divs", "table", "live", "freed"}]]
  /\ actived \in [Parts -> [Insts -> BOOLEAN]]
  /\ thr \in [Parts -> [Insts -> {"none", "up", "ended"}]]
  /\ tasks \in [Insts -> 0 .. MaxTasks] /\ lost \in [Insts -> Nat]
  /\ todo \in [Threads -> Seq(Steps \X Parts \X (0 .. MaxObjs))]
  /\ ub \in {"no", "unready", "freed", "unjoined", "twice"}
  /\ fault \in BOOLEAN /\ selfjoin \subseteq Workers /\ mixed \in BOOLEAN

Up(p) ==
  /\ handle[p] # 0
  /\ LET i == handle[p] IN
     stat[p][i] = "open" /\ setup[p][i] = "live" /\ actived[p][i] /\ thr[p][i] = "up"

(* tcp_init that returns 0 leaves both parts at work, whatever other inits *)
(* run at the same time, unless an uninit has overlapped an init or a call *)
(* inside __io_init has failed, which it does not report.                  *)
UpAfterInit ==
  (\E t \in Users : At(t, "zero", "wp", 0) /\ Len(todo[t]) = 1) /\ ~mixed /\ ~fault =>
    \A p \in Parts : Up(p)

(* EALREADY is no error (wpool.c): the library is up, or another init is   *)
(* still at work on it, or an uninit or a failed init has left half of it. *)
AlreadyIsNoError ==
  (\E t \in Users, p \in Parts : At(t, "already", p, 0)) /\ ~mixed /\ ~fault =>
    \/ \A p \in Parts : Up(p)
    \/ Cardinality({t \in Users : Initialising(t)}) > 1

(* When no init and no stop is at work, both parts are there or neither.   *)
BothOrNeither ==
  /\ \A t \in Users : ~Initialising(t)
  /\ \A p \in Parts : ~Stopping(p)
  /\ ~mixed /\ ~fault
  => (handle["io"] = 0 <=> handle["wp"] = 0)

(* What a caller may conclude from 0 and from EALREADY: the parts it needs *)
(* are at work, as long as no stop and no failure has come in between.     *)
InitPromises == TypeOK /\ UpAfterInit /\ AlreadyIsNoError /\ BothOrNeither

(* The program meets undefined behaviour only in four ways: a part is used *)
(* while an init is still at work on it, or where __io_init has failed     *)
(* without memory or an uninit has come in between; the last reference is  *)
(* given back by a thread of the object, whose destructor then cannot wait *)
(* for it; the thread to join was never created; two inits set up one      *)
(* object, after an uninit in between.  io_attach and wp_queued never meet *)
(* a freed object.                                                         *)
UndefinedForCause ==
  /\ ub = "unready" => fault \/ mixed \/ \E t \in Users : Initialising(t)
  /\ ub = "freed" => selfjoin # {}
  /\ ub = "unjoined" => fault
  /\ ub = "twice" => mixed

(* A pool that is gone has no task in its list, and its thread has dropped *)
(* at most the one it had taken when it was told to stop.                  *)
TasksAccounted ==
  \A i \in Insts :
    /\ lost[i] <= 1
    /\ lost[i] > 0 => ~actived["wp"][i]
    /\ stat["wp"][i] = "dead" => tasks[i] = 0

(* Two destructors wait for each other's thread: the epoll thread gave the *)
(* pool's last reference back, and the pool thread the epoll object's.     *)
Crossed ==
  \E i, j \in Insts :
    At(Own("wp", j), "join", "io", i) /\ At(Own("io", i), "join", "wp", j)

(* A stop comes to its end: tcp_uninit returns, and what it has closed is  *)
(* gone with its threads, whichever thread runs the destructors, unless two*)
(* of them wait for each other.                                            *)
StopEventuallyOver ==
  (\E p \in Parts : Stopping(p)) ~>
    (\A p \in Parts : ~Stopping(p)) \/ ub # "no" \/ Crossed
=============================================================================
