------------------------------- MODULE Options ------------------------------
(***************************************************************************)
(* What the user sets on a link while other threads use it: the protocol   *)
(* template (tcp_settst, tcp_gettst and their _r forms), read field by     *)
(* field by tcp_write, the attributes, the context (nis_cntl) and the      *)
(* multicast group of a UDP link (udp_joingrp, udp_dropgrp).  Nothing here *)
(* is locked: a step is one access to the ncb or one system call.          *)
(***************************************************************************)
EXTENDS Naturals, FiniteSets, Sequences

CONSTANTS
  Threads,
  Templates,  \* the templates the user passes
  NoTemplate, \* all zero, as objallo leaves it
  Groups,
  MaxCalls    \* bound on the calls of all threads

ASSUME OptionsAssumption ==
  /\ MaxCalls \in Nat
  /\ \A p \in Templates \cup {NoTemplate} :
       p = [f \in {"cb", "builder", "parser"} |-> p[f]] /\ p.cb \in Nat
  /\ NoTemplate \notin Templates
  /\ "unset" \notin Groups

VARIABLES
  kind,      \* "tcp" or "udp"
  template, prtemplate,
  attr,
  context, prcontext,
  bcast,     \* the socket's SO_BROADCAST
  blocks,    \* the ip_mreq blocks allocated so far: the group in each
  mreq,      \* ncb->u.udp.mreq: 0, or a block
  joined,    \* the groups the socket is a member of
  op, at, arg, reg,  \* of each thread: its call, its place, argument, what it has read
  calls,     \* calls made
  (* history *)
  raced,     \* kinds of option two calls have changed at once
  lapped,    \* calls a template change has overlapped
  saw,       \* the template in force when the call of each thread began
  current, previous,   \* the template the calls have set, and the one before
  wanted,    \* the attributes they have set
  ctx, prctx,          \* the context they have set, and the one before
  last, member  \* the group last asked for; the groups joined and not dropped

opts == <<template, prtemplate, attr, context, prcontext>>
groups == <<bcast, blocks, mreq, joined>>
locals == <<op, at, arg, reg>>
ghosts == <<current, previous, wanted, ctx, prctx, last, member>>
marks == <<calls, raced, lapped, saw>>
vars == <<kind, opts, groups, locals, ghosts, marks>>

Fields == <<"cb", "builder", "parser">>
Flags(k) == IF k = "tcp" THEN {"NO_BUILD", "FULLY_RECEIVE"} ELSE {"BROADCAST", "MULTICAST"}
UserLength == 1          \* cb of a tcp_write
Contexts == {"c1", "c2"}
Unset == "unset"         \* memory nothing has been written to

(* The calls of each protocol, and the option each changes.                *)
Ops(k) == {"setattr_r", "setctx", "getctx"}
          \cup (IF k = "tcp" THEN {"settst", "settst_r", "gettst", "write", "setattr"}
                             ELSE {"join", "drop"})
Changes(o) == CASE o \in {"settst", "settst_r"} -> {"template"}
                [] o \in {"setattr", "setattr_r"} -> {"attr"}
                [] o \in {"setctx", "getctx"} -> {"context"}
                [] o \in {"join", "drop"} -> {"group"}
                [] OTHER -> {}
Args(o) == CASE o \in {"settst", "settst_r"} -> Templates
             [] o = "setattr" -> Flags(kind) \X BOOLEAN
             [] o = "setattr_r" -> SUBSET Flags(kind)
             [] o = "setctx" -> Contexts
             [] o = "join" -> Groups
             [] OTHER -> {Unset}

Init ==
  /\ kind \in {"tcp", "udp"}
  /\ template = NoTemplate /\ prtemplate = NoTemplate
  /\ attr \in IF kind = "tcp" THEN {{}} ELSE {{}, {"BROADCAST"}, {"MULTICAST"}}
  /\ context = "null" /\ prcontext = "null"
  /\ bcast = ("BROADCAST" \in attr) /\ blocks = << >> /\ mreq = 0 /\ joined = {}
  /\ op = [t \in Threads |-> "none"] /\ at = [t \in Threads |-> "returned"]
  /\ arg = [t \in Threads |-> Unset] /\ reg = [t \in Threads |-> << >>]
  /\ calls = 0 /\ raced = {} /\ lapped = {} /\ saw = [t \in Threads |-> NoTemplate]
  /\ current = NoTemplate /\ previous = NoTemplate /\ wanted = attr
  /\ ctx = "null" /\ prctx = "null" /\ last = Unset /\ member = {}

-----------------------------------------------------------------------------
Running == {t \in Threads : at[t] # "returned"}
RunningOn(o) == {t \in Running : o \in Changes(op[t])}

(* The call begins; history notes which calls overlap.                     *)
Begin(t) ==
  /\ t \notin Running /\ calls < MaxCalls /\ calls' = calls + 1
  /\ \E o \in Ops(kind) : \E a \in Args(o) :
       /\ op' = [op EXCEPT ![t] = o] /\ arg' = [arg EXCEPT ![t] = a]
       /\ raced' = raced \cup {c \in Changes(o) : RunningOn(c) # {}}
       /\ lapped' = (lapped \ {t})
                    \cup (IF RunningOn("template") # {} THEN {t} ELSE {})
                    \cup (IF "template" \in Changes(o) THEN Running ELSE {})
  /\ at' = [at EXCEPT ![t] = "called"] /\ reg' = [reg EXCEPT ![t] = << >>]
  /\ saw' = [saw EXCEPT ![t] = current]
  /\ UNCHANGED <<kind, opts, groups, ghosts>>

In(t, o, place) == op[t] = o /\ at[t] = place
Goes(t, place) == at' = [at EXCEPT ![t] = place] /\ UNCHANGED <<op, arg>>
Keeps(t, v) == reg' = [reg EXCEPT ![t] = Append(@, v)]
Same == UNCHANGED <<kind, calls, raced, lapped, saw>>

-----------------------------------------------------------------------------
(***************************************************************************)
(* The template.                                                           *)
(***************************************************************************)
Field(t) == Fields[Len(reg[t]) + 1]
Filled(t) == Len(reg[t]) = Len(Fields)

(* One field of the template is replaced, and what was there is known.     *)
PutField(t) ==
  /\ ~Filled(t)
  /\ template' = [template EXCEPT ![Field(t)] = arg[t][Field(t)]]
  /\ Keeps(t, template[Field(t)])

tcp_settst(t) ==
  /\ In(t, "settst", "called") /\ PutField(t) /\ Goes(t, "called")
  /\ UNCHANGED <<prtemplate, attr, context, prcontext, groups, ghosts>> /\ Same

SaveField(t) ==
  LET f == Fields[Len(reg[t])] IN prtemplate' = [prtemplate EXCEPT ![f] = reg[t][Len(reg[t])]]

(* __sync_lock_test_and_set of a field, then the store to prtemplate.      *)
tcp_settst_r(t) ==
  /\ \/ In(t, "settst_r", "called") /\ PutField(t) /\ Goes(t, "save") /\ UNCHANGED prtemplate
     \/ In(t, "settst_r", "save") /\ SaveField(t) /\ Goes(t, "called") /\ UNCHANGED <<template, reg>>
  /\ UNCHANGED <<attr, context, prcontext, groups, ghosts>> /\ Same

SettstReturns(t) ==
  /\ In(t, "settst", "called") \/ In(t, "settst_r", "called")
  /\ Filled(t) /\ Goes(t, "returned")
  /\ current' = arg[t] /\ previous' = IF op[t] = "settst_r" THEN current ELSE previous
  /\ UNCHANGED <<opts, groups, reg, wanted, ctx, prctx, last, member>> /\ Same

(* A faulty variant: builder_ and parser_ are read in the wrong order.     *)
tcp_gettst_swapped(t) ==
  /\ In(t, "gettst", "called") /\ ~Filled(t)
  /\ Keeps(t, template[<<"cb", "parser", "builder">>[Len(reg[t]) + 1]])
  /\ Goes(t, IF Len(reg[t]) = 2 THEN "returned" ELSE "called")
  /\ UNCHANGED <<opts, groups, ghosts>> /\ Same

(* tcp_gettst and tcp_gettst_r; tcp_syn copies the template for an accepted*)
(* link in the same way.                                                   *)
tcp_gettst(t) ==
  /\ In(t, "gettst", "called") /\ ~Filled(t)
  /\ Keeps(t, template[Field(t)])
  /\ Goes(t, IF Len(reg[t]) = 2 THEN "returned" ELSE "called")
  /\ UNCHANGED <<opts, groups, ghosts>> /\ Same

(* tcp_write as far as the frame goes: reg becomes <<path, bytes of the    *)
(* buffer, builder called, where the user's data begins, node->wcb>>.      *)
Writes(t, from, to, v) ==
  /\ In(t, "write", from) /\ Goes(t, to) /\ Keeps(t, v)
  /\ UNCHANGED <<opts, groups, ghosts>> /\ Same

(* builder_ is tested, and if it is set the attribute.                     *)
WriteTest(t) ==
  \/ template.builder = Unset /\ Writes(t, "called", "plain", "plain")
  \/ /\ template.builder # Unset /\ In(t, "write", "called") /\ Goes(t, "attr")
     /\ UNCHANGED <<opts, groups, reg, ghosts>> /\ Same
WriteAttr(t) ==
  IF "NO_BUILD" \in attr THEN Writes(t, "attr", "plain", "plain")
                         ELSE Writes(t, "attr", "build", "build")
(* malloc of cb bytes, the data at its beginning.                          *)
WritePlain(t) ==
  /\ In(t, "write", "plain") /\ Goes(t, "wcb")
  /\ reg' = [reg EXCEPT ![t] = @ \o <<UserLength, Unset, 0>>]
  /\ UNCHANGED <<opts, groups, ghosts>> /\ Same

(* A faulty variant: the buffer is made for the user's data alone.         *)
WriteMallocShort(t) == Writes(t, "build", "builder", UserLength)

WriteMalloc(t) == Writes(t, "build", "builder", UserLength + template.cb)
WriteBuilder(t) == Writes(t, "builder", "copy", template.builder)
WriteCopy(t) == Writes(t, "copy", "wcb", template.cb)
WriteWcb(t) == Writes(t, "wcb", "returned", UserLength + template.cb)

tcp_write(t) ==
  \/ WriteTest(t) \/ WriteAttr(t) \/ WritePlain(t) \/ WriteMalloc(t)
  \/ WriteBuilder(t) \/ WriteCopy(t) \/ WriteWcb(t)

-----------------------------------------------------------------------------
(***************************************************************************)
(* Attributes and context.                                                 *)
(***************************************************************************)

(* A faulty variant: disabling one attribute clears them all.              *)
FlaggedAll(a, flags) == IF a[2] THEN flags \cup {a[1]} ELSE {}

Flagged(a, flags) == IF a[2] THEN flags \cup {a[1]} ELSE flags \ {a[1]}

(* |= and &= load the word, then store it.                                 *)
tcp_setattr(t) ==
  /\ \/ /\ In(t, "setattr", "called") /\ Goes(t, "store") /\ Keeps(t, attr)
        /\ UNCHANGED <<attr, wanted>>
     \/ /\ In(t, "setattr", "store") /\ Goes(t, "returned") /\ UNCHANGED reg
        /\ attr' = Flagged(arg[t], reg[t][1])
        /\ wanted' = IF arg[t][2] THEN wanted \cup {arg[t][1]} ELSE wanted \ {arg[t][1]}
  /\ UNCHANGED <<template, prtemplate, context, prcontext, groups,
                 current, previous, ctx, prctx, last, member>> /\ Same

(* NI_SETATTR: the whole word is exchanged.                                *)
Setattr(t) ==
  /\ In(t, "setattr_r", "called")
  /\ attr' = arg[t] /\ wanted' = arg[t]
  /\ Goes(t, IF kind = "tcp" THEN "returned" ELSE "load")
  /\ UNCHANGED <<template, prtemplate, context, prcontext, groups, reg,
                 current, previous, ctx, prctx, last, member>> /\ Same

(* udp_setattr_r goes on: attr is read again, and SO_BROADCAST follows.    *)
SetattrLoad(t) ==
  /\ In(t, "setattr_r", "load") /\ Goes(t, "bcast") /\ Keeps(t, attr)
  /\ UNCHANGED <<opts, groups, ghosts>> /\ Same

SetBroadcast(t) ==
  /\ In(t, "setattr_r", "bcast") /\ Goes(t, "returned")
  /\ bcast' = ("BROADCAST" \in reg[t][1])
  /\ UNCHANGED <<opts, blocks, mreq, joined, reg, ghosts>> /\ Same

udp_setattr_r(t) == Setattr(t) \/ SetattrLoad(t) \/ SetBroadcast(t)

(* NI_SETCTX exchanges the context, NI_GETCTX exchanges a local nothing has*)
(* been written to with the context; both store what was there to prcontext*)
SetCtx(t) ==
  /\ In(t, "setctx", "called") /\ Goes(t, "save")
  /\ context' = arg[t] /\ Keeps(t, context)
  /\ UNCHANGED <<template, prtemplate, attr, prcontext, groups, ghosts>> /\ Same
GetCtx(t) ==
  /\ In(t, "getctx", "called") /\ Goes(t, "save") /\ Keeps(t, Unset)
  /\ UNCHANGED <<opts, groups, ghosts>> /\ Same
SaveCtx(t) ==
  /\ In(t, "setctx", "save") \/ In(t, "getctx", "save")
  /\ Goes(t, "returned") /\ prcontext' = reg[t][1]
  /\ prctx' = (IF op[t] = "setctx" THEN ctx ELSE Unset)
  /\ ctx' = (IF op[t] = "setctx" THEN arg[t] ELSE ctx)
  /\ UNCHANGED <<template, prtemplate, attr, context, groups, reg,
                 current, previous, wanted, last, member>> /\ Same

nis_cntl(t) == udp_setattr_r(t) \/ SetCtx(t) \/ GetCtx(t) \/ SaveCtx(t)

-----------------------------------------------------------------------------
(***************************************************************************)
(* udp_joingrp and udp_dropgrp.                                            *)
(***************************************************************************)
GroupStep(t, o, from, to) ==
  /\ In(t, o, from) /\ Goes(t, to) /\ Same
  /\ UNCHANGED <<opts, bcast, current, previous, wanted, ctx, prctx>>

(* The attribute, IP_MULTICAST_LOOP (which may fail), and whether there is *)
(* a block.                                                                *)
JoinRefused(t) ==
  /\ GroupStep(t, "join", "called", "returned")
  /\ UNCHANGED <<blocks, mreq, joined, reg, last, member>>
JoinBegins(t) ==
  /\ "MULTICAST" \in attr
  /\ GroupStep(t, "join", "called", IF mreq = 0 THEN "malloc" ELSE "fill")
  /\ last' = arg[t]
  /\ UNCHANGED <<blocks, mreq, joined, reg, member>>

(* Without memory the call returns 0 all the same, but joins nothing.      *)
JoinMalloc(t) ==
  /\ \/ /\ GroupStep(t, "join", "malloc", "fill")
        /\ blocks' = Append(blocks, Unset) /\ mreq' = Len(blocks) + 1
     \/ GroupStep(t, "join", "malloc", "returned") /\ UNCHANGED <<blocks, mreq>>
  /\ UNCHANGED <<joined, reg, last, member>>

JoinFill(t) ==
  /\ GroupStep(t, "join", "fill", "add")
  /\ blocks' = [blocks EXCEPT ![mreq] = arg[t]]
  /\ UNCHANGED <<mreq, joined, reg, last, member>>

(* IP_ADD_MEMBERSHIP with what mreq points to; it may fail, and must when  *)
(* the socket is a member.  A block never filled may name any group.       *)
JoinAdd(t) ==
  /\ GroupStep(t, "join", "add", "returned")
  /\ \/ UNCHANGED <<joined, member>>
     \/ \E g \in IF blocks[mreq] = Unset THEN Groups ELSE {blocks[mreq]} :
          /\ g \notin joined
          /\ joined' = joined \cup {g} /\ member' = member \cup {arg[t]}
  /\ UNCHANGED <<blocks, mreq, reg, last>>

(* Without the attribute or a block, or when IP_MULTICAST_LOOP fails.      *)
DropRefused(t) ==
  /\ GroupStep(t, "drop", "called", "returned")
  /\ UNCHANGED <<blocks, mreq, joined, reg, last, member>>
DropBegins(t) ==
  /\ "MULTICAST" \in attr /\ mreq # 0
  /\ GroupStep(t, "drop", "called", "drop")
  /\ UNCHANGED <<blocks, mreq, joined, reg, last, member>>

(* IP_DROP_MEMBERSHIP fails when the socket is no member.                  *)
DropMember(t) ==
  /\ GroupStep(t, "drop", "drop", "returned")
  /\ \E g \in IF blocks[mreq] = Unset THEN Groups ELSE {blocks[mreq]} :
       IF g \in joined THEN joined' = joined \ {g} /\ member' = member \ {last}
                       ELSE UNCHANGED <<joined, member>>
  /\ UNCHANGED <<blocks, mreq, reg, last>>

udp_joingrp(t) == JoinRefused(t) \/ JoinBegins(t) \/ JoinMalloc(t) \/ JoinFill(t) \/ JoinAdd(t)
udp_dropgrp(t) == DropRefused(t) \/ DropBegins(t) \/ DropMember(t)

Next ==
  \E t \in Threads :
    \/ Begin(t)
    \/ tcp_settst(t) \/ tcp_settst_r(t) \/ SettstReturns(t) \/ tcp_gettst(t) \/ tcp_write(t)
    \/ tcp_setattr(t) \/ nis_cntl(t) \/ udp_joingrp(t) \/ udp_dropgrp(t)

Spec == Init /\ [][Next]_vars

-----------------------------------------------------------------------------
Returned(t, o) == op[t] = o /\ at[t] = "returned"
Quiet(o) == o \notin raced /\ RunningOn(o) = {}
(* The template stood still for the whole call.                            *)
Undisturbed(t) == t \notin lapped /\ "template" \notin raced

(* Every variable keeps its type, and a link never has an ip_mreq block it *)
(* has lost unless two joins have met.                                     *)
TypeOK ==
  /\ kind \in {"tcp", "udp"}
  /\ attr \subseteq Flags(kind) /\ wanted \subseteq Flags(kind)
  /\ bcast \in BOOLEAN /\ joined \subseteq Groups /\ member \subseteq Groups
  /\ blocks \in Seq(Groups \cup {Unset}) /\ mreq \in 0 .. Len(blocks)
  /\ \A t \in Threads : op[t] \in Ops(kind) \cup {"none"} /\ lapped \subseteq Threads
  /\ calls \in 0 .. MaxCalls /\ raced \subseteq {"template", "attr", "context", "group"}
  /\ "group" \notin raced => Len(blocks) <= 1

(* Calls of tcp_settst and tcp_settst_r that do not overlap leave exactly  *)
(* the template of the last one, and tcp_settst_r the one before it in     *)
(* prtemplate; two that overlap may leave a mixture for good.              *)
TemplateKept == Quiet("template") => template = current /\ prtemplate = previous

(* tcp_gettst, or an accept, that no tcp_settst overlaps gets one template *)
(* whole.                                                                  *)
ReadsWhole ==
  \A t \in Threads : Returned(t, "gettst") /\ Undisturbed(t) =>
    \A i \in 1 .. 3 : reg[t][i] = saw[t][Fields[i]]

(* A frame that tcp_write builds, when no tcp_settst overlaps it, is built *)
(* by the builder that was tested, into a buffer of the head and the data, *)
(* and just that much is sent.  Of the frames that are not built, those of *)
(* LINKATTR_TCP_NO_BUILD and of a template without builder, nothing is     *)
(* said: there wcb counts a head of cb_ bytes the buffer does not have,    *)
(* against tcp.c:677-678 and fifo.h:8.                                     *)
FrameFits ==
  \A t \in Threads : Returned(t, "write") /\ Undisturbed(t) /\ reg[t][1] = "build" =>
    LET size == reg[t][2] builder == reg[t][3] offset == reg[t][4] wcb == reg[t][5] IN
    /\ builder = saw[t].builder /\ builder # Unset
    /\ offset + UserLength = size /\ wcb = size

(* No change of an attribute is lost unless two changes overlap: |= and &= *)
(* are not atomic, and NI_SETATTR replaces the whole word.                 *)
AttrKept == Quiet("attr") => attr = wanted

(* SO_BROADCAST follows the attribute, unless two changes overlap.         *)
BroadcastAgrees == kind = "udp" /\ Quiet("attr") => bcast = ("BROADCAST" \in attr)

(* Joins and drops that do not overlap: a join makes the link a member of  *)
(* the group it names, a drop takes it out of the group last asked for -   *)
(* the others stay, and none if the last join has failed.                  *)
GroupsAsCalled == Quiet("group") => joined = member

(* After NI_SETCTX the context is the new one and prcontext the one before,*)
(* until an NI_GETCTX overwrites prcontext with what was on its stack.     *)
ContextKept == Quiet("context") => context = ctx /\ prcontext = prctx

(* Settings made by calls that do not overlap are the ones the link has:   *)
(* none of them keeps a value over a return, or reads one before the call. *)
SettingsKept ==
  /\ TypeOK /\ TemplateKept /\ AttrKept
  /\ BroadcastAgrees /\ GroupsAsCalled /\ ContextKept
=============================================================================
