# A verification development for nshost

nshost (the `swnet-linux` repository) is a C library for asynchronous TCP, UDP
and ARP input and output on Linux. This directory holds TLA+ models of its
core, configurations that check them with TLC on small instances, and theorems
that TLAPS proves for every instance: about the transmit and the receive path,
the set-up of links, the listener, the life of links, datagram links and pipes.
The modules are written from the code; line references are to the repository, and
`PROJECT.json` gives the lines behind every definition.

## 1. The system

### Parts

| part | source | state it keeps | operations |
|---|---|---|---|
| link object (ncb) | `ncb.c`, `ncb.h` | descriptor, handlers `ncb_read` / `ncb_write`, template, buffers, send queue; reference count and state kept by the object manager | `ncb_allocator`, `ncb_deconstruct`, `ncb_post_*` callbacks, `ncb_uninit` |
| send queue | `fifo.c` | `fifo.head`, `fifo.size`, `fifo.blocking`, under `fifo->lock` | `fifo_queue`, `fifo_top`, `fifo_pop`, `fifo_is_blocking` |
| epoll threads | `io.c` | an epoll instance per thread; a link belongs to the instance its handle hashes to; edge triggered | `io_attach`, `io_modify`, `io_detach`, `io_close`, `__epoll_proc`, `__iorun` |
| write pool | `wpool.c` | per protocol a list of tasks, a manual-reset event and one thread | `wp_queued`, `__wp_run`, `__wp_exec` |
| TCP | `tcp.c`, `tcpio.c`, `tcpal.c` | handlers and parse state of a link | connect, connect2, listen, write, destroy; `tcp_syn`, `tcp_rx`, `tcp_tx_syn`, `tcp_tx`; the packet parser |
| UDP, ARP | `udp.c`, `udpio.c`, `arp.c`, `arpio.c` | as above, and the `ip_mreq` of a UDP link | create, write, receive, destroy, join and drop a group |
| pipes | `pipe.c` | a pipe per epoll instance, its read end attached like a link | `pipe_create`, `pipe_write_message` (`tcp_awaken`, `udp_awaken`), `pipe_rx` |
| library start and stop | `io.c`, `wpool.c`, `tcp.c`, `udp.c` | per protocol the handle of the epoll object and of the pool, their threads and `actived` flags | `tcp_init`, `tcp_uninit` over `io_init`, `wp_init`, `io_uninit`, `wp_uninit`, `ncb_uninit` |
| list of links | `ncb.c` | `nl_head`, `nl_count` under a lock | `ncb_allocator`, `ncb_deconstruct`, `ncb_uninit` |
| settings | `tcp.c`, `udp.c`, `mxx.c` | template and its predecessor, attributes, context and its predecessor, group | `tcp_settst`, `tcp_gettst`, `*_setattr_r`, `nis_cntl`, `udp_joingrp`, `udp_dropgrp` |
| miscellanea | `mxx.c` | none | version, names, `nis_cntl` |
| echo | `echo/` | none | an example program |

### How they interact

*Output.* A user's thread calls `tcp_write`. If the link is not blocking it
sends directly; when `send(2)` says EAGAIN, or when the link is blocking
already, the message becomes a node of the send queue, the blocking flag is
set and EPOLLOUT is asked for. The epoll thread turns EPOLLOUT into a task of
the pool; the pool's thread runs `ncb_write`, which sends the node at the head;
`__wp_exec` pops it and puts the task back until the queue is empty or the
buffer is full. The last pop clears the flag and EPOLLOUT.

*Input.* EPOLLIN is handled on the epoll thread: `ncb_read` is `tcp_rx`, which
reads until EAGAIN and gives each piece to the parser, `tcp_syn` for a
listener, or nothing yet for a link that is being set up.

*Life.* Every handler works under a reference of its own (`objrefr` ..
`objdefr`). A link that is marked closing is destructed by whoever gives back
the last reference; `tcp_destroy` closes the descriptor before that. The
destructor therefore runs on any thread, inside any `objdefr`, and the number
of a closed descriptor goes to the next link while other threads still hold it.

*Awakening.* `udp_awaken` and `tcp_awaken` write a message into the pipe of the
link's division. The pipe's read end is an object with a handle of its own, so
it is attached to the division that handle hashes to.

*Start and stop.* `tcp_init` publishes the handle of an epoll object and of a
pool with a compare-and-swap and sets the object up afterwards; `tcp_uninit`
closes the links, then both objects, whose destructors join the threads.

### What is hard

Three kinds of threads share a link without a lock that spans their steps. The
blocking flag is read under a lock and used after it. EPOLLET reports an edge
once, so an edge spent at the wrong moment is a link that hangs. The pool
thread sends from a node that stays in the queue. The descriptor is closed
under threads that use it. Callbacks come from three threads and have an order
the user relies on. Lengths come from the peer and cut the stream at places
unrelated to the reads. Destructors run inside other calls, on threads they then
wait for. Settings are words and structures that threads read and write without
a lock. The `hazards` of `PROJECT.json` list these places line
by line, with the property that looks at each or the reason why none does.

### What makes each part correct

* *send queue* - flag, nodes and event mask agree; it is bounded.
* *transmit path* - accepted messages leave whole and in the order of the
  calls; nothing waits without a wake-up; nobody frees a node in use; no task
  is lost; a link that closes is released.
* *receive path* - the user gets the packets the peer sent, byte for byte,
  however they are cut; no copy leaves its buffer; a malformed length closes.
* *set-up* - callbacks in order, `closed` last; early data and early hang-ups
  are noticed; a connect is answered.
* *listener* - nothing stays in the backlog unannounced; the accept loop ends;
  errors of resources do not cost the listener.
* *link object* - destructed once, by whoever is last in it; the list and its
  count agree well enough for the array `ncb_uninit` sizes by the count; nobody
  closes or reads another link's socket.
* *start and stop* - what callers conclude from 0 and EALREADY holds; no freed
  or half-built object is used; a stop ends and drops no task but one.
* *datagram links and pipes* - no datagram unread, messages once and in order,
  no callback after the last.
* *settings* - the link has the settings the calls have made; readers see one
  template; the frame fits its buffer.

## 2. The modules

**`Fifo`** - the record `tx_fifo` and the operations of `fifo.c` as operators.
Each runs under `fifo->lock`, so each is atomic where it is used.

**`TxPath`** - one link from the user's call to the wire. Writers
(`wpc`): enter (`__tcprefr`), prepare (state check and packet), check
(`fifo_is_blocking`), send (one `send(2)` a step, partial counts included),
queue (`fifo_queue`), return. The step between *check* and *send* is the
release of the lock. `DestroyBegin`, `DestroyClose`, `DestroyEnd` are
`tcp_destroy`. The epoll thread (`epc`) is `__epoll_proc` and `__iorun`; the
pool thread (`ppc`) is `__wp_run`, `__wp_exec`, and `tcp_tx` or, with
`Proto = "udp"`, `udp_tx`, whose own `fifo_pop` is the step `selfpop`. ARP
links take the UDP path. The kernel is external: a send buffer of `K` bytes, the
SOCK_NOSPACE flag that makes an edge when space appears, the ready list, and
the re-poll that EPOLL_CTL_MOD does. A byte is represented by the message it
belongs to, a node by its message. The object manager (`objrefr`, `objdefr`,
`objclos`) is a library outside the repository, modelled from its use: a
closing object takes no new references and is destructed with the last one.
`wp_queued` may find no memory for its task, and the event is forgotten.

**`OrderedTx`** - what `tcp_write` promises a user with one writing thread:
accepted messages leave whole, one after the other, in the order of the calls,
until the connection is lost. `TxPath` implements it under the mapping
`PendMap`: the nodes not sent completely, then the message the writer has sent a
part of.

**`TcpRx`** - the read loop (`Recv`) and the parser. A byte is its position in
the peer's stream, so every `memcpy` is visible. `ParseRaw`,
`ParseLargeBlock`, `ParseHeaderPart`, `ParseFails`, `ParseLargeBegin` and
`ParsePacket` are the ways through `tcp_parse_pkt`; `Overplus` is its return
value. `template.parser_` is the user's code: of a true header it returns the
length the peer wrote, of other bytes any length.

**`TcpConn`** - `tcp_connect`, `tcp_connect2` with `tcp_tx_syn` on the pool
thread, and `__tcp_syn_dpc` for accepted links. One step per assignment of a
handler, change of the mask or callback, against the epoll thread, `tcp_destroy`
and the peer. `how` and `faults` are chosen in the initial state.

**`TcpListen`** - `tcp_listen` on the user's thread, `tcp_syn` with the errors of
`accept(2)`, `tcp_destroy`, and users who close accepted links (which gives
descriptors back).

**`LinkLife`** - several links, from the create calls of the three protocols to
`ncb_deconstruct`: the object's reference count, the global list, `nis_cntl`,
the `*_destroy` calls, an epoll thread inside a read handler, `ncb_uninit` (which
without memory for its array returns and closes nothing, `starved`), and
the kernel's table of descriptor numbers, which gives the smallest free number
to the next socket. Each thread has a stack of steps (`todo`), because the
destructor runs inside other calls. **`LinkObject`** is what all this must
amount to: threads enter an object while it lives, a closed one lets nobody in,
and it dies once, when nobody is inside. `LinkLife` implements it with
`life` read off the count's state and `inside` off the stacks.

**`LibLife`** - `tcp_init` and `tcp_uninit` on several threads, the epoll
object, the pool object, their threads and destructors, and `io_attach` and
`wp_queued` of everybody. Undefined behaviour is a state (`ub`) that names its
kind; the model stops there. `mixed` and `fault` record that an init has
overlapped an uninit, and that a call inside `__io_init` or `__wp_init` failed.

**`DgramLink`** - one UDP or ARP link with its creation, `udp_rx` / `arp_rx`,
`udp_destroy`, hang-ups and the pipe of its division. A thread's place is
`pc`; `hand` is what an epoll thread has fetched.

**`Options`** - template, attributes, context and group, one access to the ncb
a step, and `tcp_write` up to the finished node, which reads the template three
times. History variables hold what calls that do not overlap should leave.

**`Sublists`** - `Only`, the walk of a list that leaves or copies some of its
items; `TxPath`, `LinkLife` and `DgramLink` use it.

**`MCTxPath`, `MCTcpRx`, `MCOptions`** - values of constants for TLC.
**`TxPathProofs`, `TcpRxProofs`, `TcpConnProofs`, `LinkLifeProofs`,
`DgramLinkProofs`, `LibLifeProofs`** - the theorems about the module each is
named after; **`ListenOptionsProofs`** - those about `TcpListen` and `Options`,
which share no name, so one module extends both; **`SublistsProofs`** - the lemmas
about lists and induction that the others share.

Definitions introduced by "a faulty variant" are not part of the models: they
are plausible mistakes, listed under `mutants`, each of which must break the
property named with it.

## 3. The runs

Runs that pass:

| run | question | properties | states |
|---|---|---|---|
| `TxOneWriter` | Does the path keep `tcp_write`'s promise to one writer, and in the end send what it queued and release the link? | `TypeOK`, `ImplementsOrderedTx`, `QueuedEventuallySent`, `ClosingEventuallyClosed` | 0.2 M |
| `TxTwoWriters` | What survives two writers, reset, FIN, destroy and lack of memory? | `RealTimeOrder`, `FifoConsistent`, `NodeOwned`, `NoTaskLeak`, `NoLostEdge`, `PopOnlySent` | 1.6 M |
| `RxPackets` | Does the user get the peer's packets? | `BufferBounds`, `DeliveredExactly`, `MalformedCloses`, `EventuallyDelivered` | 0.16 M |
| `Connect` | Is every set-up announced, heard, ended and answered? | `CallbackOrder`, `NoUnheardInput`, `DueDelivered`, `HangupEventuallyClosed`, `ConnectAnswered` | 78 k |
| `Listen` | Is every connection taken, and does the loop end? | `NoLostAccept`, `ListenerProgress` | 7 k |
| `Links` | Do links die once and alone, with list and descriptors intact? | `ListSafe`, `CallbacksOnce`, `SocketsApart`, `UninitComplete`, `ClosingEventuallyGone`, `ImplementsObject` | 0.21 M |
| `Library` | What may callers rely on during start and stop? | `InitPromises`, `UndefinedForCause`, `TasksAccounted`, `StopEventuallyOver` | 0.32 M |
| `Datagrams` | Is every datagram and every pipe message delivered, in order? | `NoUnheardDatagram`, `AwokenInOrder`, `CallbackOrder`, `AwokenEventuallyRead` | 0.33 M |
| `Options` | Which settings does a link have after concurrent calls? | `SettingsKept`, `ReadsWhole`, `FrameFits` | 0.77 M |

Runs that find a property violated, where the code disagrees with what the
repository says of it (section 5):

| run | property | what the repository says |
|---|---|---|
| `TxTear` | `WholeFrames` | `tcp.c:747`, `README:64` |
| `TxUdp` | `PopOnlySent` | `wpool.c:101`, `udp.c:262`, `fifo.h:25` |
| `ListenLimit` | `ListenerRetained` | `tcpio.c:39-41` |

Some properties are conjunctions of named parts, each stated by a comment in its
module: `DeliveredExactly` (whole packets, the stream in order, nothing held
back, no input lost), `CallbackOrder` of `TcpConn` and of `DgramLink`,
`ListenerProgress`, `ListSafe`, `SocketsApart`, `UninitComplete`,
`InitPromises`, `SettingsKept`.

### Bounds, and why they are enough

* *Transmit.* `K = 1` against messages of two bytes and of one: every message can
  be sent at once, in part or not at all, and be cut at each byte. With one
  writer, three messages and a queue of two nodes the queue gets full (`-EBUSY`);
  the last pop, and the pop that leaves a node, are reached too. Two writers are
  the fewest that race each other; a third adds no new pair of steps. In
  `TxTwoWriters` every message is written at most once, so each writer may write
  both, one after the other, and one input event (`MaxIn = 1`) is enough for an
  EPOLLOUT that rides along with another edge; the two writers and the two
  messages are alike, and symmetry is sound because the run has only invariants
  and action properties. `TxOneWriter` carries the refinement and the liveness
  and so has neither symmetry nor faults other than `tcp_destroy`; that the
  refinement survives reset, FIN and lack of memory, for any sizes, is the theorem
  `OneWriterOrdered`.
* *Receive.* The parser has no state between packets other than what it holds of
  the next one, so two packets give every pair of neighbours. Buffers of five
  bytes leave room for packets of one byte and packets that just fit; the
  smallest large block, the largest legal packet (ten), zero and eleven are the
  sizes at which the conditions turn. Headers of none, one and two bytes: only
  the last can be split. After a large block whose header was split the stream is
  out of step for good (section 5), so the run ends at the first such header.
* *Set-up.* One link, one set-up, two segments of data (one before and one after
  any step). Three sets of faults: with and without lack of memory, and with a
  connect that succeeds at once. A link is connected once.
* *Listener.* Three connections and two descriptors: the limit is reached with a
  connection left over. `ListenLimit` is this and no fault at all.
* *Links.* Two links, two descriptor numbers, one thread that creates, one that
  calls `nis_cntl` and destroys, the epoll thread and one `ncb_uninit`: enough
  for a number to be reused, for a link to leave the list in `ncb_uninit` while
  another is counted, and for a destructor on each of the threads. The unknown
  command of `nis_cntl` leaks once.
* *Library.* Two users, two instances of each part, one task. One of them stops;
  after an init has overlapped an uninit nobody begins another uninit, at most
  one call fails, and no init begins when all instances are used.
* *Datagrams.* Two divisions, so that the pipe may sit on the link's division or
  on the other; one writer with three messages against a pipe of two; two
  datagrams; one error of the network. Only the placement of the link's own
  pipe varies: the others are never written.
* *Options.* Three calls of two threads: two that overlap and one before or
  after them. Two templates differ in every field, so any mixture is told
  apart.

Deadlock is checked for the transmit path, whose pool thread always has its
time-out. The other models do stop, when the peer and the user are done, or
when undefined behaviour has been met; there it is switched off.

### Fairness

`FairSpec` of each module assumes that a thread inside the library goes on (a
thread runs; no step waits for another one except through the events that are
modelled), that `epoll_wait` reports a link on its ready list, that the pool
thread wakes when it is signalled, that `tcp_destroy`, once called, ends, and
in `TxPath` that the peer keeps reading. Weak fairness is enough: each of these steps
stays enabled until it is taken. The one exception is `RecvEnd` of `LinkLife`,
the EAGAIN that ends a read handler: data may come again before it, so it is
enabled again and again rather than for good, and strong fairness says that a
peer does not keep the handler reading for ever. In `LibLife` fairness is over
the variables without the history flag `mixed`, which alone no thread's step
changes. Nothing is assumed of new calls, faults,
arriving data or the 10 ms time-out of the pool, so the results do not lean on
the pool's polling where the signal is meant to do the work.

## 4. What is proved

### The transmit path (`TxPathProofs`)

For all sets of writers and messages, all sizes, buffer capacities, queue
lengths and sets of faults that satisfy `TxAssumption` and `FifoAssumption`:

| theorem | states |
|---|---|
| `Invariance` | the inductive invariant `IInv` |
| `Typing` | `TypeOK`: above all the bound of the queue |
| `Consistency` | `FifoConsistent` |
| `Ownership` | `NodeOwned` |
| `TcpTasksAccounted` | `NoTaskLeak`, for TCP links |
| `EdgesKept` | `NoLostEdge`: every step keeps the edge, but `wp_queued` without memory |
| `TcpPopOnlySent` | `PopOnlySent`, for TCP links |
| `TcpWritesInOrder` | `RealTimeOrder`, for TCP links |
| `OneWriterOrdered` | `ImplementsOrderedTx`, for a TCP link with one writer |

`TxAssumption` says that messages have positive sizes, that the send buffer is
not of size zero, that a datagram is one unit (it leaves at once or not at
all), that UDP links have no reset and no FIN, and that the threads and "no
message" have names of their own. `FifoAssumption`: the queue has room for one
node.

The invariant is `IInv == TypeOK /\ FifoConsistent /\ Refs /\ Calls /\ Nodes /\
PoolNode /\ Tasks`. `FifoConsistent` is not inductive alone: a queue that is
destructed under a writer would break it, so `Refs` says that a thread inside a
handler holds its reference, and that a closed object has no holders.
`Calls` says that a message is in the hands of at most one writer, not yet
queued while it is there, and that every node is of a queued message;
`Nodes` that no message is sent beyond its end and that a closed link has no nodes. With
them `PoolNode` follows the pool thread's node: it is at the head from
`fifo_top` to the pop, since writers only append and nobody else pops, and a TCP
node is sent completely when it is popped. `Tasks` balances allocated tasks with
the list and the thread's hands. `TypeOK` needs the others because the queue's
size is a number that `fifo_pop` decrements, and the list's length one that
`__wp_get_task` decrements.

The step lemmas (`StepValues` .. `StepTasks`) prove one conjunct each, by the
actions of `Next`. `EdgesKept` shows of each step that it keeps `EdgePending`,
or is the `wp_queued` that forgets the event: the cases that matter are a
writer that queues the first node (EPOLL_CTL_MOD re-polls, so either the link
is ready or the buffer is full and marked), the epoll thread that takes the
edge, and the pool thread that gets EAGAIN (the buffer is full and marked,
EPOLLOUT is of interest by `FifoConsistent`). `TcpPopOnlySent` follows from
`PoolNode`: at `pop`, the node at the head is the one the thread has sent
completely.

*Order.* `TcpWritesInOrder` needs `Order == Kept /\ Decided /\ Earlier /\
RealTimeOrder` on top of `IInv`. `Kept` says where an accepted message is (on
the wire, or in the queue) and that of one no call has taken up nothing has
left; `Earlier` that the messages accepted before a call began are before its
node in the queue, and wholly sent when its writer sends directly. The last is
the heart: a writer gets past `fifo_is_blocking` only when the flag is clear,
`FifoConsistent` says that the queue is empty then, so by `Kept` all that had
been accepted has been sent, whatever other writers do after the check.

*Refinement.* `OneWriterOrdered` maps each step of a TCP link with one writer to
a step of `OrderedTx` or a stutter: the first direct send of a message to
`AcceptAndEmit`, its next ones and those of the pool thread to `Emit`, queueing
a message to `Accept` and what is left of one to a stutter, a reset, FIN or
destroy to `Abort`. Three facts join the invariants. `Unfinished`: a
node is in the queue once, and none but the one at the pop is whole on the
wire. `DirectAlone`: while the one writer sends, and until it has queued what is
left, the queue is empty - this is where two writers fail, and what `TxTear`
shows. `OffCounts`: a message's offset counts its bytes on the wire. They give
`Pending`, which reads the mapping `PendMap` off the writer or the queue. That
the filter in `PendMap` behaves when a node is put behind or taken off is
`SublistsProofs`.

### The listener (`ListenOptionsProofs`)

For all sets of peers, limits of descriptors and sets of faults. `BacklogServed`
states `NoLostAccept`, and `ListenerTyping` the types. `OnlyEmfileCloses` is what
remains of `ListenerRetained`: of all that `accept(2)` may report, EMFILE alone
closes the listener.

`NoLostAccept` is not inductive: the edge of the first connection is of no use
if it is taken before the handler is set, or if the socket was attached with
connections already waiting. `HandlerFirst` says that `tcp_listen` sets the
handler before it attaches, `SocketStates` that a socket that does not listen
yet is not attached and nobody but `tcp_listen` works on it; the attachment
itself reports connections that are already waiting. `ClosersKnown` names who
may be on the way to `objclos`: the epoll thread only after EMFILE, from which
`OnlyEmfileCloses` follows by a look at each step that changes `stat`.

### Datagram links and pipes (`DgramLinkProofs`)

For any finite sets of divisions and writers, any number of messages and
datagrams and any capacity of a pipe (`DgramAssumption`: the sets are disjoint
and do not contain the two named threads). `DatagramsHeard` states
`NoUnheardDatagram`, `CallbacksOrdered` states `CallbackOrder`.

The heart of the invariant is `Counted`: the reference count is the number of
threads at a place inside the link (`Holding`), and a link that is gone has none.
It turns counting into sets: `objrefr` adds a thread to a finite set, `objdefr`
removes one, and the destructor's test `refs = 1` means that nobody else is
inside. From it follows that no callback comes after the destructor. `Places`
keeps the receive handler on the link's division and the pipe's on the pipe's;
`Caused` carries the cause of an end (an error in `epoll_wait`'s result, an empty
datagram in the socket) from where it arises to where it closes the link;
`HandlerFirst` and `NoUnheardDatagram` support each other as for the listener;
`Hands` has the types the others need. One lemma per part, one step per action.

`AwokenOrdered` states `AwokenInOrder`. Its invariant `InOrder` says that what
each writer has written is what the callback has heard of it, then the message
in the hand of the epoll thread at the pipe, then what is in the pipe; `InHand`
that a hand has a message only between the read and the callback.

### Links (`LinkLifeProofs`)

For any number of links and protocols, finite sets of user threads and
descriptor numbers (`LifeAssumption`: the numbers are 1 .. n, the two library
threads are not users). `ListIsSafe`, `CallbacksComeOnce`, `SocketsStayApart`,
`UninitIsComplete` state the four invariants of the run, `LinksImplementObject`
the refinement.

`IInv` joins to the types: `Places`, the stacks of steps each thread can have,
twenty-two in all, named after what is on them; `Counts`, the number of references threads
hold (`Weight` of their stacks, two for `tcp_settst_r` called by `nis_cntl`) is
no more than the count, and a link that is not there or being
freed has none - no more rather than equal, since an unknown command of
`nis_cntl` leaks one; `OneDestructor`, a link is destructing exactly while one
thread has `ncb_deconstruct` on its stack; `Told`, the callbacks follow the
state; `Listed`, `nl_count` is the number of links whose destructor has not
come to the list, and what is on the list is among them and there once;
`Creation`, an incomplete link is in the hands of its creator alone; `Sockets`, a
number in a link's field names the link's own socket; `UninitWork`, what
`ncb_uninit` still has to close, if it had memory for its array (otherwise it has
visited no entry and holds no handle). `SocketsApart` shows why `Sockets` is needed: a
number is reused as soon as it is closed, so `io_close` is right only because the
destructor and `*_destroy` clear the field or are the last to hold it. The array
of `ncb_uninit` is large enough by `Listed`: a list without repetition inside a
finite set is not longer than the set.

The mapping lets a thread be inside a link while its stack has weight. A create
call is `Create`, `nis_cntl` and input are `Enter`, the last step `defr` of a
stack is `Leave` (and with the last reference of a closing link its death),
`objclos` and the `objreff` of a `*_destroy` are `Close`. Everything else leaves
the object alone; above all the whole destructor, which runs on a thread that is
no longer inside.

### Set-up (`TcpConnProofs`)

For the three ways of set-up, any set of faults (`ConnAssumption`) and any
amount of data. `CallbacksOrdered`, `InputHeard` and `DueBeforeClosed` state
`CallbackOrder`, `NoUnheardInput` and `DueDelivered`; `SetUpSafe` the invariant.
`Places` and `Held` say where each thread may be and with what reference;
`Ways` what each of the three ways has set when it reaches a place
(`tcp_tx_syn` runs on the pool thread only for `tcp_connect2`); `HandlersFirst`
that an accepted link has its read handler before anything is asked of epoll;
`Asked` that the pool has nothing to do for a link that was never attached;
`Ended` that the closing callbacks are there exactly when the object is gone;
`InputAfter` that a link has been announced where input can be delivered;
`Received` that delivered and unread segments add up to those sent; `Caused`
that a thread on its way to `objclos` has a cause. The first part of the module
says of each action which variables it changes and how (`...Does`), so that the
other lemmas need not look into the actions again.

### The receive path (`TcpRxProofs`)

For any buffer size larger than every header, any limit of a packet, any number
of packets, any lengths in their headers - also illegal ones - and any way
`recv(2)` cuts the stream. `CopiesInBounds`, `StreamDelivered` and
`BadLengthEnds` state `BufferBounds`, `DeliveredExactly` and `MalformedCloses`.

Where a packet begins is a recursive function of the sizes before it.
`StartExists` shows by induction on the number of packets that its equations
have a solution, so `BeginWalks` may use them, and `BeginGrows` follows in the
same way. `BytesJoin` and `BytesPart` say that runs of consecutive positions put
together or cut are such runs again.

The invariant is `RxInv`. `InFlight`: what the parser holds (the packet buffer or
the large block) and then `data` are the bytes taken behind the packets
delivered. `Partial`: a packet of which the header is held is well-formed, is not
complete, and a large block has its size. `Given`: the packets delivered are the
peer's. `Unframed` is the same for a link without template, whose buffers are
cut by `recv(2)` alone. `BufferBounds` is not inductive without `Partial`: when
the header was read at an earlier turn, that packet and data fit together
depends on the length the header gave then. `NothingHeldBack` follows from
`Partial`, since packets end in order, `BadLengthEnds` from it and `Given`. All
but `BufferBounds` and `NoLostInput` stop at the first large block whose header
was split (section 5); the copies stay in bounds after it too.

### Start and stop (`LibLifeProofs`)

For any finite set of user threads, any of them allowed to start and to stop the
library, any number of instances and of tasks (`LibAssumption`).
`PoolAccounts`, `UndefinedHasCause` and `InitKeepsPromises` state
`TasksAccounted`, `UndefinedForCause` and `InitPromises`.

*What objects there are.* `LibBase` states `Base == TypeOK /\ Shapes /\ Instances
/\ Works`. `Shapes` lists the stacks of steps a thread can have - a user in
`tcp_init`, in `tcp_uninit` or in a call, with a destructor on top or without,
and the object's own threads. It turns a question about a stack into one about
finitely many places. `Instances` says of each instance: its reference count is
the number of threads at a place that holds one, and none once it is gone
(`Counted`); one thread runs its destructor exactly while it is dying
(`Destructed`); the handle names it unless it is dead or never was
installed (`Named`); `__io_init` or `__wp_init` are at work on it as its set-up
says (`Built`); and its own thread runs while it is not joined (`Running`).
`Works` balances the pool's tasks. `PoolAccounts` is read off it.

*One at a time.* `OneAtATime` holds until an init has overlapped an uninit
(`mixed`). Only the application's threads initialise (`Mine`), no init is under
way while something goes down (`Ordered`), and of the inits that are, one builds
a part: it alone has won the compare and swap, the instance it has installed is
the one the handle names, and nobody else sets it up (`Alone`). `UndefinedHasCause`
follows action by action: a part that is used and not ready is one an init is
still building, a destructor that joins the thread it runs on has been recorded
in `selfjoin`, a second set-up needs a second winner.

*What a result means.* `InitPromises` is about both parts, and the two are built one
after the other by whichever init comes first to each. `Promised` relates them as
long as nothing is `mixed` and no call inside has failed. A user who has passed the
first part and not the second (`Mid`) finds the first installed and the second
not, and there is one such user at most; one who is past a part and did not
build it (`Through`) finds it ready; and when there is no such user, both parts
are out of use or neither (`Out`: no handle, going down, or a thread is about to
close it). From these follow that 0 means both parts up, that EALREADY comes only
with both up or another init about, and that what is left when all have returned
is whole.

### Settings (`ListenOptionsProofs`)

For any set of threads, any templates with a natural `cb_`, any groups and any
number of calls (`OptionsAssumption`). `SettingsStay`, `GettstWhole` and
`WriteFits` state `SettingsKept`, `ReadsWhole` and `FrameFits`.

What holds at a return says nothing of the steps before it, so the invariant
follows each call. `Sole`: of an option that two calls have not changed at once,
at most one call is under way. `TemplateOwned`: then the template is a mixture
(`Mix`) of that call's argument and the template before, cut after as many fields
as the call has replaced, the registers hold the fields replaced, and
`prtemplate` is the same mixture, one field behind, of the two templates before. With
no such call it is the last one whole. `ReadsStill` says the same of a reader: as
long as no change overlaps it, it holds the first fields of the one template it
has seen, and every place of `tcp_write` says how much of the frame it has laid out.
`AttrOwned`, `ContextOwned` and `GroupOwned` are the counterparts for the other
options; that the block of a multicast group names the group last asked for is
what makes a drop take back the join (`GroupOwned`). One frame lemma per part
says that a step of a call that does not change an option leaves its part alone.

### Lists (`SublistsProofs`)

`Sublists` defines `Only(s, T)`, the items of a list that are in a set, as the
recursive function a `list_for_each_safe` walk computes. It is used by
`LinkLife` for the list of links, by `DgramLink` for the messages of one writer
and by `TxPath` for the nodes still to be sent. The lemmas `OnlyDistinct`, `OnlyConcat`,
`OnlyWhole`, `OnlyNone` and `OnlyFrom` hold of every list. The library's
induction theorems take an operator as a parameter; the induction here is over a
set of numbers instead: `Induction` says that a set with 0 and the successor of
each of its members has all of them, from the least number outside it. The
receive path uses it for `Begin`.

### Only model-checked

* Liveness, in all modules: `QueuedEventuallySent`, `ClosingEventuallyClosed`,
  `EventuallyDelivered`, `HangupEventuallyClosed`, `ConnectAnswered`,
  `ListenerProgress`, `ClosingEventuallyGone`, `StopEventuallyOver` and
  `AwokenEventuallyRead` need ENABLED and fairness, which are out of the prover's
  reach.
* UDP and ARP links: `NoTaskLeak`, `PopOnlySent`, `RealTimeOrder` and
  `ImplementsOrderedTx` are about TCP links, the last about one writer. The double
  pop of `udp_tx` breaks the first two; `TxUdp` shows the second violated. The
  passing runs of `TxPath` explore TCP links only; `TypeOK`, `FifoConsistent`,
  `NodeOwned` and `NoLostEdge` are proved for both.

Every other invariant, action property and refinement of the passing runs is
stated by a theorem.

## 5. What the models show about the code

Some of what the code does contradicts what the repository says of it; the rest
are behaviours it is silent about. Where a property has to stop short of either,
its comment says so, and it promises nothing beyond.

### Against the repository's own words

Shown by a run that violates the property:

* *A frame can be torn* (`TxTear`, `WholeFrames`). Two threads write one link. Both
  find it unblocked, for the flag is read under the lock and used after it
  (`tcp.c:729`); one sends a part of its frame, the buffer drains, the other sends.
  No EAGAIN is needed; after one there is a second window, until `fifo_queue`.
  The comment at `tcp.c:747` wants the order of the output preserved, and `README:64`
  the write after an EAGAIN left to EPOLLOUT. One writer, or a lock around the calls, keeps
  frames whole (`TxOneWriter`, `OneWriterOrdered`).
* *A datagram nobody has sent is dropped* (`TxUdp`, `PopOnlySent`). `udp_tx` and
  `arp_tx` pop the datagram they sent (`udpio.c:124`, `arpio.c:134`), then
  `__wp_exec` pops another (`wpool.c:103`). The comments want all pending data sent
  (`wpool.c:101`), in order (`udp.c:262`), and preserved until then (`fifo.h:25`). When
  `udp_tx` has popped the last one, the second pop finds nothing and the task
  is neither put back nor freed: `NoTaskLeak` is about TCP only.
* *The limit of descriptors closes the listener* (`ListenLimit`,
  `ListenerRetained`). The comment (`tcpio.c:39-41`) names the per-process and the
  system-wide limit and wants the listener retained; the cases below it list ENFILE
  and not EMFILE.

In the models, and excluded by name from the properties that would otherwise be
violated:

* *The length of a frame that is not built.* With `LINKATTR_TCP_NO_BUILD`, or a
  template without builder, the caller gives the length by `cb` (`tcp.c:677-678`) and
  `wcb` is the count of bytes to write (`fifo.h:8`), but `wcb` is `cb + cb_`
  (`tcp.c:726`): more than the buffer has. `FrameFits` is about frames that are built.
* *A `connect(2)` that succeeds at once* must be handled (`README:6`), and an
  attachment too late leaks the descriptor (`tcp.c:515-517`). `tcp_connect2` then runs
  `tcp_tx_syn` before `io_attach` (`tcp.c:506`): `io_modify` fails and the good
  connection is closed, or, if it was reset before, nothing ever releases it.
  `ConnectAnswered`, `HangupEventuallyClosed` and `ClosedForCause` say nothing of
  this case (`"immediate"`). For a connect in progress the late attachment does no
  harm, because EPOLL_CTL_ADD reports what has happened before
  (`HangupEventuallyClosed`).
* *`ncb_uninit` without memory* for its array closes no link (`ncb.c:36-39`) and does
  not tell; its comment (`ncb.c:15`) has it close all. `UninitComplete` holds when there
  was memory.
* *An outdated comment.* `tcp.c:427-428` warns that a close may be posted before
  connected. The reference `tcp_connect` holds prevents it: `CallbackOrder`
  (`ClosedIsLast`) holds for `tcp_connect` too.

### Where the repository is silent

*Output*

* Without memory for a task an EPOLLOUT edge is lost (`wpool.c:273`), and what
  waits for it waits until the next one. `NoLostEdge` names this step as the only
  one; `ConnectAnswered` excludes a connect whose task was lost, and
  `ClosedForCause` says nothing where memory may run out.

*Input*

* A large block whose header arrives in two reads loses the part that came first
  (`tcpal.c:113`): `DeliveredExactly` holds until such a header.
* EPOLLRDHUP closes a link before a last `recv(2)`: what came with the FIN may be
  lost, what had come when `tcp_rx` was called is not (`DueDelivered`).
* A datagram of no bytes closes a UDP link (`udpio.c:29`).

*Set-up*

* `tcp_connect` and `tcp_tx_syn` listen to EPOLLIN before they set `ncb_read`;
  the edge of early data is spent and the data stays unread until more comes.
  `__tcp_syn_dpc` does it in the safe order (`NoUnheardInput`).
* A failed `tcp_connect2` leaves `ncb_write = tcp_tx_syn`, so later calls for the
  link are refused.
* After ENFILE, ENOBUFS or ENOMEM the connections left in the backlog wait until
  another one arrives (`tcpio.c:47`): `NoLostAccept` and `ListenerProgress` stop there.

*Links*

* `*_destroy` closes the descriptor under a handler that has loaded its number,
  which may then read the socket of another link (`SocketsApart`).
* A create call that fails after `objallo` calls back for a handle no call has
  returned (`tcp.c:178`); an unknown command of `nis_cntl` keeps its reference
  for ever (`mxx.c:231`; `ClosingEventuallyGone` excludes it).
* `udp_uninit` closes links of protocol UDP: ARP links outlive it. The log of
  `ncb_uninit` reads a list entry after the lock is released (`ncb.c:55`), which
  another thread may have freed: `UninitComplete` only says that `ncb_uninit` has not
  done so itself.

*Start and stop*

* EALREADY comes before the first init is done and during a stop; a user who
  relies on it may meet a part without divisions (`io.c:387`).
* A pool whose thread was not created keeps its handle and `actived`.
* A destructor run by one of the object's own threads joins itself; two of them
  can join each other (`Crossed`). The pool thread drops the task it took when
  it was told to stop.
* The objects of the pipes are not in the list of links and are not released by
  a stop; each start makes new ones.

*Pipes and settings*

* A pipe may be attached to another division than the one it serves: the user's
  callback can then run on two threads at once (`CallbackOrder`). The buffer of a
  pipe message is not freed.
* `tcp_settst` and `|=` on attributes are not atomic: overlapping calls mix
  templates and lose attributes (`SettingsKept`, `ReadsWhole`).
* A second `udp_joingrp` overwrites the first group's block, which the link can
  then not leave; without memory the call returns 0; the block is not freed with
  the link.
* `NI_GETCTX` stores an unset variable to `prcontext`.

## 6. What is not modelled

* The contents of packets beyond the head and the body's length, and the layout of
  ARP frames: the control depends on sizes only.
* Socket options, address queries, keepalive and window sizes: one system call
  under a reference, no state another call reads. Names, interfaces, version and
  logging: pure input and output.
* `echo/`: an example.
* `tcp_rx_syn` and `__tcp_check_connection`: nothing calls them.
* A second connect of a link after a failed one, other than that it is refused.
* Memory ordering: the atomic operations and locks of the code are taken as
  sequentially consistent.
* The several divisions of an epoll object in `LibLife`: they are alike and start
  and stop together, so one stands for all.

## 7. Plan

Done: all modules of section 2, and a theorem for each property of section 3
that is not about liveness. What is left:

1. Composition of the set-up and the transmit path: what a write on a link that
   is still connecting does.
2. A weaker order for several writers: which messages of one writer stay in order
   when others tear them.
3. Runs of their own for the two disagreements of section 5 that have none: the
   frame that is not built, and the connect that succeeds at once.
