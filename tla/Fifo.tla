-------------------------------- MODULE Fifo --------------------------------
(***************************************************************************)
(* The send queue of one link: struct tx_fifo of ncb.h and the operations  *)
(* of fifo.c.  Every operation of fifo.c runs under fifo->lock, so each is *)
(* one step of the modules that use them; the operators here give the new  *)
(* value of the record.  A struct tx_node is represented by the message it *)
(* carries.                                                                *)
(***************************************************************************)
EXTENDS Naturals, Sequences

CONSTANT MAXIMUM_FIFO_SIZE      \* fifo.c: 100

ASSUME FifoAssumption == MAXIMUM_FIFO_SIZE \in Nat \ {0}

(* fifo.blocking, fifo.size and fifo.head of ncb.h; Node is the set of     *)
(* nodes.                                                                  *)
tx_fifo(Node) == [blocking : {0, 1}, size : 0 .. MAXIMUM_FIFO_SIZE,
                  head : Seq(Node)]

fifo_init == [blocking |-> 0, size |-> 0, head |-> << >>]

(* A faulty variant of the check: one node too many.                       *)
fifo_is_full_late(f) == f.size > MAXIMUM_FIFO_SIZE

(* The early return of fifo_queue: the caller gets -EBUSY.                 *)
fifo_is_full(f) == f.size >= MAXIMUM_FIFO_SIZE

fifo_is_blocking(f) == f.blocking # 0

fifo_is_empty(f) == f.head = << >>

fifo_top(f) == Head(f.head)

(* A faulty variant: list_add instead of list_add_tail.                    *)
fifo_queue_head(f, node) ==
    [blocking |-> 1, size |-> f.size + 1, head |-> <<node>> \o f.head]

(* fifo_queue once the size check has passed and io_modify, called when    *)
(* the blocking flag is clear, has succeeded.                              *)
fifo_queue(f, node) ==
    [blocking |-> 1, size |-> f.size + 1, head |-> Append(f.head, node)]

(* A faulty variant: the blocking flag stays.                              *)
fifo_pop_sticky(f) ==
    [blocking |-> f.blocking, size |-> f.size - 1, head |-> Tail(f.head)]

(* fifo_pop of a non-empty queue: the blocking flag falls with the last    *)
(* node (and EPOLLOUT interest is dropped, see LastPop).                   *)
fifo_pop(f) ==
    [blocking |-> IF f.size = 1 THEN 0 ELSE f.blocking,
     size |-> f.size - 1, head |-> Tail(f.head)]

LastPop(f) == f.size = 1 /\ f.blocking = 1

(* fifo_uninit frees the nodes and leaves the other fields as they are.    *)
fifo_uninit(f) ==
    [blocking |-> f.blocking, size |-> f.size, head |-> << >>]
=============================================================================
