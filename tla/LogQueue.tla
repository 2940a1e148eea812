------------------------------ MODULE LogQueue -------------------------------
(***************************************************************************)
(* The string queue of utils.c (queue_push, queue_popup), the producers    *)
(* that fill it (spy.c, buf_printf) and the thread that empties it         *)
(* (spy.c, trans_buff) until stop_trans is called.                         *)
(*                                                                         *)
(* A step is one access to shared memory: the mutex is what makes the      *)
(* operations atomic, it is not assumed.  A string_buffer_chain and the    *)
(* string it points to are one node; malloc and free are modelled because  *)
(* nodes are reused.                                                       *)
(***************************************************************************)
EXTENDS Naturals, Sequences, FiniteSets

CONSTANTS Producers,  (* the threads that call buf_printf                  *)
          Nodes,      (* the nodes malloc can return                       *)
          trans,      (* the thread that runs trans_buff                   *)
          NULL

ASSUME ThreadsAssumption == trans \notin Producers /\ NULL \notin Producers
ASSUME NullAssumption == NULL \notin Nodes /\ NULL # trans

VARIABLES
  top_of_queue, end_of_queue,
  next,           (* the next field of every node                          *)
  allocated,      (* the nodes malloc has returned and nobody has freed    *)
  queue_mutex,    (* the thread that holds the mutex, or NULL              *)
  pc,             (* where each producer is                                *)
  node,           (* the node each producer is pushing (`data')            *)
  trans_pc,       (* where trans_buff is                                   *)
  ret,            (* the local variable of queue_popup, then _log          *)
  trans_running,
  fifo            (* history: the nodes pushed and not popped, in order    *)

prodVars == <<pc, node>>
consVars == <<trans_pc, ret>>
listVars == <<top_of_queue, end_of_queue, next>>
vars == <<listVars, allocated, queue_mutex, prodVars, consVars,
          trans_running, fifo>>

Pointers == Nodes \cup {NULL}
ProducerPc == {"idle", "lock", "link", "tail", "unlock"}
TransPc == {"check", "lock", "read", "advance", "trim", "unlock", "send",
            "free", "done"}

TypeOK ==
  /\ top_of_queue \in Pointers /\ end_of_queue \in Pointers
  /\ next \in [Nodes -> Pointers]
  /\ allocated \subseteq Nodes
  /\ queue_mutex \in Producers \cup {trans, NULL}
  /\ pc \in [Producers -> ProducerPc]
  /\ node \in [Producers -> Pointers]
  /\ trans_pc \in TransPc
  /\ ret \in Pointers
  /\ trans_running \in BOOLEAN
  /\ fifo \in Seq(Nodes)

Init ==
  /\ top_of_queue = NULL /\ end_of_queue = NULL
  /\ next = [n \in Nodes |-> NULL]
  /\ allocated = {}
  /\ queue_mutex = NULL
  /\ pc = [p \in Producers |-> "idle"]
  /\ node = [p \in Producers |-> NULL]
  /\ trans_pc = "check"
  /\ ret = NULL
  /\ trans_running = TRUE
  /\ fifo = <<>>

Goto(p, l) == pc' = [pc EXCEPT ![p] = l]
TransGoto(l) == trans_pc' = l

-----------------------------------------------------------------------------
(* Faulty variants: each is the definition it is named after with one      *)
(* plausible slip in the C; a property must fail when it takes its place.  *)

(* no _log->next=NULL (spy.c:33)                                           *)
NewNodeUninitialised(p) ==
  /\ pc[p] = "idle"
  /\ \E n \in Nodes \ allocated :
       /\ allocated' = allocated \cup {n}
       /\ node' = [node EXCEPT ![p] = n]
       /\ next' = [next EXCEPT ![n] = "indeterminate"]
  /\ Goto(p, "lock")
  /\ UNCHANGED <<top_of_queue, end_of_queue, queue_mutex, consVars,
                 trans_running, fifo>>

(* the node is put in front of the list instead of behind it               *)
PushLinkInFront(p) ==
  /\ pc[p] = "link"
  /\ top_of_queue' = node[p]
  /\ next' = [next EXCEPT ![node[p]] = top_of_queue]
  /\ Goto(p, "tail")
  /\ UNCHANGED <<end_of_queue, allocated, queue_mutex, node, consVars,
                 trans_running, fifo>>

(* no end_of_queue=data (utils.c:171)                                      *)
PushKeepsTail(p) ==
  /\ pc[p] = "tail"
  /\ Goto(p, "unlock")
  /\ UNCHANGED <<listVars, allocated, queue_mutex, node, consVars,
                 trans_running, fifo>>

(* no end_of_queue=NULL when the last node is taken (utils.c:179-181)      *)
PopKeepsTail ==
  /\ trans_pc = "trim"
  /\ TransGoto("unlock")
  /\ UNCHANGED <<listVars, allocated, queue_mutex, prodVars, ret,
                 trans_running, fifo>>

(* trans_buff empties the queue before it looks at trans_running           *)
CheckRunningAfterDrain ==
  /\ trans_pc = "check"
  /\ TransGoto(IF trans_running \/ fifo # <<>> THEN "lock" ELSE "done")
  /\ UNCHANGED <<listVars, allocated, queue_mutex, prodVars, ret,
                 trans_running, fifo>>

(* the node is freed once more, before it is transmitted                   *)
TransmitFreed ==
  /\ trans_pc = "send"
  /\ allocated' = allocated \ {ret}
  /\ TransGoto("free")
  /\ UNCHANGED <<listVars, queue_mutex, prodVars, ret, trans_running, fifo>>

-----------------------------------------------------------------------------
(* buf_printf and queue_push, one producer p.                              *)

(* malloc of a node, _log->next = NULL                                     *)
NewNode(p) ==
  /\ pc[p] = "idle"
  /\ \E n \in Nodes \ allocated :
       /\ allocated' = allocated \cup {n}
       /\ node' = [node EXCEPT ![p] = n]
       /\ next' = [next EXCEPT ![n] = NULL]
  /\ Goto(p, "lock")
  /\ UNCHANGED <<top_of_queue, end_of_queue, queue_mutex, consVars,
                 trans_running, fifo>>

PushLock(p) ==
  /\ pc[p] = "lock"
  /\ queue_mutex = NULL
  /\ queue_mutex' = p
  /\ Goto(p, "link")
  /\ UNCHANGED <<listVars, allocated, node, consVars, trans_running, fifo>>

PushLink(p) ==
  /\ pc[p] = "link"
  /\ IF end_of_queue = NULL
     THEN top_of_queue' = node[p] /\ UNCHANGED next
     ELSE next' = [next EXCEPT ![end_of_queue] = node[p]]
          /\ UNCHANGED top_of_queue
  /\ Goto(p, "tail")
  /\ UNCHANGED <<end_of_queue, allocated, queue_mutex, node, consVars,
                 trans_running, fifo>>

PushTail(p) ==
  /\ pc[p] = "tail"
  /\ end_of_queue' = node[p]
  /\ Goto(p, "unlock")
  /\ UNCHANGED <<top_of_queue, next, allocated, queue_mutex, node, consVars,
                 trans_running, fifo>>

PushUnlock(p) ==
  /\ pc[p] = "unlock"
  /\ queue_mutex' = NULL
  /\ fifo' = Append(fifo, node[p])
  /\ node' = [node EXCEPT ![p] = NULL]
  /\ Goto(p, "idle")
  /\ UNCHANGED <<listVars, allocated, consVars, trans_running>>

-----------------------------------------------------------------------------
(* trans_buff, with queue_popup inside its loop.                           *)

CheckRunning ==
  /\ trans_pc = "check"
  /\ TransGoto(IF trans_running THEN "lock" ELSE "done")
  /\ UNCHANGED <<listVars, allocated, queue_mutex, prodVars, ret,
                 trans_running, fifo>>

PopLock ==
  /\ trans_pc = "lock"
  /\ queue_mutex = NULL
  /\ queue_mutex' = trans
  /\ TransGoto("read")
  /\ UNCHANGED <<listVars, allocated, prodVars, ret, trans_running, fifo>>

PopRead ==
  /\ trans_pc = "read"
  /\ ret' = top_of_queue
  /\ TransGoto(IF top_of_queue = NULL THEN "unlock" ELSE "advance")
  /\ UNCHANGED <<listVars, allocated, queue_mutex, prodVars, trans_running,
                 fifo>>

PopAdvance ==
  /\ trans_pc = "advance"
  /\ top_of_queue' = next[top_of_queue]
  /\ TransGoto("trim")
  /\ UNCHANGED <<end_of_queue, next, allocated, queue_mutex, prodVars, ret,
                 trans_running, fifo>>

PopTrim ==
  /\ trans_pc = "trim"
  /\ end_of_queue' = IF top_of_queue = NULL THEN NULL ELSE end_of_queue
  /\ TransGoto("unlock")
  /\ UNCHANGED <<top_of_queue, next, allocated, queue_mutex, prodVars, ret,
                 trans_running, fifo>>

PopUnlock ==
  /\ trans_pc = "unlock"
  /\ queue_mutex' = NULL
  /\ IF ret = NULL
     THEN TransGoto("check") /\ UNCHANGED fifo
     ELSE TransGoto("send") /\ fifo' = Tail(fifo)
  /\ UNCHANGED <<listVars, allocated, prodVars, ret, trans_running>>

(* do_trans(_log->data); what it does with the string is module Transport  *)
Transmit ==
  /\ trans_pc = "send"
  /\ TransGoto("free")
  /\ UNCHANGED <<listVars, allocated, queue_mutex, prodVars, ret,
                 trans_running, fifo>>

FreeNode ==
  /\ trans_pc = "free"
  /\ allocated' = allocated \ {ret}
  /\ ret' = NULL
  /\ TransGoto("check")
  /\ UNCHANGED <<listVars, queue_mutex, prodVars, trans_running, fifo>>

(* called by main.c's CatchShutdown; the queue is left as it is            *)
stop_trans ==
  /\ trans_running' = FALSE
  /\ UNCHANGED <<listVars, allocated, queue_mutex, prodVars, consVars, fifo>>

Push(p) ==
  NewNode(p) \/ PushLock(p) \/ PushLink(p) \/ PushTail(p) \/ PushUnlock(p)

trans_buff ==
  \/ CheckRunning \/ PopLock \/ PopRead \/ PopAdvance \/ PopTrim \/ PopUnlock
  \/ Transmit \/ FreeNode

Next == (\E p \in Producers : Push(p)) \/ trans_buff \/ stop_trans

Spec == Init /\ [][Next]_vars

-----------------------------------------------------------------------------
(* The list.                                                               *)

NodesOf(s) == {s[i] : i \in 1..Len(s)}
Oldest(s) == IF s = <<>> THEN NULL ELSE s[1]
Newest(s) == IF s = <<>> THEN NULL ELSE s[Len(s)]

(* Whenever nobody holds the mutex the two pointers and the next fields    *)
(* spell exactly the nodes pushed and not yet popped, in order.            *)
ListIntact ==
  queue_mutex = NULL =>
    /\ top_of_queue = Oldest(fifo)
    /\ end_of_queue = Newest(fifo)
    /\ \A i \in 1..Len(fifo) :
         next[fifo[i]] = IF i = Len(fifo) THEN NULL ELSE fifo[i + 1]

(* A node belongs to one producer, to the list, or to trans_buff, never to *)
(* two of them, and it is not freed while any of them can still reach it.  *)
OneOwner ==
  /\ \A p, q \in Producers : p # q /\ node[p] # NULL => node[p] # node[q]
  /\ \A p \in Producers : node[p] # NULL =>
       node[p] \in allocated \ NodesOf(fifo)
  /\ NodesOf(fifo) \subseteq allocated
  /\ \A i, j \in 1..Len(fifo) : fifo[i] = fifo[j] => i = j
  /\ trans_pc \in {"send", "free"} =>
       /\ ret \in allocated \ NodesOf(fifo)
       /\ \A p \in Producers : ret # node[p]

(* The node trans_buff has been given, once queue_popup has returned.      *)
InHand == IF trans_pc \in {"send", "free"} THEN ret ELSE NULL

(* queue_push and queue_popup behave as the atomic queue of FifoQueue.     *)
Fifo == INSTANCE FifoQueue WITH
          Items <- Nodes, None <- NULL, queue <- fifo, hand <- InHand
RefinesFifo == Fifo!Spec

=============================================================================
