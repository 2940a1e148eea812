---------------------------- MODULE ServerProofs -----------------------------
(***************************************************************************)
(* Proofs about ServerSlots and the whole server, for any number of        *)
(* connections, slots and threads: clients are never mixed up and no       *)
(* descriptor is lost, although the table of slots has no lock; which      *)
(* slots are lost, that no buffer is before one is handed out too early,   *)
(* and what every other memory fault comes from; that what ServerSlots     *)
(* promises is kept by the program that starts it, polls its configuration *)
(* beside it and shuts it down; and when a shutdown joins a polling thread *)
(* that is not there.                                                      *)
(***************************************************************************)
EXTENDS ServerProgram, FiniteSetTheorems, TLAPS

-----------------------------------------------------------------------------
(* The inductive invariant.                                                *)

ThreadsTyped == pc[main] \in MainPc /\ \A c \in Conns : pc[c] \in ThreadPc

(* A slot that is taken belongs to one connection, whose thread has not    *)
(* been created or has not given the slot back.                            *)
Table ==
  /\ \A s, k \in Slots : t[s] # NULL /\ t[s] = t[k] => s = k
  /\ \A s \in Slots : t[s] # NULL => pc[t[s]] = "none" \/ Serving(t[s])
  /\ \A s \in Slots : sock[s] # NULL => sock[s] = t[s]

(* what each thread finds in its slot, by its place                        *)
ThreadHolds ==
  \A c \in Conns :
    /\ Serving(c) => arg[c] \in Slots /\ t[arg[c]] = c
    /\ Reading(c) => sock[arg[c]] = c /\ conn[c] = "open"
    /\ pc[c] = "clear_sock" => sock[arg[c]] = c /\ conn[c] = "closed"
    /\ pc[c] \in {"stop", "free_t", "clear_t"} => sock[arg[c]] = NULL

(* Only what was accepted is in the table, and what is open is there or in *)
(* main's hands.                                                           *)
Unaccepted(c) == conn[c] \in {"new", "backlog", "reset"}
Kernel ==
  /\ \A c \in Conns : Unaccepted(c) =>
       pc[c] = "none" /\ cur # c /\ \A s \in Slots : t[s] # c
  /\ \A s \in Slots :
       sock[s] # NULL /\ pc[sock[s]] = "none" => conn[sock[s]] = "open"
  /\ \A c \in Conns :
       conn[c] = "open" => cur = c \/ \E s \in Slots : sock[s] = c

(* what main has accepted, and how far it is with filling in a slot        *)
MainHolds ==
  /\ pc[main] \in {"listen", "accept"} => cur = NULL
  /\ pc[main] \in {"unlisten", "refuse"} \cup SetupPc =>
       cur \in Conns /\ pc[cur] = "none" /\ conn[cur] = "open"
  /\ pc[main] \in {"unlisten", "refuse", "new_t"} => \A s \in Slots : t[s] # cur
  /\ pc[main] \in SetupPc \ {"new_t"} => t[arg[main]] = cur
  /\ pc[main] \in {"new_pre", "init_pre", "set_sock"} => sock[arg[main]] = NULL
  /\ pc[main] = "create" => sock[arg[main]] = cur

(* When the handler gets to _stopThread, the slot is already given back.   *)
HandlerHolds ==
  /\ pc[main] \in StopPc => t[arg[main]] = NULL
  /\ pc[main] \notin {"clear_sock", "free_t", "clear_t"}
  /\ pc[main] = "h_wait" =>
       /\ joining \in Conns /\ pc[joining] # "none"
       /\ t[arg[main]] \in {joining, NULL}

Owned == Table /\ ThreadHolds /\ Kernel
Inv == TypeOK /\ ThreadsTyped /\ Owned /\ MainHolds /\ HandlerHolds

(* Facts that many steps need.                                             *)
PointersTyped ==
  \A s \in Slots : t[s] \in Conns \cup {NULL} /\ sock[s] \in Conns \cup {NULL}
SamePlace(d) == (Serving(d)' <=> Serving(d)) /\ (Reading(d)' <=> Reading(d))

USE ConnsAssumption, SlotsAssumption DEF Procs, PointersTyped, SamePlace

-----------------------------------------------------------------------------
(* Lemmas about moves.                                                     *)

(* main goes on; the threads stay where they are.                          *)
LEMMA MainMoves ==
  ASSUME TypeOK, ThreadsTyped, NEW l \in MainPc, Goto(main, l)
  PROVE  /\ pc' \in [Procs -> ThreadPc \cup MainPc] /\ ThreadsTyped'
         /\ pc'[main] = l /\ \A c \in Conns : pc'[c] = pc[c]
BY DEF TypeOK, ThreadsTyped, Goto

(* A thread goes on; main and the others stay where they are.              *)
LEMMA ThreadMoves ==
  ASSUME TypeOK, ThreadsTyped, NEW c \in Conns, NEW l \in ThreadPc, Goto(c, l)
  PROVE  /\ pc' \in [Procs -> ThreadPc \cup MainPc] /\ ThreadsTyped'
         /\ pc'[c] = l /\ \A x \in Procs \ {c} : pc'[x] = pc[x]
BY DEF TypeOK, ThreadsTyped, Goto

(* What the table and the threads have is not touched by main's steps.     *)
LEMMA OwnedFrame ==
  ASSUME Owned, t' = t, sock' = sock, conn' = conn, cur' = cur,
         \A c \in Conns : pc'[c] = pc[c] /\ arg'[c] = arg[c],
         TypeOK
  PROVE  Owned'
<1>1. PointersTyped
  BY DEF TypeOK
<1>2. \A c \in Conns : SamePlace(c)
  BY DEF Serving, Reading
<1>3. Table'
  BY <1>1, <1>2 DEF Owned, Table
<1>4. ThreadHolds'
  BY <1>1, <1>2 DEF Owned, ThreadHolds
<1>5. Kernel'
  BY <1>1 DEF Owned, Kernel, Unaccepted
<1> QED
  BY <1>3, <1>4, <1>5 DEF Owned

(* A thread that goes on without touching its slot.                        *)
Onward(c) ==
  \/ Reading(c) /\ Reading(c)'
  \/ pc[c] \in {"stop", "free_t"} /\ pc'[c] \in {"free_t", "clear_t"}
  \/ /\ pc[c] \in {"test_pre", "free_pre", "clear_pre"}
     /\ pc'[c] \in {"free_pre", "clear_pre", "done"}

(* A thread that goes on without touching the table keeps it.              *)
LEMMA ThreadFrame ==
  ASSUME TypeOK, Owned, MainHolds, HandlerHolds, NEW c \in Conns, Onward(c),
         t' = t, sock' = sock, conn' = conn, cur' = cur, joining' = joining,
         arg' = arg, \A x \in Procs \ {c} : pc'[x] = pc[x]
  PROVE  Owned' /\ MainHolds' /\ HandlerHolds'
<1>1. PointersTyped
  BY DEF TypeOK
<1>2. \A d \in Conns \ {c} : SamePlace(d)
  BY DEF Serving, Reading
<1>3. /\ Serving(c)' <=> Serving(c)
      /\ Reading(c)' <=> Reading(c)
      /\ pc[c] # "none" /\ pc'[c] # "none" /\ pc'[c] # "clear_sock"
  BY DEF Onward, Serving, Reading
<1>4. Table'
  BY <1>1, <1>2, <1>3 DEF Owned, Table
<1>5. ThreadHolds'
  <2>1. pc'[c] \in {"stop", "free_t", "clear_t"} => pc[c] \in {"stop", "free_t", "clear_t"}
    BY DEF Onward, Reading
  <2> QED
    BY <1>2, <1>3, <2>1 DEF Owned, ThreadHolds
<1>6. Kernel'
  BY <1>1, <1>3 DEF Owned, Kernel, Unaccepted
<1>7. MainHolds'
  BY <1>3 DEF MainHolds
<1>8. HandlerHolds'
  BY <1>3 DEF HandlerHolds
<1> QED
  BY <1>4, <1>5, <1>6, <1>7, <1>8 DEF Owned

-----------------------------------------------------------------------------
(* One lemma for each step of a thread, and of the handler.                *)

(* A thread that reads keeps its slot and its connection.                  *)
LEMMA ReadingStep ==
  ASSUME Inv, NEW c \in Conns, Start(c) \/ RecvChunk(c) \/ RecvEnd(c) \/ Check(c)
  PROVE  Inv'
<1>0. TypeOK /\ ThreadsTyped /\ Owned /\ MainHolds /\ HandlerHolds
  BY DEF Inv
<1>1. PICK l \in {"recv", "check", "close"} :
        Goto(c, l) /\ pc[c] \in {"start", "recv", "check"}
  BY DEF Start, RecvChunk, RecvEnd, Check, At
<1>2. /\ pc' \in [Procs -> ThreadPc \cup MainPc] /\ ThreadsTyped'
      /\ pc'[c] = l /\ \A x \in Procs \ {c} : pc'[x] = pc[x]
  BY <1>0, <1>1, ThreadMoves DEF ThreadPc, StopPc
<1>3. /\ t' = t /\ sock' = sock /\ pre_read_buff' = pre_read_buff /\ arg' = arg
      /\ cur' = cur /\ joining' = joining /\ cells' = cells
      /\ buffers' = buffers /\ conn' = conn /\ peer' = peer /\ fault' = fault
      /\ reused' = reused
  BY DEF Start, RecvChunk, RecvEnd, Check, slotVars, heapVars, netVars
<1>4. running' \in [Slots -> BOOLEAN]
  BY <1>0 DEF TypeOK, Start, RecvChunk, RecvEnd, Check, slotVars
<1>5. TypeOK'
  BY <1>0, <1>2, <1>3, <1>4 DEF TypeOK
<1>6. Onward(c)
  BY <1>1, <1>2 DEF Onward, Reading
<1> QED
  BY <1>0, <1>2, <1>3, <1>5, <1>6, ThreadFrame DEF Inv

(* A thread closes its own connection, which is open.                      *)
LEMMA ThreadCloses ==
  ASSUME Inv, NEW c \in Conns, Close(c)
  PROVE  Inv' /\ fault' = fault
<1>0. TypeOK /\ ThreadsTyped /\ Owned /\ MainHolds /\ HandlerHolds
  BY DEF Inv
<1>1. /\ pc[c] = "close" /\ arg[c] \in Slots
      /\ t[arg[c]] = c /\ sock[arg[c]] = c /\ conn[c] = "open"
  BY <1>0 DEF Close, At, Owned, ThreadHolds, Serving, Reading
<1>2. /\ conn' = [conn EXCEPT ![c] = "closed"] /\ Goto(c, "clear_sock")
      /\ fault' = fault
      /\ t' = t /\ sock' = sock /\ running' = running
      /\ pre_read_buff' = pre_read_buff /\ arg' = arg
      /\ cur' = cur /\ joining' = joining /\ cells' = cells
      /\ buffers' = buffers /\ peer' = peer /\ reused' = reused
  BY <1>1 DEF Close, slotVars, heapVars
<1>3. /\ pc' \in [Procs -> ThreadPc \cup MainPc] /\ ThreadsTyped'
      /\ pc'[c] = "clear_sock" /\ \A x \in Procs \ {c} : pc'[x] = pc[x]
  BY <1>0, <1>2, ThreadMoves DEF ThreadPc, StopPc
<1>4. /\ conn'[c] = "closed" /\ \A d \in Conns \ {c} : conn'[d] = conn[d]
      /\ conn' \in [Conns -> ConnStates]
  BY <1>0, <1>2 DEF TypeOK, ConnStates
<1>5. TypeOK'
  BY <1>0, <1>2, <1>3, <1>4 DEF TypeOK
<1>6. /\ \A d \in Conns \ {c} : SamePlace(d)
      /\ Serving(c) /\ Serving(c)' /\ ~Reading(c)'
  BY <1>1, <1>3 DEF Serving, Reading
<1>7. PointersTyped
  BY <1>0 DEF TypeOK
<1>8. Table' /\ ThreadHolds'
  BY <1>0, <1>1, <1>2, <1>3, <1>4, <1>6, <1>7 DEF Owned, Table, ThreadHolds
<1>9. Kernel'
  BY <1>0, <1>1, <1>2, <1>3, <1>4, <1>7 DEF Owned, Kernel, Unaccepted
<1>10. MainHolds' /\ HandlerHolds'
  BY <1>0, <1>1, <1>2, <1>3, <1>4 DEF MainHolds, HandlerHolds
<1> QED
  BY <1>2, <1>3, <1>5, <1>8, <1>9, <1>10 DEF Inv, Owned

(* sock=0: the slot no longer knows the closed descriptor.                 *)
LEMMA ThreadClearsSock ==
  ASSUME Inv, NEW c \in Conns, ClearSock(c)
  PROVE  Inv'
<1>0. TypeOK /\ ThreadsTyped /\ Owned /\ MainHolds /\ HandlerHolds
  BY DEF Inv
<1>1. /\ pc[c] = "clear_sock" /\ arg[c] \in Slots
      /\ t[arg[c]] = c /\ sock[arg[c]] = c /\ conn[c] = "closed"
  BY <1>0 DEF ClearSock, At, Owned, ThreadHolds, Serving
<1>2. /\ sock' = [sock EXCEPT ![arg[c]] = NULL] /\ Goto(c, "stop")
      /\ t' = t /\ running' = running /\ pre_read_buff' = pre_read_buff
      /\ arg' = arg /\ cur' = cur /\ joining' = joining /\ cells' = cells
      /\ buffers' = buffers /\ conn' = conn /\ peer' = peer /\ fault' = fault
      /\ reused' = reused
  BY DEF ClearSock, heapVars, netVars
<1>3. /\ pc' \in [Procs -> ThreadPc \cup MainPc] /\ ThreadsTyped'
      /\ pc'[c] = "stop" /\ \A x \in Procs \ {c} : pc'[x] = pc[x]
  BY <1>0, <1>2, ThreadMoves DEF ThreadPc, StopPc
<1>4. /\ sock'[arg[c]] = NULL /\ \A s \in Slots \ {arg[c]} : sock'[s] = sock[s]
      /\ sock' \in [Slots -> Conns \cup {NULL}]
  BY <1>0, <1>1, <1>2 DEF TypeOK
<1>5. TypeOK'
  BY <1>0, <1>2, <1>3, <1>4 DEF TypeOK
<1>6. /\ \A d \in Conns \ {c} : SamePlace(d)
      /\ Serving(c) /\ Serving(c)' /\ ~Reading(c)'
  BY <1>1, <1>3 DEF Serving, Reading
<1>7. PointersTyped
  BY <1>0 DEF TypeOK
<1>8. Table' /\ ThreadHolds'
  BY <1>0, <1>1, <1>2, <1>3, <1>4, <1>6, <1>7 DEF Owned, Table, ThreadHolds
<1>9. Kernel'
  BY <1>0, <1>1, <1>2, <1>3, <1>4, <1>7 DEF Owned, Kernel, Unaccepted
<1>10. MainHolds' /\ HandlerHolds'
  <2>1. pc[main] \in SetupPc \ {"new_t"} => arg[main] \in Slots
    BY <1>0 DEF TypeOK, SetupPc
  <2>2. pc[main] = "create" => arg[main] # arg[c]
    BY <1>0, <1>1 DEF MainHolds, SetupPc
  <2>3. MainHolds'
    BY <1>0, <1>1, <1>2, <1>3, <1>4, <2>1, <2>2 DEF MainHolds, SetupPc
  <2>4. HandlerHolds'
    BY <1>0, <1>1, <1>2, <1>3 DEF HandlerHolds
  <2> QED
    BY <2>3, <2>4
<1> QED
  BY <1>3, <1>5, <1>8, <1>9, <1>10 DEF Inv, Owned

(* A thread clears running and frees its own cell.                         *)
LEMMA ThreadStops ==
  ASSUME Inv, NEW c \in Conns, Stop(c) \/ FreeT(c)
  PROVE  Inv'
<1>0. TypeOK /\ ThreadsTyped /\ Owned /\ MainHolds /\ HandlerHolds
  BY DEF Inv
<1>1. /\ pc[c] \in {"stop", "free_t"} /\ arg[c] \in Slots /\ t[arg[c]] = c
  BY <1>0 DEF Stop, FreeT, At, Owned, ThreadHolds, Serving
<1>2. /\ t' = t /\ sock' = sock /\ pre_read_buff' = pre_read_buff /\ arg' = arg
      /\ cur' = cur /\ joining' = joining /\ buffers' = buffers
      /\ conn' = conn /\ peer' = peer /\ reused' = reused
  BY <1>1 DEF Stop, FreeT, slotVars, heapVars, netVars
<1>3. /\ running' \in [Slots -> BOOLEAN] /\ cells' \subseteq Conns
      /\ fault' \in Faults
  BY <1>0 DEF TypeOK, Stop, FreeT, slotVars, heapVars, Fault, Faults
<1>4. \/ UNCHANGED pc
      \/ Goto(c, "free_t") \/ Goto(c, "clear_t")
  BY <1>1 DEF Stop, FreeT, Fault
<1>5. CASE UNCHANGED pc
  <2>1. TypeOK' /\ ThreadsTyped'
    BY <1>0, <1>2, <1>3, <1>5 DEF TypeOK, ThreadsTyped
  <2>2. Owned'
    BY <1>0, <1>2, <1>5, OwnedFrame
  <2>3. MainHolds' /\ HandlerHolds'
    BY <1>0, <1>2, <1>5 DEF MainHolds, HandlerHolds
  <2> QED
    BY <2>1, <2>2, <2>3 DEF Inv
<1>6. ASSUME NEW l \in {"free_t", "clear_t"}, Goto(c, l) PROVE Inv'
  <2>1. /\ pc' \in [Procs -> ThreadPc \cup MainPc] /\ ThreadsTyped'
        /\ pc'[c] = l /\ \A x \in Procs \ {c} : pc'[x] = pc[x]
    BY <1>0, <1>6, ThreadMoves DEF ThreadPc, StopPc
  <2>2. TypeOK'
    BY <1>0, <1>2, <1>3, <2>1 DEF TypeOK
  <2>3. Onward(c)
    BY <1>1, <2>1 DEF Onward
  <2> QED
    BY <1>0, <1>2, <2>1, <2>2, <2>3, ThreadFrame DEF Inv
<1> QED
  BY <1>4, <1>5, <1>6

(* A thread gives its slot back: only now may main hand it out again.      *)
LEMMA ThreadClearsT ==
  ASSUME Inv, NEW c \in Conns, ClearT(c)
  PROVE  Inv'
<1>0. TypeOK /\ ThreadsTyped /\ Owned /\ MainHolds /\ HandlerHolds
  BY DEF Inv
<1>1. /\ pc[c] = "clear_t" /\ arg[c] \in Slots
      /\ t[arg[c]] = c /\ sock[arg[c]] = NULL
  BY <1>0 DEF ClearT, At, Owned, ThreadHolds, Serving
<1>2. /\ t' = [t EXCEPT ![arg[c]] = NULL] /\ Goto(c, "test_pre")
      /\ sock' = sock /\ running' = running /\ pre_read_buff' = pre_read_buff
      /\ arg' = arg /\ cur' = cur /\ joining' = joining /\ cells' = cells
      /\ buffers' = buffers /\ conn' = conn /\ peer' = peer /\ fault' = fault
      /\ reused' = reused
  BY DEF ClearT, heapVars, netVars
<1>3. /\ pc' \in [Procs -> ThreadPc \cup MainPc] /\ ThreadsTyped'
      /\ pc'[c] = "test_pre" /\ \A x \in Procs \ {c} : pc'[x] = pc[x]
  BY <1>0, <1>2, ThreadMoves DEF ThreadPc, StopPc
<1>4. /\ t'[arg[c]] = NULL /\ \A s \in Slots \ {arg[c]} : t'[s] = t[s]
      /\ t' \in [Slots -> Conns \cup {NULL}]
  BY <1>0, <1>1, <1>2 DEF TypeOK
<1>5. TypeOK'
  BY <1>0, <1>2, <1>3, <1>4 DEF TypeOK
<1>6. /\ \A d \in Conns \ {c} : SamePlace(d)
      /\ Serving(c) /\ ~Serving(c)' /\ ~Reading(c)'
  BY <1>1, <1>3 DEF Serving, Reading
<1>7. PointersTyped
  BY <1>0 DEF TypeOK
<1>8. Table'
  BY <1>0, <1>1, <1>2, <1>3, <1>4, <1>6, <1>7 DEF Owned, Table
<1>9. ThreadHolds'
  BY <1>0, <1>1, <1>2, <1>3, <1>4, <1>6, <1>7 DEF Owned, Table, ThreadHolds
<1>10. Kernel'
  BY <1>0, <1>1, <1>2, <1>3, <1>4, <1>7 DEF Owned, Kernel, Unaccepted
<1>11. MainHolds' /\ HandlerHolds'
  <2>1. pc[main] \in (SetupPc \ {"new_t"}) \cup StopPc \cup {"h_wait"} =>
          arg[main] \in Slots
    BY <1>0 DEF TypeOK, SetupPc, StopPc, HandlerPc
  <2>2. pc[main] \in SetupPc \ {"new_t"} => arg[main] # arg[c]
    BY <1>0, <1>1 DEF MainHolds, SetupPc
  <2>3. MainHolds'
    BY <1>0, <1>1, <1>2, <1>3, <1>4, <1>7, <2>1, <2>2 DEF MainHolds, SetupPc
  <2>4. HandlerHolds'
    BY <1>0, <1>1, <1>2, <1>3, <1>4, <1>7, <2>1 DEF HandlerHolds, StopPc
  <2> QED
    BY <2>3, <2>4
<1> QED
  BY <1>3, <1>5, <1>8, <1>9, <1>10, <1>11 DEF Inv, Owned

(* Behind its slot a thread only touches the buffer.                       *)
LEMMA ThreadEnds ==
  ASSUME Inv, NEW c \in Conns, TestPre(c) \/ FreePre(c) \/ ClearPre(c)
  PROVE  Inv'
<1>0. TypeOK /\ ThreadsTyped /\ Owned /\ MainHolds /\ HandlerHolds
  BY DEF Inv
<1>1. /\ pc[c] \in {"test_pre", "free_pre", "clear_pre"} /\ c # main
  BY DEF TestPre, FreePre, ClearPre, At
<1>2. /\ t' = t /\ sock' = sock /\ running' = running /\ arg' = arg
      /\ cur' = cur /\ joining' = joining /\ cells' = cells
      /\ conn' = conn /\ peer' = peer /\ reused' = reused
  BY <1>1
     DEF TestPre, FreePre, ClearPre, StopReturns, slotVars, heapVars, netVars
<1>3. /\ pre_read_buff' \in [Slots -> Conns \cup {NULL}]
      /\ buffers' \subseteq Conns /\ fault' \in Faults
  BY <1>0
     DEF TypeOK, TestPre, FreePre, ClearPre, Fault, Faults, slotVars, heapVars
<1>4. UNCHANGED pc \/ Goto(c, "free_pre") \/ Goto(c, "clear_pre") \/ Goto(c, "done")
  BY <1>1 DEF TestPre, FreePre, ClearPre, StopReturns, Fault
<1>5. CASE UNCHANGED pc
  <2>1. TypeOK' /\ ThreadsTyped'
    BY <1>0, <1>2, <1>3, <1>5 DEF TypeOK, ThreadsTyped
  <2>2. Owned'
    BY <1>0, <1>2, <1>5, OwnedFrame
  <2>3. MainHolds' /\ HandlerHolds'
    BY <1>0, <1>2, <1>5 DEF MainHolds, HandlerHolds
  <2> QED
    BY <2>1, <2>2, <2>3 DEF Inv
<1>6. ASSUME NEW l \in {"free_pre", "clear_pre", "done"}, Goto(c, l) PROVE Inv'
  <2>1. /\ pc' \in [Procs -> ThreadPc \cup MainPc] /\ ThreadsTyped'
        /\ pc'[c] = l /\ \A x \in Procs \ {c} : pc'[x] = pc[x]
    BY <1>0, <1>6, ThreadMoves DEF ThreadPc, StopPc
  <2>2. TypeOK'
    BY <1>0, <1>2, <1>3, <2>1 DEF TypeOK
  <2>3. Onward(c)
    BY <1>1, <2>1 DEF Onward
  <2> QED
    BY <1>0, <1>2, <2>1, <2>2, <2>3, ThreadFrame DEF Inv
<1> QED
  BY <1>4, <1>5, <1>6

-----------------------------------------------------------------------------
(* Steps of main and of the handler, which move main only.                 *)

(* main, whether it is in its loop or in the handler, goes to l and leaves *)
(* the threads, the table and the kernel as they are.                      *)
LEMMA MainFrame ==
  ASSUME Inv, NEW l \in MainPc, Goto(main, l),
         t' = t, sock' = sock, conn' = conn, cur' = cur,
         running' \in [Slots -> BOOLEAN],
         pre_read_buff' \in [Slots -> Conns \cup {NULL}],
         arg' \in [Procs -> 0..NSlots], \A c \in Conns : arg'[c] = arg[c],
         l \in SetupPc \cup HandlerPc =>
           arg'[main] \in Slots \/ l \in {"new_t", "exited"},
         joining' \in Conns \cup {NULL},
         cells' = cells, buffers' \subseteq Conns,
         peer' = peer, fault' \in Faults, reused' = reused
  PROVE  /\ TypeOK' /\ ThreadsTyped' /\ Owned'
         /\ pc'[main] = l /\ \A c \in Conns : pc'[c] = pc[c]
<1>0. TypeOK /\ ThreadsTyped /\ Owned
  BY DEF Inv
<1>1. /\ pc' \in [Procs -> ThreadPc \cup MainPc] /\ ThreadsTyped'
      /\ pc'[main] = l /\ \A c \in Conns : pc'[c] = pc[c]
  BY <1>0, MainMoves
<1>2. TypeOK'
  BY <1>0, <1>1 DEF TypeOK
<1>3. Owned'
  BY <1>0, <1>1, OwnedFrame
<1> QED
  BY <1>1, <1>2, <1>3

(* main opens a listening socket.                                          *)
LEMMA MainListens ==
  ASSUME Inv, Listen
  PROVE  Inv'
<1>0. TypeOK /\ MainHolds /\ pc[main] = "listen" /\ cur = NULL
  BY DEF Inv, Listen, At, MainHolds
<1>1. PICK l \in {"accept", "exited"} : Goto(main, l)
  BY DEF Listen
<1>2. /\ TypeOK' /\ ThreadsTyped' /\ Owned'
      /\ pc'[main] = l /\ \A c \in Conns : pc'[c] = pc[c]
  BY <1>0, <1>1, MainFrame
     DEF Listen, TypeOK, slotVars, heapVars, netVars, MainPc, SetupPc,
         HandlerPc, StopPc
<1>3. MainHolds' /\ HandlerHolds'
  BY <1>0, <1>2 DEF MainHolds, HandlerHolds, Listen, SetupPc, StopPc
<1> QED
  BY <1>2, <1>3 DEF Inv

(* main takes a connection, which is then in its hands.                    *)
LEMMA MainAccepts ==
  ASSUME Inv, NEW c \in Conns, Accept(c)
  PROVE  Inv'
<1>0. TypeOK /\ ThreadsTyped /\ Owned /\ MainHolds /\ HandlerHolds
  BY DEF Inv
<1>1. /\ pc[main] = "accept" /\ conn[c] = "backlog"
      /\ pc[c] = "none" /\ \A s \in Slots : t[s] # c
  BY <1>0 DEF Accept, At, Owned, Kernel, Unaccepted
<1>2. /\ conn' = [conn EXCEPT ![c] = "open"] /\ cur' = c /\ Goto(main, "unlisten")
      /\ cur = NULL
      /\ t' = t /\ sock' = sock /\ running' = running
      /\ pre_read_buff' = pre_read_buff /\ arg' = arg /\ joining' = joining
      /\ cells' = cells /\ buffers' = buffers /\ peer' = peer /\ fault' = fault
      /\ reused' = reused
  BY <1>0, <1>1 DEF Accept, MainHolds, slotVars, heapVars
<1>3. /\ pc' \in [Procs -> ThreadPc \cup MainPc] /\ ThreadsTyped'
      /\ pc'[main] = "unlisten" /\ \A d \in Conns : pc'[d] = pc[d]
  BY <1>0, <1>2, MainMoves DEF MainPc
<1>4. /\ conn'[c] = "open" /\ \A d \in Conns \ {c} : conn'[d] = conn[d]
      /\ conn' \in [Conns -> ConnStates]
  BY <1>0, <1>2 DEF TypeOK, ConnStates
<1>5. TypeOK'
  BY <1>0, <1>2, <1>3, <1>4 DEF TypeOK, SetupPc, HandlerPc, StopPc
<1>6. \A d \in Conns : SamePlace(d)
  BY <1>3 DEF Serving, Reading
<1>7. PointersTyped
  BY <1>0 DEF TypeOK
<1>8. Table' /\ ThreadHolds'
  BY <1>0, <1>1, <1>2, <1>3, <1>4, <1>6, <1>7 DEF Owned, Table, ThreadHolds
<1>9. Kernel'
  BY <1>0, <1>1, <1>2, <1>3, <1>4, <1>7 DEF Owned, Table, Kernel, Unaccepted
<1>10. MainHolds' /\ HandlerHolds'
  BY <1>0, <1>1, <1>2, <1>3, <1>4 DEF MainHolds, HandlerHolds, SetupPc, StopPc
<1> QED
  BY <1>3, <1>5, <1>8, <1>9, <1>10 DEF Inv, Owned

(* main closes the listening socket.                                       *)
LEMMA MainUnlistens ==
  ASSUME Inv, Unlisten
  PROVE  Inv'
<1>0. TypeOK /\ ThreadsTyped /\ Owned /\ MainHolds /\ HandlerHolds
  BY DEF Inv
<1>1. /\ cur \in Conns /\ pc[cur] = "none" /\ conn[cur] = "open"
      /\ \A s \in Slots : t[s] # cur
  BY <1>0 DEF Unlisten, At, MainHolds
<1>2. /\ conn' = [c \in Conns |-> IF conn[c] = "backlog" THEN "reset" ELSE conn[c]]
      /\ arg' = [arg EXCEPT ![main] = 0] /\ Goto(main, "new_t")
      /\ t' = t /\ sock' = sock /\ running' = running
      /\ pre_read_buff' = pre_read_buff /\ cur' = cur /\ joining' = joining
      /\ cells' = cells /\ buffers' = buffers /\ peer' = peer /\ fault' = fault
      /\ reused' = reused
  BY DEF Unlisten, slotVars, heapVars
<1>3. /\ pc' \in [Procs -> ThreadPc \cup MainPc] /\ ThreadsTyped'
      /\ pc'[main] = "new_t" /\ \A d \in Conns : pc'[d] = pc[d]
  BY <1>0, <1>2, MainMoves DEF MainPc, SetupPc
<1>4. /\ \A c \in Conns : conn'[c] = IF conn[c] = "backlog" THEN "reset" ELSE conn[c]
      /\ conn' \in [Conns -> ConnStates]
      /\ arg' \in [Procs -> 0..NSlots] /\ \A c \in Conns : arg'[c] = arg[c]
  BY <1>0, <1>2 DEF TypeOK, ConnStates
<1>5. TypeOK'
  BY <1>0, <1>2, <1>3, <1>4 DEF TypeOK
<1>6. \A d \in Conns : SamePlace(d)
  BY <1>3 DEF Serving, Reading
<1>7. PointersTyped
  BY <1>0 DEF TypeOK
<1>8. Table' /\ ThreadHolds'
  BY <1>0, <1>2, <1>3, <1>4, <1>6, <1>7 DEF Owned, Table, ThreadHolds
<1>9. Kernel'
  BY <1>0, <1>2, <1>3, <1>4, <1>7 DEF Owned, Kernel, Unaccepted
<1>10. MainHolds' /\ HandlerHolds'
  BY <1>1, <1>2, <1>3, <1>4 DEF MainHolds, HandlerHolds, SetupPc, StopPc
<1> QED
  BY <1>3, <1>5, <1>8, <1>9, <1>10 DEF Inv, Owned

(* getFreeST takes a slot only if no thread that may read from it is left. *)
LEMMA MainTakesSlot ==
  ASSUME Inv, NewT
  PROVE  Inv'
<1>0. TypeOK /\ ThreadsTyped /\ Owned /\ MainHolds /\ HandlerHolds
  BY DEF Inv
<1>1. /\ pc[main] = "new_t" /\ cur \in Conns /\ pc[cur] = "none"
      /\ conn[cur] = "open" /\ \A s \in Slots : t[s] # cur
      /\ arg[main] \in 0..NSlots
  BY <1>0 DEF NewT, At, MainHolds, SetupPc, TypeOK
<1>2. /\ sock' = sock /\ running' = running /\ pre_read_buff' = pre_read_buff
      /\ cur' = cur /\ joining' = joining /\ buffers' = buffers
      /\ conn' = conn /\ peer' = peer /\ fault' = fault
  BY DEF NewT, netVars
<1>3. CASE arg[main] = NSlots
  <2>1. /\ Goto(main, "refuse") /\ t' = t /\ cells' = cells /\ arg' = arg
        /\ reused' = reused
    BY <1>3 DEF NewT
  <2>2. /\ TypeOK' /\ ThreadsTyped' /\ Owned'
        /\ pc'[main] = "refuse" /\ \A c \in Conns : pc'[c] = pc[c]
    BY <1>0, <1>2, <2>1, MainFrame
       DEF TypeOK, MainPc, SetupPc, HandlerPc, StopPc
  <2>3. MainHolds' /\ HandlerHolds'
    BY <1>1, <1>2, <2>1, <2>2 DEF MainHolds, HandlerHolds, SetupPc, StopPc
  <2> QED
    BY <2>2, <2>3 DEF Inv
<1>4. CASE arg[main] # NSlots /\ t[arg[main]] # NULL
  <2>1. /\ arg' = [arg EXCEPT ![main] = arg[main] + 1] /\ t' = t
        /\ cells' = cells /\ pc' = pc /\ reused' = reused
    BY <1>4 DEF NewT
  <2>2. arg' \in [Procs -> 0..NSlots] /\ \A c \in Conns : arg'[c] = arg[c]
    BY <1>0, <1>1, <1>4, <2>1 DEF TypeOK
  <2>3. TypeOK' /\ ThreadsTyped'
    BY <1>0, <1>1, <1>2, <2>1, <2>2 DEF TypeOK, ThreadsTyped
  <2>4. Owned'
    BY <1>0, <1>2, <2>1, <2>2, OwnedFrame
  <2>5. MainHolds' /\ HandlerHolds'
    BY <1>1, <1>2, <2>1 DEF MainHolds, HandlerHolds, SetupPc, StopPc
  <2> QED
    BY <2>3, <2>4, <2>5 DEF Inv
<1>5. CASE arg[main] # NSlots /\ t[arg[main]] = NULL
  <2>1. /\ t' = [t EXCEPT ![arg[main]] = cur] /\ cells' = cells \cup {cur}
        /\ Goto(main, "new_pre") /\ arg' = arg
    BY <1>5 DEF NewT
  <2>2. reused' \subseteq Slots /\ arg[main] \in Slots
    <3>1. arg[main] \in Slots
      BY <1>1, <1>5 DEF Slots
    <3>2. reused' = reused \cup {arg[main]} \/ reused' = reused
      BY <1>5 DEF NewT
    <3> QED
      BY <1>0, <3>1, <3>2 DEF TypeOK
  <2>3. /\ pc' \in [Procs -> ThreadPc \cup MainPc] /\ ThreadsTyped'
        /\ pc'[main] = "new_pre" /\ \A c \in Conns : pc'[c] = pc[c]
    BY <1>0, <2>1, MainMoves DEF MainPc, SetupPc
  <2>4. /\ t'[arg[main]] = cur /\ \A s \in Slots \ {arg[main]} : t'[s] = t[s]
        /\ t' \in [Slots -> Conns \cup {NULL}]
    BY <1>0, <1>1, <2>1, <2>2 DEF TypeOK
  <2>5. TypeOK'
    BY <1>0, <1>1, <1>2, <2>1, <2>2, <2>3, <2>4 DEF TypeOK
  <2>6. \A d \in Conns : SamePlace(d)
    BY <2>3 DEF Serving, Reading
  <2>7. PointersTyped
    BY <1>0 DEF TypeOK
  <2>8. sock[arg[main]] = NULL
    BY <1>0, <1>5, <2>2 DEF Owned, Table
  <2>9. Table'
    BY <1>0, <1>1, <1>2, <2>2, <2>3, <2>4, <2>6, <2>7, <2>8 DEF Owned, Table
  <2>10. ThreadHolds'
    BY <1>0, <1>2, <1>5, <2>1, <2>3, <2>4, <2>6, <2>7 DEF Owned, ThreadHolds
  <2>11. Kernel'
    BY <1>0, <1>1, <1>2, <2>2, <2>3, <2>4, <2>7 DEF Owned, Kernel, Unaccepted
  <2>12. MainHolds' /\ HandlerHolds'
    BY <1>1, <1>2, <2>1, <2>3, <2>4, <2>8
       DEF MainHolds, HandlerHolds, SetupPc, StopPc
  <2> QED
    BY <2>3, <2>5, <2>9, <2>10, <2>11, <2>12 DEF Inv, Owned
<1> QED
  BY <1>3, <1>4, <1>5

(* main allocates and empties the slot's read buffer.                      *)
LEMMA MainBuffers ==
  ASSUME Inv, NewPre \/ InitPre
  PROVE  Inv'
<1>0. TypeOK /\ MainHolds
  BY DEF Inv
<1>1. /\ pc[main] \in {"new_pre", "init_pre"} /\ arg[main] \in Slots
      /\ cur \in Conns /\ pc[cur] = "none" /\ conn[cur] = "open"
      /\ t[arg[main]] = cur /\ sock[arg[main]] = NULL
  BY <1>0 DEF NewPre, InitPre, At, MainHolds, SetupPc, TypeOK
<1>2. /\ t' = t /\ sock' = sock /\ running' = running /\ arg' = arg
      /\ cur' = cur /\ joining' = joining /\ cells' = cells
      /\ conn' = conn /\ peer' = peer /\ reused' = reused
  BY DEF NewPre, InitPre, slotVars, heapVars, netVars
<1>3. /\ pre_read_buff' \in [Slots -> Conns \cup {NULL}]
      /\ buffers' \subseteq Conns /\ fault' \in Faults
  BY <1>0, <1>1 DEF TypeOK, NewPre, InitPre, Fault, Faults, slotVars, heapVars
<1>4. UNCHANGED pc \/ Goto(main, "init_pre") \/ Goto(main, "set_sock")
  BY DEF NewPre, InitPre, Fault
<1>5. CASE UNCHANGED pc
  <2>1. TypeOK' /\ ThreadsTyped'
    BY <1>0, <1>2, <1>3, <1>5 DEF Inv, TypeOK, ThreadsTyped
  <2>2. Owned'
    BY <1>0, <1>2, <1>5, OwnedFrame DEF Inv
  <2>3. MainHolds' /\ HandlerHolds'
    BY <1>2, <1>5 DEF Inv, MainHolds, HandlerHolds
  <2> QED
    BY <2>1, <2>2, <2>3 DEF Inv
<1>6. ASSUME NEW l \in {"init_pre", "set_sock"}, Goto(main, l) PROVE Inv'
  <2>1. /\ TypeOK' /\ ThreadsTyped' /\ Owned'
        /\ pc'[main] = l /\ \A c \in Conns : pc'[c] = pc[c]
    BY <1>0, <1>1, <1>2, <1>3, <1>6, MainFrame DEF TypeOK, MainPc, SetupPc
  <2>2. MainHolds' /\ HandlerHolds'
    BY <1>1, <1>2, <2>1 DEF MainHolds, HandlerHolds, SetupPc, StopPc
  <2> QED
    BY <2>1, <2>2 DEF Inv
<1> QED
  BY <1>4, <1>5, <1>6

(* main puts the connection into the slot.                                 *)
LEMMA MainSetsSock ==
  ASSUME Inv, SetSock
  PROVE  Inv'
<1>0. TypeOK /\ ThreadsTyped /\ Owned /\ MainHolds /\ HandlerHolds
  BY DEF Inv
<1>1. /\ pc[main] = "set_sock" /\ arg[main] \in Slots
      /\ cur \in Conns /\ pc[cur] = "none" /\ conn[cur] = "open"
      /\ t[arg[main]] = cur /\ sock[arg[main]] = NULL
  BY <1>0 DEF SetSock, At, MainHolds, SetupPc, TypeOK
<1>2. /\ sock' = [sock EXCEPT ![arg[main]] = cur] /\ Goto(main, "create")
      /\ t' = t /\ running' = running /\ pre_read_buff' = pre_read_buff
      /\ arg' = arg /\ cur' = cur /\ joining' = joining /\ cells' = cells
      /\ buffers' = buffers /\ conn' = conn /\ peer' = peer /\ fault' = fault
      /\ reused' = reused
  BY DEF SetSock, heapVars, netVars
<1>3. /\ pc' \in [Procs -> ThreadPc \cup MainPc] /\ ThreadsTyped'
      /\ pc'[main] = "create" /\ \A c \in Conns : pc'[c] = pc[c]
  BY <1>0, <1>2, MainMoves DEF MainPc, SetupPc
<1>4. /\ sock'[arg[main]] = cur /\ \A s \in Slots \ {arg[main]} : sock'[s] = sock[s]
      /\ sock' \in [Slots -> Conns \cup {NULL}]
  BY <1>0, <1>1, <1>2 DEF TypeOK
<1>5. TypeOK'
  BY <1>0, <1>1, <1>2, <1>3, <1>4 DEF TypeOK
<1>6. \A d \in Conns : SamePlace(d)
  BY <1>3 DEF Serving, Reading
<1>7. PointersTyped
  BY <1>0 DEF TypeOK
<1>8. Table'
  BY <1>0, <1>1, <1>2, <1>3, <1>4, <1>6, <1>7 DEF Owned, Table
<1>9. ThreadHolds'
  <2>1. \A c \in Conns : Serving(c) => c # cur /\ arg[c] # arg[main]
    BY <1>0, <1>1 DEF Owned, ThreadHolds, Serving
  <2>2. \A c \in Conns :
          Reading(c) \/ pc[c] \in {"clear_sock", "stop", "free_t", "clear_t"}
          => Serving(c)
    BY DEF Serving, Reading
  <2>3. ASSUME NEW c \in Conns, Serving(c)
        PROVE  arg[c] \in Slots /\ sock'[arg[c]] = sock[arg[c]]
    BY <1>0, <1>4, <2>1, <2>3 DEF Owned, ThreadHolds
  <2> QED
    BY <1>0, <1>2, <1>3, <1>6, <2>2, <2>3 DEF Owned, ThreadHolds
<1>10. Kernel'
  BY <1>0, <1>1, <1>2, <1>3, <1>4, <1>7 DEF Owned, Kernel, Unaccepted
<1>11. MainHolds' /\ HandlerHolds'
  BY <1>1, <1>2, <1>3, <1>4 DEF MainHolds, HandlerHolds, SetupPc, StopPc
<1> QED
  BY <1>3, <1>5, <1>8, <1>9, <1>10, <1>11 DEF Inv, Owned

(* Whether pthread_create succeeds or fails, the slot keeps the connection.*)
LEMMA MainCreates ==
  ASSUME Inv, Create
  PROVE  Inv'
<1>0. TypeOK /\ ThreadsTyped /\ Owned /\ MainHolds /\ HandlerHolds
  BY DEF Inv
<1>1. /\ pc[main] = "create" /\ arg[main] \in Slots
      /\ cur \in Conns /\ pc[cur] = "none" /\ conn[cur] = "open"
      /\ t[arg[main]] = cur /\ sock[arg[main]] = cur
  BY <1>0 DEF Create, At, MainHolds, SetupPc, TypeOK
<1>2. /\ t' = t /\ sock' = sock /\ running' = running
      /\ pre_read_buff' = pre_read_buff /\ joining' = joining /\ cells' = cells
      /\ buffers' = buffers /\ conn' = conn /\ peer' = peer /\ fault' = fault
      /\ reused' = reused /\ cur' = NULL
  BY DEF Create, slotVars, heapVars, netVars
<1>3. \/ /\ pc' = [pc EXCEPT ![main] = "listen", ![cur] = "start"]
         /\ arg' = [arg EXCEPT ![cur] = arg[main]]
      \/ /\ pc' = [pc EXCEPT ![main] = "listen"] /\ arg' = arg
  BY DEF Create, Goto
<1>4. /\ pc' \in [Procs -> ThreadPc \cup MainPc] /\ arg' \in [Procs -> 0..NSlots]
      /\ pc'[main] = "listen" /\ \A c \in Conns \ {cur} : pc'[c] = pc[c]
      /\ \A c \in Conns \ {cur} : arg'[c] = arg[c]
      /\ \/ pc'[cur] = "start" /\ arg'[cur] = arg[main]
         \/ pc'[cur] = "none" /\ arg'[cur] = arg[cur]
  <2>1. "start" \in ThreadPc /\ "listen" \in MainPc
    BY DEF ThreadPc, MainPc
  <2> QED
    BY <1>0, <1>1, <1>3, <2>1 DEF TypeOK
<1>5. TypeOK' /\ ThreadsTyped'
  <2>1. "start" \in ThreadPc /\ "none" \in ThreadPc /\ "listen" \in MainPc
        /\ "listen" \notin SetupPc \cup HandlerPc
    BY DEF ThreadPc, MainPc, SetupPc, HandlerPc, StopPc
  <2> QED
    BY <1>0, <1>1, <1>2, <1>4, <2>1 DEF TypeOK, ThreadsTyped
<1>6. PointersTyped
  BY <1>0 DEF TypeOK
<1>7. Table'
  BY <1>0, <1>1, <1>2, <1>4, <1>6 DEF Owned, Table, Serving
<1>8. ThreadHolds'
  BY <1>0, <1>1, <1>2, <1>4, <1>6 DEF Owned, ThreadHolds, Serving, Reading
<1>9. Kernel'
  BY <1>0, <1>1, <1>2, <1>4, <1>6 DEF Owned, Kernel, Unaccepted
<1>10. MainHolds' /\ HandlerHolds'
  BY <1>2, <1>4 DEF MainHolds, HandlerHolds, SetupPc, StopPc
<1> QED
  BY <1>5, <1>7, <1>8, <1>9, <1>10 DEF Inv, Owned

(* The new connection is closed when every slot is taken.                  *)
LEMMA MainRefuses ==
  ASSUME Inv, Refuse
  PROVE  Inv'
<1>0. TypeOK /\ ThreadsTyped /\ Owned /\ MainHolds /\ HandlerHolds
  BY DEF Inv
<1>1. /\ cur \in Conns /\ pc[cur] = "none" /\ conn[cur] = "open"
      /\ \A s \in Slots : t[s] # cur
  BY <1>0 DEF Refuse, At, MainHolds
<1>2. /\ conn' = [conn EXCEPT ![cur] = "closed"] /\ cur' = NULL
      /\ Goto(main, "listen")
      /\ t' = t /\ sock' = sock /\ running' = running
      /\ pre_read_buff' = pre_read_buff /\ arg' = arg /\ joining' = joining
      /\ cells' = cells /\ buffers' = buffers /\ peer' = peer /\ fault' = fault
      /\ reused' = reused
  BY DEF Refuse, slotVars, heapVars
<1>3. /\ pc' \in [Procs -> ThreadPc \cup MainPc] /\ ThreadsTyped'
      /\ pc'[main] = "listen" /\ \A c \in Conns : pc'[c] = pc[c]
  BY <1>0, <1>2, MainMoves DEF MainPc
<1>4. /\ conn'[cur] = "closed" /\ \A c \in Conns \ {cur} : conn'[c] = conn[c]
      /\ conn' \in [Conns -> ConnStates]
  BY <1>0, <1>1, <1>2 DEF TypeOK, ConnStates
<1>5. TypeOK'
  BY <1>0, <1>2, <1>3, <1>4 DEF TypeOK, SetupPc, HandlerPc, StopPc
<1>6. \A d \in Conns : SamePlace(d)
  BY <1>3 DEF Serving, Reading
<1>7. PointersTyped
  BY <1>0 DEF TypeOK
<1>8. Table'
  BY <1>0, <1>2, <1>3, <1>6, <1>7 DEF Owned, Table
<1>9. ThreadHolds'
  <2>1. ~Reading(cur)
    BY <1>1 DEF Reading
  <2> QED
    BY <1>0, <1>1, <1>2, <1>3, <1>4, <1>6, <2>1 DEF Owned, ThreadHolds
<1>10. Kernel'
  BY <1>0, <1>1, <1>2, <1>3, <1>4, <1>7 DEF Owned, Table, Kernel, Unaccepted
<1>11. MainHolds' /\ HandlerHolds'
  BY <1>2, <1>3 DEF MainHolds, HandlerHolds, SetupPc, StopPc
<1> QED
  BY <1>3, <1>5, <1>8, <1>9, <1>10, <1>11 DEF Inv, Owned

-----------------------------------------------------------------------------
(* The handler.                                                            *)

(* The signal handler interrupts main wherever it is.                      *)
LEMMA ShutdownBegins ==
  ASSUME Inv, CatchShutdown
  PROVE  Inv'
<1>0. TypeOK
  BY DEF Inv
<1>1. /\ t' = t /\ sock' = sock /\ running' = running
      /\ pre_read_buff' = pre_read_buff /\ cur' = cur /\ joining' = joining
      /\ cells' = cells /\ buffers' = buffers /\ conn' = conn /\ peer' = peer
      /\ fault' = fault /\ reused' = reused
      /\ arg' = [arg EXCEPT ![main] = 0] /\ Goto(main, "h_test")
  BY DEF CatchShutdown, slotVars, heapVars, netVars
<1>2. /\ arg' \in [Procs -> 0..NSlots] /\ \A c \in Conns : arg'[c] = arg[c]
      /\ arg'[main] \in Slots
  BY <1>0, <1>1 DEF TypeOK, Slots
<1>3. /\ TypeOK' /\ ThreadsTyped' /\ Owned'
      /\ pc'[main] = "h_test" /\ \A c \in Conns : pc'[c] = pc[c]
  BY <1>0, <1>1, <1>2, MainFrame DEF TypeOK, MainPc, HandlerPc
<1>4. MainHolds' /\ HandlerHolds'
  BY <1>3 DEF MainHolds, HandlerHolds, SetupPc, StopPc
<1> QED
  BY <1>3, <1>4 DEF Inv

(* The handler looks at a slot, and joins its thread if there is one.      *)
LEMMA HandlerJoins ==
  ASSUME Inv, HandlerTest \/ HandlerStop \/ HandlerJoin \/ HandlerJoined
  PROVE  Inv'
<1>0. TypeOK /\ HandlerHolds /\ pc[main] \in HandlerPc
  BY DEF Inv, HandlerTest, HandlerStop, HandlerJoin, HandlerJoined, At,
      HandlerPc
<1>1. /\ t' = t /\ sock' = sock /\ pre_read_buff' = pre_read_buff
      /\ arg' = arg /\ cur' = cur /\ cells' = cells /\ buffers' = buffers
      /\ conn' = conn /\ peer' = peer /\ reused' = reused
  BY DEF HandlerTest, HandlerStop, HandlerJoin, HandlerJoined, slotVars,
         heapVars, netVars
<1>2. /\ arg[main] \in Slots
      /\ running' \in [Slots -> BOOLEAN]
      /\ fault' \in Faults
  <2>1. arg[main] \in Slots
    BY <1>0
       DEF TypeOK, HandlerTest, HandlerStop, HandlerJoin, HandlerJoined, At
  <2>2. running' \in [Slots -> BOOLEAN] /\ fault' \in Faults
    BY <1>0 DEF TypeOK, HandlerTest, HandlerStop, HandlerJoin, HandlerJoined,
                slotVars, Fault, Faults
  <2> QED
    BY <2>1, <2>2
<1>3. joining' \in Conns \cup {NULL}
  BY <1>0, <1>2
     DEF TypeOK, HandlerTest, HandlerStop, HandlerJoin, HandlerJoined
<1>4. CASE UNCHANGED pc /\ joining' = joining
  <2>1. TypeOK' /\ ThreadsTyped'
    BY <1>0, <1>1, <1>2, <1>4 DEF Inv, TypeOK, ThreadsTyped
  <2>2. Owned'
    BY <1>0, <1>1, <1>4, OwnedFrame DEF Inv
  <2>3. MainHolds' /\ HandlerHolds'
    BY <1>1, <1>4 DEF Inv, MainHolds, HandlerHolds
  <2> QED
    BY <2>1, <2>2, <2>3 DEF Inv
<1>5. ASSUME NEW l \in {"close", "h_stop", "h_join", "h_wait"}, Goto(main, l),
             l = "close" => t[arg[main]] = NULL,
             l = "h_wait" => /\ joining' = t[arg[main]] /\ joining' \in Conns
                             /\ pc[joining'] # "none"
      PROVE  Inv'
  <2>1. l \in MainPc /\ l \in HandlerPc
    BY DEF MainPc, HandlerPc, StopPc
  <2>2. /\ TypeOK' /\ ThreadsTyped' /\ Owned'
        /\ pc'[main] = l /\ \A c \in Conns : pc'[c] = pc[c]
    BY <1>0, <1>1, <1>2, <1>3, <1>5, <2>1, MainFrame DEF TypeOK
  <2>3. MainHolds' /\ HandlerHolds'
    BY <1>1, <1>5, <2>2 DEF MainHolds, HandlerHolds, SetupPc, StopPc
  <2> QED
    BY <2>2, <2>3 DEF Inv
<1>6. CASE HandlerTest
  BY <1>5, <1>6 DEF HandlerTest
<1>7. CASE HandlerStop
  BY <1>5, <1>7 DEF HandlerStop
<1>8. CASE HandlerJoin
  <2>1. t[arg[main]] \in Conns \cup {NULL}
    BY <1>0, <1>2 DEF TypeOK
  <2> QED
    BY <1>4, <1>5, <1>8, <2>1 DEF HandlerJoin, Fault
<1>9. CASE HandlerJoined
  <2>1. t[arg[main]] = NULL
    BY <1>0, <1>2, <1>9
       DEF HandlerJoined, At, HandlerHolds, Inv, Owned, Table, Serving
  <2> QED
    BY <1>5, <1>9, <2>1 DEF HandlerJoined
<1> QED
  BY <1>6, <1>7, <1>8, <1>9

(* _stopThread has nothing left to close or to give back in the handler.   *)
LEMMA HandlerStopsThread ==
  ASSUME Inv, _stopThread(main)
  PROVE  Inv'
<1>0. TypeOK /\ HandlerHolds
  BY DEF Inv
<1>1. /\ pc[main] \in {"close", "stop", "test_pre", "free_pre", "clear_pre"}
      /\ ~ClearSock(main) /\ ~FreeT(main) /\ ~ClearT(main)
      /\ arg[main] \in Slots /\ t[arg[main]] = NULL /\ sock[arg[main]] = NULL
  <2>1. /\ pc[main] \in {"close", "stop", "test_pre", "free_pre", "clear_pre"}
        /\ ~ClearSock(main) /\ ~FreeT(main) /\ ~ClearT(main)
    BY <1>0 DEF _stopThread, Close, ClearSock, Stop, FreeT, ClearT, TestPre,
                FreePre, ClearPre, At, HandlerHolds
  <2>2. arg[main] \in Slots
    BY <1>0, <2>1 DEF TypeOK, HandlerPc, StopPc
  <2>3. t[arg[main]] = NULL
    BY <1>0, <2>1 DEF HandlerHolds, StopPc
  <2>4. sock[arg[main]] = NULL
    BY <2>2, <2>3 DEF Inv, Owned, Table
  <2> QED
    BY <2>1, <2>2, <2>3, <2>4
<1>2. /\ t' = t /\ sock' = sock /\ running' = running /\ cur' = cur
      /\ joining' = joining /\ cells' = cells /\ conn' = conn /\ peer' = peer
      /\ reused' = reused
  BY <1>1 DEF _stopThread, Close, Stop, TestPre, FreePre, ClearPre, slotVars,
              heapVars, netVars
<1>3. /\ pre_read_buff' \in [Slots -> Conns \cup {NULL}]
      /\ buffers' \subseteq Conns /\ fault' \in Faults
  BY <1>0, <1>1
     DEF TypeOK, _stopThread, Close, Stop, TestPre, FreePre, ClearPre,
                    Fault, Faults, slotVars, heapVars
<1>4. CASE UNCHANGED <<pc, arg>>
  <2>1. TypeOK' /\ ThreadsTyped'
    BY <1>0, <1>2, <1>3, <1>4 DEF Inv, TypeOK, ThreadsTyped
  <2>2. Owned'
    BY <1>0, <1>2, <1>4, OwnedFrame DEF Inv
  <2>3. MainHolds' /\ HandlerHolds'
    BY <1>2, <1>4 DEF Inv, MainHolds, HandlerHolds
  <2> QED
    BY <2>1, <2>2, <2>3 DEF Inv
<1>5. ASSUME NEW l \in {"stop", "test_pre", "free_pre", "clear_pre"},
             Goto(main, l), arg' = arg
      PROVE  Inv'
  <2>1. l \in MainPc
    BY DEF MainPc, HandlerPc, StopPc
  <2>2. /\ TypeOK' /\ ThreadsTyped' /\ Owned'
        /\ pc'[main] = l /\ \A c \in Conns : pc'[c] = pc[c]
    BY <1>0, <1>1, <1>2, <1>3, <1>5, <2>1, MainFrame DEF TypeOK
  <2>3. MainHolds' /\ HandlerHolds'
    BY <1>1, <1>2, <1>5, <2>2 DEF MainHolds, HandlerHolds, SetupPc, StopPc
  <2> QED
    BY <2>2, <2>3 DEF Inv
<1>6. ASSUME StopReturns(main) PROVE Inv'
  <2>1. /\ arg' = [arg EXCEPT ![main] = @ + 1]
        /\ Goto(main, IF arg[main] + 1 = NSlots THEN "exited" ELSE "h_test")
    BY <1>6 DEF StopReturns
  <2>2. /\ arg' \in [Procs -> 0..NSlots] /\ \A c \in Conns : arg'[c] = arg[c]
        /\ arg[main] + 1 # NSlots => arg'[main] \in Slots
    BY <1>0, <1>1, <2>1 DEF TypeOK, Slots
  <2>3. PICK l \in {"exited", "h_test"} :
          Goto(main, l) /\ (l = "h_test" => arg'[main] \in Slots)
    BY <2>1, <2>2
  <2>4. l \in MainPc /\ l \in HandlerPc
    BY DEF MainPc, HandlerPc
  <2>5. /\ TypeOK' /\ ThreadsTyped' /\ Owned'
        /\ pc'[main] = l /\ \A c \in Conns : pc'[c] = pc[c]
    BY <1>0, <1>2, <1>3, <2>2, <2>3, <2>4, MainFrame DEF TypeOK
  <2>6. MainHolds' /\ HandlerHolds'
    BY <2>5 DEF MainHolds, HandlerHolds, SetupPc, StopPc
  <2> QED
    BY <2>5, <2>6 DEF Inv
<1>7. CASE Close(main) \/ Stop(main)
  BY <1>1, <1>5, <1>7 DEF Close, Stop, slotVars
<1>8. CASE TestPre(main) \/ FreePre(main) \/ ClearPre(main)
  BY <1>4, <1>5, <1>6, <1>8 DEF TestPre, FreePre, ClearPre, Fault, slotVars
<1> QED
  BY <1>1, <1>7, <1>8 DEF _stopThread

-----------------------------------------------------------------------------
(* The clients, and the theorems.                                          *)

(* A client connects or goes away.                                         *)
LEMMA ClientMoves ==
  ASSUME Inv, NEW c \in Conns, ClientConnects(c) \/ ClientLeaves(c)
  PROVE  Inv'
<1>0. TypeOK /\ ThreadsTyped /\ Owned /\ MainHolds /\ HandlerHolds
  BY DEF Inv
<1>1. /\ t' = t /\ sock' = sock /\ running' = running /\ pc' = pc
      /\ pre_read_buff' = pre_read_buff /\ arg' = arg /\ joining' = joining
      /\ cells' = cells /\ buffers' = buffers /\ fault' = fault
      /\ reused' = reused /\ cur' = cur
  BY DEF ClientConnects, ClientLeaves, slotVars, heapVars
<1>2. CASE ClientLeaves(c)
  <2>1. conn' = conn /\ peer' \in [Conns -> BOOLEAN]
    BY <1>0, <1>2 DEF ClientLeaves, TypeOK
  <2>2. TypeOK' /\ ThreadsTyped'
    BY <1>0, <1>1, <2>1 DEF TypeOK, ThreadsTyped
  <2>3. Owned' /\ MainHolds' /\ HandlerHolds'
    BY <1>0, <1>1, <2>1, OwnedFrame DEF MainHolds, HandlerHolds
  <2> QED
    BY <2>2, <2>3 DEF Inv
<1>3. CASE ClientConnects(c)
  <2>1. conn[c] = "new" /\ conn' = [conn EXCEPT ![c] = "backlog"] /\ peer' = peer
    BY <1>3 DEF ClientConnects
  <2>2. /\ conn'[c] = "backlog" /\ \A d \in Conns \ {c} : conn'[d] = conn[d]
        /\ conn' \in [Conns -> ConnStates]
    BY <1>0, <2>1 DEF TypeOK, ConnStates
  <2>3. TypeOK' /\ ThreadsTyped'
    BY <1>0, <1>1, <2>1, <2>2 DEF TypeOK, ThreadsTyped
  <2>4. /\ pc[c] = "none" /\ cur # c /\ \A s \in Slots : t[s] # c
    BY <1>0, <2>1 DEF Owned, Kernel, Unaccepted
  <2>5. PointersTyped
    BY <1>0 DEF TypeOK
  <2>6. \A d \in Conns : SamePlace(d)
    BY <1>1 DEF Serving, Reading
  <2>7. Table'
    BY <1>0, <1>1, <2>5, <2>6 DEF Owned, Table
  <2>8. ThreadHolds'
    BY <1>0, <1>1, <2>1, <2>2, <2>6 DEF Owned, ThreadHolds
  <2>9. Kernel'
    BY <1>0, <1>1, <2>1, <2>2, <2>4, <2>5 DEF Owned, Table, Kernel, Unaccepted
  <2>10. MainHolds' /\ HandlerHolds'
    BY <1>0, <1>1, <2>2, <2>4 DEF MainHolds, HandlerHolds
  <2> QED
    BY <2>3, <2>7, <2>8, <2>9, <2>10 DEF Inv, Owned
<1> QED
  BY <1>2, <1>3

(* The server starts with an empty table.                                  *)
LEMMA InitInv == Init => Inv
<1> SUFFICES ASSUME Init PROVE Inv
  OBVIOUS
<1>1. \A x \in Procs : pc[x] = IF x = main THEN "listen" ELSE "none"
  BY DEF Init
<1>2. TypeOK /\ ThreadsTyped
  <2>1. /\ "listen" \in MainPc /\ "none" \in ThreadPc
        /\ "listen" \notin SetupPc \cup HandlerPc
        /\ "new" \in ConnStates /\ "none" \in Faults
    BY DEF MainPc, ThreadPc, SetupPc, HandlerPc, StopPc, ConnStates, Faults
  <2>2. 0 \in 0..NSlots
    OBVIOUS
  <2> QED
    BY <2>1, <2>2 DEF Init, TypeOK, ThreadsTyped
<1>3. Owned
  BY <1>1 DEF Init, Owned, Table, ThreadHolds, Kernel, Serving, Reading
<1>4. MainHolds /\ HandlerHolds
  BY <1>1 DEF Init, MainHolds, HandlerHolds, SetupPc, StopPc
<1> QED
  BY <1>2, <1>3, <1>4 DEF Inv

(* The table, the places and the descriptors stay in agreement.            *)
LEMMA StepInv == Inv /\ [Next]_vars => Inv'
<1> SUFFICES ASSUME Inv, [Next]_vars PROVE Inv'
  OBVIOUS
<1>1. CASE UNCHANGED vars
  <2>1. /\ t' = t /\ sock' = sock /\ running' = running /\ pc' = pc
        /\ pre_read_buff' = pre_read_buff /\ arg' = arg /\ joining' = joining
        /\ cells' = cells /\ buffers' = buffers /\ conn' = conn /\ peer' = peer
        /\ fault' = fault /\ reused' = reused /\ cur' = cur
    BY <1>1 DEF vars, slotVars, heapVars, netVars
  <2>2. TypeOK' /\ ThreadsTyped'
    BY <2>1 DEF Inv, TypeOK, ThreadsTyped
  <2>3. Owned' /\ MainHolds' /\ HandlerHolds'
    BY <2>1, OwnedFrame DEF Inv, MainHolds, HandlerHolds
  <2> QED
    BY <2>2, <2>3 DEF Inv
<1>2. CASE MainLoop
  BY <1>2, MainListens, MainAccepts, MainUnlistens, MainTakesSlot, MainBuffers,
     MainSetsSock, MainCreates, MainRefuses DEF MainLoop
<1>3. CASE CatchShutdown \/ Handler
  BY <1>3, ShutdownBegins, HandlerJoins, HandlerStopsThread DEF Handler
<1>4. ASSUME NEW c \in Conns, socket_loop(c) PROVE Inv'
  BY <1>4, ReadingStep, ThreadCloses, ThreadClearsSock, ThreadStops,
     ThreadClearsT, ThreadEnds DEF socket_loop, _stopThread
<1>5. CASE Clients
  BY <1>5, ClientMoves DEF Clients
<1> QED
  BY <1>1, <1>2, <1>3, <1>4, <1>5 DEF Next

(* The invariant of the slots holds throughout.                            *)
LEMMA Invariance == Spec => []Inv
  BY InitInv, StepInv, PTL DEF Spec

(* The table, the processes and the kernel's view stay in their types.     *)
THEOREM SlotsTyped == Spec => []TypeOK
<1>1. Inv => TypeOK
  BY DEF Inv
<1> QED
  BY <1>1, Invariance, PTL

(* Clients are never mixed up: a thread reads its own connection and has   *)
(* its slot to itself, though the table has no lock.                       *)
THEOREM OwnConnectionAlways == Spec => []OwnConnection
<1>1. Inv => OwnConnection
  BY DEF Inv, Owned, ThreadHolds, OwnConnection
<1> QED
  BY <1>1, Invariance, PTL

(* No descriptor is lost, and none is held by a slot after it was closed.  *)
THEOREM DescriptorsKnownAlways == Spec => []DescriptorsKnown
<1>1. ASSUME Inv PROVE DescriptorsKnown
  <2>1. ASSUME NEW c \in Conns, NEW s \in Slots, sock[s] = c
        PROVE  \/ conn[c] = "open"
               \/ conn[c] = "closed" /\ \E x \in Procs :
                    arg[x] = s /\ pc[x] = "clear_sock"
    <3>1. t[s] = c /\ c # NULL
      BY <1>1, <2>1 DEF Inv, Owned, Table
    <3>2. CASE pc[c] = "none"
      BY <1>1, <2>1, <3>1, <3>2 DEF Inv, Owned, Kernel
    <3>3. CASE Serving(c)
      <4>1. arg[c] = s
        BY <1>1, <3>1, <3>3 DEF Inv, Owned, Table, ThreadHolds
      <4> QED
        BY <1>1, <2>1, <3>1, <3>3, <4>1
           DEF Inv, Owned, ThreadHolds, Serving, Reading
    <3> QED
      BY <1>1, <3>1, <3>2, <3>3 DEF Inv, Owned, Table
  <2> QED
    BY <1>1, <2>1 DEF Inv, Owned, Kernel, DescriptorsKnown
<1> QED
  BY <1>1, Invariance, PTL

-----------------------------------------------------------------------------
(* Slots come back.                                                        *)

(* A slot whose connection has no thread is main's, or pthread_create has  *)
(* reached the limit.                                                      *)
Full == Cardinality(Threads) >= MaxThreads
LostToLimit ==
  \/ Stopping
  \/ \A s \in Slots : t[s] # NULL /\ pc[t[s]] = "none" =>
       cur = t[s] \/ Full

(* What the steps of each kind may do to main's connection, to the slots   *)
(* and to the threads.                                                     *)
LEMMA ThreadSteps ==
  ASSUME Inv, NEW c \in Conns, socket_loop(c)
  PROVE  /\ pc'[main] = pc[main] /\ cur' = cur
         /\ pc[c] # "none" /\ pc'[c] # "none"
         /\ \A d \in Conns \ {c} : pc'[d] = pc[d]
         /\ \A s \in Slots : t'[s] \in {t[s], NULL}
<1>0. TypeOK /\ c # main
  BY DEF Inv
<1>1. CASE Start(c) \/ RecvChunk(c) \/ RecvEnd(c) \/ Check(c)
  <2>1. /\ cur' = cur /\ pc[c] # "none" /\ t' = t
        /\ Goto(c, "recv") \/ Goto(c, "check") \/ Goto(c, "close")
    BY <1>1 DEF Start, RecvChunk, RecvEnd, Check, At, slotVars
  <2> QED
    BY <1>0, <2>1 DEF TypeOK, Goto
<1>2. CASE Close(c) \/ ClearSock(c) \/ Stop(c) \/ FreeT(c)
  <2>1. /\ cur' = cur /\ pc[c] # "none" /\ t' = t
        /\ pc' = pc \/ \E l : l # "none" /\ Goto(c, l)
    BY <1>2 DEF Close, ClearSock, Stop, FreeT, At, Fault, slotVars
  <2> QED
    BY <1>0, <2>1 DEF TypeOK, Goto
<1>3. CASE ClearT(c)
  BY <1>0, <1>3 DEF ClearT, At, Goto, TypeOK
<1>4. CASE TestPre(c) \/ FreePre(c) \/ ClearPre(c)
  <2>1. /\ cur' = cur /\ pc[c] # "none" /\ t' = t
        /\ pc' = pc \/ \E l : l # "none" /\ Goto(c, l)
    BY <1>0, <1>4 DEF TestPre, FreePre, ClearPre, At, Fault, StopReturns, slotVars
  <2> QED
    BY <1>0, <2>1 DEF TypeOK, Goto
<1> QED
  BY <1>1, <1>2, <1>3, <1>4 DEF socket_loop, _stopThread

(* The handler takes no slot and moves no thread.                          *)
LEMMA HandlerSteps ==
  ASSUME Inv, CatchShutdown \/ Handler
  PROVE  /\ Stopping' /\ cur' = cur /\ t' = t
         /\ \A c \in Conns : pc'[c] = pc[c]
<1>0. TypeOK /\ HandlerHolds
  BY DEF Inv
<1>1. CASE CatchShutdown \/ HandlerTest \/ HandlerStop \/ HandlerJoined
  <2>1. /\ cur' = cur /\ t' = t
        /\ \/ Goto(main, "h_test") \/ Goto(main, "close")
           \/ Goto(main, "h_stop") \/ Goto(main, "h_join")
    BY <1>1 DEF CatchShutdown, HandlerTest, HandlerStop, HandlerJoined, slotVars
  <2> QED
    BY <1>0, <2>1 DEF TypeOK, Goto, Stopping, HandlerPc, StopPc
<1>2. CASE HandlerJoin
  <2>1. /\ cur' = cur /\ t' = t /\ pc[main] = "h_join"
        /\ pc' = pc \/ Goto(main, "h_wait")
    BY <1>2 DEF HandlerJoin, At, Fault, slotVars
  <2> QED
    BY <1>0, <2>1 DEF TypeOK, Goto, Stopping, HandlerPc
<1>3. CASE _stopThread(main)
  <2>1. /\ pc[main] \in {"close", "stop", "test_pre", "free_pre", "clear_pre"}
        /\ Close(main) \/ Stop(main) \/ TestPre(main) \/ FreePre(main)
           \/ ClearPre(main)
    BY <1>0, <1>3 DEF _stopThread, Close, ClearSock, Stop, FreeT, ClearT, TestPre,
                FreePre, ClearPre, At, HandlerHolds
  <2>2. CASE Close(main) \/ Stop(main)
    <3>1. /\ cur' = cur /\ t' = t
          /\ \/ pc' = pc
             \/ \E l \in {"stop", "clear_sock", "test_pre", "free_t"} :
                  Goto(main, l)
      BY <2>2 DEF Close, Stop, Fault, slotVars
    <3> QED
      BY <1>0, <2>1, <3>1 DEF TypeOK, Goto, Stopping, HandlerPc, StopPc
  <2>3. CASE TestPre(main) \/ FreePre(main) \/ ClearPre(main)
    <3>1. /\ cur' = cur /\ t' = t
          /\ \/ pc' = pc
             \/ \E l \in {"free_pre", "clear_pre", "exited", "h_test"} :
                  Goto(main, l)
      BY <2>3 DEF TestPre, FreePre, ClearPre, Fault, StopReturns, slotVars
    <3> QED
      BY <1>0, <2>1, <3>1 DEF TypeOK, Goto, Stopping, HandlerPc, StopPc
  <2> QED
    BY <2>1, <2>2, <2>3
<1> QED
  BY <1>1, <1>2, <1>3 DEF Handler

(* Which steps of main take a slot or make a thread.                       *)
LEMMA MainSteps ==
  ASSUME Inv, MainLoop
  PROVE  /\ ~Stopping
         /\ \A c \in Conns : pc[c] # "none" => pc'[c] # "none"
         /\ \/ NewT \/ Create \/ Refuse
            \/ \E c \in Conns : Accept(c)
            \/ cur' = cur /\ t' = t /\ \A c \in Conns : pc'[c] = pc[c]
<1>0. TypeOK
  BY DEF Inv
<1>1. CASE Listen \/ Unlisten \/ NewPre \/ InitPre \/ SetSock
  <2>1. /\ cur' = cur /\ t' = t
        /\ pc' = pc \/ \E l : Goto(main, l)
    BY <1>1 DEF Listen, Unlisten, NewPre, InitPre, SetSock, Fault, slotVars
  <2>2. ~Stopping
    BY <1>1 DEF Listen, Unlisten, NewPre, InitPre, SetSock, At, Stopping,
                HandlerPc, StopPc
  <2> QED
    BY <1>0, <2>1, <2>2 DEF TypeOK, Goto
<1>2. CASE NewT \/ Refuse \/ \E c \in Conns : Accept(c)
  <2>1. pc' = pc \/ \E l : Goto(main, l)
    BY <1>2 DEF NewT, Refuse, Accept
  <2>2. ~Stopping
    BY <1>2 DEF NewT, Refuse, Accept, At, Stopping, HandlerPc, StopPc
  <2> QED
    BY <1>0, <1>2, <2>1, <2>2 DEF TypeOK, Goto
<1>3. CASE Create
  <2>1. ~Stopping
    BY <1>3 DEF Create, At, Stopping, HandlerPc, StopPc
  <2>2. \A c \in Conns : pc[c] # "none" => pc'[c] # "none"
    BY <1>0, <1>3 DEF TypeOK, Create, Goto
  <2> QED
    BY <1>3, <2>1, <2>2
<1> QED
  BY <1>1, <1>2, <1>3 DEF MainLoop

(* Clients change nothing in the server.                                   *)
LEMMA ClientSteps ==
  ASSUME Clients
  PROVE  cur' = cur /\ t' = t /\ pc' = pc
BY DEF Clients, ClientConnects, ClientLeaves, slotVars

(* Threads are never taken back: there are only ever more of them.         *)
LEMMA MoreThreads ==
  ASSUME \A c \in Conns : pc[c] # "none" => pc'[c] # "none"
  PROVE  Full => Full'
<1>1. IsFiniteSet(Threads) /\ IsFiniteSet(Threads')
  BY FS_Subset DEF Threads
<1>2. Threads \subseteq Threads'
  BY DEF Threads
<1>3. /\ Cardinality(Threads) \in Nat /\ Cardinality(Threads') \in Nat
      /\ Cardinality(Threads) <= Cardinality(Threads')
  BY <1>1, <1>2, FS_CardinalityType, FS_Subset
<1> QED
  BY <1>3 DEF Full

(* A slot without a thread is main's, or lost to the limit of threads.     *)
LEMMA LimitStep == Inv /\ LostToLimit /\ [Next]_vars => LostToLimit'
<1> SUFFICES ASSUME Inv, LostToLimit, [Next]_vars PROVE LostToLimit'
  OBVIOUS
<1>0. TypeOK /\ MainHolds
  BY DEF Inv
<1>1. CASE UNCHANGED vars
  BY <1>1 DEF LostToLimit, Stopping, Full, Threads, vars, slotVars
<1>2. CASE CatchShutdown \/ Handler
  BY <1>2, HandlerSteps DEF LostToLimit
<1>3. ASSUME cur' = cur, pc'[main] = pc[main],
             \A s \in Slots : t'[s] \in {t[s], NULL},
             \A c \in Conns : (pc'[c] = "none") <=> (pc[c] = "none")
      PROVE  LostToLimit'
  <2>1. \A s \in Slots : t[s] \in Conns \cup {NULL}
    BY <1>0 DEF TypeOK
  <2>2. Full' <=> Full
    <3>1. Threads' = Threads
      BY <1>3 DEF Threads
    <3> QED
      BY <3>1 DEF Full
  <2> QED
    BY <1>3, <2>1, <2>2 DEF LostToLimit, Stopping
<1>4. CASE Clients \/ \E c \in Conns : socket_loop(c)
  BY <1>3, <1>4, ClientSteps, ThreadSteps
<1>5. CASE MainLoop
  <2>0. /\ ~Stopping /\ \A c \in Conns : pc[c] # "none" => pc'[c] # "none"
        /\ Full => Full'
    BY <1>5, MainSteps, MoreThreads
  <2>1. \A s \in Slots : t[s] \in Conns \cup {NULL}
    BY <1>0 DEF TypeOK
  <2>2. CASE NewT
    <3>1. cur' = cur /\ \A s \in Slots : t'[s] \in {t[s], cur}
      BY <1>0, <2>2 DEF NewT, TypeOK
    <3> QED
      BY <2>0, <2>1, <3>1 DEF LostToLimit
  <2>3. CASE Create
    <3>1. /\ t' = t /\ pc[main] = "create" /\ cur \in Conns
      BY <1>0, <2>3 DEF Create, At, MainHolds, SetupPc, slotVars
    <3>2. pc'[cur] # "none" \/ Full'
      <4>1. CASE Cardinality(Threads) < MaxThreads
        BY <1>0, <2>3, <3>1, <4>1 DEF Create, TypeOK
      <4>2. CASE ~(Cardinality(Threads) < MaxThreads)
        <5>1. Cardinality(Threads) \in Nat
          BY FS_Subset, FS_CardinalityType DEF Threads
        <5> QED
          BY <2>0, <4>2, <5>1 DEF Full
      <4> QED
        BY <4>1, <4>2
    <3> QED
      BY <2>0, <2>1, <3>1, <3>2 DEF LostToLimit
  <2>4. CASE Refuse \/ \E c \in Conns : Accept(c)
    <3>1. /\ t' = t
          /\ cur = NULL \/ \A s \in Slots : t[s] # cur
      BY <1>0, <2>4 DEF Refuse, Accept, At, MainHolds, slotVars
    <3> QED
      BY <2>0, <2>1, <3>1 DEF LostToLimit
  <2>5. CASE cur' = cur /\ t' = t /\ \A c \in Conns : pc'[c] = pc[c]
    BY <2>0, <2>1, <2>5 DEF LostToLimit
  <2> QED
    BY <1>5, <2>2, <2>3, <2>4, <2>5, MainSteps
<1> QED
  BY <1>1, <1>2, <1>4, <1>5 DEF Next

(* The only slots lost for good are those whose pthread_create failed.     *)
THEOREM SlotsComeBackAlways == Spec => []SlotsComeBack
<1>1. Init => LostToLimit
  BY DEF Init, LostToLimit
<1>2. ASSUME Inv, LostToLimit PROVE SlotsComeBack
  BY <1>2 DEF Inv, Owned, Table, ThreadHolds, TypeOK, LostToLimit, Full,
               SlotsComeBack
<1> QED
  BY <1>1, <1>2, LimitStep, Invariance, PTL DEF Spec

-----------------------------------------------------------------------------
(* What the fields of a slot point to.                                     *)

(* A thread's cell is there until the thread itself frees it.              *)
CellsKept ==
  \A s \in Slots : t[s] # NULL => t[s] \in cells \/ pc[t[s]] = "clear_t"

(* When the handler has found a slot taken, a thread has worked on it, or  *)
(* none was ever created for it.                                           *)
HandlerSaw ==
  pc[main] \in {"h_stop", "h_join"} =>
    \/ \E c \in Conns : arg[c] = arg[main] /\ pc[c] # "none"
    \/ t[arg[main]] # NULL /\ pc[t[arg[main]]] = "none"

(* the thread of c has given back its slot but may not have freed its buffer*)
Leaving(c) == pc[c] \in {"test_pre", "free_pre", "clear_pre"}
Holding(c) == Serving(c) \/ Leaving(c)

OneHolder ==
  /\ \A c, d \in Conns :
       Holding(c) /\ Holding(d) /\ arg[c] = arg[d] => c = d
  /\ \A c \in Conns : Leaving(c) => arg[c] \in Slots /\ t[arg[c]] = NULL

(* A slot points to its own connection's buffer ...                        *)
OwnBuffer ==
  /\ \A s \in Slots : t[s] # NULL =>
       \/ pre_read_buff[s] = t[s]
       \/ pc[main] = "new_pre" /\ arg[main] = s
       \/ Stopping /\ pc[t[s]] = "none"
  /\ pc[main] = "new_pre" => pre_read_buff[arg[main]] = NULL
  /\ \A s \in Slots : pre_read_buff[s] # NULL /\ t[s] = NULL =>
       Stopping \/ \E c \in Conns : Leaving(c) /\ arg[c] = s

(* ... which is there unless somebody has freed it and not yet cleared the *)
(* field, and every buffer has a slot that points to it.                   *)
ClearsPre(s) == \E x \in Procs : pc[x] = "clear_pre" /\ arg[x] = s

BuffersThere ==
  /\ \A s \in Slots : pre_read_buff[s] # NULL =>
       pc[pre_read_buff[s]] # "none" \/ t[s] = pre_read_buff[s]
  /\ \A s, k \in Slots :
       pre_read_buff[s] # NULL /\ pre_read_buff[s] = pre_read_buff[k] => s = k
  /\ \A s \in Slots :
       pre_read_buff[s] # NULL => pre_read_buff[s] \in buffers \/ ClearsPre(s)
  /\ \A x \in Procs : pc[x] = "clear_pre" => pre_read_buff[arg[x]] \notin buffers
  /\ \A b \in buffers : \E s \in Slots : pre_read_buff[s] = b

(* The last three hold until a slot is handed out too early.               *)
Memory == OneHolder /\ OwnBuffer /\ BuffersThere
MemInv == CellsKept /\ HandlerSaw /\ (reused = {} => Memory)

-----------------------------------------------------------------------------
(* A step that is not about the memory of a slot.                          *)
SameHold(c) ==
  /\ arg'[c] = arg[c]
  /\ Serving(c)' <=> Serving(c)
  /\ Leaving(c)' <=> Leaving(c)
  /\ \A l \in {"none", "clear_t", "clear_pre"} : pc'[c] = l <=> pc[c] = l

MainAside ==
  /\ Stopping => Stopping'
  /\ pc[main] \notin {"new_pre", "clear_pre"}
  /\ pc'[main] \notin {"new_pre", "clear_pre"}
  /\ pc'[main] \in {"h_stop", "h_join"} =>
       pc[main] = "h_stop" /\ arg'[main] = arg[main]

Aside ==
  /\ t' = t /\ pre_read_buff' = pre_read_buff /\ cells' = cells
  /\ buffers' = buffers /\ reused' = reused
  /\ \A c \in Conns : SameHold(c)
  /\ \/ pc'[main] = pc[main] /\ arg'[main] = arg[main]
     \/ MainAside

(* A step that leaves the buffers alone keeps what is known of them.       *)
LEMMA AsideKeeps ==
  ASSUME Inv, MemInv, Aside
  PROVE  MemInv'
<1>0. /\ PointersTyped
      /\ \A s \in Slots : pre_read_buff[s] \in Conns \cup {NULL}
      /\ \A c \in Conns : c # main
  BY DEF Inv, TypeOK
<1>1. Stopping => Stopping'
  BY DEF Aside, MainAside, Stopping
<1>2. CellsKept'
  BY <1>0 DEF MemInv, CellsKept, Aside, SameHold
<1>3. HandlerSaw'
  <2>1. pc'[main] \in {"h_stop", "h_join"} =>
          pc[main] \in {"h_stop", "h_join"} /\ arg'[main] = arg[main]
    BY DEF Aside, MainAside
  <2>2. pc[main] \in {"h_stop", "h_join"} => arg[main] \in Slots
    BY DEF Inv, TypeOK, HandlerPc
  <2> QED
    BY <1>0, <2>1, <2>2 DEF MemInv, HandlerSaw, Aside, SameHold
<1>4. ASSUME Memory PROVE Memory'
  <2>1. OneHolder'
    BY <1>0, <1>4 DEF Memory, OneHolder, Holding, Aside, SameHold
  <2>2. OwnBuffer'
    BY <1>0, <1>1, <1>4 DEF Memory, OwnBuffer, Aside, SameHold, MainAside
  <2>3. \A x \in Procs :
          /\ pc'[x] = "clear_pre" <=> pc[x] = "clear_pre"
          /\ pc[x] = "clear_pre" => arg'[x] = arg[x]
    BY DEF Aside, SameHold, MainAside
  <2>4. BuffersThere'
    BY <1>0, <1>4, <2>3 DEF Memory, BuffersThere, ClearsPre, Aside, SameHold
  <2> QED
    BY <2>1, <2>2, <2>4 DEF Memory
<1> QED
  BY <1>2, <1>3, <1>4 DEF MemInv, Aside

(* The steps of a thread that leave the buffers alone.                     *)
LEMMA ThreadsAside ==
  ASSUME Inv, NEW c \in Conns,
         \/ Start(c) \/ RecvChunk(c) \/ RecvEnd(c) \/ Check(c) \/ Close(c)
         \/ ClearSock(c) \/ Stop(c)
  PROVE  Aside
<1>0. TypeOK /\ c # main
  BY DEF Inv
<1>1. /\ t' = t /\ pre_read_buff' = pre_read_buff /\ cells' = cells
      /\ buffers' = buffers /\ reused' = reused /\ arg' = arg
  BY DEF Start, RecvChunk, RecvEnd, Check, Close, ClearSock, Stop, slotVars,
         heapVars
<1>2. CASE pc' = pc
  BY <1>0, <1>1, <1>2 DEF Aside, SameHold, Serving, Leaving
<1>3. ASSUME NEW l \in {"recv", "check", "close", "clear_sock", "stop", "free_t"},
             Goto(c, l), Serving(c), pc[c] # "clear_t"
      PROVE  Aside
  <2>1. pc'[c] = l /\ \A x \in Procs \ {c} : pc'[x] = pc[x]
    BY <1>0, <1>3 DEF TypeOK, Goto
  <2>2. SameHold(c)
    BY <1>1, <1>3, <2>1 DEF SameHold, Serving, Leaving
  <2>3. \A d \in Conns \ {c} : SameHold(d)
    BY <1>1, <2>1 DEF SameHold, Serving, Leaving
  <2> QED
    BY <1>0, <1>1, <2>1, <2>2, <2>3 DEF Aside
<1>4. CASE Start(c) \/ RecvChunk(c) \/ RecvEnd(c) \/ Check(c)
  BY <1>3, <1>4 DEF Start, RecvChunk, RecvEnd, Check, At, Serving
<1>5. CASE Close(c) \/ ClearSock(c)
  BY <1>2, <1>3, <1>5 DEF Close, ClearSock, At, Serving, Fault
<1>6. CASE Stop(c)
  <2>1. pc[c] = "stop" /\ t[arg[c]] = c
    BY <1>6 DEF Inv, Owned, ThreadHolds, Stop, At, Serving
  <2> QED
    BY <1>3, <1>6, <2>1 DEF Stop, Serving
<1> QED
  BY <1>4, <1>5, <1>6

(* The steps of main that leave the buffers alone.                         *)
LEMMA MainsAside ==
  ASSUME Inv,
         \/ Listen \/ Unlisten \/ InitPre \/ SetSock \/ Refuse
         \/ \E c \in Conns : Accept(c)
  PROVE  Aside
<1>0. TypeOK /\ main \notin Conns
  BY DEF Inv
<1>1. /\ t' = t /\ pre_read_buff' = pre_read_buff /\ cells' = cells
      /\ buffers' = buffers /\ reused' = reused
      /\ arg' = arg \/ arg' = [arg EXCEPT ![main] = 0]
  BY DEF Listen, Unlisten, InitPre, SetSock, Refuse, Accept, slotVars, heapVars
<1>2. /\ pc[main] \in {"listen", "accept", "unlisten", "init_pre", "set_sock",
                       "refuse"}
      /\ \/ pc' = pc /\ arg' = arg
         \/ \E l \in {"accept", "exited", "unlisten", "new_t", "set_sock",
                      "create", "listen"} : Goto(main, l)
  BY DEF Listen, Unlisten, InitPre, SetSock, Refuse, Accept, Fault, At
<1>3. CASE pc' = pc /\ arg' = arg
  BY <1>1, <1>3 DEF Aside, SameHold, Serving, Leaving
<1>4. ASSUME NEW l \in {"accept", "exited", "unlisten", "new_t", "set_sock",
                        "create", "listen"},
             Goto(main, l)
      PROVE  Aside
  <2>1. pc'[main] = l /\ \A c \in Conns : pc'[c] = pc[c] /\ arg'[c] = arg[c]
    BY <1>0, <1>1, <1>4 DEF TypeOK, Goto
  <2>2. MainAside
    BY <1>2, <1>4, <2>1 DEF MainAside, Stopping, HandlerPc, StopPc
  <2>3. \A c \in Conns : SameHold(c)
    BY <2>1 DEF SameHold, Serving, Leaving
  <2> QED
    BY <1>1, <2>2, <2>3 DEF Aside
<1> QED
  BY <1>2, <1>3, <1>4

(* The steps of the handler that leave the buffers alone.                  *)
LEMMA HandlersAside ==
  ASSUME Inv,
         \/ HandlerStop \/ HandlerJoin \/ HandlerJoined
         \/ Close(main) \/ Stop(main)
  PROVE  Aside
<1>0. TypeOK /\ HandlerHolds /\ main \notin Conns
  BY DEF Inv
<1>1. /\ t' = t /\ pre_read_buff' = pre_read_buff /\ cells' = cells
      /\ buffers' = buffers /\ reused' = reused /\ arg' = arg
  BY DEF HandlerStop, HandlerJoin, HandlerJoined, Close, Stop, slotVars, heapVars
<1>2. /\ pc[main] \in {"h_stop", "h_join", "h_wait", "close", "stop"}
      /\ \/ pc' = pc
         \/ Goto(main, "h_join") /\ pc[main] = "h_stop"
         \/ \E l \in {"h_wait", "close", "clear_sock", "stop", "test_pre",
                      "free_t"} : Goto(main, l)
  BY DEF HandlerStop, HandlerJoin, HandlerJoined, Close, Stop, Fault, At
<1>3. CASE pc' = pc
  BY <1>1, <1>3 DEF Aside, SameHold, Serving, Leaving
<1>4. ASSUME NEW l \in {"h_join", "h_wait", "close", "clear_sock", "stop",
                        "test_pre", "free_t"},
             Goto(main, l), l = "h_join" => pc[main] = "h_stop"
      PROVE  Aside
  <2>1. pc'[main] = l /\ \A c \in Conns : pc'[c] = pc[c] /\ arg'[c] = arg[c]
    BY <1>0, <1>1, <1>4 DEF TypeOK, Goto
  <2>2. MainAside
    BY <1>1, <1>2, <1>4, <2>1 DEF MainAside, Stopping, HandlerPc, StopPc
  <2>3. \A c \in Conns : SameHold(c)
    BY <2>1 DEF SameHold, Serving, Leaving
  <2> QED
    BY <1>1, <2>2, <2>3 DEF Aside
<1> QED
  BY <1>2, <1>3, <1>4

(* Clients leave the buffers alone.                                        *)
LEMMA ClientsAside ==
  ASSUME Clients
  PROVE  Aside
BY DEF Clients, ClientConnects, ClientLeaves, slotVars, heapVars, Aside, SameHold,
       Serving, Leaving

-----------------------------------------------------------------------------
(* The steps that are about memory.                                        *)

(* While nobody reuses a slot early, a free slot points to nothing.        *)
LEMMA NewTKeeps ==
  ASSUME Inv, MemInv, NewT
  PROVE  MemInv'
<1>0. /\ TypeOK /\ main \notin Conns /\ PointersTyped
      /\ \A s \in Slots : pre_read_buff[s] \in Conns \cup {NULL}
  BY DEF Inv, TypeOK
<1>1. /\ pc[main] = "new_t" /\ cur \in Conns /\ pc[cur] = "none"
      /\ \A s \in Slots : t[s] # cur
      /\ arg[main] \in 0..NSlots /\ ~Stopping
  BY <1>0 DEF NewT, At, Inv, MainHolds, SetupPc, TypeOK, Stopping, HandlerPc, StopPc
<1>2. pre_read_buff' = pre_read_buff /\ buffers' = buffers
  BY DEF NewT
<1>3. CASE arg[main] = NSlots \/ t[arg[main]] # NULL
  <2>1. /\ t' = t /\ cells' = cells /\ reused' = reused
        /\ \A c \in Conns : pc'[c] = pc[c] /\ arg'[c] = arg[c]
        /\ pc'[main] \in {"refuse", "new_t"}
    BY <1>0, <1>1, <1>3 DEF NewT, TypeOK, Goto
  <2>2. \A c \in Conns : SameHold(c)
    BY <2>1 DEF SameHold, Serving, Leaving
  <2>3. MainAside
    BY <1>1, <2>1 DEF MainAside
  <2> QED
    BY <1>2, <2>1, <2>2, <2>3, AsideKeeps DEF Aside
<1>4. CASE arg[main] # NSlots /\ t[arg[main]] = NULL
  <2> DEFINE s == arg[main]
  <2>1. /\ t' = [t EXCEPT ![s] = cur] /\ cells' = cells \cup {cur}
        /\ arg' = arg /\ Goto(main, "new_pre")
        /\ reused' = {} => reused = {} /\ \A c \in Conns : arg[c] = s => ~Leaving(c)
    BY <1>4 DEF NewT, Leaving, StopPc
  <2>2. s \in Slots
    BY <1>1, <1>4 DEF Slots
  <2>3. /\ t'[s] = cur /\ \A k \in Slots \ {s} : t'[k] = t[k]
        /\ pc'[main] = "new_pre" /\ \A c \in Conns : pc'[c] = pc[c]
    BY <1>0, <2>1, <2>2 DEF TypeOK, Goto
  <2> HIDE DEF s
  <2>4. CellsKept'
    BY <1>0, <1>1, <2>1, <2>2, <2>3 DEF MemInv, CellsKept
  <2>5. HandlerSaw'
    BY <2>3 DEF HandlerSaw
  <2>6. \A c \in Conns : /\ Serving(c)' <=> Serving(c)
                         /\ Leaving(c)' <=> Leaving(c)
    BY <2>3 DEF Serving, Leaving
  <2>7. ASSUME reused' = {} PROVE Memory'
    <3>1. Memory /\ \A c \in Conns : arg[c] = s => ~Leaving(c)
      BY <2>1, <2>7 DEF MemInv
    <3>2. pre_read_buff[s] = NULL
      BY <1>1, <1>4, <2>2, <3>1 DEF Memory, OwnBuffer, s
    <3>3. OneHolder'
      BY <2>1, <2>2, <2>3, <2>6, <3>1 DEF Memory, OneHolder, Holding
    <3>4. OwnBuffer'
      <4>1. \A k \in Slots \ {s} : t[k] # NULL => pre_read_buff[k] = t[k]
        BY <1>1, <3>1 DEF Memory, OwnBuffer
      <4> QED
        BY <1>1, <1>2, <2>1, <2>2, <2>3, <2>6, <3>1, <3>2, <4>1
           DEF Memory, OwnBuffer, s
    <3>5. \A x \in Procs : pc'[x] = "clear_pre" <=> pc[x] = "clear_pre"
      BY <1>1, <2>3
    <3>6. BuffersThere'
      BY <1>0, <1>2, <2>1, <2>2, <2>3, <3>1, <3>2, <3>5
         DEF Memory, BuffersThere, ClearsPre
    <3> QED
      BY <3>3, <3>4, <3>6 DEF Memory
  <2> QED
    BY <2>4, <2>5, <2>7 DEF MemInv
<1> QED
  BY <1>3, <1>4

(* A new buffer belongs to the slot that main has just taken.              *)
LEMMA NewPreKeeps ==
  ASSUME Inv, MemInv, NewPre
  PROVE  MemInv'
<1>0. /\ TypeOK /\ main \notin Conns /\ PointersTyped
      /\ \A s \in Slots : pre_read_buff[s] \in Conns \cup {NULL}
  BY DEF Inv, TypeOK
<1> DEFINE s == arg[main]
<1>1. /\ pc[main] = "new_pre" /\ cur \in Conns /\ pc[cur] = "none"
      /\ s \in Slots /\ t[s] = cur /\ ~Stopping
  BY <1>0 DEF NewPre, At, Inv, MainHolds, SetupPc, TypeOK, Stopping, HandlerPc,
              StopPc
<1>2. /\ pre_read_buff' = [pre_read_buff EXCEPT ![s] = cur]
      /\ buffers' = buffers \cup {cur} /\ Goto(main, "init_pre")
      /\ t' = t /\ arg' = arg /\ cells' = cells /\ reused' = reused
  BY DEF NewPre
<1>3. /\ pre_read_buff'[s] = cur
      /\ \A k \in Slots \ {s} : pre_read_buff'[k] = pre_read_buff[k]
      /\ pc'[main] = "init_pre" /\ \A c \in Conns : pc'[c] = pc[c]
  BY <1>0, <1>1, <1>2 DEF TypeOK, Goto
<1>4. CellsKept' /\ HandlerSaw'
  BY <1>0, <1>2, <1>3 DEF MemInv, CellsKept, HandlerSaw
<1>5. \A c \in Conns : /\ Serving(c)' <=> Serving(c)
                       /\ Leaving(c)' <=> Leaving(c)
  BY <1>3 DEF Serving, Leaving
<1>6. ASSUME Memory PROVE Memory'
  <2>1. OneHolder'
    BY <1>2, <1>5, <1>6 DEF Memory, OneHolder, Holding
  <2>2. OwnBuffer'
    <3>1. \A k \in Slots \ {s} : t[k] # NULL => pre_read_buff[k] = t[k]
      BY <1>1, <1>6 DEF Memory, OwnBuffer
    <3> QED
      BY <1>1, <1>2, <1>3, <1>5, <1>6, <3>1 DEF Memory, OwnBuffer
  <2>3. \A k \in Slots : pre_read_buff[k] # cur
    <3>1. ASSUME NEW k \in Slots, pre_read_buff[k] = cur PROVE FALSE
      <4>1. t[k] = cur
        BY <1>1, <1>6, <3>1 DEF Memory, BuffersThere
      <4>2. k = s
        BY <1>1, <4>1 DEF Inv, Owned, Table
      <4> QED
        BY <1>1, <1>6, <3>1, <4>2 DEF Memory, OwnBuffer
    <3> QED
      BY <3>1
  <2>4. \A x \in Procs : /\ pc'[x] = "clear_pre" <=> pc[x] = "clear_pre"
                         /\ pc[x] = "clear_pre" => arg[x] \in Slots \ {s}
    BY <1>1, <1>3, <1>6 DEF Memory, OneHolder, Leaving
  <2> HIDE DEF s
  <2>5. \A k \in Slots : pre_read_buff'[k] # NULL =>
          /\ pc'[pre_read_buff'[k]] # "none" \/ t'[k] = pre_read_buff'[k]
          /\ pre_read_buff'[k] \in buffers' \/ ClearsPre(k)'
    <3>1. ASSUME NEW k \in Slots \ {s}, pre_read_buff[k] # NULL
          PROVE  /\ pc'[pre_read_buff[k]] # "none" \/ t[k] = pre_read_buff[k]
                 /\ pre_read_buff[k] \in buffers \/ ClearsPre(k)'
      BY <1>0, <1>2, <1>3, <1>6, <2>4, <3>1 DEF Memory, BuffersThere, ClearsPre
    <3> QED
      BY <1>1, <1>2, <1>3, <3>1
  <2>6. \A j, k \in Slots : pre_read_buff'[j] # NULL
          /\ pre_read_buff'[j] = pre_read_buff'[k] => j = k
    BY <1>3, <1>6, <2>3 DEF Memory, BuffersThere
  <2>7. \A x \in Procs :
          pc'[x] = "clear_pre" => pre_read_buff'[arg'[x]] \notin buffers'
    BY <1>2, <1>3, <1>6, <2>3, <2>4 DEF Memory, BuffersThere
  <2>8. \A b \in buffers' : \E k \in Slots : pre_read_buff'[k] = b
    <3>1. ASSUME NEW b \in buffers PROVE \E k \in Slots : pre_read_buff'[k] = b
      <4>1. PICK k \in Slots : pre_read_buff[k] = b
        BY <1>6 DEF Memory, BuffersThere
      <4>2. k # s
        BY <1>0, <1>1, <1>6, <4>1 DEF Memory, OwnBuffer, s, TypeOK
      <4> QED
        BY <1>3, <4>1, <4>2
    <3> QED
      BY <1>1, <1>2, <1>3, <3>1
  <2>9. BuffersThere'
    BY <2>5, <2>6, <2>7, <2>8 DEF BuffersThere
  <2> QED
    BY <2>1, <2>2, <2>9 DEF Memory
<1> QED
  BY <1>2, <1>4, <1>6 DEF MemInv

(* The buffer passes from main to the thread it creates.                   *)
LEMMA CreateKeeps ==
  ASSUME Inv, MemInv, Create
  PROVE  MemInv'
<1>0. /\ TypeOK /\ main \notin Conns /\ PointersTyped
      /\ \A s \in Slots : pre_read_buff[s] \in Conns \cup {NULL}
  BY DEF Inv, TypeOK
<1>1. /\ pc[main] = "create" /\ cur \in Conns /\ pc[cur] = "none"
      /\ arg[main] \in Slots /\ t[arg[main]] = cur /\ ~Stopping
  BY <1>0 DEF Create, At, Inv, MainHolds, SetupPc, TypeOK, Stopping, HandlerPc,
              StopPc
<1>k. PICK k \in Conns : k = cur
  BY <1>1
<1>2. /\ t' = t /\ pre_read_buff' = pre_read_buff /\ cells' = cells
      /\ buffers' = buffers /\ reused' = reused
      /\ pc'[main] = "listen" /\ \A c \in Conns \ {k} : pc'[c] = pc[c]
      /\ arg'[main] = arg[main] /\ \A c \in Conns \ {k} : arg'[c] = arg[c]
      /\ \/ pc'[k] = "start" /\ arg'[k] = arg[main]
         \/ pc'[k] = "none" /\ arg'[k] = arg[k]
  BY <1>0, <1>1, <1>k DEF Create, TypeOK, Goto, slotVars, heapVars
<1>3. CellsKept' /\ HandlerSaw'
  BY <1>0, <1>1, <1>k, <1>2 DEF MemInv, CellsKept, HandlerSaw
<1>4. /\ \A c \in Conns \ {k} : /\ Serving(c)' <=> Serving(c)
                                /\ Leaving(c)' <=> Leaving(c)
      /\ ~Leaving(k) /\ ~Leaving(k)'
      /\ Serving(k)' => arg'[k] = arg[main]
  <2>1. ASSUME NEW c \in Conns \ {k}
        PROVE  (Serving(c)' <=> Serving(c)) /\ (Leaving(c)' <=> Leaving(c))
    BY <1>2, <2>1 DEF Serving, Leaving
  <2>2. ~Leaving(k) /\ ~Leaving(k)'
    BY <1>1, <1>k, <1>2 DEF Leaving
  <2>3. Serving(k)' => arg'[k] = arg[main]
    BY <1>2 DEF Serving
  <2> QED
    BY <2>1, <2>2, <2>3
<1>5. ASSUME Memory PROVE Memory'
  <2>1. OneHolder'
    <3>1. ASSUME NEW c \in Conns \ {k}, Holding(c)
          PROVE  arg[c] # arg[main]
      BY <1>1, <1>k, <1>5, <3>1 DEF Memory, OneHolder, Holding, Inv, Owned, ThreadHolds
    <3> QED
      BY <1>2, <1>4, <1>5, <3>1 DEF Memory, OneHolder, Holding
  <2>2. OwnBuffer'
    BY <1>0, <1>1, <1>k, <1>2, <1>4, <1>5 DEF Memory, OwnBuffer
  <2>3. \A x \in Procs :
          /\ pc'[x] = "clear_pre" <=> pc[x] = "clear_pre"
          /\ pc[x] = "clear_pre" => arg'[x] = arg[x]
    BY <1>1, <1>k, <1>2
  <2>4. BuffersThere'
    BY <1>0, <1>1, <1>k, <1>2, <1>5, <2>3 DEF Memory, BuffersThere, ClearsPre
  <2> QED
    BY <2>1, <2>2, <2>4 DEF Memory
<1> QED
  BY <1>2, <1>3, <1>5 DEF MemInv

(* The handler begins, wherever main is, and looks at a slot.              *)
LEMMA HandlerLooks ==
  ASSUME Inv, MemInv, CatchShutdown \/ HandlerTest
  PROVE  MemInv'
<1>0. /\ TypeOK /\ main \notin Conns /\ PointersTyped
      /\ \A s \in Slots : pre_read_buff[s] \in Conns \cup {NULL}
  BY DEF Inv, TypeOK
<1>1. /\ t' = t /\ pre_read_buff' = pre_read_buff /\ cells' = cells
      /\ buffers' = buffers /\ reused' = reused
      /\ arg' = arg \/ arg' = [arg EXCEPT ![main] = 0]
      /\ \E l \in {"h_test", "close", "h_stop"} : Goto(main, l)
  BY DEF CatchShutdown, HandlerTest, slotVars, heapVars
<1>2. /\ pc[main] # "clear_pre"
      /\ pc[main] = "new_pre" => t[arg[main]] = cur /\ pc[cur] = "none"
  BY DEF CatchShutdown, HandlerTest, At, Stopping, HandlerPc, StopPc, Inv, MainHolds,
         SetupPc
<1>3. /\ pc'[main] \in {"h_test", "close", "h_stop"}
      /\ \A c \in Conns : pc'[c] = pc[c] /\ arg'[c] = arg[c]
  BY <1>0, <1>1 DEF TypeOK, Goto
<1>4. Stopping'
  BY <1>3 DEF Stopping, HandlerPc, StopPc
<1>5. CellsKept'
  BY <1>0, <1>1, <1>3 DEF MemInv, CellsKept
<1>6. HandlerSaw'
  <2>1. ASSUME pc'[main] \in {"h_stop", "h_join"}
        PROVE  arg' = arg /\ arg[main] \in Slots /\ t[arg[main]] # NULL
    BY <1>0, <2>1 DEF CatchShutdown, HandlerTest, Goto, At, TypeOK, HandlerPc
  <2> QED
    BY <1>0, <1>1, <1>3, <2>1
       DEF HandlerSaw, Inv, Owned, Table, ThreadHolds, Serving
<1>7. ASSUME Memory PROVE Memory'
  <2>1. \A c \in Conns : /\ Serving(c)' <=> Serving(c)
                         /\ Leaving(c)' <=> Leaving(c)
    BY <1>3 DEF Serving, Leaving
  <2>2. OneHolder'
    BY <1>1, <1>3, <1>7, <2>1 DEF Memory, OneHolder, Holding
  <2>3. OwnBuffer'
    BY <1>0, <1>1, <1>2, <1>3, <1>4, <1>7 DEF Memory, OwnBuffer
  <2>4. \A x \in Procs :
          /\ pc'[x] = "clear_pre" <=> pc[x] = "clear_pre"
          /\ pc[x] = "clear_pre" => arg'[x] = arg[x]
    BY <1>2, <1>3
  <2>5. BuffersThere'
    BY <1>0, <1>1, <1>3, <1>7, <2>4 DEF Memory, BuffersThere, ClearsPre
  <2> QED
    BY <2>2, <2>3, <2>5 DEF Memory
<1> QED
  BY <1>1, <1>5, <1>6, <1>7 DEF MemInv

(* A thread frees its cell, which is there, and gives its slot back.       *)
LEMMA GivesBack ==
  ASSUME Inv, MemInv, NEW c \in Conns, FreeT(c) \/ ClearT(c)
  PROVE  MemInv' /\ fault' = fault
<1>0. /\ TypeOK /\ c # main /\ PointersTyped
      /\ \A s \in Slots : pre_read_buff[s] \in Conns \cup {NULL}
  BY DEF Inv, TypeOK
<1> DEFINE s == arg[c]
<1>1. /\ s \in Slots /\ t[s] = c /\ Serving(c) /\ pc[c] \in {"free_t", "clear_t"}
      /\ \A k \in Slots \ {s} : t[k] # c
  <2>1. pc[c] \in {"free_t", "clear_t"} /\ Serving(c)
    BY DEF FreeT, ClearT, At, Serving
  <2>2. s \in Slots /\ t[s] = c
    BY <2>1 DEF Inv, Owned, ThreadHolds
  <2> QED
    BY <2>1, <2>2 DEF Inv, Owned, Table
<1>2. CASE FreeT(c)
  <2>1. c \in cells
    BY <1>1, <1>2 DEF MemInv, CellsKept, FreeT, At
  <2>2. /\ cells' = cells \ {c} /\ Goto(c, "clear_t") /\ fault' = fault
        /\ t' = t /\ pre_read_buff' = pre_read_buff /\ buffers' = buffers
        /\ reused' = reused /\ arg' = arg /\ pc[c] = "free_t"
    BY <1>1, <1>2, <2>1 DEF FreeT, At, slotVars
  <2>3. pc'[c] = "clear_t" /\ \A x \in Procs \ {c} : pc'[x] = pc[x]
    BY <1>0, <2>2 DEF TypeOK, Goto
  <2>4. CellsKept'
    BY <1>0, <1>1, <2>2, <2>3 DEF MemInv, CellsKept
  <2>5. HandlerSaw'
    <3>1. pc[main] \in {"h_stop", "h_join"} => arg[main] \in Slots
      BY <1>0 DEF TypeOK, HandlerPc
    <3> QED
      BY <1>0, <2>2, <2>3, <3>1 DEF MemInv, HandlerSaw
  <2>6. ASSUME Memory PROVE Memory'
    <3>1. \A d \in Conns : /\ Serving(d)' <=> Serving(d)
                           /\ Leaving(d)' <=> Leaving(d)
      BY <1>1, <2>2, <2>3 DEF Serving, Leaving
    <3>2. OneHolder'
      BY <2>2, <2>6, <3>1 DEF Memory, OneHolder, Holding
    <3>3. OwnBuffer'
      BY <1>0, <2>2, <2>3, <2>6, <3>1 DEF Memory, OwnBuffer, Stopping
    <3>4. BuffersThere'
      BY <1>0, <2>2, <2>3, <2>6 DEF Memory, BuffersThere, ClearsPre
    <3> QED
      BY <3>2, <3>3, <3>4 DEF Memory
  <2> QED
    BY <2>2, <2>4, <2>5, <2>6 DEF MemInv
<1>3. CASE ClearT(c)
  <2>1. /\ t' = [t EXCEPT ![s] = NULL] /\ Goto(c, "test_pre") /\ fault' = fault
        /\ cells' = cells /\ pre_read_buff' = pre_read_buff
        /\ buffers' = buffers /\ reused' = reused /\ arg' = arg
        /\ pc[c] = "clear_t"
    BY <1>3 DEF ClearT, At, heapVars
  <2>2. /\ pc'[c] = "test_pre" /\ \A x \in Procs \ {c} : pc'[x] = pc[x]
        /\ t'[s] = NULL /\ \A k \in Slots \ {s} : t'[k] = t[k]
    BY <1>0, <1>1, <2>1 DEF TypeOK, Goto
  <2> HIDE DEF s
  <2>3. CellsKept'
    BY <1>0, <1>1, <2>1, <2>2 DEF MemInv, CellsKept
  <2>4. HandlerSaw'
    <3>1. pc[main] \in {"h_stop", "h_join"} => arg[main] \in Slots
      BY <1>0 DEF TypeOK, HandlerPc
    <3> QED
      BY <1>0, <1>1, <2>1, <2>2, <3>1 DEF MemInv, HandlerSaw, s
  <2>5. ASSUME Memory PROVE Memory'
    <3>1. /\ \A d \in Conns \ {c} : /\ Serving(d)' <=> Serving(d)
                                    /\ Leaving(d)' <=> Leaving(d)
          /\ Leaving(c)' /\ ~Leaving(c) /\ ~Serving(c)'
      BY <2>1, <2>2 DEF Serving, Leaving
    <3>2. OneHolder'
      BY <1>0, <1>1, <2>1, <2>2, <2>5, <3>1 DEF Memory, OneHolder, Holding, s
    <3>3. OwnBuffer'
      BY <1>0, <1>1, <2>1, <2>2, <2>5, <3>1 DEF Memory, OwnBuffer, Stopping, s
    <3>4. \A x \in Procs : pc'[x] = "clear_pre" <=> pc[x] = "clear_pre"
      BY <2>1, <2>2
    <3>5. BuffersThere'
      BY <1>0, <1>1, <2>1, <2>2, <2>5, <3>4 DEF Memory, BuffersThere, ClearsPre
    <3> QED
      BY <3>2, <3>3, <3>5 DEF Memory
  <2> QED
    BY <2>1, <2>3, <2>4, <2>5 DEF MemInv
<1> QED
  BY <1>2, <1>3

(* The end of _stopThread, for a thread and for the handler.               *)
LEMMA TestsBuffer ==
  ASSUME Inv, MemInv, NEW x \in Procs, TestPre(x)
  PROVE  MemInv' /\ fault' = fault
<1>0. /\ TypeOK /\ HandlerHolds /\ main \notin Conns /\ PointersTyped
      /\ \A s \in Slots : pre_read_buff[s] \in Conns \cup {NULL}
  BY DEF Inv, TypeOK
<1>1. /\ t' = t /\ pre_read_buff' = pre_read_buff /\ cells' = cells
      /\ buffers' = buffers /\ reused' = reused /\ fault' = fault
      /\ pc[x] = "test_pre"
  BY DEF TestPre, At, slotVars, heapVars
<1>2. CASE x = main
  <2>1. /\ pc'[main] \in {"free_pre", "exited", "h_test"}
        /\ \A c \in Conns : pc'[c] = pc[c] /\ arg'[c] = arg[c]
    BY <1>0, <1>2 DEF TestPre, StopReturns, Goto, TypeOK
  <2>2. MainAside
    BY <1>1, <1>2, <2>1 DEF MainAside, Stopping, HandlerPc, StopPc
  <2>3. \A c \in Conns : SameHold(c)
    BY <2>1 DEF SameHold, Serving, Leaving
  <2> QED
    BY <1>1, <2>2, <2>3, AsideKeeps DEF Aside
<1>3. CASE x \in Conns
  <2>1. /\ arg' = arg /\ \A y \in Procs \ {x} : pc'[y] = pc[y]
        /\ \/ pc'[x] = "free_pre"
           \/ pc'[x] = "done" /\ pre_read_buff[arg[x]] = NULL
    <3>1. x # main
      BY <1>0, <1>3
    <3>2. /\ arg' = arg
          /\ \/ Goto(x, "free_pre")
             \/ Goto(x, "done") /\ pre_read_buff[arg[x]] = NULL
      BY <3>1 DEF TestPre, StopReturns
    <3>3. \A l : Goto(x, l) => pc'[x] = l /\ \A y \in Procs \ {x} : pc'[y] = pc[y]
      BY <1>0 DEF Goto, TypeOK
    <3> QED
      BY <3>2, <3>3
  <2>2. pc'[main] = pc[main]
    BY <1>0, <1>3, <2>1
  <2>3. CellsKept'
    BY <1>0, <1>1, <2>1 DEF MemInv, CellsKept
  <2>4. HandlerSaw'
    <3>1. pc[main] \in {"h_stop", "h_join"} => arg[main] \in Slots
      BY <1>0 DEF TypeOK, HandlerPc
    <3> QED
      BY <1>0, <1>1, <2>1, <2>2, <3>1 DEF MemInv, HandlerSaw
  <2>5. ASSUME Memory PROVE Memory'
    <3>1. /\ \A d \in Conns : Serving(d)' <=> Serving(d)
          /\ \A d \in Conns \ {x} : Leaving(d)' <=> Leaving(d)
      BY <1>1, <2>1 DEF Serving, Leaving
    <3>2. Leaving(x) /\ (Leaving(x)' \/ pre_read_buff[arg[x]] = NULL)
      BY <1>1, <2>1 DEF Leaving
    <3>3. OneHolder'
      BY <1>1, <1>3, <2>1, <2>5, <3>1, <3>2 DEF Memory, OneHolder, Holding
    <3>4. OwnBuffer'
      BY <1>0, <1>1, <2>1, <2>2, <2>5, <3>1, <3>2
         DEF Memory, OwnBuffer, Stopping
    <3>5. \A y \in Procs : pc'[y] = "clear_pre" <=> pc[y] = "clear_pre"
      BY <1>1, <2>1
    <3>6. BuffersThere'
      BY <1>0, <1>1, <2>1, <2>5, <3>5 DEF Memory, BuffersThere, ClearsPre
    <3> QED
      BY <3>3, <3>4, <3>6 DEF Memory
  <2> QED
    BY <1>1, <2>3, <2>4, <2>5 DEF MemInv
<1> QED
  BY <1>2, <1>3

(* Whoever frees a buffer is about to clear the field.                     *)
LEMMA FreesBuffer ==
  ASSUME Inv, MemInv, NEW x \in Procs, FreePre(x)
  PROVE  MemInv'
<1>0. /\ TypeOK /\ main \notin Conns /\ PointersTyped
      /\ \A s \in Slots : pre_read_buff[s] \in Conns \cup {NULL}
  BY DEF Inv, TypeOK
<1> DEFINE s == arg[x]
           b == pre_read_buff[s]
<1>1. /\ t' = t /\ pre_read_buff' = pre_read_buff /\ cells' = cells
      /\ reused' = reused /\ arg' = arg /\ pc[x] = "free_pre"
  BY DEF FreePre, At, slotVars
<1>2. CASE buffers' = buffers /\ pc' = pc
  <2>1. \A c \in Conns : SameHold(c)
    BY <1>1, <1>2 DEF SameHold, Serving, Leaving
  <2> QED
    BY <1>1, <1>2, <2>1, AsideKeeps DEF Aside
<1>3. CASE buffers' = buffers \ {b} /\ Goto(x, "clear_pre")
  <2>1. pc'[x] = "clear_pre" /\ \A y \in Procs \ {x} : pc'[y] = pc[y]
    BY <1>0, <1>3 DEF Goto, TypeOK
  <2>2. CellsKept'
    BY <1>0, <1>1, <2>1 DEF MemInv, CellsKept
  <2>3. HandlerSaw'
    <3>1. pc[main] \in {"h_stop", "h_join"} => arg[main] \in Slots
      BY <1>0 DEF TypeOK, HandlerPc
    <3> QED
      BY <1>0, <1>1, <2>1, <3>1 DEF MemInv, HandlerSaw
  <2>4. ASSUME Memory PROVE Memory'
    <3>1. s \in Slots
      <4>1. x \in Conns => Leaving(x)
        BY <1>1 DEF Leaving
      <4>2. pc[main] = "free_pre" => arg[main] \in Slots
        BY <1>0 DEF TypeOK, HandlerPc, StopPc
      <4> QED
        BY <1>1, <2>4, <4>1, <4>2 DEF Memory, OneHolder
    <3>2. \A d \in Conns : /\ Serving(d)' <=> Serving(d)
                           /\ Leaving(d)' <=> Leaving(d)
      BY <1>1, <2>1 DEF Serving, Leaving
    <3>3. /\ Stopping' <=> Stopping
          /\ pc'[main] = "new_pre" <=> pc[main] = "new_pre"
      BY <1>1, <2>1 DEF Stopping, HandlerPc, StopPc
    <3>4. OneHolder'
      BY <1>1, <2>4, <3>2 DEF Memory, OneHolder, Holding
    <3>5. OwnBuffer'
      BY <1>0, <1>1, <2>1, <2>4, <3>2, <3>3 DEF Memory, OwnBuffer
    <3> HIDE DEF s
    <3>6. \A k \in Slots : pre_read_buff[k] # NULL =>
            pre_read_buff[k] \in buffers' \/ ClearsPre(k)'
      <4>2. \A k \in Slots : ClearsPre(k) => ClearsPre(k)'
        BY <1>1, <2>1 DEF ClearsPre
      <4>3. ASSUME NEW k \in Slots, pre_read_buff[k] # NULL
            PROVE  pre_read_buff[k] \in buffers' \/ ClearsPre(k)'
        <5>1. CASE k = s
          BY <1>1, <2>1, <5>1 DEF ClearsPre, s
        <5>2. CASE k # s
          <6>1. pre_read_buff[k] # b
            BY <2>4, <3>1, <4>3, <5>2 DEF Memory, BuffersThere
          <6>2. pre_read_buff[k] \in buffers \/ ClearsPre(k)
            BY <2>4, <4>3 DEF Memory, BuffersThere
          <6> QED
            BY <1>3, <4>2, <6>1, <6>2
        <5> QED
          BY <5>1, <5>2
      <4> QED
        BY <4>3
    <3>7. \A y \in Procs : pc'[y] = "clear_pre" => pre_read_buff[arg[y]] \notin buffers'
      BY <1>3, <2>1, <2>4 DEF Memory, BuffersThere, s
    <3>8. BuffersThere'
      <4>1. \A k \in Slots : pre_read_buff[k] # NULL =>
              pc'[pre_read_buff[k]] # "none" \/ t[k] = pre_read_buff[k]
        BY <1>0, <2>1, <2>4 DEF Memory, BuffersThere
      <4> QED
        BY <1>1, <1>3, <2>4, <3>6, <3>7, <4>1 DEF Memory, BuffersThere
    <3> QED
      BY <3>4, <3>5, <3>8 DEF Memory
  <2> QED
    BY <1>1, <2>2, <2>3, <2>4 DEF MemInv
<1> QED
  BY <1>2, <1>3 DEF FreePre, Fault

(* Clearing the field touches no freed memory.                             *)
LEMMA ForgetsBuffer ==
  ASSUME Inv, MemInv, NEW x \in Procs, ClearPre(x)
  PROVE  MemInv' /\ fault' = fault
<1>0. /\ TypeOK /\ HandlerHolds /\ main \notin Conns /\ PointersTyped
      /\ \A s \in Slots : pre_read_buff[s] \in Conns \cup {NULL}
  BY DEF Inv, TypeOK
<1> DEFINE s == arg[x]
<1>1. /\ pre_read_buff' = [pre_read_buff EXCEPT ![s] = NULL] /\ t' = t
      /\ cells' = cells /\ buffers' = buffers /\ reused' = reused
      /\ fault' = fault /\ pc[x] = "clear_pre"
  BY DEF ClearPre, At, heapVars
<1>2. /\ \A y \in Procs \ {x} : pc'[y] = pc[y] /\ arg'[y] = arg[y]
      /\ IF x = main THEN pc'[main] \in {"exited", "h_test"}
         ELSE pc'[x] = "done" /\ arg'[x] = s
  BY <1>0 DEF ClearPre, StopReturns, Goto, TypeOK
<1>3. CellsKept'
  BY <1>0, <1>1, <1>2 DEF MemInv, CellsKept
<1>4. HandlerSaw'
  <2>1. pc[main] \in {"h_stop", "h_join"} => arg[main] \in Slots
    BY <1>0 DEF TypeOK, HandlerPc
  <2> QED
    BY <1>0, <1>1, <1>2, <2>1 DEF MemInv, HandlerSaw
<1>5. ASSUME Memory PROVE Memory'
  <2>1. x \in Conns => Leaving(x)
    BY <1>1 DEF Leaving
  <2>2. s \in Slots /\ t[s] = NULL
    <3>1. pc[main] = "clear_pre" => arg[main] \in Slots /\ t[arg[main]] = NULL
      BY <1>0 DEF TypeOK, HandlerHolds, HandlerPc, StopPc
    <3> QED
      BY <1>1, <1>5, <2>1, <3>1 DEF Memory, OneHolder
  <2>3. /\ pre_read_buff'[s] = NULL
        /\ \A k \in Slots \ {s} : pre_read_buff'[k] = pre_read_buff[k]
    BY <1>0, <1>1, <2>2 DEF TypeOK
  <2>4. /\ \A d \in Conns \ {x} : /\ Serving(d)' <=> Serving(d)
                                  /\ Leaving(d)' <=> Leaving(d)
        /\ x \in Conns => ~Serving(x)' /\ ~Leaving(x)'
    BY <1>0, <1>2 DEF Serving, Leaving
  <2>5. /\ Stopping => Stopping'
        /\ pc'[main] = "new_pre" => pc[main] = "new_pre" /\ arg'[main] = arg[main]
        /\ pc'[main] # pc[main] => Stopping'
    BY <1>1, <1>2 DEF Stopping, HandlerPc, StopPc
  <2>6. OneHolder'
    BY <1>1, <1>2, <1>5, <2>4 DEF Memory, OneHolder, Holding
  <2> HIDE DEF s
  <2>7. OwnBuffer'
    <3>1. \A k \in Slots : t[k] # NULL =>
            \/ pre_read_buff'[k] = t[k]
            \/ pc'[main] = "new_pre" /\ arg'[main] = k
            \/ Stopping' /\ pc'[t[k]] = "none"
      <4>1. ASSUME NEW k \in Slots, t[k] # NULL
            PROVE  \/ pre_read_buff'[k] = t[k]
                   \/ pc'[main] = "new_pre" /\ arg'[main] = k
                   \/ Stopping' /\ pc'[t[k]] = "none"
        <5>1. k # s /\ pre_read_buff'[k] = pre_read_buff[k]
          BY <2>2, <2>3, <4>1
        <5>2. CASE pc[main] = "new_pre" /\ arg[main] = k
          <6>1. x # main
            BY <1>1, <5>2
          <6> QED
            BY <1>2, <5>2, <6>1
        <5>3. CASE Stopping /\ pc[t[k]] = "none"
          <6>1. t[k] \in Procs \ {x}
            BY <1>0, <1>1, <4>1, <5>3
          <6> QED
            BY <1>2, <2>5, <5>3, <6>1
        <5> QED
          BY <1>5, <4>1, <5>1, <5>2, <5>3 DEF Memory, OwnBuffer
      <4> QED
        BY <4>1
    <3>2. pc'[main] = "new_pre" => pre_read_buff'[arg'[main]] = NULL
      <4>1. pc[main] = "new_pre" => arg[main] \in Slots
        BY <1>0 DEF TypeOK, SetupPc
      <4> QED
        BY <1>5, <2>3, <2>5, <4>1 DEF Memory, OwnBuffer
    <3>3. \A k \in Slots : pre_read_buff'[k] # NULL /\ t[k] = NULL =>
            Stopping' \/ \E c \in Conns : Leaving(c)' /\ arg'[c] = k
      <4>1. ASSUME NEW k \in Slots, pre_read_buff'[k] # NULL, t[k] = NULL,
                   NEW c \in Conns, Leaving(c), arg[c] = k
            PROVE  Leaving(c)' /\ arg'[c] = k
        <5>1. c # x
          BY <2>3, <4>1 DEF s
        <5> QED
          BY <1>2, <2>4, <4>1, <5>1
      <4> QED
        BY <1>5, <2>3, <2>5, <4>1 DEF Memory, OwnBuffer
    <3> QED
      BY <1>1, <3>1, <3>2, <3>3 DEF OwnBuffer
  <2>8. \A y \in Procs : pc[y] = "clear_pre" => arg[y] \in Slots
    <3>1. pc[main] = "clear_pre" => arg[main] \in Slots
      BY <1>0 DEF TypeOK, HandlerPc, StopPc
    <3> QED
      BY <1>5, <3>1 DEF Memory, OneHolder, Leaving
  <2>9. \A k \in Slots \ {s} : ClearsPre(k) => ClearsPre(k)'
    BY <1>2 DEF ClearsPre, s
  <2>10. BuffersThere'
    <3>1. \A k \in Slots : pre_read_buff'[k] # NULL =>
            /\ pc'[pre_read_buff'[k]] # "none" \/ t[k] = pre_read_buff'[k]
            /\ pre_read_buff'[k] \in buffers \/ ClearsPre(k)'
      <4>1. \A y \in Conns : pc[y] # "none" => pc'[y] # "none"
        BY <1>0, <1>2
      <4> QED
        BY <1>0, <1>5, <2>3, <2>9, <4>1 DEF Memory, BuffersThere
    <3>2. \A j, k \in Slots : pre_read_buff'[j] # NULL
            /\ pre_read_buff'[j] = pre_read_buff'[k] => j = k
      BY <1>5, <2>3 DEF Memory, BuffersThere
    <3>3. \A y \in Procs :
            pc'[y] = "clear_pre" => pre_read_buff'[arg'[y]] \notin buffers
      <4>1. NULL \notin buffers
        BY <1>0 DEF TypeOK
      <4>2. ASSUME NEW y \in Procs, pc'[y] = "clear_pre"
            PROVE  y # x
        BY <1>2, <4>2
      <4> QED
        BY <1>2, <1>5, <2>3, <2>8, <4>1, <4>2 DEF Memory, BuffersThere
    <3>4. \A b \in buffers : \E k \in Slots : pre_read_buff'[k] = b
      <4>1. pre_read_buff[s] \notin buffers
        BY <1>1, <1>5 DEF Memory, BuffersThere, s
      <4> QED
        BY <1>5, <2>3, <4>1 DEF Memory, BuffersThere
    <3> QED
      BY <1>1, <3>1, <3>2, <3>3, <3>4 DEF BuffersThere
  <2> QED
    BY <2>6, <2>7, <2>10 DEF Memory
<1> QED
  BY <1>1, <1>3, <1>4, <1>5 DEF MemInv

-----------------------------------------------------------------------------
(* The invariant of memory.                                                *)

(* What is known of the buffers holds at the start.                        *)
LEMMA MemInit == Init => MemInv
<1> SUFFICES ASSUME Init PROVE MemInv
  OBVIOUS
<1>1. /\ \A s \in Slots : t[s] = NULL /\ pre_read_buff[s] = NULL
      /\ pc[main] = "listen" /\ \A c \in Conns : pc[c] = "none"
      /\ buffers = {} /\ main \notin Conns
  BY DEF Init
<1>2. \A c \in Conns : ~Serving(c) /\ ~Leaving(c)
  BY <1>1 DEF Serving, Leaving
<1> QED
  BY <1>1, <1>2 DEF MemInv, CellsKept, HandlerSaw, Memory, OneHolder, Holding,
                    OwnBuffer, BuffersThere, ClearsPre

(* Every step keeps what is known of the buffers.                          *)
LEMMA MemStep == Inv /\ MemInv /\ [Next]_vars => MemInv'
<1> SUFFICES ASSUME Inv, MemInv, [Next]_vars PROVE MemInv'
  OBVIOUS
<1>1. CASE UNCHANGED vars
  BY <1>1, AsideKeeps DEF vars, slotVars, heapVars, Aside, SameHold, Serving, Leaving
<1>2. CASE MainLoop
  BY <1>2, MainsAside, AsideKeeps, NewTKeeps, NewPreKeeps, CreateKeeps DEF MainLoop
<1>3. CASE CatchShutdown
  BY <1>3, HandlerLooks
<1>4. CASE Handler
  <2>1. ~ClearSock(main) /\ ~FreeT(main) /\ ~ClearT(main)
    BY DEF Inv, HandlerHolds, ClearSock, FreeT, ClearT, At
  <2> QED
    BY <1>4, <2>1, HandlerLooks, HandlersAside, AsideKeeps, TestsBuffer,
       FreesBuffer, ForgetsBuffer DEF Handler, _stopThread
<1>5. ASSUME NEW c \in Conns, socket_loop(c) PROVE MemInv'
  BY <1>5, ThreadsAside, AsideKeeps, GivesBack, TestsBuffer, FreesBuffer,
     ForgetsBuffer DEF socket_loop, _stopThread
<1>6. CASE Clients
  BY <1>6, ClientsAside, AsideKeeps
<1> QED
  BY <1>1, <1>2, <1>3, <1>4, <1>5, <1>6 DEF Next

(* The invariant of the buffers holds throughout.                          *)
LEMMA MemAlways == Spec => []MemInv
BY MemInit, MemStep, Invariance, PTL DEF Spec

(* Until a slot has been handed out too early, a thread has its buffer for *)
(* as long as it reads, and no buffer is lost.                             *)
THEOREM BuffersKeptAlways == Spec => []BuffersKept
<1>1. ASSUME Inv, MemInv PROVE BuffersKept
  <2> SUFFICES ASSUME reused = {}, ~Stopping
               PROVE  /\ \A c \in Conns : Serving(c) =>
                           pre_read_buff[arg[c]] = c /\ c \in buffers
                      /\ \A b \in buffers : \E s \in Slots : pre_read_buff[s] = b
    BY DEF BuffersKept
  <2>1. Memory /\ main \notin Conns
    BY <1>1 DEF MemInv
  <2>2. ASSUME NEW c \in Conns, Serving(c)
        PROVE  pre_read_buff[arg[c]] = c /\ c \in buffers
    <3>1. arg[c] \in Slots /\ t[arg[c]] = c /\ c # NULL /\ pc[c] # "none"
      BY <1>1, <2>2 DEF Inv, Owned, ThreadHolds, Serving
    <3>2. ~(pc[main] = "new_pre" /\ arg[main] = arg[c])
      BY <1>1, <3>1 DEF Inv, MainHolds, SetupPc
    <3>3. pre_read_buff[arg[c]] = c
      BY <2>1, <3>1, <3>2 DEF Memory, OwnBuffer
    <3>4. ~ClearsPre(arg[c])
      BY <2>1, <3>1 DEF Memory, OneHolder, Leaving, ClearsPre, Stopping,
                        HandlerPc, StopPc
    <3> QED
      BY <2>1, <3>1, <3>3, <3>4 DEF Memory, BuffersThere
  <2> QED
    BY <2>1, <2>2 DEF Memory, BuffersThere
<1> QED
  BY <1>1, Invariance, MemAlways, PTL

-----------------------------------------------------------------------------
(* Faults.                                                                 *)

(* what FaultsExplained says of a fault, before it has happened            *)
Explained(f) ==
  /\ Stopping
  /\ \/ \E c \in Conns :
          /\ arg[c] = arg[main]
          /\ pc[c] \in StopPc \/ (pc[c] = "done" /\ f = "null pointer")
     \/ t[arg[main]] # NULL /\ pc[t[arg[main]]] = "none"

(* main writes into a buffer that is there, without early reuse.           *)
LEMMA InitPreSafe ==
  ASSUME Inv, MemInv, InitPre, reused = {}
  PROVE  fault' = fault
<1> DEFINE s == arg[main]
<1>1. /\ pc[main] = "init_pre" /\ s \in Slots /\ t[s] = cur /\ cur # NULL
      /\ pc[cur] = "none" /\ ~Stopping /\ main \notin Conns
  BY DEF InitPre, At, Inv, MainHolds, TypeOK, SetupPc, Stopping, HandlerPc, StopPc
<1>2. Memory
  BY DEF MemInv
<1>3. pre_read_buff[s] = cur
  BY <1>1, <1>2 DEF Memory, OwnBuffer
<1>4. ~ClearsPre(s)
  BY <1>1, <1>2 DEF Memory, OneHolder, Leaving, ClearsPre
<1>5. cur \in buffers
  BY <1>1, <1>2, <1>3, <1>4 DEF Memory, BuffersThere
<1> QED
  BY <1>1, <1>3, <1>5 DEF InitPre

(* _stopThread closes a descriptor that the slot has.                      *)
LEMMA CloseSafe ==
  ASSUME Inv, NEW x \in Procs, Close(x)
  PROVE  fault' = fault
<1>1. pc[x] = "close" /\ main \notin Conns
  BY DEF Close, At
<1>2. CASE x = main
  <2>1. arg[main] \in Slots /\ t[arg[main]] = NULL
    BY <1>1, <1>2 DEF Inv, TypeOK, HandlerHolds, HandlerPc, StopPc
  <2>2. sock[arg[main]] = NULL
    BY <2>1 DEF Inv, Owned, Table
  <2> QED
    BY <1>2, <2>2 DEF Close
<1>3. CASE x \in Conns
  <2>1. sock[arg[x]] = x /\ conn[x] = "open"
    BY <1>1, <1>3 DEF Inv, Owned, ThreadHolds, Reading
  <2> QED
    BY <1>3, <2>1 DEF Close
<1> QED
  BY <1>2, <1>3

(* A buffer is freed twice only in a window that is named.                 *)
LEMMA FreePreFaults ==
  ASSUME Inv, MemInv, NEW x \in Procs, FreePre(x), reused = {}, fault' # fault
  PROVE  Explained(fault')
<1> DEFINE s == arg[x]
<1>1. /\ pc[x] = "free_pre" /\ main \notin Conns
      /\ pre_read_buff[s] # NULL /\ pre_read_buff[s] \notin buffers
  BY DEF FreePre, At
<1>2. Memory
  BY DEF MemInv
<1>3. s \in Slots
  <2>1. x \in Conns => Leaving(x)
    BY <1>1 DEF Leaving
  <2>2. pc[main] = "free_pre" => arg[main] \in Slots
    BY DEF Inv, TypeOK, HandlerPc, StopPc
  <2> QED
    BY <1>1, <1>2, <2>1, <2>2 DEF Memory, OneHolder
<1>4. PICK y \in Procs : pc[y] = "clear_pre" /\ arg[y] = s
  BY <1>1, <1>2, <1>3 DEF Memory, BuffersThere, ClearsPre
<1>5. x # y
  BY <1>1, <1>4
<1>6. CASE x = main
  BY <1>1, <1>4, <1>5, <1>6 DEF Explained, Stopping, HandlerPc, StopPc
<1>7. CASE y = main
  BY <1>1, <1>4, <1>5, <1>7 DEF Explained, Stopping, HandlerPc, StopPc
<1>8. CASE x # main /\ y # main
  BY <1>1, <1>2, <1>4, <1>5, <1>8 DEF Memory, OneHolder, Holding, Leaving
<1> QED
  BY <1>6, <1>7, <1>8

(* The shutdown joins a missing thread only in a named window.             *)
LEMMA JoinFaults ==
  ASSUME Inv, MemInv, HandlerJoin, fault' # fault
  PROVE  Explained(fault')
<1> DEFINE s == arg[main]
<1>1. /\ pc[main] = "h_join" /\ s \in Slots /\ Stopping /\ main \notin Conns
      /\ PointersTyped
  BY DEF HandlerJoin, At, Inv, TypeOK, HandlerPc, Stopping
<1>2. CASE t[s] = NULL
  <2>1. fault' = "null pointer"
    BY <1>2 DEF HandlerJoin, Fault
  <2>2. PICK c \in Conns : arg[c] = s /\ pc[c] # "none"
    BY <1>1, <1>2 DEF MemInv, HandlerSaw
  <2>3. ~Serving(c)
    BY <1>2, <2>2 DEF Inv, Owned, ThreadHolds
  <2>4. pc[c] \in StopPc \/ pc[c] = "done"
    BY <2>2, <2>3 DEF Inv, ThreadsTyped, ThreadPc, Serving
  <2> QED
    BY <1>1, <2>1, <2>2, <2>4 DEF Explained
<1>3. CASE t[s] # NULL /\ t[s] \notin cells
  <2>1. PICK c \in Conns : c = t[s]
    BY <1>1, <1>3
  <2>2. pc[c] = "clear_t"
    BY <1>1, <1>3, <2>1 DEF MemInv, CellsKept
  <2>3. arg[c] \in Slots /\ t[arg[c]] = c
    BY <2>2 DEF Inv, Owned, ThreadHolds, Serving
  <2>4. arg[c] = s
    BY <1>1, <1>3, <2>1, <2>3 DEF Inv, Owned, Table
  <2> QED
    BY <1>1, <2>2, <2>4 DEF Explained, StopPc
<1>4. CASE t[s] # NULL /\ t[s] \in cells
  <2>1. pc[t[s]] = "none"
    BY <1>4 DEF HandlerJoin
  <2> QED
    BY <1>1, <1>4, <2>1 DEF Explained
<1> QED
  BY <1>2, <1>3, <1>4

(* Only five steps touch memory, and where they fault nothing moves.       *)
LEMMA FaultSteps ==
  ASSUME Inv, MemInv, Next, fault' # fault, reused = {}
  PROVE  Explained(fault') /\ pc' = pc /\ arg' = arg /\ t' = t
<1>1. ~FreeT(main) /\ \A c \in Conns : ~FreeT(c)
  <2>1. ~FreeT(main)
    BY DEF Inv, HandlerHolds, FreeT, At
  <2> QED
    BY <2>1, GivesBack
<1>2. ~InitPre /\ \A x \in Procs : ~Close(x)
  BY InitPreSafe, CloseSafe
<1>3. ASSUME HandlerJoin \/ \E x \in Procs : FreePre(x)
      PROVE  pc' = pc /\ arg' = arg /\ t' = t
  BY <1>3 DEF HandlerJoin, FreePre, Fault, slotVars
<1>4. HandlerJoin \/ \E x \in Procs : FreePre(x)
  <2>1. CASE MainLoop
    BY <1>2, <2>1 DEF MainLoop, Listen, Accept, Unlisten, NewT, NewPre, SetSock,
                      Create, Refuse
  <2>2. CASE CatchShutdown
    BY <2>2 DEF CatchShutdown
  <2>3. ASSUME NEW x \in Procs, _stopThread(x) PROVE FreePre(x)
    BY <1>1, <1>2, <2>3 DEF _stopThread, ClearSock, Stop, ClearT, TestPre, ClearPre
  <2>4. CASE Handler
    BY <2>3, <2>4 DEF Handler, HandlerTest, HandlerStop, HandlerJoined
  <2>5. ASSUME NEW c \in Conns, socket_loop(c) PROVE FreePre(c)
    BY <2>3, <2>5 DEF socket_loop, Start, RecvChunk, RecvEnd, Check
  <2>6. CASE Clients
    BY <2>6 DEF Clients, ClientConnects, ClientLeaves
  <2> QED
    BY <2>1, <2>2, <2>4, <2>5, <2>6 DEF Next
<1> QED
  BY <1>3, <1>4, JoinFaults, FreePreFaults

(* A fault is the last thing that happens.                                 *)
LEMMA DownStays ==
  ASSUME fault # "none"
  PROVE  ~Next
<1>1. Down
  BY DEF Down
<1>2. ~MainLoop
  BY <1>1 DEF MainLoop, Listen, Accept, Unlisten, NewT, NewPre, InitPre, SetSock,
              Create, Refuse, At
<1>3. \A x \in Procs : ~_stopThread(x)
  BY <1>1 DEF _stopThread, Close, ClearSock, Stop, FreeT, ClearT, TestPre,
              FreePre, ClearPre, At
<1>4. ~CatchShutdown /\ ~Handler
  BY <1>1, <1>3 DEF CatchShutdown, Handler, HandlerTest, HandlerStop, HandlerJoin,
              HandlerJoined, At
<1>5. \A c \in Conns : ~socket_loop(c)
  BY <1>1, <1>3 DEF socket_loop, Start, RecvChunk, RecvEnd, Check, At
<1>6. ~Clients
  BY <1>1 DEF Clients, ClientConnects, ClientLeaves
<1> QED
  BY <1>2, <1>4, <1>5, <1>6 DEF Next

(* The history of reused slots only grows.                                 *)
LEMMA ReusedGrows == ASSUME Next PROVE reused \subseteq reused'
<1>1. CASE MainLoop
  BY <1>1 DEF MainLoop, Listen, Accept, Unlisten, NewT, NewPre, InitPre, SetSock,
              Create, Refuse
<1>2. \A x \in Procs : _stopThread(x) => reused' = reused
  BY DEF _stopThread, Close, ClearSock, Stop, FreeT, ClearT, TestPre, FreePre,
         ClearPre
<1>3. CASE CatchShutdown \/ Handler
  BY <1>2, <1>3 DEF CatchShutdown, Handler, HandlerTest, HandlerStop, HandlerJoin,
              HandlerJoined
<1>4. ASSUME NEW c \in Conns, socket_loop(c) PROVE reused' = reused
  BY <1>2, <1>4 DEF socket_loop, Start, RecvChunk, RecvEnd, Check
<1>5. CASE Clients
  BY <1>5 DEF Clients, ClientConnects, ClientLeaves
<1> QED
  BY <1>1, <1>3, <1>4, <1>5 DEF Next

(* Until a slot has been handed out too early, memory that is not there is *)
(* touched only by a shutdown whose slot has a thread that is ending, has  *)
(* no thread yet, or never got one.                                        *)
THEOREM FaultsExplainedAlways == Spec => []FaultsExplained
<1>1. Init => FaultsExplained
  BY DEF Init, FaultsExplained
<1>2. ASSUME Inv, MemInv, FaultsExplained, [Next]_vars
      PROVE  FaultsExplained'
  <2>1. CASE UNCHANGED vars
    BY <1>2, <2>1 DEF vars, slotVars, FaultsExplained, Stopping
  <2>2. CASE Next
    <3> SUFFICES ASSUME fault' # "none", reused' = {}
                 PROVE  FaultsExplained'
      BY DEF FaultsExplained
    <3>1. fault = "none" /\ reused = {}
      BY <2>2, DownStays, ReusedGrows
    <3>2. Explained(fault') /\ pc' = pc /\ arg' = arg /\ t' = t
      BY <1>2, <2>2, <3>1, FaultSteps
    <3> QED
      BY <3>2 DEF FaultsExplained, Explained, Stopping
  <2> QED
    BY <1>2, <2>1, <2>2
<1> QED
  BY <1>1, <1>2, Invariance, MemAlways, PTL DEF Spec

-----------------------------------------------------------------------------
(* Every step of the server is a step of its slots or leaves them alone,   *)
(* and likewise for the polling thread.                                    *)

(* The server with its database, configuration and polling thread does     *)
(* nothing to its slots that ServerSlots does not allow.                   *)
THEOREM ServesSlots == ServerSpec => Spec
<1>1. ServerInit => Init
  BY DEF ServerInit
<1>2. [ServerNext]_serverVars => [Next]_vars
  <2> SUFFICES ASSUME [ServerNext]_serverVars PROVE [Next]_vars
    OBVIOUS
  <2>1. CASE UNCHANGED serverVars
    BY <2>1 DEF serverVars
  <2>2. CASE initDB \/ initConfig \/ Signal
    BY <2>2 DEF initDB, initConfig, Signal
  <2>3. CASE Shutdown
    BY <2>3 DEF Shutdown, StopRefresh, JoinRefresh, ClearThreads, Serves, Next
  <2>4. CASE \/ Serves(stage = "serve" /\ MainLoop)
             \/ Serves(\E c \in Conns : socket_loop(c))
             \/ Serves(Clients)
    BY <2>4 DEF Serves, Next
  <2>5. CASE Polls(\E r \in Refreshers : RefresherRuns(r))
    BY <2>5 DEF Polls
  <2> QED
    BY <2>1, <2>2, <2>3, <2>4, <2>5 DEF ServerNext
<1> QED
  BY <1>1, <1>2, PTL DEF ServerSpec, Spec

(* The server uses the polling thread only as Refresher describes it, the  *)
(* interface that ConfigReload implements.                                 *)
THEOREM UsesRefresher == ServerSpec => RefresherSpec
<1>1. ServerInit => RefresherInit
  BY DEF ServerInit
<1>2. [ServerNext]_serverVars => [RefresherNext]_refresherVars
  <2> SUFFICES ASSUME [ServerNext]_serverVars PROVE [RefresherNext]_refresherVars
    OBVIOUS
  <2>1. CASE UNCHANGED serverVars
    BY <2>1 DEF serverVars
  <2>2. CASE initDB \/ initConfig \/ Signal
    BY <2>2 DEF initDB, initConfig, Signal, RefresherNext
  <2>3. CASE Shutdown
    BY <2>3 DEF Shutdown, StopRefresh, JoinRefresh, ClearThreads, Serves,
                RefresherNext
  <2>4. CASE \/ Serves(stage = "serve" /\ MainLoop)
             \/ Serves(\E c \in Conns : socket_loop(c))
             \/ Serves(Clients)
    BY <2>4 DEF Serves
  <2>5. CASE Polls(\E r \in Refreshers : RefresherRuns(r))
    BY <2>5 DEF Polls, RefresherNext
  <2> QED
    BY <2>1, <2>2, <2>3, <2>4, <2>5 DEF ServerNext
<1> QED
  BY <1>1, <1>2, PTL DEF ServerSpec, RefresherSpec

(* In the whole server too, clients are never mixed up and no descriptor   *)
(* is lost.                                                                *)
THEOREM ServerKeepsClients == ServerSpec => [](OwnConnection /\ DescriptorsKnown)
BY ServesSlots, OwnConnectionAlways, DescriptorsKnownAlways, PTL

-----------------------------------------------------------------------------
(* A shutdown before the polling thread was created.                       *)

NeverPolled ==
  thread_refresh_config = None =>
    /\ refresh_config_running = FALSE
    /\ \A r \in Refreshers : refresher[r] = "none"

(* The slots are cleared last; until then only a port that is taken ends   *)
(* main.                                                                   *)
SlotsLast == stage # "slots" => ~Stopping \/ pc[main] = "exited"

HaltsEarly ==
  halted => thread_refresh_config = None /\ stage # "slots" /\ ~Down

StartInv == NeverPolled /\ SlotsLast /\ HaltsEarly

(* A thread that was never stored has never run.                           *)
LEMMA PolledStep == NeverPolled /\ [RefresherNext]_refresherVars => NeverPolled'
<1> SUFFICES ASSUME NeverPolled, [RefresherNext]_refresherVars PROVE NeverPolled'
  OBVIOUS
<1>1. CASE UNCHANGED refresherVars
  BY <1>1 DEF NeverPolled, refresherVars
<1>2. CASE CreateRefresher
  BY <1>2, RefreshersAssumption DEF CreateRefresher, NeverPolled
<1>3. CASE StopRefresher
  BY <1>3 DEF StopRefresher, NeverPolled
<1>4. ASSUME NEW r \in Refreshers, RefresherRuns(r) PROVE NeverPolled'
  <2>1. refresher[r] # "none"
    BY <1>4 DEF RefresherRuns, StartRefresher, TestRunning, Poll, Reload
  <2>2. thread_refresh_config # None
    BY <2>1 DEF NeverPolled
  <2>3. \/ thread_refresh_config' = thread_refresh_config
        \/ thread_refresh_config' \in Refreshers
    BY <1>4 DEF RefresherRuns, StartRefresher, TestRunning, Poll, Reload
  <2> QED
    BY <2>2, <2>3, RefreshersAssumption DEF NeverPolled
<1> QED
  BY <1>1, <1>2, <1>3, <1>4 DEF RefresherNext

(* main's loop ends in the shutdown or in exit.                            *)
LEMMA MainEnds ==
  ASSUME MainLoop, Inv, ~Stopping
  PROVE  ~Stopping' \/ pc'[main] = "exited"
<1>1. pc \in [Procs -> ThreadPc \cup MainPc]
  BY DEF Inv, TypeOK
<1>2. CASE Create
  <2>1. pc'[main] = "listen"
    <3>1. cur # main
      BY DEF Inv, TypeOK
    <3> QED
      BY <1>1, <1>2, <3>1 DEF Create, Goto
  <2> QED
    BY <2>1 DEF Stopping, HandlerPc, StopPc
<1>3. CASE ~Create
  <2>1. \/ pc' = pc
        \/ \E l \in {"accept", "exited", "unlisten", "new_t", "refuse",
                     "new_pre", "init_pre", "set_sock", "create", "listen"} :
             Goto(main, l)
    BY <1>3 DEF MainLoop, Listen, Accept, Unlisten, NewT, NewPre, InitPre, SetSock,
                Refuse, Fault
  <2> QED
    BY <1>1, <2>1 DEF Goto, Stopping, HandlerPc, StopPc
<1> QED
  BY <1>2, <1>3

(* The start of the program keeps what it needs of its parts.              *)
LEMMA StartStep == Inv /\ StartInv /\ [ServerNext]_serverVars
                       /\ [RefresherNext]_refresherVars => StartInv'
<1> SUFFICES ASSUME Inv, StartInv, [ServerNext]_serverVars,
                    [RefresherNext]_refresherVars
             PROVE  StartInv'
  OBVIOUS
<1>1. NeverPolled'
  BY PolledStep DEF StartInv
<1>2. ASSUME UNCHANGED vars, stage' = stage \/ stage' # "slots", stage # "slots"
      PROVE  SlotsLast' /\ (Down' <=> Down)
  BY <1>2 DEF StartInv, SlotsLast, vars, Stopping, Down
<1>3. CASE UNCHANGED serverVars
  BY <1>1, <1>3 DEF serverVars, startVars, refresherVars, vars, StartInv, SlotsLast,
                    HaltsEarly, Stopping, Down
<1>4. CASE ServerNext
  <2>0. Running
    BY <1>4 DEF ServerNext, initDB, initConfig, Signal, Shutdown, StopRefresh,
                JoinRefresh, ClearThreads, Serves, Polls, InStage
  <2>1. ~halted /\ ~Down /\ (stage # "slots" => ~Stopping)
    BY <2>0 DEF Running, Down, StartInv, SlotsLast
  <2>2. CASE initDB \/ initConfig \/ Signal \/ StopRefresh
    <3>1. UNCHANGED vars /\ halted' = halted /\ stage' # "slots" /\ stage # "slots"
      BY <2>2 DEF initDB, initConfig, Signal, StopRefresh, ShuttingDown, InStage
    <3> QED
      BY <1>1, <1>2, <2>1, <3>1 DEF StartInv, HaltsEarly
  <2>3. CASE JoinRefresh
    <3>1. /\ UNCHANGED vars /\ stage = "join" /\ stage' \in {"join", "wait"}
          /\ UNCHANGED refresherVars
          /\ halted' => thread_refresh_config = None
      BY <2>1, <2>3 DEF JoinRefresh, InStage
    <3>2. SlotsLast' /\ (Down' <=> Down)
      BY <1>2, <3>1
    <3>3. HaltsEarly'
      BY <2>1, <3>1, <3>2 DEF HaltsEarly, refresherVars
    <3> QED
      BY <1>1, <3>2, <3>3 DEF StartInv
  <2>4. CASE ClearThreads
    BY <1>1, <2>1, <2>4 DEF ClearThreads, StartInv, SlotsLast, HaltsEarly
  <2>5. CASE Serves(stage = "slots" /\ Handler)
    BY <1>1, <2>1, <2>5 DEF Serves, startVars, StartInv, SlotsLast, HaltsEarly
  <2>6. CASE Serves(stage = "serve" /\ MainLoop)
    <3>1. stage' = "serve" /\ ~halted' /\ MainLoop /\ ~Stopping
      BY <2>1, <2>6 DEF Serves, startVars
    <3> QED
      BY <1>1, <3>1, MainEnds DEF StartInv, SlotsLast, HaltsEarly
  <2>7. CASE Serves(\E c \in Conns : socket_loop(c)) \/ Serves(Clients)
    <3>1. stage' = stage /\ ~halted' /\ pc'[main] = pc[main]
      BY <2>1, <2>7, ThreadSteps, ClientSteps DEF Serves, startVars
    <3> QED
      BY <1>1, <3>1 DEF StartInv, SlotsLast, HaltsEarly, Stopping
  <2>8. CASE Polls(\E r \in Refreshers : RefresherRuns(r))
    <3>1. UNCHANGED vars /\ stage' = stage /\ ~halted'
      BY <2>1, <2>8 DEF Polls, startVars
    <3> QED
      BY <1>1, <3>1 DEF StartInv, SlotsLast, HaltsEarly, vars, Stopping
  <2> QED
    BY <1>4, <2>2, <2>3, <2>4, <2>5, <2>6, <2>7, <2>8 DEF ServerNext, Shutdown
<1> QED
  BY <1>3, <1>4

(* A shutdown joins a polling thread that is not there only when none was  *)
(* ever created, and before it has touched a slot.                         *)
THEOREM EarlyJoinExplainedAlways == ServerSpec => []EarlyJoinExplained
<1>1. ServerInit => StartInv
  BY DEF ServerInit, Init, RefresherInit, StartInv, NeverPolled, SlotsLast, HaltsEarly,
         Stopping, HandlerPc, StopPc
<1>2. StartInv => EarlyJoinExplained
  BY DEF StartInv, NeverPolled, SlotsLast, HaltsEarly, EarlyJoinExplained, Down
<1>3. ServerSpec => []Inv
  BY ServesSlots, Invariance, PTL
<1>4. ServerSpec => [][RefresherNext]_refresherVars
  BY UsesRefresher, PTL DEF RefresherSpec
<1>5. ServerInit /\ []Inv /\ [][ServerNext]_serverVars
        /\ [][RefresherNext]_refresherVars => []StartInv
  BY <1>1, StartStep, PTL
<1> QED
  BY <1>2, <1>3, <1>4, <1>5, PTL DEF ServerSpec

=============================================================================
