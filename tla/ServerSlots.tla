----------------------------- MODULE ServerSlots -----------------------------
(***************************************************************************)
(* capserver.c: the main loop that accepts connections, the table of slots *)
(* st[] it hands them out in, the thread that reads each connection, and   *)
(* the signal handler that shuts the server down.                          *)
(*                                                                         *)
(* The table is shared without any lock, so every step is one access to    *)
(* it.  A connection c is served by at most one thread, and stands for its *)
(* descriptor (sock), for the pthread_t cell (t) and the read buffer       *)
(* (pre_read_buff) allocated for it, and for that thread.  What is read is *)
(* only printed (the calls of do_recv are commented out), so conn, the     *)
(* database handle, stays NULL and is left out.                            *)
(***************************************************************************)
EXTENDS Naturals, FiniteSets

CONSTANTS Conns,       (* the connections clients will make                *)
          NSlots,      (* the length of st[]                               *)
          MaxThreads,  (* threads the system lets the server create        *)
          main, NULL

ASSUME ConnsAssumption ==
  IsFiniteSet(Conns) /\ main \notin Conns /\ NULL \notin Conns \cup {main}
ASSUME SlotsAssumption == NSlots \in Nat \ {0} /\ MaxThreads \in Nat

Slots == 0..NSlots - 1
Procs == Conns \cup {main}

VARIABLES
  t, sock, running, pre_read_buff,  (* the fields of st[]                  *)
  pc,       (* where main and each thread are; "none": not created         *)
  arg,      (* the slot each of them works on (_st, or the loop index i)   *)
  cur,      (* main's local sock: the connection just accepted             *)
  joining,  (* the thread the handler is joining                           *)
  cells,    (* the pthread_t cells allocated and not freed                 *)
  buffers,  (* the read buffers allocated and not freed                    *)
  conn,     (* kernel: the server's end of each connection                 *)
  peer,     (* is the client's end still there?                            *)
  fault,    (* the first access to memory that is not there                *)
  reused    (* history: slots handed out before the thread that had them   *)
            (* was through with _stopThread                                *)

slotVars == <<t, sock, running, pre_read_buff>>
heapVars == <<cells, buffers>>
netVars == <<conn, peer>>
vars == <<slotVars, pc, arg, cur, joining, heapVars, netVars, fault, reused>>

ConnStates == {"new", "backlog", "open", "closed", "reset"}
StopPc == {"close", "clear_sock", "stop", "free_t", "clear_t", "test_pre",
           "free_pre", "clear_pre"}
ThreadPc == {"none", "start", "recv", "check", "done"} \cup StopPc
SetupPc == {"new_t", "new_pre", "init_pre", "set_sock", "create"}
HandlerPc == {"h_test", "h_stop", "h_join", "h_wait", "exited"} \cup StopPc
MainPc == {"listen", "accept", "unlisten", "refuse"} \cup SetupPc \cup HandlerPc

Faults == {"none", "null pointer", "freed memory", "freed twice",
           "closed twice", "join of nothing"}

TypeOK ==
  /\ t \in [Slots -> Conns \cup {NULL}]
  /\ sock \in [Slots -> Conns \cup {NULL}]
  /\ running \in [Slots -> BOOLEAN]
  /\ pre_read_buff \in [Slots -> Conns \cup {NULL}]
  /\ pc \in [Procs -> ThreadPc \cup MainPc]
  /\ arg \in [Procs -> 0..NSlots]
  /\ pc[main] \in SetupPc \cup HandlerPc =>
       arg[main] \in Slots \/ pc[main] \in {"new_t", "exited"}
  /\ cur \in Conns \cup {NULL} /\ joining \in Conns \cup {NULL}
  /\ cells \subseteq Conns /\ buffers \subseteq Conns
  /\ conn \in [Conns -> ConnStates] /\ peer \in [Conns -> BOOLEAN]
  /\ fault \in Faults
  /\ reused \subseteq Slots

(* after the first clearThread() of main, which finds every slot empty     *)
Init ==
  /\ t = [s \in Slots |-> NULL] /\ sock = [s \in Slots |-> NULL]
  /\ running = [s \in Slots |-> FALSE]
  /\ pre_read_buff = [s \in Slots |-> NULL]
  /\ pc = [x \in Procs |-> IF x = main THEN "listen" ELSE "none"]
  /\ arg = [x \in Procs |-> 0]
  /\ cur = NULL /\ joining = NULL
  /\ cells = {} /\ buffers = {}
  /\ conn = [c \in Conns |-> "new"] /\ peer = [c \in Conns |-> TRUE]
  /\ fault = "none"
  /\ reused = {}

Stopping == pc[main] \in HandlerPc
Down == pc[main] = "exited" \/ fault # "none"

At(x, l) == pc[x] = l /\ ~Down
Goto(x, l) == pc' = [pc EXCEPT ![x] = l]

(* A process that touches memory that is not there stops where it is.      *)
Fault(what) == fault' = what /\ UNCHANGED pc

-----------------------------------------------------------------------------
(* Faulty variants: each is the definition it is named after with one      *)
(* plausible slip in the C; a property must fail when it takes its place.  *)

(* getFreeST looks for running == 0 instead of t == NULL                   *)
NewTNotRunning ==
  /\ At(main, "new_t")
  /\ LET s == arg[main] IN
       IF s = NSlots
       THEN Goto(main, "refuse") /\ UNCHANGED <<t, cells, arg>>
       ELSE IF running[s]
       THEN arg' = [arg EXCEPT ![main] = s + 1] /\ UNCHANGED <<t, cells, pc>>
       ELSE /\ t' = [t EXCEPT ![s] = cur]
            /\ cells' = cells \cup {cur}
            /\ Goto(main, "new_pre") /\ UNCHANGED arg
  /\ UNCHANGED <<sock, running, pre_read_buff, cur, joining, buffers, netVars,
                 fault, reused>>

(* clearThread counts to 10 inclusive                                      *)
StopReturnsLate(x) ==
  IF x # main
  THEN Goto(x, "done") /\ UNCHANGED arg
  ELSE /\ arg' = [arg EXCEPT ![main] = @ + 1]
       /\ Goto(main, IF arg[main] = NSlots THEN "exited" ELSE "h_test")

(* no _st->sock=0 (capserver.c:241)                                        *)
ClearSockForgotten(x) ==
  /\ At(x, "clear_sock")
  /\ Goto(x, "stop")
  /\ UNCHANGED <<slotVars, arg, cur, joining, heapVars, netVars, fault, reused>>

(* no _st->t=NULL (capserver.c:251)                                        *)
ClearTForgotten(x) ==
  /\ At(x, "clear_t")
  /\ Goto(x, "test_pre")
  /\ UNCHANGED <<slotVars, arg, cur, joining, heapVars, netVars, fault, reused>>

(* no _st->pre_read_buff=NULL (capserver.c:255)                            *)
ClearPreForgotten(x) ==
  /\ At(x, "clear_pre")
  /\ IF x # main
     THEN Goto(x, "done") /\ UNCHANGED arg
     ELSE /\ arg' = [arg EXCEPT ![main] = @ + 1]
          /\ Goto(main, IF arg[main] + 1 = NSlots THEN "exited" ELSE "h_test")
  /\ UNCHANGED <<slotVars, cur, joining, heapVars, netVars, fault, reused>>

(* the buffer is forgotten instead of freed                                *)
FreePreForgotten(x) ==
  /\ At(x, "free_pre")
  /\ Goto(x, "clear_pre")
  /\ UNCHANGED <<slotVars, arg, cur, joining, heapVars, netVars, fault, reused>>

-----------------------------------------------------------------------------
(* The main loop.                                                          *)

(* socket(), bind() and listen(); main gives up when the port is taken     *)
Listen ==
  /\ At(main, "listen")
  /\ Goto(main, "accept") \/ Goto(main, "exited")
  /\ UNCHANGED <<slotVars, arg, cur, joining, heapVars, netVars, fault, reused>>

Accept(c) ==
  /\ At(main, "accept")
  /\ conn[c] = "backlog"
  /\ conn' = [conn EXCEPT ![c] = "open"]
  /\ cur' = c
  /\ Goto(main, "unlisten")
  /\ UNCHANGED <<slotVars, arg, joining, heapVars, peer, fault, reused>>

(* close(serverSocket): connections still in its backlog are reset         *)
Unlisten ==
  /\ At(main, "unlisten")
  /\ conn' = [c \in Conns |-> IF conn[c] = "backlog" THEN "reset" ELSE conn[c]]
  /\ arg' = [arg EXCEPT ![main] = 0]
  /\ Goto(main, "new_t")
  /\ UNCHANGED <<slotVars, cur, joining, heapVars, peer, fault, reused>>

(* one turn of the loop of getFreeST: a slot is free when its t is NULL    *)
NewT ==
  /\ At(main, "new_t")
  /\ LET s == arg[main] IN
       IF s = NSlots
       THEN Goto(main, "refuse") /\ UNCHANGED <<t, cells, arg, reused>>
       ELSE IF t[s] # NULL
       THEN arg' = [arg EXCEPT ![main] = s + 1]
            /\ UNCHANGED <<t, cells, pc, reused>>
       ELSE /\ t' = [t EXCEPT ![s] = cur]
            /\ cells' = cells \cup {cur}
            /\ reused' = IF \E c \in Conns : arg[c] = s /\ pc[c] \in StopPc
                         THEN reused \cup {s} ELSE reused
            /\ Goto(main, "new_pre") /\ UNCHANGED arg
  /\ UNCHANGED <<sock, running, pre_read_buff, cur, joining, buffers, netVars,
                 fault>>

NewPre ==
  /\ At(main, "new_pre")
  /\ pre_read_buff' = [pre_read_buff EXCEPT ![arg[main]] = cur]
  /\ buffers' = buffers \cup {cur}
  /\ Goto(main, "init_pre")
  /\ UNCHANGED <<t, sock, running, arg, cur, joining, cells, netVars, fault,
                 reused>>

(* st[i].pre_read_buff[0]='\0'                                             *)
InitPre ==
  /\ At(main, "init_pre")
  /\ LET b == pre_read_buff[arg[main]] IN
       IF b = NULL THEN Fault("null pointer")
       ELSE IF b \notin buffers THEN Fault("freed memory")
       ELSE Goto(main, "set_sock") /\ UNCHANGED fault
  /\ UNCHANGED <<slotVars, arg, cur, joining, heapVars, netVars, reused>>

SetSock ==
  /\ At(main, "set_sock")
  /\ sock' = [sock EXCEPT ![arg[main]] = cur]
  /\ Goto(main, "create")
  /\ UNCHANGED <<t, running, pre_read_buff, arg, cur, joining, heapVars,
                 netVars, fault, reused>>

(* pthread_create, whose result is ignored.  Threads that have ended are   *)
(* never joined or detached, so they count against the limit too.          *)
Threads == {c \in Conns : pc[c] # "none"}

Create ==
  /\ At(main, "create")
  /\ IF Cardinality(Threads) < MaxThreads
     THEN /\ pc' = [pc EXCEPT ![main] = "listen", ![cur] = "start"]
          /\ arg' = [arg EXCEPT ![cur] = arg[main]]
     ELSE Goto(main, "listen") /\ UNCHANGED arg
  /\ cur' = NULL
  /\ UNCHANGED <<slotVars, joining, heapVars, netVars, fault, reused>>

Refuse ==
  /\ At(main, "refuse")
  /\ conn' = [conn EXCEPT ![cur] = "closed"]
  /\ cur' = NULL
  /\ Goto(main, "listen")
  /\ UNCHANGED <<slotVars, arg, joining, heapVars, peer, fault, reused>>

-----------------------------------------------------------------------------
(* socket_loop, the thread of connection c.                                *)

Start(c) ==
  /\ At(c, "start")
  /\ running' = [running EXCEPT ![arg[c]] = TRUE]
  /\ Goto(c, "recv")
  /\ UNCHANGED <<t, sock, pre_read_buff, arg, cur, joining, heapVars, netVars,
                 fault, reused>>

(* recv() returns a chunk, which is printed                                *)
RecvChunk(c) ==
  /\ At(c, "recv")
  /\ \E k \in Conns : k = sock[arg[c]] /\ conn[k] = "open" /\ peer[k]
  /\ Goto(c, "check")
  /\ UNCHANGED <<slotVars, arg, cur, joining, heapVars, netVars, fault, reused>>

(* recv() returns 0 or an error: the client has gone, or there is no socket*)
RecvEnd(c) ==
  /\ At(c, "recv")
  /\ ~\E k \in Conns : k = sock[arg[c]] /\ conn[k] = "open" /\ peer[k]
  /\ Goto(c, "close")
  /\ UNCHANGED <<slotVars, arg, cur, joining, heapVars, netVars, fault, reused>>

Check(c) ==
  /\ At(c, "check")
  /\ Goto(c, IF running[arg[c]] THEN "recv" ELSE "close")
  /\ UNCHANGED <<slotVars, arg, cur, joining, heapVars, netVars, fault, reused>>

-----------------------------------------------------------------------------
(* _stopThread, run by a thread at its end and by the handler for every    *)
(* slot.  x is the process, its slot is arg[x].                            *)

(* A thread ends; the handler goes on to the next slot, then exit(1).      *)
StopReturns(x) ==
  IF x # main
  THEN Goto(x, "done") /\ UNCHANGED arg
  ELSE /\ arg' = [arg EXCEPT ![main] = @ + 1]
       /\ Goto(main, IF arg[main] + 1 = NSlots THEN "exited" ELSE "h_test")

Close(x) ==
  /\ At(x, "close")
  /\ LET k == sock[arg[x]] IN
       IF k = NULL
       THEN Goto(x, "stop") /\ UNCHANGED <<conn, fault>>
       ELSE IF conn[k] = "closed"
       THEN Fault("closed twice") /\ UNCHANGED conn
       ELSE /\ conn' = [conn EXCEPT ![k] = "closed"]
            /\ Goto(x, "clear_sock")
            /\ UNCHANGED fault
  /\ UNCHANGED <<slotVars, arg, cur, joining, heapVars, peer, reused>>

ClearSock(x) ==
  /\ At(x, "clear_sock")
  /\ sock' = [sock EXCEPT ![arg[x]] = NULL]
  /\ Goto(x, "stop")
  /\ UNCHANGED <<t, running, pre_read_buff, arg, cur, joining, heapVars,
                 netVars, fault, reused>>

Stop(x) ==
  /\ At(x, "stop")
  /\ IF t[arg[x]] = NULL
     THEN Goto(x, "test_pre") /\ UNCHANGED running
     ELSE Goto(x, "free_t") /\ running' = [running EXCEPT ![arg[x]] = FALSE]
  /\ UNCHANGED <<t, sock, pre_read_buff, arg, cur, joining, heapVars, netVars,
                 fault, reused>>

FreeT(x) ==
  /\ At(x, "free_t")
  /\ LET cell == t[arg[x]] IN
       IF cell # NULL /\ cell \notin cells
       THEN Fault("freed twice") /\ UNCHANGED cells
       ELSE cells' = cells \ {cell} /\ Goto(x, "clear_t") /\ UNCHANGED fault
  /\ UNCHANGED <<slotVars, arg, cur, joining, buffers, netVars, reused>>

ClearT(x) ==
  /\ At(x, "clear_t")
  /\ t' = [t EXCEPT ![arg[x]] = NULL]
  /\ Goto(x, "test_pre")
  /\ UNCHANGED <<sock, running, pre_read_buff, arg, cur, joining, heapVars,
                 netVars, fault, reused>>

TestPre(x) ==
  /\ At(x, "test_pre")
  /\ IF pre_read_buff[arg[x]] = NULL
     THEN StopReturns(x)
     ELSE Goto(x, "free_pre") /\ UNCHANGED arg
  /\ UNCHANGED <<slotVars, cur, joining, heapVars, netVars, fault, reused>>

FreePre(x) ==
  /\ At(x, "free_pre")
  /\ LET b == pre_read_buff[arg[x]] IN
       IF b # NULL /\ b \notin buffers
       THEN Fault("freed twice") /\ UNCHANGED buffers
       ELSE buffers' = buffers \ {b} /\ Goto(x, "clear_pre") /\ UNCHANGED fault
  /\ UNCHANGED <<slotVars, arg, cur, joining, cells, netVars, reused>>

ClearPre(x) ==
  /\ At(x, "clear_pre")
  /\ pre_read_buff' = [pre_read_buff EXCEPT ![arg[x]] = NULL]
  /\ StopReturns(x)
  /\ UNCHANGED <<t, sock, running, cur, joining, heapVars, netVars, fault,
                 reused>>

_stopThread(x) ==
  \/ Close(x) \/ ClearSock(x) \/ Stop(x) \/ FreeT(x) \/ ClearT(x)
  \/ TestPre(x) \/ FreePre(x) \/ ClearPre(x)

-----------------------------------------------------------------------------
(* CatchShutdown, which interrupts main wherever it is, and stopThread for *)
(* each slot.  (shutdown_refresh_config, its first call, is added by       *)
(* ServerProgram; here it returns.)                                        *)

CatchShutdown ==
  /\ ~Stopping /\ ~Down
  /\ arg' = [arg EXCEPT ![main] = 0]
  /\ Goto(main, "h_test")
  /\ UNCHANGED <<slotVars, cur, joining, heapVars, netVars, fault, reused>>

HandlerTest ==
  /\ At(main, "h_test")
  /\ Goto(main, IF t[arg[main]] = NULL THEN "close" ELSE "h_stop")
  /\ UNCHANGED <<slotVars, arg, cur, joining, heapVars, netVars, fault, reused>>

HandlerStop ==
  /\ At(main, "h_stop")
  /\ running' = [running EXCEPT ![arg[main]] = FALSE]
  /\ Goto(main, "h_join")
  /\ UNCHANGED <<t, sock, pre_read_buff, arg, cur, joining, heapVars, netVars,
                 fault, reused>>

(* pthread_join( *_st->t ): the cell is read here, for the second time     *)
HandlerJoin ==
  /\ At(main, "h_join")
  /\ LET cell == t[arg[main]] IN
       IF cell = NULL THEN Fault("null pointer") /\ UNCHANGED joining
       ELSE IF cell \notin cells THEN Fault("freed memory") /\ UNCHANGED joining
       ELSE IF pc[cell] = "none" THEN Fault("join of nothing") /\ UNCHANGED joining
       ELSE joining' = cell /\ Goto(main, "h_wait") /\ UNCHANGED fault
  /\ UNCHANGED <<slotVars, arg, cur, heapVars, netVars, reused>>

HandlerJoined ==
  /\ At(main, "h_wait")
  /\ pc[joining] = "done"
  /\ Goto(main, "close")
  /\ UNCHANGED <<slotVars, arg, cur, joining, heapVars, netVars, fault, reused>>

-----------------------------------------------------------------------------
(* The clients.                                                            *)

(* A connect() succeeds while the listening socket is open.                *)
ClientConnects(c) ==
  /\ pc[main] \in {"accept", "unlisten"} /\ ~Down
  /\ conn[c] = "new"
  /\ conn' = [conn EXCEPT ![c] = "backlog"]
  /\ UNCHANGED <<slotVars, pc, arg, cur, joining, heapVars, peer, fault, reused>>

ClientLeaves(c) ==
  /\ conn[c] = "open" /\ peer[c] /\ ~Down
  /\ peer' = [peer EXCEPT ![c] = FALSE]
  /\ UNCHANGED <<slotVars, pc, arg, cur, joining, heapVars, conn, fault, reused>>

-----------------------------------------------------------------------------

MainLoop ==
  \/ Listen \/ (\E c \in Conns : Accept(c)) \/ Unlisten
  \/ NewT \/ NewPre \/ InitPre \/ SetSock \/ Create \/ Refuse

Handler ==
  \/ HandlerTest \/ HandlerStop \/ HandlerJoin \/ HandlerJoined
  \/ _stopThread(main)

socket_loop(c) ==
  Start(c) \/ RecvChunk(c) \/ RecvEnd(c) \/ Check(c) \/ _stopThread(c)

Clients == \E c \in Conns : ClientConnects(c) \/ ClientLeaves(c)

Next ==
  MainLoop \/ CatchShutdown \/ Handler \/ (\E c \in Conns : socket_loop(c))
  \/ Clients

Spec == Init /\ [][Next]_vars

-----------------------------------------------------------------------------
(* Safety.                                                                 *)

(* The thread of c from its creation until it gives up its slot, and until *)
(* it frees its buffer.                                                    *)
Serving(c) == pc[c] \in {"start", "recv", "check", "close", "clear_sock",
                         "stop", "free_t", "clear_t"}
Reading(c) == pc[c] \in {"start", "recv", "check", "close"}

(* A thread reads its own connection, and its slot is its own until it     *)
(* clears t: though the table has no lock, a slot is never handed out      *)
(* while its thread may still read from it, so clients are not mixed up.   *)
OwnConnection ==
  \A c \in Conns :
    /\ Serving(c) => t[arg[c]] = c
    /\ Reading(c) => sock[arg[c]] = c /\ conn[c] = "open"

(* Every open descriptor is known to main or to a slot, and no slot holds  *)
(* one that was closed, except between close() and sock=0: nothing leaks   *)
(* and nothing is closed twice, whoever runs _stopThread.                  *)
DescriptorsKnown ==
  \A c \in Conns :
    /\ conn[c] = "open" => cur = c \/ \E s \in Slots : sock[s] = c
    /\ \A s \in Slots : sock[s] = c =>
         \/ conn[c] = "open"
         \/ conn[c] = "closed" /\ \E x \in Procs :
              arg[x] = s /\ pc[x] = "clear_sock"

(* A slot that is taken has a thread that will give it back, or main is    *)
(* still filling it in (or was, when the signal came).  The only slots     *)
(* lost for good are those whose pthread_create failed.                    *)
SlotsComeBack ==
  \A s \in Slots :
    t[s] # NULL =>
      \/ \E c \in Conns : Serving(c) /\ arg[c] = s
      \/ cur = t[s]
      \/ Stopping
      \/ pc[t[s]] = "none" /\ Cardinality(Threads) >= MaxThreads

(* Until a slot has been handed out too early, its thread has the buffer   *)
(* it was given, for as long as it reads, and no buffer is lost.           *)
BuffersKept ==
  reused = {} /\ ~Stopping =>
    /\ \A c \in Conns : Serving(c) => pre_read_buff[arg[c]] = c /\ c \in buffers
    /\ \A b \in buffers : \E s \in Slots : pre_read_buff[s] = b

(* Otherwise memory that is not there is touched only by a shutdown, when  *)
(* the thread of the slot the handler is at is ending by itself, or that   *)
(* slot has no thread yet or never got one.                                *)
FaultsExplained ==
  fault # "none" /\ reused = {} =>
    /\ Stopping
    /\ LET s == arg[main] IN
         \/ \E c \in Conns :
              /\ arg[c] = s
              /\ pc[c] \in StopPc \/ (pc[c] = "done" /\ fault = "null pointer")
         \/ t[s] # NULL /\ pc[t[s]] = "none"

(* What the self-test of capserver.c:313-317 relies on: the slot that      *)
(* getFreeST returned has a buffer until _stopThread is called.            *)
SlotBufferUsable ==
  \A c \in Conns :
    Reading(c) => pre_read_buff[arg[c]] # NULL /\ pre_read_buff[arg[c]] \in buffers

=============================================================================
