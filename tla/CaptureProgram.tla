--------------------------- MODULE CaptureProgram ----------------------------
(***************************************************************************)
(* main.c of the capture program over the string queue of LogQueue: main   *)
(* from the moment its signal handlers are installed, the thread t1 that   *)
(* it creates, and the handler CatchShutdown, which main also calls itself.*)
(*                                                                         *)
(* The handler ends in exit(1) and never returns, so a handler that is     *)
(* interrupted by another signal is replaced by a new one from its start.  *)
(* signal() blocks a signal while its own handler runs in main; the same   *)
(* signal is then taken by another thread of the process: trans, or the    *)
(* poller that initConfig has started (module ConfigReload).               *)
(***************************************************************************)
EXTENDS LogQueue

CONSTANTS main, poller,
          MaxCalls    (* bound: how often CatchShutdown is entered         *)

ASSUME CaptureThreadsAssumption ==
  main \notin {trans, poller} /\ poller # trans /\ MaxCalls \in Nat

VARIABLES
  pd,          (* the pcap handle: "null", "open" or "closed"              *)
  t1,          (* did pthread_create succeed?                              *)
  main_pc,     (* where main is, or was when a handler took it over        *)
  handler_pc,  (* where each thread is in CatchShutdown; "none": not there *)
  calls,       (* history: how often CatchShutdown was entered             *)
  outcome      (* "alive", "exited", or the fault that ended the process   *)

progVars == <<pd, t1, main_pc, handler_pc, calls, outcome>>
allVars == <<vars, progVars>>

Threads == {main, poller, trans}

CaptureTypeOK ==
  /\ TypeOK
  /\ pd \in {"null", "open", "closed"} /\ t1 \in BOOLEAN
  /\ main_pc \in {"open", "create", "loop"}
  /\ handler_pc \in [Threads -> {"none", "close", "stop", "join", "wait"}]
  /\ calls \in 0..MaxCalls
  /\ outcome \in {"alive", "exited", "closed twice", "join of nothing"}

CaptureInit ==
  /\ Init
  /\ pd = "null" /\ t1 = FALSE
  /\ main_pc = "open"
  /\ handler_pc = [h \in Threads |-> "none"]
  /\ calls = 0
  /\ outcome = "alive"

Alive == outcome = "alive"
Capturing(l) == Alive /\ handler_pc[main] = "none" /\ main_pc = l
At(h, l) == Alive /\ handler_pc[h] = l
HandlerGoto(h, l) == handler_pc' = [handler_pc EXCEPT ![h] = l]
Finish(how) == outcome' = how /\ UNCHANGED handler_pc

-----------------------------------------------------------------------------
(* Faulty variants: each is the definition it is named after with one      *)
(* plausible slip in the C; a property must fail when it takes its place.  *)

(* no pthread_join (main.c:26)                                             *)
JoinForgotten(h) ==
  /\ At(h, "join")
  /\ Finish("exited")
  /\ UNCHANGED <<vars, pd, t1, main_pc, calls>>

(* main closes pd itself when pcap_loop returns, and calls CatchShutdown   *)
LoopReturnsCloses ==
  /\ Capturing("loop")
  /\ pd' = "closed"
  /\ calls < MaxCalls /\ calls' = calls + 1
  /\ HandlerGoto(main, "close")
  /\ UNCHANGED <<vars, t1, main_pc, outcome>>

-----------------------------------------------------------------------------
(* main                                                                    *)

Enter(h) ==
  /\ calls < MaxCalls
  /\ calls' = calls + 1
  /\ HandlerGoto(h, "close")

(* pcap_open_live; without a handle main goes on to CatchShutdown(-1)      *)
Open ==
  /\ Capturing("open")
  /\ \/ pd' = "open" /\ main_pc' = "create" /\ UNCHANGED <<handler_pc, calls>>
     \/ Enter(main) /\ UNCHANGED <<pd, main_pc>>
  /\ UNCHANGED <<vars, t1, outcome>>

(* pthread_create, whose result is ignored                                 *)
Create ==
  /\ Capturing("create")
  /\ t1' \in BOOLEAN
  /\ main_pc' = "loop"
  /\ UNCHANGED <<vars, pd, handler_pc, calls, outcome>>

(* pcap_loop returns on an error; CatchShutdown(-1)                        *)
LoopReturns ==
  /\ Capturing("loop")
  /\ Enter(main)
  /\ UNCHANGED <<vars, pd, t1, main_pc, outcome>>

-----------------------------------------------------------------------------
(* CatchShutdown, run by thread h.                                         *)

(* The kernel gives a signal to main unless main is already handling one.  *)
Signal(h) ==
  /\ Alive
  /\ h # main => handler_pc[main] # "none" /\ handler_pc[h] = "none"
  /\ h = trans => t1 /\ trans_pc # "done"
  /\ Enter(h)
  /\ UNCHANGED <<vars, pd, t1, main_pc, outcome>>

(* pd is tested and closed, but not cleared                                *)
ClosePd(h) ==
  /\ At(h, "close")
  /\ IF pd = "closed"
     THEN Finish("closed twice") /\ UNCHANGED pd
     ELSE /\ pd' = IF pd = "open" THEN "closed" ELSE pd
          /\ HandlerGoto(h, "stop") /\ UNCHANGED outcome
  /\ UNCHANGED <<vars, t1, main_pc, calls>>

StopTrans(h) ==
  /\ At(h, "stop")
  /\ stop_trans
  /\ HandlerGoto(h, "join")
  /\ UNCHANGED <<pd, t1, main_pc, calls, outcome>>

(* t1 is garbage unless pthread_create succeeded; trans itself gets EDEADLK*)
JoinT1(h) ==
  /\ At(h, "join")
  /\ IF ~t1 THEN Finish("join of nothing")
     ELSE IF h = trans THEN Finish("exited")
     ELSE HandlerGoto(h, "wait") /\ UNCHANGED outcome
  /\ UNCHANGED <<vars, pd, t1, main_pc, calls>>

(* pthread_join returns, exit(1)                                           *)
Joined(h) ==
  /\ At(h, "wait")
  /\ trans_pc = "done"
  /\ Finish("exited")
  /\ UNCHANGED <<vars, pd, t1, main_pc, calls>>

CatchShutdown(h) == ClosePd(h) \/ StopTrans(h) \/ JoinT1(h) \/ Joined(h)

-----------------------------------------------------------------------------
(* The other threads run while the process lives; trans exists once it was *)
(* created, and stands still while it runs the handler.                    *)
Runs(Step) == Alive /\ Step /\ UNCHANGED progVars
TransRuns(Step) == Runs(t1 /\ handler_pc[trans] = "none" /\ Step)

CaptureNext ==
  \/ Open \/ Create \/ LoopReturns
  \/ \E h \in Threads : Signal(h) \/ CatchShutdown(h)
  \/ \E p \in Producers : Runs(Push(p))
  \/ TransRuns(trans_buff)

CaptureSpec == CaptureInit /\ [][CaptureNext]_allVars

(* Threads that can run are run; a thread that keeps asking for a mutex    *)
(* that keeps becoming free gets it (trans_buff sleeps between its turns,  *)
(* producers wait for frames between theirs).  pcap_open_live returns.     *)
(* Nobody need ever log, no signal need come, pcap_loop need not return.   *)
Fairness ==
  /\ WF_allVars(Open \/ Create)
  /\ \A h \in Threads : WF_allVars(CatchShutdown(h))
  /\ \A p \in Producers :
       /\ SF_allVars(Runs(PushLock(p)))
       /\ WF_allVars(Runs(PushLink(p) \/ PushTail(p) \/ PushUnlock(p)))
  /\ SF_allVars(TransRuns(PopLock))
  /\ WF_allVars(TransRuns(\/ CheckRunning \/ PopRead \/ PopAdvance \/ PopTrim
                          \/ PopUnlock \/ Transmit \/ FreeNode))

FairSpec == CaptureSpec /\ Fairness

-----------------------------------------------------------------------------
(* A shutdown goes wrong in two ways only: CatchShutdown was entered again *)
(* after it had closed pd (main.c:21 does not clear it), or the thread it  *)
(* joins was never created (main.c:26, reached from a failed               *)
(* pcap_open_live or an early signal).  One signal in a running capture    *)
(* never ends in a fault.                                                  *)
FaultsExplained ==
  /\ outcome = "closed twice" => calls > 1 /\ pd = "closed"
  /\ outcome = "join of nothing" => ~t1

(* When the process exits the capture is closed, the queue's thread has    *)
(* been told to stop, and unless that thread ran the handler itself it has *)
(* ended: no string is being sent while the process exits.                 *)
ExitIsClean ==
  outcome = "exited" =>
    /\ pd = "closed" /\ ~trans_running
    /\ trans_pc = "done" \/ handler_pc[trans] # "none"

(* A string that was pushed is handed to do_trans, unless a shutdown comes *)
(* first, or pthread_create failed: main.c:127 does not look, and captures *)
(* on with nobody to send.                                                 *)
PushedIsSent ==
  \A n \in Nodes :
    n \in NodesOf(fifo) ~>
      \/ trans_pc = "send" /\ ret = n
      \/ ~trans_running \/ ~Alive
      \/ main_pc = "loop" /\ ~t1

(* Once CatchShutdown has been entered the process ends: the join returns, *)
(* however much is queued and whoever holds the mutex.                     *)
ShutdownEnds == (\E h \in Threads : handler_pc[h] # "none") ~> ~Alive

=============================================================================
