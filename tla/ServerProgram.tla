---------------------------- MODULE ServerProgram ----------------------------
(***************************************************************************)
(* capserver.c as a whole: the start of main, the slots of ServerSlots, the*)
(* polling thread of Refresher, and a shutdown that first stops and joins  *)
(* that thread and then clears the slots.                                  *)
(***************************************************************************)
EXTENDS ServerSlots, Refresher

VARIABLES
  stage,     (* how far main and then its handler have come                *)
  awaited,   (* the polling thread the handler is joining                  *)
  halted     (* did the handler join a polling thread that was never made? *)

startVars == <<stage, awaited, halted>>
serverVars == <<vars, refresherVars, startVars>>

ServerTypeOK ==
  /\ TypeOK /\ RefresherTypeOK
  /\ stage \in {"db", "config", "serve", "stop", "join", "wait", "slots"}
  /\ awaited \in Refreshers \cup {None}
  /\ halted \in BOOLEAN

(* The handlers are installed and clearThread has found empty slots.       *)
ServerInit ==
  /\ Init /\ RefresherInit
  /\ stage = "db" /\ awaited = None /\ halted = FALSE

Running == ~halted /\ ~Down
InStage(l) == stage = l /\ Running

ShuttingDown == stage \in {"stop", "join", "wait", "slots"}

-----------------------------------------------------------------------------
(* The start of main.                                                      *)

(* initDB: without a database main calls CatchShutdown(-1)                 *)
initDB ==
  /\ InStage("db")
  /\ stage' \in {"config", "stop"}
  /\ UNCHANGED <<vars, refresherVars, awaited, halted>>

(* pthread_create of the polling thread may fail, which nobody notices     *)
initConfig ==
  /\ InStage("config")
  /\ stage' = "serve"
  /\ CreateRefresher \/ UNCHANGED refresherVars
  /\ UNCHANGED <<vars, awaited, halted>>

-----------------------------------------------------------------------------
(* CatchShutdown.                                                          *)

Signal ==
  /\ Running /\ ~ShuttingDown
  /\ stage' = "stop"
  /\ UNCHANGED <<vars, refresherVars, awaited, halted>>

StopRefresh ==
  /\ InStage("stop")
  /\ StopRefresher
  /\ stage' = "join"
  /\ UNCHANGED <<vars, awaited, halted>>

(* pthread_join(thread_refresh_config)                                     *)
JoinRefresh ==
  /\ InStage("join")
  /\ IF thread_refresh_config = None
     THEN halted' = TRUE /\ UNCHANGED <<stage, awaited>>
     ELSE /\ awaited' = thread_refresh_config
          /\ stage' = "wait"
          /\ UNCHANGED halted
  /\ UNCHANGED <<vars, refresherVars>>

(* the join returns; clearThread                                           *)
ClearThreads ==
  /\ InStage("wait")
  /\ refresher[awaited] = "done"
  /\ CatchShutdown
  /\ stage' = "slots"
  /\ UNCHANGED <<refresherVars, awaited, halted>>

-----------------------------------------------------------------------------
(* main is in the accept loop until a signal comes; the other threads and  *)
(* the clients go on until the process ends.                               *)
Serves(Step) == Running /\ Step /\ UNCHANGED <<refresherVars, startVars>>
Polls(Step) == Running /\ Step /\ UNCHANGED <<vars, startVars>>

Shutdown ==
  StopRefresh \/ JoinRefresh \/ ClearThreads \/ Serves(stage = "slots" /\ Handler)

ServerNext ==
  \/ initDB \/ initConfig \/ Signal \/ Shutdown
  \/ Serves(stage = "serve" /\ MainLoop)
  \/ Serves(\E c \in Conns : socket_loop(c))
  \/ Serves(Clients)
  \/ Polls(\E r \in Refreshers : RefresherRuns(r))

ServerSpec == ServerInit /\ [][ServerNext]_serverVars

(* Threads run; the data and the departure of a client, and the signal,    *)
(* need never come.                                                        *)
Fairness ==
  /\ WF_serverVars(initDB \/ initConfig \/ Serves(stage = "serve" /\ MainLoop))
  /\ WF_serverVars(Shutdown)
  /\ \A r \in Refreshers : WF_serverVars(Polls(RefresherRuns(r)))
  /\ \A c \in Conns :
       WF_serverVars(Serves(Start(c) \/ RecvEnd(c) \/ Check(c) \/ _stopThread(c)))

FairSpec == ServerSpec /\ Fairness

-----------------------------------------------------------------------------
(* Only a server that has not listened yet, or whose pthread_create in     *)
(* initConfig failed, dies of joining a polling thread that is not there   *)
(* (capserver.c:360 comes before initConfig); and it does so before the    *)
(* slots are touched: their threads still have their own connections.      *)
EarlyJoinExplained ==
  halted =>
    /\ \A r \in Refreshers : refresher[r] = "none"
    /\ ~Stopping /\ fault = "none"
    /\ refresh_config_running = FALSE

(* A connection whose client has gone is closed and its slot comes back,   *)
(* unless the server goes down first.                                      *)
GoneIsClosed ==
  \A c \in Conns :
    conn[c] = "open" /\ ~peer[c] ~>
      (conn[c] = "closed" /\ \A s \in Slots : t[s] # c) \/ ShuttingDown \/ ~Running

(* The whole shutdown ends, if the clients connected at that time go (it   *)
(* waits for threads that are waiting for their clients), and unless a     *)
(* polling thread that started late, or that was started by a reload, has  *)
(* set the flag again: then the join may never return.                     *)
ShutdownEnds ==
  (<>[](\A c \in Conns : conn[c] = "open" => ~peer[c])) =>
    (ShuttingDown ~> ~Running \/ refresh_config_running)

=============================================================================
