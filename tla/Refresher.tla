------------------------------ MODULE Refresher ------------------------------
(***************************************************************************)
(* What the rest of a program can see of the thread that polls the         *)
(* configuration: the flag it runs under, the thread pthread_create        *)
(* returned last, and how far each thread is.  ConfigReload implements it; *)
(* ServerProgram shuts it down.                                            *)
(***************************************************************************)
CONSTANTS Refreshers,  (* threads that can run refresh_config              *)
          None

ASSUME RefreshersAssumption == None \notin Refreshers

VARIABLES
  refresh_config_running,
  thread_refresh_config,   (* None before pthread_create has succeeded     *)
  refresher                (* where each thread is                         *)

refresherVars ==
  <<refresh_config_running, thread_refresh_config, refresher>>

RefresherTypeOK ==
  /\ refresh_config_running \in BOOLEAN
  /\ thread_refresh_config \in Refreshers \cup {None}
  /\ refresher \in
       [Refreshers -> {"none", "start", "loop", "poll", "reload", "done"}]

RefresherInit ==
  /\ refresh_config_running = FALSE
  /\ thread_refresh_config = None
  /\ refresher = [r \in Refreshers |-> "none"]

RefresherGoto(r, l) == refresher' = [refresher EXCEPT ![r] = l]

-----------------------------------------------------------------------------
(* Faulty variants: each is the definition it is named after with one      *)
(* plausible slip in the C; a property must fail when it takes its place.  *)

(* the thread is stored in a local variable of initConfig (utils.c:269)    *)
CreateRefresherLocal ==
  /\ ~refresh_config_running
  /\ \E r \in Refreshers :
       /\ refresher[r] = "none"
       /\ RefresherGoto(r, "start")
  /\ UNCHANGED <<refresh_config_running, thread_refresh_config>>

(* refresh_config sleeps on while the flag is clear (utils.c:234)          *)
TestRunningIgnored(r) ==
  /\ refresher[r] = "loop"
  /\ RefresherGoto(r, "poll")
  /\ UNCHANGED <<refresh_config_running, thread_refresh_config>>

-----------------------------------------------------------------------------
(* pthread_create at the head of initConfig, called by main; that it may   *)
(* fail is a step that changes nothing                                     *)
CreateRefresher ==
  /\ ~refresh_config_running
  /\ \E r \in Refreshers :
       /\ refresher[r] = "none"
       /\ RefresherGoto(r, "start")
       /\ thread_refresh_config' = r
  /\ UNCHANGED refresh_config_running

(* the flag is tested, then set                                            *)
StartRefresher(r) ==
  /\ refresher[r] = "start"
  /\ refresh_config_running' = TRUE
  /\ RefresherGoto(r, IF refresh_config_running THEN "done" ELSE "loop")
  /\ UNCHANGED thread_refresh_config

TestRunning(r) ==
  /\ refresher[r] = "loop"
  /\ RefresherGoto(r, IF refresh_config_running THEN "poll" ELSE "done")
  /\ UNCHANGED <<refresh_config_running, thread_refresh_config>>

(* the file is looked at: it may have changed                              *)
Poll(r) ==
  /\ refresher[r] = "poll"
  /\ RefresherGoto(r, "loop") \/ RefresherGoto(r, "reload")
  /\ UNCHANGED <<refresh_config_running, thread_refresh_config>>

(* initConfig called by the refresher itself: when the flag has been       *)
(* cleared since the test it creates another thread, if pthread_create can.*)
(* The rest of it only touches my_config, on the way back to the loop.     *)
Reload(r) ==
  /\ refresher[r] = "reload"
  /\ \/ RefresherGoto(r, "loop") /\ UNCHANGED thread_refresh_config
     \/ /\ ~refresh_config_running
        /\ \E k \in {k \in Refreshers : refresher[k] = "none"} :
             /\ refresher' = [refresher EXCEPT ![r] = "loop", ![k] = "start"]
             /\ thread_refresh_config' = k
  /\ UNCHANGED refresh_config_running

StopRefresher ==
  /\ refresh_config_running' = FALSE
  /\ UNCHANGED <<thread_refresh_config, refresher>>

RefresherRuns(r) == StartRefresher(r) \/ TestRunning(r) \/ Poll(r) \/ Reload(r)

RefresherNext ==
  CreateRefresher \/ StopRefresher \/ (\E r \in Refreshers : RefresherRuns(r))

RefresherSpec == RefresherInit /\ [][RefresherNext]_refresherVars

=============================================================================
