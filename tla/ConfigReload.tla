---------------------------- MODULE ConfigReload -----------------------------
(***************************************************************************)
(* The configuration of both programs (utils.c): initConfig, the thread    *)
(* refresh_config that polls the file and calls initConfig again, and the  *)
(* two users of it that run beside that thread: the capture program, which *)
(* keeps the name and the MAC address of its device in the same structure, *)
(* and the server's shutdown, which stops the thread and joins it.         *)
(*                                                                         *)
(* my_config and the running flag are shared without a lock.  A version of *)
(* the file is a number; `stamp' stands for its st_mtime and st_size.      *)
(***************************************************************************)
EXTENDS Naturals, FiniteSets

CONSTANTS Refreshers,  (* threads that can run refresh_config              *)
          MaxEdits,    (* how often the file is edited                     *)
          Silent,      (* may an edit keep both st_mtime and st_size?      *)
          main, None

ASSUME ThreadsAssumption ==
  Refreshers # {} /\ main \notin Refreshers /\ None \notin Refreshers
ASSUME EditsAssumption ==
  MaxEdits \in Nat /\ Silent \in BOOLEAN /\ None \notin Nat

VARIABLES
  program,      (* "spy" or "capserver"                                    *)
  file,         (* version, stamp, does it exist, does it parse            *)
  filters,      (* the version my_config's lists come from, or None        *)
  freed,        (* have those lists been freed (and not yet been cleared)? *)
  device_name, device_mac,  (* are they set in my_config?                  *)
  config_stat,  (* the stamp remembered, or None                           *)
  refresh_config_running,
  thread_refresh_config,    (* the thread pthread_create returned last     *)
  pc,
  text,         (* the version each thread has read and parsed             *)
  statbuf,      (* the stamp each refresher is working on                  *)
  joining,      (* the thread the server's main is waiting for             *)
  fault,        (* the first thing that ends the process                   *)
  blank,        (* history: was a frame sent without the MAC?              *)
  refused,      (* history: did the kernel not tell a named device's MAC?  *)
  reloaded,     (* history: did a refresher replace my_config?             *)
  missed        (* history: was there an edit that polling can not see, or *)
                (* did main's initConfig write over a reload?              *)

cfgVars == <<filters, freed, device_name, device_mac>>
refVars == <<config_stat, refresh_config_running, thread_refresh_config>>
locVars == <<text, statbuf, joining>>
histVars == <<blank, refused, reloaded, missed>>
vars == <<program, file, cfgVars, refVars, pc, locVars, fault, histVars>>

Procs == Refreshers \cup {main}
InitConfigPc == {"spawn", "read", "free", "clear", "fill"}
RefresherPc == {"none", "start", "loop", "stat", "remember", "done"}
MainPc == {"name", "frame", "mac", "copy", "send", "serve", "join", "wait",
           "exited"}

TypeOK ==
  /\ program \in {"spy", "capserver"}
  /\ file \in [version : 0..MaxEdits, stamp : 0..MaxEdits,
               exists : BOOLEAN, parses : BOOLEAN]
  /\ filters \in 0..MaxEdits \cup {None} /\ freed \in BOOLEAN
  /\ device_name \in BOOLEAN /\ device_mac \in BOOLEAN
  /\ config_stat \in 0..MaxEdits \cup {None}
  /\ refresh_config_running \in BOOLEAN
  /\ thread_refresh_config \in Refreshers \cup {None}
  /\ pc \in [Procs -> InitConfigPc \cup RefresherPc \cup MainPc]
  /\ text \in [Procs -> 0..MaxEdits] /\ statbuf \in [Refreshers -> 0..MaxEdits]
  /\ joining \in Refreshers \cup {None}
  /\ fault \in {"none", "freed twice", "no MAC", "no thread"}
  /\ blank \in BOOLEAN /\ refused \in BOOLEAN /\ reloaded \in BOOLEAN /\ missed \in BOOLEAN

Init ==
  /\ program \in {"spy", "capserver"}
  /\ file \in [version : {0}, stamp : {0}, exists : BOOLEAN, parses : BOOLEAN]
  /\ filters = None /\ freed = FALSE
  /\ device_name = FALSE /\ device_mac = FALSE
  /\ config_stat = None
  /\ refresh_config_running = FALSE /\ thread_refresh_config = None
  /\ pc = [x \in Procs |-> IF x = main THEN "spawn" ELSE "none"]
  /\ text = [x \in Procs |-> 0] /\ statbuf = [r \in Refreshers |-> 0]
  /\ joining = None
  /\ fault = "none"
  /\ blank = FALSE /\ refused = FALSE /\ reloaded = FALSE /\ missed = FALSE

Alive == fault = "none" /\ pc[main] # "exited"
At(x, l) == pc[x] = l /\ Alive
Goto(x, l) == pc' = [pc EXCEPT ![x] = l]

(* Where initConfig returns to: refresh_config, or the rest of main.       *)
AfterInitConfig(x) ==
  IF x # main THEN "remember" ELSE IF program = "spy" THEN "name" ELSE "serve"

-----------------------------------------------------------------------------
(* Faulty variants: each is the definition it is named after with one      *)
(* plausible slip in the C; a property must fail when it takes its place.  *)

(* no if(!refresh_config_running) (utils.c:268)                            *)
SpawnAlways(x) ==
  /\ At(x, "spawn")
  /\ \/ Goto(x, "read") /\ UNCHANGED thread_refresh_config
     \/ \E r \in {r \in Refreshers : pc[r] = "none"} :
          /\ pc' = [pc EXCEPT ![x] = "read", ![r] = "start"]
          /\ thread_refresh_config' = r
  /\ UNCHANGED <<program, file, cfgVars, config_stat, refresh_config_running,
                 locVars, fault, histVars>>

(* shutdown_refresh_config without its pthread_join: the server goes on    *)
StopRefreshUnjoined ==
  /\ At(main, "serve")
  /\ refresh_config_running' = FALSE
  /\ UNCHANGED <<program, file, cfgVars, config_stat, thread_refresh_config,
                 pc, locVars, fault, histVars>>

(* while(1) in refresh_config (utils.c:234)                                *)
LoopForever(r) ==
  /\ At(r, "loop")
  /\ Goto(r, "stat")
  /\ UNCHANGED <<program, file, cfgVars, refVars, locVars, fault, histVars>>

(* the file is looked at again after the reload, instead of statbuf        *)
RememberCurrent(r) ==
  /\ At(r, "remember")
  /\ config_stat' = file.stamp
  /\ Goto(r, "loop")
  /\ UNCHANGED <<program, file, cfgVars, refresh_config_running,
                 thread_refresh_config, locVars, fault, histVars>>

(* the name is not stored (utils.c:391)                                    *)
SetNameForgotten ==
  /\ At(main, "name")
  /\ device_mac' = FALSE
  /\ Goto(main, "frame")
  /\ UNCHANGED <<program, file, filters, freed, device_name, refVars, locVars,
                 fault, histVars>>

(* the result of readDeviceMac is kept as a pointer, NULL too              *)
ReadMacKeepsPointer ==
  /\ At(main, "mac")
  /\ device_mac' = IF device_name THEN TRUE ELSE None
  /\ Goto(main, "copy")
  /\ UNCHANGED <<program, file, filters, freed, device_name, refVars, locVars,
                 fault, histVars>>

-----------------------------------------------------------------------------
(* initConfig, called by main once and by refresh_config.                  *)

(* A thread is created unless the flag is set.  pthread_create may fail,  *)
(* which nobody notices and which leaves the stored thread as it was.      *)
Spawn(x) ==
  /\ At(x, "spawn")
  /\ \/ Goto(x, "read") /\ UNCHANGED thread_refresh_config
     \/ /\ ~refresh_config_running
        /\ \E r \in {r \in Refreshers : pc[r] = "none"} :
             /\ pc' = [pc EXCEPT ![x] = "read", ![r] = "start"]
             /\ thread_refresh_config' = r
  /\ UNCHANGED <<program, file, cfgVars, config_stat, refresh_config_running,
                 locVars, fault, histVars>>

(* stat, fopen, fread, cJSON_Parse: nothing happens without a file, and    *)
(* nothing but a message when it does not parse                            *)
Read(x) ==
  /\ At(x, "read")
  /\ IF file.exists /\ file.parses
     THEN Goto(x, "free") /\ text' = [text EXCEPT ![x] = file.version]
     ELSE Goto(x, AfterInitConfig(x)) /\ UNCHANGED text
  /\ UNCHANGED <<program, file, cfgVars, refVars, statbuf, joining, fault,
                 histVars>>

(* config_free: the lists are freed, then all of my_config is zeroed, the  *)
(* device's name and MAC included                                          *)
Free(x) ==
  /\ At(x, "free")
  /\ IF filters # None /\ freed
     THEN fault' = "freed twice" /\ UNCHANGED <<pc, freed>>
     ELSE freed' = (filters # None) /\ Goto(x, "clear") /\ UNCHANGED fault
  /\ UNCHANGED <<program, file, filters, device_name, device_mac, refVars,
                 locVars, histVars>>

Clear(x) ==
  /\ At(x, "clear")
  /\ filters' = None /\ freed' = FALSE
  /\ device_name' = FALSE /\ device_mac' = FALSE
  /\ reloaded' = (reloaded \/ x # main)
  /\ Goto(x, "fill")
  /\ UNCHANGED <<program, file, refVars, locVars, fault, blank, refused,
                 missed>>

Fill(x) ==
  /\ At(x, "fill")
  /\ filters' = text[x] /\ freed' = FALSE
  /\ missed' = (missed \/ (x = main /\ reloaded))
  /\ Goto(x, AfterInitConfig(x))
  /\ UNCHANGED <<program, file, device_name, device_mac, refVars, locVars,
                 fault, blank, refused, reloaded>>

initConfig(x) == Spawn(x) \/ Read(x) \/ Free(x) \/ Clear(x) \/ Fill(x)

-----------------------------------------------------------------------------
(* refresh_config, thread r.                                               *)

Start(r) ==
  /\ At(r, "start")
  /\ IF refresh_config_running
     THEN Goto(r, "done") /\ UNCHANGED refresh_config_running
     ELSE Goto(r, "loop") /\ refresh_config_running' = TRUE
  /\ UNCHANGED <<program, file, cfgVars, config_stat, thread_refresh_config,
                 locVars, fault, histVars>>

(* the loop's test and its 50 sleeps of 0.1 s                              *)
Loop(r) ==
  /\ At(r, "loop")
  /\ Goto(r, IF refresh_config_running THEN "stat" ELSE "done")
  /\ UNCHANGED <<program, file, cfgVars, refVars, locVars, fault, histVars>>

(* the first stamp seen is remembered as it is; a different one makes      *)
(* refresh_config reload                                                   *)
Stat(r) ==
  /\ At(r, "stat")
  /\ statbuf' = [statbuf EXCEPT ![r] = file.stamp]
  /\ config_stat' = IF file.exists /\ config_stat = None THEN file.stamp
                    ELSE config_stat
  /\ Goto(r, IF file.exists /\ config_stat \notin {None, file.stamp}
             THEN "spawn" ELSE "loop")
  /\ UNCHANGED <<program, file, cfgVars, refresh_config_running,
                 thread_refresh_config, text, joining, fault, histVars>>

Remember(r) ==
  /\ At(r, "remember")
  /\ config_stat' = statbuf[r]
  /\ Goto(r, "loop")
  /\ UNCHANGED <<program, file, cfgVars, refresh_config_running,
                 thread_refresh_config, locVars, fault, histVars>>

refresh_config(r) ==
  Start(r) \/ Loop(r) \/ Stat(r) \/ initConfig(r) \/ Remember(r)

-----------------------------------------------------------------------------
(* The capture program: set_config_device_name, then get_config_device_mac *)
(* for every frame.                                                        *)

SetName ==
  /\ At(main, "name")
  /\ device_name' = TRUE /\ device_mac' = FALSE
  /\ Goto(main, "frame")
  /\ UNCHANGED <<program, file, filters, freed, refVars, locVars, fault, histVars>>

Frame ==
  /\ At(main, "frame")
  /\ Goto(main, IF device_mac THEN "send" ELSE "mac")
  /\ UNCHANGED <<program, file, cfgVars, refVars, locVars, fault, histVars>>

(* readDeviceMac gives NULL when socket() or ioctl() fails, which the ioctl*)
(* does without a name; strcpy then reads it.                              *)
ReadMac ==
  /\ At(main, "mac")
  /\ \/ device_name /\ Goto(main, "copy") /\ UNCHANGED <<fault, refused>>
     \/ fault' = "no MAC" /\ refused' = device_name /\ UNCHANGED pc
  /\ UNCHANGED <<program, file, cfgVars, refVars, locVars, blank, reloaded,
                 missed>>

(* the strcpy of get_config_device_mac                                     *)
CopyMac ==
  /\ At(main, "copy")
  /\ device_mac' = TRUE
  /\ Goto(main, "send")
  /\ UNCHANGED <<program, file, filters, freed, device_name, refVars, locVars,
                 fault, histVars>>

(* the pointer to device_mac is read when the message is formatted         *)
SendFrame ==
  /\ At(main, "send")
  /\ blank' = (blank \/ ~device_mac)
  /\ Goto(main, "frame")
  /\ UNCHANGED <<program, file, cfgVars, refVars, locVars, fault, refused,
                 reloaded, missed>>

(* The server: shutdown_refresh_config, called by CatchShutdown.           *)
StopRefresh ==
  /\ At(main, "serve")
  /\ refresh_config_running' = FALSE
  /\ Goto(main, "join")
  /\ UNCHANGED <<program, file, cfgVars, config_stat, thread_refresh_config,
                 locVars, fault, histVars>>

JoinRefresh ==
  /\ At(main, "join")
  /\ joining' = thread_refresh_config
  /\ IF thread_refresh_config = None
     THEN fault' = "no thread" /\ UNCHANGED pc
     ELSE Goto(main, "wait") /\ UNCHANGED fault
  /\ UNCHANGED <<program, file, cfgVars, refVars, text, statbuf, histVars>>

Joined ==
  /\ At(main, "wait")
  /\ pc[joining] = "done"
  /\ Goto(main, "exited")
  /\ UNCHANGED <<program, file, cfgVars, refVars, locVars, fault, histVars>>

-----------------------------------------------------------------------------
(* Somebody edits the file.  Polling misses an edit that leaves the stamp  *)
(* alone, or comes after main has read the file and before the first poll, *)
(* which only remembers the stamp.                                         *)
Edit ==
  /\ Alive
  /\ file.version < MaxEdits
  /\ \E s \in {file.stamp + 1} \cup (IF Silent THEN {file.stamp} ELSE {}) :
     \E ok \in BOOLEAN :
       /\ file' = [version |-> file.version + 1, stamp |-> s,
                   exists |-> TRUE, parses |-> ok]
       /\ missed' = \/ missed
                    \/ file.exists /\ s = file.stamp
                    \/ config_stat = None /\ pc[main] \notin {"spawn", "read"}
  /\ UNCHANGED <<program, cfgVars, refVars, pc, locVars, fault, blank, refused,
                 reloaded>>

Main ==
  \/ initConfig(main) \/ SetName \/ Frame \/ ReadMac \/ CopyMac \/ SendFrame
  \/ JoinRefresh \/ Joined

Next ==
  Main \/ StopRefresh \/ (\E r \in Refreshers : refresh_config(r)) \/ Edit

Spec == Init /\ [][Next]_vars

(* Threads that can run are run; the shutdown and the edits need not come. *)
FairSpec ==
  /\ Spec
  /\ WF_vars(Main)
  /\ \A r \in Refreshers : WF_vars(refresh_config(r))

-----------------------------------------------------------------------------
Stopped == pc[main] \in {"join", "wait", "exited"}

(* A reload never starts a second refresher: until the server is told to   *)
(* stop, one thread polls, however often initConfig is called.             *)
OneRefresher ==
  ~Stopped => Cardinality({r \in Refreshers : pc[r] # "none"}) <= 1

(* What a reload that wipes my_config can do to the capture program.  The *)
(* pointer that get_config_device_mac returned may be read after it: one   *)
(* frame goes out without its source, and no other, the next finds neither *)
(* MAC nor name.  Nothing but such a reload and the kernel's refusal makes *)
(* strcpy copy from NULL.                                                  *)
WipeCostsOneFrame ==
  /\ blank => reloaded /\ pc[main] \notin {"copy", "send"}
  /\ fault = "no MAC" => reloaded \/ refused

(* Two threads are in config_free at once only if main is so slow that the *)
(* first reload overtakes its own initConfig, or a stop was undone.        *)
FreedTwiceExplained ==
  fault = "freed twice" => pc[main] \in InitConfigPc \/ Stopped

(* If main's initConfig could create the polling thread, a version that    *)
(* parses and that polling can see gets into my_config, and stays there,   *)
(* once it is the last one.                                                *)
LastVersionLoaded ==
  (<>[](/\ file.exists /\ file.parses /\ ~missed
        /\ thread_refresh_config # None /\ ~Stopped /\ fault = "none"))
    => <>[](filters = file.version)

(* shutdown_refresh_config returns, unless a refresher that had not begun  *)
(* to run, or one started by a reload, sets the flag again.                *)
StopReturns ==
  pc[main] \in {"join", "wait"} ~> pc[main] = "exited" \/ refresh_config_running
                       \/ fault # "none"

(* The polling thread and its flag do what Refresher says: all a shutdown  *)
(* has to know of it, whatever is in the file.                             *)
Seen(l) ==
  CASE l = "stat" -> "poll"
    [] l = "spawn" -> "reload"
    [] l \in {"read", "free", "clear", "fill", "remember"} -> "loop"
    [] OTHER -> l
Polling == INSTANCE Refresher WITH
             refresher <- [r \in Refreshers |-> Seen(pc[r])]
RefinesRefresher == Polling!RefresherSpec

(* The device named on the command line (start.sh:22) stays known while    *)
(* the configuration is reloaded under the capture thread, as long as the  *)
(* kernel tells its MAC.                                                   *)
CaptureSurvivesReload == fault = "no MAC" => refused

(* What utils.c:249 announces: a file that has changed will be reloaded,   *)
(* when main's initConfig has loaded one and created the polling thread,   *)
(* and nothing but that was loaded yet.                                    *)
ChangeIsReloaded ==
  \A v \in 1..MaxEdits :
    /\ file.version = v /\ file.parses /\ ~reloaded
    /\ pc[main] = "frame" /\ filters # None /\ thread_refresh_config # None
    ~> filters = v \/ file.version # v \/ fault # "none"

=============================================================================
