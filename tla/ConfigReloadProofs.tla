-------------------------- MODULE ConfigReloadProofs -------------------------
(***************************************************************************)
(* Proofs about ConfigReload, for any number of threads and edits: there is*)
(* one polling thread until a stop, what a reload can cost the capture     *)
(* program, when lists are freed twice, and that the polling thread and its*)
(* flag implement Refresher.                                               *)
(***************************************************************************)
EXTENDS ConfigReload, TLAPS, FiniteSetTheorems

-----------------------------------------------------------------------------
(* The inductive invariant.                                                *)

(* An edit that changes the stamp changes it by no more than the version.  *)
Stamped == file.stamp <= file.version

(* Until a stop there is at most one thread, none before main makes it, and*)
(* while it polls the flag is set, so that a reload makes no other.        *)
Single ==
  ~Stopped =>
    /\ \A r, q \in Refreshers : pc[r] # "none" /\ pc[q] # "none" => r = q
    /\ pc[main] = "spawn" => \A r \in Refreshers : pc[r] = "none"
    /\ \A r \in Refreshers :
         pc[r] \notin {"none", "start", "done"} => refresh_config_running

(* What main has of its device: while nobody has reloaded, its name and the*)
(* MAC it is about to send; once it has sent a frame without one, nothing. *)
Named ==
  /\ ~reloaded =>
       /\ ~blank
       /\ pc[main] \in {"frame", "mac", "copy", "send"} => device_name
       /\ pc[main] = "send" => device_mac
  /\ pc[main] = "send" /\ ~device_mac => ~device_name
  /\ blank => pc[main] \in {"frame", "mac"} /\ ~device_name /\ ~device_mac
  /\ fault = "no MAC" => reloaded \/ refused

(* The lists are freed only for as long as somebody is about to clear them.*)
Clearing == freed => \E x \in Procs : pc[x] = "clear"

Inv == TypeOK /\ Stamped /\ Single /\ Named /\ Clearing /\ FreedTwiceExplained

USE ThreadsAssumption, EditsAssumption DEF Procs

-----------------------------------------------------------------------------
(* A process that goes on leaves the others where they are.                *)
LEMMA Moves ==
  ASSUME TypeOK, NEW x \in Procs, NEW l, Goto(x, l)
  PROVE  pc'[x] = l /\ \A y \in Procs \ {x} : pc'[y] = pc[y]
BY DEF TypeOK, Goto

(* What initConfig does to the program counters: x goes on, and a thread   *)
(* may start.                                                              *)
SpawnsFor(x) ==
  \E r \in Refreshers :
    /\ pc[r] = "none" /\ ~refresh_config_running
    /\ pc'[r] = "start" /\ pc'[x] = "read" /\ thread_refresh_config' = r
    /\ \A y \in Procs \ {x, r} : pc'[y] = pc[y]

(* initConfig creates a polling thread or goes on without one.             *)
LEMMA SpawnMoves ==
  ASSUME TypeOK, NEW x \in Procs, Spawn(x)
  PROVE  /\ pc[x] = "spawn"
         /\ \/ SpawnsFor(x)
            \/ Goto(x, "read") /\ UNCHANGED thread_refresh_config
<1>1. CASE Goto(x, "read") /\ UNCHANGED thread_refresh_config
  BY <1>1 DEF Spawn, At
<1>2. CASE ~(Goto(x, "read") /\ UNCHANGED thread_refresh_config)
  <2>1. /\ ~refresh_config_running
        /\ \E r \in {r \in Refreshers : pc[r] = "none"} :
             /\ pc' = [pc EXCEPT ![x] = "read", ![r] = "start"]
             /\ thread_refresh_config' = r
    BY <1>2 DEF Spawn
  <2>2. PICK r \in Refreshers :
          /\ pc[r] = "none"
          /\ pc' = [pc EXCEPT ![x] = "read", ![r] = "start"]
          /\ thread_refresh_config' = r
    BY <2>1
  <2>3. x # r
    BY <2>2 DEF Spawn, At
  <2>4. SpawnsFor(x)
    BY <2>1, <2>2, <2>3 DEF SpawnsFor, TypeOK
  <2> QED
    BY <2>4 DEF Spawn, At
<1> QED
  BY <1>1, <1>2

-----------------------------------------------------------------------------
(* The types.                                                              *)

(* TypeOK in three parts, of which most steps touch one or two.            *)
FileTyped ==
  file \in [version : 0..MaxEdits, stamp : 0..MaxEdits,
            exists : BOOLEAN, parses : BOOLEAN]
PcTyped == pc \in [Procs -> InitConfigPc \cup RefresherPc \cup MainPc]
FlagsTyped ==
  /\ freed \in BOOLEAN /\ device_name \in BOOLEAN /\ device_mac \in BOOLEAN
  /\ refresh_config_running \in BOOLEAN
  /\ blank \in BOOLEAN /\ refused \in BOOLEAN /\ reloaded \in BOOLEAN /\ missed \in BOOLEAN
DataTyped ==
  /\ program \in {"spy", "capserver"}
  /\ filters \in 0..MaxEdits \cup {None}
  /\ config_stat \in 0..MaxEdits \cup {None}
  /\ thread_refresh_config \in Refreshers \cup {None}
  /\ text \in [Procs -> 0..MaxEdits] /\ statbuf \in [Refreshers -> 0..MaxEdits]
  /\ joining \in Refreshers \cup {None}
  /\ fault \in {"none", "freed twice", "no MAC", "no thread"}

(* The types of the file, the places, the flags and the data.              *)
LEMMA TypeParts == TypeOK <=> FileTyped /\ PcTyped /\ FlagsTyped /\ DataTyped
BY DEF TypeOK, FileTyped, PcTyped, FlagsTyped, DataTyped

(* Every place a process goes to is a place it may be at.                  *)
LEMMA PcMoves ==
  ASSUME PcTyped, NEW x \in Procs,
         NEW l \in InitConfigPc \cup RefresherPc \cup MainPc, Goto(x, l)
  PROVE  PcTyped'
BY DEF PcTyped, Goto

(* What is read of the file is within its bounds.                          *)
LEMMA FileRead == FileTyped => file.version \in 0..MaxEdits /\ file.stamp \in 0..MaxEdits
BY DEF FileTyped

(* No step takes a process to a place that it does not have.               *)
LEMMA PcStep == PcTyped /\ [Next]_vars => PcTyped'
<1> SUFFICES ASSUME PcTyped, [Next]_vars PROVE PcTyped'
  OBVIOUS
<1>1. CASE UNCHANGED pc
  BY <1>1 DEF PcTyped
<1>2. ASSUME NEW x \in Procs, Spawn(x) PROVE PcTyped'
  BY <1>2 DEF PcTyped, Spawn, Goto, InitConfigPc, RefresherPc
<1>3. ASSUME NEW x \in Procs, NEW l, Goto(x, l),
             l \in {"read", "free", "clear", "fill", "spawn", "loop", "stat",
                    "remember", "done", "name", "frame", "mac", "copy", "send",
                    "serve", "join", "wait", "exited"}
      PROVE  PcTyped'
  BY <1>3, PcMoves DEF InitConfigPc, RefresherPc, MainPc
<1>4. ASSUME NEW x \in Procs, Read(x) \/ Free(x) \/ Clear(x) \/ Fill(x)
      PROVE  PcTyped'
  <2>1. AfterInitConfig(x) \in {"name", "serve", "remember"}
    BY DEF AfterInitConfig
  <2>2. \/ UNCHANGED pc
        \/ \E l \in {"free", "clear", "fill", "name", "serve", "remember"} :
             Goto(x, l)
    BY <1>4, <2>1 DEF Read, Free, Clear, Fill
  <2> QED
    BY <1>1, <1>3, <2>2
<1>5. ASSUME NEW r \in Refreshers, Start(r) \/ Loop(r) \/ Stat(r) \/ Remember(r)
      PROVE  PcTyped'
  <2>1. \E l \in {"loop", "done", "stat", "spawn"} : Goto(r, l)
    BY <1>5 DEF Start, Loop, Stat, Remember
  <2> QED
    BY <1>3, <2>1
<1>6. CASE \/ SetName \/ Frame \/ ReadMac \/ CopyMac \/ SendFrame
           \/ StopRefresh \/ JoinRefresh \/ Joined
  <2>1. \/ UNCHANGED pc
        \/ \E l \in {"frame", "send", "mac", "copy", "join", "wait", "exited"} :
             Goto(main, l)
    BY <1>6 DEF SetName, Frame, ReadMac, CopyMac, SendFrame, StopRefresh, JoinRefresh, Joined
  <2> QED
    BY <1>1, <1>3, <2>1
<1>7. CASE Edit \/ UNCHANGED vars
  BY <1>1, <1>7 DEF Edit, vars
<1> QED
  BY <1>2, <1>4, <1>5, <1>6, <1>7
     DEF Next, Main, initConfig, refresh_config

(* An edit keeps the file's version and stamp within bounds.               *)
LEMMA FileStep == FileTyped /\ Stamped /\ [Next]_vars => FileTyped' /\ Stamped'
<1> SUFFICES ASSUME FileTyped, Stamped, [Next]_vars PROVE FileTyped' /\ Stamped'
  OBVIOUS
<1>1. CASE file' = file
  BY <1>1 DEF FileTyped, Stamped
<1>2. CASE Edit
  <2>1. PICK s \in Nat, ok \in BOOLEAN :
          /\ file' = [version |-> file.version + 1, stamp |-> s,
                      exists |-> TRUE, parses |-> ok]
          /\ s \in {file.stamp, file.stamp + 1}
    <3>1. /\ file.stamp \in Nat /\ file.stamp + 1 \in Nat
          /\ (IF Silent THEN {file.stamp} ELSE {}) \subseteq {file.stamp}
      BY FileRead
    <3>2. PICK s \in {file.stamp, file.stamp + 1} : \E ok \in BOOLEAN :
            file' = [version |-> file.version + 1, stamp |-> s,
                     exists |-> TRUE, parses |-> ok]
      BY <1>2, <3>1 DEF Edit
    <3> QED
      BY <3>1, <3>2
  <2>2. file.version < MaxEdits
    BY <1>2 DEF Edit
  <2> QED
    BY <2>1, <2>2, FileRead DEF FileTyped, Stamped
<1>3. CASE ~Edit
  <2>1. file' = file
    BY <1>3 DEF Next, Main, initConfig, refresh_config, Spawn, Read, Free, Clear,
       Fill, Start, Loop, Stat, Remember, SetName, Frame, ReadMac, CopyMac, SendFrame,
       StopRefresh, JoinRefresh, Joined, vars
  <2> QED
    BY <1>1, <2>1
<1> QED
  BY <1>2, <1>3

(* The flags and the stored thread stay in their types.                    *)
LEMMA FlagsStep == FlagsTyped /\ [Next]_vars => FlagsTyped'
<1> SUFFICES ASSUME FlagsTyped, [Next]_vars PROVE FlagsTyped'
  OBVIOUS
<1> USE DEF FlagsTyped, cfgVars, refVars, locVars, histVars
<1>1. ASSUME NEW x \in Procs, initConfig(x) PROVE FlagsTyped'
  <2>1. CASE Spawn(x)
    BY <2>1 DEF Spawn
  <2>2. CASE Read(x)
    BY <2>2 DEF Read
  <2>3. CASE Free(x)
    BY <2>3 DEF Free
  <2>4. CASE Clear(x)
    BY <2>4 DEF Clear
  <2>5. CASE Fill(x)
    BY <2>5 DEF Fill
  <2> QED
    BY <1>1, <2>1, <2>2, <2>3, <2>4, <2>5 DEF initConfig
<1>2. ASSUME NEW r \in Refreshers, Start(r) \/ Loop(r) \/ Stat(r) \/ Remember(r)
      PROVE  FlagsTyped'
  <2>1. CASE Start(r) \/ Loop(r)
    BY <2>1 DEF Start, Loop
  <2>2. CASE Stat(r)
    BY <2>2 DEF Stat
  <2>3. CASE Remember(r)
    BY <2>3 DEF Remember
  <2> QED
    BY <1>2, <2>1, <2>2, <2>3
<1>3. CASE SetName \/ Frame \/ ReadMac \/ CopyMac
  BY <1>3 DEF SetName, Frame, ReadMac, CopyMac
<1>4. CASE SendFrame
  BY <1>4 DEF SendFrame
<1>5. CASE StopRefresh \/ JoinRefresh \/ Joined
  BY <1>5 DEF StopRefresh, JoinRefresh, Joined
<1>6. CASE Edit
  BY <1>6 DEF Edit
<1>7. CASE UNCHANGED vars
  BY <1>7 DEF vars
<1> QED
  BY <1>1, <1>2, <1>3, <1>4, <1>5, <1>6, <1>7 DEF Next, Main, refresh_config

(* The configuration and what was read of it stay in their types.          *)
LEMMA DataStep == DataTyped /\ FileTyped /\ [Next]_vars => DataTyped'
<1> SUFFICES ASSUME DataTyped, FileTyped, [Next]_vars PROVE DataTyped'
  OBVIOUS
<1>0. file.version \in 0..MaxEdits /\ file.stamp \in 0..MaxEdits
  BY FileRead
<1> USE DEF DataTyped, cfgVars, refVars, locVars, histVars
<1>1. ASSUME NEW x \in Procs, initConfig(x) PROVE DataTyped'
  <2>1. CASE Spawn(x)
    BY <2>1 DEF Spawn
  <2>2. CASE Read(x)
    BY <1>0, <2>2 DEF Read
  <2>3. CASE Free(x)
    BY <2>3 DEF Free
  <2>4. CASE Clear(x)
    BY <2>4 DEF Clear
  <2>5. CASE Fill(x)
    BY <2>5 DEF Fill
  <2> QED
    BY <1>1, <2>1, <2>2, <2>3, <2>4, <2>5 DEF initConfig
<1>2. ASSUME NEW r \in Refreshers, Start(r) \/ Loop(r) \/ Stat(r) \/ Remember(r)
      PROVE  DataTyped'
  <2>1. CASE Start(r) \/ Loop(r)
    BY <2>1 DEF Start, Loop
  <2>2. CASE Stat(r)
    BY <1>0, <2>2 DEF Stat
  <2>3. CASE Remember(r)
    BY <2>3 DEF Remember
  <2> QED
    BY <1>2, <2>1, <2>2, <2>3
<1>3. CASE SetName \/ Frame \/ ReadMac \/ CopyMac
  BY <1>3 DEF SetName, Frame, ReadMac, CopyMac
<1>4. CASE SendFrame
  BY <1>4 DEF SendFrame
<1>5. CASE StopRefresh \/ JoinRefresh \/ Joined
  BY <1>5 DEF StopRefresh, JoinRefresh, Joined
<1>6. CASE Edit
  BY <1>6 DEF Edit
<1>7. CASE UNCHANGED vars
  BY <1>7 DEF vars
<1> QED
  BY <1>1, <1>2, <1>3, <1>4, <1>5, <1>6, <1>7 DEF Next, Main, refresh_config

(* Every step keeps the types.                                             *)
LEMMA TypeStep == TypeOK /\ Stamped /\ [Next]_vars => TypeOK' /\ Stamped'
<1>1. TypeOK' <=> FileTyped' /\ PcTyped' /\ FlagsTyped' /\ DataTyped'
  BY DEF TypeOK, FileTyped, PcTyped, FlagsTyped, DataTyped
<1> QED
  BY <1>1, TypeParts, PcStep, FileStep, FlagsStep, DataStep

-----------------------------------------------------------------------------
(* One polling thread.                                                     *)

(* Until a stop there is at most one thread that polls.                    *)
LEMMA SingleStep == TypeOK /\ Single /\ [Next]_vars => Single'
<1> SUFFICES ASSUME TypeOK, Single, [Next]_vars PROVE Single'
  OBVIOUS
<1>1. CASE UNCHANGED pc /\ UNCHANGED refresh_config_running
  BY <1>1 DEF Single, Stopped
<1>2. ASSUME NEW x \in Procs, Spawn(x) PROVE Single'
  <2>1. /\ pc[x] = "spawn" /\ refresh_config_running' = refresh_config_running
        /\ SpawnsFor(x) \/ Goto(x, "read")
    BY <1>2, SpawnMoves DEF Spawn
  <2>2. CASE Goto(x, "read")
    <3>1. pc'[x] = "read" /\ \A y \in Procs \ {x} : pc'[y] = pc[y]
      BY <2>2, Moves
    <3> QED
      BY <2>1, <3>1 DEF Single, Stopped
  <2>3. CASE SpawnsFor(x)
    <3>1. PICK r \in Refreshers :
            /\ pc[r] = "none" /\ ~refresh_config_running
            /\ pc'[r] = "start" /\ pc'[x] = "read"
            /\ \A y \in Procs \ {x, r} : pc'[y] = pc[y]
      BY <2>3 DEF SpawnsFor
    <3>2. CASE x = main
      BY <2>1, <3>1, <3>2 DEF Single, Stopped
    <3>3. CASE x \in Refreshers
      BY <2>1, <3>1, <3>3 DEF Single, Stopped
    <3> QED
      BY <3>2, <3>3
  <2> QED
    BY <2>1, <2>2, <2>3
<1>3. ASSUME NEW x \in Procs, NEW l, Goto(x, l), pc[x] # "none", l # "none",
             UNCHANGED refresh_config_running,
             x = main => l # "spawn" /\ (Stopped => l \in {"wait", "exited"}),
             x # main => \/ pc[x] \notin {"none", "start", "done"}
                         \/ l \in {"start", "done"}
      PROVE  Single'
  <2>1. pc'[x] = l /\ \A y \in Procs \ {x} : pc'[y] = pc[y]
    BY <1>3, Moves
  <2>2. Stopped => Stopped'
    BY <1>3, <2>1 DEF Stopped
  <2>3. CASE x = main
    BY <1>3, <2>1, <2>2, <2>3 DEF Single
  <2>4. CASE x # main
    BY <1>3, <2>1, <2>2, <2>4 DEF Single
  <2> QED
    BY <2>3, <2>4
<1>4. ASSUME NEW x \in Procs, Read(x) \/ Free(x) \/ Clear(x) \/ Fill(x)
      PROVE  Single'
  <2>1. AfterInitConfig(x) \in {"name", "serve", "remember"}
    BY DEF AfterInitConfig
  <2>2. /\ UNCHANGED refresh_config_running
        /\ pc[x] \in {"read", "free", "clear", "fill"}
        /\ \/ UNCHANGED pc
           \/ \E l \in {"free", "clear", "fill", "name", "serve", "remember"} :
                Goto(x, l)
    BY <1>4, <2>1 DEF Read, Free, Clear, Fill, At, refVars
  <2>3. x = main => ~Stopped
    BY <2>2 DEF Stopped
  <2> QED
    BY <1>1, <1>3, <2>2, <2>3
<1>5. ASSUME NEW r \in Refreshers, Start(r) PROVE Single'
  <2>1. CASE refresh_config_running
    BY <1>3, <1>5, <2>1 DEF Start, At
  <2>2. CASE ~refresh_config_running
    <3>1. /\ pc[r] = "start" /\ pc'[r] = "loop" /\ refresh_config_running' = TRUE
          /\ \A y \in Procs \ {r} : pc'[y] = pc[y]
      BY <1>5, <2>2, Moves DEF Start, At
    <3> QED
      BY <3>1 DEF Single, Stopped
  <2> QED
    BY <2>1, <2>2
<1>6. ASSUME NEW r \in Refreshers, Loop(r) \/ Stat(r) \/ Remember(r)
      PROVE  Single'
  <2>1. /\ UNCHANGED refresh_config_running
        /\ pc[r] \in {"loop", "stat", "remember"}
        /\ \E l \in {"stat", "done", "spawn", "loop"} : Goto(r, l)
    BY <1>6 DEF Loop, Stat, Remember, At, refVars
  <2> QED
    BY <1>3, <2>1
<1>7. CASE SetName \/ Frame \/ ReadMac \/ CopyMac \/ SendFrame
  <2>1. /\ UNCHANGED refresh_config_running
        /\ pc[main] \in {"name", "frame", "mac", "copy", "send"}
        /\ UNCHANGED pc \/ \E l \in {"frame", "send", "mac", "copy"} : Goto(main, l)
    BY <1>7 DEF SetName, Frame, ReadMac, CopyMac, SendFrame, At, refVars
  <2>2. ~Stopped
    BY <2>1 DEF Stopped
  <2> QED
    BY <1>1, <1>3, <2>1, <2>2
<1>8. CASE StopRefresh \/ JoinRefresh \/ Joined
  <2>1. \/ \E l \in {"join", "wait", "exited"} : Goto(main, l)
        \/ pc[main] = "join" /\ UNCHANGED pc
    BY <1>8 DEF StopRefresh, JoinRefresh, Joined, At
  <2>2. Stopped'
    BY <2>1, Moves DEF Stopped
  <2> QED
    BY <2>2 DEF Single
<1>9. CASE Edit \/ UNCHANGED vars
  BY <1>1, <1>9 DEF Edit, vars, refVars
<1> QED
  BY <1>2, <1>4, <1>5, <1>6, <1>7, <1>8, <1>9
     DEF Next, Main, initConfig, refresh_config

-----------------------------------------------------------------------------
(* The device's name.                                                      *)

(* What main has of its device's name and MAC at each place.               *)
LEMMA NamedStep == TypeOK /\ Named /\ [Next]_vars => Named'
<1> SUFFICES ASSUME TypeOK, Named, [Next]_vars PROVE Named'
  OBVIOUS
<1>1. ASSUME UNCHANGED <<device_name, device_mac, blank, refused, reloaded>>,
             fault' = fault \/ fault' \in {"freed twice", "no thread"},
             \/ pc'[main] = pc[main]
             \/ ~blank /\ pc'[main] \notin {"frame", "mac", "copy", "send"}
      PROVE  Named'
  BY <1>1 DEF Named
<1>2. ASSUME NEW x \in Procs, Spawn(x) \/ Read(x) \/ Free(x) \/ Fill(x)
      PROVE  Named'
  <2>1. /\ UNCHANGED <<device_name, device_mac, blank, refused, reloaded>>
        /\ fault' = fault \/ fault' = "freed twice"
        /\ pc[x] \in {"spawn", "read", "free", "fill"}
    BY <1>2 DEF Spawn, Read, Free, Fill, At, cfgVars, histVars
  <2>2. \/ pc'[main] = pc[main]
        \/ x = main /\ pc'[main] \notin {"frame", "mac", "copy", "send"}
    <3>1. CASE Spawn(x)
      BY <3>1, SpawnMoves, Moves DEF SpawnsFor
    <3>2. CASE Read(x) \/ Free(x) \/ Fill(x)
      <4>1. AfterInitConfig(x) \in {"name", "serve", "remember"}
        BY DEF AfterInitConfig
      <4>2. UNCHANGED pc \/ \E l \in {"free", "clear", "name", "serve", "remember"} :
                              Goto(x, l)
        BY <3>2, <4>1 DEF Read, Free, Fill
      <4> QED
        BY <4>2, Moves
    <3> QED
      BY <1>2, <3>1, <3>2
  <2>3. x = main => ~blank
    BY <2>1 DEF Named
  <2> QED
    BY <1>1, <2>1, <2>2, <2>3
<1>3. ASSUME NEW x \in Procs, Clear(x) PROVE Named'
  <2>1. /\ pc[x] = "clear" /\ device_name' = FALSE /\ device_mac' = FALSE
        /\ UNCHANGED <<blank, refused, fault>>
        /\ reloaded' = (reloaded \/ x # main)
        /\ pc'[x] = "fill" /\ \A y \in Procs \ {x} : pc'[y] = pc[y]
    BY <1>3, Moves DEF Clear, At
  <2>2. CASE x = main
    BY <2>1, <2>2 DEF Named
  <2>3. CASE x # main
    BY <2>1, <2>3 DEF Named
  <2> QED
    BY <2>2, <2>3
<1>4. ASSUME NEW r \in Refreshers, Start(r) \/ Loop(r) \/ Stat(r) \/ Remember(r)
      PROVE  Named'
  <2>1. UNCHANGED <<device_name, device_mac, blank, refused, reloaded, fault>>
    BY <1>4 DEF Start, Loop, Stat, Remember, cfgVars, histVars
  <2>2. \E l : Goto(r, l)
    BY <1>4 DEF Start, Loop, Stat, Remember
  <2>3. pc'[main] = pc[main]
    BY <2>2, Moves
  <2> QED
    BY <1>1, <2>1, <2>3
<1>5. CASE SetName
  <2>1. /\ pc[main] = "name" /\ pc'[main] = "frame" /\ device_name' = TRUE
        /\ UNCHANGED <<blank, refused, reloaded, fault>>
    BY <1>5, Moves DEF SetName, At, histVars
  <2> QED
    BY <2>1 DEF Named
<1>6. CASE Frame
  <2>1. /\ pc[main] = "frame"
        /\ UNCHANGED <<device_name, device_mac, blank, refused, reloaded, fault>>
    BY <1>6 DEF Frame, At, cfgVars, histVars
  <2>2. pc'[main] = IF device_mac THEN "send" ELSE "mac"
    BY <1>6, Moves DEF Frame
  <2> QED
    BY <2>1, <2>2 DEF Named
<1>7. CASE ReadMac
  <2>1. /\ pc[main] = "mac" /\ fault = "none"
        /\ UNCHANGED <<device_name, device_mac, blank, reloaded>>
    BY <1>7 DEF ReadMac, At, Alive, cfgVars
  <2>2. CASE device_name /\ Goto(main, "copy") /\ UNCHANGED <<fault, refused>>
    <3>1. pc'[main] = "copy"
      BY <2>2, Moves
    <3> QED
      BY <2>1, <2>2, <3>1 DEF Named
  <2>3. CASE fault' = "no MAC" /\ refused' = device_name /\ UNCHANGED pc
    BY <2>1, <2>3 DEF Named
  <2> QED
    BY <1>7, <2>2, <2>3 DEF ReadMac
<1>8. CASE CopyMac
  <2>1. /\ pc[main] = "copy" /\ pc'[main] = "send" /\ device_mac' = TRUE
        /\ UNCHANGED <<device_name, blank, refused, reloaded, fault>>
    BY <1>8, Moves DEF CopyMac, At, histVars
  <2> QED
    BY <2>1 DEF Named
<1>9. CASE SendFrame
  <2>1. /\ pc[main] = "send" /\ pc'[main] = "frame"
        /\ UNCHANGED <<device_name, device_mac, refused, reloaded, fault>>
        /\ blank' = (blank \/ ~device_mac)
    BY <1>9, Moves DEF SendFrame, At, cfgVars
  <2> QED
    BY <2>1 DEF Named
<1>10. CASE StopRefresh \/ JoinRefresh \/ Joined
  <2>1. /\ UNCHANGED <<device_name, device_mac, blank, refused, reloaded>>
        /\ fault' = fault \/ fault' = "no thread"
        /\ UNCHANGED pc \/ \E l \in {"join", "wait", "exited"} : Goto(main, l)
        /\ pc[main] \in {"serve", "join", "wait"}
    BY <1>10 DEF StopRefresh, JoinRefresh, Joined, At, cfgVars, histVars
  <2>2. UNCHANGED pc \/ pc'[main] \in {"join", "wait", "exited"}
    BY <2>1, Moves
  <2>3. ~blank
    BY <2>1 DEF Named
  <2> QED
    BY <1>1, <2>1, <2>2, <2>3
<1>11. CASE Edit \/ UNCHANGED vars
  BY <1>1, <1>11 DEF Edit, vars, cfgVars, histVars
<1> QED
  BY <1>2, <1>3, <1>4, <1>5, <1>6, <1>7, <1>8, <1>9, <1>10, <1>11
     DEF Next, Main, initConfig, refresh_config

-----------------------------------------------------------------------------
(* Freed lists.                                                            *)

(* The lists are freed only while somebody will clear them.                *)
LEMMA ClearingStep == TypeOK /\ Clearing /\ [Next]_vars => Clearing'
<1> SUFFICES ASSUME TypeOK, Clearing, [Next]_vars PROVE Clearing'
  OBVIOUS
<1>1. ASSUME freed' = freed, NEW x \in Procs, pc[x] # "clear",
             \A y \in Procs \ {x} : pc[y] = "clear" => pc'[y] = "clear"
      PROVE  Clearing'
  BY <1>1 DEF Clearing
<1>2. ASSUME NEW x \in Procs, NEW l, Goto(x, l), pc[x] # "clear", freed' = freed
      PROVE  Clearing'
  BY <1>1, <1>2, Moves
<1>3. ASSUME NEW x \in Procs, Spawn(x) PROVE Clearing'
  <2>1. /\ freed' = freed /\ pc[x] = "spawn"
        /\ SpawnsFor(x) \/ Goto(x, "read")
    BY <1>3, SpawnMoves DEF Spawn, cfgVars
  <2>2. CASE SpawnsFor(x)
    BY <1>1, <2>1, <2>2 DEF SpawnsFor
  <2> QED
    BY <1>2, <2>1, <2>2
<1>4. ASSUME NEW x \in Procs, Read(x) PROVE Clearing'
  <2>1. pc[x] = "read" /\ freed' = freed /\ \E l : Goto(x, l)
    BY <1>4 DEF Read, At, cfgVars
  <2> QED
    BY <1>2, <2>1
<1>5. ASSUME NEW x \in Procs, Free(x) PROVE Clearing'
  <2>1. CASE filters # None /\ freed
    BY <1>5, <2>1 DEF Free, Clearing
  <2>2. CASE ~(filters # None /\ freed)
    <3>1. Goto(x, "clear")
      BY <1>5, <2>2 DEF Free
    <3>2. pc'[x] = "clear"
      BY <3>1, Moves
    <3> QED
      BY <3>2 DEF Clearing
  <2> QED
    BY <2>1, <2>2
<1>6. ASSUME NEW x \in Procs, Clear(x) \/ Fill(x) PROVE Clearing'
  BY <1>6 DEF Clear, Fill, Clearing
<1>7. ASSUME NEW r \in Refreshers, Start(r) \/ Loop(r) \/ Stat(r) \/ Remember(r)
      PROVE  Clearing'
  <2>1. pc[r] # "clear" /\ freed' = freed /\ \E l : Goto(r, l)
    BY <1>7 DEF Start, Loop, Stat, Remember, At, cfgVars
  <2> QED
    BY <1>2, <2>1
<1>8. CASE \/ SetName \/ Frame \/ ReadMac \/ CopyMac \/ SendFrame
           \/ StopRefresh \/ JoinRefresh \/ Joined
  <2>1. pc[main] # "clear" /\ freed' = freed /\ (UNCHANGED pc \/ \E l : Goto(main, l))
    BY <1>8 DEF SetName, Frame, ReadMac, CopyMac, SendFrame, StopRefresh, JoinRefresh, Joined,
                At, cfgVars
  <2> QED
    BY <1>1, <1>2, <2>1
<1>9. CASE Edit \/ UNCHANGED vars
  BY <1>9 DEF Edit, vars, cfgVars, Clearing
<1> QED
  BY <1>3, <1>4, <1>5, <1>6, <1>7, <1>8, <1>9
     DEF Next, Main, initConfig, refresh_config

(* Nothing happens after a fault.                                          *)
LEMMA FaultIsLast == ASSUME fault # "none" PROVE ~Next
<1>1. ~Alive
  BY DEF Alive
<1> QED
  BY <1>1 DEF Next, Main, initConfig, refresh_config, Spawn, Read, Free, Clear, Fill,
              Start, Loop, Stat, Remember, SetName, Frame, ReadMac, CopyMac, SendFrame,
              StopRefresh, JoinRefresh, Joined, Edit, At

(* A second free happens only in the two ways that are named.              *)
LEMMA TwiceStep ==
  Inv /\ [Next]_vars => FreedTwiceExplained'
<1> SUFFICES ASSUME Inv, [Next]_vars, fault' = "freed twice"
             PROVE  (pc[main] \in InitConfigPc \/ Stopped) /\ UNCHANGED pc
  BY DEF FreedTwiceExplained, Stopped
<1>1. CASE UNCHANGED vars
  BY <1>1 DEF Inv, FreedTwiceExplained, vars
<1>2. CASE Next
  <2>1. fault = "none"
    BY <1>2, FaultIsLast
  <2>2. PICK x \in Procs : Free(x)
    BY <1>2, <2>1 DEF Next, Main, initConfig, refresh_config, Spawn, Read, Clear,
       Fill, Start, Loop, Stat, Remember, SetName, Frame, ReadMac, CopyMac, SendFrame,
       StopRefresh, JoinRefresh, Joined, Edit
  <2>3. freed /\ UNCHANGED pc /\ pc[x] = "free"
    BY <2>1, <2>2 DEF Free, At
  <2>4. PICK y \in Procs : pc[y] = "clear"
    BY <2>3 DEF Inv, Clearing
  <2>5. CASE x = main \/ y = main
    BY <2>3, <2>4, <2>5 DEF InitConfigPc
  <2>6. CASE x # main /\ y # main
    BY <2>3, <2>4, <2>6 DEF Inv, Single
  <2> QED
    BY <2>3, <2>5, <2>6
<1> QED
  BY <1>1, <1>2

-----------------------------------------------------------------------------
(* The theorems.                                                           *)

(* What holds when either program starts.                                  *)
LEMMA InitInv == Init => Inv
<1> SUFFICES ASSUME Init PROVE Inv
  OBVIOUS
<1>1. pc[main] = "spawn" /\ \A r \in Refreshers : pc[r] = "none"
  BY DEF Init
<1>2. TypeOK
  <2>1. FileTyped
    BY DEF Init, FileTyped
  <2>2. PcTyped
    BY DEF Init, PcTyped, InitConfigPc, RefresherPc
  <2>3. FlagsTyped
    BY DEF Init, FlagsTyped
  <2>4. DataTyped
    BY DEF Init, DataTyped
  <2> QED
    BY <2>1, <2>2, <2>3, <2>4, TypeParts
<1>3. Stamped /\ Clearing /\ FreedTwiceExplained /\ Named
  BY <1>1 DEF Init, Stamped, Clearing, FreedTwiceExplained, Named
<1>4. Single
  BY <1>1 DEF Single
<1> QED
  BY <1>2, <1>3, <1>4 DEF Inv

(* The invariant of the configuration holds throughout.                    *)
LEMMA Invariance == Spec => []Inv
<1>1. Inv /\ [Next]_vars => Inv'
  BY TypeStep, SingleStep, NamedStep, ClearingStep, TwiceStep DEF Inv
<1> QED
  BY <1>1, InitInv, PTL DEF Spec

(* The configuration, the threads and the file's stamp stay in their types.*)
THEOREM ConfigTyped == Spec => []TypeOK
<1>1. Inv => TypeOK
  BY DEF Inv
<1> QED
  BY <1>1, Invariance, PTL

(* However often initConfig is called, one thread polls until the stop.    *)
THEOREM OneRefresherAlways == Spec => []OneRefresher
<1>1. ASSUME Inv PROVE OneRefresher
  <2> DEFINE started == {r \in Refreshers : pc[r] # "none"}
  <2> SUFFICES ASSUME ~Stopped PROVE Cardinality(started) <= 1
    BY DEF OneRefresher
  <2>1. CASE started = {}
    BY <2>1, FS_EmptySet
  <2>2. CASE started # {}
    <3>1. PICK r : r \in started
      BY <2>2
    <3>2. started = {r}
      BY <1>1, <3>1 DEF Inv, Single
    <3>3. Cardinality({r}) = 1
      BY FS_Singleton
    <3> QED
      BY <3>2, <3>3
  <2> QED
    BY <2>1, <2>2
<1> QED
  BY <1>1, Invariance, PTL

(* A reload costs the capture program one frame's source before it dies,   *)
(* and only a reload, or the kernel, leaves it without its MAC.            *)
THEOREM WipeCostsOneFrameAlways == Spec => []WipeCostsOneFrame
<1>1. Inv => WipeCostsOneFrame
  BY DEF Inv, Named, WipeCostsOneFrame
<1> QED
  BY <1>1, Invariance, PTL

(* The lists are freed twice only while main's own initConfig has not      *)
(* ended, or after a stop.                                                 *)
THEOREM FreedTwiceExplainedAlways == Spec => []FreedTwiceExplained
<1>1. Inv => FreedTwiceExplained
  BY DEF Inv
<1> QED
  BY <1>1, Invariance, PTL

-----------------------------------------------------------------------------
(* The refinement.  What Refresher sees of a thread is Seen(pc[r]).        *)

SeenNow == [r \in Refreshers |-> Seen(pc[r])]

(* The place that Refresher sees for each place of the thread.             *)
LEMMA SeenFacts ==
  /\ \A l : Seen(l) = "none" <=> l = "none"
  /\ Seen("none") = "none" /\ Seen("start") = "start" /\ Seen("loop") = "loop"
  /\ Seen("done") = "done" /\ Seen("stat") = "poll" /\ Seen("spawn") = "reload"
  /\ \A l \in {"read", "free", "clear", "fill", "remember"} : Seen(l) = "loop"
BY DEF Seen

(* A thread that moves between places that look the same, or main that     *)
(* moves, is not seen to move.                                             *)
LEMMA Unseen ==
  ASSUME TypeOK, NEW x \in Procs, NEW l, Goto(x, l) \/ UNCHANGED pc,
         x # main => Seen(l) = Seen(pc[x])
  PROVE  SeenNow' = SeenNow
<1>1. CASE UNCHANGED pc
  BY <1>1 DEF SeenNow
<1>2. CASE Goto(x, l)
  <2>1. pc'[x] = l /\ \A y \in Procs \ {x} : pc'[y] = pc[y]
    BY <1>2, Moves
  <2>2. \A r \in Refreshers : Seen(pc'[r]) = Seen(pc[r])
    BY <2>1
  <2> QED
    BY <2>2 DEF SeenNow
<1> QED
  BY <1>1, <1>2

(* A step of a polling thread, as Refresher sees it.                       *)
LEMMA SeenMove ==
  ASSUME TypeOK, NEW r \in Refreshers, NEW l, Goto(r, l)
  PROVE  /\ SeenNow' = [SeenNow EXCEPT ![r] = Seen(l)]
         /\ SeenNow[r] = Seen(pc[r])
<1>1. pc'[r] = l /\ \A y \in Procs \ {r} : pc'[y] = pc[y]
  BY Moves
<1> QED
  BY <1>1 DEF SeenNow

(* initConfig's test and create are Refresher's.                           *)
LEMMA SpawnRefines ==
  ASSUME TypeOK, NEW x \in Procs, Spawn(x)
  PROVE  \/ Polling!CreateRefresher
         \/ x \in Refreshers /\ Polling!Reload(x)
         \/ UNCHANGED <<refresh_config_running, thread_refresh_config, SeenNow>>
<1>0. pc[x] = "spawn" /\ refresh_config_running' = refresh_config_running
  BY DEF Spawn, At
<1>1. CASE Goto(x, "read") /\ UNCHANGED thread_refresh_config
  <2>1. Goto(x, "read") /\ thread_refresh_config' = thread_refresh_config
    BY <1>1
  <2>2. CASE x = main
    BY <1>0, <2>1, <2>2, Unseen
  <2>3. CASE x \in Refreshers
    <3>1. SeenNow' = [SeenNow EXCEPT ![x] = "loop"] /\ SeenNow[x] = "reload"
      BY <1>0, <2>1, <2>3, SeenMove, SeenFacts
    <3> QED
      BY <1>0, <1>1, <2>1, <2>3, <3>1
         DEF Polling!Reload, Polling!RefresherGoto, SeenNow
  <2> QED
    BY <2>2, <2>3
<1>2. CASE SpawnsFor(x)
  <2>1. PICK r \in Refreshers :
          /\ pc[r] = "none" /\ ~refresh_config_running
          /\ pc'[r] = "start" /\ pc'[x] = "read" /\ thread_refresh_config' = r
          /\ \A y \in Procs \ {x, r} : pc'[y] = pc[y]
    BY <1>2 DEF SpawnsFor
  <2>2. CASE x = main
    <3>1. SeenNow' = [SeenNow EXCEPT ![r] = "start"]
      <4>1. \A k \in Refreshers : Seen(pc'[k]) = IF k = r THEN "start" ELSE Seen(pc[k])
        BY <2>1, <2>2, SeenFacts
      <4> QED
        BY <4>1 DEF SeenNow
    <3>2. SeenNow[r] = "none"
      BY <2>1, SeenFacts DEF SeenNow
    <3> QED
      BY <1>0, <2>1, <3>1, <3>2
         DEF Polling!CreateRefresher, Polling!RefresherGoto, SeenNow
  <2>3. CASE x \in Refreshers
    <3>1. SeenNow' = [SeenNow EXCEPT ![x] = "loop", ![r] = "start"]
      <4>1. \A k \in Refreshers :
              Seen(pc'[k]) = IF k = r THEN "start" ELSE IF k = x THEN "loop"
                             ELSE Seen(pc[k])
        BY <2>1, <2>3, SeenFacts
      <4> QED
        BY <4>1 DEF SeenNow
    <3>2. SeenNow[x] = "reload"
      BY <1>0, <2>3, SeenFacts DEF SeenNow
    <3>3. SeenNow[r] = "none"
      BY <2>1, SeenFacts DEF SeenNow
    <3> QED
      BY <1>0, <2>1, <2>3, <3>1, <3>2, <3>3 DEF Polling!Reload, SeenNow
  <2> QED
    BY <2>2, <2>3
<1> QED
  BY <1>1, <1>2, SpawnMoves

(* Every step is one of Refresher's or leaves what it sees alone.          *)
LEMMA RefineStep ==
  TypeOK /\ [Next]_vars => [Polling!RefresherNext]_(Polling!refresherVars)
<1> SUFFICES ASSUME TypeOK, [Next]_vars
             PROVE  \/ Polling!RefresherNext
                    \/ UNCHANGED <<refresh_config_running, thread_refresh_config,
                                   SeenNow>>
  BY DEF Polling!refresherVars, SeenNow
<1>1. ASSUME NEW x \in Procs, Spawn(x)
      PROVE  \/ Polling!RefresherNext
             \/ UNCHANGED <<refresh_config_running, thread_refresh_config, SeenNow>>
  BY <1>1, SpawnRefines DEF Polling!RefresherNext, Polling!RefresherRuns
<1>2. ASSUME NEW x \in Procs, Read(x) \/ Free(x) \/ Clear(x) \/ Fill(x)
      PROVE  UNCHANGED <<refresh_config_running, thread_refresh_config, SeenNow>>
  <2>1. x # main => AfterInitConfig(x) = "remember"
    BY DEF AfterInitConfig
  <2>2. \E l : /\ Goto(x, l) \/ UNCHANGED pc
               /\ x # main => l \in {"free", "clear", "fill", "remember"}
    BY <1>2, <2>1 DEF Read, Free, Clear, Fill
  <2>3. /\ pc[x] \in {"read", "free", "clear", "fill"}
        /\ UNCHANGED <<refresh_config_running, thread_refresh_config>>
    BY <1>2 DEF Read, Free, Clear, Fill, At, refVars
  <2> QED
    BY <2>2, <2>3, Unseen, SeenFacts
<1>3. ASSUME NEW r \in Refreshers, Start(r) PROVE Polling!StartRefresher(r)
  <2>1. CASE refresh_config_running
    <3>1. /\ pc[r] = "start" /\ Goto(r, "done")
          /\ refresh_config_running' = refresh_config_running
          /\ thread_refresh_config' = thread_refresh_config
      BY <1>3, <2>1 DEF Start, At
    <3>2. refresh_config_running' = TRUE
      BY <2>1, <3>1 DEF TypeOK
    <3> QED
      BY <2>1, <3>1, <3>2, SeenMove, SeenFacts
         DEF Polling!StartRefresher, Polling!RefresherGoto, SeenNow
  <2>2. CASE ~refresh_config_running
    <3>1. /\ pc[r] = "start" /\ Goto(r, "loop")
          /\ refresh_config_running' = TRUE
          /\ thread_refresh_config' = thread_refresh_config
      BY <1>3, <2>2 DEF Start, At
    <3> QED
      BY <2>2, <3>1, SeenMove, SeenFacts
         DEF Polling!StartRefresher, Polling!RefresherGoto, SeenNow
  <2> QED
    BY <2>1, <2>2
<1>4. ASSUME NEW r \in Refreshers, Loop(r) PROVE Polling!TestRunning(r)
  <2>1. /\ pc[r] = "loop"
        /\ Goto(r, IF refresh_config_running THEN "stat" ELSE "done")
        /\ UNCHANGED <<refresh_config_running, thread_refresh_config>>
    BY <1>4 DEF Loop, At, refVars
  <2>2. /\ SeenNow' = [SeenNow EXCEPT ![r] =
                         IF refresh_config_running THEN "poll" ELSE "done"]
        /\ SeenNow[r] = "loop"
    BY <2>1, SeenMove, SeenFacts
  <2> QED
    BY <2>1, <2>2 DEF Polling!TestRunning, Polling!RefresherGoto, SeenNow
<1>5. ASSUME NEW r \in Refreshers, Stat(r) PROVE Polling!Poll(r)
  <2>1. /\ pc[r] = "stat"
        /\ Goto(r, "spawn") \/ Goto(r, "loop")
        /\ UNCHANGED <<refresh_config_running, thread_refresh_config>>
    BY <1>5 DEF Stat, At
  <2>2. /\ SeenNow[r] = "poll"
        /\ \/ SeenNow' = [SeenNow EXCEPT ![r] = "reload"]
           \/ SeenNow' = [SeenNow EXCEPT ![r] = "loop"]
    BY <2>1, SeenMove, SeenFacts
  <2> QED
    BY <2>1, <2>2 DEF Polling!Poll, Polling!RefresherGoto, SeenNow
<1>6. ASSUME NEW r \in Refreshers, Remember(r)
      PROVE  UNCHANGED <<refresh_config_running, thread_refresh_config, SeenNow>>
  <2>1. /\ pc[r] = "remember" /\ Goto(r, "loop")
        /\ UNCHANGED <<refresh_config_running, thread_refresh_config>>
    BY <1>6 DEF Remember, At
  <2> QED
    BY <2>1, Unseen, SeenFacts
<1>7. CASE \/ SetName \/ Frame \/ ReadMac \/ CopyMac \/ SendFrame \/ JoinRefresh \/ Joined
  <2>1. /\ UNCHANGED <<refresh_config_running, thread_refresh_config>>
        /\ \E l : Goto(main, l) \/ UNCHANGED pc
    BY <1>7 DEF SetName, Frame, ReadMac, CopyMac, SendFrame, JoinRefresh, Joined, refVars
  <2> QED
    BY <2>1, Unseen
<1>8. CASE StopRefresh
  <2>1. /\ refresh_config_running' = FALSE
        /\ thread_refresh_config' = thread_refresh_config /\ Goto(main, "join")
    BY <1>8 DEF StopRefresh
  <2>2. SeenNow' = SeenNow
    BY <2>1, Unseen
  <2> QED
    BY <2>1, <2>2 DEF Polling!RefresherNext, Polling!StopRefresher, SeenNow
<1>9. CASE Edit \/ UNCHANGED vars
  <2>1. UNCHANGED <<refresh_config_running, thread_refresh_config, pc>>
    BY <1>9 DEF Edit, vars, refVars
  <2> QED
    BY <2>1 DEF SeenNow
<1> QED
  BY <1>1, <1>2, <1>3, <1>4, <1>5, <1>6, <1>7, <1>8, <1>9
     DEF Next, Main, initConfig, refresh_config, Polling!RefresherNext,
         Polling!RefresherRuns

(* The polling thread and its flag do what Refresher says, which is all    *)
(* that the server's shutdown assumes of them.                             *)
THEOREM Refinement == Spec => RefinesRefresher
<1>1. Init => Polling!RefresherInit
  BY SeenFacts DEF Init, Polling!RefresherInit
<1>2. Spec => []TypeOK
  BY ConfigTyped
<1> QED
  BY <1>1, <1>2, RefineStep, PTL DEF Spec, RefinesRefresher, Polling!RefresherSpec

=============================================================================
