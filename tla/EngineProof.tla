---------------------------- MODULE EngineProof ----------------------------
(***************************************************************************)
(* What module Engine promises, for every number of threads, connections,  *)
(* jobs and shares: a share goes to the connection whose job it solves,    *)
(* and the mode the UI shows is what the threads do.                       *)
(*                                                                         *)
(* The argument: a worker that holds a job holds one of the connection at  *)
(* hand (HoldInv), because the connection is replaced only where no worker *)
(* mines (PlaceInv); and that is so because at the keyboard the mode tells *)
(* what the workers do (KeysInv), which every handler restores.            *)
(***************************************************************************)
EXTENDS Engine, TLAPS

----------------------------------------------------------------------------
(* The invariant *)

(* A thread that was not started, or was joined, does nothing. *)
JoinedInv == \A i \in Idx : i \notin workers => wpc[i] = "none"

NoMiner == \A i \in Idx : wpc[i] \notin OnThePool /\ (wpc[i] = "born" => ~pool)
NoBench == \A i \in Idx : wpc[i] # "bench"

(* Whatever job a worker holds is a job of the connection at hand. *)
HoldInv ==
    \A i \in Idx :
        /\ wpc[i] \in {"mine", "push"} => conn # 0 /\ held[i].conn = conn
        /\ wpc[i] = "push" => ref[i] = conn
        /\ wpc[i] \in {"poll", "fetch"} /\ held[i].serial # 0 => held[i].conn = conn

(* At the keyboard. *)
KeysInv ==
    /\ mode = "Idle" => ~pool /\ workers = {}
    /\ mode = "Benchmark" => ~pool /\ NoMiner
    /\ mode = "Mining" => pool /\ conn # 0 /\ NoBench

(* On the way through Engine::stop to the label ret, and at that label. *)
Toward(label) == (ui \in {"halt", "join"} /\ ret = label) \/ ui = label

GoalFits ==
    /\ goal \in {"Mining", "Benchmark"}
    /\ goal = "Mining" => pool /\ conn # 0
    /\ goal = "Benchmark" => ~pool

(* At every other place of the UI thread. *)
PlaceInv ==
    /\ ui \in {"halt", "join"} => ret \in {"unpool", "idle", "spawn", "detach"}
    /\ ui \in {"unpool", "idle", "spawn"} => workers = {}
    /\ ui = "setpool" => goal = "Mining" /\ conn # 0
    /\ Toward("spawn") => GoalFits
    /\ Toward("idle") => ~pool
    /\ Toward("unpool") => then # "quit" /\ (then = "bench" => goal = "Benchmark")
    /\ ui = "bench" => goal = "Benchmark"
    /\ ui \in {"halt", "join"} /\ ret = "detach" => then = "quit"
    /\ ui \in {"detach", "signal", "connect"} =>
          /\ NoMiner
          /\ then # "quit" => ~pool /\ (mode = "Idle" => workers = {}) /\ mode # "Mining"
    /\ ui \in {"detach", "signal"} => then \in {"connect", "forget", "quit"}
    /\ ui = "connect" => then = "connect"
    /\ then = "connect" /\ (Toward("unpool") \/ ui \in {"detach", "signal", "connect"}) =>
          conns < MaxConns

IInv == /\ TypeOK /\ JoinedInv /\ HoldInv
        /\ (ui = "keys" => KeysInv) /\ PlaceInv /\ SharesStayHome

----------------------------------------------------------------------------
USE DEF vars, uiVars, engineVars, clientVars, jobVars, workerVars

(* Type correctness *)

LEMMA EngineTypeInit == Init => TypeOK
  <1> SUFFICES ASSUME Init PROVE TypeOK
    OBVIOUS
  <1>0. <<>> \in Seq(Finds)
    OBVIOUS
  <1>1. MaxThreads \in 1..MaxThreads
    BY ThreadAssumption
  <1>2. 0 \in 0..MaxConns
    BY EngineBoundAssumption
  <1>3. handed \in [Conns -> Seq(Finds)]
    BY <1>0 DEF Init
  <1>4. /\ wpc \in [Idx -> WorkerLabels] /\ held \in [Idx -> Holds]
        /\ nonce \in [Idx -> Nat] /\ ref \in [Idx -> 0..MaxConns]
    BY <1>2 DEF Init, WorkerLabels, Holds, Nothing
  <1>5. /\ live \in [Conns -> Nat] /\ serial \in [Conns -> Nat]
        /\ valid \in [Conns -> BOOLEAN] /\ phase \in [Conns -> {"quiet", "issued", "live"}]
    BY DEF Init
  <1> QED BY <1>1, <1>2, <1>3, <1>4, <1>5 DEF Init, TypeOK, UiLabels, Modes

LEMMA KeyType == TypeOK /\ Key => TypeOK'
  <1> SUFFICES ASSUME TypeOK, Key PROVE TypeOK'
    OBVIOUS
  <1>1. threads' \in 1..MaxThreads
    <2>1. CASE KeyAdjust
      BY <2>1, ThreadAssumption DEF KeyAdjust, Clamp, TypeOK
    <2> QED BY <2>1 DEF Key, KeyStopMining, KeyStopBench, KeyForget, KeyQuit,
            KeyStartMining, KeyStartBench, KeyConnect, TypeOK
  <1>2. /\ ui' \in UiLabels /\ ret' \in UiLabels /\ goal' \in Modes /\ mode' \in Modes
        /\ then' \in {"keys", "bench", "connect", "forget", "quit"}
    BY DEF Key, KeyStopMining, KeyStopBench, KeyForget, KeyQuit, KeyStartMining,
       KeyStartBench, KeyConnect, KeyAdjust, StopMiningThen, StopEngineThen, TypeOK,
       UiLabels, Modes
  <1>3. UNCHANGED <<old, engineVars, clientVars, jobVars, handed, workerVars>>
    BY DEF Key, KeyStopMining, KeyStopBench, KeyForget, KeyQuit, KeyStartMining,
       KeyStartBench, KeyConnect, KeyAdjust
  <1> QED BY <1>1, <1>2, <1>3 DEF TypeOK

LEMMA UiType == IInv /\ Ui => TypeOK'
  <1> SUFFICES ASSUME IInv, Ui PROVE TypeOK'
    OBVIOUS
  <1> USE DEF IInv
  <1>1. CASE SetPool
    BY <1>1 DEF SetPool, StopEngineThen, TypeOK, UiLabels
  <1>2. CASE Halt
    BY <1>2 DEF Halt, TypeOK, UiLabels
  <1>3. CASE Join
    BY <1>3 DEF Join, TypeOK, UiLabels
  <1>4. CASE Spawn
    <2>1. 0..(threads - 1) \subseteq Idx
      BY ThreadAssumption DEF TypeOK, Idx
    <2>2. wpc' \in [Idx -> WorkerLabels]
      BY <1>4 DEF Spawn, TypeOK, WorkerLabels
    <2> QED BY <1>4, <2>1, <2>2 DEF Spawn, TypeOK, UiLabels
  <1>5. CASE Unpool
    BY <1>5 DEF Unpool, TypeOK, UiLabels, Modes
  <1>6. CASE Idle
    BY <1>6 DEF Idle, TypeOK, UiLabels, Modes
  <1>7. CASE Bench
    BY <1>7 DEF Bench, StopEngineThen, TypeOK, UiLabels
  <1>8. CASE Detach
    BY <1>8, EngineBoundAssumption DEF Detach, TypeOK, UiLabels
  <1>9. CASE Signal
    BY <1>9 DEF Signal, TypeOK, UiLabels
  <1>10. CASE Connect
    <2>1. conns < MaxConns
      BY <1>10 DEF Connect, PlaceInv, Toward
    <2>2. conns + 1 \in 0..MaxConns
      BY <2>1, EngineBoundAssumption DEF TypeOK
    <2> QED BY <1>10, <2>2 DEF Connect, TypeOK, UiLabels
  <1> QED BY <1>1, <1>2, <1>3, <1>4, <1>5, <1>6, <1>7, <1>8, <1>9, <1>10 DEF Ui

LEMMA ConnectionType == TypeOK /\ (\E g \in Conns : Connection(g)) => TypeOK'
  <1> SUFFICES ASSUME TypeOK, NEW g \in Conns, Connection(g) PROVE TypeOK'
    OBVIOUS
  <1>1. CASE NewWork(g)
    <2>1. serial' \in [Conns -> Nat]
      BY <1>1 DEF NewWork, TypeOK
    <2>2. valid' \in [Conns -> BOOLEAN] /\ phase' \in [Conns -> {"quiet", "issued", "live"}]
      BY <1>1 DEF NewWork, TypeOK
    <2> QED BY <1>1, <2>1, <2>2 DEF NewWork, TypeOK
  <1>2. CASE Announce(g)
    BY <1>2 DEF Announce, TypeOK
  <1>3. CASE Hush(g)
    BY <1>3 DEF Hush, TypeOK
  <1>4. CASE Reset(g)
    BY <1>4 DEF Reset, TypeOK
  <1> QED BY <1>1, <1>2, <1>3, <1>4 DEF Connection

(* A worker of a connection that exists. *)
LEMMA ConnIsOne == TypeOK /\ conn # 0 => conn \in Conns
  BY EngineBoundAssumption DEF TypeOK, Conns

LEMMA WorkerType ==
  ASSUME IInv, NEW i \in Idx, Worker(i)
  PROVE  TypeOK'
  <1> USE DEF IInv
  <1>0. UNCHANGED <<uiVars, engineVars, clientVars, jobVars>>
    BY DEF Worker, WorkerFails, WorkerBegins, WorkerLeaves, WorkerIdles, WorkerGoesOn,
       WorkerAsks, WorkerFetches, WorkerGetsNoJob, WorkerMisses, WorkerHits,
       WorkerPushes, UnchangedForAll
  <1>1. wpc' \in [Idx -> WorkerLabels]
    BY DEF Worker, WorkerFails, WorkerBegins, WorkerLeaves, WorkerIdles, WorkerGoesOn,
       WorkerAsks, WorkerFetches, WorkerGetsNoJob, WorkerMisses, WorkerHits,
       WorkerPushes, Goto, TypeOK, WorkerLabels, OnThePool
  <1>2. held' \in [Idx -> Holds]
    <2>1. CASE WorkerFetches(i)
      <3>0. conn \in Conns
        BY <2>1, ConnIsOne DEF WorkerFetches
      <3>1. serial[conn] \in Nat /\ conn \in Nat
        BY <3>0, EngineBoundAssumption DEF TypeOK, Conns
      <3>2. [conn |-> conn, serial |-> serial[conn]] \in Holds
        BY <3>1 DEF Holds
      <3>3. held' = [held EXCEPT ![i] = [conn |-> conn, serial |-> serial[conn]]]
        BY <2>1 DEF WorkerFetches
      <3> QED BY <3>2, <3>3 DEF TypeOK
    <2>2. CASE WorkerIdles(i)
      <3>1. [conn |-> held[i].conn, serial |-> 0] \in Holds
        BY DEF TypeOK, Holds
      <3> QED BY <2>2, <3>1 DEF WorkerIdles, TypeOK
    <2>3. CASE WorkerBegins(i)
      <3>1. Nothing \in Holds
        BY DEF Nothing, Holds
      <3> QED BY <2>3, <3>1 DEF WorkerBegins, TypeOK
    <2> QED BY <2>1, <2>2, <2>3 DEF Worker, WorkerFails, WorkerLeaves, WorkerGoesOn,
            WorkerAsks, WorkerGetsNoJob, WorkerMisses, WorkerHits, WorkerPushes, TypeOK
  <1>3. nonce' \in [Idx -> Nat]
    <2>1. NextNonce(i) \in [Idx -> Nat]
      BY DEF NextNonce, TypeOK
    <2>2. [nonce EXCEPT ![i] = 0] \in [Idx -> Nat]
      BY DEF TypeOK
    <2>3. nonce' = nonce \/ nonce' = NextNonce(i) \/ nonce' = [nonce EXCEPT ![i] = 0]
      BY DEF Worker, WorkerFails, WorkerBegins, WorkerLeaves, WorkerIdles, WorkerGoesOn,
         WorkerAsks, WorkerFetches, WorkerGetsNoJob, WorkerMisses, WorkerHits,
         WorkerPushes
    <2> QED BY <2>1, <2>2, <2>3 DEF TypeOK
  <1>4. ref' \in [Idx -> 0..MaxConns]
    BY DEF Worker, WorkerFails, WorkerBegins, WorkerLeaves, WorkerIdles, WorkerGoesOn,
       WorkerAsks, WorkerFetches, WorkerGetsNoJob, WorkerMisses, WorkerHits,
       WorkerPushes, TypeOK
  <1>5. handed' \in [Conns -> Seq(Finds)]
    <2>1. FindOf(i) \in Finds
      BY DEF FindOf, Finds, TypeOK, Holds
    <2>2. CASE WorkerPushes(i)
      <3>1. ref[i] \in Conns
        BY <2>2, ConnIsOne DEF WorkerPushes, Goto, HoldInv
      <3>2. Append(handed[ref[i]], FindOf(i)) \in Seq(Finds)
        BY <2>1, <3>1 DEF TypeOK
      <3> QED BY <2>2, <3>1, <3>2 DEF WorkerPushes, TypeOK
    <2> QED BY <2>2 DEF Worker, WorkerFails, WorkerBegins, WorkerLeaves, WorkerIdles,
            WorkerGoesOn, WorkerAsks, WorkerFetches, WorkerGetsNoJob, WorkerMisses,
            WorkerHits, TypeOK
  <1> QED BY <1>0, <1>1, <1>2, <1>3, <1>4, <1>5 DEF TypeOK

----------------------------------------------------------------------------
(* What the steps of each thread leave alone *)

LEMMA WorkerFrame ==
  ASSUME NEW i \in Idx, Worker(i)
  PROVE  UNCHANGED <<uiVars, engineVars, clientVars, jobVars>>
  BY DEF Worker, WorkerFails, WorkerBegins, WorkerLeaves, WorkerIdles, WorkerGoesOn,
     WorkerAsks, WorkerFetches, WorkerGetsNoJob, WorkerMisses, WorkerHits,
     WorkerPushes, UnchangedForAll

LEMMA ConnectionFrame ==
  ASSUME NEW g \in Conns, Connection(g)
  PROVE  UNCHANGED <<uiVars, engineVars, clientVars, handed, workerVars>>
  BY DEF Connection, NewWork, Announce, Hush, Reset

LEMMA KeyFrame ==
  ASSUME Key
  PROVE  UNCHANGED <<old, mode, engineVars, clientVars, jobVars, handed, workerVars>>
  BY DEF Key, KeyStopMining, KeyStopBench, KeyForget, KeyQuit, KeyStartMining,
     KeyStartBench, KeyConnect, KeyAdjust

(* No step of the UI hands over a share or touches what a worker holds.      *)
LEMMA UiFrame ==
  ASSUME Ui
  PROVE  UNCHANGED <<handed, held, nonce, ref>>
  BY DEF Ui, SetPool, Halt, Join, Spawn, Unpool, Idle, Bench, Detach, Signal, Connect

----------------------------------------------------------------------------
(* The workers *)

(* How one worker moves; the others stay where they are. *)
LEMMA WorkerMoves ==
  ASSUME TypeOK, NEW i \in Idx, Worker(i)
  PROVE  /\ \A j \in Idx : j # i => wpc'[j] = wpc[j] /\ held'[j] = held[j] /\ ref'[j] = ref[j]
         /\ wpc[i] # "none"
         /\ wpc[i] = "born" /\ pool => wpc'[i] \in {"none", "poll"}
         /\ wpc[i] = "born" /\ ~pool => wpc'[i] \in {"none", "bench"}
         /\ wpc'[i] # "born"
         /\ wpc[i] = "bench" => wpc'[i] = "none"
         /\ wpc[i] \in OnThePool => wpc'[i] \in OnThePool \cup {"none"}
  <1>1. CASE WorkerBegins(i)
    BY <1>1 DEF WorkerBegins, Goto, TypeOK, OnThePool
  <1>2. CASE WorkerFails(i) \/ WorkerLeaves(i)
    BY <1>2 DEF WorkerFails, WorkerLeaves, Goto, TypeOK, OnThePool
  <1>3. CASE WorkerIdles(i) \/ WorkerGoesOn(i) \/ WorkerAsks(i)
    BY <1>3 DEF WorkerIdles, WorkerGoesOn, WorkerAsks, Goto, TypeOK, OnThePool
  <1>4. CASE WorkerFetches(i) \/ WorkerGetsNoJob(i)
    BY <1>4 DEF WorkerFetches, WorkerGetsNoJob, Goto, TypeOK, OnThePool
  <1>5. CASE WorkerMisses(i) \/ WorkerHits(i) \/ WorkerPushes(i)
    BY <1>5 DEF WorkerMisses, WorkerHits, WorkerPushes, Goto, TypeOK, OnThePool
  <1> QED BY <1>1, <1>2, <1>3, <1>4, <1>5 DEF Worker

LEMMA WorkerKeepsPlaces ==
  ASSUME IInv, NEW i \in Idx, Worker(i)
  PROVE  JoinedInv' /\ ((ui = "keys" => KeysInv) /\ PlaceInv)'
  <1> USE DEF IInv
  <1>1. UNCHANGED <<uiVars, engineVars, clientVars>>
    BY WorkerFrame
  <1>2. JoinedInv'
    BY <1>1, WorkerMoves DEF JoinedInv
  <1>a. wpc[i] \in WorkerLabels
    BY DEF TypeOK
  <1>b. \A j \in Idx : j # i => wpc'[j] = wpc[j]
    BY WorkerMoves
  <1>3. NoMiner => NoMiner'
    <2> SUFFICES ASSUME NoMiner PROVE NoMiner'
      OBVIOUS
    <2>1. wpc[i] \in {"none", "born", "bench"} /\ (wpc[i] = "born" => ~pool)
      BY <1>a DEF NoMiner, WorkerLabels
    <2>2. wpc'[i] \in {"none", "bench"}
      BY <2>1, WorkerMoves
    <2> QED BY <1>1, <1>b, <2>2 DEF NoMiner, OnThePool
  <1>4. pool /\ NoBench => NoBench'
    <2> SUFFICES ASSUME pool, NoBench PROVE NoBench'
      OBVIOUS
    <2>1. wpc[i] \in OnThePool \/ wpc[i] = "born" \/ wpc[i] = "none"
      BY <1>a DEF NoBench, WorkerLabels
    <2>2. wpc'[i] # "bench"
      BY <2>1, WorkerMoves DEF OnThePool
    <2> QED BY <1>b, <2>2 DEF NoBench
  <1>5. (ui = "keys" => KeysInv)'
    BY <1>1, <1>3, <1>4 DEF KeysInv
  <1>6. PlaceInv'
    BY <1>1, <1>3 DEF PlaceInv, Toward, GoalFits
  <1> QED BY <1>2, <1>5, <1>6

LEMMA WorkerKeepsHold ==
  ASSUME IInv, NEW i \in Idx, Worker(i)
  PROVE  HoldInv'
  <1> USE DEF IInv
  <1>1. UNCHANGED clientVars
    BY WorkerFrame
  <1>2. ASSUME NEW j \in Idx, j # i
        PROVE  wpc'[j] = wpc[j] /\ held'[j] = held[j] /\ ref'[j] = ref[j]
    BY <1>2, WorkerMoves
  <1>3. /\ wpc'[i] \in {"mine", "push"} => conn # 0 /\ held'[i].conn = conn
        /\ wpc'[i] = "push" => ref'[i] = conn
        /\ wpc'[i] \in {"poll", "fetch"} /\ held'[i].serial # 0 => held'[i].conn = conn
    <2>1. CASE WorkerBegins(i)
      BY <2>1 DEF WorkerBegins, Goto, TypeOK, Nothing
    <2>2. CASE WorkerFails(i) \/ WorkerLeaves(i)
      BY <2>2 DEF WorkerFails, WorkerLeaves, Goto, TypeOK
    <2>3. CASE WorkerIdles(i)
      BY <2>3 DEF WorkerIdles, TypeOK
    <2>4. CASE WorkerGoesOn(i) \/ WorkerAsks(i)
      BY <2>4 DEF WorkerGoesOn, WorkerAsks, LiveSerial, Goto, TypeOK, HoldInv
    <2>5. CASE WorkerFetches(i)
      BY <2>5 DEF WorkerFetches, Goto, TypeOK
    <2>6. CASE WorkerGetsNoJob(i)
      BY <2>6 DEF WorkerGetsNoJob, Goto, TypeOK, HoldInv
    <2>7. CASE WorkerMisses(i) \/ WorkerHits(i) \/ WorkerPushes(i)
      BY <2>7 DEF WorkerMisses, WorkerHits, WorkerPushes, Goto, TypeOK, HoldInv
    <2> QED BY <2>1, <2>2, <2>3, <2>4, <2>5, <2>6, <2>7 DEF Worker
  <1> QED BY <1>1, <1>2, <1>3 DEF HoldInv

LEMMA WorkerKeepsHome ==
  ASSUME IInv, NEW i \in Idx, Worker(i)
  PROVE  SharesStayHome'
  <1> USE DEF IInv
  <1>1. CASE WorkerPushes(i)
    <2>1. ref[i] = conn /\ held[i].conn = conn /\ conn \in Conns
      BY <1>1, ConnIsOne DEF WorkerPushes, Goto, HoldInv
    <2>2. CASE handed' = [handed EXCEPT ![ref[i]] = Append(@, FindOf(i))]
      <3>1. FindOf(i).conn = conn
        BY <2>1 DEF FindOf
      <3>2. ASSUME NEW g \in Conns, NEW k \in DOMAIN handed'[g]
            PROVE  handed'[g][k].conn = g
        <4>0. handed[conn] \in Seq(Finds) /\ handed[g] \in Seq(Finds)
          BY <2>1 DEF TypeOK
        <4>1. CASE g # conn
          <5>1. handed'[g] = handed[g]
            BY <2>1, <2>2, <4>1 DEF TypeOK
          <5> QED BY <3>2, <5>1 DEF SharesStayHome
        <4>2. CASE g = conn
          <5>1. handed'[g] = Append(handed[conn], FindOf(i))
            BY <2>1, <2>2, <4>2 DEF TypeOK
          <5>2. FindOf(i) \in Finds
            BY DEF FindOf, Finds, TypeOK, Holds
          <5>3. k \in 1..(Len(handed[conn]) + 1)
            BY <3>2, <4>0, <5>1, <5>2
          <5>4. CASE k = Len(handed[conn]) + 1
            BY <3>1, <4>0, <4>2, <5>1, <5>2, <5>4
          <5>5. CASE k # Len(handed[conn]) + 1
            <6>1. k \in DOMAIN handed[conn] /\ handed'[g][k] = handed[conn][k]
              BY <4>0, <5>1, <5>2, <5>3, <5>5
            <6> QED BY <2>1, <4>2, <6>1 DEF SharesStayHome
          <5> QED BY <5>4, <5>5
        <4> QED BY <4>1, <4>2
      <3> QED BY <3>2 DEF SharesStayHome
    <2>3. CASE UNCHANGED handed
      BY <2>3 DEF SharesStayHome
    <2> QED BY <1>1, <2>2, <2>3 DEF WorkerPushes
  <1>2. CASE ~WorkerPushes(i)
    <2>1. UNCHANGED handed
      BY <1>2 DEF Worker, WorkerFails, WorkerBegins, WorkerLeaves, WorkerIdles,
         WorkerGoesOn, WorkerAsks, WorkerFetches, WorkerGetsNoJob, WorkerMisses,
         WorkerHits
    <2> QED BY <2>1 DEF SharesStayHome
  <1> QED BY <1>1, <1>2

----------------------------------------------------------------------------
(* The UI thread and the connections *)

LEMMA KeyKeepsInv == IInv /\ Key => IInv'
  <1> SUFFICES ASSUME IInv, Key PROVE IInv'
    OBVIOUS
  <1> USE DEF IInv
  <1>1. TypeOK'
    BY KeyType
  <1>2. JoinedInv' /\ HoldInv' /\ SharesStayHome'
    BY KeyFrame DEF JoinedInv, HoldInv, SharesStayHome
  <1>3. UNCHANGED <<mode, pool, workers, conn, conns, wpc>> /\ ui = "keys"
    BY KeyFrame DEF Key, KeyStopMining, KeyStopBench, KeyForget, KeyQuit, KeyStartMining,
       KeyStartBench, KeyConnect, KeyAdjust
  <1>4. NoMiner' = NoMiner /\ KeysInv' = KeysInv
    BY <1>3 DEF NoMiner, NoBench, KeysInv
  <1>n. workers = {} => NoMiner
    BY DEF JoinedInv, NoMiner, OnThePool
  <1>m. mode \in {"Idle", "Mining", "Benchmark"}
    BY DEF TypeOK, Modes
  <1>5. (ui = "keys" => KeysInv)'
    BY <1>3, <1>4
  <1>6. PlaceInv'
    <2>1. CASE KeyStopMining
      BY <1>3, <2>1 DEF KeyStopMining, StopMiningThen, StopEngineThen, PlaceInv, Toward
    <2>2. CASE KeyStartMining
      BY <1>3, <2>2 DEF KeyStartMining, PlaceInv, Toward
    <2>3. CASE KeyStopBench
      BY <1>3, <2>3 DEF KeyStopBench, StopEngineThen, PlaceInv, Toward, KeysInv
    <2>4. CASE KeyStartBench
      BY <1>3, <2>4 DEF KeyStartBench, StopMiningThen, StopEngineThen, PlaceInv, Toward
    <2>5. CASE KeyAdjust
      <3>1. CASE workers # {}
        BY <1>3, <1>m, <2>5, <3>1 DEF KeyAdjust, StopEngineThen, PlaceInv, Toward, KeysInv,
           GoalFits
      <3>2. CASE workers = {}
        BY <1>3, <2>5, <3>2 DEF KeyAdjust, PlaceInv, Toward
      <3> QED BY <3>1, <3>2
    <2>6. CASE conns < MaxConns /\ KeyConnect
      BY <1>3, <1>4, <1>n, <1>m, <2>6 DEF KeyConnect, StopMiningThen, StopEngineThen,
         PlaceInv, Toward, KeysInv
    <2>7. CASE KeyForget
      BY <1>3, <1>4, <1>n, <1>m, <2>7 DEF KeyForget, StopMiningThen, StopEngineThen,
         PlaceInv, Toward, KeysInv
    <2>8. CASE KeyQuit
      BY <1>3, <2>8 DEF KeyQuit, StopEngineThen, PlaceInv, Toward
    <2> QED BY <2>1, <2>2, <2>3, <2>4, <2>5, <2>6, <2>7, <2>8 DEF Key
  <1> QED BY <1>1, <1>2, <1>5, <1>6

LEMMA UiKeepsInv == IInv /\ Ui => IInv'
  <1> SUFFICES ASSUME IInv, Ui PROVE IInv'
    OBVIOUS
  <1> USE DEF IInv
  <1>1. TypeOK'
    BY UiType
  <1>2. SharesStayHome'
    BY UiFrame DEF SharesStayHome
  <1>n. workers = {} => NoMiner
    BY DEF JoinedInv, NoMiner, OnThePool
  <1>3. CASE SetPool
    <2>1. UNCHANGED <<workers, conn, conns, wpc, held, ref, goal, then>> /\ pool'
      BY <1>3 DEF SetPool
    <2>2. JoinedInv' /\ HoldInv'
      BY <2>1 DEF JoinedInv, HoldInv
    <2>3. PlaceInv' /\ ui' # "keys"
      BY <1>3, <2>1 DEF SetPool, StopEngineThen, PlaceInv, Toward, GoalFits
    <2> QED BY <1>1, <1>2, <2>2, <2>3
  <1>4. CASE Halt
    <2>1. UNCHANGED <<workers, conn, conns, wpc, held, ref, goal, then, ret, pool>>
      BY <1>4 DEF Halt
    <2>2. JoinedInv' /\ HoldInv'
      BY <2>1 DEF JoinedInv, HoldInv
    <2>3. PlaceInv' /\ ui' # "keys"
      BY <1>4, <2>1 DEF Halt, PlaceInv, Toward, GoalFits
    <2> QED BY <1>1, <1>2, <2>2, <2>3
  <1>5. CASE Join
    <2>1. UNCHANGED <<conn, conns, wpc, held, ref, goal, then, ret, pool>>
      BY <1>5 DEF Join
    <2>2. JoinedInv' /\ HoldInv'
      BY <1>5, <2>1 DEF Join, JoinedInv, HoldInv
    <2>3. NoMiner'
      BY <1>5, <2>2 DEF Join, JoinedInv, NoMiner, OnThePool
    <2>4. PlaceInv' /\ ui' # "keys"
      BY <1>5, <2>1, <2>3 DEF Join, PlaceInv, Toward, GoalFits
    <2> QED BY <1>1, <1>2, <2>2, <2>4
  <1>6. CASE Spawn
    <2>0. threads \in Nat \ {0} /\ Idx \subseteq Nat
      BY ThreadAssumption DEF TypeOK, Idx
    <2>1. UNCHANGED <<conn, conns, held, ref, goal, then, ret, pool>>
      BY <1>6 DEF Spawn
    <2>2. \A i \in Idx : wpc'[i] \in {"born", "none"} /\ (i \notin workers' => wpc'[i] = "none")
      BY <1>6, <2>0 DEF Spawn, PlaceInv, Toward, JoinedInv
    <2>3. JoinedInv' /\ HoldInv'
      BY <2>2 DEF JoinedInv, HoldInv
    <2>4. NoBench' /\ (~pool => NoMiner')
      BY <2>1, <2>2 DEF NoBench, NoMiner, OnThePool
    <2>5. KeysInv'
      BY <1>6, <2>1, <2>4 DEF Spawn, PlaceInv, Toward, GoalFits, KeysInv
    <2>6. PlaceInv'
      BY <1>6 DEF Spawn, PlaceInv, Toward
    <2> QED BY <1>1, <1>2, <2>3, <2>5, <2>6
  <1>7. CASE Unpool
    <2>1. UNCHANGED <<workers, conn, conns, wpc, held, ref, goal, then, ret>> /\ ~pool'
      BY <1>7 DEF Unpool
    <2>2. JoinedInv' /\ HoldInv'
      BY <2>1 DEF JoinedInv, HoldInv
    <2>3. workers' = {} /\ NoMiner'
      BY <1>7, <2>1, <2>2 DEF Unpool, PlaceInv, JoinedInv, NoMiner, OnThePool
    <2>4. (ui = "keys" => KeysInv)'
      BY <1>7, <2>1, <2>3 DEF Unpool, KeysInv
    <2>5. PlaceInv'
      BY <1>7, <2>1, <2>3 DEF Unpool, PlaceInv, Toward, TypeOK
    <2> QED BY <1>1, <1>2, <2>2, <2>4, <2>5
  <1>8. CASE Idle
    <2>1. UNCHANGED <<workers, conn, conns, wpc, held, ref, pool>>
      BY <1>8 DEF Idle
    <2>2. JoinedInv' /\ HoldInv'
      BY <2>1 DEF JoinedInv, HoldInv
    <2>3. KeysInv' /\ PlaceInv'
      BY <1>8, <2>1 DEF Idle, KeysInv, PlaceInv, Toward
    <2> QED BY <1>1, <1>2, <2>2, <2>3
  <1>9. CASE Bench
    <2>1. UNCHANGED <<workers, conn, conns, wpc, held, ref, goal, then>> /\ ~pool'
      BY <1>9 DEF Bench
    <2>2. JoinedInv' /\ HoldInv'
      BY <2>1 DEF JoinedInv, HoldInv
    <2>3. PlaceInv' /\ ui' # "keys"
      BY <1>9, <2>1 DEF Bench, StopEngineThen, PlaceInv, Toward, GoalFits
    <2> QED BY <1>1, <1>2, <2>2, <2>3
  <1>10. CASE Detach
    <2>1. UNCHANGED <<workers, conns, wpc, held, ref, pool, then, mode>>
      BY <1>10 DEF Detach
    <2>2. NoMiner
      BY <1>10 DEF Detach, PlaceInv
    <2>3. JoinedInv' /\ HoldInv' /\ NoMiner'
      BY <2>1, <2>2 DEF JoinedInv, HoldInv, NoMiner, OnThePool
    <2>4. PlaceInv' /\ ui' # "keys"
      BY <1>10, <2>1, <2>3 DEF Detach, PlaceInv, Toward
    <2> QED BY <1>1, <1>2, <2>3, <2>4
  <1>11. CASE Signal
    <2>1. UNCHANGED <<workers, conn, conns, wpc, held, ref, pool, then, mode>>
      BY <1>11 DEF Signal
    <2>2. NoMiner /\ then \in {"connect", "forget", "quit"}
      BY <1>11 DEF Signal, PlaceInv
    <2>3. JoinedInv' /\ HoldInv' /\ NoMiner'
      BY <2>1, <2>2 DEF JoinedInv, HoldInv, NoMiner
    <2>4. (ui = "keys" => KeysInv)'
      BY <1>11, <2>1, <2>2, <2>3 DEF Signal, PlaceInv, KeysInv
    <2>5. PlaceInv'
      BY <1>11, <2>1, <2>2, <2>3 DEF Signal, PlaceInv, Toward
    <2> QED BY <1>1, <1>2, <2>3, <2>4, <2>5
  <1>12. CASE Connect
    <2>1. UNCHANGED <<workers, wpc, held, ref, pool, then, mode>>
      BY <1>12 DEF Connect
    <2>2. NoMiner /\ then = "connect"
      BY <1>12 DEF Connect, PlaceInv
    <2>3. JoinedInv' /\ HoldInv' /\ NoMiner'
      BY <2>1, <2>2 DEF JoinedInv, HoldInv, NoMiner, OnThePool
    <2>4. KeysInv' /\ PlaceInv'
      BY <1>12, <2>1, <2>2, <2>3 DEF Connect, PlaceInv, Toward, KeysInv
    <2> QED BY <1>1, <1>2, <2>3, <2>4
  <1> QED BY <1>3, <1>4, <1>5, <1>6, <1>7, <1>8, <1>9, <1>10, <1>11, <1>12 DEF Ui

LEMMA EngineInvInit == Init => IInv
  <1> SUFFICES ASSUME Init PROVE IInv
    OBVIOUS
  <1>1. TypeOK
    BY EngineTypeInit
  <1>2. JoinedInv /\ HoldInv /\ KeysInv
    BY DEF Init, JoinedInv, HoldInv, KeysInv
  <1>3. PlaceInv
    BY DEF Init, PlaceInv, Toward
  <1>4. SharesStayHome
    BY DEF Init, SharesStayHome
  <1> QED BY <1>1, <1>2, <1>3, <1>4 DEF IInv

LEMMA EngineInvStep == IInv /\ [Next]_vars => IInv'
  <1> SUFFICES ASSUME IInv, [Next]_vars PROVE IInv'
    OBVIOUS
  <1>1. CASE Key
    BY <1>1, KeyKeepsInv
  <1>2. CASE Ui
    BY <1>2, UiKeepsInv
  <1>3. ASSUME NEW g \in Conns, Connection(g)
        PROVE  IInv'
    <2>1. TypeOK'
      BY <1>3, ConnectionType DEF IInv
    <2> QED BY <1>3, <2>1, ConnectionFrame DEF IInv, JoinedInv, HoldInv, KeysInv, NoMiner,
            NoBench, PlaceInv, Toward, GoalFits, SharesStayHome
  <1>4. ASSUME NEW i \in Idx, Worker(i)
        PROVE  IInv'
    BY <1>4, WorkerType, WorkerKeepsPlaces, WorkerKeepsHold, WorkerKeepsHome DEF IInv
  <1>5. CASE UNCHANGED vars
    BY <1>5 DEF IInv, TypeOK, JoinedInv, HoldInv, KeysInv, NoMiner, NoBench, PlaceInv,
       Toward, GoalFits, SharesStayHome
  <1> QED BY <1>1, <1>2, <1>3, <1>4, <1>5 DEF Next

LEMMA EngineInv == Spec => []IInv
  BY EngineInvInit, EngineInvStep, PTL DEF Spec

----------------------------------------------------------------------------
(* The theorems *)

(* Engine::loop, Client::submit: whatever keys are pressed and however the    *)
(* threads run, a share found on the job of one connection is never queued on *)
(* another, although serials start again with every connection.              *)
THEOREM SharesGoHome == Spec => []SharesStayHome
  <1>1. IInv => SharesStayHome
    BY DEF IInv
  <1> QED BY <1>1, EngineInv, PTL

(* App.mode, between two keys: Idle has no thread running, a benchmark no     *)
(* thread on the pool, and mining has a connection and no thread left over    *)
(* from a benchmark.                                                          *)
THEOREM ModeTellsTheThreads == Spec => []ModeIsTrue
  <1>1. IInv => ModeIsTrue
    BY DEF IInv, ModeIsTrue, KeysInv, JoinedInv, NoMiner, NoBench
  <1> QED BY <1>1, EngineInv, PTL

(* The types of the engine's state, for every bound. *)
THEOREM EngineTyped == Spec => []TypeOK
  <1>1. IInv => TypeOK
    BY DEF IInv
  <1> QED BY <1>1, EngineInv, PTL

=============================================================================
