------------------------------- MODULE Engine -------------------------------
(***************************************************************************)
(* The miners (class Engine of ui/vh22top.cpp) over successive stratum     *)
(* connections: the UI thread that starts and stops them and replaces the  *)
(* connection, the worker threads of Engine::loop, and of each connection  *)
(* (class Conn) what the workers see of it: the job behind its lock, the   *)
(* serial it publishes, and the outbox.  Module Stratum is one connection  *)
(* in full.                                                                *)
(*                                                                         *)
(* Every Conn counts its serials from 1, so a serial names a job of one    *)
(* connection only; that no worker carries a job from one connection to    *)
(* the next rests on the order in which the UI stops and starts things.    *)
(* A wave is one nonce.                                                    *)
(***************************************************************************)
EXTENDS Integers, Sequences, FiniteSets

CONSTANTS
    MaxThreads,     \* worker threads at most (ncpu)
    MaxConns,       \* bound of the model: connections opened
    MaxSerial,      \* bound of the model: jobs of one connection
    MaxNonce,       \* bound of the model: nonces of one job
    MaxShares,      \* bound of the model: shares handed to one connection
    MaxStarts       \* bound of the model: starts of the engine

ASSUME ThreadAssumption == MaxThreads \in Nat \ {0}
ASSUME EngineBoundAssumption ==
    MaxConns \in Nat /\ MaxSerial \in Nat /\ MaxNonce \in Nat /\ MaxShares \in Nat
    /\ MaxStarts \in Nat

VARIABLES
    ui, ret, then, goal, old,       \* the UI thread: where it is, and where it goes on
    mode, threads,                  \* App.mode, App.threads
    running, pool, workers,         \* g_running, Engine.pool_, Engine.workers_
    conn, conns,                    \* Client.conn_, and how many there have been
    live, serial, valid, phase,     \* of each connection: job_serial, its job
    handed,                         \* of each connection: the shares it was given
    wpc, held, nonce, ref,          \* locals of the worker threads
    starts                          \* the engine's starts, counted for the bound

uiVars     == <<ui, ret, then, goal, old, mode, threads>>
engineVars == <<running, pool, workers, starts>>
clientVars == <<conn, conns>>
jobVars    == <<live, serial, valid, phase>>
workerVars == <<wpc, held, nonce, ref>>
vars == <<uiVars, engineVars, clientVars, jobVars, handed, workerVars>>

----------------------------------------------------------------------------
(* Types *)

Idx   == 0..(MaxThreads - 1)
Conns == 1..MaxConns
Modes == {"Idle", "Mining", "Benchmark"}

(* A job as a worker holds it, and a share: the job it solves, and its nonce. *)
(* The tag that a worker draws and marks its nonces with is module WorkerTag. *)
Holds    == [conn : Nat, serial : Nat]
Nothing  == [conn |-> 0, serial |-> 0]
Finds    == [conn : Nat, serial : Nat, nonce : Nat]

UiLabels == {"keys", "setpool", "halt", "join", "spawn", "unpool", "idle", "bench",
             "detach", "signal", "connect", "quit"}
OnThePool == {"poll", "fetch", "mine", "push"}
WorkerLabels == OnThePool \cup {"none", "born", "bench"}

TypeOK ==
    /\ ui \in UiLabels /\ ret \in UiLabels /\ goal \in Modes /\ mode \in Modes
    /\ then \in {"keys", "bench", "connect", "forget", "quit"}
    /\ threads \in 1..MaxThreads /\ old \in 0..MaxConns
    /\ running \in BOOLEAN /\ pool \in BOOLEAN /\ workers \subseteq Idx
    /\ starts \in Nat /\ conns \in 0..MaxConns /\ conn \in 0..MaxConns
    /\ live \in [Conns -> Nat] /\ serial \in [Conns -> Nat] /\ valid \in [Conns -> BOOLEAN]
    /\ phase \in [Conns -> {"quiet", "issued", "live"}]
    /\ handed \in [Conns -> Seq(Finds)]
    /\ wpc \in [Idx -> WorkerLabels] /\ held \in [Idx -> Holds] /\ nonce \in [Idx -> Nat]
    /\ ref \in [Idx -> 0..MaxConns]

Init ==
    /\ ui = "keys" /\ ret = "keys" /\ then = "keys" /\ goal = "Idle" /\ old = 0
    /\ mode = "Idle" /\ threads = MaxThreads
    /\ running = FALSE /\ pool = FALSE /\ workers = {} /\ starts = 0
    /\ conn = 0 /\ conns = 0
    /\ live = [g \in Conns |-> 0] /\ serial = [g \in Conns |-> 0]
    /\ valid = [g \in Conns |-> FALSE] /\ phase = [g \in Conns |-> "quiet"]
    /\ handed = [g \in Conns |-> <<>>]
    /\ wpc = [i \in Idx |-> "none"] /\ held = [i \in Idx |-> Nothing]
    /\ nonce = [i \in Idx |-> 0] /\ ref = [i \in Idx |-> 0]

----------------------------------------------------------------------------
(* The UI thread: what a key asks of engine and client *)

(* Engine::stop, on to the label given. *)
StopEngineThen(label) == ui' = "halt" /\ ret' = label

(* stop_mining, on to what follows it in the handler. *)
StopMiningThen(what) ==
    /\ then' = what
    /\ \/ mode = "Mining" /\ StopEngineThen("unpool")
       \/ /\ mode # "Mining"
          /\ ui' = IF what \in {"connect", "forget"} THEN "detach" ELSE what
          /\ UNCHANGED ret

KeyStopMining ==
    /\ ui = "keys" /\ mode = "Mining"
    /\ StopMiningThen("keys")
    /\ UNCHANGED <<goal, old, mode, threads, engineVars, clientVars, jobVars, handed,
                   workerVars>>

(* MINE on a pool that is Ready. *)
KeyStartMining ==
    /\ ui = "keys" /\ mode # "Mining" /\ conn # 0
    /\ ui' = "setpool" /\ goal' = "Mining"
    /\ UNCHANGED <<ret, then, old, mode, threads, engineVars, clientVars, jobVars,
                   handed, workerVars>>

KeyStopBench ==
    /\ ui = "keys" /\ mode = "Benchmark"
    /\ StopEngineThen("idle")
    /\ UNCHANGED <<then, goal, old, mode, threads, engineVars, clientVars, jobVars,
                   handed, workerVars>>

KeyStartBench ==
    /\ ui = "keys" /\ mode # "Benchmark"
    /\ StopMiningThen("bench")
    /\ goal' = "Benchmark"
    /\ UNCHANGED <<old, mode, threads, engineVars, clientVars, jobVars, handed,
                   workerVars>>

(* Mutant: the number of threads may come down to none. *)
ClampTop(n) == IF n > MaxThreads THEN MaxThreads ELSE n

Clamp(n) == IF n < 1 THEN 1 ELSE IF n > MaxThreads THEN MaxThreads ELSE n

(* adjust: one thread less or more, or another number of lanes; an active     *)
(* engine is started again, also when the bound left the number as it was.    *)
KeyAdjust ==
    /\ ui = "keys"
    /\ \E change \in {-1, 0, 1} : threads' = Clamp(threads + change)
    /\ \/ /\ workers # {}
          /\ StopEngineThen("spawn") /\ goal' = mode
       \/ /\ workers = {}
          /\ UNCHANGED <<ui, ret, goal>>
    /\ UNCHANGED <<then, old, mode, engineVars, clientVars, jobVars, handed, workerVars>>

(* Mutant: the connection is replaced under the miners. *)
KeyConnectUnderMiners ==
    /\ ui = "keys"
    /\ ui' = "detach" /\ then' = "connect"
    /\ UNCHANGED <<ret, goal, old, mode, threads, engineVars, clientVars, jobVars,
                   handed, workerVars>>

(* Another pool, another endpoint or another address. *)
KeyConnect ==
    /\ ui = "keys"
    /\ StopMiningThen("connect")
    /\ UNCHANGED <<goal, old, mode, threads, engineVars, clientVars, jobVars, handed,
                   workerVars>>

(* The pool that is connected is deleted. *)
KeyForget ==
    /\ ui = "keys"
    /\ StopMiningThen("forget")
    /\ UNCHANGED <<goal, old, mode, threads, engineVars, clientVars, jobVars, handed,
                   workerVars>>

KeyQuit ==
    /\ ui = "keys"
    /\ StopEngineThen("detach") /\ then' = "quit"
    /\ UNCHANGED <<goal, old, mode, threads, engineVars, clientVars, jobVars, handed,
                   workerVars>>

(* The bounds of the model stand here: no other step of the UI depends on them. *)
Key == \/ KeyStopMining \/ KeyStopBench \/ KeyForget \/ KeyQuit
       \/ starts < MaxStarts /\ (KeyStartMining \/ KeyStartBench \/ KeyAdjust)
       \/ conns < MaxConns /\ KeyConnect

----------------------------------------------------------------------------
(* The UI thread: the calls, one effect on another thread at a time *)

(* engine.set_pool(&client), before Engine::start stops what still runs. *)
SetPool ==
    /\ ui = "setpool"
    /\ pool' = TRUE
    /\ StopEngineThen("spawn")
    /\ UNCHANGED <<then, goal, old, mode, threads, running, workers, starts, clientVars,
                   jobVars, handed, workerVars>>

Halt ==
    /\ ui = "halt" /\ ui' = "join"
    /\ running' = FALSE
    /\ UNCHANGED <<ret, then, goal, old, mode, threads, pool, workers, starts,
                   clientVars, jobVars, handed, workerVars>>

(* Mutant: the threads are let go, not waited for. *)
JoinNobody ==
    /\ ui = "join" /\ ui' = ret
    /\ workers' = {}
    /\ UNCHANGED <<ret, then, goal, old, mode, threads, running, pool, starts,
                   clientVars, jobVars, handed, workerVars>>

Join ==
    /\ ui = "join" /\ ui' = ret
    /\ \A i \in workers : wpc[i] = "none"
    /\ workers' = {}
    /\ UNCHANGED <<ret, then, goal, old, mode, threads, running, pool, starts,
                   clientVars, jobVars, handed, workerVars>>

(* Engine::start after its stop(). *)
Spawn ==
    /\ ui = "spawn" /\ ui' = "keys"
    /\ starts' = starts + 1
    /\ running' = TRUE
    /\ workers' = 0..(threads - 1)
    /\ wpc' = [i \in Idx |-> IF i < threads THEN "born" ELSE wpc[i]]
    /\ mode' = goal
    /\ UNCHANGED <<ret, then, goal, old, threads, pool, clientVars, jobVars, handed,
                   held, nonce, ref>>

(* stop_mining after the engine has stopped, and what follows it. *)
Unpool ==
    /\ ui = "unpool"
    /\ pool' = FALSE /\ mode' = "Idle"
    /\ ui' = IF then \in {"connect", "forget"} THEN "detach" ELSE then
    /\ UNCHANGED <<ret, then, goal, old, threads, running, workers, starts, clientVars,
                   jobVars, handed, workerVars>>

Idle ==
    /\ ui = "idle" /\ ui' = "keys"
    /\ mode' = "Idle"
    /\ UNCHANGED <<ret, then, goal, old, threads, engineVars, clientVars, jobVars,
                   handed, workerVars>>

Bench ==
    /\ ui = "bench"
    /\ pool' = FALSE
    /\ StopEngineThen("spawn")
    /\ UNCHANGED <<then, goal, old, mode, threads, running, workers, starts, clientVars,
                   jobVars, handed, workerVars>>

(* Client::stop *)
Detach ==
    /\ ui = "detach" /\ ui' = "signal"
    /\ old' = conn /\ conn' = 0
    /\ UNCHANGED <<ret, then, goal, mode, threads, engineVars, conns, jobVars, handed,
                   workerVars>>

Signal ==
    /\ ui = "signal"
    /\ ui' = IF then = "forget" THEN "keys" ELSE then
    /\ live' = IF old = 0 THEN live ELSE [live EXCEPT ![old] = 0]
    /\ UNCHANGED <<ret, then, goal, old, mode, threads, engineVars, clientVars, serial,
                   valid, phase, handed, workerVars>>

(* Client::start, whose own stop() finds no connection. *)
Connect ==
    /\ ui = "connect" /\ ui' = "keys"
    /\ conns' = conns + 1 /\ conn' = conns + 1
    /\ UNCHANGED <<ret, then, goal, old, mode, threads, engineVars, jobVars, handed,
                   workerVars>>

Ui == \/ SetPool \/ Halt \/ Join \/ Spawn \/ Unpool \/ Idle \/ Bench
      \/ Detach \/ Signal \/ Connect

----------------------------------------------------------------------------
(* A connection, as the workers see it *)

(* mining.notify: a new job behind the lock, not yet published; ... *)
NewWork(g) ==
    /\ serial[g] < MaxSerial
    /\ serial' = [serial EXCEPT ![g] = @ + 1]
    /\ valid' = [valid EXCEPT ![g] = TRUE]
    /\ phase' = [phase EXCEPT ![g] = "issued"]
    /\ UNCHANGED <<uiVars, engineVars, clientVars, live, handed, workerVars>>

(* ... published, and again with every target; stop() may have been called. *)
Announce(g) ==
    /\ phase[g] \in {"issued", "live"}
    /\ live' = [live EXCEPT ![g] = serial[g]]
    /\ phase' = [phase EXCEPT ![g] = "live"]
    /\ UNCHANGED <<uiVars, engineVars, clientVars, serial, valid, handed, workerVars>>

(* The end of a session, and the reset at the top of the next one. *)
Hush(g) ==
    /\ phase[g] = "live"
    /\ live' = [live EXCEPT ![g] = 0]
    /\ phase' = [phase EXCEPT ![g] = "quiet"]
    /\ UNCHANGED <<uiVars, engineVars, clientVars, serial, valid, handed, workerVars>>

Reset(g) ==
    /\ phase[g] = "quiet" /\ valid[g]
    /\ valid' = [valid EXCEPT ![g] = FALSE]
    /\ UNCHANGED <<uiVars, engineVars, clientVars, live, serial, phase, handed,
                   workerVars>>

Connection(g) == g <= conns /\ (NewWork(g) \/ Announce(g) \/ Hush(g) \/ Reset(g))

----------------------------------------------------------------------------
(* A worker thread: Engine::loop *)

Goto(i, from, to) == wpc[i] = from /\ wpc' = [wpc EXCEPT ![i] = to]

(* The workers' environment does not change in a step of theirs. *)
UnchangedForAll == UNCHANGED <<uiVars, engineVars, clientVars, jobVars>>

(* The Hasher has no memory to work in. *)
WorkerFails(i) ==
    /\ Goto(i, "born", "none")
    /\ UnchangedForAll /\ UNCHANGED <<handed, held, nonce, ref>>

WorkerBegins(i) ==
    /\ Goto(i, "born", IF pool THEN "poll" ELSE "bench")
    /\ held' = [held EXCEPT ![i] = Nothing]
    /\ UnchangedForAll /\ UNCHANGED <<handed, nonce, ref>>

(* Mutant: an idle worker sleeps and does not look at g_running. *)
WorkerLeavesUnlessIdle(i) ==
    /\ ~running
    /\ Goto(i, "bench", "none") \/ (held[i].serial # 0 /\ Goto(i, "poll", "none"))
    /\ UnchangedForAll /\ UNCHANGED <<handed, held, nonce, ref>>

(* g_running is tested once a wave. *)
WorkerLeaves(i) ==
    /\ ~running
    /\ Goto(i, "bench", "none") \/ Goto(i, "poll", "none")
    /\ UnchangedForAll /\ UNCHANGED <<handed, held, nonce, ref>>

LiveSerial == IF conn = 0 THEN 0 ELSE live[conn]

(* job_serial(): idle, go on with the job held, or fetch. *)
WorkerIdles(i) ==
    /\ running /\ wpc[i] = "poll" /\ LiveSerial = 0
    /\ held' = [held EXCEPT ![i] = [conn |-> @.conn, serial |-> 0]]
    /\ UnchangedForAll /\ UNCHANGED <<handed, wpc, nonce, ref>>

WorkerGoesOn(i) ==
    /\ running /\ LiveSerial # 0 /\ LiveSerial = held[i].serial
    /\ Goto(i, "poll", "mine")
    /\ UnchangedForAll /\ UNCHANGED <<handed, held, nonce, ref>>

WorkerAsks(i) ==
    /\ running /\ LiveSerial # 0 /\ LiveSerial # held[i].serial
    /\ Goto(i, "poll", "fetch")
    /\ UnchangedForAll /\ UNCHANGED <<handed, held, nonce, ref>>

(* current(): the job may be newer than the serial that was polled. *)
WorkerFetches(i) ==
    /\ conn # 0 /\ valid[conn]
    /\ Goto(i, "fetch", "mine")
    /\ held' = [held EXCEPT ![i] = [conn |-> conn, serial |-> serial[conn]]]
    /\ nonce' = [nonce EXCEPT ![i] = 0]
    /\ UnchangedForAll /\ UNCHANGED <<handed, ref>>

WorkerGetsNoJob(i) ==
    /\ ~(conn # 0 /\ valid[conn])
    /\ Goto(i, "fetch", "poll")
    /\ UnchangedForAll /\ UNCHANGED <<handed, held, nonce, ref>>

NextNonce(i) == [nonce EXCEPT ![i] = IF @ < MaxNonce THEN @ + 1 ELSE @]

(* A wave without a hit, or with one that finds no connection to go to. *)
WorkerMisses(i) ==
    /\ Goto(i, "mine", "poll")
    /\ nonce' = NextNonce(i)
    /\ UnchangedForAll /\ UNCHANGED <<handed, held, ref>>

(* A hit: submit() takes its reference to the connection, ... *)
WorkerHits(i) ==
    /\ nonce[i] < MaxNonce /\ conn # 0
    /\ Goto(i, "mine", "push")
    /\ ref' = [ref EXCEPT ![i] = conn]
    /\ UnchangedForAll /\ UNCHANGED <<handed, held, nonce>>

(* ... and hands the share over under that connection's lock. *)
FindOf(i) == [conn |-> held[i].conn, serial |-> held[i].serial, nonce |-> nonce[i]]

WorkerPushes(i) ==
    /\ Goto(i, "push", "poll")
    /\ \/ /\ Len(handed[ref[i]]) < MaxShares
          /\ handed' = [handed EXCEPT ![ref[i]] = Append(@, FindOf(i))]
       \/ Len(handed[ref[i]]) >= MaxShares /\ UNCHANGED handed
    /\ nonce' = NextNonce(i)
    /\ UnchangedForAll /\ UNCHANGED <<held, ref>>

Worker(i) ==
    \/ WorkerFails(i) \/ WorkerBegins(i) \/ WorkerLeaves(i) \/ WorkerIdles(i)
    \/ WorkerGoesOn(i) \/ WorkerAsks(i) \/ WorkerFetches(i) \/ WorkerGetsNoJob(i)
    \/ WorkerMisses(i) \/ WorkerHits(i) \/ WorkerPushes(i)

----------------------------------------------------------------------------
Next == Key \/ Ui \/ (\E g \in Conns : Connection(g)) \/ (\E i \in Idx : Worker(i))

Spec == Init /\ [][Next]_vars

(* The UI thread runs on inside a handler, and every worker is scheduled.    *)
FairSpec == Spec /\ WF_vars(Ui) /\ \A i \in Idx : WF_vars(Worker(i))

----------------------------------------------------------------------------
(* Safety *)

(* A share is handed to the connection whose job it solves, though a worker   *)
(* compares serials alone and every connection counts them from 1.            *)
SharesStayHome ==
    \A g \in Conns : \A k \in DOMAIN handed[g] : handed[g][k].conn = g

(* What the UI calls the mode is what the threads do: nothing runs while it   *)
(* is Idle, a benchmark touches no pool, and mining has a connection.         *)
ModeIsTrue ==
    ui = "keys" =>
        /\ mode = "Idle" => ~pool /\ \A i \in Idx : wpc[i] = "none"
        /\ mode = "Benchmark" => ~pool /\ \A i \in Idx : wpc[i] \notin OnThePool
        /\ mode = "Mining" => pool /\ conn # 0 /\ \A i \in Idx : wpc[i] # "bench"

(* The UI thread never waits for ever on the threads it joins: it is back at  *)
(* the keyboard again and again, or has quit.                                 *)
UiComesBack == []<>(ui \in {"keys", "quit"})

----------------------------------------------------------------------------
(* What the comments say, and the code does not do *)

(* loop: "New job: rebuild the per-template state", once: a worker does not   *)
(* fetch the job it already has, and start its nonces over.                   *)
RebuiltForNewJobs ==
    [][\A i \in Idx : WorkerFetches(i) => held'[i] # held[i]]_vars
=============================================================================
