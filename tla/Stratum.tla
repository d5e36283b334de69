------------------------------ MODULE Stratum ------------------------------
(***************************************************************************)
(* One stratum connection (class Conn of net/stratum.h) and the threads    *)
(* that share it: the detached client thread (run_thread, session, dial,   *)
(* pump_lines, handle_line), the miner threads that read its job and queue *)
(* shares on it (Engine::loop through Client::job_serial, current and      *)
(* submit), and the UI thread that stops it (Client::stop).  The pool and  *)
(* the network are the environment.                                        *)
(*                                                                         *)
(* A job is its serial and whether it is minable, a share is the serial of *)
(* the job it was found on, a line of the stream is the call of            *)
(* handle_line it makes, and a note is the diagnosis it gives.  Time is    *)
(* not measured: a watchdog may fire at any turn of the session loop at    *)
(* which its condition holds.                                              *)
(***************************************************************************)
EXTENDS Integers, Sequences, FiniteSets

CONSTANTS
    Workers,        \* the miner threads
    OutboxCap,      \* shares the outbox holds at most (4096 in Client::submit)
    BackoffCap,     \* the bound the retry delay is compared with (30)
    MaxAddrs,       \* addresses a host resolves to, at most
    Extranonces,    \* the extranonces pools issue, a new one to each connection
    NoExtranonce,   \* an empty xnonce1
    MaxSerial,      \* bound of the model: jobs the pool issues
    MaxShares,      \* bound of the model: shares in the books at a time
    EagerPool,      \* the pool may push work before it accepts the subscription
    PoolAsks        \* the pool may send requests of its own, with a numeric id

ASSUME CapAssumption == OutboxCap \in Nat \ {0} /\ BackoffCap \in Nat \ {0}
ASSUME AddrAssumption == MaxAddrs \in Nat \ {0}
ASSUME ExtranonceAssumption == NoExtranonce \notin Extranonces
ASSUME BoundAssumption == MaxSerial \in Nat /\ MaxShares \in Nat
ASSUME PoolAssumption == EagerPool \in BOOLEAN /\ PoolAsks \in BOOLEAN

VARIABLES
    run, attached, wake,                       \* Conn.run, Client.conn_, the wake pipe
    state, note, error,                        \* what the UI shows
    job, serial, haveTarget, jobSerial,        \* the work
    outbox, pending, stats, nextId,            \* the shares
    authorized, fatal, reconnectRequested, xnonce1,
    pc, reachedReady, backoff, left, addrs, go,   \* locals of the client thread
    connected, unanswered, issued,             \* the socket, what the pool owes on it,
                                               \* the extranonce it issued last
    wpc, held                                  \* locals of the miner threads

controlVars == <<run, attached, wake>>
shownVars   == <<state, note, error>>
workVars    == <<job, serial, haveTarget, jobSerial>>
shareVars   == <<outbox, pending, stats, nextId>>
flagVars    == <<authorized, fatal, reconnectRequested, xnonce1>>
localVars   == <<reachedReady, backoff, left, addrs, go>>
netVars     == <<connected, unanswered, issued>>
workerVars  == <<wpc, held>>
vars == <<controlVars, shownVars, workVars, shareVars, flagVars, pc, localVars,
          netVars, workerVars>>

----------------------------------------------------------------------------
(* Types *)

States == {"Disconnected", "Resolving", "Connecting", "Subscribing",
           "Authorizing", "Waiting", "Ready", "Failed"}

(* Diagnoses of a failure, no diagnosis, and the captions of a phase. *)
Faults == {"cannot resolve", "cannot connect", "cannot send", "closed by pool",
           "malformed stream", "subscription refused", "address rejected",
           "never replied", "no work sent", "work stopped"}
NoFault == {""}
Captions == {"resolving", "connecting", "subscribing", "authorizing",
             "waiting for work", "waiting for a target",
             "connection lost", "not connected"}
Errors == Faults \cup NoFault
Notes == [text : Errors \cup Captions, retry : BOOLEAN]

(* A job: its content is known by the extranonce its header was built with.  *)
(* A find: the job a miner hashed when it found a share; the nonce and tag of *)
(* the share make a solution of that job and of no other.  A share: a find   *)
(* that was submitted, and the extranonce of the job it was submitted for.   *)
Xnonces == Extranonces \cup {NoExtranonce}
Jobs   == [serial : Nat, xnonce1 : Xnonces, valid : BOOLEAN]
Finds  == [serial : Nat, xnonce1 : Xnonces]
Shares == [id : Nat, found : Finds, sentFor : Xnonces]
NoJob  == [serial |-> 0, xnonce1 |-> NoExtranonce, valid |-> FALSE]
NoFind == [serial |-> 0, xnonce1 |-> NoExtranonce]
Ledger == [submitted : Nat, accepted : Nat, rejected : Nat, stale : Nat]

(* Request ids: mining.subscribe, mining.authorize; shares count from 4. *)
SubscribeId == 1
AuthorizeId == 2
FirstShareId == 4
Verdicts == {"yes", "stale", "no"}

Labels == {"top", "reset", "resolve", "connect", "subscribe", "loop", "poll",
           "read", "lines", "publish", "swap", "send", "close", "ended", "nap",
           "exit", "done"}

TypeOK ==
    /\ run \in BOOLEAN /\ attached \in BOOLEAN /\ wake \in BOOLEAN
    /\ state \in States /\ note \in Notes /\ error \in Errors
    /\ job \in Jobs /\ serial \in Nat /\ haveTarget \in BOOLEAN /\ jobSerial \in Nat
    /\ outbox \in Seq(Finds) /\ go \in Seq(Finds)
    /\ pending \subseteq Shares /\ stats \in Ledger /\ nextId \in Nat
    /\ authorized \in BOOLEAN /\ fatal \in BOOLEAN
    /\ reconnectRequested \in BOOLEAN /\ xnonce1 \in Xnonces
    /\ pc \in Labels /\ reachedReady \in BOOLEAN
    /\ backoff \in Nat /\ left \in Nat /\ addrs \in Nat
    /\ connected \in BOOLEAN /\ unanswered \subseteq Nat /\ issued \in Xnonces
    /\ wpc \in [Workers -> {"poll", "fetch", "mine", "wake"}]
    /\ held \in [Workers -> Finds]

Init ==
    /\ run = TRUE /\ attached = TRUE /\ wake = FALSE
    /\ state = "Disconnected" /\ note = [text |-> "", retry |-> FALSE] /\ error = ""
    /\ job = NoJob /\ serial = 0 /\ haveTarget = FALSE /\ jobSerial = 0
    /\ outbox = <<>> /\ pending = {} /\ nextId = FirstShareId
    /\ stats = [submitted |-> 0, accepted |-> 0, rejected |-> 0, stale |-> 0]
    /\ authorized = FALSE /\ fatal = FALSE
    /\ reconnectRequested = FALSE /\ xnonce1 = NoExtranonce
    /\ pc = "top" /\ reachedReady = FALSE
    /\ backoff = 1 /\ left = 0 /\ addrs = 0 /\ go = <<>>
    /\ connected = FALSE /\ unanswered = {} /\ issued = NoExtranonce
    /\ wpc = [w \in Workers |-> "poll"] /\ held = [w \in Workers |-> NoFind]

----------------------------------------------------------------------------
(* What the handlers share *)

(* Mutant: every note is recorded as an error. *)
SetStateRecordsAll(s, text) ==
    /\ state' = s
    /\ note' = [text |-> text, retry |-> FALSE]
    /\ error' = IF s = "Ready" THEN "" ELSE text

(* Conn::set_state: a failure records itself, work that is minable clears it. *)
SetState(s, text) ==
    /\ state' = s
    /\ note' = [text |-> text, retry |-> FALSE]
    /\ error' = IF s = "Failed" THEN text ELSE IF s = "Ready" THEN "" ELSE error

Goto(from, to) == pc = from /\ pc' = to

Count(field) == [stats EXCEPT ![field] = @ + 1]

(* close_fd: what the pool still owed on this connection will never come. *)
Hangup == connected' = FALSE /\ unanswered' = {} /\ UNCHANGED issued

----------------------------------------------------------------------------
(* session: reset and dial *)

(* Mutant: the shares in flight are forgotten. *)
NoneUnanswered == 0

(* What counts as stale when a session begins: the shares nobody answered. *)
Unanswered == Cardinality(pending)

(* Mutant: serials start again with every session. *)
ResetSessionAndSerial ==
    /\ Goto("top", "reset")
    /\ run
    /\ job' = NoJob /\ haveTarget' = FALSE /\ xnonce1' = NoExtranonce /\ serial' = 0
    /\ stats' = [stats EXCEPT !.stale = @ + Unanswered]
    /\ pending' = {} /\ outbox' = <<>>
    /\ reachedReady' = FALSE
    /\ UNCHANGED <<controlVars, shownVars, jobSerial, nextId, authorized, fatal,
                   reconnectRequested, backoff, left, addrs, go, netVars, workerVars>>

(* Mutant: the job of the last session is kept. *)
ResetSessionKeepsJob ==
    /\ Goto("top", "reset")
    /\ run
    /\ xnonce1' = NoExtranonce
    /\ stats' = [stats EXCEPT !.stale = @ + Unanswered]
    /\ pending' = {} /\ outbox' = <<>>
    /\ reachedReady' = FALSE
    /\ UNCHANGED <<controlVars, shownVars, job, serial, haveTarget, jobSerial, nextId,
                   authorized, fatal, reconnectRequested, backoff, left, addrs, go,
                   netVars, workerVars>>

(* The locked section at the top of session. *)
ResetSession ==
    /\ Goto("top", "reset")
    /\ run
    /\ job' = NoJob /\ haveTarget' = FALSE /\ xnonce1' = NoExtranonce
    /\ stats' = [stats EXCEPT !.stale = @ + Unanswered]
    /\ pending' = {} /\ outbox' = <<>>
    /\ reachedReady' = FALSE
    /\ UNCHANGED <<controlVars, shownVars, serial, jobSerial, nextId, authorized,
                   fatal, reconnectRequested, backoff, left, addrs, go, netVars,
                   workerVars>>

StartResolving ==
    /\ Goto("reset", "resolve")
    /\ jobSerial' = 0 /\ authorized' = FALSE
    /\ SetState("Resolving", "resolving")
    /\ UNCHANGED <<controlVars, job, serial, haveTarget, shareVars, fatal,
                   reconnectRequested, xnonce1, localVars, netVars, workerVars>>

(* dial: getaddrinfo gives up, or returns after stop(), or yields addresses. *)
ResolveFails ==
    /\ Goto("resolve", "ended")
    /\ SetState("Failed", "cannot resolve")
    /\ UNCHANGED <<controlVars, workVars, shareVars, flagVars, localVars, netVars,
                   workerVars>>

ResolveAbandoned ==
    /\ Goto("resolve", "ended")
    /\ ~run
    /\ UNCHANGED <<controlVars, shownVars, workVars, shareVars, flagVars, localVars,
                   netVars, workerVars>>

Resolved ==
    /\ Goto("resolve", "connect")
    /\ run
    /\ SetState("Connecting", "connecting")
    /\ addrs' \in 1..MaxAddrs
    /\ UNCHANGED <<controlVars, workVars, shareVars, flagVars, reachedReady, backoff,
                   left, go, netVars, workerVars>>

(* connect_one on the next address: refused or out of time, ... *)
ConnectFails ==
    /\ pc = "connect" /\ run /\ addrs > 0
    /\ addrs' = addrs - 1
    /\ UNCHANGED <<controlVars, shownVars, workVars, shareVars, flagVars, pc,
                   reachedReady, backoff, left, go, netVars, workerVars>>

(* ... given up because the wake pipe became readable, ... *)
ConnectInterrupted ==
    /\ pc = "connect" /\ run /\ addrs > 0
    /\ wake /\ wake' = FALSE
    /\ addrs' = addrs - 1
    /\ UNCHANGED <<run, attached, shownVars, workVars, shareVars, flagVars, pc,
                   reachedReady, backoff, left, go, netVars, workerVars>>

(* ... or open.  session goes on to "Subscribing" at once. *)
Connects ==
    /\ Goto("connect", "subscribe")
    /\ run /\ addrs > 0
    /\ connected' = TRUE /\ unanswered' = {} /\ UNCHANGED issued
    /\ SetState("Subscribing", "subscribing")
    /\ UNCHANGED <<controlVars, workVars, shareVars, flagVars, localVars, workerVars>>

DialFails ==
    /\ Goto("connect", "ended")
    /\ run /\ addrs = 0
    /\ SetState("Failed", "cannot connect")
    /\ UNCHANGED <<controlVars, workVars, shareVars, flagVars, localVars, netVars,
                   workerVars>>

DialAbandoned ==
    /\ Goto("connect", "ended")
    /\ ~run
    /\ UNCHANGED <<controlVars, shownVars, workVars, shareVars, flagVars, localVars,
                   netVars, workerVars>>

Subscribe ==
    /\ Goto("subscribe", "loop")
    /\ unanswered' = {SubscribeId}
    /\ UNCHANGED <<controlVars, shownVars, workVars, shareVars, flagVars, localVars,
                   connected, issued, workerVars>>

SubscribeFails ==
    /\ Goto("subscribe", "ended")
    /\ SetState("Failed", "cannot send")
    /\ Hangup
    /\ UNCHANGED <<controlVars, workVars, shareVars, flagVars, localVars, workerVars>>

----------------------------------------------------------------------------
(* session: the loop, its watchdogs and poll *)

SessionOver == ~run \/ reconnectRequested \/ fatal

(* reached_ready after the sample of state at the top of the loop. *)
SeenReady == reachedReady \/ state = "Ready"

LeaveLoop ==
    /\ Goto("loop", "close")
    /\ SessionOver
    /\ UNCHANGED <<controlVars, shownVars, workVars, shareVars, flagVars, localVars,
                   netVars, workerVars>>

(* A watchdog ends the session with its diagnosis. *)
Watchdog(parked, text) ==
    /\ Goto("loop", "close")
    /\ ~SessionOver /\ parked
    /\ reachedReady' = SeenReady
    /\ SetState("Failed", text)
    /\ UNCHANGED <<controlVars, workVars, shareVars, flagVars, backoff, left, addrs,
                   go, netVars, workerVars>>

(* Mutant: the handshake is over once the subscription is accepted. *)
SubscriptionExpires == Watchdog(state = "Subscribing", "never replied")

HandshakeExpires == Watchdog(~authorized, "never replied")
FirstJobExpires  == Watchdog(authorized /\ ~SeenReady, "no work sent")
IdleJobExpires   == Watchdog(SeenReady, "work stopped")

EnterPoll ==
    /\ Goto("loop", "poll")
    /\ ~SessionOver
    /\ reachedReady' = SeenReady
    /\ UNCHANGED <<controlVars, shownVars, workVars, shareVars, flagVars, backoff,
                   left, addrs, go, netVars, workerVars>>

(* poll returns: after stop(), or with an error, which says nothing; ... *)
PollEnds ==
    /\ Goto("poll", "close")
    /\ UNCHANGED <<controlVars, shownVars, workVars, shareVars, flagVars, localVars,
                   netVars, workerVars>>

(* ... after 200 ms or a wake alone, or with data; the pipe is drained here, *)
(* before the outbox is looked at.                                           *)
PollReturns(next) ==
    /\ Goto("poll", next)
    /\ run
    /\ wake' = FALSE
    /\ UNCHANGED <<run, attached, shownVars, workVars, shareVars, flagVars, localVars,
                   netVars, workerVars>>

PollTimesOut == PollReturns("swap")
PollReadable == PollReturns("read")

----------------------------------------------------------------------------
(* pump_lines: the reads, and the lines of one batch *)

(* recv comes back short, or with nothing more to read.  As long as the pool  *)
(* keeps the socket full the thread stays here and reads on, which changes    *)
(* nothing of the state: run is not looked at, nor is the length of the       *)
(* buffer (MalformedStream), and no line is handled.                          *)
ReadsAll ==
    /\ Goto("read", "lines")
    /\ UNCHANGED <<controlVars, shownVars, workVars, shareVars, flagVars, localVars,
                   netVars, workerVars>>

(* recv finds the end of the stream or an error: what was read is dropped. *)
PoolCloses ==
    /\ Goto("read", "close")
    /\ SetState("Failed", "closed by pool")
    /\ UNCHANGED <<controlVars, workVars, shareVars, flagVars, localVars, netVars,
                   workerVars>>

EndBatch ==
    /\ Goto("lines", "swap")
    /\ UNCHANGED <<controlVars, shownVars, workVars, shareVars, flagVars, localVars,
                   netVars, workerVars>>

MalformedStream ==
    /\ Goto("lines", "close")
    /\ SetState("Failed", "malformed stream")
    /\ UNCHANGED <<controlVars, workVars, shareVars, flagVars, localVars, netVars,
                   workerVars>>

(* A pool pushes work once it has accepted the subscription. *)
PoolMayPush == EagerPool \/ xnonce1 # NoExtranonce

FreshSerial == serial + 1

(* mining.notify, the locked section: a new job, minable if a target is known. *)
HandleNotify ==
    /\ Goto("lines", "publish")
    /\ PoolMayPush /\ serial < MaxSerial
    /\ serial' = FreshSerial
    /\ job' = [serial |-> FreshSerial, xnonce1 |-> xnonce1, valid |-> haveTarget]
    /\ UNCHANGED <<controlVars, shownVars, haveTarget, jobSerial, shareVars, flagVars,
                   localVars, netVars, workerVars>>

(* mining.set_target, the locked section: the job at hand becomes minable. *)
HandleSetTarget ==
    /\ pc = "lines"
    /\ PoolMayPush
    /\ haveTarget' = TRUE
    /\ \/ job.serial # 0 /\ job' = [job EXCEPT !.valid = TRUE] /\ pc' = "publish"
       \/ job.serial = 0 /\ UNCHANGED <<job, pc>>
    /\ UNCHANGED <<controlVars, shownVars, serial, jobSerial, shareVars, flagVars,
                   localVars, netVars, workerVars>>

(* Mutant: work is published, and called Ready, with or without a target. *)
PublishAnyJob ==
    /\ Goto("publish", "lines")
    /\ jobSerial' = job.serial
    /\ SetState("Ready", "")
    /\ UNCHANGED <<controlVars, job, serial, haveTarget, shareVars, flagVars, localVars,
                   netVars, workerVars>>

(* The end of both handlers, after the lock is released. *)
PublishJob ==
    /\ Goto("publish", "lines")
    /\ \/ job.valid /\ jobSerial' = job.serial /\ SetState("Ready", "")
       \/ ~job.valid /\ jobSerial' = 0 /\ SetState("Waiting", "waiting for a target")
    /\ UNCHANGED <<controlVars, job, serial, haveTarget, shareVars, flagVars, localVars,
                   netVars, workerVars>>

(* client.reconnect *)
HandleReconnect ==
    /\ pc = "lines" /\ reconnectRequested' = TRUE
    /\ UNCHANGED <<controlVars, shownVars, workVars, shareVars, authorized, fatal,
                   xnonce1, pc, localVars, netVars, workerVars>>

(* The reply to mining.subscribe: only an acceptance moves on, by sending    *)
(* mining.authorize; whether that send fails is not looked at.               *)
SubscribeReply(verdict) ==
    /\ \/ /\ verdict = "yes"
          /\ xnonce1' \in Extranonces \ {issued}
          /\ issued' = xnonce1'
          /\ SetState("Authorizing", "authorizing")
       \/ /\ verdict # "yes"
          /\ SetState("Failed", "subscription refused")
          /\ UNCHANGED <<xnonce1, issued>>
    /\ UNCHANGED <<shareVars, authorized, fatal>>

AuthorizeReply(verdict) ==
    /\ \/ /\ verdict = "yes"
          /\ authorized' = TRUE
          /\ SetState("Waiting", "waiting for work")
          /\ UNCHANGED fatal
       \/ /\ verdict # "yes"
          /\ fatal' = TRUE
          /\ SetState("Failed", "address rejected")
          /\ UNCHANGED authorized
    /\ UNCHANGED <<shareVars, xnonce1, issued>>

Outcome(verdict) == [yes |-> "accepted", stale |-> "stale", no |-> "rejected"][verdict]

Answered(id) == {s \in pending : s.id = id}

(* Mutant: the share that was answered is left in the list. *)
ShareReplyKeepsIt(id, verdict) ==
    /\ \/ Answered(id) # {} /\ stats' = Count(Outcome(verdict))
       \/ Answered(id) = {} /\ UNCHANGED stats
    /\ UNCHANGED <<pending, outbox, nextId, shownVars, authorized, fatal, xnonce1, issued>>

(* The result of a share; an id nobody waits for is ignored. *)
ShareReply(id, verdict) ==
    /\ pending' = pending \ Answered(id)
    /\ \/ Answered(id) # {} /\ stats' = Count(Outcome(verdict))
       \/ Answered(id) = {} /\ UNCHANGED stats
    /\ UNCHANGED <<outbox, nextId, shownVars, authorized, fatal, xnonce1, issued>>

(* A line without a method handle_line knows, but with a numeric id. *)
HandleResponse(id, verdict) ==
    /\ \/ id = SubscribeId /\ SubscribeReply(verdict)
       \/ id = AuthorizeId /\ AuthorizeReply(verdict)
       \/ id \notin {SubscribeId, AuthorizeId} /\ ShareReply(id, verdict)
    /\ UNCHANGED <<controlVars, workVars, reconnectRequested, pc, localVars, connected,
                   workerVars>>

(* The pool answers a request of ours; the client may send the next one. *)
HandleReply ==
    /\ pc = "lines"
    /\ \E id \in unanswered, verdict \in Verdicts :
         /\ HandleResponse(id, verdict)
         /\ \/ unanswered' = unanswered \ {id}
            \/ /\ id = SubscribeId /\ verdict = "yes"
               /\ unanswered' = (unanswered \ {id}) \cup {AuthorizeId}

(* The pool makes a request of its own: it carries no result. *)
HandleRequest ==
    /\ pc = "lines" /\ PoolAsks
    /\ \E id \in 1..nextId : HandleResponse(id, "no")
    /\ UNCHANGED unanswered

----------------------------------------------------------------------------
(* session: the outbox, and the end of the session *)

SwapOutbox ==
    /\ Goto("swap", "send")
    /\ go' = outbox /\ outbox' = <<>>
    /\ UNCHANGED <<controlVars, shownVars, workVars, pending, stats, nextId, flagVars,
                   reachedReady, backoff, left, addrs, netVars, workerVars>>

StillCurrent(find) == job.valid /\ job.serial = find.serial

DropStale ==
    /\ pc = "send" /\ go # <<>> /\ ~StillCurrent(Head(go))
    /\ go' = Tail(go)
    /\ stats' = Count("stale")
    /\ UNCHANGED <<controlVars, shownVars, workVars, outbox, pending, nextId, flagVars,
                   pc, reachedReady, backoff, left, addrs, netVars, workerVars>>

(* Mutant: the id is used again. *)
BookShareSameId ==
    /\ pc = "send" /\ go # <<>> /\ StillCurrent(Head(go))
    /\ pending' = pending \cup
         {[id |-> nextId, found |-> Head(go), sentFor |-> job.xnonce1]}
    /\ stats' = Count("submitted")
    /\ UNCHANGED nextId

(* What a submission books before it is written to the socket. *)
BookShare ==
    /\ pc = "send" /\ go # <<>> /\ StillCurrent(Head(go))
    /\ nextId' = nextId + 1
    /\ pending' = pending \cup
         {[id |-> nextId, found |-> Head(go), sentFor |-> job.xnonce1]}
    /\ stats' = Count("submitted")

SendShare ==
    /\ BookShare
    /\ go' = Tail(go)
    /\ unanswered' = unanswered \cup {nextId}
    /\ UNCHANGED <<controlVars, shownVars, workVars, outbox, flagVars, pc, reachedReady,
                   backoff, left, addrs, connected, issued, workerVars>>

(* send_line fails: session returns there and then, the rest of go with it. *)
SendFails ==
    /\ BookShare
    /\ pc' = "ended"
    /\ go' = <<>>
    /\ SetState("Failed", "cannot send")
    /\ Hangup
    /\ UNCHANGED <<controlVars, workVars, outbox, flagVars, reachedReady, backoff, left,
                   addrs, workerVars>>

(* Mutant: the wake pipe is drained after the outbox was taken. *)
OutboxDoneThenDrain ==
    /\ Goto("send", "loop")
    /\ go = <<>>
    /\ wake' = FALSE
    /\ UNCHANGED <<run, attached, shownVars, workVars, shareVars, flagVars, localVars,
                   netVars, workerVars>>

OutboxDone ==
    /\ Goto("send", "loop")
    /\ go = <<>>
    /\ UNCHANGED <<controlVars, shownVars, workVars, shareVars, flagVars, localVars,
                   netVars, workerVars>>

CloseSession ==
    /\ Goto("close", "ended")
    /\ Hangup
    /\ reconnectRequested' = FALSE
    /\ jobSerial' = 0
    /\ UNCHANGED <<controlVars, shownVars, job, serial, haveTarget, shareVars,
                   authorized, fatal, xnonce1, localVars, workerVars>>

----------------------------------------------------------------------------
(* run_thread: after a session *)

(* Mutant: the delay is doubled once more when it is at the cap. *)
DoubledAtCap == IF backoff <= BackoffCap THEN backoff * 2 ELSE BackoffCap

Settled == IF reachedReady THEN 1 ELSE backoff
Doubled == IF backoff < BackoffCap THEN backoff * 2 ELSE BackoffCap

AfterStop ==
    /\ Goto("ended", "exit")
    /\ ~run
    /\ UNCHANGED <<controlVars, shownVars, workVars, shareVars, flagVars, localVars,
                   netVars, workerVars>>

(* The address was rejected: no retry, and the reason stays on screen. *)
GiveUp ==
    /\ Goto("ended", "exit")
    /\ run /\ fatal
    /\ backoff' = Settled
    /\ state' = "Failed"
    /\ UNCHANGED <<controlVars, note, error, workVars, shareVars, flagVars, reachedReady,
                   left, addrs, go, netVars, workerVars>>

(* The reason that the countdown will repeat: the last note, if there is one. *)
Why == IF note.text # "" THEN note.text
       ELSE IF reachedReady THEN "connection lost" ELSE "not connected"

(* Mutant: a rejected address is retried like any other failure. *)
PlanRetryAnyway ==
    /\ Goto("ended", "nap")
    /\ run
    /\ backoff' = Settled /\ left' = Settled
    /\ UNCHANGED <<controlVars, shownVars, workVars, shareVars, flagVars,
                   reachedReady, addrs, go, netVars, workerVars>>

PlanRetry ==
    /\ Goto("ended", "nap")
    /\ run /\ ~fatal
    /\ backoff' = Settled /\ left' = Settled
    /\ UNCHANGED <<controlVars, shownVars, workVars, shareVars, flagVars,
                   reachedReady, addrs, go, netVars, workerVars>>

(* Mutant: the countdown does not count. *)
NapSecondForever ==
    /\ pc = "nap" /\ run /\ left > 0
    /\ state' = IF reachedReady THEN "Disconnected" ELSE "Failed"
    /\ note' = [text |-> Why, retry |-> TRUE]
    /\ wake' = FALSE
    /\ UNCHANGED <<run, attached, error, workVars, shareVars, flagVars, pc,
                   reachedReady, backoff, left, addrs, go, netVars, workerVars>>

(* One second of the countdown; a wake cuts it short. *)
NapSecond ==
    /\ pc = "nap" /\ run /\ left > 0
    /\ state' = IF reachedReady THEN "Disconnected" ELSE "Failed"
    /\ note' = [text |-> Why, retry |-> TRUE]
    /\ wake' = FALSE
    /\ left' = left - 1
    /\ UNCHANGED <<run, attached, error, workVars, shareVars, flagVars, pc,
                   reachedReady, backoff, addrs, go, netVars, workerVars>>

NapDone ==
    /\ Goto("nap", "top")
    /\ left = 0 \/ ~run
    /\ backoff' = Doubled
    /\ UNCHANGED <<controlVars, shownVars, workVars, shareVars, flagVars, reachedReady,
                   left, addrs, go, netVars, workerVars>>

AskedToStop ==
    /\ Goto("top", "exit")
    /\ ~run
    /\ UNCHANGED <<controlVars, shownVars, workVars, shareVars, flagVars, localVars,
                   netVars, workerVars>>

ExitThread ==
    /\ Goto("exit", "done")
    /\ \/ fatal /\ UNCHANGED shownVars
       \/ ~fatal /\ SetState("Disconnected", "")
    /\ UNCHANGED <<controlVars, workVars, shareVars, flagVars, localVars, netVars,
                   workerVars>>

----------------------------------------------------------------------------
(* The UI thread: Client::stop lets go of the connection, then signals it. *)

StopDetach ==
    /\ attached /\ attached' = FALSE
    /\ UNCHANGED <<run, wake, shownVars, workVars, shareVars, flagVars, pc, localVars,
                   netVars, workerVars>>

(* Mutant: the thread is woken but never told to stop. *)
StopSignalWithoutRun ==
    /\ ~attached /\ run
    /\ jobSerial' = 0 /\ wake' = TRUE
    /\ UNCHANGED <<run, attached, shownVars, job, serial, haveTarget, shareVars,
                   flagVars, pc, localVars, netVars, workerVars>>

StopSignal ==
    /\ ~attached /\ run
    /\ run' = FALSE /\ jobSerial' = 0 /\ wake' = TRUE
    /\ UNCHANGED <<attached, shownVars, job, serial, haveTarget, shareVars, flagVars,
                   pc, localVars, netVars, workerVars>>

----------------------------------------------------------------------------
(* A miner thread: Engine::loop on the pool *)

LiveSerial == IF attached THEN jobSerial ELSE 0

(* Client::job_serial, once a wave: idle, go on, or fetch the new job. *)
WorkerPolls(w) ==
    /\ wpc[w] = "poll"
    /\ \/ /\ LiveSerial = 0
          /\ held' = [held EXCEPT ![w] = NoFind] /\ UNCHANGED wpc
       \/ /\ LiveSerial # 0 /\ LiveSerial = held[w].serial
          /\ wpc' = [wpc EXCEPT ![w] = "mine"] /\ UNCHANGED held
       \/ /\ LiveSerial # 0 /\ LiveSerial # held[w].serial
          /\ wpc' = [wpc EXCEPT ![w] = "fetch"] /\ UNCHANGED held
    /\ UNCHANGED <<controlVars, shownVars, workVars, shareVars, flagVars, pc, localVars,
                   netVars>>

(* Client::current, under the lock. *)
WorkerFetches(w) ==
    /\ wpc[w] = "fetch"
    /\ \/ /\ attached /\ job.valid
          /\ held' = [held EXCEPT ![w] = [serial |-> job.serial, xnonce1 |-> job.xnonce1]]
          /\ wpc' = [wpc EXCEPT ![w] = "mine"]
       \/ /\ ~attached \/ ~job.valid
          /\ wpc' = [wpc EXCEPT ![w] = "poll"] /\ UNCHANGED held
    /\ UNCHANGED <<controlVars, shownVars, workVars, shareVars, flagVars, pc, localVars,
                   netVars>>

(* A wave without a hit, or whose hit Client::submit refuses: the outbox is  *)
(* full, or the client has let go of the connection.                         *)
WorkerFindsNothing(w) ==
    /\ wpc[w] = "mine"
    /\ wpc' = [wpc EXCEPT ![w] = "poll"]
    /\ UNCHANGED <<controlVars, shownVars, workVars, shareVars, flagVars, pc, localVars,
                   netVars, held>>

SharesInBooks == stats.submitted + stats.stale + Len(outbox) + Len(go)

(* Client::submit, under the lock; the miner may have taken its reference to *)
(* the connection before stop() let go of it.                                *)
WorkerSubmits(w) ==
    /\ wpc[w] = "mine"
    /\ Len(outbox) < OutboxCap /\ SharesInBooks < MaxShares
    /\ outbox' = Append(outbox, held[w])
    /\ wpc' = [wpc EXCEPT ![w] = "wake"]
    /\ UNCHANGED <<controlVars, shownVars, workVars, pending, stats, nextId, flagVars,
                   pc, localVars, netVars, held>>

(* Conn::wake, after the lock is released; another hit of the wave may follow. *)
WorkerWakes(w) ==
    /\ wpc[w] = "wake"
    /\ wake' = TRUE
    /\ \E next \in {"mine", "poll"} : wpc' = [wpc EXCEPT ![w] = next]
    /\ UNCHANGED <<run, attached, shownVars, workVars, shareVars, flagVars, pc,
                   localVars, netVars, held>>

----------------------------------------------------------------------------
(* The threads *)

Dialing ==
    \/ ResetSession \/ StartResolving
    \/ ResolveFails \/ ResolveAbandoned \/ Resolved
    \/ ConnectFails \/ ConnectInterrupted \/ Connects \/ DialFails \/ DialAbandoned
    \/ Subscribe \/ SubscribeFails

Looping ==
    \/ LeaveLoop \/ HandshakeExpires \/ FirstJobExpires \/ IdleJobExpires \/ EnterPoll
    \/ PollEnds \/ PollTimesOut \/ PollReadable

Reading == ReadsAll \/ PoolCloses

Listening ==
    \/ EndBatch \/ MalformedStream \/ HandleNotify \/ HandleSetTarget \/ PublishJob
    \/ HandleReconnect \/ HandleReply \/ HandleRequest

Sending ==
    \/ SwapOutbox \/ DropStale \/ SendShare \/ SendFails \/ OutboxDone \/ CloseSession

Retrying ==
    \/ AfterStop \/ GiveUp \/ PlanRetry \/ NapSecond \/ NapDone \/ AskedToStop
    \/ ExitThread

ClientThread == Dialing \/ Looping \/ Reading \/ Listening \/ Sending \/ Retrying

Stop == StopDetach \/ StopSignal

Worker(w) ==
    \/ WorkerPolls(w) \/ WorkerFetches(w) \/ WorkerFindsNothing(w)
    \/ WorkerSubmits(w) \/ WorkerWakes(w)

Next == ClientThread \/ Stop \/ \E w \in Workers : Worker(w)

Spec == Init /\ [][Next]_vars

(* What the client thread does whatever the pool does: all but the end of its *)
(* reads.                                                                     *)
OfItsOwn == Dialing \/ Looping \/ Listening \/ Sending \/ Retrying

(* On a connection that stays open, a watchdog whose condition holds whenever *)
(* the loop comes round sees its deadline pass: nothing but new work, of      *)
(* which there is MaxSerial, sets a deadline back.                            *)
DeadlinesPass ==
    []<>~connected \/ (/\ SF_vars(HandshakeExpires)
                       /\ SF_vars(FirstJobExpires)
                       /\ SF_vars(IdleJobExpires))

(* The client thread keeps running, getaddrinfo, connect and send return, and *)
(* stop() goes on to its end.  What was read is a finite string: handle_line  *)
(* comes to its last line.  That the reads themselves end is not assumed.     *)
Fairness ==
    /\ WF_vars(OfItsOwn) /\ WF_vars(StopSignal)
    /\ SF_vars(EndBatch \/ MalformedStream)
    /\ DeadlinesPass

FairSpec == Spec /\ Fairness

----------------------------------------------------------------------------
(* Safety *)

(* Every share the client says it submitted is accepted, rejected, stale or  *)
(* still awaited, and no result is counted that was not submitted: the sum   *)
(* the UI shows never loses a share, over any number of reconnects.          *)
SharesAccounted ==
    LET answers == stats.accepted + stats.rejected + Cardinality(pending)
    IN  answers <= stats.submitted /\ stats.submitted <= answers + stats.stale

(* The books go through the steps of a ledger and no other: whatever is sent, *)
(* lost, answered twice or asked by the pool, a share is submitted under a    *)
(* fresh id, and then resolved once by its answer or, with all the others     *)
(* that wait, lost with the session.                                          *)
Books == INSTANCE ShareLedger WITH
    FirstId <- FirstShareId, awaited <- {s.id : s \in pending}, next <- nextId,
    books <- stats
KeepsTheBooks == Books!Spec

(* A share is submitted for the very job the miner solved: the serial that   *)
(* the client compares identifies a job across sessions, where a new         *)
(* extranonce makes an equal-looking job a different one.                    *)
SentForItsJob == \A s \in pending : s.found.xnonce1 = s.sentFor

(* The prefix that the client strips from the nonce it submits, the          *)
(* extranonce of this session, is the one the job was built with.            *)
PrefixIsOurs == connected => \A s \in pending : s.sentFor = xnonce1

(* Every answer the pool owes on this connection will find its share, and    *)
(* exactly one: ids are not reused and no awaited share is forgotten.        *)
AnswersFindShares ==
    connected =>
        LET owed == unanswered \ {SubscribeId, AuthorizeId}
        IN  /\ {s.id : s \in pending} = owed
            /\ Cardinality(pending) = Cardinality(owed)

(* No wake-up is lost: when the client is about to sleep in poll, a queued   *)
(* share of the current job has a wake in the pipe, or its miner is about to *)
(* write one, so it goes out on this tick and not up to 200 ms later.        *)
NoShareOversleeps ==
    pc \in {"send", "loop", "poll"} =>
        \A i \in 1..Len(outbox) :
            StillCurrent(outbox[i]) => wake \/ \E w \in Workers : wpc[w] = "wake"

(* What the miners are told to mine is the job at hand, and it has a target, *)
(* except while the client thread is between the lock and the store.         *)
PublishedIsMinable ==
    jobSerial # 0 /\ pc \notin {"publish", "reset"} =>
        job.valid /\ haveTarget /\ job.serial = jobSerial

(* Ready is never shown without work and a target to mine it by.             *)
ReadyHasWork ==
    state = "Ready" /\ pc \notin {"ended", "nap", "top", "reset", "exit", "done"} =>
        job.valid /\ haveTarget /\ job.serial # 0

(* After the pool has rejected the address no connection is opened again.    *)
RejectionIsFinal == [][fatal => (connected' => connected)]_vars

(* The delay between two attempts passes the cap once at most, when it is     *)
(* doubled below it, and goes back to the cap: it is never twice the cap, and *)
(* the countdown starts from nothing longer than the delay.  With the code's  *)
(* cap of thirty it goes 1, 2, 4, 8, 16, 32, 30, where run_thread's comment   *)
(* and ENGINEERING.md promise thirty at most.                                 *)
DelayBounded == backoff < 2 * BackoffCap /\ (pc = "nap" /\ run => left <= backoff)

----------------------------------------------------------------------------
(* Liveness *)

(* An assumption about the pool, that the two properties below state: again   *)
(* and again it leaves the socket empty for a moment, so that recv comes back *)
(* short.  A thread that reads without end does not test run, and its         *)
(* watchdogs wait with it.                                                    *)
PoolPauses == []<>(pc # "read")

(* A thread that stop() has walked away from ends, wherever it was, if the    *)
(* pool pauses.                                                               *)
DetachedThreadEnds == PoolPauses => (~attached ~> pc = "done")

(* No pool can park the client for ever by not replying: a connection on      *)
(* which no new work arrives is given up, if the pool pauses.                 *)
SilenceEnds == PoolPauses => (connected ~> ~connected)

(* A client that failed tries again, unless it is stopped.                   *)
ComesBack == pc = "nap" ~> (pc = "resolve" \/ ~run)

----------------------------------------------------------------------------
(* What the comments and the documentation say, and the code does not do *)

(* stratum.h: kFirstJobTimeoutMs bounds "authorized -> first job with a      *)
(* target"; the diagnosis it gives is "the pool sent no work".               *)
NoWorkMeansNoWork == pc = "close" /\ note.text = "no work sent" => ~job.valid

(* stratum.h: job_serial is "the serial of the job currently worth mining,   *)
(* or 0 when there is none"; between connections there is none.              *)
NoWorkWhenDown == pc = "nap" => jobSerial = 0
============================================================================
