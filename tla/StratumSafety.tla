--------------------------- MODULE StratumSafety ---------------------------
(***************************************************************************)
(* The safety theorems of module Stratum, for every set of miners, every   *)
(* capacity and every bound of the model: type correctness first, then     *)
(* what the miners are told to mine, the delay between attempts, the       *)
(* bookkeeping of shares, and the job that a share is submitted for.       *)
(***************************************************************************)
EXTENDS Stratum, FiniteSetTheorems, TLAPS

USE DEF vars, controlVars, shownVars, workVars, shareVars, flagVars, localVars,
        netVars, workerVars, Goto

----------------------------------------------------------------------------
(* Lemmas about the operators of the specification *)

(* What set_state shows stays within the notes it can show. *)
LEMMA SetStateType ==
  ASSUME error \in Errors, NEW s \in States, NEW text \in Errors \cup Captions,
         s = "Failed" => text \in Errors, SetState(s, text)
  PROVE  state' \in States /\ note' \in Notes /\ error' \in Errors
  BY DEF SetState, Notes, Errors, NoFault

(* A failure with a diagnosis. *)
LEMMA FailureType ==
  ASSUME error \in Errors, NEW text \in Faults, SetState("Failed", text)
  PROVE  state' \in States /\ note' \in Notes /\ error' \in Errors
  BY SetStateType DEF States, Errors

(* A phase with a caption, or with no note at all. *)
LEMMA PhaseType ==
  ASSUME error \in Errors, NEW s \in States \ {"Failed"},
         NEW text \in Captions \cup NoFault, SetState(s, text)
  PROVE  state' \in States /\ note' \in Notes /\ error' \in Errors
  BY SetStateType DEF Errors

(* Counting one share keeps the ledger a ledger. *)
LEMMA CountType ==
  ASSUME stats \in Ledger, NEW field \in {"submitted", "accepted", "rejected", "stale"},
         stats' = Count(field)
  PROVE  stats' \in Ledger
  BY DEF Count, Ledger

----------------------------------------------------------------------------
(* Type correctness *)

TypeInv == TypeOK /\ IsFiniteSet(pending)

LEMMA TypeInit == Init => TypeInv
  <1> SUFFICES ASSUME Init PROVE TypeInv
    OBVIOUS
  <1>0. <<>> \in Seq(Finds)
    OBVIOUS
  <1> USE DEF Init
  <1>1. pending \subseteq Shares /\ IsFiniteSet(pending)
    BY FS_EmptySet
  <1>2. outbox \in Seq(Finds) /\ go \in Seq(Finds) /\ unanswered \subseteq Nat
    BY <1>0, Zenon
  <1>3. state \in States /\ note \in Notes /\ error \in Errors
    BY DEF States, Notes, Errors, NoFault
  <1>4. job \in Jobs /\ stats \in Ledger /\ nextId \in Nat
    BY DEF Jobs, NoJob, Xnonces, Ledger, FirstShareId
  <1>5. /\ wpc \in [Workers -> {"poll", "fetch", "mine", "wake"}]
        /\ held \in [Workers -> Finds]
    BY DEF NoFind, Finds, Xnonces
  <1> QED BY <1>1, <1>2, <1>3, <1>4, <1>5 DEF TypeInv, TypeOK, Xnonces, Labels

(* Booking a share adds a well-formed entry to a finite set. *)
LEMMA BookShareType ==
  ASSUME TypeInv, BookShare
  PROVE  /\ pending' \subseteq Shares /\ IsFiniteSet(pending')
         /\ stats' \in Ledger /\ nextId' \in Nat
  <1> USE DEF TypeInv
  <1>1. Head(go) \in Finds
    BY DEF BookShare, TypeOK
  <1>2. [id |-> nextId, found |-> Head(go), sentFor |-> job.xnonce1] \in Shares
    BY <1>1 DEF TypeOK, Shares, Jobs
  <1>3. stats \in Ledger
    BY DEF TypeOK
  <1>4. stats' \in Ledger
    BY <1>3, CountType DEF BookShare
  <1>5. IsFiniteSet(pending')
    BY FS_AddElement DEF BookShare
  <1> QED BY <1>2, <1>4, <1>5 DEF TypeOK, BookShare

(* What a response changes, whichever request it answers. *)
ResponseType ==
  /\ state' \in States /\ note' \in Notes /\ error' \in Errors
  /\ xnonce1' \in Xnonces /\ issued' \in Xnonces
  /\ authorized' \in BOOLEAN /\ fatal' \in BOOLEAN
  /\ outbox' = outbox /\ nextId' = nextId
  /\ pending' \subseteq Shares /\ IsFiniteSet(pending') /\ stats' \in Ledger

LEMMA ResponseTypes ==
  ASSUME TypeInv, NEW id, NEW verdict \in Verdicts, HandleResponse(id, verdict)
  PROVE  ResponseType
  <1> USE DEF TypeInv
  <1>0. error \in Errors /\ stats \in Ledger
    BY DEF TypeOK
  <1>1. CASE SubscribeReply(verdict)
    <2>1. state' \in States /\ note' \in Notes /\ error' \in Errors
      <3>1. CASE SetState("Authorizing", "authorizing")
        BY <3>1, <1>0, PhaseType DEF States, Captions
      <3>2. CASE SetState("Failed", "subscription refused")
        BY <3>2, <1>0, FailureType DEF Faults
      <3> QED BY <1>1, <3>1, <3>2 DEF SubscribeReply
    <2>2. xnonce1' \in Xnonces /\ issued' \in Xnonces
      BY <1>1 DEF SubscribeReply, TypeOK, Xnonces
    <2> QED BY <1>1, <2>1, <2>2 DEF SubscribeReply, TypeOK, ResponseType
  <1>2. CASE AuthorizeReply(verdict)
    <2>1. state' \in States /\ note' \in Notes /\ error' \in Errors
      <3>1. CASE SetState("Waiting", "waiting for work")
        BY <3>1, <1>0, PhaseType DEF States, Captions
      <3>2. CASE SetState("Failed", "address rejected")
        BY <3>2, <1>0, FailureType DEF Faults
      <3> QED BY <1>2, <3>1, <3>2 DEF AuthorizeReply
    <2>2. authorized' \in BOOLEAN /\ fatal' \in BOOLEAN
      BY <1>2 DEF AuthorizeReply, TypeOK
    <2> QED BY <1>2, <2>1, <2>2 DEF AuthorizeReply, TypeOK, ResponseType
  <1>3. CASE ShareReply(id, verdict)
    <2>1. IsFiniteSet(pending') /\ pending' \subseteq Shares
      BY <1>3, FS_Difference DEF ShareReply, TypeOK
    <2>2. Outcome(verdict) \in {"accepted", "stale", "rejected"}
      BY DEF Outcome, Verdicts
    <2>3. stats' \in Ledger
      BY <1>3, <1>0, <2>2, CountType DEF ShareReply
    <2> QED BY <1>3, <2>1, <2>3 DEF ShareReply, TypeOK, ResponseType
  <1> QED BY <1>1, <1>2, <1>3 DEF HandleResponse

LEMMA TypeNext == TypeInv /\ [Next]_vars => TypeInv'
  <1> SUFFICES ASSUME TypeOK, IsFiniteSet(pending), [Next]_vars
               PROVE  TypeOK' /\ IsFiniteSet(pending)'
    BY DEF TypeInv
  <1>0. error \in Errors /\ stats \in Ledger
    BY DEF TypeOK
  <1>1. CASE Dialing
    <2>1. CASE ResetSession
      <3>1. stats' \in Ledger
        <4>1. stats \in Ledger /\ Cardinality(pending) \in Nat
          BY FS_CardinalityType DEF TypeOK
        <4>2. stats' = [stats EXCEPT !.stale = @ + Cardinality(pending)]
          BY <2>1 DEF ResetSession, Unanswered
        <4> QED BY <4>1, <4>2 DEF Ledger
      <3>2. IsFiniteSet(pending') /\ pending' \subseteq Shares /\ outbox' \in Seq(Finds)
        BY <2>1, FS_EmptySet DEF ResetSession
      <3>3. job' \in Jobs /\ xnonce1' \in Xnonces
        BY <2>1 DEF ResetSession, NoJob, Jobs, Xnonces
      <3> QED BY <2>1, <3>1, <3>2, <3>3 DEF TypeOK, ResetSession, Labels
    <2>2. CASE StartResolving
      <3>1. SetState("Resolving", "resolving") /\ "resolving" \in Captions
        BY <2>2 DEF StartResolving, Captions
      <3>2. state' \in States /\ note' \in Notes /\ error' \in Errors
        BY <3>1, <1>0, PhaseType DEF States
      <3> QED BY <2>2, <3>2 DEF TypeOK, StartResolving, Labels
    <2>3. CASE ResolveFails
      <3>1. SetState("Failed", "cannot resolve") /\ "cannot resolve" \in Faults
        BY <2>3 DEF ResolveFails, Faults
      <3>2. state' \in States /\ note' \in Notes /\ error' \in Errors
        BY <3>1, <1>0, FailureType
      <3> QED BY <2>3, <3>2 DEF TypeOK, ResolveFails, Labels
    <2>4. CASE ResolveAbandoned
      BY <2>4 DEF TypeOK, ResolveAbandoned, Labels
    <2>5. CASE Resolved
      <3>1. SetState("Connecting", "connecting") /\ "connecting" \in Captions
        BY <2>5 DEF Resolved, Captions
      <3>2. state' \in States /\ note' \in Notes /\ error' \in Errors
        BY <3>1, <1>0, PhaseType DEF States
      <3> QED BY <2>5, <3>2, AddrAssumption DEF TypeOK, Resolved, Labels
    <2>6. CASE ConnectFails
      BY <2>6 DEF TypeOK, ConnectFails, Labels
    <2>7. CASE ConnectInterrupted
      <3>1. addrs' \in Nat
        BY <2>7 DEF TypeOK, ConnectInterrupted
      <3> QED BY <2>7, <3>1 DEF TypeOK, ConnectInterrupted
    <2>8. CASE Connects
      <3>1. SetState("Subscribing", "subscribing") /\ "subscribing" \in Captions
        BY <2>8 DEF Connects, Captions
      <3>2. state' \in States /\ note' \in Notes /\ error' \in Errors
        BY <3>1, <1>0, PhaseType DEF States
      <3> QED BY <2>8, <3>2 DEF TypeOK, Connects, Labels
    <2>9. CASE DialFails
      <3>1. SetState("Failed", "cannot connect") /\ "cannot connect" \in Faults
        BY <2>9 DEF DialFails, Faults
      <3>2. state' \in States /\ note' \in Notes /\ error' \in Errors
        BY <3>1, <1>0, FailureType
      <3> QED BY <2>9, <3>2 DEF TypeOK, DialFails, Labels
    <2>10. CASE DialAbandoned
      BY <2>10 DEF TypeOK, DialAbandoned, Labels
    <2>11. CASE Subscribe
      BY <2>11 DEF TypeOK, Subscribe, SubscribeId, Labels
    <2>12. CASE SubscribeFails
      <3>1. SetState("Failed", "cannot send") /\ "cannot send" \in Faults
        BY <2>12 DEF SubscribeFails, Faults
      <3>2. state' \in States /\ note' \in Notes /\ error' \in Errors
        BY <3>1, <1>0, FailureType
      <3> QED BY <2>12, <3>2 DEF TypeOK, SubscribeFails, Hangup, Labels
    <2> QED BY <1>1, <2>1, <2>2, <2>3, <2>4, <2>5, <2>6, <2>7, <2>8, <2>9, <2>10, <2>11, <2>12 DEF Dialing
  <1>2. CASE Looping \/ Reading
    <2>1. CASE LeaveLoop
      BY <2>1 DEF TypeOK, LeaveLoop, Labels
    <2>2. CASE HandshakeExpires
      <3>1. SetState("Failed", "never replied") /\ "never replied" \in Faults
        BY <2>2 DEF HandshakeExpires, Watchdog, Faults
      <3>2. state' \in States /\ note' \in Notes /\ error' \in Errors
        BY <3>1, <1>0, FailureType
      <3> QED BY <2>2, <3>2 DEF TypeOK, HandshakeExpires, Watchdog, SeenReady, Labels
    <2>3. CASE FirstJobExpires
      <3>1. SetState("Failed", "no work sent") /\ "no work sent" \in Faults
        BY <2>3 DEF FirstJobExpires, Watchdog, Faults
      <3>2. state' \in States /\ note' \in Notes /\ error' \in Errors
        BY <3>1, <1>0, FailureType
      <3> QED BY <2>3, <3>2 DEF TypeOK, FirstJobExpires, Watchdog, SeenReady, Labels
    <2>4. CASE IdleJobExpires
      <3>1. SetState("Failed", "work stopped") /\ "work stopped" \in Faults
        BY <2>4 DEF IdleJobExpires, Watchdog, Faults
      <3>2. state' \in States /\ note' \in Notes /\ error' \in Errors
        BY <3>1, <1>0, FailureType
      <3> QED BY <2>4, <3>2 DEF TypeOK, IdleJobExpires, Watchdog, SeenReady, Labels
    <2>5. CASE EnterPoll
      BY <2>5 DEF TypeOK, EnterPoll, SeenReady, Labels
    <2>6. CASE PollEnds
      BY <2>6 DEF TypeOK, PollEnds, Labels
    <2>7. CASE PollTimesOut
      BY <2>7 DEF TypeOK, PollTimesOut, PollReturns, Labels
    <2>8. CASE PollReadable
      BY <2>8 DEF TypeOK, PollReadable, PollReturns, Labels
    <2>9. CASE PoolCloses
      <3>1. SetState("Failed", "closed by pool") /\ "closed by pool" \in Faults
        BY <2>9 DEF PoolCloses, Faults
      <3>2. state' \in States /\ note' \in Notes /\ error' \in Errors
        BY <3>1, <1>0, FailureType
      <3> QED BY <2>9, <3>2 DEF TypeOK, PoolCloses, Labels
    <2>10. CASE ReadsAll
      BY <2>10 DEF TypeOK, ReadsAll, Labels
    <2> QED BY <1>2, <2>1, <2>2, <2>3, <2>4, <2>5, <2>6, <2>7, <2>8, <2>9, <2>10
            DEF Looping, Reading
  <1>3. CASE Listening
    <2>1. CASE EndBatch
      BY <2>1 DEF TypeOK, EndBatch, Labels
    <2>2. CASE MalformedStream
      <3>1. SetState("Failed", "malformed stream") /\ "malformed stream" \in Faults
        BY <2>2 DEF MalformedStream, Faults
      <3>2. state' \in States /\ note' \in Notes /\ error' \in Errors
        BY <3>1, <1>0, FailureType
      <3> QED BY <2>2, <3>2 DEF TypeOK, MalformedStream, Labels
    <2>3. CASE HandleNotify
      BY <2>3 DEF TypeOK, HandleNotify, FreshSerial, Jobs, Labels
    <2>4. CASE HandleSetTarget
      BY <2>4 DEF TypeOK, HandleSetTarget, Jobs, Labels
    <2>5. CASE PublishJob
      <3>1. state' \in States /\ note' \in Notes /\ error' \in Errors
        <4>1. CASE SetState("Ready", "")
          BY <4>1, <1>0, PhaseType DEF States, NoFault
        <4>2. CASE SetState("Waiting", "waiting for a target")
          BY <4>2, <1>0, PhaseType DEF States, Captions
        <4> QED BY <2>5, <4>1, <4>2 DEF PublishJob
      <3>2. jobSerial' \in Nat
        <4>1. jobSerial' \in {job.serial, 0}
          BY <2>5, Zenon DEF PublishJob
        <4> QED BY <4>1 DEF TypeOK, Jobs
      <3> QED BY <2>5, <3>1, <3>2 DEF TypeOK, PublishJob, Labels
    <2>6. CASE HandleReconnect
      BY <2>6 DEF TypeOK, HandleReconnect, Labels
    <2>7. CASE HandleReply
      <3>1. PICK id \in unanswered, verdict \in Verdicts : HandleResponse(id, verdict)
        BY <2>7 DEF HandleReply
      <3>2. unanswered' \subseteq Nat
        <4>1. unanswered' \subseteq unanswered \cup {AuthorizeId}
          BY <2>7 DEF HandleReply
        <4> QED BY <4>1 DEF TypeOK, AuthorizeId
      <3>3. ResponseType
        BY <3>1, ResponseTypes DEF TypeInv
      <3> QED BY <2>7, <3>1, <3>2, <3>3 DEF TypeOK, ResponseType, HandleResponse, HandleReply
    <2>8. CASE HandleRequest
      <3>1. PICK id \in 1..nextId : HandleResponse(id, "no")
        BY <2>8 DEF HandleRequest
      <3>2. ResponseType
        BY <3>1, ResponseTypes DEF TypeInv, Verdicts
      <3> QED BY <2>8, <3>1, <3>2 DEF TypeOK, ResponseType, HandleResponse, HandleRequest
    <2> QED BY <1>3, <2>1, <2>2, <2>3, <2>4, <2>5, <2>6, <2>7, <2>8 DEF Listening
  <1>4. CASE Sending
    <2>1. CASE SwapOutbox
      BY <2>1 DEF TypeOK, SwapOutbox, Labels
    <2>2. CASE DropStale
      <3>1. stats' \in Ledger
        BY <2>2, <1>0, CountType DEF DropStale
      <3>2. go' \in Seq(Finds)
        BY <2>2 DEF DropStale, TypeOK
      <3> QED BY <2>2, <3>1, <3>2 DEF TypeOK, DropStale
    <2>3. CASE SendShare
      <3>1. BookShare /\ go # <<>>
        BY <2>3 DEF SendShare, BookShare
      <3>2. unanswered' \subseteq Nat /\ go' \in Seq(Finds)
        BY <2>3, <3>1 DEF SendShare, TypeOK
      <3> QED BY <2>3, <3>1, <3>2, BookShareType DEF TypeInv, TypeOK, SendShare
    <2>4. CASE SendFails
      <3>1. state' \in States /\ note' \in Notes /\ error' \in Errors
        <4>1. SetState("Failed", "cannot send") /\ "cannot send" \in Faults
          BY <2>4 DEF SendFails, Faults
        <4> QED BY <4>1, <1>0, FailureType
      <3>2. BookShare
        BY <2>4 DEF SendFails
      <3>3. go' \in Seq(Finds) /\ unanswered' \subseteq Nat
        <4>1. go' = <<>> /\ unanswered' = {}
          BY <2>4 DEF SendFails, Hangup
        <4> QED BY <4>1
      <3>4. issued' \in Xnonces
        BY <2>4 DEF SendFails, Hangup, TypeOK
      <3> QED BY <2>4, <3>1, <3>2, <3>3, <3>4, BookShareType
              DEF TypeInv, TypeOK, SendFails, Labels, Hangup
    <2>5. CASE OutboxDone
      BY <2>5 DEF TypeOK, OutboxDone, Labels
    <2>6. CASE CloseSession
      BY <2>6 DEF TypeOK, CloseSession, Hangup, Labels
    <2> QED BY <1>4, <2>1, <2>2, <2>3, <2>4, <2>5, <2>6 DEF Sending
  <1>5. CASE Retrying
    <2>1. CASE AfterStop
      BY <2>1 DEF TypeOK, AfterStop, Labels
    <2>2. CASE GiveUp
      BY <2>2 DEF TypeOK, GiveUp, Settled, States, Labels
    <2>3. CASE PlanRetry
      BY <2>3 DEF TypeOK, PlanRetry, Settled, Labels
    <2>4. CASE NapSecond
      <3>1. state' \in States /\ note' \in Notes
        BY <2>4 DEF TypeOK, NapSecond, Why, States, Notes, Errors, NoFault, Captions
      <3>2. left' \in Nat
        BY <2>4 DEF TypeOK, NapSecond
      <3> QED BY <2>4, <3>1, <3>2 DEF TypeOK, NapSecond
    <2>5. CASE NapDone
      BY <2>5, CapAssumption DEF TypeOK, NapDone, Doubled, Labels
    <2>6. CASE AskedToStop
      BY <2>6 DEF TypeOK, AskedToStop, Labels
    <2>7. CASE ExitThread
      <3>1. state' \in States /\ note' \in Notes /\ error' \in Errors
        <4>1. CASE SetState("Disconnected", "")
          BY <4>1, <1>0, PhaseType DEF States, NoFault
        <4>2. CASE UNCHANGED shownVars
          BY <4>2 DEF TypeOK
        <4> QED BY <2>7, <4>1, <4>2 DEF ExitThread
      <3> QED BY <2>7, <3>1 DEF TypeOK, ExitThread, Labels
    <2> QED BY <1>5, <2>1, <2>2, <2>3, <2>4, <2>5, <2>6, <2>7 DEF Retrying
  <1>6. CASE StopDetach
    BY <1>6 DEF TypeOK, StopDetach
  <1>7. CASE StopSignal
    BY <1>7 DEF TypeOK, StopSignal
  <1>8. ASSUME NEW w \in Workers, Worker(w)
        PROVE  TypeOK' /\ IsFiniteSet(pending)'
    <2>1. CASE WorkerPolls(w)
      <3>1. held' \in [Workers -> Finds]
        <4>1. NoFind \in Finds
          BY DEF NoFind, Finds, Xnonces
        <4>2. held' = held \/ held' = [held EXCEPT ![w] = NoFind]
          BY <2>1 DEF WorkerPolls
        <4> QED BY <4>1, <4>2 DEF TypeOK
      <3>2. wpc' \in [Workers -> {"poll", "fetch", "mine", "wake"}]
        BY <2>1 DEF WorkerPolls, TypeOK
      <3> QED BY <2>1, <3>1, <3>2 DEF TypeOK, WorkerPolls
    <2>2. CASE WorkerFetches(w)
      <3>1. [serial |-> job.serial, xnonce1 |-> job.xnonce1] \in Finds
        BY DEF TypeOK, Jobs, Finds
      <3>2. /\ held' \in [Workers -> Finds]
            /\ wpc' \in [Workers -> {"poll", "fetch", "mine", "wake"}]
        BY <2>2, <3>1 DEF TypeOK, WorkerFetches
      <3> QED BY <2>2, <3>2 DEF TypeOK, WorkerFetches
    <2>3. CASE WorkerFindsNothing(w)
      BY <2>3 DEF TypeOK, WorkerFindsNothing
    <2>4. CASE WorkerSubmits(w)
      BY <2>4 DEF TypeOK, WorkerSubmits
    <2>5. CASE WorkerWakes(w)
      BY <2>5 DEF TypeOK, WorkerWakes
    <2> QED BY <1>8, <2>1, <2>2, <2>3, <2>4, <2>5 DEF Worker
  <1>9. CASE UNCHANGED vars
    BY <1>9 DEF TypeOK
  <1> QED
    BY <1>1, <1>2, <1>3, <1>4, <1>5, <1>6, <1>7, <1>8, <1>9
    DEF Next, ClientThread, Stop

(* The strengthened invariant, for the proofs of the other theorems. *)
LEMMA TypeAlways == Spec => []TypeInv
  BY TypeInit, TypeNext, PTL DEF Spec

(* Every variable keeps its type, over any number of sessions. *)
THEOREM TypeCorrect == Spec => []TypeOK
  <1>1. TypeInv => TypeOK
    BY DEF TypeInv
  <1> QED BY <1>1, TypeAlways, PTL

----------------------------------------------------------------------------
(* Which actions leave which part of the state alone *)

(* The actions of the client thread that touch the job, what is published of *)
(* it, or the serial.                                                         *)
WorkStep ==
    \/ ResetSession \/ StartResolving \/ HandleNotify \/ HandleSetTarget
    \/ PublishJob \/ CloseSession

(* Every other step leaves the work as it is, or unpublishes it, and neither  *)
(* enters nor leaves the two places between the lock and the store.           *)
LEMMA WorkFrame ==
  ASSUME [Next]_vars, ~WorkStep
  PROVE  /\ UNCHANGED <<job, serial, haveTarget>>
         /\ jobSerial' \in {jobSerial, 0}
         /\ pc' = pc \/ pc \notin {"publish", "reset"}
  <1>1. CASE Dialing
    BY <1>1 DEF WorkStep, Dialing, ResolveFails, ResolveAbandoned, Resolved,
       ConnectFails, ConnectInterrupted, Connects, DialFails, DialAbandoned,
       Subscribe, SubscribeFails
  <1>2. CASE Looping \/ Reading
    BY <1>2 DEF Looping, LeaveLoop, HandshakeExpires, FirstJobExpires, IdleJobExpires,
       Watchdog, EnterPoll, PollEnds, PollTimesOut, PollReadable, PollReturns,
       Reading, ReadsAll, PoolCloses
  <1>3. CASE Listening
    <2>1. CASE HandleReply \/ HandleRequest
      BY <2>1 DEF HandleReply, HandleRequest, HandleResponse
    <2> QED BY <1>3, <2>1 DEF WorkStep, Listening, EndBatch, MalformedStream,
            HandleReconnect
  <1>4. CASE Sending
    BY <1>4 DEF WorkStep, Sending, SwapOutbox, DropStale, SendShare, SendFails,
       BookShare, OutboxDone
  <1>5. CASE Retrying
    BY <1>5 DEF Retrying, AfterStop, GiveUp, PlanRetry, NapSecond, NapDone,
       AskedToStop, ExitThread
  <1>6. CASE Stop
    BY <1>6 DEF Stop, StopDetach, StopSignal
  <1>7. ASSUME NEW w \in Workers, Worker(w)
        PROVE  UNCHANGED <<job, serial, haveTarget, jobSerial, pc>>
    BY <1>7 DEF Worker, WorkerPolls, WorkerFetches, WorkerFindsNothing,
       WorkerSubmits, WorkerWakes
  <1>8. CASE UNCHANGED vars
    BY <1>8
  <1> QED BY <1>1, <1>2, <1>3, <1>4, <1>5, <1>6, <1>7, <1>8 DEF Next, ClientThread

----------------------------------------------------------------------------
(* What the miners are told to mine *)

WorkSound ==
    /\ job.valid => haveTarget /\ job.serial # 0
    /\ PublishedIsMinable

LEMMA WorkSoundNext ==
  ASSUME TypeInv, WorkSound, [Next]_vars
  PROVE  WorkSound'
  <1> USE DEF WorkSound, PublishedIsMinable
  <1>0. job \in Jobs /\ serial \in Nat /\ haveTarget \in BOOLEAN
    BY DEF TypeInv, TypeOK
  <1>1. CASE ResetSession
    BY <1>1 DEF ResetSession, NoJob
  <1>2. CASE StartResolving
    BY <1>2 DEF StartResolving
  <1>3. CASE HandleNotify
    BY <1>3, <1>0 DEF HandleNotify, FreshSerial
  <1>4. CASE HandleSetTarget
    BY <1>4, <1>0 DEF HandleSetTarget, Jobs
  <1>5. CASE PublishJob
    BY <1>5 DEF PublishJob
  <1>6. CASE CloseSession
    BY <1>6 DEF CloseSession
  <1>7. CASE ~WorkStep
    BY <1>7, WorkFrame
  <1> QED BY <1>1, <1>2, <1>3, <1>4, <1>5, <1>6, <1>7 DEF WorkStep

(* The serial the miners poll names the job at hand, and that job has a       *)
(* target: whatever order mining.notify and mining.set_target arrive in, and  *)
(* over any number of sessions, no miner is sent to work without a target.    *)
THEOREM MinersMineTheJob == Spec => []PublishedIsMinable
  <1>1. Init => WorkSound
    <2>1. Init => job = NoJob /\ jobSerial = 0
      BY DEF Init
    <2> QED BY <2>1 DEF WorkSound, PublishedIsMinable, NoJob
  <1>2. TypeInv /\ WorkSound /\ [Next]_vars => WorkSound'
    BY WorkSoundNext
  <1>3. WorkSound => PublishedIsMinable
    BY DEF WorkSound
  <1> QED BY <1>1, <1>2, <1>3, TypeAlways, PTL DEF Spec

----------------------------------------------------------------------------
(* The delay between two attempts *)

LEMMA DelayNext ==
  ASSUME TypeInv, DelayBounded, [Next]_vars
  PROVE  DelayBounded'
  <1> USE DEF DelayBounded
  <1>0. backoff \in Nat /\ left \in Nat /\ BackoffCap \in Nat \ {0}
    BY CapAssumption DEF TypeInv, TypeOK
  <1>1. CASE Dialing
    BY <1>1 DEF Dialing, ResetSession, StartResolving, ResolveFails, ResolveAbandoned,
       Resolved, ConnectFails, ConnectInterrupted, Connects, DialFails,
       DialAbandoned, Subscribe, SubscribeFails
  <1>2. CASE Looping \/ Reading
    BY <1>2 DEF Looping, LeaveLoop, HandshakeExpires, FirstJobExpires, IdleJobExpires,
       Watchdog, EnterPoll, PollEnds, PollTimesOut, PollReadable, PollReturns,
       Reading, ReadsAll, PoolCloses
  <1>3. CASE Listening
    <2>1. CASE HandleReply \/ HandleRequest
      BY <2>1 DEF HandleReply, HandleRequest, HandleResponse
    <2> QED BY <1>3, <2>1 DEF Listening, EndBatch, MalformedStream, HandleNotify,
            HandleSetTarget, PublishJob, HandleReconnect
  <1>4. CASE Sending
    BY <1>4 DEF Sending, SwapOutbox, DropStale, SendShare, SendFails, BookShare,
       OutboxDone, CloseSession
  <1>5. CASE Retrying
    <2>1. Settled < 2 * BackoffCap /\ Settled \in Nat
      BY <1>0 DEF Settled
    <2>2. Doubled < 2 * BackoffCap
      BY <1>0 DEF Doubled
    <2>3. CASE PlanRetry
      BY <2>1, <2>3 DEF PlanRetry
    <2>4. CASE NapSecond
      BY <1>0, <2>4 DEF NapSecond
    <2>5. CASE NapDone
      BY <2>2, <2>5 DEF NapDone
    <2>6. CASE GiveUp
      BY <2>1, <2>6 DEF GiveUp
    <2> QED BY <1>5, <2>3, <2>4, <2>5, <2>6
            DEF Retrying, AfterStop, AskedToStop, ExitThread
  <1>6. CASE Stop
    BY <1>6 DEF Stop, StopDetach, StopSignal
  <1>7. ASSUME NEW w \in Workers, Worker(w)
        PROVE  UNCHANGED <<backoff, left, pc, run>>
    BY <1>7 DEF Worker, WorkerPolls, WorkerFetches, WorkerFindsNothing,
       WorkerSubmits, WorkerWakes
  <1>8. CASE UNCHANGED vars
    BY <1>8
  <1> QED BY <1>1, <1>2, <1>3, <1>4, <1>5, <1>6, <1>7, <1>8 DEF Next, ClientThread

(* However often a session fails, the delay stays under twice the cap: only a *)
(* delay below the cap is doubled, and from above it goes back to the cap.    *)
THEOREM DelayStaysBounded == Spec => []DelayBounded
  <1>1. Init => DelayBounded
    <2>1. Init => backoff = 1 /\ left = 0
      BY DEF Init
    <2> QED BY <2>1, CapAssumption DEF DelayBounded
  <1>2. TypeInv /\ DelayBounded /\ [Next]_vars => DelayBounded'
    BY DelayNext
  <1> QED BY <1>1, <1>2, TypeAlways, PTL DEF Spec
----------------------------------------------------------------------------
(* The bookkeeping of shares *)

(* The actions that touch the shares in flight or the ledger. *)
BookStep ==
    \/ ResetSession \/ HandleReply \/ HandleRequest
    \/ DropStale \/ SendShare \/ SendFails

LEMMA BookFrame ==
  ASSUME [Next]_vars, ~BookStep
  PROVE  UNCHANGED <<pending, stats, nextId>>
  <1>1. CASE Dialing
    BY <1>1 DEF BookStep, Dialing, StartResolving, ResolveFails, ResolveAbandoned,
       Resolved, ConnectFails, ConnectInterrupted, Connects, DialFails,
       DialAbandoned, Subscribe, SubscribeFails
  <1>2. CASE Looping \/ Reading
    BY <1>2 DEF Looping, LeaveLoop, HandshakeExpires, FirstJobExpires, IdleJobExpires,
       Watchdog, EnterPoll, PollEnds, PollTimesOut, PollReadable, PollReturns,
       Reading, ReadsAll, PoolCloses
  <1>3. CASE Listening
    BY <1>3 DEF BookStep, Listening, EndBatch, MalformedStream, HandleNotify,
       HandleSetTarget, PublishJob, HandleReconnect
  <1>4. CASE Sending
    BY <1>4 DEF BookStep, Sending, SwapOutbox, OutboxDone, CloseSession
  <1>5. CASE Retrying
    BY <1>5 DEF Retrying, AfterStop, GiveUp, PlanRetry, NapSecond, NapDone,
       AskedToStop, ExitThread
  <1>6. CASE Stop
    BY <1>6 DEF Stop, StopDetach, StopSignal
  <1>7. ASSUME NEW w \in Workers, Worker(w)
        PROVE  UNCHANGED <<pending, stats, nextId>>
    BY <1>7 DEF Worker, WorkerPolls, WorkerFetches, WorkerFindsNothing,
       WorkerSubmits, WorkerWakes
  <1>8. CASE UNCHANGED vars
    BY <1>8
  <1> QED BY <1>1, <1>2, <1>3, <1>4, <1>5, <1>6, <1>7, <1>8 DEF Next, ClientThread

IdsFresh  == \A s \in pending : s.id < nextId
IdsUnique == \A s, t \in pending : s.id = t.id => s = t
BooksInv  == SharesAccounted /\ IdsFresh /\ IdsUnique

LEMMA LedgerNat ==
  ASSUME TypeInv
  PROVE  /\ stats.submitted \in Nat /\ stats.accepted \in Nat
         /\ stats.rejected \in Nat /\ stats.stale \in Nat
         /\ Cardinality(pending) \in Nat /\ nextId \in Nat
         /\ stats \in Ledger /\ pending \subseteq Shares
  <1>1. stats \in Ledger /\ nextId \in Nat /\ pending \subseteq Shares
    BY DEF TypeInv, TypeOK
  <1>2. Cardinality(pending) \in Nat
    BY FS_CardinalityType DEF TypeInv
  <1> QED BY <1>1, <1>2 DEF Ledger

(* A submission: one share more in flight, one more submitted, its id fresh. *)
LEMMA BooksBook ==
  ASSUME TypeInv, BooksInv, BookShare
  PROVE  BooksInv'
  <1> DEFINE new == [id |-> nextId, found |-> Head(go), sentFor |-> job.xnonce1]
  <1>1. pending' = pending \cup {new} /\ stats' = Count("submitted") /\ nextId' = nextId + 1
    BY DEF BookShare
  <1>2. new.id = nextId
    OBVIOUS
  <1> HIDE DEF new
  <1>3. nextId \in Nat /\ \A s \in pending : s.id \in Nat /\ s.id < nextId
    BY LedgerNat DEF BooksInv, IdsFresh, Shares
  <1>4. new \notin pending
    BY <1>2, <1>3
  <1>5. Cardinality(pending') = Cardinality(pending) + 1
    BY <1>1, <1>4, FS_AddElement DEF TypeInv
  <1>6. /\ stats'.submitted = stats.submitted + 1 /\ stats'.accepted = stats.accepted
        /\ stats'.rejected = stats.rejected /\ stats'.stale = stats.stale
    BY <1>1, LedgerNat DEF Count, Ledger
  <1>7. SharesAccounted'
    BY <1>5, <1>6, LedgerNat DEF BooksInv, SharesAccounted
  <1>8. IdsFresh'
    BY <1>1, <1>2, <1>3 DEF IdsFresh
  <1>9. IdsUnique'
    BY <1>1, <1>2, <1>3 DEF IdsUnique, BooksInv
  <1> QED BY <1>7, <1>8, <1>9 DEF BooksInv

(* An answer: one share less in flight, one more with an outcome, or neither. *)
LEMMA BooksAnswer ==
  ASSUME TypeInv, BooksInv, NEW id, NEW verdict \in Verdicts, ShareReply(id, verdict)
  PROVE  BooksInv'
  <1>1. pending' = pending \ Answered(id) /\ nextId' = nextId
    BY DEF ShareReply
  <1>2. IdsFresh' /\ IdsUnique'
    BY <1>1 DEF BooksInv, IdsFresh, IdsUnique
  <1>3. CASE Answered(id) = {}
    BY <1>1, <1>2, <1>3 DEF ShareReply, BooksInv, SharesAccounted
  <1>4. CASE Answered(id) # {}
    <2>1. PICK s \in pending : s.id = id
      BY <1>4 DEF Answered
    <2>2. Answered(id) = {s}
      BY <2>1 DEF Answered, BooksInv, IdsUnique
    <2>3. Cardinality(pending') = Cardinality(pending) - 1
      BY <1>1, <2>1, <2>2, FS_RemoveElement DEF TypeInv
    <2>4. stats' = Count(Outcome(verdict))
      BY <1>4 DEF ShareReply
    <2>5. Outcome(verdict) \in {"accepted", "stale", "rejected"}
      BY DEF Outcome, Verdicts
    <2>6. CASE Outcome(verdict) = "stale"
      <3>1. /\ stats'.submitted = stats.submitted /\ stats'.accepted = stats.accepted
            /\ stats'.rejected = stats.rejected /\ stats'.stale = stats.stale + 1
        BY <2>4, <2>6, LedgerNat DEF Count, Ledger
      <3>2. SharesAccounted'
        BY <2>3, <3>1, LedgerNat DEF BooksInv, SharesAccounted
      <3> QED BY <1>2, <3>2 DEF BooksInv
    <2>7. CASE Outcome(verdict) = "accepted"
      <3>1. /\ stats'.submitted = stats.submitted /\ stats'.accepted = stats.accepted + 1
            /\ stats'.rejected = stats.rejected /\ stats'.stale = stats.stale
        BY <2>4, <2>7, LedgerNat DEF Count, Ledger
      <3>2. SharesAccounted'
        BY <2>3, <3>1, LedgerNat DEF BooksInv, SharesAccounted
      <3> QED BY <1>2, <3>2 DEF BooksInv
    <2>8. CASE Outcome(verdict) = "rejected"
      <3>1. /\ stats'.submitted = stats.submitted /\ stats'.accepted = stats.accepted
            /\ stats'.rejected = stats.rejected + 1 /\ stats'.stale = stats.stale
        BY <2>4, <2>8, LedgerNat DEF Count, Ledger
      <3>2. SharesAccounted'
        BY <2>3, <3>1, LedgerNat DEF BooksInv, SharesAccounted
      <3> QED BY <1>2, <3>2 DEF BooksInv
    <2> QED BY <2>5, <2>6, <2>7, <2>8
  <1> QED BY <1>3, <1>4

LEMMA BooksResponse ==
  ASSUME TypeInv, BooksInv, NEW id, NEW verdict \in Verdicts, HandleResponse(id, verdict)
  PROVE  BooksInv'
  <1>1. CASE ShareReply(id, verdict)
    BY <1>1, BooksAnswer
  <1>2. CASE UNCHANGED <<pending, stats, nextId>>
    BY <1>2 DEF BooksInv, SharesAccounted, IdsFresh, IdsUnique
  <1> QED BY <1>1, <1>2 DEF HandleResponse, SubscribeReply, AuthorizeReply

LEMMA BooksNext ==
  ASSUME TypeInv, BooksInv, [Next]_vars
  PROVE  BooksInv'
  <1>1. CASE ResetSession
    <2>1. pending' = {} /\ Cardinality(pending') = 0 /\ nextId' = nextId
      BY <1>1, FS_EmptySet DEF ResetSession
    <2>2. /\ stats'.submitted = stats.submitted /\ stats'.accepted = stats.accepted
          /\ stats'.rejected = stats.rejected
          /\ stats'.stale = stats.stale + Cardinality(pending)
      BY <1>1, LedgerNat DEF ResetSession, Unanswered, Ledger
    <2>3. SharesAccounted'
      BY <2>1, <2>2, LedgerNat DEF BooksInv, SharesAccounted
    <2> QED BY <2>1, <2>3 DEF BooksInv, IdsFresh, IdsUnique
  <1>2. CASE HandleReply
    <2>1. PICK id \in unanswered, verdict \in Verdicts : HandleResponse(id, verdict)
      BY <1>2 DEF HandleReply
    <2> QED BY <2>1, BooksResponse
  <1>3. CASE HandleRequest
    <2>1. PICK id \in 1..nextId : HandleResponse(id, "no")
      BY <1>3 DEF HandleRequest
    <2> QED BY <2>1, BooksResponse DEF Verdicts
  <1>4. CASE DropStale
    <2>1. pending' = pending /\ nextId' = nextId /\ stats' = Count("stale")
      BY <1>4 DEF DropStale
    <2>2. /\ stats'.submitted = stats.submitted /\ stats'.accepted = stats.accepted
          /\ stats'.rejected = stats.rejected /\ stats'.stale = stats.stale + 1
      BY <2>1, LedgerNat DEF Count, Ledger
    <2> QED BY <2>1, <2>2, LedgerNat DEF BooksInv, SharesAccounted, IdsFresh, IdsUnique
  <1>5. CASE SendShare
    BY <1>5, BooksBook DEF SendShare
  <1>6. CASE SendFails
    BY <1>6, BooksBook DEF SendFails
  <1>7. CASE ~BookStep
    BY <1>7, BookFrame DEF BooksInv, SharesAccounted, IdsFresh, IdsUnique
  <1> QED BY <1>1, <1>2, <1>3, <1>4, <1>5, <1>6, <1>7 DEF BookStep

(* No share the client says it submitted is lost and none is counted twice,   *)
(* over any number of submissions, answers, duplicates and reconnects.        *)
THEOREM BooksBalance == Spec => []SharesAccounted
  <1>1. Init => BooksInv
    <2>1. Init => pending = {}
      BY DEF Init
    <2>2. Init => stats = [submitted |-> 0, accepted |-> 0, rejected |-> 0, stale |-> 0]
      BY DEF Init
    <2> QED BY <2>1, <2>2, FS_EmptySet DEF BooksInv, SharesAccounted, IdsFresh, IdsUnique
  <1>2. TypeInv /\ BooksInv /\ [Next]_vars => BooksInv'
    BY BooksNext
  <1>3. BooksInv => SharesAccounted
    BY DEF BooksInv
  <1> QED BY <1>1, <1>2, <1>3, TypeAlways, PTL DEF Spec
----------------------------------------------------------------------------
(* The job a share is submitted for *)

(* What makes the comparison of serials in session sound: a find is of a job  *)
(* already issued, and of the job at hand when the serials are equal.         *)
Known(find) ==
    /\ find.serial <= serial
    /\ find.serial # 0 /\ find.serial = job.serial => find.xnonce1 = job.xnonce1

FindsKnown ==
    /\ \A i \in 1..Len(outbox) : Known(outbox[i])
    /\ \A i \in 1..Len(go) : Known(go[i])
    /\ \A w \in Workers : Known(held[w])

SendInv == job.serial <= serial /\ FindsKnown /\ SentForItsJob

(* The actions that touch a find, the job, or the shares in flight. *)
FindStep(w) == WorkerPolls(w) \/ WorkerFetches(w) \/ WorkerSubmits(w)
SendStep ==
    \/ BookStep \/ HandleNotify \/ HandleSetTarget \/ SwapOutbox
    \/ \E w \in Workers : FindStep(w)

LEMMA SendFrame ==
  ASSUME [Next]_vars, ~SendStep
  PROVE  UNCHANGED <<job, serial, outbox, go, held, pending>>
  <1>1. CASE Dialing
    BY <1>1 DEF SendStep, BookStep, Dialing, StartResolving, ResolveFails,
       ResolveAbandoned, Resolved, ConnectFails, ConnectInterrupted, Connects,
       DialFails, DialAbandoned, Subscribe, SubscribeFails
  <1>2. CASE Looping \/ Reading
    BY <1>2 DEF Looping, LeaveLoop, HandshakeExpires, FirstJobExpires, IdleJobExpires,
       Watchdog, EnterPoll, PollEnds, PollTimesOut, PollReadable, PollReturns,
       Reading, ReadsAll, PoolCloses
  <1>3. CASE Listening
    BY <1>3 DEF SendStep, BookStep, Listening, EndBatch, MalformedStream, PublishJob,
       HandleReconnect
  <1>4. CASE Sending
    BY <1>4 DEF SendStep, BookStep, Sending, OutboxDone, CloseSession
  <1>5. CASE Retrying
    BY <1>5 DEF Retrying, AfterStop, GiveUp, PlanRetry, NapSecond, NapDone,
       AskedToStop, ExitThread
  <1>6. CASE Stop
    BY <1>6 DEF Stop, StopDetach, StopSignal
  <1>7. ASSUME NEW w \in Workers, Worker(w)
        PROVE  UNCHANGED <<job, serial, outbox, go, held, pending>>
    BY <1>7 DEF SendStep, FindStep, Worker, WorkerFindsNothing, WorkerWakes
  <1>8. CASE UNCHANGED vars
    BY <1>8
  <1> QED BY <1>1, <1>2, <1>3, <1>4, <1>5, <1>6, <1>7, <1>8 DEF Next, ClientThread

LEMMA SendTypes ==
  ASSUME TypeInv
  PROVE  /\ job \in Jobs /\ job.serial \in Nat /\ serial \in Nat
         /\ outbox \in Seq(Finds) /\ go \in Seq(Finds) /\ held \in [Workers -> Finds]
         /\ \A find \in Finds : find.serial \in Nat
  BY DEF TypeInv, TypeOK, Jobs, Finds

(* The head of the batch, if it is of the job at hand, was found on that job. *)
LEMMA SendBook ==
  ASSUME TypeInv, WorkSound, SendInv, BookShare
  PROVE  SentForItsJob'
  <1>1. go # <<>> /\ go \in Seq(Finds) /\ Len(go) \in Nat
    BY SendTypes DEF BookShare
  <1>2. 1 \in 1..Len(go) /\ Head(go) = go[1]
    BY <1>1
  <1>3. Known(Head(go))
    BY <1>2 DEF SendInv, FindsKnown
  <1>4. Head(go).xnonce1 = job.xnonce1
    BY <1>3 DEF BookShare, StillCurrent, Known, WorkSound
  <1>5. pending' = pending \cup
          {[id |-> nextId, found |-> Head(go), sentFor |-> job.xnonce1]}
    BY DEF BookShare
  <1> QED BY <1>4, <1>5 DEF SendInv, SentForItsJob

LEMMA SendNext ==
  ASSUME TypeInv, WorkSound, SendInv, [Next]_vars
  PROVE  SendInv'
  <1>0. /\ job.serial <= serial /\ FindsKnown /\ SentForItsJob
        /\ \A i \in 1..Len(outbox) : Known(outbox[i])
        /\ \A i \in 1..Len(go) : Known(go[i])
        /\ \A w \in Workers : Known(held[w])
    BY DEF SendInv, FindsKnown
  <1>1. CASE ResetSession
    <2>1. job'.serial = 0 /\ serial' = serial /\ outbox' = <<>> /\ go' = go
          /\ held' = held /\ pending' = {}
      BY <1>1 DEF ResetSession, NoJob
    <2>2. FindsKnown'
      BY <1>0, <2>1 DEF FindsKnown, Known
    <2> QED BY <2>1, <2>2, SendTypes DEF SendInv, SentForItsJob
  <1>2. CASE HandleNotify
    <2>1. /\ job'.serial = serial + 1 /\ serial' = serial + 1
          /\ UNCHANGED <<outbox, go, held, pending>>
      BY <1>2 DEF HandleNotify, FreshSerial
    <2>2. \A find \in Finds : Known(find) => Known(find)'
      BY <2>1, SendTypes DEF Known
    <2>3. FindsKnown'
      <3>1. \A i \in 1..Len(outbox) : outbox[i] \in Finds
        BY SendTypes
      <3>2. \A i \in 1..Len(go) : go[i] \in Finds
        BY SendTypes
      <3>3. \A w \in Workers : held[w] \in Finds
        BY SendTypes
      <3> QED BY <1>0, <2>1, <2>2, <3>1, <3>2, <3>3 DEF FindsKnown, Known
    <2> QED BY <1>0, <2>1, <2>3, SendTypes DEF SendInv, SentForItsJob
  <1>3. CASE HandleSetTarget
    <2>1. /\ job'.serial = job.serial /\ job'.xnonce1 = job.xnonce1 /\ serial' = serial
          /\ UNCHANGED <<outbox, go, held, pending>>
      BY <1>3, SendTypes DEF HandleSetTarget, Jobs
    <2> QED BY <1>0, <2>1 DEF SendInv, FindsKnown, Known, SentForItsJob
  <1>4. CASE HandleReply \/ HandleRequest
    <2>1. pending' \subseteq pending /\ UNCHANGED <<job, serial, outbox, go, held>>
      BY <1>4 DEF HandleReply, HandleRequest, HandleResponse, SubscribeReply,
         AuthorizeReply, ShareReply
    <2> QED BY <1>0, <2>1 DEF SendInv, FindsKnown, Known, SentForItsJob
  <1>5. CASE SwapOutbox
    <2>1. go' = outbox /\ outbox' = <<>> /\ UNCHANGED <<job, serial, held, pending>>
      BY <1>5 DEF SwapOutbox
    <2> QED BY <1>0, <2>1 DEF SendInv, FindsKnown, Known, SentForItsJob
  <1>6. CASE go # <<>> /\ go' = Tail(go) /\ UNCHANGED <<job, serial, outbox, held>>
             /\ SentForItsJob'
    <2>1. go \in Seq(Finds)
      BY SendTypes
    <2>2. \A i \in 1..Len(go') : i + 1 \in 1..Len(go) /\ go'[i] = go[i + 1]
      BY <1>6, <2>1
    <2>3. \A i \in 1..Len(go') : Known(go'[i])
      BY <1>0, <2>2
    <2> QED BY <1>0, <1>6, <2>3 DEF SendInv, FindsKnown, Known
  <1>7. CASE DropStale
    BY <1>0, <1>6, <1>7 DEF DropStale, SentForItsJob
  <1>8. CASE SendShare
    <2>1. SentForItsJob'
      BY <1>8, SendBook DEF SendShare
    <2>2. go # <<>>
      BY <1>8 DEF SendShare, BookShare
    <2> QED BY <1>6, <1>8, <2>1, <2>2 DEF SendShare
  <1>9. CASE SendFails
    <2>1. SentForItsJob'
      BY <1>9, SendBook DEF SendFails
    <2>2. go' = <<>> /\ UNCHANGED <<job, serial, outbox, held>>
      BY <1>9 DEF SendFails
    <2> QED BY <1>0, <2>1, <2>2 DEF SendInv, FindsKnown, Known
  <1>10. ASSUME NEW w \in Workers, FindStep(w)
         PROVE  SendInv'
    <2>1. UNCHANGED <<job, serial, go, pending>>
      BY <1>10 DEF FindStep, WorkerPolls, WorkerFetches, WorkerSubmits
    <2>2. \A v \in Workers : Known(held'[v])
      <3>1. CASE held' = held
        BY <1>0, <3>1
      <3>2. ASSUME NEW find \in Finds, Known(find), held' = [held EXCEPT ![w] = find]
            PROVE  \A v \in Workers : Known(held'[v])
        BY <1>0, <3>2, SendTypes
      <3>3. Known(NoFind) /\ NoFind \in Finds
        BY SendTypes DEF Known, NoFind, Finds, Xnonces
      <3>4. DEFINE current == [serial |-> job.serial, xnonce1 |-> job.xnonce1]
      <3>5. Known(current) /\ current \in Finds
        BY <1>0, SendTypes DEF Known, Finds, Jobs
      <3>6. \/ held' = held \/ held' = [held EXCEPT ![w] = NoFind]
            \/ held' = [held EXCEPT ![w] = current]
        BY <1>10 DEF FindStep, WorkerPolls, WorkerFetches, WorkerSubmits
      <3> HIDE DEF current
      <3> QED BY <3>1, <3>2, <3>3, <3>5, <3>6
    <2>3. \A i \in 1..Len(outbox') : Known(outbox'[i])
      <3>1. CASE outbox' = outbox
        BY <1>0, <3>1
      <3>2. CASE outbox' = Append(outbox, held[w])
        <4>1. outbox \in Seq(Finds) /\ held[w] \in Finds
          BY SendTypes
        <4>2. \A i \in 1..Len(outbox') : \/ i \in 1..Len(outbox) /\ outbox'[i] = outbox[i]
                                        \/ outbox'[i] = held[w]
          BY <3>2, <4>1
        <4> QED BY <1>0, <4>2
      <3> QED BY <1>10, <3>1, <3>2 DEF FindStep, WorkerPolls, WorkerFetches, WorkerSubmits
    <2> QED BY <1>0, <2>1, <2>2, <2>3 DEF SendInv, FindsKnown, Known, SentForItsJob
  <1>11. CASE ~SendStep
    BY <1>0, <1>11, SendFrame DEF SendInv, FindsKnown, Known, SentForItsJob
  <1> QED BY <1>1, <1>2, <1>3, <1>4, <1>5, <1>7, <1>8, <1>9, <1>10, <1>11
          DEF SendStep, BookStep

(* A share reaches the pool only for the job its miner solved: the serial     *)
(* compared under the lock is enough, across sessions and across the window   *)
(* between the lock and the store, however late the miner submits it.         *)
THEOREM SharesMatchTheirJob == Spec => []SentForItsJob
  <1>1. Init => WorkSound /\ SendInv
    <2>1. Init => job = NoJob /\ serial = 0 /\ jobSerial = 0
      BY DEF Init
    <2>2. Init => outbox = <<>> /\ go = <<>> /\ pending = {}
      BY DEF Init
    <2>3. Init => held = [w \in Workers |-> NoFind]
      BY DEF Init
    <2>4. Init => FindsKnown
      BY <2>1, <2>2, <2>3 DEF FindsKnown, Known, NoFind
    <2> QED BY <2>1, <2>2, <2>4
            DEF WorkSound, PublishedIsMinable, SendInv, SentForItsJob, NoJob
  <1>2. TypeInv /\ WorkSound /\ SendInv /\ [Next]_vars => WorkSound' /\ SendInv'
    BY WorkSoundNext, SendNext
  <1>3. SendInv => SentForItsJob
    BY DEF SendInv
  <1> QED BY <1>1, <1>2, <1>3, TypeAlways, PTL DEF Spec
----------------------------------------------------------------------------
(* What a rejected address leads to *)

(* The places from which the thread can end without another dial. *)
PastTheDial == {"read", "lines", "publish", "swap", "send", "loop", "poll", "close",
                "ended", "exit", "done"}

(* fatal is set while a line is handled, and only there. *)
LEMMA FatalIsSetInLines ==
  ASSUME [Next]_vars
  PROVE  fatal' = fatal \/ pc' = "lines"
  <1>1. CASE Dialing
    BY <1>1 DEF Dialing, ResetSession, StartResolving, ResolveFails, ResolveAbandoned,
       Resolved, ConnectFails, ConnectInterrupted, Connects, DialFails,
       DialAbandoned, Subscribe, SubscribeFails, Hangup
  <1>2. CASE Looping \/ Reading
    BY <1>2 DEF Looping, LeaveLoop, HandshakeExpires, FirstJobExpires, IdleJobExpires,
       Watchdog, EnterPoll, PollEnds, PollTimesOut, PollReadable, PollReturns,
       Reading, ReadsAll, PoolCloses
  <1>3. CASE Listening
    <2>1. CASE HandleReply \/ HandleRequest
      BY <2>1 DEF HandleReply, HandleRequest, HandleResponse
    <2> QED BY <1>3, <2>1 DEF Listening, EndBatch, MalformedStream, HandleNotify,
            HandleSetTarget, PublishJob, HandleReconnect
  <1>4. CASE Sending
    BY <1>4 DEF Sending, SwapOutbox, DropStale, SendShare, SendFails, BookShare,
       OutboxDone, CloseSession, Hangup
  <1>5. CASE Retrying
    BY <1>5 DEF Retrying, AfterStop, GiveUp, PlanRetry, NapSecond, NapDone,
       AskedToStop, ExitThread
  <1>6. CASE Stop
    BY <1>6 DEF Stop, StopDetach, StopSignal
  <1>7. ASSUME NEW w \in Workers, Worker(w)
        PROVE  UNCHANGED <<fatal, pc, connected>>
    BY <1>7 DEF Worker, WorkerPolls, WorkerFetches, WorkerFindsNothing,
       WorkerSubmits, WorkerWakes
  <1>8. CASE UNCHANGED vars
    BY <1>8
  <1> QED BY <1>1, <1>2, <1>3, <1>4, <1>5, <1>6, <1>7, <1>8 DEF Next, ClientThread

(* With fatal set, no step goes back to the dial. *)
LEMMA FatalStaysPast ==
  ASSUME fatal, pc \in PastTheDial, [Next]_vars
  PROVE  pc' \in PastTheDial /\ (connected' = connected \/ connected' = FALSE)
  <1> USE DEF PastTheDial
  <1>1. CASE Dialing
    BY <1>1 DEF Dialing, ResetSession, StartResolving, ResolveFails, ResolveAbandoned,
       Resolved, ConnectFails, ConnectInterrupted, Connects, DialFails,
       DialAbandoned, Subscribe, SubscribeFails, Hangup
  <1>2. CASE Looping \/ Reading
    BY <1>2 DEF Looping, LeaveLoop, HandshakeExpires, FirstJobExpires, IdleJobExpires,
       Watchdog, EnterPoll, PollEnds, PollTimesOut, PollReadable, PollReturns,
       Reading, ReadsAll, PoolCloses
  <1>3. CASE Listening
    <2>1. CASE HandleReply \/ HandleRequest
      BY <2>1 DEF HandleReply, HandleRequest, HandleResponse
    <2> QED BY <1>3, <2>1 DEF Listening, EndBatch, MalformedStream, HandleNotify,
            HandleSetTarget, PublishJob, HandleReconnect
  <1>4. CASE Sending
    BY <1>4 DEF Sending, SwapOutbox, DropStale, SendShare, SendFails, BookShare,
       OutboxDone, CloseSession, Hangup
  <1>5. CASE Retrying
    BY <1>5 DEF Retrying, AfterStop, GiveUp, PlanRetry, NapSecond, NapDone,
       AskedToStop, ExitThread
  <1>6. CASE Stop
    BY <1>6 DEF Stop, StopDetach, StopSignal
  <1>7. ASSUME NEW w \in Workers, Worker(w)
        PROVE  UNCHANGED <<fatal, pc, connected>>
    BY <1>7 DEF Worker, WorkerPolls, WorkerFetches, WorkerFindsNothing,
       WorkerSubmits, WorkerWakes
  <1>8. CASE UNCHANGED vars
    BY <1>8
  <1> QED BY <1>1, <1>2, <1>3, <1>4, <1>5, <1>6, <1>7, <1>8 DEF Next, ClientThread

(* Once fatal is set the thread is past the dial, for good. *)
OnTheWayOut == fatal => pc \in PastTheDial

(* An address the pool rejected is never offered to a pool again: no later    *)
(* step of the thread opens a connection.                                     *)
THEOREM RejectedStaysDown == Spec => RejectionIsFinal
  <1>1. Init => OnTheWayOut
    BY DEF Init, OnTheWayOut
  <1>2. OnTheWayOut /\ [Next]_vars => OnTheWayOut'
    BY FatalIsSetInLines, FatalStaysPast DEF OnTheWayOut, PastTheDial
  <1>3. OnTheWayOut /\ [Next]_vars => [fatal => (connected' => connected)]_vars
    BY FatalStaysPast DEF OnTheWayOut
  <1> QED BY <1>1, <1>2, <1>3, PTL DEF Spec, RejectionIsFinal
----------------------------------------------------------------------------
(* What is shown as Ready *)

LEMMA ReadyNext ==
  ASSUME TypeInv, WorkSound, ReadyHasWork, [Next]_vars
  PROVE  ReadyHasWork'
  <1> USE DEF ReadyHasWork, SetState
  <1>0. job \in Jobs /\ serial \in Nat /\ haveTarget \in BOOLEAN
    BY DEF TypeInv, TypeOK
  <1>1. CASE Dialing
    BY <1>1 DEF Dialing, ResetSession, StartResolving, ResolveFails, ResolveAbandoned,
       Resolved, ConnectFails, ConnectInterrupted, Connects, DialFails,
       DialAbandoned, Subscribe, SubscribeFails
  <1>2. CASE Looping \/ Reading
    BY <1>2 DEF Looping, LeaveLoop, HandshakeExpires, FirstJobExpires, IdleJobExpires,
       Watchdog, EnterPoll, PollEnds, PollTimesOut, PollReadable, PollReturns,
       Reading, ReadsAll, PoolCloses
  <1>3. CASE Listening
    <2>1. CASE HandleReply \/ HandleRequest
      BY <2>1 DEF HandleReply, HandleRequest, HandleResponse, SubscribeReply,
         AuthorizeReply, ShareReply
    <2>2. CASE HandleNotify
      BY <2>2, <1>0 DEF HandleNotify, FreshSerial
    <2>3. CASE HandleSetTarget
      BY <2>3, <1>0 DEF HandleSetTarget, Jobs
    <2>4. CASE PublishJob
      BY <2>4 DEF PublishJob, WorkSound
    <2> QED BY <1>3, <2>1, <2>2, <2>3, <2>4
            DEF Listening, EndBatch, MalformedStream, HandleReconnect
  <1>4. CASE Sending
    BY <1>4 DEF Sending, SwapOutbox, DropStale, SendShare, SendFails, BookShare,
       OutboxDone, CloseSession
  <1>5. CASE Retrying
    BY <1>5 DEF Retrying, AfterStop, GiveUp, PlanRetry, NapSecond, NapDone,
       AskedToStop, ExitThread
  <1>6. CASE Stop
    BY <1>6 DEF Stop, StopDetach, StopSignal
  <1>7. ASSUME NEW w \in Workers, Worker(w)
        PROVE  UNCHANGED <<state, pc, job, haveTarget>>
    BY <1>7 DEF Worker, WorkerPolls, WorkerFetches, WorkerFindsNothing,
       WorkerSubmits, WorkerWakes
  <1>8. CASE UNCHANGED vars
    BY <1>8
  <1> QED BY <1>1, <1>2, <1>3, <1>4, <1>5, <1>6, <1>7, <1>8 DEF Next, ClientThread

(* While a session runs, Ready on the screen means a job with a target: no    *)
(* order of lines, no reply and no second job shows it too early or too long. *)
THEOREM ReadyIsTrue == Spec => []ReadyHasWork
  <1>1. Init => WorkSound /\ ReadyHasWork
    <2>1. Init => job = NoJob /\ jobSerial = 0 /\ state = "Disconnected"
      BY DEF Init
    <2> QED BY <2>1 DEF WorkSound, PublishedIsMinable, NoJob, ReadyHasWork
  <1>2. TypeInv /\ WorkSound /\ ReadyHasWork /\ [Next]_vars => WorkSound' /\ ReadyHasWork'
    BY WorkSoundNext, ReadyNext
  <1> QED BY <1>1, <1>2, TypeAlways, PTL DEF Spec

----------------------------------------------------------------------------
(* What a session starts with *)

DialPlaces == {"reset", "resolve", "connect", "subscribe"}
SessionPlaces == {"subscribe", "loop", "poll", "read", "lines", "publish", "swap", "send",
                  "close"}

(* Until the subscription is sent nothing of the last session is left, and    *)
(* the socket is open only within a session.                                  *)
Places ==
    /\ pc \in DialPlaces => job = NoJob /\ xnonce1 = NoExtranonce /\ pending = {}
    /\ connected => pc \in SessionPlaces

LEMMA PlacesNext ==
  ASSUME Places, [Next]_vars
  PROVE  Places'
  <1> USE DEF Places, DialPlaces, SessionPlaces, Hangup
  <1>1. CASE Dialing
    <2>1. CASE ResetSession
      <3>1. pc = "top" /\ UNCHANGED connected
            /\ job' = NoJob /\ xnonce1' = NoExtranonce /\ pending' = {}
        BY <2>1 DEF ResetSession
      <3>2. ~connected
        BY <3>1
      <3> QED BY <3>1, <3>2
    <2>2. CASE Connects
      BY <2>2 DEF Connects
    <2>3. CASE Subscribe
      BY <2>3 DEF Subscribe
    <2>4. CASE SubscribeFails
      BY <2>4 DEF SubscribeFails
    <2>5. CASE ~(ResetSession \/ Connects \/ Subscribe \/ SubscribeFails)
      <3>1. pc \in {"reset", "resolve", "connect"} /\ pc' \in {"resolve", "connect", "ended"}
            /\ UNCHANGED <<connected, job, xnonce1, pending>>
        BY <1>1, <2>5 DEF Dialing, StartResolving, ResolveFails, ResolveAbandoned,
           Resolved, ConnectFails, ConnectInterrupted, DialFails, DialAbandoned
      <3>2. ~connected
        BY <3>1
      <3> QED BY <3>1, <3>2
    <2> QED BY <2>1, <2>2, <2>3, <2>4, <2>5
  <1>2. CASE Looping \/ Reading
    BY <1>2 DEF Looping, LeaveLoop, HandshakeExpires, FirstJobExpires, IdleJobExpires,
       Watchdog, EnterPoll, PollEnds, PollTimesOut, PollReadable, PollReturns,
       Reading, ReadsAll, PoolCloses
  <1>3. CASE Listening
    <2>1. CASE HandleReply \/ HandleRequest
      <3>1. pc = "lines" /\ UNCHANGED <<pc, connected>>
        BY <2>1 DEF HandleReply, HandleRequest, HandleResponse
      <3> QED BY <3>1
    <2> QED BY <1>3, <2>1 DEF Listening, EndBatch, MalformedStream, HandleNotify,
            HandleSetTarget, PublishJob, HandleReconnect
  <1>4. CASE Sending
    BY <1>4 DEF Sending, SwapOutbox, DropStale, SendShare, SendFails, BookShare,
       OutboxDone, CloseSession
  <1>5. CASE Retrying
    <2>1. /\ pc \in {"ended", "nap", "top", "exit"} /\ pc' \in {"nap", "top", "exit", "done"}
          /\ UNCHANGED connected
      BY <1>5 DEF Retrying, AfterStop, GiveUp, PlanRetry, NapSecond, NapDone,
         AskedToStop, ExitThread
    <2>2. ~connected
      BY <2>1
    <2> QED BY <2>1, <2>2
  <1>6. CASE Stop
    BY <1>6 DEF Stop, StopDetach, StopSignal
  <1>7. ASSUME NEW w \in Workers, Worker(w)
        PROVE  UNCHANGED <<pc, job, xnonce1, pending, connected>>
    BY <1>7 DEF Worker, WorkerPolls, WorkerFetches, WorkerFindsNothing,
       WorkerSubmits, WorkerWakes
  <1>8. CASE UNCHANGED vars
    BY <1>8
  <1> QED BY <1>1, <1>2, <1>3, <1>4, <1>5, <1>6, <1>7, <1>8 DEF Next, ClientThread

LEMMA PlacesAlways == Spec => []Places
  <1>1. Init => Places
    BY DEF Init, Places, DialPlaces
  <1> QED BY <1>1, PlacesNext, PTL DEF Spec

----------------------------------------------------------------------------
(* Wake-ups *)

LEMMA WakeNext ==
  ASSUME TypeInv, Places, NoShareOversleeps, [Next]_vars
  PROVE  NoShareOversleeps'
  <1> USE DEF NoShareOversleeps, StillCurrent
  <1>0. outbox \in Seq(Finds) /\ Len(outbox) \in Nat /\ held \in [Workers -> Finds]
        /\ wpc \in [Workers -> {"poll", "fetch", "mine", "wake"}]
    BY DEF TypeInv, TypeOK
  <1>1. CASE Dialing
    <2>1. CASE Subscribe
      BY <2>1 DEF Subscribe, Places, DialPlaces, NoJob
    <2> QED BY <1>1, <2>1 DEF Dialing, ResetSession, StartResolving, ResolveFails,
       ResolveAbandoned, Resolved, ConnectFails, ConnectInterrupted, Connects, DialFails,
       DialAbandoned, SubscribeFails
  <1>2. CASE Looping \/ Reading
    <2>1. CASE EnterPoll
      BY <2>1 DEF EnterPoll
    <2>2. CASE ~EnterPoll
      <3>1. pc' \in {"close", "swap", "read", "lines"}
        BY <1>2, <2>2 DEF Looping, LeaveLoop, HandshakeExpires, FirstJobExpires,
           IdleJobExpires, Watchdog, PollEnds, PollTimesOut, PollReadable, PollReturns,
           Reading, ReadsAll, PoolCloses
      <3> QED BY <3>1
    <2> QED BY <2>1, <2>2
  <1>3. CASE Listening
    <2>1. CASE HandleReply \/ HandleRequest
      <3>1. pc = "lines" /\ UNCHANGED pc
        BY <2>1 DEF HandleReply, HandleRequest, HandleResponse
      <3> QED BY <3>1
    <2> QED BY <1>3, <2>1 DEF Listening, EndBatch, MalformedStream, HandleNotify,
            HandleSetTarget, PublishJob, HandleReconnect
  <1>4. CASE Sending
    <2>1. CASE SwapOutbox
      <3>1. outbox' = <<>>
        BY <2>1 DEF SwapOutbox
      <3> QED BY <3>1
    <2>2. CASE DropStale \/ SendShare \/ OutboxDone
      <3>1. pc = "send" /\ UNCHANGED <<wake, outbox, job, wpc>>
        BY <2>2 DEF DropStale, SendShare, BookShare, OutboxDone
      <3> QED BY <3>1
    <2>3. CASE SendFails \/ CloseSession
      <3>1. pc' = "ended"
        BY <2>3 DEF SendFails, CloseSession
      <3> QED BY <3>1
    <2> QED BY <1>4, <2>1, <2>2, <2>3 DEF Sending
  <1>5. CASE Retrying
    BY <1>5 DEF Retrying, AfterStop, GiveUp, PlanRetry, NapSecond, NapDone,
       AskedToStop, ExitThread
  <1>6. CASE Stop
    BY <1>6 DEF Stop, StopDetach, StopSignal
  <1>7. ASSUME NEW w \in Workers, Worker(w)
        PROVE  NoShareOversleeps'
    <2>1. UNCHANGED <<pc, job>>
      BY <1>7 DEF Worker, WorkerPolls, WorkerFetches, WorkerFindsNothing,
         WorkerSubmits, WorkerWakes
    <2>2. CASE WorkerSubmits(w)
      <3>1. wpc'[w] = "wake"
        BY <1>0, <2>2 DEF WorkerSubmits
      <3> QED BY <3>1
    <2>3. CASE WorkerWakes(w)
      BY <2>3 DEF WorkerWakes
    <2>4. CASE WorkerPolls(w) \/ WorkerFetches(w) \/ WorkerFindsNothing(w)
      <3>1. UNCHANGED <<wake, outbox>>
        BY <2>4 DEF WorkerPolls, WorkerFetches, WorkerFindsNothing
      <3>2. wpc[w] # "wake" /\ \A v \in Workers \ {w} : wpc'[v] = wpc[v]
        BY <1>0, <2>4 DEF WorkerPolls, WorkerFetches, WorkerFindsNothing
      <3>3. \A v \in Workers : wpc[v] = "wake" => wpc'[v] = "wake"
        BY <3>2
      <3> QED BY <2>1, <3>1, <3>3
    <2> QED BY <1>7, <2>2, <2>3, <2>4 DEF Worker
  <1>8. CASE UNCHANGED vars
    BY <1>8
  <1> QED BY <1>1, <1>2, <1>3, <1>4, <1>5, <1>6, <1>7, <1>8 DEF Next, ClientThread

(* A queued share of the job at hand never waits for the poll to time out: a  *)
(* wake is in the pipe or on its way, for any number of miners.               *)
THEOREM NobodyOversleeps == Spec => []NoShareOversleeps
  <1>1. Init => NoShareOversleeps
    BY DEF Init, NoShareOversleeps
  <1>2. TypeInv /\ Places /\ NoShareOversleeps /\ [Next]_vars => NoShareOversleeps'
    BY WakeNext
  <1> QED BY <1>1, <1>2, TypeAlways, PlacesAlways, PTL DEF Spec

----------------------------------------------------------------------------
(* What the pool owes *)

(* Requests of a share start at id 4, so no share has the id of a handshake. *)
IdsApart == nextId >= FirstShareId /\ \A s \in pending : s.id >= FirstShareId

Owed == unanswered \ {SubscribeId, AuthorizeId}
OwedFor(shares) == {s.id : s \in shares}
OwedInv == ~PoolAsks /\ connected => OwedFor(pending) = Owed

(* The actions that touch what is owed, the extranonce or the job of a         *)
(* session that is open.                                                       *)
OpenStep ==
    \/ BookStep \/ Connects \/ Subscribe \/ SubscribeFails \/ CloseSession
    \/ HandleNotify \/ HandleSetTarget

LEMMA OpenFrame ==
  ASSUME [Next]_vars, ~OpenStep
  PROVE  UNCHANGED <<pending, nextId, unanswered, connected, xnonce1, job>>
  <1>1. CASE Dialing
    BY <1>1 DEF OpenStep, BookStep, Dialing, StartResolving, ResolveFails,
       ResolveAbandoned, Resolved, ConnectFails, ConnectInterrupted, DialFails,
       DialAbandoned
  <1>2. CASE Looping \/ Reading
    BY <1>2 DEF Looping, LeaveLoop, HandshakeExpires, FirstJobExpires, IdleJobExpires,
       Watchdog, EnterPoll, PollEnds, PollTimesOut, PollReadable, PollReturns,
       Reading, ReadsAll, PoolCloses
  <1>3. CASE Listening
    BY <1>3 DEF OpenStep, BookStep, Listening, EndBatch, MalformedStream, PublishJob,
       HandleReconnect
  <1>4. CASE Sending
    BY <1>4 DEF OpenStep, BookStep, Sending, SwapOutbox, OutboxDone
  <1>5. CASE Retrying
    BY <1>5 DEF Retrying, AfterStop, GiveUp, PlanRetry, NapSecond, NapDone,
       AskedToStop, ExitThread
  <1>6. CASE Stop
    BY <1>6 DEF Stop, StopDetach, StopSignal
  <1>7. ASSUME NEW w \in Workers, Worker(w)
        PROVE  UNCHANGED <<pending, nextId, unanswered, connected, xnonce1, job>>
    BY <1>7 DEF Worker, WorkerPolls, WorkerFetches, WorkerFindsNothing,
       WorkerSubmits, WorkerWakes
  <1>8. CASE UNCHANGED vars
    BY <1>8
  <1> QED BY <1>1, <1>2, <1>3, <1>4, <1>5, <1>6, <1>7, <1>8 DEF Next, ClientThread

LEMMA IdsApartNext ==
  ASSUME TypeInv, IdsApart, [Next]_vars
  PROVE  IdsApart'
  <1> USE DEF IdsApart, FirstShareId
  <1>0. nextId \in Nat /\ nextId >= FirstShareId
    BY DEF TypeInv, TypeOK
  <1>1. CASE BookShare
    <2>1. /\ nextId' = nextId + 1
          /\ pending' = pending \cup
               {[id |-> nextId, found |-> Head(go), sentFor |-> job.xnonce1]}
      BY <1>1 DEF BookShare
    <2> QED BY <1>0, <2>1
  <1>2. CASE pending' \subseteq pending /\ nextId' = nextId
    BY <1>2
  <1>3. CASE HandleReply \/ HandleRequest
    <2>1. pending' \subseteq pending /\ nextId' = nextId
      BY <1>3 DEF HandleReply, HandleRequest, HandleResponse, SubscribeReply,
         AuthorizeReply, ShareReply
    <2> QED BY <1>2, <2>1
  <1>4. CASE ResetSession \/ DropStale
    BY <1>2, <1>4 DEF ResetSession, DropStale
  <1>5. CASE ~BookStep
    BY <1>2, <1>5, BookFrame
  <1> QED BY <1>1, <1>3, <1>4, <1>5 DEF BookStep, SendShare, SendFails

LEMMA OwedNext ==
  ASSUME IdsApart, Places, OwedInv, [Next]_vars, nextId \in Nat,
         \A s \in pending : s.id \in Nat
  PROVE  OwedInv'
  <1> USE DEF OwedInv, OwedFor, Owed
  <1>1. CASE SendShare
    <2> DEFINE new == [id |-> nextId, found |-> Head(go), sentFor |-> job.xnonce1]
    <2>1. /\ pending' = pending \cup {new} /\ new.id = nextId
          /\ unanswered' = unanswered \cup {nextId} /\ connected' = connected
      BY <1>1 DEF SendShare, BookShare
    <2> HIDE DEF new
    <2>2. OwedFor(pending') = OwedFor(pending) \cup {nextId}
      BY <2>1
    <2>3. nextId \notin {SubscribeId, AuthorizeId}
      BY DEF IdsApart, FirstShareId, SubscribeId, AuthorizeId
    <2>4. Owed' = Owed \cup {nextId}
      BY <2>1, <2>3
    <2> QED BY <2>1, <2>2, <2>4
  <1>2. CASE HandleReply
    <2>1. PICK id \in unanswered, verdict \in Verdicts :
            /\ HandleResponse(id, verdict)
            /\ \/ unanswered' = unanswered \ {id}
               \/ /\ id = SubscribeId
                  /\ unanswered' = (unanswered \ {id}) \cup {AuthorizeId}
      BY <1>2 DEF HandleReply
    <2>2. connected' = connected
      BY <2>1 DEF HandleResponse
    <2>3. CASE id \in {SubscribeId, AuthorizeId}
      <3>1. pending' = pending
        BY <2>1, <2>3 DEF HandleResponse, SubscribeReply, AuthorizeReply
      <3>2. Owed' = Owed
        BY <2>1, <2>3
      <3> QED BY <2>2, <3>1, <3>2
    <2>4. CASE id \notin {SubscribeId, AuthorizeId}
      <3>1. pending' = pending \ Answered(id)
        BY <2>1, <2>4 DEF HandleResponse, ShareReply
      <3>2. OwedFor(pending') = OwedFor(pending) \ {id}
        BY <3>1 DEF Answered
      <3>3. Owed' = Owed \ {id}
        BY <2>1, <2>4
      <3> QED BY <2>2, <3>2, <3>3
    <2> QED BY <2>3, <2>4
  <1>3. CASE HandleRequest
    BY <1>3 DEF HandleRequest
  <1>4. CASE ResetSession
    <2>1. pc = "top" /\ connected' = connected
      BY <1>4 DEF ResetSession
    <2> QED BY <2>1 DEF Places, SessionPlaces
  <1>5. CASE Connects
    BY <1>5 DEF Connects, Places, DialPlaces
  <1>6. CASE Subscribe
    BY <1>6 DEF Subscribe, Places, DialPlaces
  <1>7. CASE SubscribeFails \/ CloseSession \/ SendFails
    BY <1>7 DEF SubscribeFails, CloseSession, SendFails, Hangup
  <1>8. CASE DropStale
    BY <1>8 DEF DropStale
  <1>9. CASE HandleNotify \/ HandleSetTarget
    BY <1>9 DEF HandleNotify, HandleSetTarget
  <1>10. CASE ~OpenStep
    BY <1>10, OpenFrame
  <1> QED BY <1>1, <1>2, <1>3, <1>4, <1>5, <1>6, <1>7, <1>8, <1>9, <1>10
          DEF OpenStep, BookStep

(* Ids that differ count as many as their shares. *)
LEMMA AsManyIds ==
  ASSUME IsFiniteSet(pending), IdsUnique
  PROVE  Cardinality(pending) = Cardinality(OwedFor(pending))
  <1> DEFINE idOf == [s \in pending |-> s.id]
  <1>1. idOf \in Bijection(pending, OwedFor(pending))
    BY DEF Bijection, Injection, IsInjective, Surjection, OwedFor, IdsUnique
  <1> QED BY <1>1, FS_Bijection DEF ExistsBijection

LEMMA AnswersAre ==
  ASSUME TypeInv, BooksInv, OwedInv, ~PoolAsks
  PROVE  AnswersFindShares
  <1>1. IsFiniteSet(pending) /\ IdsUnique
    BY DEF TypeInv, BooksInv
  <1>2. Cardinality(pending) = Cardinality(OwedFor(pending))
    BY <1>1, AsManyIds
  <1> QED BY <1>2 DEF OwedInv, Owed, OwedFor, AnswersFindShares

(* From a pool that asks nothing itself, every answer that is still to come   *)
(* on this connection finds exactly one share, over any number of shares,     *)
(* answers and sessions.                                                      *)
THEOREM AnswersMatch == Spec => [](~PoolAsks => AnswersFindShares)
  <1>1. Init => BooksInv /\ IdsApart /\ OwedInv
    <2>1. Init => pending = {} /\ nextId = FirstShareId /\ connected = FALSE
      BY DEF Init
    <2>2. Init => stats = [submitted |-> 0, accepted |-> 0, rejected |-> 0, stale |-> 0]
      BY DEF Init
    <2> QED BY <2>1, <2>2, FS_EmptySet
            DEF BooksInv, SharesAccounted, IdsFresh, IdsUnique, IdsApart, OwedInv, FirstShareId
  <1>2. TypeInv /\ BooksInv /\ [Next]_vars => BooksInv'
    BY BooksNext
  <1>3. TypeInv /\ IdsApart /\ [Next]_vars => IdsApart'
    BY IdsApartNext
  <1>4. TypeInv /\ IdsApart /\ Places /\ OwedInv /\ [Next]_vars => OwedInv'
    <2>1. TypeInv => nextId \in Nat /\ \A s \in pending : s.id \in Nat
      BY LedgerNat DEF Shares
    <2> QED BY <2>1, OwedNext
  <1>5. TypeInv /\ BooksInv /\ OwedInv => (~PoolAsks => AnswersFindShares)
    BY AnswersAre
  <1> QED BY <1>1, <1>2, <1>3, <1>4, <1>5, TypeAlways, PlacesAlways, PTL DEF Spec

----------------------------------------------------------------------------
(* The extranonce of the session *)

(* A job is built with the extranonce at hand, which the subscription that is *)
(* still owed will set: until then there is no job.                           *)
PrefixInv ==
    ~EagerPool =>
      /\ job.serial # 0 => job.xnonce1 = xnonce1
      /\ SubscribeId \in unanswered =>
           xnonce1 = NoExtranonce /\ pending = {} /\ job.serial = 0
      /\ PrefixIsOurs

LEMMA PrefixNext ==
  ASSUME TypeInv, WorkSound, IdsApart, Places, PrefixInv, [Next]_vars
  PROVE  PrefixInv'
  <1> SUFFICES ASSUME ~EagerPool
               PROVE  /\ job'.serial # 0 => job'.xnonce1 = xnonce1'
                      /\ SubscribeId \in unanswered' =>
                           xnonce1' = NoExtranonce /\ pending' = {} /\ job'.serial = 0
                      /\ PrefixIsOurs'
    BY DEF PrefixInv
  <1> USE DEF PrefixIsOurs
  <1>0. /\ job.serial # 0 => job.xnonce1 = xnonce1
        /\ SubscribeId \in unanswered =>
             xnonce1 = NoExtranonce /\ pending = {} /\ job.serial = 0
        /\ connected => \A s \in pending : s.sentFor = xnonce1
        /\ job \in Jobs /\ nextId \in Nat /\ nextId # SubscribeId
    BY DEF PrefixInv, TypeInv, TypeOK, IdsApart, FirstShareId, SubscribeId
  <1>1. CASE SendShare
    <2>1. /\ pending' = pending \cup
               {[id |-> nextId, found |-> Head(go), sentFor |-> job.xnonce1]}
          /\ unanswered' = unanswered \cup {nextId} /\ UNCHANGED <<job, xnonce1, connected>>
          /\ job.valid
      BY <1>1 DEF SendShare, BookShare, StillCurrent
    <2>2. job.serial # 0 /\ job.xnonce1 = xnonce1 /\ SubscribeId \notin unanswered
      BY <1>0, <2>1 DEF WorkSound
    <2> QED BY <1>0, <2>1, <2>2
  <1>2. CASE HandleReply
    <2>1. PICK id \in unanswered, verdict \in Verdicts :
            /\ HandleResponse(id, verdict)
            /\ \/ unanswered' = unanswered \ {id}
               \/ /\ id = SubscribeId
                  /\ unanswered' = (unanswered \ {id}) \cup {AuthorizeId}
      BY <1>2 DEF HandleReply
    <2>2. UNCHANGED <<connected, job>>
      BY <2>1 DEF HandleResponse
    <2>3. CASE id = SubscribeId
      <3>1. pending = {} /\ job.serial = 0
        BY <1>0, <2>3
      <3>2. SubscribeId # AuthorizeId
        BY DEF SubscribeId, AuthorizeId
      <3>3. SubscribeId \notin unanswered'
        BY <2>1, <2>3, <3>2
      <3>4. pending' = pending
        BY <2>1, <2>3, <3>2 DEF HandleResponse, SubscribeReply
      <3> QED BY <2>2, <3>1, <3>3, <3>4
    <2>4. CASE id # SubscribeId
      <3>1. pending' \subseteq pending /\ xnonce1' = xnonce1
        BY <2>1, <2>4 DEF HandleResponse, AuthorizeReply, ShareReply
      <3>2. unanswered' \subseteq unanswered
        BY <2>1, <2>4
      <3> QED BY <1>0, <2>2, <3>1, <3>2
    <2> QED BY <2>3, <2>4
  <1>3. CASE HandleRequest
    <2>1. PICK id \in 1 .. nextId : HandleResponse(id, "no")
      BY <1>3 DEF HandleRequest
    <2>2. /\ UNCHANGED <<connected, job, unanswered, xnonce1>> /\ pending' \subseteq pending
      BY <1>3, <2>1 DEF HandleRequest, HandleResponse, SubscribeReply, AuthorizeReply, ShareReply
    <2> QED BY <1>0, <2>2
  <1>4. CASE ResetSession
    BY <1>4 DEF ResetSession, NoJob
  <1>5. CASE Connects
    BY <1>0, <1>5 DEF Connects, Places, DialPlaces
  <1>6. CASE Subscribe
    BY <1>6 DEF Subscribe, Places, DialPlaces, NoJob
  <1>7. CASE SubscribeFails \/ CloseSession \/ SendFails
    <2>1. unanswered' = {} /\ connected' = FALSE /\ UNCHANGED <<job, xnonce1>>
      BY <1>7 DEF SubscribeFails, CloseSession, SendFails, Hangup
    <2> QED BY <1>0, <2>1
  <1>8. CASE DropStale
    BY <1>0, <1>8 DEF DropStale
  <1>9. CASE HandleNotify
    <2>1. xnonce1 # NoExtranonce /\ job'.xnonce1 = xnonce1
          /\ UNCHANGED <<xnonce1, unanswered, pending, connected>>
      BY <1>9 DEF HandleNotify, PoolMayPush
    <2> QED BY <1>0, <2>1
  <1>10. CASE HandleSetTarget
    <2>1. job'.serial = job.serial /\ job'.xnonce1 = job.xnonce1
          /\ UNCHANGED <<xnonce1, unanswered, pending, connected>>
      BY <1>0, <1>10 DEF HandleSetTarget, Jobs
    <2> QED BY <1>0, <2>1
  <1>11. CASE ~OpenStep
    BY <1>0, <1>11, OpenFrame
  <1> QED BY <1>1, <1>2, <1>3, <1>4, <1>5, <1>6, <1>7, <1>8, <1>9, <1>10, <1>11
          DEF OpenStep, BookStep

(* A pool that subscribes first gets no share under another session's         *)
(* extranonce: the prefix stripped from the nonce is the job's own.           *)
THEOREM PrefixesAreOurs == Spec => [](~EagerPool => PrefixIsOurs)
  <1>1. Init => WorkSound /\ IdsApart /\ PrefixInv
    <2>1. Init => job = NoJob /\ jobSerial = 0 /\ pending = {} /\ nextId = FirstShareId
                  /\ connected = FALSE /\ unanswered = {}
      BY DEF Init
    <2> QED BY <2>1 DEF WorkSound, PublishedIsMinable, NoJob, IdsApart, PrefixInv,
            PrefixIsOurs, FirstShareId
  <1>2. TypeInv /\ WorkSound /\ [Next]_vars => WorkSound'
    BY WorkSoundNext
  <1>3. TypeInv /\ IdsApart /\ [Next]_vars => IdsApart'
    BY IdsApartNext
  <1>4. TypeInv /\ WorkSound /\ IdsApart /\ Places /\ PrefixInv /\ [Next]_vars => PrefixInv'
    BY PrefixNext
  <1>5. PrefixInv => (~EagerPool => PrefixIsOurs)
    BY DEF PrefixInv
  <1> QED BY <1>1, <1>2, <1>3, <1>4, <1>5, TypeAlways, PlacesAlways, PTL DEF Spec

----------------------------------------------------------------------------
(* The books are a ledger *)

USE DEF Books!ledgerVars

LEMMA LedgerSubmits ==
  ASSUME TypeInv, BookShare
  PROVE  Books!Submit
  <1>1. pending' = pending \cup
          {[id |-> nextId, found |-> Head(go), sentFor |-> job.xnonce1]}
    BY DEF BookShare
  <1>2. {s.id : s \in pending'} = {s.id : s \in pending} \cup {nextId}
    <2> DEFINE new == [id |-> nextId, found |-> Head(go), sentFor |-> job.xnonce1]
    <2>1. new.id = nextId /\ pending' = pending \cup {new}
      BY <1>1
    <2> HIDE DEF new
    <2> QED BY <2>1
  <1>3. stats' = [stats EXCEPT !["submitted"] = @ + 1] /\ nextId' = nextId + 1
    BY DEF BookShare, Count
  <1> QED BY <1>2, <1>3 DEF Books!Submit, Books!Entered

(* Ids differ, so the share that was answered is the only one to go. *)
LEMMA LedgerResolves ==
  ASSUME TypeInv, BooksInv, NEW id, NEW verdict \in Verdicts, ShareReply(id, verdict)
  PROVE  Books!Resolve \/ UNCHANGED <<pending, nextId, stats>>
  <1>1. pending' = pending \ Answered(id) /\ nextId' = nextId
    BY DEF ShareReply
  <1>2. CASE Answered(id) = {}
    BY <1>1, <1>2 DEF ShareReply
  <1>3. CASE Answered(id) # {}
    <2>1. id \in {s.id : s \in pending}
      BY <1>3 DEF Answered
    <2>2. {s.id : s \in pending'} = {s.id : s \in pending} \ {id}
      BY <1>1 DEF Answered
    <2>3. stats' = Count(Outcome(verdict))
      BY <1>3 DEF ShareReply
    <2>4. Outcome(verdict) \in {"accepted", "rejected", "stale"}
      BY DEF Outcome, Verdicts
    <2>5. \E outcome \in {"accepted", "rejected", "stale"} :
              stats' = [stats EXCEPT ![outcome] = @ + 1]
      BY <2>3, <2>4 DEF Count
    <2> QED BY <1>1, <2>1, <2>2, <2>5 DEF Books!Resolve, Books!Entered
  <1> QED BY <1>2, <1>3

LEMMA LedgerResponse ==
  ASSUME TypeInv, BooksInv, NEW id, NEW verdict \in Verdicts, HandleResponse(id, verdict)
  PROVE  Books!Resolve \/ UNCHANGED <<pending, nextId, stats>>
  <1>1. CASE ShareReply(id, verdict)
    BY <1>1, LedgerResolves
  <1>2. CASE UNCHANGED shareVars
    BY <1>2 DEF shareVars
  <1> QED BY <1>1, <1>2 DEF HandleResponse, SubscribeReply, AuthorizeReply

(* The ledger counts as the client does. *)
LEMMA SameCardinality ==
  ASSUME NEW S
  PROVE  Books!Cardinality(S) = Cardinality(S)
  BY DEF Books!Cardinality, Cardinality

(* The session takes with it what waits, if anything does. *)
LEMMA LedgerLoses ==
  ASSUME TypeInv, BooksInv, ResetSession
  PROVE  Books!Lose \/ UNCHANGED <<pending, nextId, stats>>
  <1>1. /\ pending' = {} /\ nextId' = nextId
        /\ stats' = [stats EXCEPT !["stale"] = @ + Cardinality(pending)]
    BY DEF ResetSession, Unanswered
  <1>2. CASE pending = {}
    <2>1. Cardinality(pending) = 0
      BY <1>2, FS_EmptySet
    <2>2. stats' = stats
      BY <1>1, <2>1, LedgerNat DEF Ledger
    <2> QED BY <1>1, <1>2, <2>2
  <1>3. CASE pending # {}
    <2>1. Cardinality(pending) = Cardinality({s.id : s \in pending})
      BY AsManyIds DEF TypeInv, BooksInv, OwedFor
    <2>2. {s.id : s \in pending} # {} /\ {s.id : s \in pending'} = {}
      BY <1>1, <1>3
    <2>3. stats' = Books!Entered("stale", Cardinality({s.id : s \in pending}))
      <3> DEFINE n == Cardinality({s.id : s \in pending})
      <3>1. stats' = [stats EXCEPT !["stale"] = @ + n]
        BY <1>1, <2>1
      <3> HIDE DEF n
      <3>2. stats' = Books!Entered("stale", n)
        BY <3>1 DEF Books!Entered
      <3> QED BY <3>2 DEF n
    <2> QED BY <1>1, <2>2, <2>3, SameCardinality DEF Books!Lose
  <1> QED BY <1>2, <1>3

LEMMA LedgerNext ==
  ASSUME TypeInv, BooksInv, [Next]_vars
  PROVE  [Books!Next]_(Books!ledgerVars)
  <1> USE DEF Books!Next
  <1>1. CASE ResetSession
    BY <1>1, LedgerLoses
  <1>2. CASE HandleReply
    <2>1. PICK id \in unanswered, verdict \in Verdicts : HandleResponse(id, verdict)
      BY <1>2 DEF HandleReply
    <2> QED BY <2>1, LedgerResponse
  <1>3. CASE HandleRequest
    <2>1. PICK id \in 1..nextId : HandleResponse(id, "no")
      BY <1>3 DEF HandleRequest
    <2> QED BY <2>1, LedgerResponse DEF Verdicts
  <1>4. CASE DropStale
    BY <1>4 DEF DropStale, Count, Books!Refuse, Books!Entered
  <1>5. CASE SendShare \/ SendFails
    BY <1>5, LedgerSubmits DEF SendShare, SendFails
  <1>6. CASE ~BookStep
    BY <1>6, BookFrame
  <1> QED BY <1>1, <1>2, <1>3, <1>4, <1>5, <1>6 DEF BookStep

(* The client implements the ledger: over any number of miners, shares and    *)
(* sessions, and whatever the pool answers, asks or repeats, each share is    *)
(* submitted once, under a fresh id, and resolved or lost once.               *)
THEOREM ImplementsLedger == Spec => KeepsTheBooks
  <1>1. Init => BooksInv /\ Books!Init
    <2>1. Init => pending = {} /\ nextId = FirstShareId
      BY DEF Init
    <2>2. Init => stats = [submitted |-> 0, accepted |-> 0, rejected |-> 0, stale |-> 0]
      BY DEF Init
    <2>3. Init => {s.id : s \in pending} = {}
      BY <2>1
    <2>4. Init => Books!Init
      BY <2>1, <2>2, <2>3 DEF Books!Init
    <2> QED BY <2>1, <2>2, <2>4, FS_EmptySet DEF BooksInv, SharesAccounted, IdsFresh,
            IdsUnique
  <1>2. TypeInv /\ BooksInv /\ [Next]_vars => BooksInv'
    BY BooksNext
  <1>3. TypeInv /\ BooksInv /\ [Next]_vars => [Books!Next]_(Books!ledgerVars)
    BY LedgerNext
  <1> QED BY <1>1, <1>2, <1>3, TypeAlways, PTL DEF Spec, KeepsTheBooks, Books!Spec
============================================================================
