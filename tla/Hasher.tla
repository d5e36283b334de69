------------------------------- MODULE Hasher -------------------------------
(***************************************************************************)
(* The mining context of src/verushash.cpp and the lockstep walk of        *)
(* src/clhash_wave.cpp.  A wave prepares every lane's buffer, advances all   *)
(* lanes one step at a time in the order of their cases (the buckets of the  *)
(* next step are filled as lanes leave this one), finalizes every lane while *)
(* its key is still dirty, and then restores the slots each walk journalled. *)
(* One thread runs all of this; an action is one lane's turn in a loop.      *)
(***************************************************************************)
EXTENDS Digest

CONSTANTS
    Templates,      \* records of a head and a nonce space
    Nonces, Targets, Lanes,
    MaxCalls        \* calls that hash, in a run

ASSUME HasherAssumption ==
    /\ Steps \in Nat /\ Steps > 0
    /\ Lanes # {} /\ IsFiniteSet(Lanes)
    /\ Lanes = 0 .. Cardinality(Lanes) - 1
    /\ MaxCalls \in Nat

\* A nonce is a word: the numbers below a power of two.
ASSUME NonceAssumption ==
    /\ Nonces # {} /\ IsFiniteSet(Nonces)
    /\ Nonces = 0 .. Cardinality(Nonces) - 1

VARIABLES
    half,       \* half_, fill1_ and first_byte_: the buffer a reset copies
    pristine,   \* pristine_: the expanded key
    keys,       \* keys_: each lane's key
    bufs,       \* bufs_: each lane's working buffer
    touched,    \* touched_: each lane's journal, a pair of slots per step
    inter,      \* intermediate_
    hashes,     \* hashes_: the digest a hit lane left
    ctx,        \* WaveCtx: each lane's constants, accumulator and selector
    buckets,    \* the lanes of each case, for the two parities
    nonempty,   \* the cases with a lane, for the two parities
    pc, step, mask, cursor,   \* where the call is
    active, asked, target,    \* the call's lanes, their nonces and its target
    hit,        \* the mask of the lanes that passed
    answer,     \* what the caller reads when a call has returned
    calls       \* the calls that have returned

NoKey == <<>>

lanes == <<keys, bufs, touched, inter, hashes, ctx>>
queues == <<buckets, nonempty, mask>>
call == <<active, asked, target>>
vars == <<half, pristine, lanes, queues, call, pc, step, cursor, hit, answer, calls>>

Cases == 0 .. 7
Least(S) == CHOOSE c \in S : \A d \in S : c <= d
NoBuckets == [c \in Cases |-> <<>>]
EmptyBuf == [head |-> NoDigest, space |-> NoDigest, nonce |-> 0, fill |-> NoDigest]
NoContext == [k |-> NoDigest, acc |-> NoDigest, sel |-> NoDigest]

KeyBlocks(seed) ==
    LET blocks[i \in 0 .. KeyVecs \div 2] ==
          IF i = 0 THEN <<seed>>
          ELSE LET was == blocks[i - 1]
               IN  Append(was, Haraka256(was[i], RoundConstants))
    IN  blocks
GenKey(seed) ==
    LET chain == KeyBlocks(seed)[KeyVecs \div 2]
    IN  [i \in Slots |-> chain[(i \div 2) + 2][(i % 2) + 1]]

\* The expanded key of every head a run uses.
ExpandedKeys == [head \in {t.head : t \in Templates} |-> GenKey(head)]

\* prepare(): the fill and the nonce; the head and the space are left alone.
PreparedNonceOnly(buf, nonce) == [buf EXCEPT !.nonce = nonce]
Prepared(buf, nonce) == [buf EXCEPT !.fill = HeadFill(half.head), !.nonce = nonce]

Init ==
    /\ half = EmptyBuf
    /\ pristine = NoKey
    /\ keys = [l \in Lanes |-> NoKey]
    /\ bufs = [l \in Lanes |-> EmptyBuf]
    /\ touched = [l \in Lanes |-> [n \in 0 .. Steps - 1 |-> <<0, 0>>]]
    /\ inter = [l \in Lanes |-> 0]
    /\ hashes = [l \in Lanes |-> NoDigest]
    /\ ctx = [l \in Lanes |-> NoContext]
    /\ buckets = [par \in {0, 1} |-> NoBuckets]
    /\ nonempty = [par \in {0, 1} |-> {}]
    /\ pc = "idle" /\ step = 0 /\ mask = {} /\ cursor = 0
    /\ active = {} /\ asked = <<>> /\ target = 0 /\ hit = {}
    /\ answer = [by |-> "none"] /\ calls = 0

\* build_template, set_nonce_space and Hasher::reset: a fresh template, copied
\* into the pristine key, every lane's key and every lane's buffer.
Reset ==
    /\ pc = "idle"
    /\ \E t \in Templates :
         LET key == ExpandedKeys[t.head]
         IN  /\ half' = [head |-> t.head, space |-> t.space, nonce |-> 0, fill |-> HeadFill(t.head)]
             /\ pristine' = key
             /\ keys' = [l \in Lanes |-> key]
    /\ bufs' = [l \in Lanes |-> half']
    /\ UNCHANGED <<touched, inter, hashes, ctx, queues, call, pc, step, cursor, hit, answer, calls>>

----------------------------------------------------------------------------
(* A call begins: the lanes it uses are prepared with their nonces.         *)

Ready == pc = "idle" /\ pristine # NoKey /\ calls < MaxCalls

Begin(nonces, limit, next) ==
    /\ Ready
    /\ active' = DOMAIN nonces /\ asked' = nonces /\ target' = limit
    /\ bufs' = [l \in Lanes |-> IF l \in DOMAIN nonces THEN Prepared(bufs[l], nonces[l])
                                                       ELSE bufs[l]]
    /\ pc' = next /\ step' = 0 /\ cursor' = 0 /\ hit' = {}
    /\ buckets' = [par \in {0, 1} |-> NoBuckets]
    /\ nonempty' = [par \in {0, 1} |-> {}]
    /\ mask' = {}
    /\ UNCHANGED <<half, pristine, keys, touched, inter, hashes, ctx, answer, calls>>

\* run_wave: consecutive nonces from a base, which wraps.
Wrapped(n) == n % Cardinality(Nonces)
RunWave(base, limit) == Begin([l \in Lanes |-> Wrapped(base + l)], limit, "start")
RunWaveList(nonces, limit) == Begin(nonces, limit, "start")
RunOne(nonce, limit) == Begin([l \in {0} |-> nonce], limit, "scalar")

\* The last lane of the call.
IsLast(l) == l + 1 \notin active
\* One more lane's turn, or the next loop.
NextLane(next) ==
    IF IsLast(cursor) THEN cursor' = 0 /\ pc' = next
                      ELSE cursor' = cursor + 1 /\ pc' = pc

Context(k, acc) == [k |-> k, acc |-> acc, sel |-> SelectorOf(acc)]
LaneStart(l) == Context(StepConst(Pack(bufs[l])), keys[l][Mutable + 1])

----------------------------------------------------------------------------
(* clhash_wave.                                                             *)

Enqueue(par, c, l) ==
    /\ buckets' = [buckets EXCEPT ![par][c] = Append(@, l)]
    /\ nonempty' = [nonempty EXCEPT ![par] = @ \cup {c}]

\* The prologue: a lane's constants, accumulator and first bucket.
StartLane ==
    /\ pc = "start"
    /\ LET l == cursor
           start == LaneStart(l)
       IN  /\ ctx' = [ctx EXCEPT ![l] = start]
           /\ Enqueue(0, start.sel.case, l)
    /\ mask' = IF IsLast(cursor) THEN nonempty'[0] ELSE {}
    /\ NextLane("walk")
    /\ UNCHANGED <<half, pristine, keys, bufs, touched, inter, hashes, call, step, hit, answer, calls>>

Par == step % 2
Nxt == (step + 1) % 2

\* touched[step] = (prandex << 16) | prand
JournalOne(s) == <<s.prand, s.prand>>
Journal(s) == <<s.prand, s.prandex>>

\* One step of lane l: journal its slots, run the body of its case, publish
\* the accumulator.
LaneLeft(l, done) ==
    /\ keys' = [keys EXCEPT ![l] = done.key]
    /\ ctx' = [ctx EXCEPT ![l] = Context(@.k, done.acc)]
StepLane(l, c) ==
    /\ touched' = [touched EXCEPT ![l][step] = Journal(ctx[l].sel)]
    /\ LaneLeft(l, Body(Fast, c, ctx[l].sel, ctx[l].k, ctx[l].acc, keys[l]))

\* run_bucket, one lane of it, and lane_tail: a step, and the next bucket.
RunLane ==
    /\ pc = "walk" /\ mask # {}
    /\ LET c == Least(mask)
           queue == buckets[Par][c]
           l == queue[cursor + 1]
       IN  /\ StepLane(l, c)
           /\ Enqueue(Nxt, ctx'[l].sel.case, l)
           /\ IF cursor + 1 < Len(queue)
              THEN cursor' = cursor + 1 /\ mask' = mask
              ELSE cursor' = 0 /\ mask' = mask \ {c}
    /\ UNCHANGED <<half, pristine, bufs, inter, hashes, call, pc, step, hit, answer, calls>>

WithoutReset(b) == b
Emptied(b) == [b EXCEPT ![Par] = NoBuckets]

LastStepLate == step = Steps
LastStep == step + 1 = Steps

\* The epilogue: the intermediates of the call's lanes.
Intermediates ==
    [l \in Lanes |-> IF l \in active THEN Reduce64(Xor(ctx[l].acc, LengthHash)) ELSE inter[l]]

\* The end of a step: this parity's buckets are emptied for the step after next.
EndStep ==
    /\ pc = "walk" /\ mask = {}
    /\ buckets' = Emptied(buckets)
    /\ nonempty' = [nonempty EXCEPT ![Par] = {}]
    /\ step' = step + 1
    /\ IF LastStep THEN mask' = {} /\ pc' = "finalize" /\ inter' = Intermediates
                   ELSE mask' = nonempty[Nxt] /\ UNCHANGED <<pc, inter>>
    /\ UNCHANGED <<half, pristine, keys, bufs, touched, hashes, ctx, call, cursor, hit, answer, calls>>

----------------------------------------------------------------------------
(* clhash_scalar, on lane 0's memory: a step of the single stream.          *)

StartScalar ==
    /\ pc = "scalar"
    /\ ctx' = [ctx EXCEPT ![0] = LaneStart(0)]
    /\ pc' = "stream"
    /\ UNCHANGED <<half, pristine, keys, bufs, touched, inter, hashes, queues, call, step, cursor,
                   hit, answer, calls>>

ScalarStep ==
    /\ pc = "stream" /\ step < Steps
    /\ StepLane(0, ctx[0].sel.case)
    /\ step' = step + 1
    /\ UNCHANGED <<half, pristine, bufs, inter, hashes, queues, call, pc, cursor, hit, answer, calls>>

EndScalar ==
    /\ pc = "stream" /\ step = Steps
    /\ inter' = Intermediates
    /\ pc' = "finalize"
    /\ UNCHANGED <<half, pristine, keys, bufs, touched, hashes, ctx, queues, call, step, cursor,
                   hit, answer, calls>>

----------------------------------------------------------------------------
(* finalize, for each lane, and then restore_key, for each lane.            *)

Refilled(buf, im) == [buf EXCEPT !.fill = TailFill(im)]

Passes(l) ==
    ~Exceeds(HighWord(Pack(Refilled(bufs[l], inter[l])), keys[l], OffsetOf(inter[l])), target)

Finalize ==
    /\ pc = "finalize"
    /\ LET l == cursor
       IN  /\ bufs' = [bufs EXCEPT ![l] = Refilled(@, inter[l])]
           /\ IF Passes(l)
              THEN /\ hashes' = [hashes EXCEPT ![l] =
                                   HarakaKeyed(Pack(bufs'[l]), keys[l], OffsetOf(inter[l]))]
                   /\ hit' = hit \cup {l}
              ELSE UNCHANGED <<hashes, hit>>
    /\ NextLane("restore")
    /\ UNCHANGED <<half, pristine, keys, touched, inter, ctx, queues, call, step, answer, calls>>

Restored(journal, key, clean) ==
    [i \in Slots |->
       IF \E n \in 0 .. Steps - 1 : i \in {journal[n][1], journal[n][2]}
       THEN clean[i] ELSE key[i]]

\* What the caller reads: the mask, and hash_of for the lanes of the mask.
WaveAnswer ==
    [by |-> "wave",
     lanes |-> [l \in active |-> [nonce |-> asked[l], hit |-> l \in hit,
                                  digest |-> IF l \in hit THEN hashes[l] ELSE NoDigest]]]

Restore ==
    /\ pc = "restore"
    /\ keys' = [keys EXCEPT ![cursor] = Restored(touched[cursor], @, pristine)]
    /\ NextLane("idle")
    /\ IF IsLast(cursor) THEN answer' = WaveAnswer /\ calls' = calls + 1
                         ELSE UNCHANGED <<answer, calls>>
    /\ UNCHANGED <<half, pristine, bufs, touched, inter, hashes, ctx, queues, call, step, hit>>

----------------------------------------------------------------------------
(* hash_exact is const: it walks a scratch copy of the pristine key, with    *)
(* the exact multiply, and leaves the lanes and their journals alone.        *)

ExactStep(k, was) ==
    LET s == SelectorOf(was.acc) IN Body(Exact, s.case, s, k, was.acc, was.key)
ExactWalk(key, buf) ==
    LET k == StepConst(Pack(buf))
        walk[i \in 0 .. Steps] ==
          IF i = 0 THEN [acc |-> key[Mutable + 1], key |-> key]
          ELSE LET was == walk[i - 1] IN ExactStep(k, was)
    IN  walk

ExactDigest(buf, walked, im) == HarakaKeyed(Pack(Refilled(buf, im)), walked.key, OffsetOf(im))
ExactTail(buf, walked) == ExactDigest(buf, walked, Reduce64(Xor(walked.acc, LengthHash)))

HashExact(nonce) ==
    /\ Ready
    /\ \E buf \in {Prepared(half, nonce)} : \E walked \in {ExactWalk(pristine, buf)[Steps]} :
          answer' = [by |-> "exact", nonce |-> nonce, digest |-> ExactTail(buf, walked)]
    /\ calls' = calls + 1
    /\ UNCHANGED <<half, pristine, lanes, queues, call, pc, step, cursor, hit>>

Next ==
    \/ Reset
    \/ \E base \in Nonces, limit \in Targets : RunWave(base, limit)
    \/ \E nonces \in [Lanes -> Nonces], limit \in Targets : RunWaveList(nonces, limit)
    \/ \E nonce \in Nonces, limit \in Targets : RunOne(nonce, limit)
    \/ \E nonce \in Nonces : HashExact(nonce)
    \/ StartLane
    \/ RunLane
    \/ EndStep
    \/ StartScalar
    \/ ScalarStep
    \/ EndScalar
    \/ Finalize
    \/ Restore

Spec == Init /\ [][Next]_vars

----------------------------------------------------------------------------
TypeOK ==
    /\ pc \in {"idle", "start", "walk", "scalar", "stream", "finalize", "restore"}
    /\ step \in 0 .. Steps
    /\ cursor \in Lanes
    /\ mask \subseteq Cases
    /\ nonempty \in [{0, 1} -> SUBSET Cases]
    /\ buckets \in [{0, 1} -> [Cases -> Seq(Lanes)]]
    /\ active \in {{}, {0}, Lanes}
    /\ hit \subseteq active
    /\ calls \in 0 .. MaxCalls

\* A place in this step's queues whose lane is still to run.
Pending ==
    {p \in mask \X (1 .. Cardinality(Lanes)) :
        /\ p[2] <= Len(buckets[Par][p[1]])
        /\ p[1] = Least(mask) => p[2] > cursor}

Waiting(l) == \E p \in Pending : buckets[Par][p[1]][p[2]] = l

\* The places of lane l in the queues of a parity.
PlacesOf(par, l) ==
    {p \in Cases \X (1 .. Cardinality(Lanes)) :
        p[2] <= Len(buckets[par][p[1]]) /\ buckets[par][p[1]][p[2]] = l}

\* During a walk every lane is either still to run this step, and has no place
\* in the next step's queues, or it has run and has exactly one, in the queue
\* of its new case.
EachLaneOnce ==
    pc = "walk" =>
        \A l \in Lanes :
            IF Waiting(l)
            THEN /\ PlacesOf(Nxt, l) = {}
                 /\ \E i \in 1 .. Cardinality(Lanes) : PlacesOf(Par, l) = {<<ctx[l].sel.case, i>>}
            ELSE \E i \in 1 .. Cardinality(Lanes) : PlacesOf(Nxt, l) = {<<ctx[l].sel.case, i>>}

\* The steps of this call a lane has run and not yet had undone.
StepsRun(l) ==
    CASE pc = "walk" -> IF Waiting(l) THEN step ELSE step + 1
      [] pc = "stream" /\ l \in active -> step
      [] pc = "finalize" /\ l \in active -> Steps
      [] pc = "restore" /\ l \in active -> IF l < cursor THEN 0 ELSE Steps
      [] OTHER -> 0

\* A slot that differs from the pristine key is one that the lane's own
\* journal of this call names, so restore_key puts back all that a walk
\* dirtied; between calls, single streams too, every key is pristine.
JournalCoversDirt ==
    pristine # NoKey =>
        \A l \in Lanes, i \in Slots :
            keys[l][i] # pristine[i] =>
                \E n \in 0 .. StepsRun(l) - 1 : i \in {touched[l][n][1], touched[l][n][2]}

\* A call is a request and its return in the promise, and everything between
\* the two is no step of it: each lane's answer is the reference's for that
\* lane's nonce, and a verified digest is the exact reference's whatever the
\* lanes went through.
RefKeys == [head \in {t.head : t \in Templates} |-> RefGenKey(head)]
RefKeyOf(head) == RefKeys[head]
RefMiningDigest(t, nonce) == RefHashNonce(Fast, t.head, t.space, t.key, nonce)
RefDigest(t, nonce) == RefHashNonce(Exact, t.head, t.space, t.key, nonce)
AboveTarget(digest, limit) == Exceeds(digest[2][4], limit)

Promise == INSTANCE HashPromise WITH
    KeyOf <- RefKeyOf, MiningDigest <- RefMiningDigest, ExactDigest <- RefDigest,
    template <- IF pristine = NoKey THEN <<>>
                ELSE [head |-> half.head, space |-> half.space, key |-> pristine],
    request <- IF pc = "idle" THEN <<>> ELSE [nonces |-> asked, limit |-> target]
Implements == Promise!Spec
=============================================================================
