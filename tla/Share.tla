------------------------------- MODULE Share -------------------------------
(***************************************************************************)
(* The bytes of a share, from the pool and back: the header that           *)
(* handle_line assembles of a mining.notify, the preimage                  *)
(* Job::build_preimage makes of it, the working buffer the engine hashes,  *)
(* the comparison with the target, and the mining.submit that session      *)
(* writes; against the buffer a pool rebuilds from what it is sent.        *)
(*                                                                         *)
(* An array of n bytes is a function on 0 .. n - 1, a memcpy is Copy.  Hex  *)
(* is not modelled: a message carries the bytes.  The chain of Haraka512   *)
(* over the whole blocks of a preimage is named by the bytes it absorbs:   *)
(* from equal bytes follows an equal chain, an equal key and an equal fill *)
(* of the buffer.  When a worker fetches, and what the connection does     *)
(* besides, is Stratum's and Engine's matter: here a worker may fetch      *)
(* whenever there is a valid job.                                          *)
(***************************************************************************)
EXTENDS Integers, Sequences

CONSTANTS
    Workers,
    Issues,         \* jobs a pool may issue
    Content,        \* of each, the fields of its mining.notify
    Xnonces,        \* the extranonces a pool may issue
    Tag,            \* the tag of each worker, four bytes
    Nonces,         \* the nonces a wave may try, four bytes each
    Targets,        \* the targets a pool may set, 32 bytes, the highest first
    Hashes,         \* what a nonce may hash to, 32 bytes, the lowest first: with the
                    \* multiply of the mining path, and with the exact one
    OutboxCap,      \* shares the outbox holds at most (4096)
    MaxJobs         \* bound of the model: jobs the pools issue

Bytes == 0 .. 255
Array(n) == [0 .. n - 1 -> Bytes]

HeaderBytes == 140
SolutionBytes == 1344
FullBytes == HeaderBytes + 3 + SolutionBytes
NonceOffsetWord == 30
NonceSpaceOffset == 1329
NonceSpaceBytes == 15

Messages == [version : Array(4), prevhash : Array(32), merkle : Array(32),
             reserved : Array(32), time : Array(4), bits : Array(4),
             solution : Array(SolutionBytes)]

ASSUME MessageAssumption == Content \in [Issues -> Messages]
ASSUME NonceAssumption == Tag \in [Workers -> Array(4)] /\ Nonces \subseteq Array(4)
ASSUME XnonceAssumption == Xnonces \subseteq Seq(Bytes)
ASSUME NumberAssumption ==
    Targets \subseteq Array(32) /\ Hashes \subseteq [fast : Array(32), exact : Array(32)]
ASSUME BoundAssumption == OutboxCap \in Nat /\ MaxJobs \in Nat

VARIABLES
    xnonce1, job, target, valid, serial, haveTarget, outbox,
                                    \* Conn; target and valid are the job's
    subscribed, issued, spelled,    \* the pool: it accepted the subscription, the jobs
                                    \* of this connection, the target it set last
    inForce,                        \* the targets in force since it issued the last job
    held,                           \* the job each worker has
    last,                           \* the wave just run, and
    sent                            \* the submission just sent, for the properties

vars == <<xnonce1, job, target, valid, serial, haveTarget, outbox, subscribed, issued,
          spelled, inForce, held, last, sent>>

----------------------------------------------------------------------------
(* Memory *)

Zeros(n) == [p \in 0 .. n - 1 |-> 0]

(* memcpy(dst + at, src, sizeof src). *)
Copy(dst, at, src) ==
    [p \in DOMAIN dst |-> IF p - at \in DOMAIN src THEN src[p - at] ELSE dst[p]]

(* The n bytes from a + from. *)
Slice(a, from, n) == [i \in 0 .. n - 1 |-> a[from + i]]

(* The 32-bit word four bytes make on a machine that stores the lowest first. *)
Word(a, i) == a[4*i] + 256 * a[4*i + 1] + 65536 * a[4*i + 2] + 16777216 * a[4*i + 3]
Words(a) == [i \in 0 .. 7 |-> Word(a, i)]

----------------------------------------------------------------------------
(* The job *)

(* Mutant: the prefix is not cut, and a long one leaves nothing to send. *)
PrefixUncut(x) == Len(x)

(* xnonce1.size() > 31 ? 31 : xnonce1.size() *)
PrefixLen(x) == IF Len(x) > 31 THEN 31 ELSE Len(x)
Prefix(x) == [i \in 0 .. PrefixLen(x) - 1 |-> x[i + 1]]

(* The header of a mining.notify: "The pool owns the front of the 32-byte    *)
(* nonce; we own the rest."                                                  *)
HeaderOf(m, x) ==
    LET fields == Copy(Copy(Copy(Copy(Copy(Copy(Zeros(HeaderBytes),
                    0, m.version), 4, m.prevhash), 36, m.merkle),
                    68, m.reserved), 100, m.time), 104, m.bits)
    IN  Copy(fields, 108, Prefix(x))

(* The front of the nonce field and the word of the tag. *)
NonceSpaceOf(header) ==
    Copy(Copy(Zeros(11), 0, Slice(header, 108, 7)), 7, Slice(header, 128, 4))

(* Mutant: the bytes are taken as they come. *)
TargetInOrder(t) == Words(t)

(* The target a hex string spells: the bytes reversed, in words. *)
TargetFromHex(t) == Words([p \in 0 .. 31 |-> t[31 - p]])

(* "from solution version 7 with a descriptor present, the canonical header  *)
(* fields are not part of the hashed preimage".                              *)
IsPbaas(solution) == solution[0] >= 7 /\ solution[5] > 0

CompactSize == [i \in 0 .. 2 |-> IF i = 0 THEN 253 ELSE IF i = 1 THEN 64 ELSE 5]
Solution(j) == Content[j.issue].solution

BuildPreimage(j) ==
    LET full == Copy(Copy(Copy(Zeros(FullBytes), 0, j.header),
                          HeaderBytes, CompactSize), HeaderBytes + 3, Solution(j))
    IN  IF IsPbaas(Solution(j))
        THEN Copy(Copy(Copy(Copy(full, 4, Zeros(96)), 104, Zeros(4)),
                       108, Zeros(32)), HeaderBytes + 3 + 8, Zeros(64))
        ELSE full

----------------------------------------------------------------------------
(* The buffer that is hashed *)

(* hash_half: whole blocks of 32 bytes go through the chain, and what is left *)
(* of the data lies behind the chain's 32 bytes.                              *)
Whole == 32 * (FullBytes \div 32)
HashHalf(data) ==
    [chain |-> Slice(data, 0, Whole),
     tail  |-> [p \in 32 .. 32 + (FullBytes % 32) - 1 |-> data[Whole + p - 32]]]

(* set_nonce_space, and prepare: bytes 32 to 42 and 43 to 46 of the buffer. *)
SetNonceSpace(half, space) == [half EXCEPT !.tail = Copy(@, 32, space)]
Prepared(half, nonce) == [half EXCEPT !.tail = Copy(@, 43, nonce)]

(* What a worker hashes for a nonce of a job: Engine::loop puts its tag into *)
(* the nonce space it copies.                                                *)
Mined(j, tag, nonce) ==
    Prepared(SetNonceSpace(HashHalf(BuildPreimage(j)), Copy(j.space, 7, tag)), nonce)

(* The pre-filter on the highest word, and hash_meets_target: "eight         *)
(* little-endian 32-bit words, most significant first".                      *)
MeetsTarget(hash, limit) ==
    \/ \E i \in 0 .. 7 : hash[i] < limit[i] /\ \A k \in i + 1 .. 7 : hash[k] = limit[k]
    \/ \A i \in 0 .. 7 : hash[i] = limit[i]
IsShare(hash, limit) == ~ hash[7] > limit[7] /\ MeetsTarget(hash, limit)

----------------------------------------------------------------------------
(* The submission *)

(* Mutant: the tag goes to word 31. *)
SubmitNonceShort(j, x, s) ==
    LET hdr == Copy(Copy(j.header, 4 * NonceOffsetWord, s.nonce), 4 * 31, s.tag)
    IN  Slice(hdr, 108 + PrefixLen(x), 32 - PrefixLen(x))

(* The header with the nonce at word 30 and the tag at word 32, of which the *)
(* part behind the pool's prefix is sent.                                    *)
SubmitNonce(j, x, s) ==
    LET hdr == Copy(Copy(j.header, 4 * NonceOffsetWord, s.nonce), 4 * 32, s.tag)
    IN  Slice(hdr, 108 + PrefixLen(x), 32 - PrefixLen(x))

(* Mutant: the solution goes back as it came. *)
Unspliced(j, s) == Solution(j)

(* "The solution has to go back carrying the nonce we mined with." *)
Spliced(j, s) ==
    LET space == Copy(Copy(Copy(Zeros(NonceSpaceBytes), 0, Slice(j.space, 0, 7)),
                           7, s.tag), 11, s.nonce)
    IN  Copy(Solution(j), NonceSpaceOffset, space)

(* mining.submit; timehex is the word of the time swapped and printed, which *)
(* spells its bytes in their order.  Which share it is, is read by           *)
(* properties only.                                                          *)
Submission(j, x, s) ==
    [id |-> j.id, time |-> Slice(j.header, 100, 4), nonce |-> SubmitNonce(j, x, s),
     solution |-> Spliced(j, s), share |-> s]

----------------------------------------------------------------------------
(* Types *)

Jobs == [serial : Nat, id : Nat, issue : Issues, header : Array(HeaderBytes),
         space : Array(11)]
NoJob == [serial |-> 0]
NoTarget == [p \in 0 .. 31 |-> 0]
TargetWords == [0 .. 7 -> Nat]
Works == [job : Jobs, target : TargetWords, spelled : Targets]
Shares == [serial : Nat, nonce : Array(4), tag : Array(4), mined : Jobs, spelled : Targets]
Waves == [hash : Hashes, spelled : Targets, submitted : BOOLEAN]
Submissions(n) == [id : Nat, time : Array(4), nonce : Array(n),
                   solution : Array(SolutionBytes), share : Shares]
None == [serial |-> -1]

TypeOK ==
    /\ xnonce1 \in Seq(Bytes)
    /\ job \in Jobs \cup {NoJob} /\ target \in TargetWords /\ valid \in BOOLEAN
    /\ serial \in Nat /\ haveTarget \in BOOLEAN /\ outbox \in Seq(Shares)
    /\ subscribed \in BOOLEAN /\ issued \in Seq(Issues)
    /\ spelled \in Targets \cup {NoTarget} /\ inForce \subseteq Targets
    /\ held \in [Workers -> Works \cup {None}]
    /\ last \in Waves \cup {None}
    /\ sent = None \/ \E n \in 1 .. 32 : sent \in Submissions(n)

Init ==
    /\ xnonce1 = <<>> /\ job = NoJob /\ target = Words(NoTarget) /\ valid = FALSE
    /\ serial = 0 /\ haveTarget = FALSE /\ outbox = <<>>
    /\ subscribed = FALSE /\ issued = <<>> /\ spelled = NoTarget /\ inForce = {}
    /\ held = [w \in Workers |-> None] /\ last = None /\ sent = None

----------------------------------------------------------------------------
(* The connection *)

Quiet == last' = None /\ sent' = None

(* session begins: "Nothing survives a reconnect".  Nor does the pool know of *)
(* the connection before.                                                     *)
ResetSession ==
    /\ job' = NoJob /\ target' = Words(NoTarget) /\ valid' = FALSE
    /\ haveTarget' = FALSE /\ xnonce1' = <<>> /\ outbox' = <<>>
    /\ subscribed' = FALSE /\ issued' = <<>> /\ spelled' = NoTarget /\ inForce' = {}
    /\ UNCHANGED <<serial, held>> /\ Quiet

(* The reply to mining.subscribe; a pool accepts one subscription. *)
SubscribeReply ==
    /\ ~ subscribed
    /\ subscribed' = TRUE
    /\ \E x \in Xnonces : xnonce1' = x
    /\ UNCHANGED <<job, target, valid, serial, haveTarget, outbox, issued, spelled, inForce,
                   held>> /\ Quiet

(* mining.notify: the job is assembled, and takes the target that is there.   *)
(* The pool numbers the jobs of a connection.                                 *)
HandleNotify ==
    /\ subscribed /\ serial < MaxJobs
    /\ \E issue \in Issues :
         LET header == HeaderOf(Content[issue], xnonce1) IN
         /\ issued' = Append(issued, issue)
         /\ job' = [serial |-> serial + 1, id |-> Len(issued) + 1, issue |-> issue,
                    header |-> header, space |-> NonceSpaceOf(header)]
    /\ serial' = serial + 1
    /\ valid' = haveTarget
    /\ inForce' = IF haveTarget THEN {spelled} ELSE {}
    /\ UNCHANGED <<xnonce1, target, haveTarget, outbox, subscribed, spelled, held>> /\ Quiet

(* mining.set_target changes the target of the job at hand in place. *)
HandleSetTarget ==
    /\ subscribed
    /\ \E t \in Targets :
         /\ spelled' = t /\ inForce' = inForce \cup {t}
         /\ target' = TargetFromHex(t)
    /\ haveTarget' = TRUE
    /\ valid' = (valid \/ job.serial # 0)
    /\ UNCHANGED <<xnonce1, job, serial, outbox, subscribed, issued, held>> /\ Quiet

(* One turn of session's loop over the queued shares: one that does not       *)
(* belong to the job at hand is dropped.                                      *)
StillCurrent(s) == valid /\ job.serial = s.serial

DropStale ==
    /\ outbox # <<>> /\ ~ StillCurrent(Head(outbox))
    /\ outbox' = Tail(outbox)
    /\ UNCHANGED <<xnonce1, job, target, valid, serial, haveTarget, subscribed, issued,
                   spelled, inForce, held>> /\ Quiet

SendShare ==
    /\ outbox # <<>> /\ StillCurrent(Head(outbox))
    /\ sent' = Submission(job, xnonce1, Head(outbox))
    /\ outbox' = Tail(outbox) /\ last' = None
    /\ UNCHANGED <<xnonce1, job, target, valid, serial, haveTarget, subscribed, issued,
                   spelled, inForce, held>>

----------------------------------------------------------------------------
(* The workers *)

(* Mutant: a worker keeps the target it has when it fetches another job. *)
WorkerFetchesJobOnly(w) ==
    /\ valid
    /\ held' = [held EXCEPT ![w] =
           IF @ = None THEN [job |-> job, target |-> target, spelled |-> spelled]
           ELSE [@ EXCEPT !.job = job]]
    /\ UNCHANGED <<xnonce1, job, target, valid, serial, haveTarget, outbox, subscribed,
                   issued, spelled, inForce>> /\ Quiet

(* Client::current and what loop keeps of it: the job, and its target as it   *)
(* was then.                                                                  *)
WorkerFetches(w) ==
    /\ valid
    /\ held' = [held EXCEPT ![w] = [job |-> job, target |-> target, spelled |-> spelled]]
    /\ UNCHANGED <<xnonce1, job, target, valid, serial, haveTarget, outbox, subscribed,
                   issued, spelled, inForce>> /\ Quiet

(* A lane of a wave: what passes the pre-filter and meets the target is       *)
(* submitted, unless the outbox is full.  The digest is that of the mining    *)
(* path, whose multiply saturates where the exact one wraps; no other is      *)
(* computed.                                                                  *)
Queued(s) == IF Len(outbox) >= OutboxCap THEN outbox ELSE Append(outbox, s)

WorkerWave(w) ==
    /\ held[w] # None
    /\ \E nonce \in Nonces, hash \in Hashes :
         LET hit == IsShare(Words(hash.fast), held[w].target)
             find == [serial |-> held[w].job.serial, nonce |-> nonce, tag |-> Tag[w],
                      mined |-> held[w].job, spelled |-> held[w].spelled]
         IN  /\ outbox' = IF hit THEN Queued(find) ELSE outbox
             /\ last' = [hash |-> hash, spelled |-> held[w].spelled, submitted |-> hit]
    /\ sent' = None
    /\ UNCHANGED <<xnonce1, job, target, valid, serial, haveTarget, subscribed, issued,
                   spelled, inForce, held>>

Connection == \/ ResetSession \/ SubscribeReply \/ HandleNotify \/ HandleSetTarget
              \/ DropStale \/ SendShare
Worker(w) == WorkerFetches(w) \/ WorkerWave(w)
Next == Connection \/ \E w \in Workers : Worker(w)
Spec == Init /\ [][Next]_vars

----------------------------------------------------------------------------
(* What a pool does with a submission *)

(* The preimage of a block with a descriptor: of the header only version and  *)
(* time, the solution without the roots at 8 to 71.                           *)
CanonicalPreimage(version, time, solution) ==
    [p \in 0 .. FullBytes - 1 |->
        IF p < 4 THEN version[p]
        ELSE IF p \in 100 .. 103 THEN time[p - 100]
        ELSE IF p < HeaderBytes THEN 0
        ELSE IF p < HeaderBytes + 3 THEN CompactSize[p - HeaderBytes]
        ELSE IF p \in HeaderBytes + 11 .. HeaderBytes + 74 THEN 0
        ELSE solution[p - HeaderBytes - 3]]

(* It finds the job by its id, and hashes what it was sent. *)
Rebuilt(sub) ==
    HashHalf(CanonicalPreimage(Content[issued[sub.id]].version, sub.time, sub.solution))

(* The nonce field it reconstructs: its extranonce, and what it was sent. *)
NonceField(sub) ==
    [p \in 0 .. 31 |-> IF p < Len(xnonce1) THEN xnonce1[p + 1]
                       ELSE sub.nonce[p - Len(xnonce1)]]

----------------------------------------------------------------------------
(* Properties *)

(* The pool hashes the very bytes the worker hashed, though the submission is *)
(* assembled from the job at hand and the queued nonce and tag alone.  (A job *)
(* without a descriptor is another matter: its header is hashed with the      *)
(* nonce and tag that the worker's preimage does not have.)                   *)
RebuiltIsMined ==
    sent # None /\ IsPbaas(Content[issued[sent.id]].solution) =>
        Rebuilt(sent) = Mined(sent.share.mined, sent.share.tag, sent.share.nonce)

(* check_nonce_space of tools/mock_pool.py: the nonce space in the solution   *)
(* and the nonce field of the header, which travel separately, agree; as long *)
(* as the pool's prefix ends before the word of the nonce.                    *)
TailIsNonce ==
    sent # None /\ PrefixLen(xnonce1) <= 4 * NonceOffsetWord - 108 =>
        LET tail == Slice(sent.solution, NonceSpaceOffset, NonceSpaceBytes)
            nonce == NonceField(sent)
        IN  /\ Slice(tail, 0, 7) = Slice(nonce, 0, 7)
            /\ Slice(tail, 7, 4) = Slice(nonce, 20, 4)
            /\ Slice(tail, 11, 4) = Slice(nonce, 12, 4)

(* As numbers: a digest whose lowest byte comes first, a target spelled with  *)
(* the highest first.                                                         *)
AtMost(digest, t) ==
    \/ \E p \in 0 .. 31 : /\ digest[p] < t[31 - p]
                          /\ \A q \in p + 1 .. 31 : digest[q] = t[31 - q]
    \/ \A p \in 0 .. 31 : digest[p] = t[31 - p]

(* Nothing is lost or added on the way through reversal, words, pre-filter    *)
(* and comparison: a worker submits a lane just when the digest of the mining *)
(* path is a number at most the target that the pool had set last when the    *)
(* worker fetched its job.                                                    *)
SubmittedIffMet ==
    last # None => (last.submitted <=> AtMost(last.hash.fast, last.spelled))

(* mining.set_target changes the target of a job under the serial it has, and *)
(* a worker does not look again: still a share that is sent was measured by a *)
(* target that was in force at some time since the pool issued the job it is  *)
(* for, never by one from before.                                             *)
MeasuredInForce == sent # None => sent.share.spelled \in inForce

----------------------------------------------------------------------------
(* What the documents say, and the code does not do *)

(* docs/ENGINEERING.md: the difference of the multiplies "is handled when a   *)
(* candidate is re-verified on the exact path": what is submitted meets the   *)
(* target exactly, too.                                                       *)
SubmittedIsVerified ==
    last # None /\ last.submitted => AtMost(last.hash.exact, last.spelled)
=============================================================================
