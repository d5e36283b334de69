---------------------------- MODULE HashPromise ----------------------------
(***************************************************************************)
(* What a mining context promises its caller: each nonce of a call is       *)
(* answered as the reference implementation would answer it, for the         *)
(* template of the last reset, whatever was hashed before.  A nonce that is   *)
(* mined is answered with the fast multiply, one that is verified with the    *)
(* exact one.                                                                *)
(***************************************************************************)
EXTENDS Naturals

CONSTANTS
    Templates,          \* records of a head and a nonce space
    Nonces, Targets, Lanes,
    KeyOf(_),           \* the key expanded from a head
    MiningDigest(_, _), \* the digest of a template and a nonce, fast multiply
    ExactDigest(_, _),  \* the same with the exact multiply
    AboveTarget(_, _),  \* a digest's last word is above a target's
    NoDigest

VARIABLES
    template,  \* the head, the nonce space and the expanded key in use
    request,   \* the call at work: a nonce for each lane, and its target
    answer,    \* what the last call returned
    calls      \* the calls that have returned

NoTemplate == <<>>
NoRequest == <<>>
NoAnswer == [by |-> "none"]

Init == template = NoTemplate /\ request = NoRequest /\ answer = NoAnswer /\ calls = 0

\* Between calls only, the caller takes another template.
Reset ==
    /\ request = NoRequest
    /\ \E t \in Templates :
           template' = [head |-> t.head, space |-> t.space, key |-> KeyOf(t.head)]
    /\ UNCHANGED <<request, answer, calls>>

\* A wave, a list or a single stream: every lane or the first, each its nonce.
Ask ==
    /\ request = NoRequest /\ template # NoTemplate
    /\ \E some \in {{0}, Lanes}, limit \in Targets : \E nonces \in [some -> Nonces] :
           request' = [nonces |-> nonces, limit |-> limit]
    /\ UNCHANGED <<template, answer, calls>>

\* A lane's answer: its nonce, whether it hit, and the digest of a hit.
AnswerOf(nonce, digest, limit) ==
    IF AboveTarget(digest, limit)
    THEN [nonce |-> nonce, hit |-> FALSE, digest |-> NoDigest]
    ELSE [nonce |-> nonce, hit |-> TRUE, digest |-> digest]

AnswersOf(t, nonces, limit) ==
    [l \in DOMAIN nonces |-> AnswerOf(nonces[l], MiningDigest(t, nonces[l]), limit)]

\* The call returns: each lane asked has the answer of its own nonce.
Hash ==
    /\ request # NoRequest /\ request' = NoRequest
    /\ \E t \in {template} :
           answer' = [by |-> "wave", lanes |-> AnswersOf(t, request.nonces, request.limit)]
    /\ calls' = calls + 1
    /\ UNCHANGED template

HashExact ==
    /\ request = NoRequest /\ template # NoTemplate
    /\ \E nonce \in Nonces :
           answer' = [by |-> "exact", nonce |-> nonce, digest |-> ExactDigest(template, nonce)]
    /\ calls' = calls + 1
    /\ UNCHANGED <<template, request>>

Next == Reset \/ Ask \/ Hash \/ HashExact

Spec == Init /\ [][Next]_<<template, request, answer, calls>>
=============================================================================
