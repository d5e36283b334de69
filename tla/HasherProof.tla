----------------------------- MODULE HasherProof -----------------------------
(***************************************************************************)
(* The lockstep walk for every number of lanes, every number of steps and    *)
(* every interpretation of the nonlinear instructions: each lane takes each   *)
(* step once, what a walk dirties its journal names, and every answer is the   *)
(* reference digest of its nonce on the template of the last reset.            *)
(***************************************************************************)
EXTENDS Hasher, BodiesProof

----------------------------------------------------------------------------
(* Queues.                                                                  *)

LaneQueues == [Cases -> Seq(Lanes)]

\* Place i of case c's queue, a queue's lanes, and no lane in two places.
Place(b, c, i) == c \in Cases /\ i \in 1 .. Len(b[c])
Holds(b, l) == \E c, i : Place(b, c, i) /\ b[c][i] = l
Once(b) == \A c, i, d, j :
              Place(b, c, i) /\ Place(b, d, j) /\ b[c][i] = b[d][j] => c = d /\ i = j
With(b, c, l) == [b EXCEPT ![c] = Append(@, l)]

LEMMA Appended ==
    ASSUME NEW b \in LaneQueues, NEW c \in Cases, NEW l \in Lanes
    PROVE  /\ With(b, c, l) \in LaneQueues
           /\ \A d, i : Place(With(b, c, l), d, i) <=>
                          Place(b, d, i) \/ (d = c /\ i = Len(b[c]) + 1)
           /\ \A d, i : Place(b, d, i) => With(b, c, l)[d][i] = b[d][i]
           /\ With(b, c, l)[c][Len(b[c]) + 1] = l
  <1>1. \A d \in Cases : b[d] \in Seq(Lanes)
    BY DEF LaneQueues
  <1>2. /\ Append(b[c], l) \in Seq(Lanes)
        /\ Len(Append(b[c], l)) = Len(b[c]) + 1
        /\ \A i \in 1 .. Len(b[c]) : Append(b[c], l)[i] = b[c][i]
        /\ Append(b[c], l)[Len(b[c]) + 1] = l
        /\ Len(b[c]) \in Nat
    BY <1>1
  <1>3. \A d \in Cases : With(b, c, l)[d] = IF d = c THEN Append(b[c], l) ELSE b[d]
    BY DEF With, LaneQueues
  <1>4. With(b, c, l) \in LaneQueues
    BY <1>1, <1>2, <1>3 DEF With, LaneQueues
  <1>5. ASSUME NEW d, NEW i
        PROVE  Place(With(b, c, l), d, i) <=> Place(b, d, i) \/ (d = c /\ i = Len(b[c]) + 1)
    <2>1. CASE d = c
      <3>1. With(b, c, l)[d] = Append(b[c], l)
        BY <1>3, <2>1
      <3>2. i \in 1 .. Len(b[c]) + 1 <=> i \in 1 .. Len(b[c]) \/ i = Len(b[c]) + 1
        BY <1>2
      <3> QED
        BY <1>2, <2>1, <3>1, <3>2 DEF Place
    <2>2. CASE d # c
      BY <1>3, <2>2 DEF Place
    <2> QED
      BY <2>1, <2>2
  <1>6. ASSUME NEW d, NEW i, Place(b, d, i)
        PROVE  With(b, c, l)[d][i] = b[d][i]
    BY <1>2, <1>3, <1>6 DEF Place
  <1>7. With(b, c, l)[c][Len(b[c]) + 1] = l
    BY <1>2, <1>3
  <1> QED
    BY <1>4, <1>5, <1>6, <1>7

\* A lane that is in no queue may be appended to one.
LEMMA AppendedOnce ==
    ASSUME NEW b \in LaneQueues, NEW c \in Cases, NEW l \in Lanes, Once(b), ~Holds(b, l)
    PROVE  /\ Once(With(b, c, l))
           /\ \A m : Holds(With(b, c, l), m) <=> Holds(b, m) \/ m = l
  <1> DEFINE w == With(b, c, l)
  <1>1. /\ \A d, i : Place(w, d, i) <=> Place(b, d, i) \/ (d = c /\ i = Len(b[c]) + 1)
        /\ \A d, i : Place(b, d, i) => w[d][i] = b[d][i]
        /\ w[c][Len(b[c]) + 1] = l
    BY Appended
  <1> HIDE DEF w
  <1>2. Once(w)
    BY <1>1 DEF Once, Holds
  <1>3. \A m : Holds(w, m) <=> Holds(b, m) \/ m = l
    BY <1>1 DEF Holds
  <1> QED
    BY <1>2, <1>3 DEF w

LEMMA LeastOf ==
    ASSUME NEW S \in SUBSET Cases, S # {}
    PROVE  Least(S) \in S /\ \A d \in S : Least(S) <= d
  <1>1. \A d \in S : d \in 0 .. 7
    BY DEF Cases
  <1>2. \E c \in S : \A d \in S : c <= d
    <2>0. CASE 0 \in S
      BY <1>1, <2>0
    <2>1. CASE 0 \notin S /\ 1 \in S
      BY <1>1, <2>1
    <2>2. CASE 0 \notin S /\ 1 \notin S /\ 2 \in S
      BY <1>1, <2>2
    <2>3. CASE 0 \notin S /\ 1 \notin S /\ 2 \notin S /\ 3 \in S
      BY <1>1, <2>3
    <2>4. CASE 0 \notin S /\ 1 \notin S /\ 2 \notin S /\ 3 \notin S /\ 4 \in S
      BY <1>1, <2>4
    <2>5. CASE 0 \notin S /\ 1 \notin S /\ 2 \notin S /\ 3 \notin S /\ 4 \notin S /\ 5 \in S
      BY <1>1, <2>5
    <2>6. CASE 0 \notin S /\ 1 \notin S /\ 2 \notin S /\ 3 \notin S /\ 4 \notin S /\ 5 \notin S /\ 6 \in S
      BY <1>1, <2>6
    <2>7. CASE 0 \notin S /\ 1 \notin S /\ 2 \notin S /\ 3 \notin S /\ 4 \notin S /\ 5 \notin S /\ 6 \notin S /\ 7 \in S
      BY <1>1, <2>7
    <2> QED
      BY <1>1, <2>0, <2>1, <2>2, <2>3, <2>4, <2>5, <2>6, <2>7
  <1> QED
    BY <1>2 DEF Least

\* No queue is longer than there are lanes.
LEMMA QueueFits ==
    ASSUME NEW b \in LaneQueues, Once(b), NEW c \in Cases
    PROVE  Len(b[c]) <= Cardinality(Lanes)
  <1> DEFINE places == 1 .. Len(b[c])
  <1>1. b[c] \in Seq(Lanes) /\ Len(b[c]) \in Nat
    BY DEF LaneQueues
  <1>2. b[c] \in [places -> Lanes]
    BY <1>1
  <1>3. \A i, j \in places : b[c][i] = b[c][j] => i = j
    BY DEF Once, Place
  <1>4. b[c] \in Injection(places, Lanes)
    BY <1>2, <1>3 DEF Injection, IsInjective
  <1>5. Cardinality(places) <= Cardinality(Lanes)
    BY <1>4, FS_Injection, HasherAssumption
  <1>6. Cardinality(places) = Len(b[c])
    BY <1>1, FS_Interval
  <1> QED
    BY <1>5, <1>6

----------------------------------------------------------------------------
(* The invariant.                                                           *)

\* Places of this step's queues whose lanes are still to run, and those lanes.
ToRun(c, i) == Place(buckets[Par], c, i) /\ c \in mask /\ (c = Least(mask) => i > cursor)
Waits(l) == \E c, i : ToRun(c, i) /\ buckets[Par][c][i] = l

Control ==
    /\ pc \in {"start", "walk"} => active = Lanes
    /\ pc \in {"scalar", "stream"} => active = {0} /\ cursor = 0
    /\ pc \in {"finalize", "restore"} => active \in {{0}, Lanes} /\ cursor \in active
    /\ pc # "idle" => calls < MaxCalls /\ pristine # NoKey
    /\ pc \in {"start", "scalar"} => step = 0
    /\ pc = "walk" => step < Steps

\* A lane's context, key and journal; the selectors of the lanes that have one.
Memory ==
    /\ ctx = [l \in Lanes |-> [k |-> ctx[l].k, acc |-> ctx[l].acc, sel |-> ctx[l].sel]]
    /\ keys = [l \in Lanes |-> keys[l]]
    /\ pristine # NoKey => IsKey(pristine) /\ \A l \in Lanes : IsKey(keys[l])
    /\ touched \in [Lanes -> [0 .. Steps - 1 -> Slots \X Slots]]
    /\ pc = "start" => \A l \in Lanes : l < cursor => ctx[l].sel \in Selectors
    /\ pc = "walk" => \A l \in Lanes : ctx[l].sel \in Selectors
    /\ pc = "stream" => ctx[0].sel \in Selectors

InItsQueue(b) == \A c, i : Place(b, c, i) => ctx[b[c][i]].sel.case = c

\* The prologue has queued the lanes below the cursor.
Queued ==
    /\ \A c \in Cases : Len(buckets[1][c]) = 0
    /\ Once(buckets[0])
    /\ \A l \in Lanes : Holds(buckets[0], l) <=> l < cursor
    /\ InItsQueue(buckets[0])

\* A lane waits in this step's queues or is in the next step's, never both.
Walking ==
    /\ mask \subseteq nonempty[Par]
    /\ IF mask = {} THEN cursor = 0 ELSE cursor < Len(buckets[Par][Least(mask)])
    /\ Once(buckets[Par]) /\ Once(buckets[Nxt])
    /\ \A c, i : ToRun(c, i) => ctx[buckets[Par][c][i]].sel.case = c
    /\ InItsQueue(buckets[Nxt])
    /\ \A l \in Lanes : Holds(buckets[Nxt], l) <=> ~Waits(l)

Queues ==
    /\ pc \in {"start", "walk"} =>
         \A par \in {0, 1} : nonempty[par] = {c \in Cases : Len(buckets[par][c]) > 0}
    /\ pc = "start" => Queued
    /\ pc = "walk" => Walking

\* The steps a lane has run and not had undone.
Run(l) ==
    CASE pc = "walk" -> IF Waits(l) THEN step ELSE step + 1
      [] pc = "stream" /\ l \in active -> step
      [] pc = "finalize" /\ l \in active -> Steps
      [] pc = "restore" /\ l \in active -> IF l < cursor THEN 0 ELSE Steps
      [] OTHER -> 0

\* The first n entries of a journal name what differs between two keys.
Named(key, clean, journal, n) ==
    \A i \in Slots : key[i] # clean[i] =>
        \E m \in 0 .. n - 1 : i \in {journal[m][1], journal[m][2]}
Dirt == pristine # NoKey => \A l \in Lanes : Named(keys[l], pristine, touched[l], Run(l))

Inv == TypeOK /\ Control /\ Memory /\ Queues /\ Dirt

----------------------------------------------------------------------------
LEMMA LanesAre ==
    /\ Cardinality(Lanes) \in Nat /\ Cardinality(Lanes) > 0
    /\ \A l : l \in Lanes <=> l \in Nat /\ l < Cardinality(Lanes)
    /\ 0 \in Lanes
  <1>1. Cardinality(Lanes) \in Nat
    BY HasherAssumption, FS_CardinalityType
  <1> QED
    BY <1>1, HasherAssumption

LEMMA Parities ==
    ASSUME step \in Nat
    PROVE  /\ Par \in {0, 1} /\ Nxt \in {0, 1} /\ Par # Nxt
           /\ step' = step + 1 => Par' = Nxt /\ Nxt' = Par
           /\ step = 0 => Par = 0 /\ Nxt = 1
  BY DEF Par, Nxt

LEMMA SlotsAre == 0 \in Slots /\ Mutable + 1 \in Slots
  BY MutableAssumption DEF Slots, KeyVecs

LEMMA InitInv == Init => Inv
  <1> SUFFICES ASSUME Init PROVE Inv
    OBVIOUS
  <1>0. pc = "idle" /\ pristine = NoKey /\ step = 0 /\ cursor = 0 /\ calls = 0
        /\ mask = {} /\ active = {} /\ hit = {}
    BY DEF Init
  <1>1. TypeOK
    <2>1. buckets \in [{0, 1} -> LaneQueues]
      BY DEF Init, NoBuckets, LaneQueues
    <2>2. nonempty \in [{0, 1} -> SUBSET Cases]
      BY DEF Init
    <2> QED
      BY <1>0, <2>1, <2>2, LanesAre, HasherAssumption DEF TypeOK, LaneQueues
  <1>2. Control
    BY <1>0 DEF Control
  <1>3. Memory
    <2>1. ctx = [l \in Lanes |-> [k |-> ctx[l].k, acc |-> ctx[l].acc, sel |-> ctx[l].sel]]
      BY DEF Init, NoContext
    <2>2. keys = [l \in Lanes |-> keys[l]]
      BY DEF Init
    <2>3. touched \in [Lanes -> [0 .. Steps - 1 -> Slots \X Slots]]
      BY SlotsAre DEF Init
    <2> QED
      BY <1>0, <2>1, <2>2, <2>3 DEF Memory
  <1>4. Queues
    BY <1>0 DEF Queues
  <1>5. Dirt
    BY <1>0 DEF Dirt
  <1> QED
    BY <1>1, <1>2, <1>3, <1>4, <1>5 DEF Inv

\* A longer prefix of the journal names no less.
LEMMA NamedMore ==
    ASSUME NEW key, NEW clean, NEW journal, NEW n \in Int, NEW m \in Int, n <= m,
           Named(key, clean, journal, n)
    PROVE  Named(key, clean, journal, m)
  BY DEF Named

\* A template: every key is the pristine one.
LEMMA ResetKeeps == Inv /\ Reset => Inv'
  <1> SUFFICES ASSUME Inv, Reset PROVE Inv'
    OBVIOUS
  <1>0. pc = "idle" /\ UNCHANGED <<touched, ctx, buckets, nonempty, mask, active, pc, step, cursor, hit, calls>>
    BY DEF Reset, queues, call
  <1>1. PICK t \in Templates : /\ pristine' = ExpandedKeys[t.head]
                               /\ keys' = [l \in Lanes |-> ExpandedKeys[t.head]]
    BY DEF Reset
  <1>2. IsKey(ExpandedKeys[t.head])
    <2>1. \A head : IsKey(GenKey(head))
      BY DEF GenKey, IsKey
    <2>2. ExpandedKeys[t.head] = GenKey(t.head)
      BY DEF ExpandedKeys
    <2> QED
      BY <2>1, <2>2
  <1>3. TypeOK'
    BY <1>0 DEF Inv, TypeOK
  <1>4. Control'
    BY <1>0 DEF Inv, Control
  <1>5. Memory'
    BY <1>0, <1>1, <1>2 DEF Inv, Memory
  <1>6. Queues'
    BY <1>0 DEF Queues
  <1>7. Dirt'
    BY <1>1 DEF Dirt, Named
  <1> QED
    BY <1>3, <1>4, <1>5, <1>6, <1>7 DEF Inv

LEMMA IdleIsClean ==
    ASSUME Inv, pc = "idle", pristine # NoKey, NEW l \in Lanes, NEW n \in Nat
    PROVE  Named(keys[l], pristine, touched[l], n)
  <1>1. Run(l) = 0
    BY DEF Run
  <1> QED
    BY <1>1, NamedMore DEF Inv, Dirt

LEMMA BeginKeeps ==
    ASSUME Inv, NEW nonces, NEW limit, NEW next,
           Begin(nonces, limit, next),
           \/ next = "start" /\ DOMAIN nonces = Lanes
           \/ next = "scalar" /\ DOMAIN nonces = {0}
    PROVE  Inv'
  <1>0. /\ pc = "idle" /\ pristine # NoKey /\ calls < MaxCalls
        /\ pc' = next /\ active' = DOMAIN nonces
        /\ step' = 0 /\ cursor' = 0 /\ hit' = {} /\ mask' = {}
        /\ buckets' = [par \in {0, 1} |-> NoBuckets] /\ nonempty' = [par \in {0, 1} |-> {}]
        /\ UNCHANGED <<pristine, keys, touched, ctx, calls>>
    BY DEF Begin, Ready
  <1>1. TypeOK'
    <2>1. buckets' \in [{0, 1} -> LaneQueues]
      BY <1>0 DEF NoBuckets, LaneQueues
    <2>2. nonempty' \in [{0, 1} -> SUBSET Cases]
      BY <1>0
    <2> QED
      BY <1>0, <2>1, <2>2, LanesAre, HasherAssumption DEF Inv, TypeOK, LaneQueues
  <1>2. Control'
    BY <1>0, HasherAssumption DEF Control
  <1>3. Memory'
    BY <1>0, LanesAre DEF Inv, Memory
  <1>4. Queues'
    <2>1. \A par \in {0, 1}, c \in Cases : buckets'[par][c] = <<>> /\ Len(buckets'[par][c]) = 0
      BY <1>0 DEF NoBuckets
    <2>2. \A par \in {0, 1} : nonempty'[par] = {c \in Cases : Len(buckets'[par][c]) > 0}
      BY <1>0, <2>1
    <2>3. \A c, i : ~Place(buckets'[0], c, i)
      BY <2>1 DEF Place
    <2>4. Queued'
      BY <1>0, <2>1, <2>3, LanesAre DEF Queued, Once, Holds, InItsQueue
    <2> QED
      BY <1>0, <2>2, <2>4 DEF Queues
  <1>5. Dirt'
    <2> SUFFICES ASSUME NEW l \in Lanes PROVE Named(keys[l], pristine, touched[l], Run(l)')
      BY <1>0 DEF Dirt
    <2>1. Run(l)' = 0
      BY <1>0 DEF Run
    <2> QED
      BY <1>0, <2>1, IdleIsClean
  <1> QED
    BY <1>1, <1>2, <1>3, <1>4, <1>5 DEF Inv

\* A queue that a lane is appended to, in the queues of both parities.
LEMMA Enqueued ==
    ASSUME TypeOK, NEW par \in {0, 1}, NEW c \in Cases, NEW l \in Lanes, Enqueue(par, c, l)
    PROVE  /\ buckets' \in [{0, 1} -> LaneQueues] /\ nonempty' \in [{0, 1} -> SUBSET Cases]
           /\ buckets'[par] = With(buckets[par], c, l)
           /\ nonempty'[par] = nonempty[par] \cup {c}
           /\ \A p \in {0, 1} : p # par =>
                buckets'[p] = buckets[p] /\ nonempty'[p] = nonempty[p]
  <1>1. buckets \in [{0, 1} -> LaneQueues] /\ nonempty \in [{0, 1} -> SUBSET Cases]
    BY DEF TypeOK, LaneQueues
  <1>2. buckets' = [buckets EXCEPT ![par] = With(buckets[par], c, l)]
    BY <1>1 DEF Enqueue, With
  <1>3. With(buckets[par], c, l) \in LaneQueues
    BY <1>1, Appended
  <1>4. nonempty' = [nonempty EXCEPT ![par] = @ \cup {c}]
    BY DEF Enqueue
  <1> HIDE DEF With, LaneQueues
  <1> QED
    BY <1>1, <1>2, <1>3, <1>4

LEMMA EnqueuedCounts ==
    ASSUME NEW b \in LaneQueues, NEW c \in Cases, NEW l \in Lanes
    PROVE  {d \in Cases : Len(b[d]) > 0} \cup {c} =
             {d \in Cases : Len(With(b, c, l)[d]) > 0}
  <1>1. \A d \in Cases : b[d] \in Seq(Lanes)
    BY DEF LaneQueues
  <1>2. \A d \in Cases : With(b, c, l)[d] = IF d = c THEN Append(b[c], l) ELSE b[d]
    BY DEF With, LaneQueues
  <1>3. Len(Append(b[c], l)) = Len(b[c]) + 1 /\ Len(b[c]) \in Nat
    BY <1>1
  <1>4. ASSUME NEW d \in Cases
        PROVE  Len(With(b, c, l)[d]) > 0 <=> d = c \/ Len(b[d]) > 0
    <2>1. CASE d = c
      <3>1. With(b, c, l)[d] = Append(b[c], l)
        BY <1>2, <2>1
      <3> QED
        BY <1>3, <2>1, <3>1
    <2>2. CASE d # c
      <3>1. With(b, c, l)[d] = b[d]
        BY <1>2, <2>2
      <3> QED
        BY <2>2, <3>1
    <2> QED
      BY <2>1, <2>2
  <1> QED
    BY <1>4

\* The prologue queues the lane of the cursor, which was in no queue.
LEMMA StartLaneKeeps == Inv /\ StartLane => Inv'
  <1> SUFFICES ASSUME Inv, StartLane PROVE Inv'
    OBVIOUS
  <1> DEFINE l == cursor
             start == LaneStart(l)
             c == start.sel.case
             b == buckets[0]
  <1>0. /\ pc = "start" /\ active = Lanes /\ step = 0 /\ pristine # NoKey /\ calls < MaxCalls
        /\ l \in Lanes /\ TypeOK /\ Memory /\ Queued
        /\ \A par \in {0, 1} : nonempty[par] = {d \in Cases : Len(buckets[par][d]) > 0}
    BY DEF StartLane, Inv, TypeOK, Control, Queues
  <1>1. /\ ctx' = [ctx EXCEPT ![l] = start]
        /\ Enqueue(0, c, l)
        /\ mask' = IF IsLast(l) THEN nonempty'[0] ELSE {}
        /\ NextLane("walk")
        /\ UNCHANGED <<pristine, keys, touched, active, step, hit, calls>>
    BY DEF StartLane, call
  <1>2. start = [k |-> start.k, acc |-> start.acc, sel |-> start.sel]
        /\ start.sel \in Selectors
    BY SelectorRange DEF LaneStart, Context
  <1>3. c \in Cases
    BY <1>2 DEF Selectors, Cases
  <1> HIDE DEF start
  <1>4. /\ buckets' \in [{0, 1} -> LaneQueues] /\ nonempty' \in [{0, 1} -> SUBSET Cases]
        /\ buckets'[0] = With(b, c, l) /\ nonempty'[0] = nonempty[0] \cup {c}
        /\ buckets'[1] = buckets[1] /\ nonempty'[1] = nonempty[1]
    BY <1>0, <1>1, <1>3, Enqueued
  <1>5. b \in LaneQueues
    BY <1>0 DEF TypeOK, LaneQueues
  <1>6. ~Holds(b, l) /\ Once(b)
    BY <1>0, LanesAre DEF Queued
  <1>7. Once(buckets'[0]) /\ \A m : Holds(buckets'[0], m) <=> Holds(b, m) \/ m = l
    BY <1>3, <1>4, <1>5, <1>6, <1>0, AppendedOnce
  <1>8. /\ ctx' = [m \in Lanes |-> [k |-> ctx'[m].k, acc |-> ctx'[m].acc, sel |-> ctx'[m].sel]]
        /\ ctx'[l] = start
        /\ \A m \in Lanes : m # l => ctx'[m] = ctx[m]
    <2>1. ctx = [m \in Lanes |-> [k |-> ctx[m].k, acc |-> ctx[m].acc, sel |-> ctx[m].sel]]
      BY <1>0 DEF Memory
    <2> QED
      BY <2>1, <1>0, <1>1, <1>2
  <1>9. (InItsQueue(buckets[0]))'
    <2>1. /\ \A d, i : Place(With(b, c, l), d, i) <=>
                          Place(b, d, i) \/ (d = c /\ i = Len(b[c]) + 1)
          /\ \A d, i : Place(b, d, i) => With(b, c, l)[d][i] = b[d][i]
          /\ With(b, c, l)[c][Len(b[c]) + 1] = l
      <3> HIDE DEF l, b, c
      <3>1. l \in Lanes
        BY <1>0
      <3> QED
        BY <3>1, <1>3, <1>5, Appended
    <2>4. \A d, i : Place(b, d, i) => b[d][i] \in Lanes /\ b[d][i] # l
      <3>1. \A d, i : Place(b, d, i) => b[d][i] \in Lanes
        BY <1>5 DEF Place, LaneQueues
      <3> QED
        BY <3>1, <1>6 DEF Holds
    <2>5. \A d, i : Place(b, d, i) => ctx[b[d][i]].sel.case = d
      BY <1>0 DEF Queued, InItsQueue
    <2> QED
      BY <2>1, <2>4, <2>5, <1>4, <1>8 DEF InItsQueue
  <1>10. \A par \in {0, 1} : nonempty'[par] = {d \in Cases : Len(buckets'[par][d]) > 0}
    <2>1. nonempty'[0] = {d \in Cases : Len(buckets'[0][d]) > 0}
      <3>1. nonempty[0] = {d \in Cases : Len(b[d]) > 0} /\ l \in Lanes
        BY <1>0
      <3> HIDE DEF b, c, l
      <3>2. nonempty[0] \cup {c} = {d \in Cases : Len(With(b, c, l)[d]) > 0}
        BY <3>1, <1>3, <1>5, EnqueuedCounts
      <3> QED
        BY <3>2, <1>4
    <2>2. nonempty'[1] = {d \in Cases : Len(buckets'[1][d]) > 0}
      BY <1>0, <1>4
    <2> QED
      BY <2>1, <2>2
  <1>11. Dirt'
    <2>1. \A m \in Lanes : Run(m) = 0
      BY <1>0 DEF Run
    <2>2. \A m \in Lanes : Run(m)' \in Int /\ Run(m)' >= 0
      BY <1>0, <1>1 DEF Run, NextLane
    <2> QED
      BY <1>0, <1>1, <2>1, <2>2, NamedMore DEF Inv, Dirt
  <1>12. \A m \in Lanes : m < l + 1 => ctx'[m].sel \in Selectors
    <2>1. \A m \in Lanes : m < l => ctx[m].sel \in Selectors
      BY <1>0 DEF Memory
    <2>2. \A m \in Lanes : m < l + 1 => m < l \/ m = l
      BY <1>0, LanesAre
    <2> HIDE DEF l
    <2> QED
      BY <1>2, <1>8, <2>1, <2>2
  <1>13. CASE ~IsLast(l)
    <2>0. l + 1 \in Lanes /\ cursor' = l + 1 /\ pc' = "start" /\ mask' = {}
      BY <1>0, <1>1, <1>13 DEF IsLast, NextLane
    <2>1. TypeOK'
      BY <1>0, <1>1, <1>4, <2>0 DEF TypeOK, LaneQueues
    <2>2. Control'
      BY <1>0, <1>1, <2>0 DEF Control
    <2>3. Memory'
      <3>1. \A m \in Lanes : m < l + 1 => ctx'[m].sel \in Selectors
        BY <1>12
      <3> QED
        BY <1>0, <1>1, <1>8, <2>0, <3>1 DEF Memory
    <2>4. Queues'
      <3>1. \A m \in Lanes : Holds(buckets'[0], m) <=> m < l + 1
        BY <1>0, <1>7, LanesAre DEF Queued
      <3> QED
        BY <1>0, <1>4, <1>7, <1>9, <1>10, <2>0, <3>1 DEF Queues, Queued
    <2> QED
      BY <1>11, <2>1, <2>2, <2>3, <2>4 DEF Inv
  <1>14. CASE IsLast(l)
    <2>0. l + 1 \notin Lanes /\ cursor' = 0 /\ pc' = "walk" /\ mask' = nonempty'[0]
      BY <1>0, <1>1, <1>14 DEF IsLast, NextLane
    <2>1. TypeOK'
      BY <1>0, <1>1, <1>4, <2>0, LanesAre DEF TypeOK, LaneQueues
    <2>2. Control'
      BY <1>0, <1>1, <2>0, HasherAssumption DEF Control
    <2>3. \A m \in Lanes : m < l + 1
      BY <1>0, <2>0, LanesAre
    <2>4. Memory'
      <3>1. \A m \in Lanes : ctx'[m].sel \in Selectors
        BY <1>12, <2>3
      <3> QED
        BY <1>0, <1>1, <1>8, <2>0, <3>1 DEF Memory
    <2>5. Par = 0 /\ Nxt = 1 /\ Par' = 0 /\ Nxt' = 1
      BY <1>0, <1>1 DEF Par, Nxt
    <2>6. \A d, i : ~Place(buckets'[1], d, i)
      BY <1>0, <1>4 DEF Queued, Place
    <2>7. \A d, i : ToRun(d, i)' <=> Place(buckets'[0], d, i)
      BY <1>10, <2>0, <2>5 DEF ToRun, Place
    <2>8. \A m \in Lanes : Waits(m)'
      <3>1. \A m \in Lanes : Holds(buckets'[0], m)
        BY <1>0, <1>7, <2>3, LanesAre DEF Queued
      <3> QED
        BY <3>1, <2>5, <2>7 DEF Waits, Holds
    <2>9. mask' # {} => 0 < Len(buckets'[0][Least(mask')])
      <3>1. mask' \in SUBSET Cases
        BY <2>0, <1>4
      <3> QED
        BY <3>1, <1>10, <2>0, LeastOf
    <2>10. Walking'
      <3>1. Once(buckets'[1]) /\ (InItsQueue(buckets[1]))' /\ \A m : ~Holds(buckets'[1], m)
        BY <2>6 DEF Once, InItsQueue, Holds
      <3>2. \A d, i : ToRun(d, i)' => ctx'[buckets'[0][d][i]].sel.case = d
        BY <2>7, <1>9 DEF InItsQueue
      <3> QED
        BY <3>1, <3>2, <1>7, <2>0, <2>5, <2>8, <2>9 DEF Walking
    <2>11. Queues'
      BY <1>10, <2>0, <2>10 DEF Queues
    <2> QED
      BY <1>11, <2>1, <2>2, <2>4, <2>11 DEF Inv
  <1> QED
    BY <1>13, <1>14

\* A step of one lane: its journal names what its key lost, the others stay.
LEMMA LaneStepped ==
    ASSUME Memory, NEW l \in Lanes, NEW c, StepLane(l, c), ctx[l].sel \in Selectors,
           pristine # NoKey, step \in 0 .. Steps - 1
    PROVE  /\ ctx' = [m \in Lanes |-> [k |-> ctx'[m].k, acc |-> ctx'[m].acc, sel |-> ctx'[m].sel]]
           /\ ctx'[l].sel \in Selectors
           /\ \A m \in Lanes : m # l => ctx'[m] = ctx[m]
           /\ keys' = [m \in Lanes |-> keys'[m]] /\ \A m \in Lanes : IsKey(keys'[m])
           /\ touched' \in [Lanes -> [0 .. Steps - 1 -> Slots \X Slots]]
           /\ \A m \in Lanes : m # l => keys'[m] = keys[m] /\ touched'[m] = touched[m]
           /\ Named(keys[l], pristine, touched[l], step) =>
                Named(keys'[l], pristine, touched'[l], step + 1)
  <1> DEFINE s == ctx[l].sel
             done == Body(Fast, c, s, ctx[l].k, ctx[l].acc, keys[l])
  <1>1. /\ touched' = [touched EXCEPT ![l][step] = <<s.prand, s.prandex>>]
        /\ keys' = [keys EXCEPT ![l] = done.key]
        /\ ctx' = [ctx EXCEPT ![l] = Context(@.k, done.acc)]
    BY DEF StepLane, LaneLeft, Journal
  <1>2. IsKey(keys[l])
    BY DEF Memory
  <1>3. IsKey(done.key) /\ \A n \in Slots : done.key[n] # keys[l][n] => n \in {s.prand, s.prandex}
    BY <1>2, BodyWritesTwoSlots
  <1>4. SelectorOf(done.acc) \in Selectors
    BY SelectorRange
  <1>5. s.prand \in Slots /\ s.prandex \in Slots
    BY SlotsOf
  <1> HIDE DEF done
  <1>6. /\ ctx' = [m \in Lanes |-> [k |-> ctx'[m].k, acc |-> ctx'[m].acc, sel |-> ctx'[m].sel]]
        /\ ctx'[l].sel = SelectorOf(done.acc)
        /\ \A m \in Lanes : m # l => ctx'[m] = ctx[m]
    <2>1. ctx = [m \in Lanes |-> [k |-> ctx[m].k, acc |-> ctx[m].acc, sel |-> ctx[m].sel]]
      BY DEF Memory
    <2>2. ctx' = [ctx EXCEPT ![l] = [k |-> ctx[l].k, acc |-> done.acc, sel |-> SelectorOf(done.acc)]]
      BY <1>1, <2>1 DEF Context
    <2> QED
      BY <2>1, <2>2
  <1>7. /\ keys' = [m \in Lanes |-> keys'[m]] /\ keys'[l] = done.key
        /\ \A m \in Lanes : m # l => keys'[m] = keys[m]
    BY <1>1 DEF Memory
  <1>8. \A m \in Lanes : IsKey(keys'[m])
    BY <1>3, <1>7 DEF Memory
  <1>9. /\ touched' \in [Lanes -> [0 .. Steps - 1 -> Slots \X Slots]]
        /\ touched'[l][step] = <<s.prand, s.prandex>>
        /\ \A m \in Lanes : m # l => touched'[m] = touched[m]
        /\ \A n \in 0 .. Steps - 1 : n # step => touched'[l][n] = touched[l][n]
    <2>1. touched \in [Lanes -> [0 .. Steps - 1 -> Slots \X Slots]]
      BY DEF Memory
    <2>2. <<s.prand, s.prandex>> \in Slots \X Slots
      BY <1>5
    <2> QED
      BY <1>1, <2>1, <2>2
  <1>10. ASSUME Named(keys[l], pristine, touched[l], step)
         PROVE  Named(keys'[l], pristine, touched'[l], step + 1)
    <2> SUFFICES ASSUME NEW i \in Slots, keys'[l][i] # pristine[i]
                 PROVE  \E n \in 0 .. step : i \in {touched'[l][n][1], touched'[l][n][2]}
      BY DEF Named
    <2>1. CASE keys'[l][i] = keys[l][i]
      <3>1. PICK n \in 0 .. step - 1 : i \in {touched[l][n][1], touched[l][n][2]}
        BY <1>10, <2>1 DEF Named
      <3>2. n \in 0 .. Steps - 1 /\ n # step /\ n \in 0 .. step
        BY HasherAssumption
      <3> QED
        BY <1>9, <3>1, <3>2
    <2>2. CASE keys'[l][i] # keys[l][i]
      <3>1. i \in {s.prand, s.prandex}
        BY <1>3, <1>7, <2>2
      <3>2. i \in {touched'[l][step][1], touched'[l][step][2]}
        BY <1>9, <3>1
      <3> QED
        BY <3>2
    <2> QED
      BY <2>1, <2>2
  <1> QED
    BY <1>4, <1>6, <1>7, <1>8, <1>9, <1>10

\* One lane of the least queue: it waits no more, and the others wait as before.
LEMMA RunLaneKeeps == Inv /\ RunLane => Inv'
  <1> SUFFICES ASSUME Inv, RunLane PROVE Inv'
    OBVIOUS
  <1> DEFINE b == buckets[Par]
             d == buckets[Nxt]
             c == Least(mask)
             l == b[c][cursor + 1]
             new == ctx'[l].sel.case
  <1>0. /\ pc = "walk" /\ mask # {} /\ active = Lanes /\ step \in 0 .. Steps - 1
        /\ pristine # NoKey /\ calls < MaxCalls /\ TypeOK /\ Memory /\ Walking
        /\ \A par \in {0, 1} : nonempty[par] = {q \in Cases : Len(buckets[par][q]) > 0}
        /\ cursor \in Nat /\ step \in Nat
    BY LanesAre, HasherAssumption DEF RunLane, Inv, TypeOK, Control, Queues
  <1>1. /\ StepLane(l, c) /\ Enqueue(Nxt, new, l)
        /\ IF cursor + 1 < Len(b[c]) THEN cursor' = cursor + 1 /\ mask' = mask
                                     ELSE cursor' = 0 /\ mask' = mask \ {c}
        /\ UNCHANGED <<pristine, active, pc, step, hit, calls>>
    BY DEF RunLane, call
  <1>2. /\ Par \in {0, 1} /\ Nxt \in {0, 1} /\ Par # Nxt /\ Par' = Par /\ Nxt' = Nxt
    BY <1>0, <1>1, Parities DEF Par, Nxt
  <1>3. b \in LaneQueues /\ d \in LaneQueues
    BY <1>0, <1>2 DEF TypeOK, LaneQueues
  <1>4. c \in mask /\ c \in Cases /\ \A q \in mask : c <= q
    <2>1. mask \in SUBSET Cases
      BY <1>0 DEF TypeOK
    <2> QED
      BY <1>0, <2>1, LeastOf
  <1>5. cursor < Len(b[c]) /\ Len(b[c]) \in Nat /\ b[c] \in Seq(Lanes)
    BY <1>0, <1>3, <1>4 DEF Walking, LaneQueues
  <1>6. l \in Lanes
    BY <1>0, <1>5
  <1>7. ToRun(c, cursor + 1) /\ Place(b, c, cursor + 1)
    BY <1>0, <1>4, <1>5 DEF ToRun, Place
  <1> HIDE DEF c, l
  <1>8. Waits(l)
    BY <1>7 DEF Waits, l
  <1>9. ctx[l].sel \in Selectors
    BY <1>0, <1>6 DEF Memory
  <1>10. /\ ctx' = [m \in Lanes |-> [k |-> ctx'[m].k, acc |-> ctx'[m].acc, sel |-> ctx'[m].sel]]
         /\ ctx'[l].sel \in Selectors
         /\ \A m \in Lanes : m # l => ctx'[m] = ctx[m]
         /\ keys' = [m \in Lanes |-> keys'[m]] /\ \A m \in Lanes : IsKey(keys'[m])
         /\ touched' \in [Lanes -> [0 .. Steps - 1 -> Slots \X Slots]]
         /\ \A m \in Lanes : m # l => keys'[m] = keys[m] /\ touched'[m] = touched[m]
         /\ Named(keys[l], pristine, touched[l], step) =>
              Named(keys'[l], pristine, touched'[l], step + 1)
    BY <1>0, <1>1, <1>6, <1>9, LaneStepped
  <1>11. new \in Cases
    BY <1>10 DEF Selectors, Cases
  <1>12. /\ buckets' \in [{0, 1} -> LaneQueues] /\ nonempty' \in [{0, 1} -> SUBSET Cases]
         /\ buckets'[Nxt] = With(d, new, l) /\ nonempty'[Nxt] = nonempty[Nxt] \cup {new}
         /\ buckets'[Par] = b /\ nonempty'[Par] = nonempty[Par]
    BY <1>0, <1>1, <1>2, <1>6, <1>11, Enqueued
  <1>13. ~Holds(d, l) /\ Once(b) /\ Once(d)
    BY <1>0, <1>6, <1>8 DEF Walking
  <1>14. Once(buckets'[Nxt]) /\ \A m : Holds(buckets'[Nxt], m) <=> Holds(d, m) \/ m = l
    <2> HIDE DEF d, new
    <2> QED
      BY <1>3, <1>6, <1>11, <1>12, <1>13, AppendedOnce
  <1>15. mask' \subseteq mask /\ mask' \subseteq Cases
    BY <1>0, <1>1 DEF TypeOK
  <1>16. \A q \in mask : Len(b[q]) > 0
    BY <1>0, <1>2 DEF Walking
  <1>17. IF mask' = {} THEN cursor' = 0 ELSE cursor' < Len(b[Least(mask')])
    <2>1. CASE cursor + 1 < Len(b[c])
      <3>1. cursor' = cursor + 1 /\ mask' = mask
        BY <1>1, <2>1
      <3>2. Least(mask') = c
        BY <3>1 DEF c
      <3> QED
        BY <1>0, <2>1, <3>1, <3>2
    <2>2. CASE ~(cursor + 1 < Len(b[c]))
      <3>1. cursor' = 0
        BY <1>1, <2>2
      <3>2. mask' # {} => Least(mask') \in mask
        <4>1. mask' \in SUBSET Cases
          BY <1>15
        <4> QED
          BY <4>1, <1>15, LeastOf
      <3> QED
        BY <1>16, <3>1, <3>2
    <2> QED
      BY <2>1, <2>2
  <1>18. \A q, i : ToRun(q, i)' <=> ToRun(q, i) /\ ~(q = c /\ i = cursor + 1)
    <2>1. \A q, i : ToRun(q, i) <=> Place(b, q, i) /\ q \in mask /\ (q = c => i > cursor)
      BY DEF ToRun, c
    <2>2. \A q, i : ToRun(q, i)' <=> Place(b, q, i) /\ q \in mask' /\ (q = Least(mask') => i > cursor')
      BY <1>2, <1>12 DEF ToRun
    <2>3. \A q, i : Place(b, q, i) => i \in Nat /\ i > 0
      BY <1>3 DEF Place, LaneQueues
    <2>4. CASE cursor + 1 < Len(b[c])
      <3>1. cursor' = cursor + 1 /\ mask' = mask /\ Least(mask') = c
        BY <1>1, <2>4 DEF c
      <3> QED
        BY <1>0, <2>1, <2>2, <2>3, <3>1
    <2>5. CASE ~(cursor + 1 < Len(b[c]))
      <3>1. cursor' = 0 /\ mask' = mask \ {c}
        BY <1>1, <2>5
      <3>2. \A i : Place(b, c, i) /\ i > cursor => i = cursor + 1
        BY <1>0, <1>5, <2>5 DEF Place
      <3> QED
        BY <1>0, <2>1, <2>2, <2>3, <3>1, <3>2
    <2> QED
      BY <2>4, <2>5
  <1>19. \A m : Waits(m)' <=> Waits(m) /\ m # l
    <2>1. \A q, i : ToRun(q, i) => Place(b, q, i)
      BY DEF ToRun
    <2>2. \A q, i : ToRun(q, i) => (b[q][i] = l <=> q = c /\ i = cursor + 1)
      BY <1>7, <1>13, <2>1 DEF Once, l
    <2> QED
      BY <1>2, <1>12, <1>18, <2>2 DEF Waits
  <1>20. (InItsQueue(buckets[Nxt]))'
    <2>1. /\ \A q, i : Place(With(d, new, l), q, i) <=>
                         Place(d, q, i) \/ (q = new /\ i = Len(d[new]) + 1)
          /\ \A q, i : Place(d, q, i) => With(d, new, l)[q][i] = d[q][i]
          /\ With(d, new, l)[new][Len(d[new]) + 1] = l
      <3> HIDE DEF d, new
      <3> QED
        BY <1>3, <1>6, <1>11, Appended
    <2>2. \A q, i : Place(d, q, i) => d[q][i] \in Lanes /\ d[q][i] # l
      <3>1. \A q, i : Place(d, q, i) => d[q][i] \in Lanes
        BY <1>3 DEF Place, LaneQueues
      <3> QED
        BY <3>1, <1>13 DEF Holds
    <2>3. \A q, i : Place(d, q, i) => ctx[d[q][i]].sel.case = q
      BY <1>0 DEF Walking, InItsQueue
    <2>4. \A q, i : Place(buckets'[Nxt], q, i) => ctx'[buckets'[Nxt][q][i]].sel.case = q
      <3> SUFFICES ASSUME NEW q, NEW i, Place(With(d, new, l), q, i)
                   PROVE  ctx'[With(d, new, l)[q][i]].sel.case = q
        BY <1>12
      <3>1. CASE Place(d, q, i)
        BY <1>10, <2>1, <2>2, <2>3, <3>1
      <3>2. CASE ~Place(d, q, i)
        <4>1. q = new /\ i = Len(d[new]) + 1 /\ With(d, new, l)[q][i] = l
          BY <2>1, <3>2
        <4> QED
          BY <4>1
      <3> QED
        BY <3>1, <3>2
    <2> QED
      BY <1>2, <2>4 DEF InItsQueue
  <1>21. \A q, i : ToRun(q, i)' => ctx'[buckets'[Par][q][i]].sel.case = q
    <2>1. \A q, i : ToRun(q, i) => b[q][i] \in Lanes
      BY <1>3 DEF ToRun, Place, LaneQueues
    <2>2. \A q, i : ToRun(q, i)' => b[q][i] # l /\ ToRun(q, i)
      <3>1. \A q, i : ToRun(q, i) => Place(b, q, i)
        BY DEF ToRun
      <3> QED
        BY <1>7, <1>13, <1>18, <3>1 DEF Once, l
    <2>3. \A q, i : ToRun(q, i) => ctx[b[q][i]].sel.case = q
      BY <1>0 DEF Walking
    <2> QED
      BY <2>1, <2>2, <2>3, <1>10, <1>12
  <1>22. \A par \in {0, 1} : nonempty'[par] = {q \in Cases : Len(buckets'[par][q]) > 0}
    <2>1. nonempty'[Nxt] = {q \in Cases : Len(buckets'[Nxt][q]) > 0}
      <3>1. nonempty[Nxt] = {q \in Cases : Len(d[q]) > 0}
        BY <1>0, <1>2
      <3> HIDE DEF d, new
      <3>2. nonempty[Nxt] \cup {new} = {q \in Cases : Len(With(d, new, l)[q]) > 0}
        BY <3>1, <1>3, <1>6, <1>11, EnqueuedCounts
      <3> QED
        BY <3>2, <1>12
    <2>2. nonempty'[Par] = {q \in Cases : Len(buckets'[Par][q]) > 0}
      BY <1>0, <1>2, <1>12
    <2> QED
      BY <2>1, <2>2, <1>2
  <1>23. cursor' \in Lanes
    <2>1. Len(b[c]) <= Cardinality(Lanes)
      BY <1>3, <1>4, <1>13, QueueFits
    <2> QED
      BY <1>0, <1>1, <1>5, <2>1, LanesAre
  <1>24. TypeOK'
    BY <1>0, <1>1, <1>12, <1>15, <1>23 DEF TypeOK, LaneQueues
  <1>25. Control'
    BY <1>0, <1>1, HasherAssumption DEF Control
  <1>26. Memory'
    <2>1. \A m \in Lanes : ctx'[m].sel \in Selectors
      BY <1>0, <1>10 DEF Memory
    <2> QED
      BY <1>0, <1>1, <1>10, <2>1 DEF Memory
  <1>27. Queues'
    <2>1. mask' \subseteq nonempty'[Par]
      BY <1>0, <1>12, <1>15 DEF Walking
    <2>2. \A m \in Lanes : Holds(buckets'[Nxt], m) <=> ~Waits(m)'
      BY <1>0, <1>14, <1>19 DEF Walking
    <2>3. Walking'
      BY <1>2, <1>12, <1>13, <1>14, <1>17, <1>20, <1>21, <2>1, <2>2 DEF Walking
    <2> QED
      BY <1>0, <1>1, <1>22, <2>3 DEF Queues
  <1>28. Dirt'
    <2> SUFFICES ASSUME NEW m \in Lanes
                 PROVE  Named(keys'[m], pristine, touched'[m], Run(m)')
      BY <1>1 DEF Dirt
    <2>1. Named(keys[m], pristine, touched[m], Run(m))
      BY <1>0 DEF Inv, Dirt
    <2>2. Run(m) = IF Waits(m) THEN step ELSE step + 1
      BY <1>0 DEF Run
    <2>3. Run(m)' = IF Waits(m)' THEN step ELSE step + 1
      BY <1>0, <1>1 DEF Run
    <2>4. CASE m = l
      BY <1>8, <1>10, <1>19, <2>1, <2>2, <2>3, <2>4
    <2>5. CASE m # l
      BY <1>10, <1>19, <2>1, <2>2, <2>3, <2>5
    <2> QED
      BY <2>4, <2>5
  <1> QED
    BY <1>24, <1>25, <1>26, <1>27, <1>28 DEF Inv

\* All lanes are in the next step's queues, which become this step's.
LEMMA EndStepKeeps == Inv /\ EndStep => Inv'
  <1> SUFFICES ASSUME Inv, EndStep PROVE Inv'
    OBVIOUS
  <1> DEFINE d == buckets[Nxt]
  <1>0. /\ pc = "walk" /\ mask = {} /\ active = Lanes /\ step \in 0 .. Steps - 1 /\ step \in Nat
        /\ pristine # NoKey /\ calls < MaxCalls /\ TypeOK /\ Memory /\ Walking /\ cursor = 0
        /\ \A par \in {0, 1} : nonempty[par] = {q \in Cases : Len(buckets[par][q]) > 0}
    BY HasherAssumption DEF EndStep, Inv, TypeOK, Control, Queues, Walking
  <1>1. /\ buckets' = [buckets EXCEPT ![Par] = NoBuckets]
        /\ nonempty' = [nonempty EXCEPT ![Par] = {}]
        /\ step' = step + 1
        /\ IF LastStep THEN mask' = {} /\ pc' = "finalize" ELSE mask' = nonempty[Nxt] /\ pc' = pc
        /\ UNCHANGED <<pristine, keys, touched, ctx, active, cursor, hit, calls>>
    BY DEF EndStep, Emptied, call
  <1>2. Par \in {0, 1} /\ Nxt \in {0, 1} /\ Par # Nxt /\ Par' = Nxt /\ Nxt' = Par
    BY <1>0, <1>1, Parities
  <1>3. /\ buckets' \in [{0, 1} -> LaneQueues] /\ nonempty' \in [{0, 1} -> SUBSET Cases]
        /\ buckets'[Nxt] = d /\ nonempty'[Nxt] = nonempty[Nxt]
        /\ buckets'[Par] = NoBuckets /\ nonempty'[Par] = {}
    <2>1. buckets \in [{0, 1} -> LaneQueues] /\ nonempty \in [{0, 1} -> SUBSET Cases]
      BY <1>0 DEF TypeOK, LaneQueues
    <2>2. NoBuckets \in LaneQueues
      BY DEF NoBuckets, LaneQueues
    <2> HIDE DEF LaneQueues
    <2> QED
      BY <1>1, <1>2, <2>1, <2>2
  <1>4. \A q \in Cases : NoBuckets[q] = <<>> /\ Len(NoBuckets[q]) = 0
    BY DEF NoBuckets
  <1>5. \A m : ~Waits(m)
    BY <1>0 DEF Waits, ToRun
  <1>6. \A m \in Lanes : Run(m) = step + 1
    BY <1>0, <1>5 DEF Run
  <1>7. \A m \in Lanes : Named(keys[m], pristine, touched[m], step + 1)
    BY <1>0, <1>6 DEF Inv, Dirt
  <1>8. Dirt'
    <2>1. \A m \in Lanes : Run(m)' \in Int /\ Run(m)' >= step + 1
      BY <1>0, <1>1, HasherAssumption DEF Run, LastStep
    <2> QED
      BY <1>0, <1>1, <1>7, <2>1, NamedMore DEF Dirt
  <1>9. mask' \subseteq Cases
    BY <1>0, <1>1, <1>2 DEF TypeOK
  <1>10. TypeOK'
    BY <1>0, <1>1, <1>3, <1>9, HasherAssumption DEF TypeOK, LaneQueues
  <1>11. CASE LastStep
    <2>0. pc' = "finalize" /\ step' = Steps
      BY <1>0, <1>1, <1>11, HasherAssumption DEF LastStep
    <2>1. Control'
      BY <1>0, <1>1, <2>0, LanesAre DEF Control
    <2>2. Memory'
      BY <1>0, <1>1, <2>0 DEF Memory
    <2>3. Queues'
      BY <2>0 DEF Queues
    <2> QED
      BY <1>8, <1>10, <2>1, <2>2, <2>3 DEF Inv
  <1>12. CASE ~LastStep
    <2>0. pc' = "walk" /\ mask' = nonempty[Nxt] /\ step + 1 < Steps
      BY <1>0, <1>1, <1>12, HasherAssumption DEF LastStep
    <2>1. Control'
      BY <1>0, <1>1, <2>0 DEF Control
    <2>2. Memory'
      BY <1>0, <1>1, <2>0 DEF Memory
    <2>3. \A q, i : ToRun(q, i)' <=> Place(d, q, i)
      <3>1. \A q, i : Place(d, q, i) => q \in nonempty[Nxt] /\ i > 0
        BY <1>0, <1>2 DEF Place
      <3> QED
        BY <1>0, <1>1, <1>2, <1>3, <2>0, <3>1 DEF ToRun
    <2>4. \A m : Waits(m)' <=> Holds(d, m)
      BY <1>2, <1>3, <2>3 DEF Waits, Holds
    <2>5. \A q, i : ~Place(NoBuckets, q, i)
      BY <1>4 DEF Place
    <2>6. mask' # {} => cursor' < Len(d[Least(mask')])
      <3>1. mask' # {} => Least(mask') \in nonempty[Nxt]
        BY <1>9, <2>0, LeastOf
      <3> QED
        BY <1>0, <1>1, <1>2, <3>1
    <2>7. Walking'
      <3>1. Once(buckets'[Nxt]) /\ Once(buckets'[Par])
        BY <1>0, <1>3, <2>5 DEF Walking, Once
      <3>2. \A q, i : ToRun(q, i)' => ctx'[buckets'[Nxt][q][i]].sel.case = q
        BY <1>0, <1>1, <1>3, <2>3 DEF Walking, InItsQueue
      <3>3. \A q, i : Place(buckets'[Par], q, i) => ctx'[buckets'[Par][q][i]].sel.case = q
        BY <1>3, <2>5
      <3>4. \A m \in Lanes : Holds(buckets'[Par], m) <=> ~Waits(m)'
        <4>1. \A m \in Lanes : Holds(d, m)
          BY <1>0, <1>5 DEF Walking
        <4>2. \A m : ~Holds(buckets'[Par], m)
          BY <1>3, <2>5 DEF Holds
        <4> QED
          BY <2>4, <4>1, <4>2
      <3>5. IF mask' = {} THEN cursor' = 0 ELSE cursor' < Len(buckets'[Nxt][Least(mask')])
        BY <1>0, <1>1, <1>3, <2>6
      <3> QED
        BY <1>2, <1>3, <2>0, <3>1, <3>2, <3>3, <3>4, <3>5 DEF Walking, InItsQueue
    <2>8. \A par \in {0, 1} : nonempty'[par] = {q \in Cases : Len(buckets'[par][q]) > 0}
      <3>1. nonempty'[Nxt] = {q \in Cases : Len(buckets'[Nxt][q]) > 0}
        BY <1>0, <1>2, <1>3
      <3>2. nonempty'[Par] = {q \in Cases : Len(buckets'[Par][q]) > 0}
        BY <1>3, <1>4
      <3> QED
        BY <1>2, <3>1, <3>2
    <2>9. Queues'
      BY <2>0, <2>7, <2>8 DEF Queues
    <2> QED
      BY <1>8, <1>10, <2>1, <2>2, <2>9 DEF Inv
  <1> QED
    BY <1>11, <1>12

----------------------------------------------------------------------------
(* The single stream, and the loops after a walk.                           *)

LEMMA StartScalarKeeps == Inv /\ StartScalar => Inv'
  <1> SUFFICES ASSUME Inv, StartScalar PROVE Inv'
    OBVIOUS
  <1>0. /\ pc = "scalar" /\ pc' = "stream" /\ active = {0} /\ step = 0 /\ cursor = 0
        /\ pristine # NoKey /\ TypeOK /\ Memory /\ Control
        /\ ctx' = [ctx EXCEPT ![0] = LaneStart(0)]
        /\ UNCHANGED <<pristine, keys, touched, buckets, nonempty, mask, active, step, cursor, hit, calls>>
    BY DEF StartScalar, Inv, Control, queues, call
  <1>1. TypeOK'
    BY <1>0 DEF TypeOK
  <1>2. Control'
    BY <1>0 DEF Control
  <1>3. Memory'
    <2>1. LaneStart(0) = [k |-> LaneStart(0).k, acc |-> LaneStart(0).acc, sel |-> LaneStart(0).sel]
          /\ LaneStart(0).sel \in Selectors
      BY SelectorRange DEF LaneStart, Context
    <2>2. ctx = [m \in Lanes |-> [k |-> ctx[m].k, acc |-> ctx[m].acc, sel |-> ctx[m].sel]]
      BY <1>0 DEF Memory
    <2>3. /\ ctx' = [m \in Lanes |-> [k |-> ctx'[m].k, acc |-> ctx'[m].acc, sel |-> ctx'[m].sel]]
          /\ ctx'[0].sel \in Selectors
      BY <1>0, <2>1, <2>2, LanesAre
    <2> QED
      BY <1>0, <2>3 DEF Memory
  <1>4. Queues'
    BY <1>0 DEF Queues
  <1>5. Dirt'
    <2>1. \A m \in Lanes : Run(m) = 0
      BY <1>0 DEF Run
    <2>2. \A m \in Lanes : Run(m)' = 0
      BY <1>0 DEF Run
    <2> QED
      BY <1>0, <2>1, <2>2 DEF Inv, Dirt
  <1> QED
    BY <1>1, <1>2, <1>3, <1>4, <1>5 DEF Inv

LEMMA ScalarStepKeeps == Inv /\ ScalarStep => Inv'
  <1> SUFFICES ASSUME Inv, ScalarStep PROVE Inv'
    OBVIOUS
  <1>0. /\ pc = "stream" /\ step \in 0 .. Steps - 1 /\ step' = step + 1
        /\ active = {0} /\ pristine # NoKey /\ TypeOK /\ Memory /\ Control
        /\ StepLane(0, ctx[0].sel.case) /\ ctx[0].sel \in Selectors /\ 0 \in Lanes
        /\ UNCHANGED <<pristine, buckets, nonempty, mask, active, pc, cursor, hit, calls>>
    BY LanesAre, HasherAssumption DEF ScalarStep, Inv, TypeOK, Control, Memory, queues, call
  <1>1. /\ ctx' = [m \in Lanes |-> [k |-> ctx'[m].k, acc |-> ctx'[m].acc, sel |-> ctx'[m].sel]]
        /\ ctx'[0].sel \in Selectors
        /\ keys' = [m \in Lanes |-> keys'[m]] /\ \A m \in Lanes : IsKey(keys'[m])
        /\ touched' \in [Lanes -> [0 .. Steps - 1 -> Slots \X Slots]]
        /\ \A m \in Lanes : m # 0 => keys'[m] = keys[m] /\ touched'[m] = touched[m]
        /\ Named(keys[0], pristine, touched[0], step) =>
             Named(keys'[0], pristine, touched'[0], step + 1)
    BY <1>0, LaneStepped
  <1>2. TypeOK'
    BY <1>0, HasherAssumption DEF TypeOK
  <1>3. Control'
    BY <1>0 DEF Control
  <1>4. Memory'
    BY <1>0, <1>1 DEF Memory
  <1>5. Queues'
    BY <1>0 DEF Queues
  <1>6. Dirt'
    <2> SUFFICES ASSUME NEW m \in Lanes
                 PROVE  Named(keys'[m], pristine, touched'[m], Run(m)')
      BY <1>0 DEF Dirt
    <2>1. Named(keys[m], pristine, touched[m], Run(m))
      BY <1>0 DEF Inv, Dirt
    <2>2. Run(m) = IF m = 0 THEN step ELSE 0
      BY <1>0 DEF Run
    <2>3. Run(m)' = IF m = 0 THEN step + 1 ELSE 0
      BY <1>0 DEF Run
    <2>4. CASE m = 0
      BY <1>1, <2>1, <2>2, <2>3, <2>4
    <2>5. CASE m # 0
      BY <1>1, <2>1, <2>2, <2>3, <2>5
    <2> QED
      BY <2>4, <2>5
  <1> QED
    BY <1>2, <1>3, <1>4, <1>5, <1>6 DEF Inv

LEMMA EndScalarKeeps == Inv /\ EndScalar => Inv'
  <1> SUFFICES ASSUME Inv, EndScalar PROVE Inv'
    OBVIOUS
  <1>0. /\ pc = "stream" /\ pc' = "finalize" /\ step = Steps
        /\ active = {0} /\ cursor = 0 /\ TypeOK /\ Memory /\ Control
        /\ UNCHANGED <<pristine, keys, touched, ctx, buckets, nonempty, mask, active, step, cursor, hit, calls>>
    BY DEF EndScalar, Inv, Control, queues, call
  <1>1. TypeOK'
    BY <1>0 DEF TypeOK
  <1>2. Control'
    BY <1>0 DEF Control
  <1>3. Memory'
    BY <1>0 DEF Memory
  <1>4. Queues'
    BY <1>0 DEF Queues
  <1>5. Dirt'
    <2>1. \A m \in Lanes : Run(m)' = Run(m)
      BY <1>0 DEF Run
    <2> QED
      BY <1>0, <2>1 DEF Inv, Dirt
  <1> QED
    BY <1>1, <1>2, <1>3, <1>4, <1>5 DEF Inv

\* The next lane of a loop is one of the call's.
LEMMA TurnTaken ==
    ASSUME active \in {{0}, Lanes}, cursor \in active, NEW next, NextLane(next), active' = active
    PROVE  /\ cursor' \in active /\ cursor' \in Lanes
           /\ ~IsLast(cursor) => cursor' = cursor + 1 /\ pc' = pc
           /\ IsLast(cursor) => /\ cursor' = 0 /\ pc' = next
                                /\ \A m \in active : m <= cursor
  BY LanesAre DEF NextLane, IsLast

LEMMA FinalizeKeeps == Inv /\ Finalize => Inv'
  <1> SUFFICES ASSUME Inv, Finalize PROVE Inv'
    OBVIOUS
  <1>0. /\ pc = "finalize" /\ NextLane("restore") /\ active \in {{0}, Lanes} /\ cursor \in active
        /\ pristine # NoKey /\ TypeOK /\ Memory /\ Control /\ hit' \subseteq hit \cup {cursor}
        /\ UNCHANGED <<pristine, keys, touched, ctx, buckets, nonempty, mask, active, step, calls>>
    BY DEF Finalize, Inv, Control, queues, call
  <1>1. cursor' \in active /\ cursor' \in Lanes /\ pc' \in {"finalize", "restore"}
        /\ (pc' = "restore" => cursor' = 0)
    BY <1>0, TurnTaken
  <1>2. TypeOK'
    BY <1>0, <1>1 DEF TypeOK
  <1>3. Control'
    BY <1>0, <1>1 DEF Control
  <1>4. Memory'
    BY <1>0, <1>1 DEF Memory
  <1>5. Queues'
    BY <1>1 DEF Queues
  <1>6. Dirt'
    <2>1. \A m \in Lanes : m \in active => Run(m) = Steps /\ Run(m)' = Steps
      BY <1>0, <1>1, LanesAre DEF Run
    <2>2. \A m \in Lanes : m \notin active => Run(m) = 0 /\ Run(m)' = 0
      BY <1>0, <1>1 DEF Run
    <2> QED
      BY <1>0, <2>1, <2>2 DEF Inv, Dirt
  <1> QED
    BY <1>2, <1>3, <1>4, <1>5, <1>6 DEF Inv

\* The slots a whole journal names are put back, and nothing else had changed.
LEMMA RestoredIsClean ==
    ASSUME NEW journal, NEW key, IsKey(key), NEW clean, Named(key, clean, journal, Steps)
    PROVE  /\ IsKey(Restored(journal, key, clean))
           /\ Named(Restored(journal, key, clean), clean, journal, 0)
  <1>1. IsKey(Restored(journal, key, clean))
    BY DEF Restored, IsKey
  <1>2. \A i \in Slots : Restored(journal, key, clean)[i] = clean[i]
    BY DEF Restored, Named
  <1> QED
    BY <1>1, <1>2 DEF Named

LEMMA RestoreKeeps == Inv /\ Restore => Inv'
  <1> SUFFICES ASSUME Inv, Restore PROVE Inv'
    OBVIOUS
  <1> DEFINE l == cursor
  <1>0. /\ pc = "restore" /\ NextLane("idle") /\ active \in {{0}, Lanes} /\ l \in active
        /\ l \in Lanes /\ pristine # NoKey /\ TypeOK /\ Memory /\ Control /\ calls < MaxCalls
        /\ keys' = [keys EXCEPT ![l] = Restored(touched[l], keys[l], pristine)]
        /\ calls' = IF IsLast(l) THEN calls + 1 ELSE calls
        /\ UNCHANGED <<pristine, touched, ctx, buckets, nonempty, mask, active, step, hit>>
    BY DEF Restore, Inv, TypeOK, Control, queues, call
  <1>1. /\ cursor' \in active /\ cursor' \in Lanes
        /\ ~IsLast(l) => cursor' = l + 1 /\ pc' = "restore"
        /\ IsLast(l) => cursor' = 0 /\ pc' = "idle" /\ \A m \in active : m <= l
    BY <1>0, TurnTaken
  <1>2. \A m \in Lanes : Named(keys[m], pristine, touched[m], Run(m))
    BY <1>0 DEF Inv, Dirt
  <1>3. /\ IsKey(Restored(touched[l], keys[l], pristine))
        /\ Named(Restored(touched[l], keys[l], pristine), pristine, touched[l], 0)
    <2>1. Run(l) = Steps /\ IsKey(keys[l])
      BY <1>0, LanesAre DEF Run, Memory
    <2> QED
      BY <1>0, <1>2, <2>1, RestoredIsClean
  <1>4. /\ keys' = [m \in Lanes |-> keys'[m]] /\ \A m \in Lanes : IsKey(keys'[m])
        /\ keys'[l] = Restored(touched[l], keys[l], pristine)
        /\ \A m \in Lanes : m # l => keys'[m] = keys[m]
    BY <1>0, <1>3 DEF Memory
  <1>5. TypeOK'
    BY <1>0, <1>1, HasherAssumption DEF TypeOK
  <1>6. Control'
    BY <1>0, <1>1 DEF Control
  <1>7. Memory'
    BY <1>0, <1>1, <1>4 DEF Memory
  <1>8. Queues'
    BY <1>1 DEF Queues
  <1>9. Dirt'
    <2> SUFFICES ASSUME NEW m \in Lanes
                 PROVE  Named(keys'[m], pristine, touched[m], Run(m)')
      BY <1>0 DEF Dirt
    <2>1. Run(m)' \in Int /\ Run(m)' >= 0
      BY <1>0, <1>1, HasherAssumption DEF Run
    <2>2. CASE m = l
      BY <1>3, <1>4, <2>1, <2>2, NamedMore
    <2>3. CASE m # l
      <3>1. Run(m)' = Run(m)
        <4>1. CASE IsLast(l)
          <5>1. Run(m)' = 0
            BY <1>1, <4>1 DEF Run
          <5>2. Run(m) = 0
            BY <1>0, <1>1, <2>3, <4>1, LanesAre DEF Run
          <5> QED
            BY <5>1, <5>2
        <4>2. CASE ~IsLast(l)
          <5>1. m < l <=> m < cursor'
            BY <1>0, <1>1, <2>3, <4>2, LanesAre
          <5> QED
            BY <1>0, <1>1, <4>2, <5>1 DEF Run
        <4> QED
          BY <4>1, <4>2
      <3> QED
        BY <1>2, <1>4, <2>3, <3>1
    <2> QED
      BY <2>2, <2>3
  <1> QED
    BY <1>5, <1>6, <1>7, <1>8, <1>9 DEF Inv

LEMMA HashExactKeeps == ASSUME Inv, NEW nonce, HashExact(nonce) PROVE Inv'
  <1>0. /\ pc = "idle" /\ calls < MaxCalls /\ calls' = calls + 1
        /\ UNCHANGED <<pristine, keys, touched, ctx, buckets, nonempty, mask, active, pc, step, cursor, hit>>
    BY DEF HashExact, Ready, lanes, queues, call
  <1>1. TypeOK'
    BY <1>0, HasherAssumption DEF Inv, TypeOK
  <1>2. Control'
    BY <1>0 DEF Control
  <1>3. Memory'
    BY <1>0 DEF Inv, Memory
  <1>4. Queues'
    BY <1>0 DEF Queues
  <1>5. Dirt'
    <2>1. \A m \in Lanes : Run(m)' = Run(m)
      BY <1>0 DEF Run
    <2> QED
      BY <1>0, <2>1 DEF Inv, Dirt
  <1> QED
    BY <1>1, <1>2, <1>3, <1>4, <1>5 DEF Inv

LEMMA StutterKeeps == Inv /\ UNCHANGED vars => Inv'
  <1> SUFFICES ASSUME Inv, UNCHANGED vars PROVE Inv'
    OBVIOUS
  <1>0. UNCHANGED <<pristine, keys, touched, ctx, buckets, nonempty, mask, active, pc, step, cursor,
                    hit, calls>>
    BY DEF vars, lanes, queues, call
  <1>1. Par' = Par /\ Nxt' = Nxt
    BY <1>0 DEF Par, Nxt
  <1>2. \A c, i : ToRun(c, i)' <=> ToRun(c, i)
    BY <1>0, <1>1 DEF ToRun
  <1>3. \A l : Waits(l)' <=> Waits(l)
    BY <1>0, <1>1, <1>2 DEF Waits
  <1>4. TypeOK' /\ Control' /\ Memory'
    BY <1>0 DEF Inv, TypeOK, Control, Memory
  <1>5. Queues'
    <2>1. Queued => Queued'
      BY <1>0 DEF Queued, InItsQueue
    <2>2. Walking => Walking'
      BY <1>0, <1>1, <1>2, <1>3 DEF Walking, InItsQueue
    <2> QED
      BY <1>0, <2>1, <2>2 DEF Inv, Queues
  <1>6. Dirt'
    <2>1. \A l \in Lanes : Run(l)' = Run(l)
      BY <1>0, <1>3 DEF Run
    <2> QED
      BY <1>0, <2>1 DEF Inv, Dirt
  <1> QED
    BY <1>4, <1>5, <1>6 DEF Inv

----------------------------------------------------------------------------
\* The invariant of the lockstep walk holds in every state: where each lane
\* stands, and what its journal names.
THEOREM WalkInvariant == Spec => []Inv
  <1>1. Inv /\ [Next]_vars => Inv'
    <2> SUFFICES ASSUME Inv, [Next]_vars PROVE Inv'
      OBVIOUS
    <2>1. CASE Reset
      BY <2>1, ResetKeeps
    <2>2. CASE \E base \in Nonces, limit \in Targets : RunWave(base, limit)
      <3>1. PICK base \in Nonces, limit \in Targets :
                   Begin([l \in Lanes |-> Wrapped(base + l)], limit, "start")
        BY <2>2 DEF RunWave
      <3> QED
        BY <3>1, BeginKeeps
    <2>3. CASE \E nonces \in [Lanes -> Nonces], limit \in Targets : RunWaveList(nonces, limit)
      <3>1. PICK nonces \in [Lanes -> Nonces], limit \in Targets : Begin(nonces, limit, "start")
        BY <2>3 DEF RunWaveList
      <3>2. DOMAIN nonces = Lanes
        OBVIOUS
      <3> QED
        BY <3>1, <3>2, BeginKeeps
    <2>4. CASE \E nonce \in Nonces, limit \in Targets : RunOne(nonce, limit)
      <3>1. PICK nonce \in Nonces, limit \in Targets : Begin([l \in {0} |-> nonce], limit, "scalar")
        BY <2>4 DEF RunOne
      <3> QED
        BY <3>1, BeginKeeps
    <2>5. CASE \E nonce \in Nonces : HashExact(nonce)
      BY <2>5, HashExactKeeps
    <2>6. CASE StartLane
      BY <2>6, StartLaneKeeps
    <2>7. CASE RunLane
      BY <2>7, RunLaneKeeps
    <2>8. CASE EndStep
      BY <2>8, EndStepKeeps
    <2>9. CASE StartScalar
      BY <2>9, StartScalarKeeps
    <2>10. CASE ScalarStep
      BY <2>10, ScalarStepKeeps
    <2>11. CASE EndScalar
      BY <2>11, EndScalarKeeps
    <2>12. CASE Finalize
      BY <2>12, FinalizeKeeps
    <2>13. CASE Restore
      BY <2>13, RestoreKeeps
    <2>14. CASE UNCHANGED vars
      BY <2>14, StutterKeeps
    <2> QED
      BY <2>1, <2>2, <2>3, <2>4, <2>5, <2>6, <2>7, <2>8, <2>9, <2>10, <2>11, <2>12, <2>13, <2>14
      DEF Next
  <1> QED
    BY <1>1, InitInv, PTL DEF Spec

\* The queues of a walk hold lanes only, and its cursor stays on one.
THEOREM HasherTyped == Spec => []TypeOK
  <1>1. Inv => TypeOK
    BY DEF Inv
  <1> QED
    BY <1>1, WalkInvariant, PTL

\* A lane waits, as the code's queues have it, exactly when it waits as the
\* property counts places: no place is past the number of lanes.
LEMMA WaitingIsWaits ==
    ASSUME Inv, pc = "walk", NEW l \in Lanes
    PROVE  Waiting(l) <=> Waits(l)
  <1>1. \A c, i : ToRun(c, i) <=> <<c, i>> \in Pending
    <2>1. /\ \A c \in Cases : Len(buckets[Par][c]) \in Nat
                             /\ Len(buckets[Par][c]) <= Cardinality(Lanes)
          /\ Cardinality(Lanes) \in Nat /\ mask \subseteq Cases
      <3>1. Par \in {0, 1}
        BY DEF Inv, TypeOK, Par
      <3>2. buckets[Par] \in LaneQueues /\ Once(buckets[Par])
        BY <3>1 DEF Inv, TypeOK, LaneQueues, Queues, Walking
      <3>3. \A c \in Cases : Len(buckets[Par][c]) <= Cardinality(Lanes)
        BY <3>2, QueueFits
      <3>4. \A c \in Cases : Len(buckets[Par][c]) \in Nat
        BY <3>2 DEF LaneQueues
      <3>5. mask \subseteq Cases
        BY DEF Inv, TypeOK
      <3> QED
        BY <3>3, <3>4, <3>5, LanesAre
    <2> QED
      BY <2>1 DEF ToRun, Place, Pending
  <1>2. Waits(l) => Waiting(l)
    BY <1>1 DEF Waits, Waiting
  <1>3. Waiting(l) => Waits(l)
    BY <1>1 DEF Waits, Waiting, Pending
  <1> QED
    BY <1>2, <1>3

\* What a walk dirties its journal names, so restore_key leaves the pristine
\* key; between calls every key is pristine.
THEOREM JournalSuffices == Spec => []JournalCoversDirt
  <1>1. Inv => JournalCoversDirt
    <2> SUFFICES ASSUME Inv, pristine # NoKey, NEW l \in Lanes
                 PROVE  Named(keys[l], pristine, touched[l], StepsRun(l))
      BY DEF JournalCoversDirt, Named
    <2>1. StepsRun(l) = Run(l)
      BY WaitingIsWaits DEF StepsRun, Run
    <2> QED
      BY <2>1 DEF Inv, Dirt
  <1> QED
    BY <1>1, WalkInvariant, PTL

LEMMA PlacesAre ==
    ASSUME NEW par, buckets[par] \in LaneQueues, Once(buckets[par]), NEW l,
           NEW c, NEW i, Place(buckets[par], c, i), buckets[par][c][i] = l
    PROVE  PlacesOf(par, l) = {<<c, i>>} /\ i \in 1 .. Cardinality(Lanes)
  <1>1. \A d \in Cases : Len(buckets[par][d]) <= Cardinality(Lanes) /\ Len(buckets[par][d]) \in Nat
    BY QueueFits DEF LaneQueues
  <1>2. c \in Cases /\ i \in 1 .. Cardinality(Lanes) /\ i <= Len(buckets[par][c])
    BY <1>1, LanesAre DEF Place
  <1>3. <<c, i>> \in PlacesOf(par, l)
    BY <1>2 DEF PlacesOf
  <1>4. ASSUME NEW p \in PlacesOf(par, l)
        PROVE  p = <<c, i>>
    <2>1. /\ p \in Cases \X (1 .. Cardinality(Lanes))
          /\ p[2] <= Len(buckets[par][p[1]]) /\ buckets[par][p[1]][p[2]] = l
      BY DEF PlacesOf
    <2>2. Place(buckets[par], p[1], p[2])
      BY <1>1, <2>1, LanesAre DEF Place
    <2>3. p[1] = c /\ p[2] = i
      BY <2>1, <2>2 DEF Once
    <2> QED
      BY <2>1, <2>3
  <1> QED
    BY <1>2, <1>3, <1>4

\* Each lane takes each step once: it waits in one queue of this step, of its
\* case, or has its one place in the next step's.
THEOREM LanesStepOnce == Spec => []EachLaneOnce
  <1>1. Inv => EachLaneOnce
    <2> SUFFICES ASSUME Inv, pc = "walk", NEW l \in Lanes
                 PROVE  IF Waiting(l)
                        THEN /\ PlacesOf(Nxt, l) = {}
                             /\ \E i \in 1 .. Cardinality(Lanes) :
                                  PlacesOf(Par, l) = {<<ctx[l].sel.case, i>>}
                        ELSE \E i \in 1 .. Cardinality(Lanes) :
                                  PlacesOf(Nxt, l) = {<<ctx[l].sel.case, i>>}
      BY DEF EachLaneOnce
    <2>0. Walking /\ TypeOK
      BY DEF Inv, Queues
    <2>1. buckets[Par] \in LaneQueues /\ buckets[Nxt] \in LaneQueues
      <3>1. Par \in {0, 1} /\ Nxt \in {0, 1}
        BY <2>0 DEF TypeOK, Par, Nxt
      <3> QED
        BY <2>0, <3>1 DEF TypeOK, LaneQueues
    <2>2. CASE Waits(l)
      <3>1. PICK c, i : ToRun(c, i) /\ buckets[Par][c][i] = l
        BY <2>2 DEF Waits
      <3>2. ctx[l].sel.case = c /\ Place(buckets[Par], c, i)
        BY <2>0, <3>1 DEF Walking, ToRun
      <3>3. PlacesOf(Par, l) = {<<c, i>>} /\ i \in 1 .. Cardinality(Lanes)
        BY <2>0, <2>1, <3>1, <3>2, PlacesAre DEF Walking
      <3>4. PlacesOf(Nxt, l) = {}
        <4>1. ~Holds(buckets[Nxt], l)
          BY <2>0, <2>2 DEF Walking
        <4>2. \A c2 \in Cases, i2 \in 1 .. Cardinality(Lanes) :
                i2 <= Len(buckets[Nxt][c2]) => Place(buckets[Nxt], c2, i2)
          BY <2>1, LanesAre DEF Place, LaneQueues
        <4> QED
          BY <4>1, <4>2 DEF PlacesOf, Holds
      <3> QED
        BY <2>2, <3>2, <3>3, <3>4, WaitingIsWaits
    <2>3. CASE ~Waits(l)
      <3>1. PICK c, i : Place(buckets[Nxt], c, i) /\ buckets[Nxt][c][i] = l
        BY <2>0, <2>3 DEF Walking, Holds
      <3>2. ctx[l].sel.case = c
        BY <2>0, <3>1 DEF Walking, InItsQueue
      <3>3. PlacesOf(Nxt, l) = {<<c, i>>} /\ i \in 1 .. Cardinality(Lanes)
        BY <2>0, <2>1, <3>1, PlacesAre DEF Walking
      <3> QED
        BY <2>3, <3>2, <3>3, WaitingIsWaits
    <2> QED
      BY <2>2, <2>3
  <1> QED
    BY <1>1, WalkInvariant, PTL

----------------------------------------------------------------------------
(* What a digest is.                                                        *)

\* The key the engine expands is the reference's: the Harakas agree, and each
\* block is made of the last.
KeyStart(seed) == <<seed>>
KeyNext(seed, was, i) == Append(was, RefHaraka256(was[i], RoundConstants))
KeyLoop == INSTANCE Loops WITH Start <- KeyStart, Round <- KeyNext

\* 276 absorbed Haraka256 expand a seed as 276 plain ones do.
LEMMA KeysAgree == ASSUME NEW seed PROVE GenKey(seed) = RefGenKey(seed)
  <1> DEFINE
        n == KeyVecs \div 2
        e == KeyBlocks(seed)
        r == RefKeyBlocks(seed)
  <1>1. n \in Nat
    BY MutableAssumption DEF KeyVecs
  <1>2. PICK g : KeyLoop!Computes(seed, n, g)
    BY <1>1, KeyLoop!LoopComputes
  <1>3. g = [i \in 0 .. n |-> IF i = 0 THEN <<seed>>
                              ELSE Append(g[i - 1], RefHaraka256(g[i - 1][i], RoundConstants))]
    BY <1>2 DEF KeyLoop!Computes, KeyStart, KeyNext
  <1>4. g = [i \in 0 .. n |-> IF i = 0 THEN <<seed>>
                              ELSE Append(g[i - 1], Haraka256(g[i - 1][i], RoundConstants))]
    BY <1>3, AbsorptionIsSound
  <1>5. r = [i \in 0 .. n |-> IF i = 0 THEN <<seed>>
                              ELSE Append(r[i - 1], RefHaraka256(r[i - 1][i], RoundConstants))]
    BY <1>3 DEF RefKeyBlocks
  <1>6. e = [i \in 0 .. n |-> IF i = 0 THEN <<seed>>
                              ELSE Append(e[i - 1], Haraka256(e[i - 1][i], RoundConstants))]
    BY <1>4 DEF KeyBlocks
  <1> HIDE DEF e, r, n
  <1>7. e = [i \in 0 .. n |-> IF i = 0 THEN <<seed>>
                              ELSE Append(e[i - 1], RefHaraka256(e[i - 1][i], RoundConstants))]
    BY <1>6, AbsorptionIsSound
  <1>8. KeyLoop!Computes(seed, n, e) /\ KeyLoop!Computes(seed, n, r)
    BY <1>5, <1>7 DEF KeyLoop!Computes, KeyStart, KeyNext
  <1>9. e = r
    BY <1>1, <1>8, KeyLoop!LoopIsUnique
  <1> QED
    BY <1>9 DEF GenKey, RefGenKey, e, r

\* The reference's walk, a step at a time.
WalkStart(p) == [acc |-> p.key[Mutable + 1], key |-> p.key]
WalkNext(p, was, i) == RefStepOf(p.exact, PbufCopy(p.buf), was)
WalkLoop == INSTANCE Loops WITH Start <- WalkStart, Round <- WalkNext

\* The reference walk, from one step to the next.
LEMMA WalkUnrolled ==
    ASSUME NEW exact, NEW key, NEW buf
    PROVE  /\ RefWalk(exact, key, buf)[0] = [acc |-> key[Mutable + 1], key |-> key]
           /\ \A n \in 0 .. Steps - 1 :
                RefWalk(exact, key, buf)[n + 1] =
                  RefStepOf(exact, PbufCopy(buf), RefWalk(exact, key, buf)[n])
  <1> DEFINE
        p == [exact |-> exact, key |-> key, buf |-> buf]
        walk == RefWalk(exact, key, buf)
  <1>1. PICK g : WalkLoop!Computes(p, Steps, g)
    BY HasherAssumption, WalkLoop!LoopComputes
  <1>2. g = [i \in 0 .. Steps |-> IF i = 0 THEN [acc |-> key[Mutable + 1], key |-> key]
                                  ELSE RefStepOf(exact, PbufCopy(buf), g[i - 1])]
    BY <1>1 DEF WalkLoop!Computes, WalkStart, WalkNext
  <1>3. walk = [i \in 0 .. Steps |-> IF i = 0 THEN [acc |-> key[Mutable + 1], key |-> key]
                                     ELSE RefStepOf(exact, PbufCopy(buf), walk[i - 1])]
    BY <1>2 DEF RefWalk
  <1> HIDE DEF walk
  <1>4. /\ walk[0] = [acc |-> key[Mutable + 1], key |-> key]
        /\ \A n \in 0 .. Steps - 1 : walk[n + 1] = RefStepOf(exact, PbufCopy(buf), walk[n])
    BY <1>3, HasherAssumption
  <1> QED
    BY <1>4 DEF walk

ExactStart(p) == [acc |-> p.key[Mutable + 1], key |-> p.key]
ExactNext(p, was, i) == ExactStep(StepConst(Pack(p.buf)), was)
ExactLoop == INSTANCE Loops WITH Start <- ExactStart, Round <- ExactNext

\* The same for the walk of hash_exact.
LEMMA ExactWalkUnrolled ==
    ASSUME NEW key, NEW buf
    PROVE  /\ ExactWalk(key, buf)[0] = [acc |-> key[Mutable + 1], key |-> key]
           /\ \A n \in 0 .. Steps - 1 :
                ExactWalk(key, buf)[n + 1] = ExactStep(StepConst(Pack(buf)), ExactWalk(key, buf)[n])
  <1> DEFINE
        p == [key |-> key, buf |-> buf]
        walk == ExactWalk(key, buf)
  <1>1. PICK g : ExactLoop!Computes(p, Steps, g)
    BY HasherAssumption, ExactLoop!LoopComputes
  <1>2. g = [i \in 0 .. Steps |-> IF i = 0 THEN [acc |-> key[Mutable + 1], key |-> key]
                                  ELSE ExactStep(StepConst(Pack(buf)), g[i - 1])]
    BY <1>1 DEF ExactLoop!Computes, ExactStart, ExactNext
  <1>3. walk = [i \in 0 .. Steps |-> IF i = 0 THEN [acc |-> key[Mutable + 1], key |-> key]
                                     ELSE ExactStep(StepConst(Pack(buf)), walk[i - 1])]
    BY <1>2 DEF ExactWalk
  <1> HIDE DEF walk
  <1>4. /\ walk[0] = [acc |-> key[Mutable + 1], key |-> key]
        /\ \A n \in 0 .. Steps - 1 : walk[n + 1] = ExactStep(StepConst(Pack(buf)), walk[n])
    BY <1>3, HasherAssumption
  <1> QED
    BY <1>4 DEF walk

\* A step of the engine from an accumulator and a key is the reference's.
LEMMA StepsAgree ==
    ASSUME NEW exact, NEW buf, NEW was, IsKey(was.key)
    PROVE  /\ Body(exact, SelectorOf(was.acc).case, SelectorOf(was.acc), StepConst(buf),
                   was.acc, was.key) = RefStepOf(exact, PbufCopy(buf), was)
           /\ IsKey(RefStepOf(exact, PbufCopy(buf), was).key)
  <1> DEFINE
        s == SelectorOf(was.acc)
        left == Body(exact, s.case, s, StepConst(buf), was.acc, was.key)
  <1>1. s \in Selectors
    BY SelectorRange
  <1> HIDE DEF s
  <1>2. left = RefStep(exact, s, PbufCopy(buf), was.acc, was.key)
    BY <1>1, AllBodiesAgree
  <1>3. IsKey(left.key)
    BY <1>1, BodyWritesTwoSlots
  <1> HIDE DEF left
  <1> QED
    BY <1>2, <1>3 DEF RefStepOf, s, left

\* Every key a walk goes through is a key.
LEMMA WalkKeepsKeys ==
    ASSUME NEW exact, NEW key, IsKey(key), NEW buf, NEW n \in 0 .. Steps
    PROVE  IsKey(RefWalk(exact, key, buf)[n].key)
  <1> DEFINE
        walk == RefWalk(exact, key, buf)
        T == {m \in Nat : m <= Steps => IsKey(walk[m].key)}
  <1>1. /\ walk[0] = [acc |-> key[Mutable + 1], key |-> key]
        /\ \A m \in 0 .. Steps - 1 : walk[m + 1] = RefStepOf(exact, PbufCopy(buf), walk[m])
    BY WalkUnrolled
  <1> HIDE DEF walk
  <1>2. 0 \in T
    BY <1>1
  <1>3. ASSUME NEW m \in Nat, m \in T PROVE m + 1 \in T
    <2> SUFFICES ASSUME m + 1 <= Steps PROVE IsKey(walk[m + 1].key)
      OBVIOUS
    <2>1. IsKey(walk[m].key) /\ m \in 0 .. Steps - 1
      BY <1>3, HasherAssumption
    <2> QED
      BY <1>1, <2>1, StepsAgree
  <1> HIDE DEF T
  <1>4. n \in T
    BY <1>2, <1>3, Counting
  <1> QED
    BY <1>4, HasherAssumption DEF T, walk

\* The scratch walk with the exact multiply is the reference's.
LEMMA ExactWalkAgrees ==
    ASSUME NEW key, IsKey(key), NEW buf
    PROVE  ExactWalk(key, buf)[Steps] = RefWalk(Exact, key, Pack(buf))[Steps]
  <1> DEFINE
        e == ExactWalk(key, buf)
        r == RefWalk(Exact, key, Pack(buf))
        T == {m \in Nat : m <= Steps => e[m] = r[m]}
  <1>1. /\ e[0] = [acc |-> key[Mutable + 1], key |-> key]
        /\ \A m \in 0 .. Steps - 1 : e[m + 1] = ExactStep(StepConst(Pack(buf)), e[m])
    BY ExactWalkUnrolled
  <1>2. /\ r[0] = [acc |-> key[Mutable + 1], key |-> key]
        /\ \A m \in 0 .. Steps - 1 : r[m + 1] = RefStepOf(Exact, PbufCopy(Pack(buf)), r[m])
    BY WalkUnrolled
  <1>3. \A m \in 0 .. Steps : IsKey(r[m].key)
    BY WalkKeepsKeys
  <1> HIDE DEF e, r
  <1>4. 0 \in T
    BY <1>1, <1>2
  <1>5. ASSUME NEW m \in Nat, m \in T PROVE m + 1 \in T
    <2> SUFFICES ASSUME m + 1 <= Steps PROVE e[m + 1] = r[m + 1]
      OBVIOUS
    <2>1. e[m] = r[m] /\ m \in 0 .. Steps - 1 /\ IsKey(r[m].key)
      BY <1>3, <1>5, HasherAssumption
    <2>2. ExactStep(StepConst(Pack(buf)), r[m]) = RefStepOf(Exact, PbufCopy(Pack(buf)), r[m])
      BY <2>1, StepsAgree DEF ExactStep
    <2> QED
      BY <1>1, <1>2, <2>1, <2>2
  <1> HIDE DEF T
  <1>6. Steps \in T
    BY <1>4, <1>5, Counting, HasherAssumption
  <1> QED
    BY <1>6, HasherAssumption DEF T, e, r

\* The digest of a nonce, from the last state of its walk.
TailOf(buf, last) ==
    RefHarakaKeyed(Pack([buf EXCEPT !.fill = TailFill(Reduce64(Xor(last.acc, LengthHash)))]),
                   last.key, OffsetOf(Reduce64(Xor(last.acc, LengthHash))))
BufferFor(head, space, nonce) ==
    [head |-> head, space |-> space, nonce |-> nonce, fill |-> HeadFill(head)]

\* The reference digest is the tail of the reference walk.
LEMMA DigestIsTail ==
    ASSUME NEW exact, NEW head, NEW space, NEW key, NEW nonce
    PROVE  RefHashNonce(exact, head, space, key, nonce) =
             TailOf(BufferFor(head, space, nonce),
                    RefWalk(exact, key, Pack(BufferFor(head, space, nonce)))[Steps])
  <1> DEFINE
        buf == BufferFor(head, space, nonce)
        last == RefWalk(exact, key, Pack(buf))[Steps]
  <1>1. RefClhash(exact, key, Pack(buf)) =
          [key |-> last.key, intermediate |-> Reduce64(Xor(last.acc, LengthHash))]
    BY DEF RefClhash
  <1>2. RefHashNonce(exact, head, space, key, nonce) = TailOf(buf, last)
    <2> DEFINE d == TailOf(buf, last)
    <2>1. {RefHarakaKeyed(Pack([buf EXCEPT !.fill = TailFill(walked.intermediate)]),
                          walked.key, OffsetOf(walked.intermediate)) :
             walked \in {RefClhash(exact, key, Pack(buf))}} = {d}
      BY <1>1 DEF TailOf
    <2>2. RefHashNonce(exact, head, space, key, nonce) = CHOOSE x \in {d} : TRUE
      BY <2>1 DEF RefHashNonce, BufferFor
    <2> HIDE DEF d
    <2>3. (CHOOSE x \in {d} : TRUE) = d
      OBVIOUS
    <2> QED
      BY <2>2, <2>3 DEF d
  <1> QED
    BY <1>2

\* The offset into the key is a number, as the keyed Haraka needs.
LEMMA OffsetInRange == ASSUME NEW im PROVE OffsetOf(im) \in Nat
  <1>1. \A p : Bits3(im, p) \in 0 .. 7
    BY DEF Bits3, Bits2, Digit
  <1>2. Bits9(im, 0) \in Nat
    BY <1>1 DEF Bits9
  <1> QED
    BY <1>2, MutableAssumption DEF OffsetOf

----------------------------------------------------------------------------
(* What each lane holds while a call runs, in terms of the reference: its    *)
(* walk, its digest, and whether it passed.                                   *)

BufferOf(l) == BufferFor(half.head, half.space, asked[l])
WalkOf(l) == RefWalk(Fast, pristine, Pack(BufferOf(l)))
DigestOf(l) == TailOf(BufferOf(l), WalkOf(l)[Steps])

Started(l) == (pc = "start" /\ l < cursor) \/ pc \in {"walk", "stream"}
Finalized(l) == pc = "restore" \/ (pc = "finalize" /\ l < cursor)

\* A lane's context and key are those of a state of a walk.
Reached(context, key, buf, was) ==
    context = Context(StepConst(Pack(buf)), was.acc) /\ key = was.key

\* The buffers are records, and those of the last template.
Templated ==
    /\ half = [head |-> half.head, space |-> half.space, nonce |-> half.nonce, fill |-> half.fill]
    /\ bufs = [l \in Lanes |-> [head |-> bufs[l].head, space |-> bufs[l].space,
                                nonce |-> bufs[l].nonce, fill |-> bufs[l].fill]]
    /\ hashes = [l \in Lanes |-> hashes[l]]
    /\ pristine # NoKey => \A l \in Lanes : bufs[l].head = half.head /\ bufs[l].space = half.space

\* A lane's buffer is the reference's until the lane is finalized.
Asking ==
    pc # "idle" =>
        /\ asked \in [active -> Nonces] /\ target \in Targets
        /\ \A l \in active : ~Finalized(l) => bufs[l] = BufferOf(l)

Walked ==
    \A l \in active : Started(l) => Reached(ctx[l], keys[l], BufferOf(l), WalkOf(l)[Run(l)])

Ended ==
    pc = "finalize" =>
        \A l \in active : /\ keys[l] = WalkOf(l)[Steps].key
                          /\ inter[l] = Reduce64(Xor(WalkOf(l)[Steps].acc, LengthHash))

Judged(l) ==
    /\ l \in hit <=> ~AboveTarget(DigestOf(l), target)
    /\ l \in hit => hashes[l] = DigestOf(l)
Hits ==
    /\ pc \in {"start", "walk", "scalar", "stream"} => hit = {}
    /\ pc \in {"finalize", "restore"} =>
         \A l \in active : IF Finalized(l) THEN Judged(l) ELSE l \notin hit

Answers == Templated /\ Asking /\ Walked /\ Ended /\ Hits

\* Before its first step a lane's key is the pristine one.
LEMMA CleanKey ==
    ASSUME Inv, pristine # NoKey, NEW l \in Lanes, Run(l) = 0
    PROVE  keys[l] = pristine
  <1>1. IsKey(keys[l]) /\ IsKey(pristine) /\ Named(keys[l], pristine, touched[l], 0)
    BY DEF Inv, Memory, Dirt
  <1>2. \A i \in Slots : keys[l][i] = pristine[i]
    BY <1>1 DEF Named
  <1> QED
    BY <1>1, <1>2 DEF IsKey

\* A lane that begins is at the start of its walk.
LEMMA LaneBegins ==
    ASSUME NEW buf, NEW key
    PROVE  Reached(Context(StepConst(Pack(buf)), key[Mutable + 1]), key, buf,
                   RefWalk(Fast, key, Pack(buf))[0])
  <1> DEFINE start == RefWalk(Fast, key, Pack(buf))[0]
  <1>1. start = [acc |-> key[Mutable + 1], key |-> key]
    BY WalkUnrolled
  <1> HIDE DEF start
  <1>2. Reached(Context(StepConst(Pack(buf)), key[Mutable + 1]), key, buf, start)
    BY <1>1 DEF Reached
  <1> QED
    BY <1>2 DEF start

\* A step of a lane is a step of its walk.
LEMMA LaneAdvances ==
    ASSUME NEW buf, NEW pure, IsKey(pure), NEW n \in 0 .. Steps - 1, NEW context, NEW key,
           Reached(context, key, buf, RefWalk(Fast, pure, Pack(buf))[n]),
           NEW done,
           done = Body(Fast, context.sel.case, context.sel, context.k, context.acc, key)
    PROVE  Reached(Context(context.k, done.acc), done.key, buf,
                   RefWalk(Fast, pure, Pack(buf))[n + 1])
  <1> DEFINE
        walk == RefWalk(Fast, pure, Pack(buf))
        was == walk[n]
        next == walk[n + 1]
  <1>0. n \in 0 .. Steps
    BY HasherAssumption
  <1>1. IsKey(was.key)
    BY <1>0, WalkKeepsKeys
  <1>2. next = RefStepOf(Fast, PbufCopy(Pack(buf)), was)
    <2>1. /\ walk[0] = [acc |-> pure[Mutable + 1], key |-> pure]
          /\ \A m \in 0 .. Steps - 1 : walk[m + 1] = RefStepOf(Fast, PbufCopy(Pack(buf)), walk[m])
      BY WalkUnrolled
    <2> HIDE DEF walk
    <2> QED
      BY <2>1
  <1>3. /\ context.k = StepConst(Pack(buf)) /\ context.acc = was.acc
        /\ context.sel = SelectorOf(was.acc) /\ key = was.key
    BY DEF Reached, Context
  <1> HIDE DEF was, next
  <1>4. done = RefStepOf(Fast, PbufCopy(Pack(buf)), was)
    BY <1>1, <1>3, StepsAgree
  <1>5. done = next
    BY <1>2, <1>4
  <1> QED
    BY <1>3, <1>5 DEF Reached, next

\* What finalize computes from the last state of a walk.
LEMMA LaneFinalized ==
    ASSUME NEW buf, NEW last, NEW im, im = Reduce64(Xor(last.acc, LengthHash))
    PROVE  /\ HarakaKeyed(Pack(Refilled(buf, im)), last.key, OffsetOf(im)) = TailOf(buf, last)
           /\ HighWord(Pack(Refilled(buf, im)), last.key, OffsetOf(im)) = TailOf(buf, last)[2][4]
  <1> DEFINE in == Pack(Refilled(buf, im))
  <1>1. OffsetOf(im) \in Nat
    BY OffsetInRange
  <1>2. TailOf(buf, last) = RefHarakaKeyed(in, last.key, OffsetOf(im))
    BY DEF TailOf, Refilled
  <1> HIDE DEF in
  <1>3. HarakaKeyed(in, last.key, OffsetOf(im)) = RefHarakaKeyed(in, last.key, OffsetOf(im))
    BY <1>1, KeyedAgrees
  <1>4. HighWord(in, last.key, OffsetOf(im)) = HarakaKeyed(in, last.key, OffsetOf(im))[2][4]
    BY <1>1, WordOfLastLane
  <1> QED
    BY <1>2, <1>3, <1>4 DEF in

\* The steps, one after the other, keep it.
LEMMA InitAnswers == Init => Answers
  <1> SUFFICES ASSUME Init PROVE Answers
    OBVIOUS
  <1>1. /\ pc = "idle" /\ pristine = NoKey /\ active = {} /\ half = EmptyBuf
        /\ bufs = [l \in Lanes |-> EmptyBuf] /\ hashes = [l \in Lanes |-> NoDigest]
    BY DEF Init
  <1>2. Templated
    BY <1>1 DEF Templated, EmptyBuf
  <1> QED
    BY <1>1, <1>2 DEF Answers, Asking, Walked, Ended, Hits

LEMMA ResetAnswers == Answers /\ Reset => Answers'
  <1> SUFFICES ASSUME Answers, Reset PROVE Answers'
    OBVIOUS
  <1>1. /\ pc = "idle" /\ pc' = "idle" /\ bufs' = [l \in Lanes |-> half']
        /\ UNCHANGED <<hashes, active>>
    BY DEF Reset, call
  <1>2. PICK t \in Templates :
               half' = [head |-> t.head, space |-> t.space, nonce |-> 0, fill |-> HeadFill(t.head)]
    BY DEF Reset
  <1>3. Templated'
    BY <1>1, <1>2 DEF Answers, Templated
  <1>4. Walked'
    BY <1>1 DEF Walked, Started
  <1> QED
    BY <1>1, <1>3, <1>4 DEF Answers, Asking, Ended, Hits

\* A buffer that prepare leaves is the reference's of that nonce, whatever the
\* fill and nonce it had.
LEMMA PreparedIs ==
    ASSUME NEW buf, NEW nonce,
           buf = [head |-> buf.head, space |-> buf.space, nonce |-> buf.nonce, fill |-> buf.fill],
           buf.head = half.head, buf.space = half.space
    PROVE  Prepared(buf, nonce) = BufferFor(half.head, half.space, nonce)
  <1> DEFINE
        fill == HeadFill(half.head)
        filled == [head |-> half.head, space |-> half.space, nonce |-> buf.nonce, fill |-> fill]
  <1>1. Prepared(buf, nonce) = [[buf EXCEPT !.fill = fill] EXCEPT !.nonce = nonce]
    BY DEF Prepared
  <1>2. [buf EXCEPT !.fill = fill] = filled
    <2> HIDE DEF fill
    <2> QED
      OBVIOUS
  <1>3. [filled EXCEPT !.nonce = nonce] = BufferFor(half.head, half.space, nonce)
    BY DEF BufferFor
  <1> HIDE DEF filled
  <1> QED
    BY <1>1, <1>2, <1>3, Zenon

LEMMA BeginAnswers ==
    ASSUME Answers, NEW nonces, NEW limit \in Targets, NEW next,
           Begin(nonces, limit, next), DOMAIN nonces \subseteq Lanes,
           nonces \in [DOMAIN nonces -> Nonces], next \in {"start", "scalar"}
    PROVE  Answers'
  <1>1. /\ pristine # NoKey /\ active' = DOMAIN nonces /\ asked' = nonces /\ target' = limit
        /\ bufs' = [l \in Lanes |-> IF l \in DOMAIN nonces THEN Prepared(bufs[l], nonces[l])
                                                           ELSE bufs[l]]
        /\ pc' = next /\ cursor' = 0 /\ hit' = {}
        /\ UNCHANGED <<half, pristine, hashes>>
    BY DEF Begin, Ready
  <1>2. Templated
    BY DEF Answers
  <1>3. ASSUME NEW l \in Lanes, l \in DOMAIN nonces
        PROVE  bufs'[l] = BufferFor(half.head, half.space, nonces[l])
    <2>1. /\ bufs[l] = [head |-> bufs[l].head, space |-> bufs[l].space,
                        nonce |-> bufs[l].nonce, fill |-> bufs[l].fill]
          /\ bufs[l].head = half.head /\ bufs[l].space = half.space
      BY <1>1, <1>2 DEF Templated
    <2>2. Prepared(bufs[l], nonces[l]) = BufferFor(half.head, half.space, nonces[l])
      BY <2>1, PreparedIs
    <2> QED
      BY <1>1, <1>3, <2>2
  <1>4. Templated'
    <2>1. ASSUME NEW l \in Lanes
          PROVE  /\ bufs'[l] = [head |-> bufs'[l].head, space |-> bufs'[l].space,
                                nonce |-> bufs'[l].nonce, fill |-> bufs'[l].fill]
                 /\ bufs'[l].head = half.head /\ bufs'[l].space = half.space
      <3>1. CASE l \in DOMAIN nonces
        <4>1. bufs'[l] = [head |-> half.head, space |-> half.space,
                          nonce |-> nonces[l], fill |-> HeadFill(half.head)]
          BY <1>3, <3>1 DEF BufferFor
        <4> QED
          BY <4>1
      <3>2. CASE l \notin DOMAIN nonces
        BY <1>1, <1>2, <3>2 DEF Templated
      <3> QED
        BY <3>1, <3>2
    <2>2. bufs' = [l \in Lanes |-> bufs'[l]]
      BY <1>1
    <2>3. bufs' = [l \in Lanes |-> [head |-> bufs'[l].head, space |-> bufs'[l].space,
                                    nonce |-> bufs'[l].nonce, fill |-> bufs'[l].fill]]
      BY <2>1, <2>2
    <2> QED
      BY <1>1, <1>2, <2>1, <2>3 DEF Templated
  <1>5. Asking'
    BY <1>1, <1>3 DEF Asking, BufferOf
  <1>6. \A l \in active' : ~Started(l)'
    BY <1>1, LanesAre DEF Started
  <1> QED
    BY <1>1, <1>4, <1>5, <1>6 DEF Answers, Walked, Ended, Hits

\* What a lane's turn in the walk leaves of the buffers and the call.
LEMMA WalkLeavesCall ==
    ASSUME Answers, UNCHANGED <<half, pristine, bufs, hashes, active, asked, target>>
    PROVE  /\ Templated'
           /\ \A l : BufferOf(l)' = BufferOf(l) /\ WalkOf(l)' = WalkOf(l) /\ DigestOf(l)' = DigestOf(l)
  BY DEF Answers, Templated, BufferOf, WalkOf, DigestOf

LEMMA StartLaneAnswers == Inv /\ Answers /\ StartLane => Answers'
  <1> SUFFICES ASSUME Inv, Answers, StartLane PROVE Answers'
    OBVIOUS
  <1> DEFINE l == cursor
  <1>0. /\ pc = "start" /\ active = Lanes /\ step = 0 /\ pristine # NoKey /\ l \in Lanes /\ Queued
        /\ buckets \in [{0, 1} -> LaneQueues] /\ Memory
    BY DEF StartLane, Inv, TypeOK, Control, Queues, LaneQueues
  <1>1. /\ ctx' = [ctx EXCEPT ![l] = LaneStart(l)]
        /\ Enqueue(0, LaneStart(l).sel.case, l)
        /\ NextLane("walk")
        /\ UNCHANGED <<half, pristine, keys, bufs, hashes, active, asked, target, step, hit>>
    BY DEF StartLane, call
  <1>2. pc' \in {"start", "walk"} /\ (pc' = "start" => cursor' = l + 1)
        /\ (pc' = "walk" => IsLast(l))
    BY <1>0, <1>1 DEF NextLane
  <1>3. Inv'
    BY StartLaneKeeps
  <1>4. /\ Templated'
        /\ \A m : BufferOf(m)' = BufferOf(m) /\ WalkOf(m)' = WalkOf(m)
    BY <1>1, WalkLeavesCall
  <1>5. Asking'
    BY <1>0, <1>1, <1>2, <1>4 DEF Answers, Asking, Finalized
  <1>6. \A m \in Lanes : Run(m) = 0 /\ keys[m] = pristine
    <2>1. \A m \in Lanes : Run(m) = 0
      BY <1>0 DEF Run
    <2> QED
      BY <1>0, <2>1, CleanKey
  <1>7. \A m \in Lanes : Run(m)' = 0
    <2>1. CASE pc' = "start"
      BY <2>1 DEF Run
    <2>2. CASE pc' = "walk"
      <3>1. buckets'[1] = buckets[1]
        BY <1>0, <1>1 DEF Enqueue
      <3>2. \A c, i : ~Place(buckets'[1], c, i)
        BY <1>0, <3>1 DEF Queued, Place
      <3>3. Nxt' = 1 /\ step' = 0
        BY <1>0, <1>1 DEF Nxt
      <3>4. \A m \in Lanes : Waits(m)'
        BY <1>3, <2>2, <3>2, <3>3 DEF Inv, Queues, Walking, Holds
      <3> QED
        BY <2>2, <3>3, <3>4 DEF Run
    <2> QED
      BY <1>2, <2>1, <2>2
  <1>8. /\ ctx'[l] = LaneStart(l)
        /\ \A m \in Lanes : m # l => ctx'[m] = ctx[m]
    BY <1>0, <1>1 DEF Memory
  <1>9. Walked'
    <2> SUFFICES ASSUME NEW m \in Lanes, Started(m)'
                 PROVE  Reached(ctx'[m], keys[m], BufferOf(m), WalkOf(m)[0])
      BY <1>0, <1>1, <1>4, <1>7 DEF Walked
    <2>1. CASE m = l
      <3>1. ctx'[m] = Context(StepConst(Pack(BufferOf(m))), pristine[Mutable + 1])
        <4>1. bufs[m] = BufferOf(m)
          BY <1>0, <2>1 DEF Answers, Asking, Finalized
        <4> QED
          BY <1>6, <1>8, <2>1, <4>1 DEF LaneStart
      <3>2. Reached(ctx'[m], pristine, BufferOf(m), WalkOf(m)[0])
        BY <3>1, LaneBegins DEF WalkOf
      <3> QED
        BY <1>6, <3>2
    <2>2. CASE m # l
      <3>1. m < l
        BY <1>0, <1>2, <2>2, LanesAre DEF Started, IsLast
      <3>2. Started(m)
        BY <1>0, <3>1 DEF Started
      <3> QED
        BY <1>0, <1>6, <1>8, <2>2, <3>2 DEF Answers, Walked
    <2> QED
      BY <2>1, <2>2
  <1> QED
    BY <1>0, <1>1, <1>2, <1>4, <1>5, <1>9 DEF Answers, Ended, Hits

\* The lane whose turn it is has not run this step, and its queue is its case's.
LEMMA LaneAtTurn ==
    ASSUME Inv, RunLane, NEW l, l = buckets[Par][Least(mask)][cursor + 1]
    PROVE  l \in Lanes /\ Waits(l) /\ ctx[l].sel.case = Least(mask)
  <1> DEFINE c == Least(mask)
  <1>0. pc = "walk" /\ mask # {} /\ mask \in SUBSET Cases /\ Walking /\ cursor \in Nat /\ Par \in {0, 1}
        /\ buckets[Par] \in LaneQueues
    BY LanesAre DEF RunLane, Inv, TypeOK, Queues, LaneQueues, Par
  <1>1. c \in mask
    BY <1>0, LeastOf
  <1>2. cursor < Len(buckets[Par][c]) /\ buckets[Par][c] \in Seq(Lanes)
    BY <1>0, <1>1 DEF Walking, LaneQueues
  <1>3. ToRun(c, cursor + 1)
    BY <1>0, <1>1, <1>2 DEF ToRun, Place
  <1> HIDE DEF c
  <1>4. l \in Lanes
    BY <1>2, <1>0 DEF c
  <1>5. Waits(l)
    BY <1>3 DEF Waits, c
  <1>6. ctx[l].sel.case = c
    BY <1>0, <1>3 DEF Walking, c
  <1> QED
    BY <1>4, <1>5, <1>6 DEF c

\* The lane whose turn it is takes the reference's next step; no other moves.
LEMMA RunLaneAnswers == Inv /\ Answers /\ RunLane => Answers'
  <1> SUFFICES ASSUME Inv, Answers, RunLane PROVE Answers'
    OBVIOUS
  <1> DEFINE c == Least(mask)
             l == buckets[Par][c][cursor + 1]
             done == Body(Fast, c, ctx[l].sel, ctx[l].k, ctx[l].acc, keys[l])
             new == ctx'[l].sel.case
  <1>0. /\ pc = "walk" /\ active = Lanes /\ step \in 0 .. Steps - 1 /\ step \in Nat
        /\ pristine # NoKey /\ IsKey(pristine) /\ Memory /\ Walking
        /\ buckets \in [{0, 1} -> LaneQueues]
    BY HasherAssumption DEF RunLane, Inv, TypeOK, Control, Memory, Queues, LaneQueues
  <1>1. /\ StepLane(l, c) /\ Enqueue(Nxt, new, l)
        /\ UNCHANGED <<half, pristine, bufs, hashes, active, asked, target, pc, step, hit>>
    BY DEF RunLane, call
  <1>2. l \in Lanes /\ Waits(l) /\ ctx[l].sel.case = c
    BY LaneAtTurn
  <1>3. Inv'
    BY RunLaneKeeps
  <1>4. /\ Templated'
        /\ \A m : BufferOf(m)' = BufferOf(m) /\ WalkOf(m)' = WalkOf(m)
    BY <1>1, WalkLeavesCall
  <1>5. Asking'
    BY <1>0, <1>1, <1>4 DEF Answers, Asking, Finalized
  <1>6. Par' = Par /\ Nxt' = Nxt /\ Nxt \in {0, 1}
    BY <1>0, <1>1 DEF Par, Nxt
  <1> HIDE DEF l, c
  <1>7. /\ keys'[l] = done.key /\ ctx'[l] = Context(ctx[l].k, done.acc)
        /\ \A m \in Lanes : m # l => keys'[m] = keys[m] /\ ctx'[m] = ctx[m]
    <2>1. /\ keys' = [keys EXCEPT ![l] = done.key]
          /\ ctx' = [ctx EXCEPT ![l] = Context(@.k, done.acc)]
      BY <1>1 DEF StepLane, LaneLeft
    <2> HIDE DEF done
    <2> QED
      BY <1>0, <1>2, <2>1 DEF Memory
  <1>8. \A m \in Lanes : Waits(m)' <=> Waits(m) /\ m # l
    <2>1. new \in Cases
      <3>1. ctx'[l].sel \in Selectors
        BY <1>0, <1>1, <1>2, <1>3 DEF Inv, Memory
      <3> QED
        BY <3>1 DEF Selectors, Cases
    <2>2. buckets'[Nxt] = With(buckets[Nxt], new, l)
      BY <1>0, <1>1, <1>2, <1>6, <2>1 DEF Enqueue, With
    <2>3. \A m \in Lanes : Holds(buckets'[Nxt], m) <=> Holds(buckets[Nxt], m) \/ m = l
      <3>1. buckets[Nxt] \in LaneQueues /\ Once(buckets[Nxt]) /\ ~Holds(buckets[Nxt], l)
        BY <1>0, <1>2, <1>6 DEF Walking
      <3> HIDE DEF new
      <3> QED
        BY <1>2, <2>1, <2>2, <3>1, AppendedOnce
    <2>4. \A m \in Lanes : Holds(buckets[Nxt], m) <=> ~Waits(m)
      BY <1>0 DEF Walking
    <2>5. \A m \in Lanes : Holds(buckets'[Nxt], m) <=> ~Waits(m)'
      BY <1>0, <1>1, <1>3, <1>6 DEF Inv, Queues, Walking
    <2> QED
      BY <2>3, <2>4, <2>5
  <1>9. \A m \in Lanes : IF m = l THEN Run(m) = step /\ Run(m)' = step + 1 ELSE Run(m)' = Run(m)
    <2>1. \A m \in Lanes : Run(m) = IF Waits(m) THEN step ELSE step + 1
      BY <1>0 DEF Run
    <2>2. \A m \in Lanes : Run(m)' = IF Waits(m)' THEN step ELSE step + 1
      BY <1>0, <1>1 DEF Run
    <2> QED
      BY <1>2, <1>8, <2>1, <2>2
  <1>10. Walked'
    <2> SUFFICES ASSUME NEW m \in Lanes
                 PROVE  Reached(ctx'[m], keys'[m], BufferOf(m), WalkOf(m)[Run(m)'])
      BY <1>0, <1>1, <1>4 DEF Walked, Started
    <2>1. Reached(ctx[m], keys[m], BufferOf(m), WalkOf(m)[Run(m)])
      BY <1>0 DEF Answers, Walked, Started
    <2>2. CASE m = l
      <3>1. Reached(ctx[l], keys[l], BufferOf(l), WalkOf(l)[step])
        BY <1>9, <2>1, <2>2
      <3>2. Reached(Context(ctx[l].k, done.acc), done.key, BufferOf(l), WalkOf(l)[step + 1])
        <4>1. done = Body(Fast, ctx[l].sel.case, ctx[l].sel, ctx[l].k, ctx[l].acc, keys[l])
          BY <1>2
        <4> HIDE DEF done
        <4> QED
          BY <1>0, <3>1, <4>1, LaneAdvances DEF WalkOf
      <3> QED
        BY <1>2, <1>7, <1>9, <2>2, <3>2
    <2>3. CASE m # l
      BY <1>7, <1>9, <2>1, <2>3
    <2> QED
      BY <2>2, <2>3
  <1> QED
    BY <1>0, <1>1, <1>4, <1>5, <1>10 DEF Answers, Ended, Hits

\* Every lane of the call has taken the step that ends.
LEMMA EndStepAnswers == Inv /\ Answers /\ EndStep => Answers'
  <1> SUFFICES ASSUME Inv, Answers, EndStep PROVE Answers'
    OBVIOUS
  <1>0. /\ pc = "walk" /\ mask = {} /\ active = Lanes /\ step \in 0 .. Steps - 1 /\ step \in Nat
        /\ Walking /\ cursor = 0 /\ buckets \in [{0, 1} -> LaneQueues]
    BY HasherAssumption DEF EndStep, Inv, TypeOK, Control, Queues, Walking, LaneQueues
  <1>1. /\ buckets' = [buckets EXCEPT ![Par] = NoBuckets]
        /\ step' = step + 1
        /\ IF LastStep THEN pc' = "finalize" /\ inter' = Intermediates ELSE pc' = pc
        /\ UNCHANGED <<half, pristine, keys, bufs, hashes, ctx, active, asked, target, cursor, hit>>
    BY DEF EndStep, Emptied, call
  <1>2. Inv'
    BY EndStepKeeps
  <1>3. /\ Templated'
        /\ \A m : BufferOf(m)' = BufferOf(m) /\ WalkOf(m)' = WalkOf(m)
    BY <1>1, WalkLeavesCall
  <1>4. \A m \in Lanes : Reached(ctx[m], keys[m], BufferOf(m), WalkOf(m)[step + 1])
    <2>1. \A m \in Lanes : Run(m) = step + 1
      BY <1>0 DEF Run, Waits, ToRun
    <2> QED
      BY <1>0, <2>1 DEF Answers, Walked, Started
  <1>5. CASE LastStep
    <2>1. pc' = "finalize" /\ step + 1 = Steps /\ inter' = Intermediates
      BY <1>1, <1>5 DEF LastStep
    <2>2. Ended'
      <3> SUFFICES ASSUME NEW m \in Lanes
                   PROVE  /\ keys[m] = WalkOf(m)[Steps].key
                          /\ inter'[m] = Reduce64(Xor(WalkOf(m)[Steps].acc, LengthHash))
        BY <1>0, <1>1, <1>3 DEF Ended
      <3>1. Reached(ctx[m], keys[m], BufferOf(m), WalkOf(m)[Steps])
        BY <1>4, <2>1
      <3>2. inter'[m] = Reduce64(Xor(ctx[m].acc, LengthHash))
        BY <1>0, <2>1 DEF Intermediates
      <3> QED
        BY <3>1, <3>2 DEF Reached, Context
    <2>3. \A m \in Lanes : ~Finalized(m)'
      BY <1>0, <1>1, <2>1, LanesAre DEF Finalized
    <2>4. Asking'
      BY <1>0, <1>1, <1>3, <2>1, <2>3 DEF Answers, Asking, Finalized
    <2>5. Hits'
      BY <1>0, <1>1, <2>1, <2>3 DEF Answers, Hits
    <2>6. Walked'
      BY <2>1 DEF Walked, Started
    <2> QED
      BY <1>3, <2>2, <2>4, <2>5, <2>6 DEF Answers
  <1>6. CASE ~LastStep
    <2>1. pc' = "walk"
      BY <1>0, <1>1, <1>6
    <2>2. \A m \in Lanes : Run(m)' = step + 1
      <3>1. Nxt' = Par /\ Par \in {0, 1}
        BY <1>0, <1>1, Parities
      <3>2. \A c, i : ~Place(buckets'[Par], c, i)
        BY <1>0, <1>1, <3>1 DEF Place, NoBuckets
      <3>3. \A m \in Lanes : Waits(m)'
        BY <1>2, <2>1, <3>1, <3>2 DEF Inv, Queues, Walking, Holds
      <3> QED
        BY <1>1, <2>1, <3>3 DEF Run
    <2>3. Walked'
      BY <1>0, <1>1, <1>3, <1>4, <2>2 DEF Walked
    <2>4. Asking'
      BY <1>0, <1>1, <1>3, <2>1 DEF Answers, Asking, Finalized
    <2> QED
      BY <1>0, <1>1, <1>3, <2>1, <2>3, <2>4 DEF Answers, Ended, Hits
  <1> QED
    BY <1>5, <1>6

LEMMA StartScalarAnswers == Inv /\ Answers /\ StartScalar => Answers'
  <1> SUFFICES ASSUME Inv, Answers, StartScalar PROVE Answers'
    OBVIOUS
  <1>0. /\ pc = "scalar" /\ pc' = "stream" /\ active = {0} /\ step = 0 /\ pristine # NoKey
        /\ Memory /\ 0 \in Lanes
        /\ ctx' = [ctx EXCEPT ![0] = LaneStart(0)]
        /\ UNCHANGED <<half, pristine, keys, bufs, hashes, active, asked, target, step, cursor, hit>>
    BY LanesAre DEF StartScalar, Inv, Control, call
  <1>1. /\ Templated'
        /\ \A m : BufferOf(m)' = BufferOf(m) /\ WalkOf(m)' = WalkOf(m)
    BY <1>0, WalkLeavesCall
  <1>2. Asking'
    BY <1>0, <1>1 DEF Answers, Asking, Finalized
  <1>3. Run(0) = 0 /\ Run(0)' = 0 /\ keys[0] = pristine
    <2>1. Run(0) = 0 /\ Run(0)' = 0
      BY <1>0 DEF Run
    <2> QED
      BY <1>0, <2>1, CleanKey
  <1>4. Reached(ctx'[0], pristine, BufferOf(0), WalkOf(0)[0])
    <2>1. bufs[0] = BufferOf(0)
      BY <1>0 DEF Answers, Asking, Finalized
    <2>2. ctx'[0] = Context(StepConst(Pack(BufferOf(0))), pristine[Mutable + 1])
      BY <1>0, <1>3, <2>1 DEF LaneStart, Memory
    <2> QED
      BY <2>2, LaneBegins DEF WalkOf
  <1>5. Walked'
    BY <1>0, <1>1, <1>3, <1>4 DEF Walked
  <1> QED
    BY <1>0, <1>1, <1>2, <1>5 DEF Answers, Ended, Hits

LEMMA ScalarStepAnswers == Inv /\ Answers /\ ScalarStep => Answers'
  <1> SUFFICES ASSUME Inv, Answers, ScalarStep PROVE Answers'
    OBVIOUS
  <1> DEFINE done == Body(Fast, ctx[0].sel.case, ctx[0].sel, ctx[0].k, ctx[0].acc, keys[0])
  <1>0. /\ pc = "stream" /\ step \in 0 .. Steps - 1 /\ step' = step + 1
        /\ active = {0} /\ IsKey(pristine) /\ Memory /\ 0 \in Lanes
        /\ StepLane(0, ctx[0].sel.case)
        /\ UNCHANGED <<half, pristine, bufs, hashes, active, asked, target, pc, cursor, hit>>
    BY LanesAre, HasherAssumption DEF ScalarStep, Inv, TypeOK, Control, Memory, call
  <1>1. /\ Templated'
        /\ \A m : BufferOf(m)' = BufferOf(m) /\ WalkOf(m)' = WalkOf(m)
    BY <1>0, WalkLeavesCall
  <1>2. Asking'
    BY <1>0, <1>1 DEF Answers, Asking, Finalized
  <1>3. Run(0) = step /\ Run(0)' = step + 1
    BY <1>0 DEF Run
  <1>4. Reached(ctx[0], keys[0], BufferOf(0), WalkOf(0)[step])
    BY <1>0, <1>3 DEF Answers, Walked, Started
  <1>5. Reached(Context(ctx[0].k, done.acc), done.key, BufferOf(0), WalkOf(0)[step + 1])
    <2>1. done = Body(Fast, ctx[0].sel.case, ctx[0].sel, ctx[0].k, ctx[0].acc, keys[0])
      OBVIOUS
    <2> HIDE DEF done
    <2> QED
      BY <1>0, <1>4, <2>1, LaneAdvances DEF WalkOf
  <1>6. keys'[0] = done.key /\ ctx'[0] = Context(ctx[0].k, done.acc)
    <2>1. /\ keys' = [keys EXCEPT ![0] = done.key]
          /\ ctx' = [ctx EXCEPT ![0] = Context(@.k, done.acc)]
      BY <1>0 DEF StepLane, LaneLeft
    <2> HIDE DEF done
    <2> QED
      BY <1>0, <2>1 DEF Memory
  <1> HIDE DEF done
  <1>7. Walked'
    BY <1>0, <1>1, <1>3, <1>5, <1>6 DEF Walked
  <1> QED
    BY <1>0, <1>1, <1>2, <1>7 DEF Answers, Ended, Hits

LEMMA EndScalarAnswers == Inv /\ Answers /\ EndScalar => Answers'
  <1> SUFFICES ASSUME Inv, Answers, EndScalar PROVE Answers'
    OBVIOUS
  <1>0. /\ pc = "stream" /\ pc' = "finalize" /\ step = Steps /\ active = {0} /\ cursor = 0
        /\ 0 \in Lanes /\ inter' = Intermediates
        /\ UNCHANGED <<half, pristine, keys, bufs, hashes, active, asked, target, cursor, hit>>
    BY LanesAre DEF EndScalar, Inv, Control, call
  <1>1. /\ Templated'
        /\ \A m : BufferOf(m)' = BufferOf(m) /\ WalkOf(m)' = WalkOf(m)
    BY <1>0, WalkLeavesCall
  <1>2. ~Finalized(0)'
    BY <1>0 DEF Finalized
  <1>3. Asking'
    BY <1>0, <1>1, <1>2 DEF Answers, Asking, Finalized
  <1>4. Ended'
    <2>1. Run(0) = Steps
      BY <1>0 DEF Run
    <2>2. Reached(ctx[0], keys[0], BufferOf(0), WalkOf(0)[Steps])
      BY <1>0, <2>1 DEF Answers, Walked, Started
    <2>3. inter'[0] = Reduce64(Xor(ctx[0].acc, LengthHash))
      BY <1>0 DEF Intermediates
    <2>4. keys[0] = WalkOf(0)[Steps].key
          /\ inter'[0] = Reduce64(Xor(WalkOf(0)[Steps].acc, LengthHash))
      BY <2>2, <2>3 DEF Reached, Context
    <2> QED
      BY <1>0, <1>1, <2>4 DEF Ended
  <1>5. Hits'
    BY <1>0, <1>2 DEF Answers, Hits
  <1>6. Walked'
    BY <1>0 DEF Walked, Started
  <1> QED
    BY <1>1, <1>3, <1>4, <1>5, <1>6 DEF Answers

\* The lane finalized is judged by the digest of its own nonce.
LEMMA FinalizeAnswers == Inv /\ Answers /\ Finalize => Answers'
  <1> SUFFICES ASSUME Inv, Answers, Finalize PROVE Answers'
    OBVIOUS
  <1> DEFINE l == cursor
             digest == HarakaKeyed(Pack(Refilled(bufs[l], inter[l])), keys[l], OffsetOf(inter[l]))
  <1>0. /\ pc = "finalize" /\ active \in {{0}, Lanes} /\ l \in active /\ l \in Lanes
        /\ active \subseteq Lanes /\ pristine # NoKey /\ hit \subseteq active
    BY LanesAre DEF Finalize, Inv, TypeOK, Control
  <1>1. /\ bufs' = [bufs EXCEPT ![l] = Refilled(bufs[l], inter[l])]
        /\ NextLane("restore")
        /\ UNCHANGED <<half, pristine, keys, inter, active, asked, target>>
    BY DEF Finalize, call
  <1>2. Templated /\ hashes = [m \in Lanes |-> hashes[m]]
    BY DEF Answers, Templated
  <1>3. \A m : BufferOf(m)' = BufferOf(m) /\ WalkOf(m)' = WalkOf(m) /\ DigestOf(m)' = DigestOf(m)
    BY <1>1 DEF BufferOf, WalkOf, DigestOf
  <1>4. bufs[l] = BufferOf(l)
    BY <1>0, LanesAre DEF Answers, Asking, Finalized
  <1>5. bufs'[l] = Refilled(bufs[l], inter[l]) /\ \A m \in Lanes : m # l => bufs'[m] = bufs[m]
    BY <1>0, <1>1, <1>2 DEF Templated
  <1>6. digest = DigestOf(l) /\ (Passes(l) <=> ~AboveTarget(DigestOf(l), target))
    <2> DEFINE last == WalkOf(l)[Steps]
    <2>1. keys[l] = last.key /\ inter[l] = Reduce64(Xor(last.acc, LengthHash))
      BY <1>0 DEF Answers, Ended
    <2> HIDE DEF last
    <2>2. /\ digest = TailOf(BufferOf(l), last)
          /\ HighWord(Pack(Refilled(bufs[l], inter[l])), keys[l], OffsetOf(inter[l])) =
               TailOf(BufferOf(l), last)[2][4]
      BY <1>4, <2>1, LaneFinalized
    <2> QED
      BY <2>2 DEF DigestOf, Passes, AboveTarget, last
  <1>7. IF Passes(l) THEN hashes' = [hashes EXCEPT ![l] = digest] /\ hit' = hit \cup {l}
                     ELSE hashes' = hashes /\ hit' = hit
    BY <1>5 DEF Finalize
  <1> HIDE DEF digest
  <1>8. Templated'
    <2>1. Refilled(bufs[l], inter[l]) =
            [head |-> half.head, space |-> half.space, nonce |-> asked[l], fill |-> TailFill(inter[l])]
      BY <1>4 DEF Refilled, BufferOf, BufferFor
    <2>2. ASSUME NEW m \in Lanes
          PROVE  /\ bufs'[m] = [head |-> bufs'[m].head, space |-> bufs'[m].space,
                                nonce |-> bufs'[m].nonce, fill |-> bufs'[m].fill]
                 /\ bufs'[m].head = half.head /\ bufs'[m].space = half.space
      <3>1. CASE m = l
        <4>1. bufs'[m] = [head |-> half.head, space |-> half.space, nonce |-> asked[l],
                          fill |-> TailFill(inter[l])]
          BY <1>5, <2>1, <3>1
        <4> QED
          BY <4>1
      <3>2. CASE m # l
        <4>1. bufs'[m] = bufs[m]
          BY <1>5, <3>2
        <4> QED
          BY <1>0, <1>2, <4>1 DEF Templated
      <3> QED
        BY <3>1, <3>2
    <2>3. bufs' = [m \in Lanes |-> bufs'[m]]
      BY <1>1, <1>2 DEF Templated
    <2>4. bufs' = [m \in Lanes |-> [head |-> bufs'[m].head, space |-> bufs'[m].space,
                                    nonce |-> bufs'[m].nonce, fill |-> bufs'[m].fill]]
      BY <2>2, <2>3
    <2>5. hashes' = [m \in Lanes |-> hashes'[m]]
      BY <1>2, <1>7
    <2> QED
      BY <1>1, <1>2, <2>2, <2>4, <2>5 DEF Templated
  <1>9. \A m \in active : Finalized(m)' <=> Finalized(m) \/ m = l
    <2>1. CASE ~IsLast(l)
      <3>1. pc' = "finalize" /\ cursor' = l + 1
        BY <1>0, <1>1, <2>1 DEF NextLane
      <3> QED
        BY <1>0, <3>1, LanesAre DEF Finalized
    <2>2. CASE IsLast(l)
      <3>1. pc' = "restore" /\ \A m \in active : m <= l
        BY <1>0, <1>1, <2>2, TurnTaken
      <3> QED
        BY <1>0, <3>1, LanesAre DEF Finalized
    <2> QED
      BY <2>1, <2>2
  <1>10. pc' \in {"finalize", "restore"}
    BY <1>0, <1>1 DEF NextLane
  <1>11. Asking'
    <2>1. \A m \in active : ~Finalized(m)' => bufs'[m] = BufferOf(m)
      BY <1>0, <1>5, <1>9 DEF Answers, Asking
    <2> QED
      BY <1>0, <1>1, <1>3, <2>1 DEF Answers, Asking
  <1>12. Ended'
    BY <1>0, <1>1, <1>3 DEF Answers, Ended
  <1>13. Hits'
    <2>1. ~Finalized(l)
      BY <1>0, LanesAre DEF Finalized
    <2>2. ASSUME NEW m \in active
          PROVE  IF Finalized(m)' THEN Judged(m)' ELSE m \notin hit'
      <3>1. IF Finalized(m) THEN Judged(m) ELSE m \notin hit
        BY <1>0 DEF Answers, Hits
      <3>2. CASE m = l
        <4>1. m \in hit' <=> Passes(l)
          BY <1>7, <2>1, <3>1, <3>2
        <4>2. Passes(l) => hashes'[m] = DigestOf(m)
          BY <1>0, <1>2, <1>6, <1>7, <3>2
        <4>3. Judged(m)'
          BY <1>1, <1>3, <1>6, <3>2, <4>1, <4>2 DEF Judged, AboveTarget
        <4> QED
          BY <1>9, <3>2, <4>3
      <3>3. CASE m # l
        <4>1. (m \in hit' <=> m \in hit) /\ hashes'[m] = hashes[m]
          BY <1>0, <1>2, <1>7, <3>3
        <4>2. Finalized(m)' <=> Finalized(m)
          BY <1>9, <3>3
        <4>3. Judged(m) => Judged(m)'
          BY <1>1, <1>3, <4>1 DEF Judged, AboveTarget
        <4> QED
          BY <3>1, <4>1, <4>2, <4>3
      <3> QED
        BY <3>2, <3>3
    <2> QED
      BY <1>1, <1>10, <2>2 DEF Hits
  <1>14. Walked'
    BY <1>10 DEF Walked, Started
  <1> QED
    BY <1>8, <1>11, <1>12, <1>13, <1>14 DEF Answers

LEMMA RestoreAnswers == Inv /\ Answers /\ Restore => Answers'
  <1> SUFFICES ASSUME Inv, Answers, Restore PROVE Answers'
    OBVIOUS
  <1>0. /\ pc = "restore" /\ pc' \in {"restore", "idle"}
        /\ UNCHANGED <<half, pristine, bufs, hashes, active, asked, target, hit>>
    BY DEF Restore, NextLane, call
  <1>1. /\ Templated'
        /\ \A m : BufferOf(m)' = BufferOf(m) /\ DigestOf(m)' = DigestOf(m)
    BY <1>0, WalkLeavesCall
  <1>2. Asking'
    BY <1>0 DEF Answers, Asking, Finalized
  <1>3. \A m : Judged(m)' <=> Judged(m)
    BY <1>0, <1>1 DEF Judged, AboveTarget
  <1>4. Hits'
    BY <1>0, <1>3 DEF Answers, Hits, Finalized
  <1>5. Walked' /\ Ended'
    BY <1>0 DEF Walked, Ended, Started
  <1> QED
    BY <1>1, <1>2, <1>4, <1>5 DEF Answers

LEMMA HashExactAnswers == ASSUME Answers, NEW nonce, HashExact(nonce) PROVE Answers'
  <1>1. /\ pc = "idle" /\ pc' = "idle"
        /\ UNCHANGED <<half, pristine, bufs, hashes, active, asked, target>>
    BY DEF HashExact, Ready, lanes, call
  <1>2. Templated'
    BY <1>1, WalkLeavesCall
  <1> QED
    BY <1>1, <1>2 DEF Answers, Asking, Walked, Started, Ended, Hits

LEMMA StutterAnswers == Answers /\ UNCHANGED vars => Answers'
  <1> SUFFICES ASSUME Answers, UNCHANGED vars PROVE Answers'
    OBVIOUS
  <1>1. UNCHANGED <<half, pristine, keys, bufs, inter, hashes, ctx, active, asked, target,
                    pc, step, mask, cursor, buckets, hit>>
    BY DEF vars, lanes, queues, call
  <1>2. /\ Templated'
        /\ \A m : BufferOf(m)' = BufferOf(m) /\ WalkOf(m)' = WalkOf(m) /\ DigestOf(m)' = DigestOf(m)
    BY <1>1, WalkLeavesCall
  <1>3. \A m : /\ Started(m)' <=> Started(m)
               /\ Finalized(m)' <=> Finalized(m)
    BY <1>1 DEF Started, Finalized
  <1>4. \A m : Run(m)' = Run(m)
    <2>1. Par' = Par
      BY <1>1 DEF Par
    <2>2. \A m : Waits(m)' <=> Waits(m)
      BY <1>1, <2>1 DEF Waits, ToRun
    <2> QED
      BY <1>1, <2>2 DEF Run
  <1>5. \A m : Judged(m)' <=> Judged(m)
    BY <1>1, <1>2 DEF Judged, AboveTarget
  <1>6. Asking'
    BY <1>1, <1>2, <1>3 DEF Answers, Asking
  <1>7. Walked' /\ Ended'
    BY <1>1, <1>2, <1>3, <1>4 DEF Answers, Walked, Ended
  <1>8. Hits'
    BY <1>1, <1>3, <1>5 DEF Answers, Hits
  <1> QED
    BY <1>2, <1>6, <1>7, <1>8 DEF Answers

\* A nonce past the last wraps to a nonce.
LEMMA WrappedIsNonce ==
    /\ \A n \in Nonces : n \in Nat
    /\ \A n \in Nat : Wrapped(n) \in Nonces
  <1>1. Cardinality(Nonces) \in Nat /\ Cardinality(Nonces) > 0
    BY NonceAssumption, FS_CardinalityType, FS_EmptySet
  <1> QED
    BY <1>1, NonceAssumption DEF Wrapped

\* Together: no step loses the reference.
LEMMA AnswersStep == Inv /\ Answers /\ [Next]_vars => Answers'
  <1> SUFFICES ASSUME Inv, Answers, [Next]_vars PROVE Answers'
    OBVIOUS
  <1>1. CASE Reset
    BY <1>1, ResetAnswers
  <1>2. CASE \E base \in Nonces, limit \in Targets : RunWave(base, limit)
    <2>1. PICK base \in Nonces, limit \in Targets : RunWave(base, limit)
      BY <1>2
    <2> DEFINE nonces == [l \in Lanes |-> Wrapped(base + l)]
    <2>2. Begin(nonces, limit, "start")
      BY <2>1 DEF RunWave
    <2>3. \A l \in Lanes : Wrapped(base + l) \in Nonces
      <3>1. \A l \in Lanes : base + l \in Nat
        BY WrappedIsNonce, LanesAre
      <3> QED
        BY <3>1, WrappedIsNonce
    <2>4. DOMAIN nonces = Lanes /\ nonces \in [Lanes -> Nonces]
      BY <2>3
    <2> HIDE DEF nonces
    <2> QED
      BY <2>2, <2>4, BeginAnswers
  <1>3. CASE \E nonces \in [Lanes -> Nonces], limit \in Targets : RunWaveList(nonces, limit)
    <2>1. PICK nonces \in [Lanes -> Nonces], limit \in Targets : Begin(nonces, limit, "start")
      BY <1>3 DEF RunWaveList
    <2>2. DOMAIN nonces = Lanes
      OBVIOUS
    <2> QED
      BY <2>1, <2>2, BeginAnswers
  <1>4. CASE \E nonce \in Nonces, limit \in Targets : RunOne(nonce, limit)
    <2>1. PICK nonce \in Nonces, limit \in Targets : Begin([l \in {0} |-> nonce], limit, "scalar")
      BY <1>4 DEF RunOne
    <2> DEFINE nonces == [l \in {0} |-> nonce]
    <2>2. DOMAIN nonces = {0} /\ nonces \in [{0} -> Nonces] /\ {0} \subseteq Lanes
      BY LanesAre
    <2> HIDE DEF nonces
    <2>3. Begin(nonces, limit, "scalar")
      BY <2>1 DEF nonces
    <2> QED
      BY <2>2, <2>3, BeginAnswers
  <1>5. CASE \E nonce \in Nonces : HashExact(nonce)
    BY <1>5, HashExactAnswers
  <1>6. CASE StartLane
    BY <1>6, StartLaneAnswers
  <1>7. CASE RunLane
    BY <1>7, RunLaneAnswers
  <1>8. CASE EndStep
    BY <1>8, EndStepAnswers
  <1>9. CASE StartScalar
    BY <1>9, StartScalarAnswers
  <1>10. CASE ScalarStep
    BY <1>10, ScalarStepAnswers
  <1>11. CASE EndScalar
    BY <1>11, EndScalarAnswers
  <1>12. CASE Finalize
    BY <1>12, FinalizeAnswers
  <1>13. CASE Restore
    BY <1>13, RestoreAnswers
  <1>14. CASE UNCHANGED vars
    BY <1>14, StutterAnswers
  <1> QED
    BY <1>1, <1>2, <1>3, <1>4, <1>5, <1>6, <1>7, <1>8, <1>9, <1>10, <1>11, <1>12, <1>13, <1>14 DEF Next

----------------------------------------------------------------------------
(* The promise: the template of the last reset, the call at work, and each    *)
(* call's answer.                                                             *)

TemplateNow == IF pristine = NoKey THEN <<>>
               ELSE [head |-> half.head, space |-> half.space, key |-> pristine]
RequestNow == IF pc = "idle" THEN <<>> ELSE [nonces |-> asked, limit |-> target]

\* A key has slots, so it is not the key of no template.
LEMMA KeyIsSome == ASSUME NEW key, IsKey(key) PROVE key # NoKey
  <1>1. DOMAIN key = Slots
    BY DEF IsKey
  <1>2. DOMAIN NoKey = 1 .. 0
    BY DEF NoKey
  <1> QED
    BY <1>1, <1>2, SlotsAre

\* A reset is the promise's, with the key the reference would expand.
LEMMA ResetPromised == Reset => Promise!Reset
  <1> SUFFICES ASSUME Reset PROVE Promise!Reset
    OBVIOUS
  <1>1. PICK t \in Templates :
          /\ half' = [head |-> t.head, space |-> t.space, nonce |-> 0, fill |-> HeadFill(t.head)]
          /\ pristine' = ExpandedKeys[t.head]
    BY DEF Reset
  <1>2. pristine' = GenKey(t.head) /\ RefKeyOf(t.head) = RefGenKey(t.head)
    BY <1>1 DEF ExpandedKeys, RefKeyOf, RefKeys
  <1>3. pristine' = RefKeyOf(t.head) /\ pristine' # NoKey
    <2>1. IsKey(GenKey(t.head))
      BY DEF GenKey, IsKey
    <2> QED
      BY <1>2, <2>1, KeysAgree, KeyIsSome
  <1>4. half'.head = t.head /\ half'.space = t.space
    BY <1>1
  <1>5. UNCHANGED <<answer, calls>> /\ pc = "idle" /\ pc' = "idle"
    BY DEF Reset
  <1>6. RequestNow = <<>> /\ RequestNow' = <<>>
    BY <1>5 DEF RequestNow
  <1> QED
    BY <1>3, <1>4, <1>5, <1>6 DEF Promise!Reset, Promise!NoRequest, RequestNow

\* After a reset there is a template, and during a call there is a request.
LEMMA TemplateIsSome == pristine # NoKey => TemplateNow # <<>>
  <1> SUFFICES ASSUME pristine # NoKey PROVE TemplateNow # <<>>
    OBVIOUS
  <1>1. DOMAIN TemplateNow = {"head", "space", "key"}
    BY DEF TemplateNow
  <1>2. DOMAIN <<>> = 1 .. 0
    OBVIOUS
  <1> QED
    BY <1>1, <1>2

LEMMA RequestIsSome ==
    pc # "idle" => /\ RequestNow = [nonces |-> asked, limit |-> target]
                   /\ RequestNow # <<>>
  <1> SUFFICES ASSUME pc # "idle"
               PROVE  RequestNow = [nonces |-> asked, limit |-> target] /\ RequestNow # <<>>
    OBVIOUS
  <1>1. RequestNow = [nonces |-> asked, limit |-> target]
    BY DEF RequestNow
  <1>2. DOMAIN RequestNow = {"nonces", "limit"}
    BY <1>1
  <1>3. DOMAIN <<>> = 1 .. 0
    OBVIOUS
  <1> QED
    BY <1>1, <1>2, <1>3

\* A call that begins is a request.
LEMMA BeginPromised ==
    ASSUME NEW some \in {{0}, Lanes}, NEW nonces \in [some -> Nonces], NEW limit \in Targets,
           NEW next \in {"start", "scalar"}, Begin(nonces, limit, next)
    PROVE  Promise!Ask
  <1>1. /\ pc = "idle" /\ pc' # "idle" /\ pristine # NoKey
        /\ asked' = nonces /\ target' = limit
        /\ UNCHANGED <<half, pristine, answer, calls>>
    BY DEF Begin, Ready
  <1>2. TemplateNow # <<>> /\ TemplateNow' = TemplateNow
    BY <1>1, TemplateIsSome DEF TemplateNow
  <1>3. RequestNow = <<>> /\ RequestNow' = [nonces |-> nonces, limit |-> limit]
    BY <1>1 DEF RequestNow
  <1> QED
    BY <1>1, <1>2, <1>3 DEF Promise!Ask, Promise!NoTemplate, Promise!NoRequest, TemplateNow, RequestNow

\* A wave, a list and a single stream are such calls.
LEMMA CallPromised ==
    ASSUME \/ \E base \in Nonces, limit \in Targets : RunWave(base, limit)
           \/ \E nonces \in [Lanes -> Nonces], limit \in Targets : RunWaveList(nonces, limit)
           \/ \E nonce \in Nonces, limit \in Targets : RunOne(nonce, limit)
    PROVE  Promise!Ask
  <1>1. ASSUME NEW base \in Nonces, NEW limit \in Targets, RunWave(base, limit)
        PROVE  Promise!Ask
    <2> DEFINE nonces == [l \in Lanes |-> Wrapped(base + l)]
    <2>1. nonces \in [Lanes -> Nonces]
      <3>1. \A l \in Lanes : base + l \in Nat
        BY WrappedIsNonce, LanesAre
      <3> QED
        BY <3>1, WrappedIsNonce
    <2>2. Begin(nonces, limit, "start")
      BY <1>1 DEF RunWave
    <2> HIDE DEF nonces
    <2> QED
      BY <2>1, <2>2, BeginPromised
  <1>2. ASSUME NEW nonces \in [Lanes -> Nonces], NEW limit \in Targets, RunWaveList(nonces, limit)
        PROVE  Promise!Ask
    BY <1>2, BeginPromised DEF RunWaveList
  <1>3. ASSUME NEW nonce \in Nonces, NEW limit \in Targets, RunOne(nonce, limit)
        PROVE  Promise!Ask
    <2> DEFINE nonces == [l \in {0} |-> nonce]
    <2>1. nonces \in [{0} -> Nonces]
      OBVIOUS
    <2>2. Begin(nonces, limit, "scalar")
      BY <1>3 DEF RunOne
    <2> HIDE DEF nonces
    <2> QED
      BY <2>1, <2>2, BeginPromised
  <1> QED
    BY <1>1, <1>2, <1>3

\* The last lane restored, the caller reads what each lane's digest is.
LEMMA ReturnPromised ==
    ASSUME Inv, Answers, Restore, IsLast(cursor)
    PROVE  Promise!Hash
  <1>0. /\ pc = "restore" /\ pristine # NoKey /\ active \subseteq Lanes
        /\ asked \in [active -> Nonces] /\ target \in Targets
        /\ \A l \in active : Judged(l)
    BY LanesAre DEF Restore, Inv, TypeOK, Control, Answers, Asking, Hits, Finalized
  <1>1. /\ answer' = WaveAnswer /\ calls' = calls + 1 /\ pc' = "idle"
        /\ UNCHANGED <<half, pristine>>
    BY DEF Restore, NextLane
  <1>2. TemplateNow = [head |-> half.head, space |-> half.space, key |-> pristine]
        /\ TemplateNow # <<>> /\ TemplateNow' = TemplateNow
    BY <1>0, <1>1, TemplateIsSome DEF TemplateNow
  <1>3. RequestNow = [nonces |-> asked, limit |-> target] /\ RequestNow # <<>>
        /\ RequestNow' = <<>>
    <2>1. RequestNow = [nonces |-> asked, limit |-> target] /\ RequestNow # <<>>
      BY <1>0, RequestIsSome
    <2>2. RequestNow' = <<>>
      BY <1>1 DEF RequestNow
    <2> QED
      BY <2>1, <2>2
  <1>4. ASSUME NEW l \in active
        PROVE  [nonce |-> asked[l], hit |-> l \in hit,
                digest |-> IF l \in hit THEN hashes[l] ELSE NoDigest]
                 = Promise!AnswerOf(asked[l], RefMiningDigest(TemplateNow, asked[l]), target)
    <2> DEFINE d == DigestOf(l)
               given == [nonce |-> asked[l], hit |-> l \in hit,
                         digest |-> IF l \in hit THEN hashes[l] ELSE NoDigest]
    <2>1. RefMiningDigest(TemplateNow, asked[l]) = d
      <3>1. TemplateNow.head = half.head /\ TemplateNow.space = half.space /\ TemplateNow.key = pristine
        BY <1>2
      <3> QED
        BY <3>1, DigestIsTail DEF RefMiningDigest, DigestOf, WalkOf, BufferOf
    <2>2. (l \in hit <=> ~AboveTarget(d, target)) /\ (l \in hit => hashes[l] = d)
      BY <1>0 DEF Judged
    <2> HIDE DEF d
    <2>3. given = Promise!AnswerOf(asked[l], d, target)
      <3>1. CASE l \in hit
        BY <2>2, <3>1 DEF Promise!AnswerOf
      <3>2. CASE l \notin hit
        <4>1. (l \in hit) = FALSE
          BY <3>2
        <4>2. given = [nonce |-> asked[l], hit |-> FALSE, digest |-> NoDigest]
          BY <4>1
        <4> QED
          BY <2>2, <3>2, <4>2 DEF Promise!AnswerOf
      <3> QED
        BY <3>1, <3>2
    <2> QED
      BY <2>1, <2>3
  <1>5. answer' = [by |-> "wave", lanes |-> Promise!AnswersOf(TemplateNow, asked, target)]
    <2>1. DOMAIN asked = active
      BY <1>0
    <2> QED
      BY <1>1, <1>4, <2>1 DEF WaveAnswer, Promise!AnswersOf
  <1> QED
    BY <1>1, <1>2, <1>3, <1>5 DEF Promise!Hash, Promise!NoRequest, TemplateNow, RequestNow

\* hash_exact walks a scratch copy as the reference walks its own.
LEMMA ExactPromised ==
    ASSUME Inv, Answers, NEW nonce \in Nonces, HashExact(nonce)
    PROVE  Promise!HashExact
  <1> DEFINE buf == Prepared(half, nonce)
             walked == ExactWalk(pristine, buf)[Steps]
  <1>0. pristine # NoKey /\ IsKey(pristine)
    BY DEF HashExact, Ready, Inv, Memory
  <1>1. /\ answer' = [by |-> "exact", nonce |-> nonce, digest |-> ExactTail(buf, walked)]
        /\ calls' = calls + 1 /\ UNCHANGED <<half, pristine>>
    BY DEF HashExact
  <1>2. TemplateNow = [head |-> half.head, space |-> half.space, key |-> pristine]
        /\ TemplateNow # <<>> /\ TemplateNow' = TemplateNow
    BY <1>0, <1>1, TemplateIsSome DEF TemplateNow
  <1>3. buf = BufferFor(half.head, half.space, nonce)
    BY PreparedIs DEF Answers, Templated
  <1> HIDE DEF buf
  <1>4. walked = RefWalk(Exact, pristine, Pack(buf))[Steps]
    BY <1>0, ExactWalkAgrees
  <1>5. ExactTail(buf, walked) = TailOf(buf, walked)
    BY LaneFinalized DEF ExactTail, ExactDigest
  <1>6. RefDigest(TemplateNow, nonce) = TailOf(buf, walked)
    <2>1. TemplateNow.head = half.head /\ TemplateNow.space = half.space /\ TemplateNow.key = pristine
      BY <1>2
    <2> QED
      BY <1>3, <1>4, <2>1, DigestIsTail DEF RefDigest
  <1> HIDE DEF walked
  <1>7. answer' = [by |-> "exact", nonce |-> nonce, digest |-> RefDigest(TemplateNow, nonce)]
    BY <1>1, <1>5, <1>6
  <1>8. RequestNow = <<>> /\ RequestNow' = RequestNow
    BY DEF HashExact, Ready, call, RequestNow
  <1> QED
    BY <1>1, <1>2, <1>7, <1>8
       DEF Promise!HashExact, Promise!NoTemplate, Promise!NoRequest, TemplateNow, RequestNow

\* Whatever else a lane does, the caller sees none of it.
LEMMA OthersUnseen ==
    ASSUME \/ StartLane \/ RunLane \/ EndStep \/ StartScalar \/ ScalarStep \/ EndScalar
           \/ Finalize \/ (Restore /\ ~IsLast(cursor)) \/ UNCHANGED vars
    PROVE  UNCHANGED <<TemplateNow, RequestNow, answer, calls>>
  <1>1. UNCHANGED <<half, pristine, asked, target, answer, calls>>
    BY DEF StartLane, RunLane, EndStep, StartScalar, ScalarStep, EndScalar, Finalize, Restore, vars, call
  <1>2. (pc = "idle" /\ pc' = "idle") \/ (pc # "idle" /\ pc' # "idle")
    BY DEF StartLane, RunLane, EndStep, StartScalar, ScalarStep, EndScalar, Finalize, Restore, vars,
           NextLane
  <1> QED
    BY <1>1, <1>2 DEF TemplateNow, RequestNow

\* A mining context keeps its promise: every lane of every wave, and every
\* single stream, is answered with the reference's digest of its own nonce, and
\* hash_exact with the exact reference's, whatever was hashed before.
THEOREM HasherKeepsPromise == Spec => Implements
  <1>1. Init => Promise!Init
    BY DEF Init, Promise!Init, Promise!NoTemplate, Promise!NoRequest, Promise!NoAnswer
  <1>2. Inv /\ Answers /\ [Next]_vars => [Promise!Next]_<<TemplateNow, RequestNow, answer, calls>>
    <2> SUFFICES ASSUME Inv, Answers, [Next]_vars
                 PROVE  Promise!Next \/ UNCHANGED <<TemplateNow, RequestNow, answer, calls>>
      OBVIOUS
    <2>1. CASE Reset
      BY <2>1, ResetPromised DEF Promise!Next
    <2>2. CASE \E nonce \in Nonces : HashExact(nonce)
      BY <2>2, ExactPromised DEF Promise!Next
    <2>3. CASE Restore /\ IsLast(cursor)
      BY <2>3, ReturnPromised DEF Promise!Next
    <2>4. CASE \/ \E base \in Nonces, limit \in Targets : RunWave(base, limit)
               \/ \E nonces \in [Lanes -> Nonces], limit \in Targets : RunWaveList(nonces, limit)
               \/ \E nonce \in Nonces, limit \in Targets : RunOne(nonce, limit)
      BY <2>4, CallPromised DEF Promise!Next
    <2> QED
      BY <2>1, <2>2, <2>3, <2>4, OthersUnseen DEF Next
  <1>3. Inv /\ Answers /\ [Next]_vars => Answers'
    BY AnswersStep
  <1> QED
    BY <1>1, <1>2, <1>3, InitAnswers, WalkInvariant, PTL
       DEF Spec, Implements, Promise!Spec, TemplateNow, RequestNow
=============================================================================
