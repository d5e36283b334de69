# vh22 in TLA+

A verification project for the walled-garden miner: TLA+ modules of the parts
of the program whose behaviour is a matter of order (threads, messages,
retries), and of its hash engine and the bytes of a share against the
references they must agree with; TLC configurations that check them on small
instances, and TLAPS proofs of what matters most for every instance. Paths below are relative to
the repository (`net/stratum.cpp`); `PROJECT.json` maps every definition to
its lines.

## The system

| Part | State | Operations | Talks to |
|---|---|---|---|
| **Stratum connection** (`net/stratum.{h,cpp}`, class `Conn`, its detached client thread) | the shown state, note and error; job, serial, target flag, published serial; outbox, shares in flight, counters; authorized, fatal, reconnect flags; backoff | `run_thread`, `session`, `dial`, `pump_lines`, `handle_line`, `Client::start/stop/submit/current/job_serial/stats` | the pool by lines of JSON over TCP; the miners through `job_serial`, the locked job and the outbox; the UI through state, note, error, counters; everyone through the wake pipe |
| **Miner threads** (`Engine::loop`, `ui/vh22top.cpp:177`) | the template of the job fetched last, its serial and target, a nonce, a tag | poll, fetch, run a wave, submit | the connection through `Client` |
| **Share encoding** (`net/stratum.cpp`, `src/verushash.cpp`) | the header, nonce space and target of a job, the extranonce | `handle_line` (notify, set_target), `Job::build_preimage`, `hash_half`, `set_nonce_space`, `hash_meets_target`, the submit of `session` | from the pool's message to the hashed buffer, and back to the pool |
| **Hash engine** (`src/verushash.cpp`, `src/clhash_wave.cpp`, `include/vh22/`) | template, lanes with a key, a buffer and a journal each, buckets | `build_template`, `reset`, `run_wave`, `run_wave_list`, `run_one`, `hash_exact`, `hash_of` | called by the miners |
| **Reference hash** (`ref/`) | none | `verus_hash` in plain C++ | tests only |
| **JSON** (`net/json.h`) | a cursor | `parse`, accessors, `quote` | called by `handle_line` |
| **UI application** (`struct App`, `ui/vh22top.cpp`) | screen, focus, pool list, selection, identity, engine and client | keys, `connect_pool`, start and stop of mining, the status line | client, engine, settings |
| **Settings** (`load_settings`, `save_settings`) | one file | load at launch, rewrite at every change | UI |
| **Terminal toolkit** (`ui/tui.*`), **ticker**, **tools** | screen cells, prose, none | drawing, key decoding, tests | UI |

What is hard here:

* one connection is shared by a detached thread, any number of miners and the
  UI, by one mutex, a handful of atomics written outside it, and a pipe that
  carries wake-ups with two meanings (a share is queued; stop);
* the pool speaks when it likes: work before or after the authorize reply,
  results late or never, `client.reconnect` at any moment, silence;
* a connection dies in every phase, and nothing of its job, extranonce or
  shares in flight may leak into the next one, while miners still hold finds
  of the old job;
* `stop()` does not wait for the thread it stops;
* the engine walks many lanes in lockstep through buckets that are filled
  while they are read, dirties a key per lane and undoes only what a journal
  names, and finalizes between the two;
* its step bodies are rewritten (no branches, other instructions, another order
  of stores) where the reference has corners: both slots of a step the same, the
  least value of a lane, a read past the last mutable vector;
* the nonce a share was found with is hashed in one place, sent in two, and
  cut at the pool's extranonce.

What makes each part correct:

* *connection*: no share is lost from the books or counted twice; a share is
  sent only for the job it solves; miners are told to mine only what has a
  target; no wake-up is lost; the delay grows and stays bounded while
  attempts fail; with a pool that pauses between its bytes a silent session is given
  up and a stopped thread ends; a rejected address is not tried again; what the
  screen says is so;
* *miners*: the tags that keep their nonces apart differ, and none goes on with
  the job or target of a connection that is gone;
* *waves*: every lane's answer is the reference's for its nonce, whatever was
  hashed before in the same memory; each lane takes each step once; between
  calls every key is pristine;
* *share*: the bytes submitted reconstruct the buffer that was hashed; a lane is
  submitted just when its digest, by the mining multiply, meets the target its worker
  fetched, and that target was in force since the pool issued the job;
* *settings*: what is loaded is a configuration that was saved;
* *UI*: client and engine are started and stopped in an order that keeps the
  pointers and serials of the miners good, and the pool shown is the one
  connected.

## Modules

| Module | What it is |
|---|---|
| `Stratum` | one connection, its client thread, its miners and `stop()`; the pool and the network as environment; properties and the specification with fairness |
| `ShareLedger` | what becomes of a share, as its counters tell: the abstract specification that `Stratum` implements |
| `MCStratum` | the symmetry that TLC uses; the `.cfg` files give the constants |
| `StratumSafety` | its type correctness, its safety theorems, and that it implements `ShareLedger`, proved |
| `Engine` | the miners over successive connections: the UI thread that starts, stops and reconnects, the worker threads, and of each connection what a worker sees |
| `MCEngine` | the module TLC runs |
| `EngineProof` | its three invariants, proved |
| `App` | the UI application: screens, list of pools, address, and what the keys do with connection, miners and settings file, over restarts |
| `MCApp` | the list TLC starts a first run with |
| `AppProof` | type correctness and five safety theorems of it, proved |
| `Vectors` | 128-bit vectors as four words, a word as the set of its bits; the nonlinear instructions are constant operators |
| `StepBodies`, `RefBodies` | the eight bodies of a step, the engine's and the reference's |
| `Haraka` | Haraka256 and the keyed Haraka512, fused and plain, and the pre-filter's word |
| `LaneArithmetic` | the rounding multiply and the reduction to 64 bits, both ways |
| `WorkerTag` | the 32 bits that separate a worker in the nonce space, and how two workers draw theirs |
| `Kernels` | a machine that calls any of these on any input of a run, with what must agree |
| `Digest` | the reference's hash of a nonce |
| `HashPromise` | what a mining context promises: the abstract specification |
| `Hasher` | the mining context and its lockstep walk, which implements `HashPromise` |
| `Scatter`, `MCKernels`, `MCHasher` | an interpretation of the nonlinear instructions for TLC, and the inputs of the runs |
| `Loops` | what a loop written as a recursive function computes, and induction, proved once for all loops |
| `BodiesProof`, `KernelsProof`, `HasherProof` | the engine's theorems, that it agrees with the reference and that `Hasher` implements `HashPromise` among them, proved |
| `Share` | the bytes of a share: header, preimage, hashed buffer, target, submission; and what a pool makes of it |
| `MCShare` | two messages, three extranonces, some targets and pairs of digests for TLC |
| `ShareProof` | all five of its properties, proved |

`Hasher` extends `Digest`, which extends `RefBodies` and `Haraka`. A body takes
the multiply as its first argument, as the code's templates do: `Fast` in waves,
`Exact` in `hash_exact`; the reference's bodies take it too, so that a mined
digest can be compared with the reference's walk under the same multiply. `Stratum`, `Engine`, `Hasher` and `Share` meet at
the miner: `Engine` says which job a worker holds and when it submits, `Share`
what bytes it then hashes and sends, `Hasher` what a wave over them answers,
`Stratum` what becomes of the share.

### How Stratum corresponds to the code

Each variable is a member of `Conn` or a local of a thread, under its own
name (`job_serial` is `jobSerial`, and so on). `pc` is where the client thread
stands: `top` (the test of `run` in `run_thread`), `reset`, `resolve`,
`connect`, `subscribe` (the phases of `session` before its loop), `loop`,
`poll`, `read` and `lines` (in `pump_lines`: the loop around `recv`, which goes on while
the socket gives bytes and tests neither `run` nor the limit of a line, and then the
lines it got), `publish` (in `handle_line` between the end
of the locked section and the store of `job_serial`), `swap`, `send`,
`close`, then `ended`, `nap`, `exit`, `done` (the rest of `run_thread`).

A step is what happens between two points where another thread could matter:
a locked section, an atomic store, a poll, a read of `run`. So `HandleNotify`
and `PublishJob` are two steps, and a miner may run between them;
`Client::submit` is `WorkerSubmits` and `WorkerWakes`; `Client::stop` is
`StopDetach` and `StopSignal`. Data only the client thread touches is changed
in one step together with what follows it. The three stores of `stop()` are
one step, and so are the push to `pending` and the increment of `submitted`:
only the display reads between them.

Data is kept to what the properties distinguish. A job is its serial, the
extranonce its header was built with, and `valid`. A find is the serial and
extranonce of the job the miner hashed (the code queues only serial, nonce and
tag; the extranonce is what the nonce is good for, and no guard of the model
reads it). A line of the stream is the call of `handle_line` it makes. A note
is its diagnosis and whether it has the countdown on it. Several causes with
one effect are one diagnosis ("cannot connect"). Extranonces are model values
and the pool never issues the same one twice in a row (`issued`), which is
what `session` relies on (stratum.cpp:619).

The pool answers only what it was asked on this connection (`unanswered`), in
any order, with any verdict, or never; closes, stalls, sends garbage; pushes
jobs and targets once it accepted the subscription, or before it with
`EagerPool`; asks with ids of its own with `PoolAsks`. Any send may fail, the
authorize line silently, as in the code.

Time is not measured. A watchdog may fire whenever the code's condition other
than the deadline holds; a countdown second is one step.

Left out of `Stratum`: telemetry (`peer_`, difficulty, times, the `reconnects`
count), JSON and hex, the bytes of a share (in `Share`), `Client::start` on top of a running
connection, and the message texts.

### How Engine corresponds to the code

`Stratum` has one connection and workers without a life of their own; `Engine`
has the rest of `class Engine` and what the UI does with it and with `Client`.
The UI thread is `ui`: at `keys` it takes a key (one action per branch of
`on_key` that touches engine or client; KeyConnect stands for the three that
connect: another pool, an edited endpoint, another address), and then walks
through the calls of that branch one effect on another thread at a time:
`setpool`, `halt` and `join` (the two halves of `Engine::stop`), `spawn`,
`unpool` (the rest of `stop_mining`), `detach` and `signal` (the halves of
`Client::stop`), `connect`. `ret`, `then` and `goal` say how the branch goes on.

A connection is a number; of each, `serial` and `valid` are its job behind the
lock, `live` the serial it publishes, `phase` whether a job is issued, published
or neither, and `handed` what `submit` queued on it. `Announce` may come at any
time after `NewWork`, and again, because every `set_target` publishes; also
after `stop()` put the serial to 0. Every connection counts its serials from 1.

A worker `i` is `wpc[i]`: not running, `born` (up to the read of `pool_`),
`bench`, or on the pool at `poll` (the test of `g_running` and of
`job_serial()`), `fetch`, `mine`, `push` (in `submit`, its reference taken and
the lock not yet). The guards compare serials alone, as the code does: the
connection in `held` is read by properties only.

A wave is one nonce, and it may or may not hit. `starts` counts the starts of the
engine for the bound `MaxStarts` and is read by nothing else. The read of `pool_`
by a worker just born races with `set_pool` in the code; the worker sees either
value in the model.

Left out of `Engine`: which pool, whether it is Ready (MINE may be pressed on
any connection), lanes, targets and hashes, the tag (in `WorkerTag`), and the
rates on the screen.

### How WorkerTag corresponds to the code

A tag is the low 32 bits of the worker's index times 0x9E3779B1, exclusive or the
milliseconds of the worker's own look at the clock (`vh22top.cpp:189-190`).
`ProductBit` is a bit of the product, computed from its 16-bit halves because TLC's
integers have 32 bits, and `TagBit` the exclusive or. Two workers draw their tags at
any two readings, which would be 2^64 pairs; since the exclusive or works bit by bit,
a draw opens both readings from the top, one bit a step (`DrawBit`), keeps their
distance so far, and ends where the tags differ or the distance can no longer
come back into `Window` (`CanMeet`). `Kernels` calls the draw beside the kernels of the
engine: `CallTag` picks the workers, `DrawTags` the bits.

`TagsApart` says that two tags are equal only if they are one worker's at one
millisecond, as long as the clocks read within `Window` of each other. The workers of
one start read their clocks within moments of each other, and a worker started again
does so after a join. The window is a real limit: with 32 workers the
closest readings at which two of them draw the same tag are 1,667,470 ms apart (28
minutes), and `TagsApart` fails with a window beyond that. With 16 workers it is
3,912,312 ms, with 64 it is 1,164,414 ms. So an engine that is started again half an
hour later, on a job that is still the same, can repeat nonces of its first life. One worker
that is started twice within a millisecond would repeat its tag too. From 2^32 ms on (an
uptime of 49.7 days) the conversion of the clock to 32 bits is undefined in C++ and
not modelled. In `Share` the tag of a worker is a constant.

### How App corresponds to the code

Each action is one branch of `on_key` with all it calls, on the screen it
belongs to (`screen`; "off" is a program that does not run). `cfg` is the
struct `Settings`, with rows counted from 0 as in the code (`Row`, `IsRow`);
`client` is what `Client::start` was called with last, `minesOn` the same at
the time mining began. `Clamped` and `CursorIn` are `clamp_pools`, `Tested` is
`connect_selected`, `RetestIf` is `stop_mining` and `connect_selected` where
a handler calls both. A pool is its endpoint: labels, ports and the flag
`builtin` are left out. Forms are not typed letter by letter: accepting one
picks what was typed, and a form that is refused changes nothing but a message.

`Launch` is `load_settings` and `init`; `Quit` is `q` and also a kill between
two keys, which leave the same file. `Save` may fail to open the file, which no
caller looks at; `DiesSaving` is a crash after `fopen` has truncated the file.
What is then in the file is nothing, or a head with the rows that fitted (stdio
writes 4096 bytes at a time, so only a long list is cut in the middle; the cut
is modelled between lines). Both count in `lost`, which `MaxLost` bounds.

`App` takes a handler as one step and `Engine` takes it apart; `MINE` needs a
connection in both, and whether the pool is Ready is left open. Left out: the
hidden film, the ticker, threads and lanes (in `Engine`), the refresh rate,
notes, drawing.

### How the hash engine corresponds to the code

A word is the set of its one bits, so exclusive or is symmetric difference, and
interleaves of 32- and 64-bit halves are what they are. What is not linear over
bits is a constant operator: the AES round without its key (`Mix`), the carry-less
product of a vector's halves (`CarryLess`), the rounding multiply of a word's two
lanes, fast or exact (`MulWord`; by zero both are zero, which case 6 needs), the
signed remainder (`DivRem`). `Digest` and `Hasher` add the packing of a buffer, the
fills, the reduction and the comparison with the high word. Theorems hold whatever these compute. In the runs `Scatter` gives them
values, so that two vectors computed differently differ but for a collision.
`LaneArithmetic` opens two of them: lanes are integers, polynomials sets of
exponents.

`StepBodies` follows `clhash_bodies.h` case by case with its precomputed
squares, masks and store orders, `RefBodies` the branches and loops of
`ref/ref.cpp`. A selector is the record of the fields the code cuts out of the
accumulator.

In `Hasher` an action is one lane's turn in a loop. `pc` is the loop: `start`
(the prologue of `clhash_wave`), `walk`, `finalize`, `restore`; `scalar` and
`stream` are `clhash_scalar`, which `run_one` uses on lane 0. `mask` is the
bucket mask of the step, `cursor` the place in the bucket, `Par` and `Nxt` the
two parities, `touched` the journal. `answer` is what the caller can read when a
call returns: the mask, and `hash_of` of the lanes in it; it is a variable for
the refinement only. A call needs a template, which is what every caller does
(`Ready`; `keys_` are uninitialised before the first `reset`). `hash_exact` is
one step because it is `const` and works on a scratch copy of the key.
`build_template`, `set_nonce_space` and `reset` are one step too: both callers
make the three calls in a row.

Left out: the build options that put one form for another (no buckets, prefetch,
inline assembly, the table lookup of the vendored code), memory that cannot be
allocated (`Engine` has the worker that leaves), and the fixed-key Haraka512 of
`hash_half`.

### How Share corresponds to the code

Arrays of bytes are functions on `0 .. n - 1` and a `memcpy` is `Copy`; sizes and
offsets are the code's own. `HeaderOf` and `NonceSpaceOf` are the assembly in
`handle_line`, `BuildPreimage` is `Job::build_preimage`, `HashHalf` what is left
in the buffer after the chain over whole blocks, `Mined` the buffer for a nonce,
`SubmitNonce`, `Spliced` and `Submission` the fields of `mining.submit`. The chain of
Haraka512 is named by the bytes it absorbs, so equal buffers mean equal digests;
the fill at 47 to 63 is made of that chain and needs no place of its own. What a lane's
hash comes to is an environment choice from `Hashes`, pairs of the digest by the mining
multiply and the digest by the exact one, which differ where the first saturates
(`MulhrsAgrees`). The code submits by the first alone.

The variables are members of `Conn`, with the pool's own `issued` and `spelled`,
and what the workers hold. A worker may fetch whenever there is a valid job and
hold it as long as it likes; the connection may renew the job, the target or
itself meanwhile. `mined` and `spelled` in a queued share are the job the worker hashed
and the target it was measured by; the code
queues serial, nonce and tag only, and no guard reads them. `inForce` is the pool's too:
the targets it had in force since it issued the job at hand. The swap of the outbox
at the start of a batch is not modelled: shares are taken one by one, and a job
may change in between, which the code does not allow.

The pool's side follows `tools/stratum_test.cpp` (`Rebuilt`: the preimage from its
job and the submission) and `tools/mock_pool.py` (`NonceField`). A pool accepts one
subscription and sends work after it. `RebuiltIsMined` is about
jobs with a descriptor (solution version 7 and up). For others `build_preimage`
leaves the header in, the worker's header does not have the nonce and the tag
that the submission has, and the two differ: the client mines such a job and
no share of it can count. `TailIsNonce` is for extranonces of at most 12 bytes; a
longer one lies over the word of the nonce, and the check of `mock_pool.py`
fails.

Left out: hex, JSON and the length checks of lines (`hex.size() < 64`, fewer than
nine parameters), the difficulty shown, ids and pending (in `Stratum`), ports.

## Runs

The runs of `Stratum` are of `MCStratum`, with `OutboxCap` 2 (the code's 4096), two
extranonces (a connection and its successor must differ; a third adds no
distinction between neighbours), and `BackoffCap` 1 where the delay is not the
question. `MaxSerial` bounds the jobs the pool issues over the whole
behaviour and `MaxShares` the shares in the books; both stand in guards and no
other step depends on them. The number of sessions is not bounded.

| Run | Bounds | Shows |
|---|---|---|
| `stratum_work` | 1 miner, 2 jobs, 1 share, `EagerPool`, `PoolAsks` | types; `SharesAccounted`, `SentForItsJob`, `PublishedIsMinable`, `ReadyHasWork`, `RejectionIsFinal`, under a pool that breaks the order and asks |
| `stratum_miners` | 2 miners, 1 job, 2 shares | `KeepsTheBooks`, `PrefixIsOurs`, `AnswersFindShares`, `NoShareOversleeps` |
| `stratum_silence` | no miner, 1 job, cap 3, 2 addresses, fairness | `DelayBounded`, `DetachedThreadEnds`, `SilenceEnds`, `ComesBack` |

Two jobs are enough to have a find of an old job beside the job at hand, in
one session and across two; two shares are enough for one to be in flight
while the next is queued, and for a batch of which the second part is lost.
Two miners are what it takes to have one in its fetch while the other stands
between its lock and its wake. With no miner the wake pipe is only used by
`stop()`, so the liveness run leaves out the early ends of a nap by a share.
One job there gives sessions with work and sessions without. A cap of 3 is the least
the doubling jumps over: the delays are 1, 2, 4, 3, as they are 1, 2, 4, 8, 16, 32, 30
with the code's 30.
In `stratum_silence` deadlock is not an error: without miners the system stops
once the thread has ended and `stop()` was called. A pool that pushes work
before it accepts the subscription makes a job without an extranonce, so
`PrefixIsOurs` is a matter of pools that keep the order.

The runs of `Engine` have one nonce to a job, and the engine starts twice. They
switch deadlock off: after `q` the program is over.

| Run | Bounds | Shows |
|---|---|---|
| `engine` | 2 workers, 2 connections of 1 job, 1 share, fairness | types, `SharesStayHome`, `ModeIsTrue`, `UiComesBack` |

Two connections with the same serial 1 are what it takes to mistake one job for
the other. One worker can be in `submit` while the other is joined, and a second
start finds what the first has left.

| Run | Bounds | Shows |
|---|---|---|
| `app_keys` | 2 endpoints, 2 addresses, 2 presets, 3 rows, 1 lost save | types, `ConnectedIsShown`, `RestartResumes`, `IndicesAreRows`, `MinesOnTheConnection`, `MineNeedsAChoice` |

Three rows give a row before, at and after the one that is selected; two
endpoints and two addresses tell a connection from the one it should be. The
number of keys and of restarts is not bounded.

| Run | Bounds | States | Shows |
|---|---|---|---|
| `hash_kernels` | 16 mutable vectors of 56; for each case two slots and one slot twice, loops of up to four rounds with every pattern of branches and of eight at the end of the mutable part; lanes of 4 bits, all pairs; polynomials of up to two terms; 32 workers, readings up to 1,600,000 ms apart | 15817 | `BodiesAgree`, `OnlyJournalledSlots`, `AbsorbedHarakaAgrees`, `PreFilterAgrees`, `MulhrsAgrees`, `ReductionIsRemainder`, `TagsApart` |
| `hash_wave` | 3 lanes, 4 steps, 4 mutable vectors, 2 templates, 2 nonces, 2 calls | 11803 | types, `JournalCoversDirt`, `EachLaneOnce`, `Implements` |
| `share_layout` | 2 workers, 2 messages, extranonces of 4, 12 and 32 bytes, 2 jobs, 1 share in the outbox, all sizes as in the code | 252984 | types, `RebuiltIsMined`, `TailIsNonce`, `SubmittedIffMet`, `MeasuredInForce` |

Reduction is linear, so polynomials of one and two terms decide it up to the
index arithmetic, which has a check of its own. Three lanes are what it takes
for a bucket of two with a lane elsewhere; four steps use each parity twice; two
calls put one call's leftovers under another's, with a reset between or without.
In `share_layout` no two bytes that meet in a copy are alike by accident (fields
are numbered through modulo a prime), one message has a descriptor and one has
not, and targets and digests differ in one byte or two, next to a word's boundary
and at both ends; of the four pairs of digests, two are equal and two are not. Bytes stay under 128 in the run, because TLC's integers have 32
bits; the theorem is for all bytes.

### Refinement

`KeepsTheBooks` is `ShareLedger` with the ids of the shares in flight for `awaited`,
`next_id` for `next` and the counters for `books`. `SendShare` and `SendFails` are
its `Submit` (a share that could not be written is booked as well), `DropStale` its
`Refuse`, an answer that finds its share its `Resolve`, the reset of a session with
shares in flight its `Lose`; everything else stutters, a second answer to the same
id included. `SharesAccounted` is two inequalities over the sums, since `stale`
counts refused shares beside submitted ones; the ledger says of every step which of
the two it was, and so implies it.

`Implements` is `HashPromise` with the template read off `half_` and `pristine_`,
and the request off `asked` and `target` while a call is at work. `Reset` is its
`Reset`, the start of a wave, a list or a single nonce its `Ask`, the last lane's
`Restore` its `Hash`, `HashExact` its `HashExact`, and every other step stutters.
`Hash` leaves no choice: every lane asked, and no other, has the answer of the
nonce it was asked for, which is what the reference answers after any other
call. The verified digest has the exact multiply and the mined one the fast.

### Fairness

In `Engine`, `FairSpec` lets the UI thread run on inside a handler and schedules
every worker; keys and the pool owe nothing. In `Stratum`, `FairSpec` assumes weak
fairness of the client thread's own steps and of the second half of `stop()` (threads
are scheduled; `getaddrinfo`, `connect` with its deadline and `send` with its 10 s
limit return), and strong fairness of each watchdog and of the end of a batch. A
watchdog's condition is tested at every turn of the session's loop, and a turn
that finds nothing waits 200 ms at most, so a condition that keeps holding meets its
deadline; only new work sets a deadline back, and new work is bounded by `MaxSerial`. A
batch ends because its lines are a finite string once they are read.

That they are read is not the thread's to give. `pump_lines` calls `recv` until the
socket is empty (`stratum.cpp:437-454`) and looks at nothing else meanwhile, so a pool that
never pauses keeps the thread in `read`, and a stop and the watchdogs wait. No fairness
makes the step from `read` to `lines` happen. `DetachedThreadEnds`
and `SilenceEnds` state it as a premise, `PoolPauses`, which is `[]<>(pc # "read")`; both
fail without it. Nothing else is assumed of the pool, and nothing of `StopDetach` or of
the miners.

### What the code does not do

Four runs state what a comment or the documentation says and find it violated.
Each is listed with its lines in `PROJECT.json`:

* `NoWorkMeansNoWork`: target, job and then the authorize reply in one read,
  and 30 s later a session with a minable job ends as "sent no work";
* `NoWorkWhenDown`: after a failed submit the miners are still told to mine;
* `RebuiltForNewJobs`: a worker that fetches a job before it is published takes
  the publication for another job and searches the same nonces again;
* `SubmittedIsVerified`: a digest that the mining multiply's saturation brought under
  the target is submitted, though the documentation says that candidates are verified on the
  exact path.

Seen on the way, without a run: `session` samples the state at the top of its loop
only (`stratum.cpp:652-655`), so a session that became Ready and left it again in one
batch, by the authorize reply or `client.reconnect`, keeps the delay of the failures before
it, where `stratum.cpp:781` and `docs/ENGINEERING.md:85` say that the delay resets (there
is no property about the reset: what the code does give is the one assignment); the
delay goes 1, 2, 4, 8, 16, 32, 30 and not to 30 at most (`stratum.cpp:780`,
`docs/ENGINEERING.md:85`), so `DelayBounded` says less than they do; a pool's own request
with id 2 is read as the rejection of `mining.authorize` and ends the client for good
(`stratum.cpp:353`, "a response to one of ours"); a job without a descriptor is hashed
without the nonce in its header and submitted with it (see Share above); a miner's wake
gives up an address being dialled (`stratum.cpp:535`, "asked to stop"); a pool that never
pauses is read without limit (see Fairness); work pushed before the authorize reply
shows Ready although `stratum.h:83` says that Ready means authorized;
`client.reconnect` before work shows Failed with no error recorded
(`stratum.cpp:188`).

## Proofs

Theorems about behaviours are of `Spec`. Those of `Stratum` hold for every set of miners, every cap and bound, with
only the assumptions the constants carry (caps and `MaxAddrs` positive,
`NoExtranonce` not an extranonce). They hold for the eager and the asking pool
as well, but for the two that say otherwise: an asking pool may use ids of its own
that collide with those of shares, and an eager one sends a job under an extranonce
that is about to change.

| Theorem | Property | Argument |
|---|---|---|
| `TypeCorrect` | `TypeOK` | `TypeInv` adds that finitely many shares are in flight, without which the ledger could not be a number |
| `MinersMineTheJob` | `PublishedIsMinable` | `WorkSound` adds that a valid job has a target and a serial other than 0: then `mining.set_target` cannot publish the empty job. `WorkFrame` reduces the step to six actions |
| `DelayStaysBounded` | `DelayBounded` | inductive with the types: a delay under the cap is doubled, and only then, so the cap is passed by one doubling at most |
| `BooksBalance` | `SharesAccounted` | `BooksInv` adds that ids in flight are under `next_id` and differ: a submission adds one share to the set and an answer removes one |
| `ImplementsLedger` | `KeepsTheBooks` | each of the actions that touch the books is one step of the ledger: ids differ (`BooksInv`), so one answer takes one share, and the shares lost are as many as their ids |
| `SharesMatchTheirJob` | `SentForItsJob` | `SendInv` follows finds from the miner through the outbox to the batch: each is of a job already issued, and of the job at hand when serials are equal, because serials are never reused in a `Conn` and a reset job has serial 0 |
| `RejectedStaysDown` | `RejectionIsFinal` | once `fatal` is set the thread is past the dial and no step leads back |
| `ReadyIsTrue` | `ReadyHasWork` | `WorkSound` again: both ways to Ready, a job under a target and a target over a job, look at what the other has left |
| `NobodyOversleeps` | `NoShareOversleeps` | a share is queued and its wake-up written by one worker, and drained only on the way to the outbox; `Places` shows that no session starts with an old queue |
| `AnswersMatch` | `~PoolAsks => AnswersFindShares` | `OwedInv`: on an open connection the ids of the shares that wait are those the pool still owes; a bijection makes their numbers equal |
| `PrefixesAreOurs` | `~EagerPool => PrefixIsOurs` | `PrefixInv`: until the pool has answered the subscription there is no job to find a share on |
| `SharesGoHome` | `SharesStayHome` | see below, as the two that follow |
| `ModeTellsTheThreads` | `ModeIsTrue` | |
| `EngineTyped` | `TypeOK` | |
| `AppTyped` | `TypeOK` | see below, as the five that follow |
| `ShownIsConnected` | `ConnectedIsShown` | a handler that leaves the connection alone changes no setting that `Tested` reads |
| `RestartFindsTheSame` | `RestartResumes` | good settings that are saved are loaded as they are |
| `IndicesStayRows` | `IndicesAreRows` | the cursor is a row while the list is open, and `clamp_pools` follows every change of its length |
| `MinersStayPut` | `MinesOnTheConnection` | a handler that replaces the connection stops the miners first |
| `MineWasChosen` | `MineNeedsAChoice` | the list is open only with the focus on POOLS, so no row goes while it is on MINE |

The three of `Engine` are for every number of threads and all bounds, and rest on
one inductive invariant `IInv`. `KeysInv` says what the mode tells of the
threads at the keyboard, and `PlaceInv` which threads can exist at every other
place of the UI thread (none after a join; only benchmark threads where `pool_`
is null; no miner at `detach` and `connect`). `JoinedInv` says that an index that
is not in `workers_` has no thread, and `HoldInv` that a worker past its fetch
holds a job of the connection that is now open: the connection changes only at
`detach` and `connect`, where no miner runs. Serials never
appear in the argument, which is why their starting again does no harm.

Those of `App` are for every list of presets, all endpoints and addresses, and
any number of rows, restarts and lost saves, and assume what the constants
carry: the presets are not empty and typed, and the empty endpoint and address
are not among those that can be typed. The settings in force are good (`Good`): a list that
is not empty, a selection in it, and a pool chosen only where there is an
address. The last part is what makes an address form that is left harmless, and
no property says it. The file is good but for its list (`Sane`), however a save was cut
short, and `load_settings` with `clamp_pools` makes good settings of it
(`LoadedIsGood`). One lemma for each way to change the settings says that it
keeps them good and what becomes of the tested pool (`ChoiceIsGood`,
`AddressIsGood`, `RemovalIsGood`, `DraftIsGood`); the last two carry the
arithmetic of rows. `SavingKeepsInv` is what the four handlers that save have in common.

### The hash engine

For every size of key, number of lanes, nonces, steps, templates and calls, and
whatever the nonlinear instructions compute; the assumptions are that the key has a
mutable vector, the lanes and the nonces are 0 to n - 1, and there is a step.

| Theorem | Property | Argument |
|---|---|---|
| `SelectorRange`, `DivisorIsSafe`, `ReadsStayInKey` | | bits of the selector: cases 3 and 6 force bits that make the divisor neither 0 nor -1; the offsets of case 5 stay under the 40 constants behind the mutable part |
| `BranchlessCase3` | | stores to different slots commute; when both slots are one, the second store wins on both sides |
| `AllBodiesAgree`, `EngineIsReference` | `BodiesAgree` | cases 0 to 4 and 7: AES rounds regrouped, sums of vectors commute; cases 5 and 6: below |
| `BodyWritesTwoSlots` | | every body is two stores, loop or not |
| `CallTyped`, `JournalIsEnough` | `OnlyJournalledSlots` | from `BodyWritesTwoSlots` |
| `AbsorbedHarakaIsHaraka` | `AbsorbedHarakaAgrees` | interleaving distributes over sums, so keys deferred past it can be absorbed; group by group |
| `PreFilterIsSound` | `PreFilterAgrees` | the digest's last word depends on one lane of the last mix |
| `MulhrsIsSound` | `MulhrsAgrees` | quotients of products in range, for lanes of every even width |
| `TimesZeroIsZero` | | the same quotients; `MulLanes` assumes it of the two multiplies |
| `ReductionsAreRemainders`, `ReductionIsSound` | `ReductionIsRemainder` | below |
| `WalkInvariant`, `HasherTyped`, `LanesStepOnce`, `JournalSuffices` | `TypeOK`, `EachLaneOnce`, `JournalCoversDirt` | below |
| `HasherKeepsPromise` | `Implements` | below |

**Loops.** A loop of the code is a recursive function in a model, whose value is
some function that obeys its equation, if there is one. That there is one
is an induction, and the library's own induction theorem takes an operator, which
the prover cannot instantiate. `Loops` states induction about a set instead: a set
that has 0 and with every number the next has them all, since its complement
has no least member (`Induction`, from the well-foundedness of `<`). `LoopComputes`
and `LoopIsUnique` follow for any start and any round, and each loop of the models is
an instance with its own `Start` and `Round`.

**Cases 5 and 6.** In case 5 the reference counts down one loop and advances
the offset of the round keys with each AES round; the engine reverses the bits of
the field, walks two masks one after the other and adds up two sums. The induction
says that after i rounds the reference's accumulator is the initial one with the
first i terms of both sums, and that its offset is the number of AES rounds
among the first i, which is the ordinal the engine counts. In case 6 both carry
an accumulator, so the states are equal round by round; that the term of the
branch not taken is zero is where the product with zero comes in.

**The reduction.** A polynomial is looked at a coefficient at a time (`Odd` is
addition modulo two). What overflows 64 bits, `Over`, times the tail overflows once
more, by at most four terms (`OverTwice`), so the first index byte is below 16 and
the others are zero (`IndexBytes`). An entry of the table is the product of its
index with the tail (`EntryIsProduct`, sixteen cases). So both reductions leave
`Left`. The long division takes the terms of `Quotients` away from the top:
`NextTerm` says that round n finds the next one, which for the four that
overflow twice is so because the products that make them were subtracted long
before; `NextRound` that what remains is in step, `AllTaken` that in the end it is
`Left`. The run tries polynomials of one and two terms, the theorem covers all.

The invariant of `Hasher` is `TypeOK`, `Control` (which loop may have which
lanes, step and mask), `Memory` (keys and journals are functions on slots and
steps), `Queues` and `Dirt`. `Queues` is stronger than `EachLaneOnce`: it also
bounds the lengths of the queues by counting, since a bucket that a lane had
entered twice would read past the array; and it says that the queues of the next
parity are empty at the start of a step, which is what `Emptied` is for. `Dirt`
says that a slot unlike the pristine one is named by a step the lane has taken,
so `Restored` leaves none.

For the promise that invariant is not enough, since it says nothing of values. `Answers`
adds them, in terms of the reference: `Templated`, every lane's head and space are
the template's; `Asking`, the lanes asked
have the buffers of their nonces until they are finalized; `Walked`, a lane's
context and key are those of the reference's walk after the steps the lane has
run, which a lane of a bucket may be one ahead of its neighbours in; `Ended`, the
key and the intermediate to finalize with are those of the whole walk; `Hits`, a
lane already finalized passed exactly if its digest meets the target, and then left
that digest. The number of steps a lane has run is that of `Dirt`, and a lane
starts on a pristine key because `Dirt` leaves no dirt between calls. The keys
agree by the absorbed Haraka (`KeysAgree`), a lane's step by `AllBodiesAgree`, the
pre-filter's verdict by `WordOfLastLane`, and `hash_exact` by an induction on its
own walk (`ExactWalkAgrees`).

### Shares

For all messages, extranonces, tags, nonces, targets and digests, and any number of
workers, jobs and queued shares; the assumptions are the widths of the fields.

| Theorem | Property | Argument |
|---|---|---|
| `Typed` | `TypeOK` | the prefix is at most 31, so the nonce field sent is never empty |
| `RebuiltHolds` | `RebuiltIsMined` | `WholeIs`: the last block of 15 bytes is the end of the solution, so the splice does not reach the chain; `SplicedIs` and `MinedIs` compute both tails byte by byte |
| `TailHolds` | `TailIsNonce` | the bytes behind the prefix are the header's, which still has the extranonce the pool knows |
| `MetHolds` | `SubmittedIffMet` | for the digest by the mining multiply and the target at the worker's fetch; `CompareIs`: comparing words from the top is comparing bytes from the top, in numbers below 256; the pre-filter refuses nothing that would pass |
| `InForceHolds` | `MeasuredInForce` | what a worker or a share carries of a job with the serial at hand was in force since that job was issued (`Known`): `mining.set_target` adds to those targets, and a worker reads job and target under one lock |

The invariant adds to the types: `JobInv`, the job at hand is made of the message
the pool has under its id and of this connection's extranonce; `OutboxInv` and
`HeldInv`, a job a worker or a share carries is the job at hand if the serials are
equal (serials are not reused within a `Conn`); `TargetInv`, the target is that
which the pool spelled last, and a valid job has it in force.

### Only model-checked

Every invariant, action property and refinement that a passing run checks is
proved, but for `TagsApart`: it is about the digits of one number in a window, and its
argument is the enumeration that TLC does. What else stays with TLC is liveness:
`UiComesBack` in `engine`, and `DetachedThreadEnds`, `SilenceEnds` and `ComesBack` in
`stratum_silence`. They need fairness and ENABLED, which are out of the prover's reach.

The proofs of the hash engine hold for any nonlinear instructions, so they show that
the engine and the reference combine the same instructions to the same result;
what AES and the signed remainder compute is in no theorem. The carry-less product is
opened only where the reduction multiplies by its tail.

## Not modelled

* **JSON parser** (`net/json.h`): recursion over bytes, whose result the models take
  as given. Its hazard is depth on hostile input, not an order of events.
* **Terminal toolkit**, **ticker and news**: drawing and prose; key decoding is a
  table over single reads.
* **Test and benchmark tools**: evidence of what is expected. `stratum_test.cpp` and
  `mock_pool.py` are where the pool's side of `Share` comes from.
* **Vendored VerusHash**: the reference of the project's own is modelled instead.
* In **the UI application**: the hidden film, the refresh rate, the rates shown and
  the notes. In **settings**: the labels of rows and their migration to shipped
  endpoints. `stats()` reads counters one by one and promises no more.
* In **the hash engine**: what the instructions compute (AES, the carry-less
  product, the remainder), the tables of the reference, and alternative builds.

## Plan

Done: the connection, the miners, the UI, the engine with its refinement, the
share, and proofs of all their safety. What is left, in this order:

1. `Settings`: the rows of the file with their labels, the migration of rows
   to shipped endpoints, what survives of a user's edit.
2. `Film`: the key sequence of the dashboard against all the ways to enter it,
   and the loader thread.
3. `Share` and `Hasher` together: that the buffer a worker prepares for a nonce
   is the one the submission lets the pool rebuild, as a theorem over both.
