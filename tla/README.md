# Verification of Pariter's virtual memory

TLA+ modules, TLC runs and TLAPS proofs for `src/virtual-memory/vstorage`, the
Python package that holds files in RAM as encrypted, permanently moving pieces.
Paths below are relative to that package unless they start with `src/`.

## 1. The system

| Part | State it keeps | Operations | Hard because of |
|---|---|---|---|
| `chunked_secure_box.py` `ChunkedSecureBox` | chunks in pools, two key guards, a flag per chunk, pause flag, lock | hop, rotation, `snapshot`, `stream_to`, `stream_to_wrapped`, `regions`, `collapse` | one worker, many readers, a walk without the lock, exceptions inside a rotation |
| `chunked_secure_box.py` `_GlobalFallScheduler` | heap of boxes, an event, a pool of threads | `register`, `_run` | peek and pop in two critical sections, lost wake-ups, boxes that block |
| `split_key_guard.py` `SplitKeyGuard`, `_GlobalCellScheduler` | 88 page pairs per key, heap of cells | bounce, `reconstruct`, `update`, `collapse` | torn reads, closing pages in use |
| `secure_system.py` `SecureVirtualStorage` | files by id, three boxes each | `save`, `retrieve*`, `forget`, `collapse_all` | several steps before a file is published, rotations all the while |
| `secure_system.py` tokens | pending keys with deadlines | `retrieve_to_destination`, `redeem_key`, the sweep | order of fsync and release, races of redeemers, clock |
| `process_watchdog.py` `ProcessWatchdog` | shared table of memory regions | `add_regions`, `reserve_slot`, `update_slot`, wipe and kill | table limit, stale addresses |
| `distributed_key.py` `DistributedTrustGroup` | holder processes, pipes, set of compromised holders | `fetch`, `_monitor`, `stop` | processes that die, inherited descriptors, count and kill without a lock |
| `network_trust.py`, `holder_server.py` | the same over TLS sockets | plus `_ping` | timeouts, late answers |
| `shamir.py` | none | `split_secret`, `combine_shares` | field arithmetic |
| `falling_box.py`, `system.py` | two buffers and a thread per box | `snapshot`, `collapse`, `retrieve`, `forget` | join with a timeout, look-up then use |
| `packed_box.py`, `packed_system.py` | shared buffer with an offset index | `add`, `get`, `remove` | shifting offsets |
| `secrets_api.py` | entries with owners and grants, replicas | `store`, `retrieve`, `share`, `rotate`, `revoke` | rotation against retrieval, replicas that die |
| `sharing*.py`, `splice_stealth.py` | two processes and a pipe | hand-off | end of file, crash of one side |
| `splitter.py` | none | `split_file`, `split_bytes` | two passes over a file |

How they interact: `save()` splits a file and makes three `ChunkedSecureBox`es;
each registers with the fall scheduler and holds two `SplitKeyGuard`s, which
register with the cell scheduler. A rotation derives the next key, with
`fetch()` of the trust group if there is one, and reports the new guard's pages
to the watchdog through a callback. The watchdog and the holders are separate
processes. `PROJECT.json` lists every part with its status, and the hazards of
the code at the line where they bite.

## 2. Modules

| Module | Models | Level of detail |
|---|---|---|
| `HeldObject` | what a held file promises: every retrieve delivers the whole file until `forget()` | abstract specification |
| `ChunkedSecureBox` | one box with its worker, readers, `save()`'s region walk, `forget()`, watchdog | a rotation is five steps, a read one step per chunk |
| `ChunkedSecureBoxProofs` | theorems about it and about `FallScheduler` | |
| `FallScheduler` | the worker pool and its heap over several boxes | a hop is one step |
| `SplitKeyGuard` | one guard with the cell scheduler | a bounce is two steps, a read one per cell |
| `SplitKeyGuardProofs` | theorems about it | |
| `SecureVirtualStorage` | several saves, rotations, the region table, `forget()` and `collapse_all()` | a box is its current generation |
| `SecureVirtualStorageProofs` | theorems about it and about `KeyRelease` | |
| `KeyRelease` | `retrieve_to_destination`, `redeem_key`, `decrypt_wrapped_file` | a clock that ticks, a file chunk by chunk |
| `DistributedTrustGroup` | holders, watchdogs, pipes, monitor, fetches, stop | messages and process deaths one by one |
| `DistributedTrustGroupProofs` | theorems about it and about `Streams` | |
| `Shamir` | the field and the secret sharing | functions over bytes |
| `NetworkTrustGroup` | the group over sockets, from its constructor to `stop()` | requests, answers and timeouts one by one; the sharing is a parameter |
| `NetworkTrustGroupProofs` | theorems about it | |
| `FallingBoxes` | the seven classes of boxes with a thread of their own | a hop piece by piece, a snapshot in four steps, a collapse in four |
| `FallingBoxesProofs` | theorems about it | |
| `Splitter` | what the three pieces of a file are | functions |
| `SecretsStore` | the secrets API, its replicas, and `VirtualStorage` below it | one step per statement that touches shared state; extends `Splitter` |
| `SecretsStoreProofs` | theorems about it | |
| `PackedStorage` | packed boxes and their storage | what happens under a box's lock is one step, `collapse()`, which has none, one per assignment; extends `Splitter` |
| `PackedStorageProofs` | theorems about it | |
| `Streams` | the hand-offs through pipes, `splice()`, and `from_file`/`stream_to` of a box | one step per read, write, splice or chunk |
| `MC*` | symmetry sets and values for TLC; the other modules are run as they are | |

How they compose: `ChunkedSecureBox` refines `HeldObject` and takes from
`FallScheduler` that a box has one entry, from `SplitKeyGuard` that a key is read
whole. `SecureVirtualStorage` sees boxes as their rotations. `SecretsStore` and
`PackedStorage` are built on `Splitter`; a box of `SecretsStore` is what
`FallingBoxes` shows of one. `NetworkTrustGroup` takes a sharing as a
constant; `MCNetworkTrustGroup` gives it that of `Shamir`.

### ChunkedSecureBox

A key is its generation and a chunk is the generation of its key, because
AES-GCM opens a chunk only with the key that sealed it. Generations are numbered
on a ring of `MaxGen + 1`, so the state space is finite without stopping the
motion; `MaxGen >= 2` keeps the three generations that exist at once apart.
`hop` is the position of the box's only scheduler entry (`FallScheduler` shows
there is only one). `HopChunk` is `_do_one_hop_locked` up to its test, then
`RotateShift`, `RotateDerive` or `RotateFetchRaises`, `RotateNotify`, and
`RotateFinish` or `RotateCloseRaises`. The steps are separate because `regions()`
runs between them without the lock. `RegionsExport`/`RegionsRelease` are the
lifetime of the ctypes export that makes `mmap.close()` raise `BufferError`.
Readers set the pause flag before they lock; `snapshot()` clears it outside a
`finally`, the streams inside one, hence `kind` and `Raise`.

### FallScheduler, SplitKeyGuard

The heap of `FallScheduler` is a queue of due entries and a set of entries that
are not due: a push stamps the current time, so due entries leave first in,
first out. `WakeByTimeout` and `WakeByEvent` both clear the event, as the code
does. `SplitKeyGuard` names a byte by the key it belongs to, so a torn key is a
sequence with two names in it. Any entry of the cell heap may be the next due,
because the due times are random. The workers are started by the first
`register()`, once.

### SecureVirtualStorage

All pages of a guard count as one region. A box's state here is the generation of
its current guard and the progress of its rotation, which `ChunkedSecureBox`
refines. `ListRegions` reads the current guard and the next guard in two steps;
rotations may come between, and once one has closed a guard the walk may raise
(`ListRegionsRaises`; two steps do not show which page it has got to). A rotation
that raises, which takes its box off the scheduler, is in `ChunkedSecureBox` only.
`ReserveSlot` and `UpdateSlot` are the two critical sections of the registrar.

### KeyRelease

A call of `retrieve_to_destination` names its key and its token. `Mint` reads the
clock before the lock, `Issue` sweeps and inserts under it, as the code does.
`redeem_key` is one critical section with three outcomes, and `answers` remembers
what each token's redeemers were refused with. `WrapChunk` may be cut off after any
chunk (`Fails`); `OpenChunk` and `EndOfFile` are the loop of `decrypt_wrapped_file`,
which takes any boundary between chunks for the end.

### DistributedTrustGroup

Everything is forked, and descriptors are inherited. The watchdog of a holder is
started while the holder's pipe end is still open in the parent, so it has a
copy: `Connected` says that the main process sees the end of a pipe only when
both are gone. A holder has a copy of the main process's end of its own pipe and
never sees it close. `_on_holder_compromised` is two steps, adding to the set
and acting on its size, because monitor and fetch run it without a lock.
`Crash` is a death that the watchdog did not cause (external to the code).

### NetworkTrustGroup, Shamir

A connection is a queue in each direction, and what arrives after a timeout
stays in it. `ReceiveRaises` is every way in which `_recv_line` raises: end of
file, a closed socket, or the timeout of a holder in `Slow`. A line arrives as a
whole: two lines in one `recv`, or half of one before a timeout, end in the same
accusation. The lock covers one
question and its answer in `_ping`, and the whole of `fetch()`; accusing and
counting are two steps, as in the local group, but the heartbeat takes them
without the lock and `fetch()` with it. `HolderStarts`, `Connect` and
`ConnectRaises` are the constructor, holder by holder. `Shamir` computes the
tables of GF(256) as the code does, and the shares on the wire are real ones in the
run. `SharingAssumption` is all the group needs of them, and TLC evaluates it on
that run: any K shares of K different holders combine to the secret, and no share
looks like a pong.

### FallingBoxes

`Init` picks one of seven classes. They share the loop, the lock, the pause flag
and `collapse()`; `FallingHop`, `SecureHop`, `NHop`, `ZeroingHop`,
`EncryptedHop`, `CombinedHop` and `PortsHop` are their hops. A bytearray that is
replaced in mid-hop grows again under slice assignment (`Assign`); a mapping that
is closed raises. `Join` is taken with the thread still running when the
second is over, which `timedOut` remembers. A `FallingFile` may have `extra` pieces
beyond its ports, and then two pieces move to one port at a hop (`PortsBefore`).
Keys are generations on a ring.

### SecretsStore, PackedStorage, Splitter

Neither the secrets API nor `VirtualStorage` has a lock, so every look-up,
dictionary assignment and box is a step; the making of a box does not raise. Every
call is made once, and the file and the entry it makes are named after it. `quiet`
records whether a retrieve ran without a writer beside it. In `PackedStorage` a
buffer is a sequence of units, each with the file it belongs to; a call visits the
three boxes in order (`todo`) and in each sets the pause flag, works under the lock,
and clears the flag outside a `finally` (`IndexRaises` leaves it set). `collapse()`
is `StopBox`, whose join may have timed out, then `DropA`, `DropB` and `DropIndex`
without the lock; `LateHop` is what the thread of a stopped box may still do.
`front` says which of `_box_a` and `_box_b` is the active one from the first
assignment on; before that it does not matter. `Place` is how Python cuts a slice at
a place that is not there. The steps under the lock stay whole: what one does when
an assignment of `collapse()` falls into it is not modelled, and nothing is claimed
of a box that is being dropped. `Splitter` decides which piece is the file, which
may be empty and which rebuilds it.

### Streams

`route` picks one of five ways. In a hand-off the writer is process A, the
reader B and the caller the parent; `ends` says who holds which end of a pipe
open, because a fork copies both. `Moves` lets every call move fewer bytes than it
was asked to. In the `splice()` routes writer and reader are threads. In `ingest`
the caller alone reads a file whose length has changed since it was measured,
cuts it at blocks and chunks, packs the encrypted chunks into pools and writes the
box out again, chunk by chunk. It streams under the box's lock, so nobody else
changes the box between two chunks.

## 3. Runs

| Run | Question | Bounds |
|---|---|---|
| `box_unwatched` | does a box refine `HeldObject`: flags and generations in step, reads that succeed and end, nothing after `forget()`, and does it keep falling, also after a rotation that raised? | 2 chunks, 2 readers, 1 failed fetch |
| `box_watched` | is a falling box readable, with only its live keys mapped, under the region walk, an outside wipe and a failed fetch? | 3 chunks, 2 readers, 1 failed fetch |
| `fall` | one entry per box and none lost; does every box fall while another blocks a worker; do removed boxes leave? | 2 workers, 2 boxes |
| `guard` | whole keys; no bounce while pages close; does a collapsed guard leave the heap? | 2 cells, 2 workers, 2 readers |
| `storage` | own slots, registered next keys, a table that fills up, whole files, no box left by `forget()` | 1 file of 2 pieces, 7 entries, 1 exception |
| `key_tiers` | no key before fsync or twice; is a token worth its key until its deadline, whatever others sweep? | 3 calls, 5 instants |
| `trust` | only the dead accused before a `stop()`, kill at the threshold, K shares, no stray answers; does a fetch end, is tampering answered? | 3 holders, K = 2, 2 fetches, one attack, one crash |
| `falling` | whole snapshots, complete hops, nothing after a collapse but what a late hop copies back; do readers, box and thread get on? | 7 classes, 2 pieces, 3 boxes or ports with up to 5 pieces, 3 keys, 2 readers |
| `secrets` | entries with their files, undisturbed reads, replicas that have what was stored | 4 calls, 2 at a time, 2 tokens, 2 replicas |
| `packed` | index and bytes in step, nothing left of a forgotten file, held files whole, pauses accounted for, while boxes are dropped field by field | 4 calls, 2 at a time, 2 of them saves, text and PDF, 1 late hop, no call begins after the first assignment of a `collapse()` |
| `network` | the right secret, no late answer misread, only failed holders accused before a `stop()`, kill at the threshold; does a fetch end, is a death noticed? | 3 holders, K = 2, 1 fetch, two holders that die, one of them late too |
| `streams` | bytes in order and whole, chunks apart, ends closed; do calls and threads end, but for a hand-off that a death hangs? | sizes 0 to 7 with pipes of 3 bytes and calls of 2; files 2 bytes longer or shorter; pools of 4 |

The bounds are the smallest in which the cases meet: two chunks make a rotation
differ from a hop, and three add a chunk that is neither first nor last; two readers
share one pause flag; three generations exist at once; two pieces can confuse their
slots; in a table of seven entries the second slot of a file of two pieces no longer
fits; two holders of three reach the kill threshold and leave fewer than K, and two
that die of themselves reach it without a `stop()`; the pieces of `streams` are
larger than both pipes together, so that everybody has to wait for everybody; a
chunk of `streams` can be larger than a pool, fill it, or share it; an empty piece
of `packed` shares its offset with the next. A `collapse_all()` of `packed` is met
in every state by the call that runs beside it; calls that begin later find boxes of
which nothing is claimed (`MaxDropped`). Two saves at a time are beyond `storage`
(more than twelve million states). Runs say `CHECK_DEADLOCK FALSE` where the system
really comes to rest: a forgotten box, a storage whose files are all forgotten, a
stopped or killed group, calls that have all returned, the end of the modelled time.

A property of a run is often the conjunction of named parts, one per promise of the
code; the definition of each part has its own comment:

| Run | Property | Its parts |
|---|---|---|
| `box_unwatched` | `GoesOn` | `KeepsFalling`, `PauseLetsIn`, `ReadCompletes` |
| `fall` | `BoxesFallOrLeave` | `EveryBoxFalls`, `RemovedBoxesLeave` |
| `storage` | `TableInOrder` | `NextKeyRegistered`, `SlotsDisjoint`, `TableBounded` |
| `storage` | `BoxesOfFiles` | `HeldIsWhole`, `ForgetLeavesNoBox` |
| `trust` | `KilledForCause` | `OnlyFailedAreAccused`, `KilledAtThreshold` |
| `trust` | `CleanFetch` | `FetchIsWhole`, `NoStrayMessages` |
| `falling` | `CollapseIsFinal` | `BuffersAreGone`, `KeyIsGone` |
| `falling` | `NobodyWaits` | `PauseHandsOver`, `KeepsFalling`, `ThreadEnds` |
| `packed` | `BoxInOrder` | `SlicesInPlace`, `PausedByCaller` |
| `network` | `RightAnswers` | `InStep`, `RightSecret` |
| `network` | `KilledForCause` | `OnlyFailedAreAccused`, `KilledAtThreshold` |
| `streams` | `Delivered` | `BytePerfect`, `EndsClosed` |
| `streams` | `CallsEnd` | `CallReturns`, `ThreadsEnd` |

One invariant of each module has its `TypeOK` as a conjunct; those of
`ChunkedSecureBox` and `KeyRelease` are proved instead.

### Observations without a run

Met while modelling; the actions that lead there are in the modules, and the
properties say what holds in spite of them. Of the first four, TLC has found the
shortest behaviours when the properties were stated without their exceptions.

* `regions()` walks the key pages of a box that already falls without its lock
  (`chunked_secure_box.py:472-484`). `mmap.close()` of a page with a live ctypes
  export raises `BufferError` at line 461, after current and next have moved on
  and before the flags are reset: no later read of the box succeeds, although the
  comment at 46-47 says it is 'always knowing which generation each piece is
  currently in'. `AlwaysReadable` is therefore checked without a watchdog, and
  `ReadableWhileFalling`, which is about boxes that still fall, with one. The walk itself
  raises too, and with it the `save()`, when it meets a page that a rotation has closed.
* From the second rotation on the current key is not in the watchdog's table: the
  slot holds the next guard only (`secure_system.py:212`; the comment at 198-201
  says 'same live addresses always covered'). `NextKeyRegistered` is what holds.
* A holder that dies of anything but its watchdog leaves its pipe open there:
  `fetch()` waits for ever with the group's lock (`distributed_key.py:255`, against
  48-51 and 237-241). `FetchEnds` of the local group excludes that holder.
* `_stopping` is checked before a holder is found dead and not after: `stop()` can
  make the monitor, or a `fetch()` under way, accuse the group's own holder and,
  with the default threshold of k <= 2, kill the main process
  (`distributed_key.py:218, 260`, against 49-51). The network group has the
  same race with a closed connection (`network_trust.py:203, 250`). In both groups
  `OnlyFailedAreAccused` is therefore about a group that is not being stopped.
* One failed `fetch()` at a rotation takes a box off the scheduler for good
  (`chunked_secure_box.py:293-303`). `current` and `next` are then one guard, and
  `forget()` never closes the pages of the guard before it. `KeepsFalling` excludes
  such a box, and `ForgetLeavesNothing` allows that guard's pages and no others.
* A `save()` that raises after its first box was made leaves that box falling,
  out of the reach of `forget()` and `collapse_all()` (`secure_system.py:225`).
* A held file takes three guards' worth of watchdog entries per piece, not the one
  that `process_watchdog.py:100-102` reckons with, and none is ever freed.
* An expired token gives `KeyError` instead of `TimeoutError` once another call's
  token was issued (`secure_system.py:373` against the text at 382-384).
* After the fail-closed kill, holders that were not attacked live on: each has
  inherited the main process's end of its own pipe and never reads an end of file
  (`distributed_key.py:105`). Network holders see the end of the connection and
  then wait in `accept()` for ever; a constructor that raises leaves the holders it
  has started (`network_trust.py:162-168`).
* A `collapse()` whose `join` timed out is followed by the rest of a hop: a
  bytearray box has data in its new buffers again, and it stays there, against
  `falling_box.py:70-75`; an encrypted one ratchets the wiped key. `BuffersAreGone` is
  about the other classes then. Two snapshots share one pause flag, so the
  first to end lets the box fall under the second.
* `VirtualStorage.save(path)` cannot work: `split_file` puts a `FromFile` marker
  where `_compress` needs bytes, and `lzma` raises `TypeError` (`system.py:56-83`).
  `PackedVirtualStorage.save(path)` raises the same way after the first box may
  have got its piece, which nothing can remove (`packed_system.py:28-40`).
* `get()` or `remove()` of a file that is gone leaves its packed box paused until
  the next call that succeeds (`packed_box.py:85-90`). `PausedByCaller` says that it
  takes a lost race, which calls made one after the other never have.
* `PackedFallingBox.collapse()` has no lock (`packed_box.py:117-121`). A `get()`
  that meets it may return nothing, a part, or the bytes of another file, for an
  index entry is looked up in a buffer that is gone and may have been filled again,
  so that `retrieve()` raises `LZMAError` or, if the places agree, gives another
  file; a `save()` or `forget()` leaves buffers of different lengths, a piece in a
  collapsed box, or ends in a `KeyError` of `_meta`. The properties of `packed` are
  about boxes that no `collapse()` has begun to drop, and `retrieve()` about a
  storage without one.
* A `retrieve()` that meets `rotate()` or `revoke()` raises `KeyError` or returns
  nothing, although `secrets_api.py:74-75` says 'without downtime': the new value
  exists, but the reader has looked up the old one.
* `store()` of an existing key takes its ownership without a check and leaves the
  old file falling, out of reach (`secrets_api.py:44-51`); a revoke that meets it
  can leave the key without its set of grants. Concurrent replicated stores can
  leave different values on different replicas.
* A hand-off whose sender dies with bytes to write never returns: the receiver
  holds the writing end itself, so the end of file that `sharing.py:66` reads for does
  not come, and `CallReturns` exempts that death. If the receiver dies, so does the
  hand-off's progress: the parent waits for a result.
* A `splice()` that raises leaves `dst_r` open and the sampling thread running
  (`splice_stealth.py:94, 161`); the measurement reports the size it measured even
  if the file was shorter.
* A file that grew since `getsize()` is held whole and given back up to the
  measured length (`chunked_secure_box.py:350, 517`); its hash is of an earlier pass.
* `FallingFile` loses a piece at its first hop when the length is no multiple of
  `num_ports` and is larger: there are more pieces than ports, and two move to one
  (`src/virtual-memory/backup-original-source/vstorage/falling_storage.py:24-43`, against
  'the file can still be read while falling' at 57). `SnapshotIsWhole` states that
  exception: such a file gives all its data before its first hop and its last pieces,
  one per port and in order, after it.
* `NestedBoxesV1` is said to regenerate its inner end (`self_healing.py:23`); the
  code only removes layers.

### Fairness

Weak fairness, of threads and processes that have been started and of calls
that are under way; nobody has to read, forget, stop, attach or crash. Python's
locks promise no order, so strong fairness of a lock is assumed in two places only.
In `NetworkTrustGroup` the heartbeat lets go of the lock after each answer and
sleeps 100 ms after each round (`network_trust.py:205`), so a waiting `fetch()` gets
it, and fetches are finite in number; that a death is noticed rests on the same
assumption for the heartbeat. A holder in `Slow` need not answer at all. In
`ChunkedSecureBox` two readers share one pause flag: the first to end clears it, and
the worker competes for the lock again with the second. Weak fairness gives a reader
the lock only as long as the flag is set, which is what `PauseLetsIn` says.
`ReadCompletes` takes strong fairness of that reader's lock as its hypothesis: the
worker lets go of the lock after each hop and the box's next hop is an interval away
(`chunked_secure_box.py:304-308`).
In `DistributedTrustGroup` `FetchEnds` is about the caller that has the lock.
In `FallingBoxes` it is the pause flag that keeps the thread from the lock, and
`PauseHandsOver` shows that this works. In `Streams` nobody has to die and
`splice()` need not fail. In `FallScheduler` time passes (`Ripen`), and a reader of
a box in `Stuck` may keep its lock for ever.

## 4. Proofs

`ChunkedSecureBoxProofs`, for any number of chunks, readers, failures and
generations (`MaxGen >= 2`), from the named assumption on the constants:

* `TypeCorrect`: `Spec => []TypeOK`.
* `Invariance`: the inductive invariant `IInv`. `ReadableWhileFalling` is not
  inductive: nothing in it says what holds in the middle of a rotation. `IInv`
  adds one part per concern: who owns the lock and in which program counter
  (`LockInv`); for every phase of the hop, how flags, chunk generations and the
  three guards relate (`PhaseInv`); what a failed rotation leaves; which pages
  are open at each step of `forget()`; and which keys and how many chunks a
  reader has. One lemma per part shows that every step preserves it.
* `FallingIsReadable`, `SupersededKeysGo`: with and without a watchdog.
* `UnwatchedReadable`, `UnwatchedReadsSucceed`, `UnwatchedKeepsPromise`,
  `UnwatchedForgetLeavesNothing`: for `Watched = FALSE`. With a watchdog they are
  false (the first of the observations), so the assumption is needed.
  `UnwatchedKeepsPromise` is the refinement of `HeldObject`: initial states map to
  initial states, every step to a step or a stutter.

The second part of `SecureVirtualStorageProofs` is about `KeyRelease` (whose
specification is therefore called `ReleaseSpec`), for any calls, TTL and clock
range: `ReleasedAfterFsync`, `ReleasedOnce`, `TokensLastUntilDeadline`,
`ReadBackWhole`. The strengthening says that a token in the table was issued and its
key is still there, so the step that gives a key away also removes what the next
redeemer would need; that a token of which a refusal speaks has left the table, so
nobody has its key later (`RefusedIsGone`); and, for `ReadBackWhole`, that a file
which was flushed has all its chunks written and that nobody opens a file without
its key.

The last part of `ChunkedSecureBoxProofs` is about `FallScheduler` (whose
specification is therefore called `FallSpec`), for any number of boxes and workers:
`EachBoxHasOneEntry`. The property counts entries on the heap and with workers;
`HandsInv` and `ApartInv` say that what a worker holds has left the heap and is in
one hand only, `EntryInv` that a registered box has an entry somewhere.

`DistributedTrustGroupProofs`, for any threshold, any number of holders and
callers: `KillsForCause`, `FetchesAreClean`. The invariant follows the messages:
`LockInv` says which caller is inside the lock; `PipesInv` that a living holder has
one question or one answer in its pipe exactly if the caller inside waits for it, so
nothing is left for the next one; `AnswersInv` that the answers are the holder's own
share, or zeros after a wipe; `SharesInv` that the shares a fetch has and the holders
it has yet to ask are K together and disjoint; `KillInv` and `StopInv` that the flags
follow the kill and the stop. That a fetch asks K different holders needs that the
first K live ones exist: `MinOfNats` and `FirstKHasK` get it from least elements and
a bijection between ranks and holders, where a hand proof would use induction.

The second part of that module is about `Streams` (whose specification is therefore
called `StreamsSpec`), for any size of a piece, capacity of the pipes, lengths of
blocks, chunks and pools (a block holds a chunk), whichever thread or process dies, and
however few bytes a call moves: `BytesCrossWhole`,
`CallsDeliver`, `SlotsNeverOverlap`. `PassingInv` says that what has arrived, the
second pipe and the first are three consecutive parts of what the writer has written;
`CountInv` and `MovedInv` that the caller of `splice()` counts exactly what has left
the first pipe, and that behind it the threads are through. In a hand-off the reader
never meets the end of its pipe, as it holds a write end itself (`EndsInv`): it stops
with the whole piece or not at all. `ReportsInv` says that A reports at most once, and
B only with the whole piece, which is why asking the queue twice is enough. `FileInv`
and `SentInv` follow an ingested file: each chunk starts where the last one ended, and
what was written out is the chunks so far, cut at the measured length. `SlotsInv`
says that a pool's cursor is behind every slot in it. The lemmas about `Bytes(x, y)`,
the bytes from one place to another, stand for an induction over sequences.

`NetworkTrustGroupProofs`, for any number of holders, shares, callers and late or
mortal holders, and any sharing with `SharingAssumption`: `AnswersAreRight`,
`KillsForCause`. `LockInv` says that whoever owns the lock is where the lock is
needed. `WireInv` follows the two queues of a connection: as long as nobody has given
up its holder, nor is about to, it carries the question of the lock's owner, the
answer to it, or, once `stop()` has cut it, neither; and nothing at all if the
owner asks somebody else. A line that is not the expected answer is therefore the
line of a holder that is given up already, which is why `AccuseInv` holds: the
heartbeat accuses who has failed. `SharesInv` says that a fetch has one share of each
holder it has asked, and K with those it has yet to ask. That a kill is counted once
and at the threshold is the last part of the invariant: between the adding and the
counting of a holder somebody is about to judge.

`SplitKeyGuardProofs`, for any length of key and any number of workers:
`ReconstructsAreWhole`, `ClosedPagesRest`. `KeyInv` says what both pages of every
cell hold while `update()` is between two bytes, `BounceInv` that the halves of a
bounce agree, `CollapseInv` that the guard is marked removed before the first page
is closed, cell 0 first; so a torn key exists only behind a closed cell, where
`reconstruct()` raises.

`SecureVirtualStorageProofs`, for any number of files, pieces, rotations and
entries: `TableFollowsBoxes`, `FilesAndBoxesTogether`. The walk of `save()` over
the regions of a box that already falls is what makes it hard. `LifeInv` and
`ListInv` tie a file's phase to the boxes it has, and say that what the walk noted
for a box without a slot is its next guard. `RotInv` says that such a box has not
finished its first rotation; `SlotInv` that slots are entries of the table, that no
two boxes share one and that each holds its box's next guard between rotations;
`SavedInv` that what a `save()` registered stays where it is, outside every slot;
`BoundInv` counts the table by the savers under way and the boxes that have slots.

`SecretsStoreProofs`, for any calls, tokens and replicas: `EntryStaysLive`,
`StoredEverywhere`, `OwnerReads`. Nothing here has a lock, so the argument is about
names: `OwnerInv` says that every file belongs to one entry (that of the `store()`
that made it, or the one the `rotate()` that made it had looked up), that a call
forgets files of its own entry only, and that a `rotate()` about to forget has put
another file in place. `LiveInv` adds that a file about to be pointed to is whole
and is never the one being forgotten, `StoredInv` what a `store()` has left on the
replicas behind it, `QuietInv` that an undisturbed `retrieve()` looked up what is
still there.

`FallingBoxesProofs`, for any numbers of pieces, buffers, ports, keys and readers and
all seven classes of boxes: `SnapshotsAreWhole`, `RestsInOrder`, `CollapsesAreFinal`.
`LockInv` says who is inside the lock, `StopInv` what the stop flag and a join that
timed out still let the thread do, and `DropInv` what a collapse has dropped at each
of its steps. `PlaceInv` and `ShapeInv` say how far the hop has come and which pieces
exist; `CopyInv`, `ZeroInv`, `KeyInv` and `PortsInv`, one per way of hopping, where the
whole copy is in the middle of it: in the buffer being left until the new one is
complete, or split between the two at the piece the hop is at. A port box sorts its
pieces before it hands them out; `SortedPieces` shows that the sorted set of all ports
is the identity, from least elements and not by induction. With more pieces than ports
two places come before a port and the hop keeps the later one, so what survives it is
again one piece per port, and stays so.

`PackedStorageProofs`, for any calls, any number of them at a time and any size of a
compressed piece: `BoxesInOrder`, `ForgottenIsGone`, `HeldFilesAreComplete`.
`TilesInv` says that the entries of an index tile the active buffer, each with the
units of its own file, and that the other buffer has the same unit or a zero at
every place, in every box that no `collapse()` has begun to drop; a call that works
on one that is being dropped touches no other. `AddInOrder` and `CutInOrder` show
that an append and a cut, with every later offset moved up, keep that, also when
empty pieces share an offset. The calls are followed by the boxes they have behind
them (`Through`): a `save()` adds its piece to a box once (`FreshInv`), a `forget()`
has taken its file out of the boxes behind it (`GoneInv`), and a saved file is in a
box or one `forget()` is through with it there (`HeldInv`). Nothing locks the three
boxes together; that two callers who forget one file do not leave half of it follows
from the order of the boxes: the second one raises in the first box. `DropInv` says
what a `collapse_all()` has dropped at each step, and that boxes are dropped in that
order too.

Only model-checked: liveness under fairness (outside the prover); Shamir's
interpolation (an induction over data), hence also that `Shamir` satisfies the
`SharingAssumption` of `NetworkTrustGroup` for every choice of bytes.

## 5. Not modelled, and the plan

Not modelled: the bytes of compression and AES-GCM, file formats, `mlock` and
`madvise`, TLS, certificates and the token of a network holder, timing figures;
`keys_for`, sizes and counters, which only read; `self_healing.py` and
`tamper_watchdog.py`, which nothing imports; `layer_streaming.py`, the measurement
scripts, the C experiment and, except for `FallingFile`, the scripts of
`backup-original-source`, which run once and print. The watchdog's wipe is one
step: how its writes through `/proc/pid/mem` meet a running reader is not decided
by this code. `VirtualStorage.collapse_all` is `forget()` in a loop.

Every safety invariant and action property of the runs is proved for all constants
its assumptions admit. What stays with TLC is the liveness of section 3, which
is out of the prover's reach, and the interpolation of `Shamir`.
