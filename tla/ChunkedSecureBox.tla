-------------------------- MODULE ChunkedSecureBox --------------------------
(***************************************************************************)
(* One ChunkedSecureBox (vstorage/chunked_secure_box.py): a file held as   *)
(* separately encrypted chunks, of which a background worker re-encrypts   *)
(* one per hop.  Two key generations are alive at a time, each in its own  *)
(* SplitKeyGuard.  When every chunk has moved to the next generation, next *)
(* becomes current, a new next is derived and the old guard is closed.     *)
(*                                                                         *)
(* The threads that meet here are                                          *)
(*   - the fall worker that holds the box's scheduler entry (one at a time,*)
(*     see FallScheduler), variable hop;                                   *)
(*   - the thread inside save(), which lists the box's memory regions for  *)
(*     the watchdog WITHOUT the box's lock while the box already falls,    *)
(*     variable saver;                                                     *)
(*   - readers in snapshot() / stream_to() / stream_to_wrapped();          *)
(*   - the thread in forget(), variable forget;                            *)
(*   - the watchdog process, which may zero the box from outside.          *)
(*                                                                         *)
(* A key is its generation number: the ratchet makes every derived key a   *)
(* fresh one.  AES-GCM opens a chunk iff the key is the one it was sealed  *)
(* with, so a chunk is the generation of its key.  A guard is named by the *)
(* generation of the key it holds.                                         *)
(***************************************************************************)
EXTENDS Naturals

CONSTANTS
    NumChunks,        \* len(self._chunks)
    Readers,          \* threads that may call retrieve*() on the file
    Watched,          \* watch_for_tampering: is there a ProcessWatchdog?
    MaxFetchFailures, \* fetches of the trust group that may raise (0: none used)
    MaxGen            \* bound: key generations are numbered modulo MaxGen + 1

ASSUME ConstantsAssumption ==
    /\ NumChunks \in Nat \ {0}
    /\ Watched \in BOOLEAN
    /\ MaxFetchFailures \in Nat
    /\ MaxGen \in Nat \ {0, 1}
    /\ {"free", "worker"} \cap Readers = {}

VARIABLES
    cipher,     \* generation of the key each chunk is encrypted under
    onNext,     \* self._on_next
    current,    \* self._current_guard
    next,       \* self._next_guard
    old,        \* old_current, the local variable of a rotation
    mapped,     \* guards whose pages are open
    poolsOpen,  \* are the chunk pools open?
    nextChunk,  \* self._next_chunk
    lock,       \* owner of self._lock
    paused,     \* self._paused
    removed,    \* self._removed
    hop,        \* where the box's scheduler entry is
    failures,   \* fetches that have raised so far
    saver,      \* progress of save() through regions()
    walking,    \* the guard whose pages regions() is walking
    export,     \* does regions() hold a ctypes export of one of those pages?
    pc,         \* progress of each reader
    kind,       \* which call it is in: snapshot() or one of the streams
    curKey,     \* its current_key
    nxtKey,     \* its next_key
    pos,        \* how many chunks it has decrypted and delivered
    res,        \* how its latest call ended
    forget,     \* progress of forget()
    wiped       \* has the watchdog zeroed the box?

box    == <<cipher, onNext, current, next, nextChunk>>
memory == <<mapped, poolsOpen, wiped>>
save   == <<saver, walking, export>>
reader == <<pc, kind, curKey, nxtKey, pos, res>>
vars   == <<box, memory, old, lock, paused, removed, hop, failures, save,
            reader, forget>>

\* The box's chunks, packed into its pools when they are first encrypted.
Chunk == 0 .. NumChunks - 1
Gen   == 0 .. MaxGen

\* The generation after g: _ratchet(), or the hash with the fetched secret.
\* At most three generations are ever in use, so the ring stands for the
\* endless chain of keys.
Ratchet(g) == IF g = MaxGen THEN 0 ELSE g + 1

HopPC    == {"heap", "popped", "shift", "fetch", "notify", "finish",
             "repush", "dropped"}
SaverPC  == {"start", "current", "next", "pools", "held", "failed"}
ForgetPC == {"idle", "mark", "current", "next", "pools", "done"}
ReaderPC == {"idle", "lock", "chunks", "clear"}
\* retrieve() calls snapshot(); the retrievals to files call one of the streams.
Kind     == {"snapshot", "stream"}

TypeOK ==
    /\ cipher \in [Chunk -> Gen]
    /\ onNext \in [Chunk -> BOOLEAN]
    /\ current \in Gen /\ next \in Gen /\ old \in Gen
    /\ mapped \subseteq Gen
    /\ poolsOpen \in BOOLEAN
    /\ nextChunk \in Chunk
    /\ lock \in Readers \cup {"free", "worker"}
    /\ paused \in BOOLEAN
    /\ removed \in BOOLEAN
    /\ hop \in HopPC
    /\ failures \in 0 .. MaxFetchFailures
    /\ saver \in SaverPC
    /\ walking \in Gen
    /\ export \in BOOLEAN
    /\ pc \in [Readers -> ReaderPC]
    /\ kind \in [Readers -> Kind]
    /\ curKey \in [Readers -> Gen] /\ nxtKey \in [Readers -> Gen]
    /\ pos \in [Readers -> 0 .. NumChunks]
    /\ res \in [Readers -> {"none", "ok", "error"}]
    /\ forget \in ForgetPC
    /\ wiped \in BOOLEAN

-----------------------------------------------------------------------------
(* Construction.  __init__ and from_file() make the first two guards,      *)
(* encrypt every chunk under the current key and hand the box to the fall  *)
(* scheduler before they return.  Without a watchdog save() then publishes *)
(* the file; with one it first walks the box's regions.                    *)

Init ==
    /\ cipher = [c \in Chunk |-> 0]
    /\ onNext = [c \in Chunk |-> FALSE]
    /\ current = 0 /\ next = 1 /\ old = 0
    /\ mapped = {0, 1}
    /\ poolsOpen = TRUE
    /\ nextChunk = 0
    /\ lock = "free"
    /\ paused = FALSE
    /\ removed = FALSE
    /\ hop = "heap"
    /\ failures = 0
    /\ saver = IF Watched THEN "start" ELSE "held"
    /\ walking = 0 /\ export = FALSE
    /\ pc = [r \in Readers |-> "idle"]
    /\ kind = [r \in Readers |-> "snapshot"]
    /\ curKey = [r \in Readers |-> 0] /\ nxtKey = [r \in Readers |-> 0]
    /\ pos = [r \in Readers |-> 0]
    /\ res = [r \in Readers |-> "none"]
    /\ forget = "idle"
    /\ wiped = FALSE

-----------------------------------------------------------------------------
(* Decryption.                                                             *)

\* The key a chunk is read with, from the flags and two reconstructed keys.
KeyOf(c, curK, nxtK) == IF onNext[c] THEN nxtK ELSE curK

\* AESGCM(key).decrypt on the chunk's slot of its pool does not raise.
Opens(c, key) == poolsOpen /\ ~wiped /\ cipher[c] = key

\* reconstruct() on both guards does not raise.
KeysReconstruct == {current, next} \subseteq mapped /\ ~wiped

-----------------------------------------------------------------------------
(* The fall worker: one iteration of _GlobalFallScheduler._run for this    *)
(* box, with _do_one_hop_locked under the box's lock.                      *)

WorkerPop ==
    /\ hop = "heap"
    /\ hop' = "popped"
    /\ UNCHANGED <<box, memory, old, lock, paused, removed, failures, save,
                   reader, forget>>

\* Removed while the entry was in flight: it is not pushed back.
WorkerSeesRemoved ==
    /\ hop = "popped" /\ lock = "free" /\ removed
    /\ hop' = "dropped"
    /\ UNCHANGED <<box, memory, old, lock, paused, removed, failures, save,
                   reader, forget>>

\* A reader is waiting for the box: try again a millisecond later.
WorkerSeesPaused ==
    /\ hop = "popped" /\ lock = "free" /\ ~removed /\ paused
    /\ hop' = "repush"
    /\ UNCHANGED <<box, memory, old, lock, paused, removed, failures, save,
                   reader, forget>>

\* The cursor's round-robin step.
Advance(c) == (c + 1) % NumChunks

\* Mutant of Completes: the wrap-around test looks at the old cursor.
CompletesAtFirst(flags) == nextChunk = 0

\* Does this hop complete the generation?
Completes(flags) == Advance(nextChunk) = 0 /\ \A c \in Chunk : flags[c]

\* Re-encrypt the chunk at the cursor under the next key.  A generation that
\* is complete keeps the lock for the rotation.
HopChunk ==
    LET flags == [onNext EXCEPT ![nextChunk] = TRUE] IN
    /\ hop = "popped" /\ lock = "free" /\ ~removed /\ ~paused
    /\ KeysReconstruct /\ Opens(nextChunk, KeyOf(nextChunk, current, next))
    /\ cipher' = [cipher EXCEPT ![nextChunk] = next]
    /\ onNext' = flags
    /\ nextChunk' = Advance(nextChunk)
    /\ IF Completes(flags)
       THEN hop' = "shift" /\ lock' = "worker"
       ELSE hop' = "repush" /\ lock' = lock
    /\ UNCHANGED <<current, next, memory, old, paused, removed, failures,
                   save, reader, forget>>

\* reconstruct() or decrypt raises: the worker drops the box and goes on.
HopRaises ==
    /\ hop = "popped" /\ lock = "free" /\ ~removed /\ ~paused
    /\ ~(KeysReconstruct /\ Opens(nextChunk, KeyOf(nextChunk, current, next)))
    /\ hop' = "dropped"
    /\ UNCHANGED <<box, memory, old, lock, paused, removed, failures, save,
                   reader, forget>>

\* Mutant of RotateShift: the current guard is overwritten before it is kept.
RotateShiftSwapped ==
    /\ hop = "shift"
    /\ old' = next
    /\ current' = next
    /\ hop' = "fetch"
    /\ UNCHANGED <<cipher, onNext, next, nextChunk, memory, lock, paused,
                   removed, failures, save, reader, forget>>

\* old_current = self._current_guard; self._current_guard = self._next_guard
RotateShift ==
    /\ hop = "shift"
    /\ old' = current
    /\ current' = next
    /\ hop' = "fetch"
    /\ UNCHANGED <<cipher, onNext, next, nextChunk, memory, lock, paused,
                   removed, failures, save, reader, forget>>

\* self._next_guard = SplitKeyGuard(self._next_key(next_key))
RotateDerive ==
    /\ hop = "fetch"
    /\ next' = Ratchet(next)
    /\ mapped' = mapped \cup {Ratchet(next)}
    /\ hop' = "notify"
    /\ UNCHANGED <<cipher, onNext, current, nextChunk, poolsOpen, wiped, old,
                   lock, paused, removed, failures, save, reader, forget>>

\* Mutant of RotateFetchRaises: a handler that undoes the hop goes one line too far.
RotateFetchRaisesUndone ==
    /\ hop = "fetch"
    /\ failures < MaxFetchFailures
    /\ failures' = failures + 1
    /\ current' = old
    /\ onNext' = [c \in Chunk |-> FALSE]
    /\ hop' = "dropped"
    /\ lock' = "free"
    /\ UNCHANGED <<cipher, next, nextChunk, memory, old, paused, removed, save, reader, forget>>

\* trust_group.fetch() raises inside _next_key(): the exception leaves the
\* hop with both names on one guard, and the worker drops the box.
RotateFetchRaises ==
    /\ hop = "fetch"
    /\ failures < MaxFetchFailures
    /\ failures' = failures + 1
    /\ hop' = "dropped"
    /\ lock' = "free"
    /\ UNCHANGED <<box, memory, old, paused, removed, save, reader, forget>>

\* self._on_new_guard(...): the registrar never raises (see
\* SecureVirtualStorage._rotation_registrar).
RotateNotify ==
    /\ hop = "notify"
    /\ hop' = "finish"
    /\ UNCHANGED <<box, memory, old, lock, paused, removed, failures, save,
                   reader, forget>>

\* Mutant of FreshFlags: the flags of the finished generation stay up.
StaleFlags == onNext

\* [False] * len(self._chunks)
FreshFlags == [c \in Chunk |-> FALSE]

\* old_current.collapse(); self._on_next = [False] * len(self._chunks)
RotateFinish ==
    /\ hop = "finish"
    /\ ~(export /\ walking = old)
    /\ mapped' = mapped \ {old}
    /\ onNext' = FreshFlags
    /\ lock' = "free"
    /\ hop' = "repush"
    /\ UNCHANGED <<cipher, current, next, nextChunk, poolsOpen, wiped, old,
                   paused, removed, failures, save, reader, forget>>

\* mmap.close() raises BufferError while regions() has a page of the old
\* guard exported: the flags are not reset and the worker drops the box.
RotateCloseRaises ==
    /\ hop = "finish"
    /\ export /\ walking = old
    /\ lock' = "free"
    /\ hop' = "dropped"
    /\ UNCHANGED <<box, memory, old, paused, removed, failures, save, reader,
                   forget>>

WorkerRepush ==
    /\ hop = "repush"
    /\ hop' = "heap"
    /\ UNCHANGED <<box, memory, old, lock, paused, removed, failures, save,
                   reader, forget>>

Worker ==
    \/ WorkerPop \/ WorkerSeesRemoved \/ WorkerSeesPaused
    \/ HopChunk \/ HopRaises
    \/ RotateShift \/ RotateDerive \/ RotateFetchRaises
    \/ RotateNotify \/ RotateFinish \/ RotateCloseRaises
    \/ WorkerRepush

-----------------------------------------------------------------------------
(* save(): regions() walks the pages of the current guard, then those of   *)
(* the next one, then the pools, and the file is published.                *)

\* regions() reads the box's current guard: from here on it walks that one.
RegionsBegin ==
    /\ saver = "start"
    /\ saver' = "current"
    /\ walking' = current
    /\ UNCHANGED <<box, memory, old, lock, paused, removed, hop, failures,
                   export, reader, forget>>

\* ctypes from_buffer() on the next page of the guard the walk has reached.
RegionsExport ==
    /\ saver \in {"current", "next"} /\ ~export
    /\ walking \in mapped
    /\ export' = TRUE
    /\ UNCHANGED <<box, memory, old, lock, paused, removed, hop, failures,
                   saver, walking, reader, forget>>

\* The export is dropped; more pages of this guard follow, or it was the
\* last one and the walk reads the box's next attribute.
RegionsRelease ==
    /\ export
    /\ export' = FALSE
    /\ \/ UNCHANGED <<saver, walking>>
       \/ saver = "current" /\ saver' = "next" /\ walking' = next
       \/ saver = "next" /\ saver' = "pools" /\ walking' = walking
    /\ UNCHANGED <<box, memory, old, lock, paused, removed, hop, failures,
                   reader, forget>>

\* A rotation closed the page first: ValueError leaves save(), and no
\* file_id for the box is ever returned.
RegionsRaises ==
    /\ saver \in {"current", "next"} /\ ~export
    /\ walking \notin mapped
    /\ saver' = "failed"
    /\ UNCHANGED <<box, memory, old, lock, paused, removed, hop, failures,
                   walking, export, reader, forget>>

\* The pools are listed, the regions registered and the file published.
Publish ==
    /\ saver = "pools"
    /\ saver' = "held"
    /\ UNCHANGED <<box, memory, old, lock, paused, removed, hop, failures,
                   walking, export, reader, forget>>

Saver ==
    RegionsBegin \/ RegionsExport \/ RegionsRelease \/ RegionsRaises \/ Publish

-----------------------------------------------------------------------------
(* Readers.  stream_to() and stream_to_wrapped() have one control flow.    *)

\* The file is looked up while it is held; the pause flag goes up.
ReadBegin(r, k) ==
    /\ pc[r] = "idle"
    /\ saver = "held" /\ forget = "idle"
    /\ paused' = TRUE
    /\ pc' = [pc EXCEPT ![r] = "lock"]
    /\ kind' = [kind EXCEPT ![r] = k]
    /\ pos' = [pos EXCEPT ![r] = 0]
    /\ res' = [res EXCEPT ![r] = "none"]
    /\ UNCHANGED <<box, memory, old, lock, removed, hop, failures, save,
                   curKey, nxtKey, forget>>

\* An exception: snapshot() has no finally, the streams clear the flag.
Raise(r) ==
    /\ res' = [res EXCEPT ![r] = "error"]
    /\ pc' = [pc EXCEPT ![r] = IF kind[r] = "snapshot" THEN "idle" ELSE "clear"]
    /\ UNCHANGED <<kind, curKey, nxtKey, pos>>

ReadLock(r) ==
    /\ pc[r] = "lock" /\ lock = "free"
    /\ KeysReconstruct
    /\ lock' = r
    /\ pc' = [pc EXCEPT ![r] = "chunks"]
    /\ curKey' = [curKey EXCEPT ![r] = current]
    /\ nxtKey' = [nxtKey EXCEPT ![r] = next]
    /\ UNCHANGED <<box, memory, old, paused, removed, hop, failures, save,
                   kind, pos, res, forget>>

ReadLockRaises(r) ==
    /\ pc[r] = "lock" /\ lock = "free"
    /\ ~KeysReconstruct
    /\ Raise(r)
    /\ UNCHANGED <<box, memory, old, lock, paused, removed, hop, failures,
                   save, forget>>

\* Decrypt one chunk and append it to the result or write it out.
ReadChunk(r) ==
    LET c == pos[r] IN
    /\ pc[r] = "chunks" /\ c < NumChunks
    /\ Opens(c, KeyOf(c, curKey[r], nxtKey[r]))
    /\ pos' = [pos EXCEPT ![r] = @ + 1]
    /\ UNCHANGED <<box, memory, old, lock, paused, removed, hop, failures,
                   save, pc, kind, curKey, nxtKey, res, forget>>

ReadChunkRaises(r) ==
    LET c == pos[r] IN
    /\ pc[r] = "chunks" /\ c < NumChunks
    /\ ~Opens(c, KeyOf(c, curKey[r], nxtKey[r]))
    /\ lock' = "free"
    /\ Raise(r)
    /\ UNCHANGED <<box, memory, old, paused, removed, hop, failures, save,
                   forget>>

ReadUnlock(r) ==
    /\ pc[r] = "chunks" /\ pos[r] = NumChunks
    /\ lock' = "free"
    /\ pc' = [pc EXCEPT ![r] = "clear"]
    /\ res' = [res EXCEPT ![r] = "ok"]
    /\ UNCHANGED <<box, memory, old, paused, removed, hop, failures, save,
                   kind, curKey, nxtKey, pos, forget>>

\* Mutant of ReadClear: the flag stays up when the reader leaves.
ReadClearForgotten(r) ==
    /\ pc[r] = "clear"
    /\ pc' = [pc EXCEPT ![r] = "idle"]
    /\ UNCHANGED <<box, memory, old, lock, paused, removed, hop, failures,
                   save, kind, curKey, nxtKey, pos, res, forget>>

ReadClear(r) ==
    /\ pc[r] = "clear"
    /\ paused' = FALSE
    /\ pc' = [pc EXCEPT ![r] = "idle"]
    /\ UNCHANGED <<box, memory, old, lock, removed, hop, failures, save,
                   kind, curKey, nxtKey, pos, res, forget>>

ReadSteps(r) ==
    \/ ReadLock(r) \/ ReadLockRaises(r) \/ ReadChunk(r) \/ ReadChunkRaises(r)
    \/ ReadUnlock(r) \/ ReadClear(r)

-----------------------------------------------------------------------------
(* forget(): pop the file, then collapse() the box, which marks it removed *)
(* under its lock and closes guards and pools after the lock is released.  *)

ForgetPop ==
    /\ saver = "held" /\ forget = "idle"
    /\ forget' = "mark"
    /\ UNCHANGED <<box, memory, old, lock, paused, removed, hop, failures,
                   save, reader>>

\* Mutant of CollapseMark: the mark is set without the box's lock.
CollapseMarkUnlocked ==
    /\ forget = "mark"
    /\ removed' = TRUE
    /\ forget' = "current"
    /\ UNCHANGED <<box, memory, old, lock, paused, hop, failures, save,
                   reader>>

CollapseMark ==
    /\ forget = "mark" /\ lock = "free"
    /\ removed' = TRUE
    /\ forget' = "current"
    /\ UNCHANGED <<box, memory, old, lock, paused, hop, failures, save,
                   reader>>

CollapseCurrent ==
    /\ forget = "current"
    /\ mapped' = mapped \ {current}
    /\ forget' = "next"
    /\ UNCHANGED <<box, poolsOpen, wiped, old, lock, paused, removed, hop,
                   failures, save, reader>>

CollapseNext ==
    /\ forget = "next"
    /\ mapped' = mapped \ {next}
    /\ forget' = "pools"
    /\ UNCHANGED <<box, poolsOpen, wiped, old, lock, paused, removed, hop,
                   failures, save, reader>>

CollapsePools ==
    /\ forget = "pools"
    /\ poolsOpen' = FALSE
    /\ forget' = "done"
    /\ UNCHANGED <<box, mapped, wiped, old, lock, paused, removed, hop,
                   failures, save, reader>>

Collapse == CollapseMark \/ CollapseCurrent \/ CollapseNext \/ CollapsePools

\* The watchdog process zeroes the registered pages (ProcessWatchdog with
\* kill_target=False: the process survives to see it).
WatchdogWipe ==
    /\ Watched /\ saver = "held" /\ ~wiped
    /\ wiped' = TRUE
    /\ UNCHANGED <<box, mapped, poolsOpen, old, lock, paused, removed, hop,
                   failures, save, reader, forget>>

Next ==
    \/ Worker
    \/ Saver
    \/ \E r \in Readers :
         \/ \E k \in Kind : ReadBegin(r, k)
         \/ ReadSteps(r)
    \/ ForgetPop
    \/ Collapse
    \/ WatchdogWipe

Spec == Init /\ [][Next]_vars

\* Every started thread keeps running: the fall workers and a call that is
\* under way.  Nothing obliges a caller to read or to forget.  All of it is
\* weak fairness: Python's locks promise no more.
FairSpec ==
    /\ Spec
    /\ WF_vars(Worker)
    /\ WF_vars(Saver)
    /\ \A r \in Readers : WF_vars(ReadSteps(r))
    /\ WF_vars(Collapse)
-----------------------------------------------------------------------------
(* Properties.                                                             *)

\* Every chunk opens with the key its flag selects.
Readable == \A c \in Chunk : cipher[c] = KeyOf(c, current, next)

\* While the box is falling, whoever can take its lock finds every chunk
\* encrypted under the generation its flag names: the two-generation rotation
\* of _do_one_hop_locked never leaves a chunk behind on a key that is gone.
ReadableWhileFalling ==
    lock # "worker" /\ hop # "dropped" => Readable

\* Without a watchdog nothing is exempt, not even a box that a rotation has dropped half
\* way because the fetch of its next key raised: until it is forgotten, whoever takes the
\* lock finds "which generation each piece is currently in", and both keys to read it with.
AlwaysReadable ==
    lock # "worker" => Readable /\ (removed \/ (KeysReconstruct /\ poolsOpen))

\* A retrieve that found the file fails only if the file was forgotten, or
\* wiped by the watchdog, meanwhile: hops, rotations, failed rotations and
\* other readers never make it fail.
ReadsSucceedUntilForgotten ==
    \A r \in Readers : res[r] = "error" => removed \/ wiped

\* Between hops only the two live generations have pages: a completed
\* rotation has released the key that no chunk uses any more.
OldKeysReleased ==
    lock # "worker" /\ hop # "dropped" => mapped \subseteq {current, next}

\* "wipe just this file": when forget() has returned no key page and no pool
\* of the box is left, whatever hop was under way when it was called.  Only a rotation
\* whose fetch raised leaves a guard behind: the one it was about to close.
ForgetLeavesNothing ==
    forget = "done" =>
        ~poolsOpen /\ mapped \subseteq IF failures = 0 THEN {} ELSE {old}

\* No reader is inside a call.
Quiet == \A r \in Readers : pc[r] = "idle"

\* Once callers leave the box alone it keeps moving from generation to
\* generation until it is removed: a reader never leaves it parked, and a
\* rotation never ends the motion, unless its fetch raises (the worker drops the box).
KeepsFalling ==
    <>[](Quiet /\ ~removed /\ ~wiped /\ failures = 0) =>
        \A g \in Gen : []<>(current # g)

\* While the pause flag is up, a reader at the lock gets in although the lock promises it
\* nothing: the worker, which would take it again and again, stays away.
PauseLetsIn == \A r \in Readers : pc[r] = "lock" ~> pc[r] # "lock" \/ ~paused

\* All readers share the flag, and the first to leave clears it under the others.  These
\* depend on the lock: a read comes to an end if a lock that is free again and again is
\* at last given to the thread that waits for it.
ReadCompletes ==
    \A r \in Readers :
        SF_vars(ReadLock(r) \/ ReadLockRaises(r)) => (pc[r] # "idle" ~> pc[r] = "idle")

\* Box and readers do not stop each other: the box falls again after every read, and
\* every read ends although the box falls.
GoesOn == KeepsFalling /\ PauseLetsIn /\ ReadCompletes

\* The box as its callers see it: published, forgotten, and what each reader
\* has got.
CallerStatus ==
    IF saver # "held" THEN "saving"
    ELSE IF forget = "idle" THEN "held" ELSE "forgotten"

CallerView ==
    [r \in Readers |->
        IF pc[r] \in {"lock", "chunks"} THEN "reading"
        ELSE IF res[r] = "ok" THEN "all" ELSE res[r]]

Promise == INSTANCE HeldObject WITH status <- CallerStatus, view <- CallerView

\* What the box promises its callers (HeldObject): reads that deliver
\* everything, and fail only because of forget().
KeepsPromise == Promise!Spec
=============================================================================
