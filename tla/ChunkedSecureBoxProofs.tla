----------------------- MODULE ChunkedSecureBoxProofs -----------------------
(***************************************************************************)
(* Proofs about ChunkedSecureBox, for every number of chunks, every set of *)
(* readers and every length of the key chain, and, at the end, about the   *)
(* FallScheduler that hands it its hops, for every set of boxes and any    *)
(* number of workers.                                                      *)
(***************************************************************************)
EXTENDS ChunkedSecureBox, FallScheduler, FiniteSetTheorems, TLAPS

\* The worker owns the box's lock during a rotation and only then; a reader
\* owns it while it goes through the chunks.
LockInv ==
    /\ lock = "worker" <=> hop \in {"shift", "fetch", "notify", "finish"}
    /\ \A r \in Readers : lock = r <=> pc[r] = "chunks"

\* How flags, ciphertexts and the two key generations fit at each step.
PhaseInv ==
    /\ hop \in {"heap", "popped", "repush", "shift"} =>
         Readable /\ next = Ratchet(current)
    /\ hop \in {"shift", "fetch", "notify", "finish"} =>
         \A c \in Chunk : onNext[c]
    /\ hop = "fetch" =>
         /\ current = next /\ next = Ratchet(old)
         /\ \A c \in Chunk : cipher[c] = next
    /\ hop \in {"notify", "finish"} =>
         /\ current = Ratchet(old) /\ next = Ratchet(current)
         /\ \A c \in Chunk : cipher[c] = current

\* Without a watchdog no region walk ever holds a page, so that even a box
\* dropped half way through a rotation is readable.
UnwatchedInv ==
    ~Watched => /\ saver = "held" /\ ~export /\ ~wiped
                /\ hop = "dropped" => Readable

\* Which guards have pages at each step.
PagesInv ==
    /\ ~removed => {current, next} \subseteq mapped /\ poolsOpen
    /\ hop \in {"heap", "popped", "repush", "shift"} =>
         mapped \subseteq {current, next}
    /\ hop = "fetch" => mapped \subseteq {old, current}
    /\ hop \in {"notify", "finish"} => mapped \subseteq {old, current, next}

ForgetInv ==
    /\ removed <=> forget \notin {"idle", "mark"}
    /\ removed => lock # "worker"

\* A reader inside the lock has the keys that are current and next now.
ReaderInv ==
    /\ \A r \in Readers :
         pc[r] = "chunks" => curKey[r] = current /\ nxtKey[r] = next
    /\ ~Watched => ReadsSucceedUntilForgotten

IInv ==
    TypeOK /\ LockInv /\ PhaseInv /\ UnwatchedInv /\ PagesInv /\ ForgetInv
    /\ ReaderInv

-----------------------------------------------------------------------------

\* Type correctness: every operation of the box keeps every variable in its
\* type, the cursor inside the chunks and the generations on the chain.
THEOREM TypeCorrect == Spec => []TypeOK
<1>1. Init => TypeOK
  <2> SUFFICES ASSUME Init PROVE TypeOK
    OBVIOUS
  <2>1. /\ onNext \in [Chunk -> BOOLEAN]
        /\ poolsOpen \in BOOLEAN /\ paused \in BOOLEAN /\ removed \in BOOLEAN
        /\ export \in BOOLEAN /\ wiped \in BOOLEAN
    BY Zenon DEF Init
  <2>2. QED
    BY <2>1, ConstantsAssumption
    DEF Init, TypeOK, Chunk, Gen, HopPC, SaverPC, ForgetPC, ReaderPC, Kind
<1>2. TypeOK /\ [Next]_vars => TypeOK'
  <2> SUFFICES ASSUME TypeOK, [Next]_vars PROVE TypeOK'
    OBVIOUS
  <2> USE ConstantsAssumption DEF TypeOK, HopPC, SaverPC, ForgetPC, ReaderPC, Kind, box,
                                  memory, save, reader
  <2>1. CASE WorkerPop
    BY <2>1 DEF WorkerPop
  <2>2. CASE WorkerSeesRemoved
    BY <2>2 DEF WorkerSeesRemoved
  <2>3. CASE WorkerSeesPaused
    BY <2>3 DEF WorkerSeesPaused
  <2>4. CASE HopChunk
    BY <2>4 DEF HopChunk, Advance, Completes, Chunk
  <2>5. CASE HopRaises
    BY <2>5 DEF HopRaises
  <2>6. CASE RotateShift
    BY <2>6 DEF RotateShift
  <2>7. CASE RotateDerive
    BY <2>7 DEF RotateDerive, Ratchet, Gen
  <2>8. CASE RotateFetchRaises
    BY <2>8 DEF RotateFetchRaises
  <2>9. CASE RotateNotify
    BY <2>9 DEF RotateNotify
  <2>10. CASE RotateFinish
    BY <2>10 DEF RotateFinish, FreshFlags
  <2>11. CASE RotateCloseRaises
    BY <2>11 DEF RotateCloseRaises
  <2>12. CASE WorkerRepush
    BY <2>12 DEF WorkerRepush
  <2>13. CASE RegionsBegin
    BY <2>13 DEF RegionsBegin
  <2>14. CASE RegionsExport
    BY <2>14 DEF RegionsExport
  <2>15. CASE RegionsRelease
    <3>1. export' \in BOOLEAN
      BY <2>15, Zenon DEF RegionsRelease
    <3>2. QED
      BY <2>15, <3>1 DEF RegionsRelease
  <2>16. CASE RegionsRaises
    BY <2>16 DEF RegionsRaises
  <2>17. CASE Publish
    BY <2>17 DEF Publish
  <2>18. CASE ForgetPop
    BY <2>18 DEF ForgetPop
  <2>19. CASE CollapseMark
    BY <2>19 DEF CollapseMark
  <2>20. CASE CollapseCurrent
    BY <2>20 DEF CollapseCurrent
  <2>21. CASE CollapseNext
    BY <2>21 DEF CollapseNext
  <2>22. CASE CollapsePools
    <3>1. poolsOpen' \in BOOLEAN
      BY <2>22, Zenon DEF CollapsePools
    <3>2. QED
      BY <2>22, <3>1 DEF CollapsePools
  <2>23. CASE WatchdogWipe
    BY <2>23 DEF WatchdogWipe
  <2>24. ASSUME NEW r \in Readers, NEW k \in Kind, ReadBegin(r, k)
        PROVE  TypeOK'
    BY <2>24 DEF ReadBegin
  <2>25. ASSUME NEW r \in Readers, ReadLock(r) PROVE TypeOK'
    BY <2>25 DEF ReadLock
  <2>26. ASSUME NEW r \in Readers, ReadLockRaises(r) PROVE TypeOK'
    BY <2>26 DEF ReadLockRaises, Raise
  <2>27. ASSUME NEW r \in Readers, ReadChunk(r) PROVE TypeOK'
    BY <2>27 DEF ReadChunk
  <2>28. ASSUME NEW r \in Readers, ReadChunkRaises(r) PROVE TypeOK'
    BY <2>28 DEF ReadChunkRaises, Raise
  <2>29. ASSUME NEW r \in Readers, ReadUnlock(r) PROVE TypeOK'
    BY <2>29 DEF ReadUnlock
  <2>30. ASSUME NEW r \in Readers, ReadClear(r) PROVE TypeOK'
    <3>1. paused' \in BOOLEAN
      BY <2>30, Zenon DEF ReadClear
    <3>2. QED
      BY <2>30, <3>1 DEF ReadClear
  <2>31. CASE UNCHANGED vars
    BY <2>31 DEF vars
  <2>32. QED
    BY <2>1, <2>2, <2>3, <2>4, <2>5, <2>6, <2>7, <2>8, <2>9, <2>10, <2>11, <2>12, <2>13, <2>14, <2>15, <2>16, <2>17, <2>18, <2>19, <2>20, <2>21, <2>22, <2>23, <2>24, <2>25, <2>26, <2>27, <2>28, <2>29, <2>30, <2>31 DEF Next, Worker, Saver, Collapse, ReadSteps
<1>3. QED
  BY <1>1, <1>2, PTL DEF Spec

-----------------------------------------------------------------------------
(* The inductive step, one lemma per part of IInv.                         *)

\* Every action that touches the lock moves the pc that goes with it.
LEMMA LockStep == TypeOK /\ LockInv /\ [Next]_vars => LockInv'
<1> SUFFICES ASSUME TypeOK, LockInv, [Next]_vars PROVE LockInv'
  OBVIOUS
<1> USE ConstantsAssumption DEF LockInv, box, memory, save, reader
<1>1. CASE Worker
  BY <1>1 DEF Worker, WorkerPop, WorkerSeesRemoved, WorkerSeesPaused, HopChunk,
     HopRaises, RotateShift, RotateDerive, RotateFetchRaises, RotateNotify,
     RotateFinish, RotateCloseRaises, WorkerRepush, TypeOK
<1>2. CASE Saver \/ ForgetPop \/ Collapse \/ WatchdogWipe
  BY <1>2 DEF Saver, RegionsBegin, RegionsExport, RegionsRelease, RegionsRaises,
     Publish, ForgetPop, Collapse, CollapseMark, CollapseCurrent, CollapseNext,
     CollapsePools, WatchdogWipe
<1>3. ASSUME NEW r \in Readers, NEW k \in Kind, ReadBegin(r, k)
      PROVE  LockInv'
  BY <1>3 DEF ReadBegin, TypeOK
<1>4. ASSUME NEW r \in Readers, ReadSteps(r) PROVE LockInv'
  <2>1. CASE ReadLock(r) \/ ReadLockRaises(r)
    BY <2>1 DEF ReadLock, ReadLockRaises, Raise, TypeOK
  <2>2. CASE ReadChunk(r) \/ ReadClear(r)
    BY <2>2 DEF ReadChunk, ReadClear, TypeOK
  <2>3. CASE ReadChunkRaises(r) \/ ReadUnlock(r)
    BY <2>3 DEF ReadChunkRaises, ReadUnlock, Raise, TypeOK
  <2>4. QED
    BY <1>4, <2>1, <2>2, <2>3 DEF ReadSteps
<1>5. CASE UNCHANGED vars
  BY <1>5 DEF vars
<1>6. QED
  BY <1>1, <1>2, <1>3, <1>4, <1>5 DEF Next

\* The actions that leave flags, ciphertexts, generations and hop alone.
LEMMA BoxUntouched ==
    \/ Saver \/ ForgetPop \/ Collapse \/ WatchdogWipe
    \/ \E r \in Readers : (\E k \in Kind : ReadBegin(r, k)) \/ ReadSteps(r)
    \/ UNCHANGED vars
    => UNCHANGED <<cipher, onNext, current, next, old, nextChunk, hop, failures>>
BY DEF box, vars, Saver, RegionsBegin, RegionsExport, RegionsRelease,
   RegionsRaises, Publish, ForgetPop, Collapse, CollapseMark, CollapseCurrent,
   CollapseNext, CollapsePools, WatchdogWipe, ReadBegin, ReadSteps, ReadLock,
   ReadLockRaises, ReadChunk, ReadChunkRaises, ReadUnlock, ReadClear

\* A hop moves one chunk and its flag together, and a rotation ends with the
\* flags down exactly when every chunk is on what has become current.
LEMMA PhaseStep == TypeOK /\ PhaseInv /\ [Next]_vars => PhaseInv'
<1> SUFFICES ASSUME TypeOK, PhaseInv, [Next]_vars PROVE PhaseInv'
  OBVIOUS
<1> USE ConstantsAssumption DEF PhaseInv, Readable, KeyOf, box
<1>1. CASE HopChunk
  <2>1. /\ next = Ratchet(current) /\ Readable
        /\ UNCHANGED <<current, next, old>>
        /\ hop' \in {"shift", "repush"}
    BY <1>1 DEF HopChunk
  <2>2. Readable'
    BY <1>1, <2>1 DEF HopChunk, TypeOK
  <2>3. hop' = "shift" => \A c \in Chunk : onNext'[c]
    BY <1>1 DEF HopChunk, Completes
  <2>4. QED
    BY <2>1, <2>2, <2>3 DEF Ratchet
<1>2. CASE RotateShift
  BY <1>2 DEF RotateShift
<1>3. CASE RotateDerive
  BY <1>3 DEF RotateDerive
<1>4. CASE RotateNotify
  BY <1>4 DEF RotateNotify
<1>5. CASE RotateFinish
  BY <1>5 DEF RotateFinish, FreshFlags
<1>6. CASE RotateFetchRaises \/ RotateCloseRaises \/ HopRaises \/ WorkerSeesRemoved
  BY <1>6 DEF RotateFetchRaises, RotateCloseRaises, HopRaises, WorkerSeesRemoved
<1>7. CASE WorkerPop \/ WorkerSeesPaused \/ WorkerRepush
  BY <1>7 DEF WorkerPop, WorkerSeesPaused, WorkerRepush
<1>8. CASE UNCHANGED <<cipher, onNext, current, next, old, nextChunk, hop, failures>>
  BY <1>8
<1>9. QED
  BY <1>1, <1>2, <1>3, <1>4, <1>5, <1>6, <1>7, <1>8, BoxUntouched
  DEF Next, Worker

\* Without a watchdog nothing but a failed fetch, a wrong key or removal drops
\* the box, and each of them leaves every chunk where its flag says.
LEMMA UnwatchedStep ==
    TypeOK /\ PhaseInv /\ UnwatchedInv /\ [Next]_vars => UnwatchedInv'
<1> SUFFICES ASSUME TypeOK, PhaseInv, UnwatchedInv, [Next]_vars, ~Watched
             PROVE  /\ saver' = "held" /\ ~export' /\ ~wiped'
                    /\ hop' = "dropped" => Readable'
  BY DEF UnwatchedInv
<1> USE DEF UnwatchedInv, box, memory, save
<1>1. UNCHANGED <<saver, export, wiped>>
  BY DEF Next, vars, Worker, WorkerPop, WorkerSeesRemoved, WorkerSeesPaused,
     HopChunk, HopRaises, RotateShift, RotateDerive, RotateFetchRaises,
     RotateNotify, RotateFinish, RotateCloseRaises, WorkerRepush, Saver,
     RegionsBegin, RegionsExport, RegionsRelease, RegionsRaises, Publish,
     ForgetPop, Collapse, CollapseMark, CollapseCurrent, CollapseNext,
     CollapsePools, WatchdogWipe, ReadBegin, ReadSteps, ReadLock,
     ReadLockRaises, ReadChunk, ReadChunkRaises, ReadUnlock, ReadClear
<1>2. ASSUME hop' = "dropped" PROVE Readable'
  <2>1. CASE WorkerSeesRemoved \/ HopRaises
    BY <2>1 DEF WorkerSeesRemoved, HopRaises, PhaseInv, Readable, KeyOf
  <2>2. CASE RotateFetchRaises
    BY <2>2 DEF RotateFetchRaises, PhaseInv, Readable, KeyOf
  <2>3. CASE RotateCloseRaises
    BY <2>3 DEF RotateCloseRaises
  <2>4. CASE \/ WorkerPop \/ WorkerSeesPaused \/ HopChunk \/ RotateShift
             \/ RotateDerive \/ RotateNotify \/ RotateFinish \/ WorkerRepush
    BY <1>2, <2>4 DEF WorkerPop, WorkerSeesPaused, HopChunk, RotateShift,
       RotateDerive, RotateNotify, RotateFinish, WorkerRepush
  <2>5. CASE UNCHANGED <<cipher, onNext, current, next, old, nextChunk, hop, failures>>
    BY <1>2, <2>5 DEF Readable, KeyOf
  <2>6. QED
    BY <2>1, <2>2, <2>3, <2>4, <2>5, BoxUntouched DEF Next, Worker
<1>3. QED
  BY <1>1, <1>2

\* The removed mark is set under the lock, and no hop starts after it.
LEMMA ForgetStep ==
    TypeOK /\ LockInv /\ ForgetInv /\ [Next]_vars => ForgetInv'
<1> SUFFICES ASSUME TypeOK, LockInv, ForgetInv, [Next]_vars PROVE ForgetInv'
  OBVIOUS
<1> USE ConstantsAssumption DEF ForgetInv, box, memory, save, reader
<1>1. CASE Worker
  BY <1>1 DEF Worker, WorkerPop, WorkerSeesRemoved, WorkerSeesPaused, HopChunk,
     HopRaises, RotateShift, RotateDerive, RotateFetchRaises, RotateNotify,
     RotateFinish, RotateCloseRaises, WorkerRepush
<1>2. CASE Saver \/ ForgetPop \/ WatchdogWipe
  BY <1>2 DEF Saver, RegionsBegin, RegionsExport, RegionsRelease, RegionsRaises,
     Publish, ForgetPop, WatchdogWipe
<1>3. CASE Collapse
  BY <1>3 DEF Collapse, CollapseMark, CollapseCurrent, CollapseNext, CollapsePools
<1>4. ASSUME NEW r \in Readers, NEW k \in Kind, ReadBegin(r, k) \/ ReadSteps(r)
      PROVE  ForgetInv'
  BY <1>4 DEF ReadBegin, ReadSteps, ReadLock, ReadLockRaises, ReadChunk,
     ReadChunkRaises, ReadUnlock, ReadClear
<1>5. CASE UNCHANGED vars
  BY <1>5 DEF vars
<1>6. QED
  BY <1>1, <1>2, <1>3, <1>4, <1>5 DEF Next, Kind

\* A rotation opens one guard and closes one that is neither current nor next;
\* only a removed box loses the two it uses.
LEMMA PagesStep ==
    TypeOK /\ PhaseInv /\ LockInv /\ ForgetInv /\ PagesInv /\ [Next]_vars => PagesInv'
<1> SUFFICES ASSUME TypeOK, PhaseInv, LockInv, ForgetInv, PagesInv, [Next]_vars
             PROVE  PagesInv'
  OBVIOUS
<1> USE ConstantsAssumption DEF PagesInv, box, memory
<1>1. CASE \/ WorkerPop \/ WorkerSeesRemoved \/ WorkerSeesPaused \/ HopChunk
           \/ HopRaises \/ RotateNotify \/ WorkerRepush
  BY <1>1 DEF WorkerPop, WorkerSeesRemoved, WorkerSeesPaused, HopChunk,
     HopRaises, RotateNotify, WorkerRepush
<1>2. CASE RotateShift
  BY <1>2 DEF RotateShift
<1>3. CASE RotateDerive
  BY <1>3 DEF RotateDerive, PhaseInv
<1>4. CASE RotateFinish
  <2>1. old # current /\ old # next
    BY <1>4 DEF RotateFinish, PhaseInv, TypeOK, Ratchet, Gen
  <2>2. QED
    BY <1>4, <2>1 DEF RotateFinish
<1>5. CASE RotateFetchRaises \/ RotateCloseRaises
  BY <1>5 DEF RotateFetchRaises, RotateCloseRaises
<1>6. CASE Collapse
  BY <1>6 DEF Collapse, CollapseMark, CollapseCurrent, CollapseNext,
     CollapsePools, ForgetInv, LockInv
<1>7. CASE Saver \/ ForgetPop \/ WatchdogWipe \/ UNCHANGED vars
  BY <1>7 DEF Saver, RegionsBegin, RegionsExport, RegionsRelease, RegionsRaises,
     Publish, ForgetPop, WatchdogWipe, vars
<1>8. ASSUME NEW r \in Readers, NEW k \in Kind, ReadBegin(r, k) \/ ReadSteps(r)
      PROVE  PagesInv'
  BY <1>8 DEF ReadBegin, ReadSteps, ReadLock, ReadLockRaises, ReadChunk,
     ReadChunkRaises, ReadUnlock, ReadClear
<1>9. QED
  BY <1>1, <1>2, <1>3, <1>4, <1>5, <1>6, <1>7, <1>8 DEF Next, Worker, Kind

\* A reader's two keys stay current while it has the lock, so that it opens
\* every chunk unless the box is taken away under it.
LEMMA ReaderStep ==
    IInv /\ [Next]_vars => ReaderInv'
<1> SUFFICES ASSUME IInv, [Next]_vars PROVE ReaderInv'
  OBVIOUS
<1> USE ConstantsAssumption DEF IInv, ReaderInv, ReadsSucceedUntilForgotten, box, memory
<1>1. CASE Worker
  <2>1. UNCHANGED <<pc, curKey, nxtKey, res, removed, wiped>>
    BY <1>1 DEF Worker, WorkerPop, WorkerSeesRemoved, WorkerSeesPaused, HopChunk,
       HopRaises, RotateShift, RotateDerive, RotateFetchRaises, RotateNotify,
       RotateFinish, RotateCloseRaises, WorkerRepush, reader
  <2>2. UNCHANGED <<current, next>> \/ lock = "worker"
    BY <1>1 DEF Worker, WorkerPop, WorkerSeesRemoved, WorkerSeesPaused, HopChunk,
       HopRaises, RotateShift, RotateDerive, RotateFetchRaises, RotateNotify,
       RotateFinish, RotateCloseRaises, WorkerRepush, LockInv
  <2>3. QED
    BY <2>1, <2>2 DEF LockInv
<1>2. CASE Saver \/ ForgetPop \/ Collapse \/ WatchdogWipe \/ UNCHANGED vars
  BY <1>2 DEF Saver, RegionsBegin, RegionsExport, RegionsRelease, RegionsRaises,
     Publish, ForgetPop, Collapse, CollapseMark, CollapseCurrent, CollapseNext,
     CollapsePools, WatchdogWipe, vars, reader
<1>3. ASSUME NEW r \in Readers, NEW k \in Kind, ReadBegin(r, k)
      PROVE  ReaderInv'
  BY <1>3 DEF ReadBegin, TypeOK
<1>4. ASSUME NEW r \in Readers, ReadSteps(r) PROVE ReaderInv'
  <2>1. CASE ReadLock(r)
    BY <2>1 DEF ReadLock, TypeOK
  <2>2. CASE ReadLockRaises(r)
    BY <2>2 DEF ReadLockRaises, Raise, TypeOK, KeysReconstruct, PagesInv
  <2>3. CASE ReadChunk(r)
    BY <2>3 DEF ReadChunk
  <2>4. CASE ReadChunkRaises(r)
    <3>1. ASSUME ~Watched, ~removed, ~wiped PROVE FALSE
      <4>1. lock = r /\ lock # "worker"
        BY <2>4 DEF ReadChunkRaises, LockInv
      <4>2. Readable
        BY <3>1, <4>1 DEF PhaseInv, UnwatchedInv, LockInv, TypeOK, HopPC
      <4>3. pos[r] \in Chunk
        BY <2>4 DEF ReadChunkRaises, TypeOK, Chunk
      <4>4. curKey[r] = current /\ nxtKey[r] = next
        BY <2>4 DEF ReadChunkRaises
      <4>5. QED
        BY <2>4, <3>1, <4>2, <4>3, <4>4
        DEF ReadChunkRaises, Opens, Readable, PagesInv
    <3>2. QED
      BY <2>4, <3>1 DEF ReadChunkRaises, Raise, TypeOK
  <2>5. CASE ReadUnlock(r)
    BY <2>5 DEF ReadUnlock, TypeOK
  <2>6. CASE ReadClear(r)
    BY <2>6 DEF ReadClear, TypeOK
  <2>7. QED
    BY <1>4, <2>1, <2>2, <2>3, <2>4, <2>5, <2>6 DEF ReadSteps
<1>5. QED
  BY <1>1, <1>2, <1>3, <1>4 DEF Next

\* The inductive invariant holds in every reachable state.
THEOREM Invariance == Spec => []IInv
<1>1. Init /\ TypeOK => IInv
  BY ConstantsAssumption
  DEF Init, IInv, LockInv, PhaseInv, UnwatchedInv, PagesInv, ForgetInv,
      ReaderInv, ReadsSucceedUntilForgotten, Readable, KeyOf, Ratchet
<1>2. IInv /\ [Next]_vars /\ TypeOK' => IInv'
  BY LockStep, PhaseStep, UnwatchedStep, PagesStep, ForgetStep, ReaderStep DEF IInv
<1>3. QED
  BY <1>1, <1>2, TypeCorrect, PTL DEF Spec

\* Whoever takes the lock of a falling box finds every chunk under the key its
\* flag selects: with or without a watchdog, after any number of rotations.
THEOREM FallingIsReadable == Spec => []ReadableWhileFalling
<1>1. IInv => ReadableWhileFalling
  BY DEF IInv, LockInv, PhaseInv, ReadableWhileFalling, TypeOK, HopPC
<1>2. QED
  BY <1>1, Invariance, PTL

\* Between hops only the current and the next key have pages.
THEOREM SupersededKeysGo == Spec => []OldKeysReleased
<1>1. IInv => OldKeysReleased
  BY DEF IInv, LockInv, PagesInv, OldKeysReleased, TypeOK, HopPC
<1>2. QED
  BY <1>1, Invariance, PTL

\* Without a watchdog the box stays readable even when a rotation fails for
\* want of trust-group holders: chunks, both keys and the pools.
THEOREM UnwatchedReadable ==
    ASSUME Watched = FALSE PROVE Spec => []AlwaysReadable
<1>1. IInv => AlwaysReadable
  <2> SUFFICES ASSUME IInv, lock # "worker"
               PROVE  Readable /\ (removed \/ (KeysReconstruct /\ poolsOpen))
    BY DEF AlwaysReadable
  <2>1. Readable
    BY Watched = FALSE DEF IInv, LockInv, PhaseInv, UnwatchedInv, TypeOK, HopPC
  <2>2. removed \/ (KeysReconstruct /\ poolsOpen)
    BY Watched = FALSE DEF IInv, PagesInv, UnwatchedInv, KeysReconstruct
  <2>3. QED
    BY <2>1, <2>2
<1>2. QED
  BY <1>1, Invariance, PTL

\* Without a watchdog a retrieve that found the file fails only because of
\* forget().
THEOREM UnwatchedReadsSucceed ==
    ASSUME Watched = FALSE PROVE Spec => []ReadsSucceedUntilForgotten
<1>1. IInv => ReadsSucceedUntilForgotten
  BY Watched = FALSE DEF IInv, ReaderInv
<1>2. QED
  BY <1>1, Invariance, PTL

-----------------------------------------------------------------------------
(* forget() of a box without a watchdog.                                   *)

\* The guard that a rotation leaves open when its fetch raises.
Leftover == IF failures = 0 THEN {} ELSE {old}

\* What forget() has closed so far stays closed, and a box that has left the
\* scheduler has no pages but those of its two keys and of a failed rotation.
GoneInv ==
    /\ hop = "dropped" => mapped \subseteq {current, next} \cup Leftover
    /\ forget \in {"next", "pools", "done"} => current \notin mapped
    /\ forget \in {"pools", "done"} => next \notin mapped
    /\ forget = "done" => ~poolsOpen

\* Only a rotation opens pages or renames the two keys, and it has the lock
\* under which forget() marks the box: none comes after the mark.
LEMMA GoneStep ==
    ASSUME Watched = FALSE
    PROVE  IInv /\ GoneInv /\ [Next]_vars => GoneInv'
<1> SUFFICES ASSUME IInv, GoneInv, [Next]_vars PROVE GoneInv'
  OBVIOUS
<1> USE DEF GoneInv, Leftover, box, memory
<1>1. CASE WorkerPop \/ WorkerSeesRemoved \/ WorkerSeesPaused \/ HopChunk \/ WorkerRepush
  BY <1>1 DEF WorkerPop, WorkerSeesRemoved, WorkerSeesPaused, HopChunk, WorkerRepush,
     IInv, PagesInv
<1>2. CASE HopRaises
  BY <1>2 DEF HopRaises, IInv, PagesInv
<1>3. CASE RotateShift \/ RotateDerive \/ RotateNotify \/ RotateFinish
  <2>1. ~removed /\ forget \in {"idle", "mark"} /\ forget' = forget /\ hop' # "dropped"
    BY <1>3 DEF RotateShift, RotateDerive, RotateNotify, RotateFinish, IInv, LockInv, ForgetInv
  <2>2. QED
    BY <2>1
<1>4. CASE RotateFetchRaises
  <2>1. ~removed /\ forget \in {"idle", "mark"} /\ forget' = forget
    BY <1>4 DEF RotateFetchRaises, IInv, LockInv, ForgetInv
  <2>2. mapped' \subseteq {old', current'} /\ failures' # 0
    BY <1>4 DEF RotateFetchRaises, IInv, PagesInv, TypeOK
  <2>3. QED
    BY <2>1, <2>2
<1>9. ~RotateCloseRaises
  BY Watched = FALSE DEF RotateCloseRaises, IInv, UnwatchedInv
<1>5. CASE Collapse
  BY <1>5 DEF Collapse, CollapseMark, CollapseCurrent, CollapseNext, CollapsePools
<1>6. CASE Saver \/ ForgetPop \/ WatchdogWipe \/ UNCHANGED vars
  BY <1>6 DEF Saver, RegionsBegin, RegionsExport, RegionsRelease, RegionsRaises,
     Publish, ForgetPop, WatchdogWipe, vars
<1>7. ASSUME NEW r \in Readers, NEW k \in Kind, ReadBegin(r, k) \/ ReadSteps(r)
      PROVE  GoneInv'
  BY <1>7 DEF ReadBegin, ReadSteps, ReadLock, ReadLockRaises, ReadChunk,
     ReadChunkRaises, ReadUnlock, ReadClear
<1>8. QED
  BY <1>1, <1>2, <1>3, <1>4, <1>5, <1>6, <1>7, <1>9 DEF Next, Worker, Kind

\* Without a watchdog, a forget() that has returned leaves no pool and no key page,
\* whatever hop, rotation or read it met, but the guard that a failed rotation was about
\* to close.
THEOREM UnwatchedForgetLeavesNothing ==
    ASSUME Watched = FALSE PROVE Spec => []ForgetLeavesNothing
<1>1. Init => GoneInv
  BY DEF Init, GoneInv
<1>2. IInv /\ GoneInv /\ [Next]_vars => GoneInv'
  BY GoneStep, Watched = FALSE
<1>3. IInv /\ GoneInv => ForgetLeavesNothing
  <2> SUFFICES ASSUME IInv, GoneInv, forget = "done" PROVE mapped \subseteq Leftover /\ ~poolsOpen
    BY DEF ForgetLeavesNothing, Leftover
  <2>1. hop \in {"heap", "popped", "repush", "dropped"}
    BY DEF IInv, ForgetInv, LockInv, TypeOK, HopPC
  <2>2. mapped \subseteq {current, next} \cup Leftover
    BY <2>1 DEF IInv, PagesInv, GoneInv
  <2>3. QED
    BY <2>2 DEF GoneInv
<1>4. QED
  BY <1>1, <1>2, <1>3, Invariance, PTL DEF Spec

-----------------------------------------------------------------------------
(* The box without a watchdog implements HeldObject.                       *)

\* A step that leaves the callers' view alone is a stutter of the promise.
LEMMA StutterStep ==
    UNCHANGED <<saver, forget, pc, res>> => UNCHANGED Promise!vars
BY DEF Promise!vars, CallerStatus, CallerView

\* Whatever moves underneath it, a box without a watchdog behaves towards its
\* callers as HeldObject does: every retrieve delivers everything, or it fails
\* because the file was forgotten.
THEOREM UnwatchedKeepsPromise ==
    ASSUME Watched = FALSE PROVE Spec => KeepsPromise
<1>1. Init => Promise!Init
  BY Watched = FALSE DEF Init, Promise!Init, CallerStatus, CallerView
<1>2. IInv /\ IInv' /\ [Next]_vars => [Promise!Next]_(Promise!vars)
  <2> SUFFICES ASSUME IInv, IInv', [Next]_vars
               PROVE  Promise!Next \/ UNCHANGED Promise!vars
    OBVIOUS
  <2> USE DEF IInv
  <2>1. saver = "held" /\ saver' = "held" /\ ~wiped
    BY Watched = FALSE DEF UnwatchedInv
  <2>2. CASE Worker
    BY <2>2, StutterStep
    DEF Worker, WorkerPop, WorkerSeesRemoved, WorkerSeesPaused, HopChunk,
        HopRaises, RotateShift, RotateDerive, RotateFetchRaises, RotateNotify,
        RotateFinish, RotateCloseRaises, WorkerRepush, reader, save
  <2>3. CASE Saver \/ WatchdogWipe
    BY <2>1, <2>3, StutterStep, Watched = FALSE
    DEF Saver, RegionsBegin, RegionsExport, RegionsRelease, RegionsRaises,
        Publish, WatchdogWipe, reader, save, UnwatchedInv
  <2>4. CASE ForgetPop
    BY <2>1, <2>4
    DEF ForgetPop, Promise!Next, Promise!Forget, CallerStatus, CallerView, reader
  <2>5. CASE Collapse
    BY <2>1, <2>5
    DEF Collapse, CollapseMark, CollapseCurrent, CollapseNext, CollapsePools,
        Promise!vars, CallerStatus, CallerView, reader
  <2>6. ASSUME NEW r \in Readers, NEW k \in Kind, ReadBegin(r, k)
        PROVE  Promise!Begin(r)
    BY <2>1, <2>6
    DEF ReadBegin, Promise!Begin, CallerStatus, CallerView, TypeOK
  <2>7. ASSUME NEW r \in Readers, ReadLock(r) \/ ReadChunk(r) \/ ReadClear(r)
        PROVE  UNCHANGED Promise!vars
    BY <2>1, <2>7
    DEF ReadLock, ReadChunk, ReadClear, Promise!vars, CallerStatus, CallerView,
        TypeOK
  <2>8. ASSUME NEW r \in Readers, ReadUnlock(r)
        PROVE  Promise!Deliver(r)
    BY <2>1, <2>8
    DEF ReadUnlock, Promise!Deliver, CallerStatus, CallerView, TypeOK
  <2>9. ASSUME NEW r \in Readers, ReadLockRaises(r) \/ ReadChunkRaises(r)
        PROVE  Promise!Fail(r)
    <3>1. res'[r] = "error" /\ removed' = removed /\ wiped' = wiped
      BY <2>9 DEF ReadLockRaises, ReadChunkRaises, Raise, TypeOK, memory
    <3>2. CallerStatus = "forgotten"
      BY <2>1, <3>1, Watched = FALSE
      DEF ReaderInv, ReadsSucceedUntilForgotten, ForgetInv, CallerStatus
    <3>3. QED
      BY <2>1, <2>9, <3>2
      DEF ReadLockRaises, ReadChunkRaises, Raise, Promise!Fail, CallerStatus,
          CallerView, TypeOK
  <2>10. CASE UNCHANGED vars
    BY <2>10, StutterStep DEF vars, reader, save
  <2>11. QED
    BY <2>2, <2>3, <2>4, <2>5, <2>6, <2>7, <2>8, <2>9, <2>10
    DEF Next, ReadSteps, Promise!Next
<1>3. QED
  BY <1>1, <1>2, Invariance, PTL DEF Spec, KeepsPromise, Promise!Spec

-----------------------------------------------------------------------------
(* FallScheduler: the workers that hand the boxes their hops.              *)

In(b, q) == \E i \in DOMAIN q : q[i] = b
Once(q)  == \A i, j \in DOMAIN q : q[i] = q[j] => i = j

\* A worker has b in its hands.
Held(b) == \E w \in Workers : job[w] = b

\* A worker has a box between taking it off the heap and pushing it back.
HandsInv == \A w \in Workers : job[w] # NoBox <=> wpc[w] \in {"got", "push"}

\* The due entries, the others and the workers' hands share no box, and none has two.
ApartInv ==
    /\ Once(due)
    /\ \A v, w \in Workers : job[v] = job[w] /\ job[v] # NoBox => v = w
    /\ \A b \in Boxes : /\ In(b, due) => b \notin pending /\ ~Held(b)
                        /\ b \in pending => ~Held(b)

\* Only registered boxes have an entry, and only removed and failed ones lose it.
EntryInv ==
    \A b \in Boxes :
        /\ In(b, due) \/ b \in pending \/ Held(b) => b \in known
        /\ b \in known \ (removedBoxes \cup raised) => In(b, due) \/ b \in pending \/ Held(b)

FallIInv == FallTypeOK /\ HandsInv /\ ApartInv /\ EntryInv

-----------------------------------------------------------------------------
(* The queue of due entries.                                               *)

\* A sequence of distinct entries takes one more that it has not got.
LEMMA Appending ==
    ASSUME NEW q \in Seq(Boxes), NEW c \in Boxes
    PROVE  /\ Append(q, c) \in Seq(Boxes)
           /\ \A b : In(b, Append(q, c)) <=> In(b, q) \/ b = c
           /\ Once(q) /\ ~In(c, q) => Once(Append(q, c))
<1>1. /\ Len(q) + 1 \in DOMAIN Append(q, c) /\ Append(q, c)[Len(q) + 1] = c
      /\ \A i \in DOMAIN q : i \in DOMAIN Append(q, c) /\ Append(q, c)[i] = q[i]
      /\ \A i \in DOMAIN Append(q, c) : i = Len(q) + 1 \/ i \in DOMAIN q
      /\ Append(q, c) \in Seq(Boxes)
  OBVIOUS
<1>2. QED
  BY <1>1 DEF In, Once

\* The rest of a sequence of distinct entries is without its first one.
LEMMA Taking ==
    ASSUME NEW q \in Seq(Boxes), q # <<>>
    PROVE  /\ Head(q) \in Boxes /\ Tail(q) \in Seq(Boxes) /\ In(Head(q), q)
           /\ \A b : In(b, q) <=> In(b, Tail(q)) \/ b = Head(q)
           /\ Once(q) => Once(Tail(q)) /\ ~In(Head(q), Tail(q))
<1>1. /\ 1 \in DOMAIN q /\ q[1] = Head(q) /\ Head(q) \in Boxes /\ Tail(q) \in Seq(Boxes)
      /\ \A i \in DOMAIN Tail(q) : i + 1 \in DOMAIN q /\ Tail(q)[i] = q[i + 1] /\ i \in Nat
                                   /\ i + 1 # 1
      /\ \A i \in DOMAIN q : i = 1 \/ (i - 1 \in DOMAIN Tail(q) /\ Tail(q)[i - 1] = q[i])
  OBVIOUS
<1>2. In(Head(q), q)
  BY <1>1 DEF In
<1>3. \A b : In(b, q) <=> In(b, Tail(q)) \/ b = Head(q)
  BY <1>1 DEF In
<1>4. Once(q) => ~In(Head(q), Tail(q))
  BY <1>1 DEF In, Once
<1>5. Once(q) => Once(Tail(q))
  <2> SUFFICES ASSUME Once(q), NEW i \in DOMAIN Tail(q), NEW j \in DOMAIN Tail(q),
                      Tail(q)[i] = Tail(q)[j]
               PROVE  i = j
    BY DEF Once
  <2>1. i + 1 = j + 1
    BY <1>1 DEF Once
  <2>2. QED
    BY <1>1, <2>1
<1>6. QED
  BY <1>1, <1>2, <1>3, <1>4, <1>5

-----------------------------------------------------------------------------
(* Steps.                                                                  *)

\* Every step keeps the types.
LEMMA FallTypeStep ==
    ASSUME FallTypeOK, HandsInv, EntryInv, FallNext
    PROVE  FallTypeOK'
<1> USE FallAssumption DEF FallTypeOK, WorkerPC, Reading, heap, callers, Goto
<1>1. ASSUME NEW w \in Workers, Peek(w) PROVE FallTypeOK'
  BY <1>1 DEF Peek
<1>2. ASSUME NEW w \in Workers, WakeByEvent(w) \/ WakeByTimeout(w) PROVE FallTypeOK'
  <2>1. wakeup' \in BOOLEAN
    BY <1>2, Zenon DEF WakeByEvent, WakeByTimeout
  <2>2. QED
    BY <1>2, <2>1 DEF WakeByEvent, WakeByTimeout
<1>3. ASSUME NEW w \in Workers, Take(w) PROVE FallTypeOK'
  <2>1. due' \in Seq(Boxes) /\ (due # <<>> => Head(due) \in Boxes)
    BY <1>3, Taking DEF Take
  <2>2. job' \in [Workers -> Boxes \cup {NoBox}]
    BY <1>3, <2>1 DEF Take
  <2>3. wpc' \in [Workers -> WorkerPC]
    BY <1>3 DEF Take
  <2>4. QED
    BY <1>3, <2>1, <2>2, <2>3 DEF Take
<1>4. ASSUME NEW w \in Workers, DropRemoved(w) PROVE FallTypeOK'
  BY <1>4 DEF DropRemoved
<1>5. ASSUME NEW w \in Workers, Postpone(w) PROVE FallTypeOK'
  <2>1. delay' \in [Workers -> BOOLEAN]
    BY <1>5 DEF Postpone
  <2>2. QED
    BY <1>5, <2>1 DEF Postpone
<1>6. ASSUME NEW w \in Workers, Hop(w) PROVE FallTypeOK'
  <2>1. delay' \in [Workers -> BOOLEAN]
    <3>1. \E v \in BOOLEAN : delay' = [delay EXCEPT ![w] = v]
      <4>1. delay' = [delay EXCEPT ![w] = (job[w] \in Paced)]
        BY <1>6, Zenon DEF Hop
      <4>2. (job[w] \in Paced) \in BOOLEAN
        BY SMT
      <4>3. QED
        BY <4>1, <4>2, Zenon
    <3>2. QED
      BY <3>1
  <2>2. hops' \in [Boxes -> {0, 1}]
    <3>1. job[w] \in Boxes
      BY <1>6 DEF Hop, Holds, HandsInv
    <3>2. 1 - hops[job[w]] \in {0, 1}
      BY <3>1
    <3>3. QED
      BY <1>6, <3>2 DEF Hop
  <2>3. QED
    BY <1>6, <2>1, <2>2 DEF Hop
<1>7. ASSUME NEW w \in Workers, HopFails(w) PROVE FallTypeOK'
  <2>1. job[w] \in known
    BY <1>7 DEF HopFails, HandsInv, EntryInv, Held, Holds
  <2>2. QED
    BY <1>7, <2>1 DEF HopFails
<1>8. ASSUME NEW w \in Workers, Push(w) PROVE FallTypeOK'
  <2>1. job[w] \in Boxes
    BY <1>8 DEF Push, HandsInv
  <2>2. due' \in Seq(Boxes) /\ pending' \subseteq Boxes
    <3>1. Append(due, job[w]) \in Seq(Boxes)
      BY <2>1, Appending
    <3>2. (due' = due \/ due' = Append(due, job[w]))
          /\ (pending' = pending \/ pending' = pending \cup {job[w]})
      BY <1>8, Zenon DEF Push
    <3>3. QED
      BY <2>1, <3>1, <3>2
  <2>3. QED
    BY <1>8, <2>2 DEF Push
<1>9. ASSUME NEW b \in Boxes, Ripen(b) PROVE FallTypeOK'
  BY <1>9, Appending DEF Ripen
<1>10. ASSUME NEW b \in Boxes, Register(b) PROVE FallTypeOK'
  <2>1. wakeup' \in BOOLEAN /\ due' \in Seq(Boxes)
    BY <1>10, Appending, Zenon DEF Register
  <2>2. QED
    BY <1>10, <2>1 DEF Register
<1>11. ASSUME NEW b \in Boxes, ReadStep(b) PROVE FallTypeOK'
  <2>1. reading' \in [Boxes -> Reading]
    BY <1>11 DEF ReadStep
  <2>2. QED
    BY <1>11, <2>1 DEF ReadStep
<1>12. ASSUME NEW b \in Boxes, Remove(b) PROVE FallTypeOK'
  BY <1>12 DEF Remove
<1>13. QED
  BY <1>1, <1>2, <1>3, <1>4, <1>5, <1>6, <1>7, <1>8, <1>9, <1>10, <1>11, <1>12, Zenon
  DEF FallNext, Run

\* The heap and the workers' hands as one whole.
EntriesInv == HandsInv /\ ApartInv /\ EntryInv

\* A box stays in one place: the due queue, the waiting entries, or the hands of a worker.
LEMMA EntriesStep ==
    ASSUME FallTypeOK, EntriesInv, FallNext
    PROVE  EntriesInv'
<1> USE FallAssumption DEF heap, callers, Goto
<1>1. ASSUME UNCHANGED <<due, pending, job, known>>, removedBoxes \subseteq removedBoxes',
             raised \subseteq raised', HandsInv'
      PROVE  EntriesInv'
  BY <1>1 DEF EntriesInv, ApartInv, EntryInv, Held, In, Once
<1>2. ASSUME NEW w \in Workers, Peek(w) PROVE EntriesInv'
  <2>1. HandsInv'
    BY <1>2 DEF Peek, EntriesInv, HandsInv, FallTypeOK
  <2>2. QED
    BY <1>1, <1>2, <2>1 DEF Peek
<1>3. ASSUME NEW w \in Workers, WakeByEvent(w) \/ WakeByTimeout(w) PROVE EntriesInv'
  <2>1. HandsInv'
    BY <1>3 DEF WakeByEvent, WakeByTimeout, EntriesInv, HandsInv, FallTypeOK
  <2>2. QED
    BY <1>1, <1>3, <2>1 DEF WakeByEvent, WakeByTimeout
<1>4. ASSUME NEW w \in Workers, Postpone(w) \/ Hop(w) PROVE EntriesInv'
  <2>1. HandsInv'
    BY <1>4 DEF Postpone, Hop, Holds, EntriesInv, HandsInv, FallTypeOK
  <2>2. QED
    BY <1>1, <1>4, <2>1 DEF Postpone, Hop
<1>5. ASSUME NEW w \in Workers, Take(w) PROVE EntriesInv'
  <2>1. CASE due = <<>>
    <3>1. HandsInv'
      BY <1>5, <2>1 DEF Take, EntriesInv, HandsInv, FallTypeOK
    <3>2. QED
      BY <1>1, <1>5, <2>1, <3>1 DEF Take
  <2>2. CASE due # <<>>
    <3>1. /\ due' = Tail(due) /\ UNCHANGED <<pending, known, removedBoxes, raised>>
          /\ job' = [job EXCEPT ![w] = Head(due)] /\ wpc' = [wpc EXCEPT ![w] = "got"]
          /\ job[w] = NoBox /\ Head(due) \in Boxes
      BY <1>5, <2>2, Taking DEF Take, EntriesInv, HandsInv, FallTypeOK
    <3>2. /\ \A b : In(b, due) <=> In(b, due') \/ b = Head(due)
          /\ Once(due') /\ ~In(Head(due), due') /\ In(Head(due), due)
      BY <2>2, <3>1, Taking DEF FallTypeOK, EntriesInv, ApartInv
    <3>3. \A b \in Boxes : Held(b)' <=> Held(b) \/ b = Head(due)
      BY <3>1 DEF Held, FallTypeOK
    <3>4. HandsInv'
      BY <3>1 DEF EntriesInv, HandsInv, FallTypeOK
    <3>5. ~Held(Head(due)) /\ Head(due) \notin pending
      BY <3>1, <3>2 DEF EntriesInv, ApartInv
    <3>6. ApartInv'
      <4>1. \A v, u \in Workers : job'[v] = job'[u] /\ job'[v] # NoBox => v = u
        BY <3>1, <3>5 DEF EntriesInv, ApartInv, Held, FallTypeOK
      <4>2. QED
        BY <3>1, <3>2, <3>3, <3>5, <4>1 DEF EntriesInv, ApartInv
    <3>7. EntryInv'
      BY <3>1, <3>2, <3>3 DEF EntriesInv, EntryInv
    <3>8. QED
      BY <3>4, <3>6, <3>7 DEF EntriesInv
  <2>3. QED
    BY <2>1, <2>2
<1>6. ASSUME NEW w \in Workers, job' = [job EXCEPT ![w] = NoBox]
      PROVE  /\ \A b \in Boxes : /\ Held(b) <=> Held(b)' \/ job[w] = b
                                 /\ job[w] = b => ~Held(b)'
             /\ \A v, u \in Workers : job'[v] = job'[u] /\ job'[v] # NoBox => v = u
  <2>1. \A v \in Workers : job'[v] = IF v = w THEN NoBox ELSE job[v]
    BY <1>6 DEF FallTypeOK
  <2>2. \A v, u \in Workers : job[v] = job[u] /\ job[v] # NoBox => v = u
    BY DEF EntriesInv, ApartInv
  <2>3. \A v, u \in Workers : job'[v] = job'[u] /\ job'[v] # NoBox => v = u
    BY <2>1, <2>2
  <2>4. ASSUME NEW b \in Boxes
        PROVE  (Held(b) <=> Held(b)' \/ job[w] = b) /\ (job[w] = b => ~Held(b)')
    BY <2>1, <2>2 DEF Held
  <2>5. QED
    BY <2>3, <2>4
<1>7. ASSUME NEW w \in Workers, DropRemoved(w) \/ HopFails(w) PROVE EntriesInv'
  <2>1. /\ UNCHANGED <<due, pending, known>> /\ removedBoxes' = removedBoxes /\ raised \subseteq raised'
        /\ job' = [job EXCEPT ![w] = NoBox] /\ job[w] \in removedBoxes' \cup raised'
        /\ wpc' = [wpc EXCEPT ![w] = "peek"]
    BY <1>7 DEF DropRemoved, HopFails
  <2>2. HandsInv'
    BY <2>1 DEF EntriesInv, HandsInv, FallTypeOK
  <2>3. ApartInv'
    BY <1>6, <2>1 DEF EntriesInv, ApartInv
  <2>4. EntryInv'
    BY <1>6, <2>1 DEF EntriesInv, EntryInv
  <2>5. QED
    BY <2>2, <2>3, <2>4 DEF EntriesInv
<1>8. ASSUME NEW w \in Workers, Push(w) PROVE EntriesInv'
  <2>1. /\ UNCHANGED <<known, removedBoxes, raised>> /\ job' = [job EXCEPT ![w] = NoBox]
        /\ wpc' = [wpc EXCEPT ![w] = "peek"] /\ job[w] \in Boxes /\ job[w] # NoBox
        /\ \/ pending' = pending \cup {job[w]} /\ due' = due
           \/ pending' = pending /\ due' = Append(due, job[w])
    BY <1>8 DEF Push, EntriesInv, HandsInv, FallTypeOK
  <2>2. ~In(job[w], due) /\ job[w] \notin pending
    BY <2>1 DEF EntriesInv, ApartInv, Held
  <2>3. /\ Once(due')
        /\ \A b \in Boxes : In(b, due') => In(b, due) \/ b = job[w]
        /\ \A b \in Boxes : ~(In(b, due') /\ b \in pending')
        /\ \A b \in Boxes : In(b, due') \/ b \in pending'
                            <=> In(b, due) \/ b \in pending \/ b = job[w]
    <3>1. /\ \A b : In(b, Append(due, job[w])) <=> In(b, due) \/ b = job[w]
          /\ Once(due) /\ Once(Append(due, job[w]))
          /\ \A b \in Boxes : In(b, due) => b \notin pending
      BY <2>1, <2>2, Appending DEF EntriesInv, ApartInv, FallTypeOK
    <3>2. CASE pending' = pending \cup {job[w]} /\ due' = due
      BY <2>2, <3>1, <3>2
    <3>3. CASE pending' = pending /\ due' = Append(due, job[w])
      BY <2>2, <3>1, <3>3
    <3>4. QED
      BY <2>1, <3>2, <3>3
  <2>4. HandsInv'
    BY <2>1 DEF EntriesInv, HandsInv, FallTypeOK
  <2>5. ApartInv'
    BY <1>6, <2>1, <2>2, <2>3 DEF EntriesInv, ApartInv
  <2>6. EntryInv'
    BY <1>6, <2>1, <2>3 DEF EntriesInv, EntryInv
  <2>7. QED
    BY <2>4, <2>5, <2>6 DEF EntriesInv
<1>9. ASSUME NEW c \in Boxes, Ripen(c) \/ Register(c) PROVE EntriesInv'
  <2>1. /\ due' = Append(due, c) /\ UNCHANGED <<wpc, job, removedBoxes, raised>>
        /\ known' = known \cup {c} /\ pending' = pending \ {c}
    BY <1>9 DEF Ripen, Register, EntriesInv, EntryInv, FallTypeOK
  <2>2. ~In(c, due) /\ ~Held(c)
    BY <1>9 DEF Ripen, Register, EntriesInv, EntryInv, ApartInv
  <2>3. Once(due') /\ \A b : In(b, due') <=> In(b, due) \/ b = c
    BY <2>1, <2>2, Appending DEF EntriesInv, ApartInv, FallTypeOK
  <2>4. \A b \in Boxes : Held(b)' <=> Held(b)
    BY <2>1 DEF Held
  <2>5. QED
    BY <2>1, <2>2, <2>3, <2>4 DEF EntriesInv, HandsInv, ApartInv, EntryInv
<1>10. ASSUME NEW b \in Boxes, ReadStep(b) \/ Remove(b) PROVE EntriesInv'
  <2>1. HandsInv'
    BY <1>10 DEF ReadStep, Remove, EntriesInv, HandsInv
  <2>2. QED
    BY <1>1, <1>10, <2>1 DEF ReadStep, Remove
<1>11. QED
  BY <1>2, <1>3, <1>4, <1>5, <1>7, <1>8, <1>9, <1>10, Zenon DEF FallNext, Run

-----------------------------------------------------------------------------
(* The theorem.                                                            *)

\* No box is registered at first.
LEMMA FallInitially == FallInit => FallIInv
<1> SUFFICES ASSUME FallInit PROVE FallIInv
  OBVIOUS
<1>1. /\ wakeup \in BOOLEAN /\ delay \in [Workers -> BOOLEAN]
  BY Zenon DEF FallInit
<1>2. FallTypeOK
  BY <1>1 DEF FallInit, FallTypeOK, WorkerPC, Reading
<1>3. HandsInv
  BY DEF FallInit, HandsInv
<1>4. ApartInv /\ EntryInv
  BY FallAssumption DEF FallInit, ApartInv, EntryInv, Held, In, Once
<1>5. QED
  BY <1>2, <1>3, <1>4 DEF FallIInv

\* A step that changes nothing keeps the invariant.
LEMMA FallStutter == FallIInv /\ UNCHANGED fallVars => FallIInv'
BY DEF FallIInv, FallTypeOK, HandsInv, ApartInv, EntryInv, Held, In, Once, fallVars, heap, callers

\* The scheduler's inductive invariant: its entries and its workers' hands share no box.
THEOREM FallInvariance == FallSpec => []FallIInv
<1>1. FallIInv /\ FallNext => FallIInv'
  BY FallTypeStep, EntriesStep, Zenon DEF FallIInv, EntriesInv
<1>2. QED
  BY <1>1, FallInitially, FallStutter, PTL DEF FallSpec

\* Disjoint entries are counted once.
LEMMA Counting ==
    ASSUME FallTypeOK, ApartInv, NEW b \in Boxes
    PROVE  Occurrences(b) = IF In(b, due) \/ b \in pending \/ Held(b) THEN 1 ELSE 0
<1> DEFINE D == {i \in DOMAIN due : due[i] = b}
           J == {w \in Workers : job[w] = b}
           P == IF b \in pending THEN 1 ELSE 0
<1>1. Cardinality(D) = IF In(b, due) THEN 1 ELSE 0
  <2>1. CASE In(b, due)
    <3>1. PICK i \in DOMAIN due : due[i] = b
      BY <2>1 DEF In
    <3>2. D = {i}
      BY <3>1 DEF ApartInv, Once
    <3> HIDE DEF D
    <3>3. QED
      BY <2>1, <3>2, FS_Singleton
  <2>2. CASE ~In(b, due)
    <3>1. D = {}
      BY <2>2 DEF In
    <3> HIDE DEF D
    <3>2. QED
      BY <2>2, <3>1, FS_EmptySet
  <2>3. QED
    BY <2>1, <2>2
<1>2. Cardinality(J) = IF Held(b) THEN 1 ELSE 0
  <2>1. CASE Held(b)
    <3>1. PICK w \in Workers : job[w] = b
      BY <2>1 DEF Held
    <3>2. J = {w}
      BY <3>1, FallAssumption DEF ApartInv
    <3> HIDE DEF J
    <3>3. QED
      BY <2>1, <3>2, FS_Singleton
  <2>2. CASE ~Held(b)
    <3>1. J = {}
      BY <2>2 DEF Held
    <3> HIDE DEF J
    <3>2. QED
      BY <2>2, <3>1, FS_EmptySet
  <2>3. QED
    BY <2>1, <2>2
<1>3. Occurrences(b) = Cardinality(D) + P + Cardinality(J)
  BY DEF Occurrences
<1>4. /\ In(b, due) => b \notin pending /\ ~Held(b)
      /\ b \in pending => ~Held(b)
  BY DEF ApartInv
<1> HIDE DEF D, J
<1>5. QED
  BY <1>1, <1>2, <1>3, <1>4

\* _run of several workers on one heap: two workers never have one box at a time, and
\* a box that is neither removed nor failed is never lost.
THEOREM EachBoxHasOneEntry == FallSpec => []OneEntryPerBox
<1>1. FallIInv => OneEntryPerBox
  BY Counting DEF FallIInv, EntryInv, OneEntryPerBox
<1>2. QED
  BY <1>1, FallInvariance, PTL
=============================================================================
