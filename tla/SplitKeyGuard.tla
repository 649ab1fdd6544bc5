---------------------------- MODULE SplitKeyGuard ----------------------------
(***************************************************************************)
(* SplitKeyGuard and its share of _GlobalCellScheduler                     *)
(* (vstorage/split_key_guard.py).  A compressed key is spread over cells,  *)
(* one byte each; a cell is a pair of locked pages between which workers   *)
(* keep bouncing the byte.  reconstruct(), update(), bounce() and the      *)
(* removed mark of collapse() take the guard's lock; the closing of the    *)
(* pages does not.                                                         *)
(*                                                                         *)
(* A byte is named by the key it belongs to: byte i of key k is "k" in     *)
(* cell i.  A key is whole when every cell gives the same name.            *)
(***************************************************************************)
EXTENDS Naturals

CONSTANTS
    NumCells,  \* compressed_len
    Keys,      \* the keys that update() may write
    FirstKey,  \* the key of the constructor
    Blank,     \* what a fresh page holds
    Workers,   \* threads of the cell scheduler
    Readers,   \* threads in reconstruct()
    NoCell     \* no entry in a worker's hands

ASSUME ConstantsAssumption ==
    /\ NumCells \in Nat \ {0}
    /\ FirstKey \in Keys /\ Blank \notin Keys
    /\ Workers \cap Readers = {}
    /\ {"free", "updater"} \cap (Workers \cup Readers) = {}
    /\ NoCell \notin 0 .. NumCells

VARIABLES
    pageA, pageB,  \* _page_a, _page_b of each cell
    active,        \* _active of each cell
    closed,        \* cells whose pages are closed
    lock,          \* owner of the guard's _lock
    removed,       \* _removed
    started,       \* workers in the scheduler's _threads
    heap,          \* cells with an entry in the scheduler's heap
    wpc, job,      \* each worker: where it is, and its cell
    rpc, rpos,     \* each reader: where it is, and how many cells it has read
    bytes,         \* the bytes it has read
    upc, upos,     \* update(): where it is, and how many cells it has written
    newKey,        \* its argument
    key,           \* the key of the last constructor or update() to finish
    cpc, cpos      \* collapse(): where it is, and how many cells it has closed

pages == <<pageA, pageB, active>>
work  == <<started, wpc, job>>
read  == <<rpc, rpos, bytes>>
upd   == <<upc, upos, newKey, key>>
coll  == <<closed, removed, cpc, cpos>>
vars  == <<pages, lock, heap, work, read, upd, coll>>

\* One cell per byte of the key, each with its own two pages.
Cell == 0 .. NumCells - 1
Byte == Keys \cup {Blank}

TypeOK ==
    /\ pageA \in [Cell -> Byte] /\ pageB \in [Cell -> Byte]
    /\ active \in [Cell -> {"a", "b"}]
    /\ closed \subseteq Cell
    /\ lock \in Workers \cup Readers \cup {"free", "updater"}
    /\ removed \in BOOLEAN
    /\ started \subseteq Workers /\ heap \subseteq Cell
    /\ wpc \in [Workers -> {"idle", "popped", "copied", "repush"}]
    /\ job \in [Workers -> Cell \cup {NoCell}]
    /\ rpc \in [Readers -> {"idle", "reading", "done", "error"}]
    /\ rpos \in [Readers -> 0 .. NumCells]
    /\ bytes \in [Readers -> [Cell -> Byte]]
    /\ upc \in {"new", "idle", "writing", "error"}
    /\ upos \in 0 .. NumCells
    /\ newKey \in Keys /\ key \in Keys
    /\ cpc \in {"idle", "closing", "done"}
    /\ cpos \in 0 .. NumCells

Init ==
    /\ pageA = [c \in Cell |-> FirstKey]
    /\ pageB = [c \in Cell |-> Blank]
    /\ active = [c \in Cell |-> "a"]
    /\ closed = {} /\ lock = "free" /\ removed = FALSE
    /\ started = {} /\ heap = {}
    /\ wpc = [w \in Workers |-> "idle"]
    /\ job = [w \in Workers |-> NoCell]
    /\ rpc = [r \in Readers |-> "idle"]
    /\ rpos = [r \in Readers |-> 0]
    /\ bytes = [r \in Readers |-> [c \in Cell |-> Blank]]
    /\ upc = "new" /\ upos = 0 /\ newKey = FirstKey /\ key = FirstKey
    /\ cpc = "idle" /\ cpos = 0

-----------------------------------------------------------------------------
(* The cell scheduler's workers.                                           *)

\* The first register() starts the threads, under the scheduler's lock; another guard's
\* constructor that finds one of them already there does not wait for the rest.
EnsureStarted(w) ==
    /\ w \notin started
    /\ started' = started \cup {w}
    /\ UNCHANGED <<pages, lock, heap, wpc, job, read, upd, coll>>

\* The end of the constructor: an entry for every cell, before any caller has the guard.
Register ==
    /\ upc = "new" /\ started # {}
    /\ heap' = Cell /\ upc' = "idle"
    /\ UNCHANGED <<pages, lock, work, read, upos, newKey, key, coll>>

\* Any cell's randomly drawn time may be the next one to come.
Pop(w) ==
    /\ w \in started /\ wpc[w] = "idle"
    /\ \E c \in heap :
         /\ heap' = heap \ {c}
         /\ job' = [job EXCEPT ![w] = c]
    /\ wpc' = [wpc EXCEPT ![w] = "popped"]
    /\ UNCHANGED <<pages, lock, started, read, upd, coll>>

\* Mutant of DropCell: the entry of a removed guard goes back on the heap.
RepushRemoved(w) ==
    /\ wpc[w] = "popped" /\ lock = "free" /\ removed
    /\ wpc' = [wpc EXCEPT ![w] = "repush"]
    /\ UNCHANGED <<pages, lock, heap, started, job, read, upd, coll>>

\* The guard is removed: the entry is not pushed back.
DropCell(w) ==
    /\ wpc[w] = "popped" /\ lock = "free" /\ removed
    /\ wpc' = [wpc EXCEPT ![w] = "idle"]
    /\ job' = [job EXCEPT ![w] = NoCell]
    /\ UNCHANGED <<pages, lock, heap, started, read, upd, coll>>

\* Mutant of BounceLock: the bounce does without the guard's lock.
BounceUnlocked(w) ==
    /\ wpc[w] = "popped" /\ ~removed
    /\ pageA' = IF active[job[w]] = "b" THEN [pageA EXCEPT ![job[w]] = pageB[job[w]]]
                                        ELSE pageA
    /\ pageB' = IF active[job[w]] = "a" THEN [pageB EXCEPT ![job[w]] = pageA[job[w]]]
                                        ELSE pageB
    /\ wpc' = [wpc EXCEPT ![w] = "copied"]
    /\ UNCHANGED <<active, lock, heap, started, job, read, upd, coll>>

\* bounce(), first half: copy the byte to the page that is not active.
BounceLock(w) ==
    /\ wpc[w] = "popped" /\ lock = "free" /\ ~removed
    /\ lock' = w
    /\ pageA' = IF active[job[w]] = "b" THEN [pageA EXCEPT ![job[w]] = pageB[job[w]]]
                                        ELSE pageA
    /\ pageB' = IF active[job[w]] = "a" THEN [pageB EXCEPT ![job[w]] = pageA[job[w]]]
                                        ELSE pageB
    /\ wpc' = [wpc EXCEPT ![w] = "copied"]
    /\ UNCHANGED <<active, heap, started, job, read, upd, coll>>

\* bounce(), second half: make that page the active one.
BounceFlip(w) ==
    /\ wpc[w] = "copied"
    /\ active' = [active EXCEPT ![job[w]] = IF @ = "a" THEN "b" ELSE "a"]
    /\ lock' = "free"
    /\ wpc' = [wpc EXCEPT ![w] = "repush"]
    /\ UNCHANGED <<pageA, pageB, heap, started, job, read, upd, coll>>

Repush(w) ==
    /\ wpc[w] = "repush"
    /\ heap' = heap \cup {job[w]}
    /\ wpc' = [wpc EXCEPT ![w] = "idle"]
    /\ job' = [job EXCEPT ![w] = NoCell]
    /\ UNCHANGED <<pages, lock, started, read, upd, coll>>

\* An open page does not raise: the except branch of the loop is for memory that
\* somebody outside takes away.
Work(w) == Pop(w) \/ DropCell(w) \/ BounceLock(w) \/ BounceFlip(w) \/ Repush(w)

-----------------------------------------------------------------------------
(* reconstruct() and update().                                             *)

\* The cell's active page.
ByteOf(c) == IF active[c] = "a" THEN pageA[c] ELSE pageB[c]

ReconstructBegin(r) ==
    /\ upc # "new" /\ rpc[r] # "reading" /\ lock = "free"
    /\ lock' = r
    /\ rpc' = [rpc EXCEPT ![r] = "reading"]
    /\ rpos' = [rpos EXCEPT ![r] = 0]
    /\ bytes' = [bytes EXCEPT ![r] = [c \in Cell |-> Blank]]
    /\ UNCHANGED <<pages, heap, work, upd, coll>>

ReadCell(r) ==
    /\ rpc[r] = "reading" /\ rpos[r] < NumCells /\ rpos[r] \notin closed
    /\ bytes' = [bytes EXCEPT ![r] = [@ EXCEPT ![rpos[r]] = ByteOf(rpos[r])]]
    /\ rpos' = [rpos EXCEPT ![r] = @ + 1]
    /\ UNCHANGED <<pages, lock, heap, work, rpc, upd, coll>>

\* A closed page raises ValueError.
ReadCellRaises(r) ==
    /\ rpc[r] = "reading" /\ rpos[r] \in closed
    /\ lock' = "free"
    /\ rpc' = [rpc EXCEPT ![r] = "error"]
    /\ UNCHANGED <<pages, heap, work, rpos, bytes, upd, coll>>

ReconstructEnd(r) ==
    /\ rpc[r] = "reading" /\ rpos[r] = NumCells
    /\ lock' = "free"
    /\ rpc' = [rpc EXCEPT ![r] = "done"]
    /\ UNCHANGED <<pages, heap, work, rpos, bytes, upd, coll>>

Reconstruct(r) == ReadCell(r) \/ ReadCellRaises(r) \/ ReconstructEnd(r)

\* Every compressed AES key has one length, so update() never returns early.
UpdateBegin ==
    /\ upc = "idle" /\ lock = "free"
    /\ lock' = "updater"
    /\ upc' = "writing" /\ upos' = 0
    /\ newKey' \in Keys
    /\ UNCHANGED <<pages, heap, work, read, key, coll>>

WriteCell ==
    /\ upc = "writing" /\ upos < NumCells /\ upos \notin closed
    /\ pageA' = IF active[upos] = "a" THEN [pageA EXCEPT ![upos] = newKey] ELSE pageA
    /\ pageB' = IF active[upos] = "b" THEN [pageB EXCEPT ![upos] = newKey] ELSE pageB
    /\ upos' = upos + 1
    /\ UNCHANGED <<active, lock, heap, work, read, upc, newKey, key, coll>>

WriteCellRaises ==
    /\ upc = "writing" /\ upos \in closed
    /\ lock' = "free"
    /\ upc' = "error"
    /\ UNCHANGED <<pages, heap, work, read, upos, newKey, key, coll>>

UpdateEnd ==
    /\ upc = "writing" /\ upos = NumCells
    /\ lock' = "free"
    /\ upc' = "idle"
    /\ key' = newKey
    /\ UNCHANGED <<pages, heap, work, read, upos, newKey, coll>>

Update == WriteCell \/ WriteCellRaises \/ UpdateEnd

-----------------------------------------------------------------------------
(* collapse().                                                             *)

\* Mutant of CollapseMark: the mark is set without the guard's lock.
CollapseMarkUnlocked ==
    /\ upc # "new" /\ cpc = "idle"
    /\ removed' = TRUE
    /\ cpc' = "closing"
    /\ UNCHANGED <<pages, lock, heap, work, read, upd, closed, cpos>>

CollapseMark ==
    /\ upc # "new" /\ cpc = "idle" /\ lock = "free"
    /\ removed' = TRUE
    /\ cpc' = "closing"
    /\ UNCHANGED <<pages, lock, heap, work, read, upd, closed, cpos>>

CloseCell ==
    /\ cpc = "closing"
    /\ closed' = closed \cup {cpos}
    /\ cpos' = cpos + 1
    /\ cpc' = IF cpos + 1 = NumCells THEN "done" ELSE "closing"
    /\ UNCHANGED <<pages, lock, heap, work, read, upd, removed>>

Collapse == CollapseMark \/ CloseCell

Next ==
    \/ Register
    \/ \E w \in Workers : EnsureStarted(w) \/ Work(w)
    \/ \E r \in Readers : ReconstructBegin(r) \/ Reconstruct(r)
    \/ UpdateBegin \/ Update
    \/ Collapse

Spec == Init /\ [][Next]_vars

\* The scheduler's threads run, and so does a call that is under way.
FairSpec ==
    /\ Spec
    /\ \A w \in Workers : WF_vars(Work(w))
    /\ \A r \in Readers : WF_vars(Reconstruct(r))
    /\ WF_vars(Update)
    /\ WF_vars(CloseCell)

-----------------------------------------------------------------------------
(* Properties.                                                             *)

\* reconstruct() gives a whole key, the one last written, or raises: neither a
\* bounce in flight nor an update() or a collapse() ever tears it.
ReconstructsWholeKey ==
    \A r \in Readers :
        /\ rpc[r] = "reading" /\ rpos[r] = NumCells =>
             bytes[r] = [c \in Cell |-> key]
        /\ rpc[r] = "done" => \E k \in Keys : bytes[r] = [c \in Cell |-> k]

\* "no bounce is either in flight or will start again afterward, before it
\* closes the underlying mmap pages": once a page is closed no worker is
\* between the two halves of a bounce.
NoBounceOnClosedPages ==
    /\ TypeOK
    /\ closed # {} => \A w \in Workers : wpc[w] # "copied"

\* A collapsed guard leaves the scheduler, so that nothing keeps it and its 88
\* page pairs alive: once callers stop locking it, every entry is dropped.
CollapsedGuardLeaves ==
    <>[](removed /\ lock \notin Readers \cup {"updater"}) =>
        <>[](heap = {} /\ \A w \in Workers : job[w] = NoCell)
=============================================================================
