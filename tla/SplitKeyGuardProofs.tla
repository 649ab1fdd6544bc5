------------------------- MODULE SplitKeyGuardProofs -------------------------
(***************************************************************************)
(* Proofs about SplitKeyGuard, for every length of the key, every set of   *)
(* keys and any number of workers and readers.                             *)
(***************************************************************************)
EXTENDS SplitKeyGuard, TLAPS

\* Who is inside the guard's lock.
LockInv ==
    /\ \A w \in Workers : lock = w <=> wpc[w] = "copied"
    /\ \A r \in Readers : lock = r <=> rpc[r] = "reading"
    /\ lock = "updater" <=> upc = "writing"

\* A worker between pop and push has a cell.
JobInv == \A w \in Workers : wpc[w] # "idle" => job[w] \in Cell

\* collapse() marks the guard before it closes a page, closes the first cell first,
\* and no bounce is in flight at the mark or starts after it.
CollapseInv ==
    /\ cpc = "idle" <=> ~removed
    /\ cpc = "closing" => cpos < NumCells
    /\ cpc = "idle" => cpos = 0
    /\ closed # {} => removed /\ 0 \in closed
    /\ closed = {} => cpos = 0
    /\ removed => \A w \in Workers : wpc[w] # "copied"

\* The active pages hold the key, or during an update() the part of the new one that
\* is written; an update() that raised leaves a torn key, behind a closed cell.
KeyInv ==
    /\ upc \in {"new", "idle"} => \A c \in Cell : ByteOf(c) = key
    /\ upc = "writing" =>
         \A c \in Cell : ByteOf(c) = IF c < upos THEN newKey ELSE key
    /\ upc = "error" => 0 \in closed

\* Between the two halves of a bounce both pages hold the byte.
BounceInv ==
    \A w \in Workers : wpc[w] = "copied" => pageA[job[w]] = pageB[job[w]]

\* What a reader has read is of one key.
ReadInv ==
    \A r \in Readers :
        /\ rpc[r] = "reading" =>
             /\ \A c \in Cell : c < rpos[r] => bytes[r][c] = key
             /\ upc = "error" => rpos[r] = 0
        /\ rpc[r] = "done" => \E k \in Keys : bytes[r] = [c \in Cell |-> k]

IInv ==
    TypeOK /\ LockInv /\ JobInv /\ CollapseInv /\ KeyInv /\ BounceInv /\ ReadInv

-----------------------------------------------------------------------------
(* Steps.                                                                  *)

\* Every step keeps the types.
LEMMA TypeStep ==
    ASSUME TypeOK, JobInv, CollapseInv, Next
    PROVE  TypeOK'
<1> USE ConstantsAssumption DEF TypeOK, Byte, pages, work, read, upd, coll
<1>1. CASE Register
  BY <1>1 DEF Register
<1>2. ASSUME NEW w \in Workers, EnsureStarted(w) PROVE TypeOK'
  BY <1>2 DEF EnsureStarted
<1>3. ASSUME NEW w \in Workers, Pop(w) PROVE TypeOK'
  BY <1>3 DEF Pop
<1>4. ASSUME NEW w \in Workers, DropCell(w) PROVE TypeOK'
  BY <1>4 DEF DropCell
<1>5. ASSUME NEW w \in Workers, BounceLock(w) PROVE TypeOK'
  <2>1. job[w] \in Cell
    BY <1>5 DEF BounceLock, JobInv
  <2>2. pageA' \in [Cell -> Byte] /\ pageB' \in [Cell -> Byte]
    BY <1>5, <2>1 DEF BounceLock
  <2>3. QED
    BY <1>5, <2>2 DEF BounceLock
<1>6. ASSUME NEW w \in Workers, BounceFlip(w) PROVE TypeOK'
  BY <1>6 DEF BounceFlip
<1>7. ASSUME NEW w \in Workers, Repush(w) PROVE TypeOK'
  BY <1>7 DEF Repush, JobInv
<1>8. ASSUME NEW r \in Readers, ReconstructBegin(r) PROVE TypeOK'
  BY <1>8 DEF ReconstructBegin
<1>9. ASSUME NEW r \in Readers, ReadCell(r) PROVE TypeOK'
  <2>1. rpos[r] \in Cell /\ ByteOf(rpos[r]) \in Byte
    BY <1>9 DEF ReadCell, ByteOf, Cell
  <2>2. bytes' \in [Readers -> [Cell -> Byte]]
    BY <1>9, <2>1 DEF ReadCell
  <2>3. rpos' \in [Readers -> 0 .. NumCells]
    BY <1>9 DEF ReadCell
  <2>4. QED
    BY <1>9, <2>2, <2>3 DEF ReadCell
<1>10. ASSUME NEW r \in Readers, ReadCellRaises(r) PROVE TypeOK'
  BY <1>10 DEF ReadCellRaises
<1>11. ASSUME NEW r \in Readers, ReconstructEnd(r) PROVE TypeOK'
  BY <1>11 DEF ReconstructEnd
<1>12. CASE UpdateBegin
  BY <1>12 DEF UpdateBegin
<1>13. CASE WriteCell
  <2>1. pageA' \in [Cell -> Byte] /\ pageB' \in [Cell -> Byte]
    BY <1>13 DEF WriteCell
  <2>2. QED
    BY <1>13, <2>1 DEF WriteCell
<1>14. CASE WriteCellRaises
  BY <1>14 DEF WriteCellRaises
<1>15. CASE UpdateEnd
  BY <1>15 DEF UpdateEnd
<1>16. CASE CollapseMark
  BY <1>16, Zenon DEF CollapseMark
<1>17. CASE CloseCell
  BY <1>17 DEF CloseCell, CollapseInv, Cell
<1>18. QED
  BY <1>1, <1>2, <1>3, <1>4, <1>5, <1>6, <1>7, <1>8, <1>9, <1>10, <1>11, <1>12, <1>13, <1>14,
     <1>15, <1>16, <1>17, Zenon
  DEF Next, Work, Reconstruct, Update, Collapse

\* Nobody is inside the lock while it is free, or while another is.
LEMMA LockStep ==
    ASSUME TypeOK, LockInv, Next
    PROVE  LockInv'
<1> USE ConstantsAssumption DEF TypeOK, LockInv, pages, work, read, upd, coll
<1>1. CASE Register
  BY <1>1 DEF Register
<1>2. ASSUME NEW w \in Workers, EnsureStarted(w) PROVE LockInv'
  BY <1>2 DEF EnsureStarted
<1>3. ASSUME NEW w \in Workers, Pop(w) PROVE LockInv'
  BY <1>3 DEF Pop
<1>4. ASSUME NEW w \in Workers, DropCell(w) PROVE LockInv'
  BY <1>4 DEF DropCell
<1>5. ASSUME NEW w \in Workers, BounceLock(w) PROVE LockInv'
  BY <1>5 DEF BounceLock
<1>6. ASSUME NEW w \in Workers, BounceFlip(w) PROVE LockInv'
  BY <1>6 DEF BounceFlip
<1>7. ASSUME NEW w \in Workers, Repush(w) PROVE LockInv'
  BY <1>7 DEF Repush
<1>8. ASSUME NEW r \in Readers, ReconstructBegin(r) PROVE LockInv'
  BY <1>8 DEF ReconstructBegin
<1>9. ASSUME NEW r \in Readers, ReadCell(r) PROVE LockInv'
  BY <1>9 DEF ReadCell
<1>10. ASSUME NEW r \in Readers, ReadCellRaises(r) \/ ReconstructEnd(r) PROVE LockInv'
  BY <1>10, ZenonT(30) DEF ReadCellRaises, ReconstructEnd
<1>11. CASE UpdateBegin
  BY <1>11 DEF UpdateBegin
<1>12. CASE WriteCell
  BY <1>12 DEF WriteCell
<1>13. CASE WriteCellRaises \/ UpdateEnd
  BY <1>13 DEF WriteCellRaises, UpdateEnd
<1>14. CASE Collapse
  BY <1>14 DEF Collapse, CollapseMark, CloseCell
<1>15. QED
  BY <1>1, <1>2, <1>3, <1>4, <1>5, <1>6, <1>7, <1>8, <1>9, <1>10, <1>11, <1>12, <1>13, <1>14,
     Zenon
  DEF Next, Work, Reconstruct, Update

\* A worker has a cell in hand from the pop to the push.
LEMMA JobStep ==
    ASSUME TypeOK, JobInv, Next
    PROVE  JobInv'
<1> USE DEF TypeOK, JobInv, work
<1>1. ASSUME NEW w \in Workers, Work(w) PROVE JobInv'
  BY <1>1 DEF Work, Pop, DropCell, BounceLock, BounceFlip, Repush
<1>2. CASE UNCHANGED <<wpc, job>>
  BY <1>2
<1>3. UNCHANGED <<wpc, job>> \/ \E w \in Workers : Work(w)
  BY DEF Next, Register, EnsureStarted, ReconstructBegin, Reconstruct, ReadCell,
         ReadCellRaises, ReconstructEnd, UpdateBegin, Update, WriteCell, WriteCellRaises,
         UpdateEnd, Collapse, CollapseMark, CloseCell
<1>4. QED
  BY <1>1, <1>2, <1>3

\* collapse() marks the guard, then closes its pages from the first on, with no bounce in flight.
LEMMA CollapseStep ==
    ASSUME TypeOK, LockInv, CollapseInv, Next
    PROVE  CollapseInv'
<1> USE ConstantsAssumption DEF TypeOK, CollapseInv, coll
<1>1. ASSUME NEW w \in Workers, Work(w) PROVE CollapseInv'
  <2>1. UNCHANGED coll
    BY <1>1 DEF Work, Pop, DropCell, BounceLock, BounceFlip, Repush
  <2>2. \A v \in Workers : wpc'[v] = "copied" => wpc[v] = "copied" \/ ~removed
    BY <1>1 DEF Work, Pop, DropCell, BounceLock, BounceFlip, Repush
  <2>3. QED
    BY <2>1, <2>2
<1>2. CASE CollapseMark
  BY <1>2 DEF CollapseMark, LockInv, work
<1>3. CASE CloseCell
  <2>1. wpc' = wpc /\ removed' = removed
    BY <1>3 DEF CloseCell, work
  <2>2. 0 \in closed'
    BY <1>3 DEF CloseCell
  <2>3. QED
    BY <1>3, <2>1, <2>2 DEF CloseCell
<1>4. CASE UNCHANGED <<coll, wpc>>
  BY <1>4
<1>5. UNCHANGED <<coll, wpc>> \/ CollapseMark \/ CloseCell \/ \E w \in Workers : Work(w)
  BY DEF Next, Register, EnsureStarted, ReconstructBegin, Reconstruct, ReadCell,
         ReadCellRaises, ReconstructEnd, UpdateBegin, Update, WriteCell, WriteCellRaises,
         UpdateEnd, Collapse, work
<1>6. QED
  BY <1>1, <1>2, <1>3, <1>4, <1>5

\* A bounce gives no cell another byte: it copies to the page that is not active, and
\* makes that one active when both hold the same.
LEMMA BouncesKeepBytes ==
    ASSUME TypeOK, JobInv, BounceInv, NEW w \in Workers, BounceLock(w) \/ BounceFlip(w)
    PROVE  \A c \in Cell : ByteOf(c)' = ByteOf(c)
<1> SUFFICES ASSUME NEW c \in Cell PROVE ByteOf(c)' = ByteOf(c)
  OBVIOUS
<1>1. CASE BounceLock(w)
  BY <1>1 DEF BounceLock, ByteOf, TypeOK
<1>2. CASE BounceFlip(w)
  <2>1. /\ active'[c] = IF c # job[w] THEN active[c] ELSE IF active[c] = "a" THEN "b" ELSE "a"
        /\ pageA' = pageA /\ pageB' = pageB /\ (c = job[w] => pageA[c] = pageB[c])
    BY <1>2 DEF BounceFlip, BounceInv, TypeOK
  <2>2. QED
    BY <2>1 DEF ByteOf, TypeOK
<1>3. QED
  BY <1>1, <1>2

\* Between the two halves of a bounce nobody writes to its cell.
LEMMA BounceStep ==
    ASSUME TypeOK, LockInv, JobInv, BounceInv, Next
    PROVE  BounceInv'
<1> USE ConstantsAssumption DEF pages, work
<1>1. ASSUME NEW w \in Workers, BounceLock(w) PROVE BounceInv'
  <2>1. job' = job /\ \A v \in Workers : wpc'[v] = "copied" => v = w
    BY <1>1 DEF BounceLock, LockInv, TypeOK
  <2>2. pageA'[job[w]] = pageB'[job[w]]
    <3>1. job[w] \in Cell
      BY <1>1 DEF BounceLock, JobInv
    <3>2. QED
      BY <1>1, <3>1 DEF BounceLock, TypeOK
  <2>3. QED
    BY <2>1, <2>2 DEF BounceInv
<1>2. ASSUME NEW w \in Workers, EnsureStarted(w) \/ Pop(w) \/ DropCell(w) \/ BounceFlip(w)
                                \/ Repush(w)
      PROVE  BounceInv'
  <2>1. /\ UNCHANGED <<pageA, pageB>>
        /\ \A v \in Workers : wpc'[v] = "copied" => wpc[v] = "copied" /\ job'[v] = job[v]
    BY <1>2 DEF EnsureStarted, Pop, DropCell, BounceFlip, Repush, TypeOK
  <2>2. QED
    BY <2>1 DEF BounceInv
<1>3. CASE WriteCell
  <2>1. wpc' = wpc /\ \A v \in Workers : wpc[v] # "copied"
    BY <1>3 DEF WriteCell, LockInv
  <2>2. QED
    BY <2>1 DEF BounceInv
<1>4. CASE UNCHANGED <<pages, wpc, job>>
  BY <1>4 DEF BounceInv
<1>5. UNCHANGED <<pages, wpc, job>> \/ WriteCell
      \/ \E w \in Workers : EnsureStarted(w) \/ Work(w)
  BY DEF Next, Register, ReconstructBegin, Reconstruct, ReadCell, ReadCellRaises,
         ReconstructEnd, UpdateBegin, Update, WriteCellRaises, UpdateEnd, Collapse,
         CollapseMark, CloseCell
<1>6. QED
  BY <1>1, <1>2, <1>3, <1>4, <1>5 DEF Work

\* update() writes the new key cell by cell; nothing else gives a cell another byte.
LEMMA KeyStep ==
    ASSUME TypeOK, LockInv, JobInv, CollapseInv, BounceInv, KeyInv, Next
    PROVE  KeyInv'
<1> USE ConstantsAssumption DEF pages, work, read, upd, coll
<1>1. ASSUME NEW w \in Workers, BounceLock(w) \/ BounceFlip(w) PROVE KeyInv'
  <2>1. UNCHANGED <<upd, closed>>
    BY <1>1 DEF BounceLock, BounceFlip
  <2>2. QED
    BY <1>1, <2>1, BouncesKeepBytes DEF KeyInv
<1>2. CASE Register
  BY <1>2 DEF Register, KeyInv, ByteOf
<1>3. CASE UpdateBegin
  <2>1. upc = "idle" /\ upc' = "writing" /\ upos' = 0 /\ key' = key
        /\ \A c \in Cell : ByteOf(c)' = ByteOf(c)
    BY <1>3 DEF UpdateBegin, ByteOf
  <2>2. QED
    BY <2>1 DEF KeyInv, Cell
<1>4. CASE WriteCell
  <2>1. /\ upc = "writing" /\ upc' = upc /\ upos' = upos + 1 /\ key' = key /\ newKey' = newKey
        /\ upos \in Cell
    BY <1>4 DEF WriteCell, TypeOK, Cell
  <2>2. ASSUME NEW c \in Cell
        PROVE  ByteOf(c)' = IF c = upos THEN newKey ELSE ByteOf(c)
    BY <1>4, <2>1, <2>2 DEF WriteCell, ByteOf, TypeOK
  <2>3. ASSUME NEW c \in Cell
        PROVE  ByteOf(c)' = IF c < upos' THEN newKey' ELSE key'
    <3>1. ByteOf(c) = IF c < upos THEN newKey ELSE key
      BY <2>1 DEF KeyInv
    <3>2. c \in Nat /\ upos \in Nat
      BY <2>1 DEF Cell
    <3>3. QED
      BY <2>1, <2>2, <3>1, <3>2
  <2>4. QED
    BY <2>1, <2>3 DEF KeyInv
<1>5. CASE WriteCellRaises
  BY <1>5 DEF WriteCellRaises, KeyInv, CollapseInv
<1>6. CASE UpdateEnd
  <2>1. /\ upc = "writing" /\ upos = NumCells /\ upc' = "idle" /\ key' = newKey
        /\ \A c \in Cell : ByteOf(c)' = ByteOf(c)
    BY <1>6 DEF UpdateEnd, ByteOf
  <2>2. \A c \in Cell : c < NumCells
    BY DEF Cell
  <2>3. QED
    BY <2>1, <2>2 DEF KeyInv
<1>7. CASE CloseCell
  BY <1>7 DEF CloseCell, KeyInv, ByteOf
<1>8. CASE UNCHANGED <<pages, upd, closed>>
  BY <1>8 DEF KeyInv, ByteOf
<1>9. \/ UNCHANGED <<pages, upd, closed>> \/ Register \/ UpdateBegin \/ Update \/ CloseCell
      \/ \E w \in Workers : BounceLock(w) \/ BounceFlip(w)
  BY DEF Next, EnsureStarted, Work, Pop, DropCell, Repush, ReconstructBegin, Reconstruct,
         ReadCell, ReadCellRaises, ReconstructEnd, Collapse, CollapseMark
<1>10. QED
  BY <1>1, <1>2, <1>3, <1>4, <1>5, <1>6, <1>7, <1>8, <1>9 DEF Update

\* What a reader has read is of one key, whatever bounces and updates do meanwhile.
LEMMA ReadStep ==
    ASSUME TypeOK, LockInv, CollapseInv, KeyInv, ReadInv, Next
    PROVE  ReadInv'
<1> USE ConstantsAssumption DEF pages, work, read, upd, coll
<1> DEFINE Fine(r) ==
      /\ rpc[r] = "reading" =>
           /\ \A c \in Cell : c < rpos[r] => bytes[r][c] = key
           /\ upc = "error" => rpos[r] = 0
      /\ rpc[r] = "done" => \E k \in Keys : bytes[r] = [c \in Cell |-> k]
<1>1. ASSUME NEW r \in Readers, ReconstructBegin(r) PROVE ReadInv'
  <2>1. UNCHANGED upd /\ rpos'[r] = 0 /\ rpc'[r] = "reading"
    BY <1>1 DEF ReconstructBegin, TypeOK
  <2>2. Fine(r)'
    BY <2>1 DEF Cell
  <2>3. ASSUME NEW q \in Readers, q # r PROVE UNCHANGED <<rpc[q], rpos[q], bytes[q]>>
    BY <1>1, <2>3 DEF ReconstructBegin, TypeOK
  <2>4. QED
    BY <2>1, <2>2, <2>3 DEF ReadInv
<1>2. ASSUME NEW r \in Readers, ReadCell(r) PROVE ReadInv'
  <2>1. /\ UNCHANGED <<upd, rpc>> /\ rpc[r] = "reading" /\ rpos[r] \in Cell
        /\ rpos'[r] = rpos[r] + 1
        /\ bytes'[r] = [bytes[r] EXCEPT ![rpos[r]] = ByteOf(rpos[r])]
        /\ bytes[r] \in [Cell -> Byte]
    BY <1>2 DEF ReadCell, TypeOK, Cell
  <2>2. upc # "writing" /\ upc # "error"
    <3>1. lock = r
      BY <2>1 DEF LockInv
    <3>2. upc # "writing"
      BY <3>1 DEF LockInv
    <3>3. upc = "error" => rpos[r] = 0 /\ 0 \in closed
      BY <2>1 DEF ReadInv, KeyInv
    <3>4. QED
      BY <1>2, <3>2, <3>3 DEF ReadCell
  <2>3. ByteOf(rpos[r]) = key
    BY <2>1, <2>2 DEF KeyInv, TypeOK
  <2>4. \A c \in Cell : c < rpos'[r] => bytes'[r][c] = key'
    <3> SUFFICES ASSUME NEW c \in Cell, c < rpos[r] + 1 PROVE bytes'[r][c] = key
      BY <2>1
    <3>1. c \in Nat /\ rpos[r] \in Nat
      BY <2>1 DEF Cell
    <3>2. c < rpos[r] => bytes[r][c] = key
      BY <2>1 DEF ReadInv
    <3>3. QED
      BY <2>1, <2>3, <3>1, <3>2
  <2>5. Fine(r)'
    BY <2>1, <2>2, <2>4
  <2>6. ASSUME NEW q \in Readers, q # r PROVE UNCHANGED <<rpc[q], rpos[q], bytes[q]>>
    BY <1>2, <2>6 DEF ReadCell, TypeOK
  <2>7. QED
    BY <2>1, <2>5, <2>6 DEF ReadInv
<1>3. ASSUME NEW r \in Readers, ReadCellRaises(r) PROVE ReadInv'
  BY <1>3 DEF ReadCellRaises, ReadInv, TypeOK
<1>4. ASSUME NEW r \in Readers, ReconstructEnd(r) PROVE ReadInv'
  <2>1. /\ UNCHANGED <<upd, rpos, bytes>> /\ rpc[r] = "reading" /\ rpc'[r] = "done"
        /\ rpos[r] = NumCells /\ bytes[r] \in [Cell -> Byte] /\ key \in Keys
    BY <1>4 DEF ReconstructEnd, TypeOK
  <2>2. \A c \in Cell : bytes[r][c] = key
    <3>1. \A c \in Cell : c < NumCells
      BY DEF Cell
    <3>2. QED
      BY <2>1, <3>1 DEF ReadInv
  <2>3. bytes[r] = [c \in Cell |-> key]
    BY <2>1, <2>2
  <2>4. ASSUME NEW q \in Readers, q # r PROVE rpc'[q] = rpc[q]
    BY <1>4, <2>4 DEF ReconstructEnd, TypeOK
  <2>5. QED
    BY <2>1, <2>3, <2>4 DEF ReadInv
<1>5. CASE UpdateBegin \/ WriteCell
  BY <1>5 DEF UpdateBegin, WriteCell, ReadInv
<1>6. CASE WriteCellRaises \/ UpdateEnd
  <2>1. UNCHANGED read /\ \A r \in Readers : rpc[r] # "reading"
    BY <1>6 DEF WriteCellRaises, UpdateEnd, LockInv
  <2>2. QED
    BY <2>1 DEF ReadInv
<1>7. CASE UNCHANGED <<read, key, upc>> \/ Register
  BY <1>7 DEF Register, ReadInv
<1>8. \/ UNCHANGED <<read, key, upc>> \/ Register \/ UpdateBegin \/ Update
      \/ \E r \in Readers : ReconstructBegin(r) \/ Reconstruct(r)
  BY DEF Next, EnsureStarted, Work, Pop, DropCell, BounceLock, BounceFlip, Repush, Collapse,
         CollapseMark, CloseCell
<1>9. QED
  BY <1>1, <1>2, <1>3, <1>4, <1>5, <1>6, <1>7, <1>8 DEF Update, Reconstruct

-----------------------------------------------------------------------------
(* The theorems.                                                           *)

\* A new guard has its key in all cells and no worker at any.
LEMMA Initially == Init => IInv
<1> SUFFICES ASSUME Init PROVE IInv
  OBVIOUS
<1>1. removed = FALSE
  BY DEF Init
<1>2. TypeOK
  <2>1. removed \in BOOLEAN
    BY <1>1, Zenon
  <2>2. QED
    BY <2>1, ConstantsAssumption DEF Init, TypeOK, Byte, Cell
<1>3. LockInv /\ JobInv
  BY ConstantsAssumption DEF Init, LockInv, JobInv
<1>4. CollapseInv
  BY <1>1, ConstantsAssumption DEF Init, CollapseInv
<1>5. KeyInv /\ BounceInv /\ ReadInv
  BY DEF Init, KeyInv, BounceInv, ReadInv, ByteOf
<1>6. QED
  BY <1>2, <1>3, <1>4, <1>5 DEF IInv

\* A step that changes nothing keeps the invariant.
LEMMA Stutter == IInv /\ UNCHANGED vars => IInv'
BY DEF IInv, TypeOK, LockInv, JobInv, CollapseInv, KeyInv, BounceInv, ReadInv, ByteOf, vars,
       pages, work, read, upd, coll

\* The guard's inductive invariant: the lock, the two halves of a bounce and what readers
\* and update() have done so far.
THEOREM Invariance == Spec => []IInv
<1>1. IInv /\ Next => IInv'
  BY TypeStep, LockStep, JobStep, CollapseStep, KeyStep, BounceStep, ReadStep, Zenon DEF IInv
<1>2. QED
  BY <1>1, Initially, Stutter, PTL DEF Spec

\* reconstruct(), for every length of the key and any number of workers: it gives a whole
\* key, the one last written, or raises.
THEOREM ReconstructsAreWhole == Spec => []ReconstructsWholeKey
<1>1. IInv => ReconstructsWholeKey
  <2> SUFFICES ASSUME IInv, NEW r \in Readers, rpc[r] = "reading", rpos[r] = NumCells
               PROVE  bytes[r] = [c \in Cell |-> key]
    BY DEF IInv, ReadInv, ReconstructsWholeKey
  <2>1. \A c \in Cell : c < NumCells
    BY ConstantsAssumption DEF Cell
  <2>2. \A c \in Cell : bytes[r][c] = key
    BY <2>1 DEF IInv, ReadInv
  <2>3. bytes[r] \in [Cell -> Byte]
    BY DEF IInv, TypeOK
  <2>4. QED
    BY <2>2, <2>3
<1>2. QED
  BY <1>1, Invariance, PTL

\* collapse(): once a page is closed, no worker is between the two halves of a bounce.
THEOREM ClosedPagesRest == Spec => []NoBounceOnClosedPages
<1>1. IInv => NoBounceOnClosedPages
  BY DEF IInv, CollapseInv, NoBounceOnClosedPages
<1>2. QED
  BY <1>1, Invariance, PTL
==============================================================================
