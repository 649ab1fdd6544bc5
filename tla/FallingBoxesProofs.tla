-------------------------- MODULE FallingBoxesProofs --------------------------
(***************************************************************************)
(* Proofs about FallingBoxes, for all seven classes of boxes, any number   *)
(* of pieces, buffers, ports, keys and callers of snapshot().              *)
(***************************************************************************)
EXTENDS FallingBoxes, FiniteSetTheorems, SequenceTheorems, WellFoundedInduction, TLAPS

\* Where the thread is while it has the lock.
Hopping == {"read", "write", "zero", "turn", "seal", "land"}

\* _lock belongs to the hop, or to the snapshot() that reads.
LockInv ==
    /\ lock = "thread" <=> tpc \in Hopping
    /\ \A r \in Readers : lock = r <=> rpc[r] = "locked"

\* A collapse() sets the flag first; if its join() did not time out the thread has ended.
StopInv ==
    /\ stop <=> cpc # "no"
    /\ cpc \in {"first", "second", "done"} /\ ~timedOut => tpc = "ended"

\* Each class of box has its own steps of a hop; a loop stays within the pieces.
PlaceInv ==
    /\ tpc = "zero" => kind = "zeroing"
    /\ tpc \in {"turn", "seal"} => kind \in Ratcheting
    /\ tpc = "write" => kind # "ports"
    /\ kind \in Copying => /\ tpc = "write" => at <= Pieces
                           /\ tpc \in {"read", "zero"} => at <= Pieces + 1

\* What buffers and hand can hold, also of a box that is being dropped under the thread.
ShapeInv ==
    /\ kind \in Copying \ {"mapped"} => \A s \in Slots : bufs[s] \in Seq({0, 1})
    /\ kind = "mapped" => \A s \in Slots : bufs[s] \in {Closed, <<0>>, <<1>>}
    /\ kind \in Copying /\ tpc = "write" => held \in {<<>>, <<0>>, <<1>>}
    /\ kind \in Ratcheting =>
         (tpc = "write" \/ (kind = "combined" /\ tpc \in {"turn", "seal"}) =>
             \E k \in 0 .. NumKeys + 1 : held = <<k>>)
    /\ kind \notin Ratcheting => key = 0

\* The hop of a box of buffers that nobody collapses: the data stay where they are
\* active until the copy is complete.
CopyInv ==
    kind \in Copying /\ ~stop =>
        /\ \A s \in Slots : Len(bufs[s]) = Pieces
        /\ tpc # "zero" /\ ~(kind = "zeroing" /\ tpc = "land") => bufs[active] = Data
        /\ tpc \in {"zero", "land"} => bufs[Target] = Data
        /\ tpc \in {"read", "write"} => \A i \in 1 .. at - 1 : bufs[Target][i] = 1
        /\ tpc = "write" => held = <<1>>

\* Of a zeroing box the other buffer holds zeros between two hops.
ZeroInv ==
    kind = "zeroing" /\ ~stop =>
        /\ tpc \notin Hopping => bufs[Target] = Zeros
        /\ tpc = "zero" => \A i \in 1 .. at - 1 : bufs[active][i] = 0
        /\ tpc = "land" => bufs[active] = Zeros

\* The key of an encrypted box and the ciphertext follow each other, by way of the hand.
KeyInv ==
    kind \in Ratcheting /\ ~stop =>
        /\ key \in 1 .. NumKeys /\ bufs[1] # Closed
        /\ tpc # "write" /\ ~(kind = "encrypted" /\ tpc = "seal") => bufs[1] = <<key>>
        /\ tpc = "write" => held = <<key>>
        /\ kind = "combined" /\ tpc = "turn" => held = <<key>>
        /\ kind = "combined" /\ tpc = "seal" => held = <<Ratchet(key)>>

\* The pieces of the prototype are in their places, or have gone round the ports: then
\* each port has a piece, and together they have the last ones.
PortsInv ==
    kind = "ports" =>
        \/ bufs[1] = Data
        \/ /\ DOMAIN bufs[1] = 1 .. NumBoxes
           /\ {bufs[1][p] : p \in 1 .. NumBoxes} = extra + 1 .. extra + NumBoxes

\* What a collapse() has dropped stays dropped, behind an ended thread or, where a late
\* hop raises instead of writing, under a running one.
DropInv ==
    /\ cpc = "second" => kind \notin {"many", "ports"}
    /\ cpc = "second" /\ kind = "mapped" => bufs[1] = Closed
    /\ cpc = "second" /\ kind \in {"plain", "zeroing"} /\ ~timedOut => bufs[1] = <<>>
    /\ cpc = "done" => BuffersAreGone
    /\ cpc = "done" /\ kind \in Mapped => \A s \in Slots : bufs[s] = Closed

\* A wiped key is ratcheted once more at most, by the hop that the collapse() met.
WipedInv ==
    cpc \in {"second", "done"} =>
        \/ key = 0
        \/ /\ kind = "encrypted" /\ timedOut /\ key = Ratchet(0)
           /\ tpc \in {"seal", "write", "land", "check", "ended"}

IInv ==
    /\ TypeOK /\ LockInv /\ StopInv /\ PlaceInv /\ ShapeInv
    /\ CopyInv /\ ZeroInv /\ KeyInv /\ PortsInv /\ DropInv /\ WipedInv /\ SnapshotIsWhole

-----------------------------------------------------------------------------
(* The operators.                                                          *)

\* The number of buffers and of pieces, class by class.
LEMMA ClassesOf ==
    ASSUME kind \in Copying \cup Ratcheting \cup {"ports"}, extra \in 0 .. NumBoxes - 1
    PROVE  /\ kind \in {"plain", "mapped", "zeroing"} => Slots = 1 .. 2
           /\ kind = "many" => Slots = 1 .. NumBoxes
           /\ kind \in Ratcheting \cup {"ports"} => Slots = 1 .. 1
           /\ kind \in {"plain", "many", "zeroing"} => Pieces = NumChunks
           /\ kind \in {"mapped"} \cup Ratcheting => Pieces = 1
           /\ kind = "ports" => Pieces = NumBoxes + extra
           /\ Pieces \in Nat \ {0} /\ (kind # "ports" => Pieces <= NumChunks)
<1>2. kind \in {"plain", "mapped", "zeroing"} => Slots = 1 .. 2
  BY Zenon DEF Slots, Ratcheting
<1>3. kind = "many" => Slots = 1 .. NumBoxes
  BY Zenon DEF Slots, Ratcheting
<1>4. kind \in Ratcheting \cup {"ports"} => Slots = 1 .. 1
  BY Zenon DEF Slots, Ratcheting
<1>5. /\ kind \in {"plain", "many", "zeroing"} => Pieces = NumChunks
      /\ kind = "ports" => Pieces = NumBoxes + extra
      /\ kind \in {"mapped"} \cup Ratcheting => Pieces = 1
  BY DEF Pieces, Ratcheting
<1>6. QED
  BY <1>2, <1>3, <1>4, <1>5, FallingAssumption DEF Copying, Ratcheting

LEMMA Classes ==
    ASSUME TypeOK
    PROVE  /\ kind \in {"plain", "mapped", "zeroing"} => Slots = 1 .. 2
           /\ kind = "many" => Slots = 1 .. NumBoxes
           /\ kind \in Ratcheting \cup {"ports"} => Slots = 1 .. 1
           /\ kind \in {"plain", "many", "zeroing"} => Pieces = NumChunks
           /\ kind \in {"mapped"} \cup Ratcheting => Pieces = 1
           /\ kind = "ports" => Pieces = NumBoxes + extra
           /\ Pieces \in Nat \ {0} /\ (kind # "ports" => Pieces <= NumChunks)
BY ClassesOf DEF TypeOK

\* The next buffer in turn is another one.
LEMMA NextBuffer ==
    ASSUME TypeOK
    PROVE  /\ Target \in Slots
           /\ kind \in Copying => Target # active
           /\ kind \in {"plain", "mapped", "zeroing"} => Slots = {active, Target}
           /\ kind \notin Copying => Target = active /\ active = 1
<1>1. ASSUME NEW n \in Nat \ {0}, Slots = 1 .. n
      PROVE  /\ Target = IF active = n THEN 1 ELSE active + 1
             /\ active \in 1 .. n
  <2>1. Cardinality(1 .. n) = n
    BY <1>1, FS_Interval
  <2>2. \A a \in 1 .. n : a % n = IF a = n THEN 0 ELSE a
    BY <1>1
  <2>3. QED
    BY <1>1, <2>1, <2>2 DEF Target, TypeOK
<1>2. CASE kind \in {"plain", "mapped", "zeroing"}
  <2>1. Slots = 1 .. 2
    BY <1>2, Classes
  <2>2. active \in 1 .. 2 /\ Target = IF active = 2 THEN 1 ELSE active + 1
    BY <1>1, <2>1
  <2>3. QED
    BY <1>2, <2>1, <2>2 DEF Copying
<1>3. CASE kind = "many"
  <2>1. Slots = 1 .. NumBoxes /\ NumBoxes \in Nat \ {0, 1}
    BY <1>3, Classes, FallingAssumption
  <2>2. active \in 1 .. NumBoxes /\ Target = IF active = NumBoxes THEN 1 ELSE active + 1
    BY <1>1, <2>1
  <2>3. QED
    BY <1>3, <2>1, <2>2 DEF Copying
<1>4. CASE kind \in Ratcheting \cup {"ports"}
  <2>1. Slots = 1 .. 1
    BY <1>4, Classes
  <2>2. active \in 1 .. 1 /\ Target = IF active = 1 THEN 1 ELSE active + 1
    BY <1>1, <2>1
  <2>3. QED
    BY <1>4, <2>1, <2>2 DEF Copying, Ratcheting
<1>5. QED
  BY <1>2, <1>3, <1>4 DEF TypeOK, Copying

\* Classes, buffers and data are those of the box, for good.
LEMMA SameBox ==
    ASSUME kind' = kind, extra' = extra
    PROVE  Survivors' = Survivors /\ Slots' = Slots /\ Pieces' = Pieces /\ Data' = Data /\ Zeros' = Zeros
BY DEF Slots, Pieces, Data, Zeros, Survivors

\* One byte of a slice.
LEMMA OnePiece ==
    ASSUME NEW S, NEW b \in Seq(S), NEW i \in Nat \ {0}
    PROVE  /\ i <= Len(b) => Piece(b, i) = <<b[i]>> /\ b[i] \in S
           /\ i > Len(b) => Piece(b, i) = <<>>
BY DEF Piece

\* A sequence of one.
LEMMA OneByte ==
    ASSUME NEW S, NEW x \in S
    PROVE  <<x>> \in Seq(S) /\ Len(<<x>>) = 1 /\ <<x>>[1] = x /\ <<x>> # <<>>
OBVIOUS

\* A slice that is assigned replaces its piece, or makes the bytearray longer.
LEMMA AssignOne ==
    ASSUME NEW b \in Seq({0, 1}), NEW n \in Nat, Len(b) <= n, NEW i \in 1 .. n, NEW x \in {0, 1},
           NEW c, c = Assign(b, i, <<x>>)
    PROVE  /\ c \in Seq({0, 1}) /\ Len(c) <= n
           /\ i <= Len(b) => /\ Len(c) = Len(b)
                             /\ \A j \in 1 .. Len(b) : c[j] = IF j = i THEN x ELSE b[j]
<1>1. <<x>> # <<>> /\ <<x>>[1] = x
  OBVIOUS
<1>2. CASE i <= Len(b)
  BY <1>1, <1>2 DEF Assign
<1>3. CASE i > Len(b)
  <2>1. c = b \o <<x>>
    BY <1>1, <1>3 DEF Assign
  <2>2. <<x>> \in Seq({0, 1}) /\ Len(<<x>>) = 1
    BY OneByte
  <2>3. b \o <<x>> \in Seq({0, 1}) /\ Len(b \o <<x>>) = Len(b) + 1
    BY <2>2, ConcatProperties
  <2>4. c \in Seq({0, 1})
    BY <2>1, <2>3
  <2>5. Len(b) \in Nat /\ Len(c) = Len(b) + 1
    BY <2>1, <2>3
  <2>6. Len(c) <= n /\ ~(i <= Len(b))
    BY <1>3, <2>5
  <2>7. QED
    BY <2>4, <2>6
<1>4. QED
  BY <1>1, <1>2, <1>3

\* Data and zeros of a box that is copied.
LEMMA Contents ==
    ASSUME TypeOK, kind \in Copying
    PROVE  /\ Data \in Seq({0, 1}) /\ Len(Data) = Pieces /\ \A i \in 1 .. Pieces : Data[i] = 1
           /\ Zeros \in Seq({0, 1}) /\ Len(Zeros) = Pieces /\ \A i \in 1 .. Pieces : Zeros[i] = 0
           /\ kind = "mapped" => Data = <<1>> /\ Zeros = <<0>>
<1>1. Pieces \in Nat /\ kind # "ports"
  BY Classes DEF Copying
<1>2. Data = [i \in 1 .. Pieces |-> 1] /\ Zeros = [i \in 1 .. Pieces |-> 0]
  BY <1>1 DEF Data, Zeros
<1>3. kind = "mapped" => Pieces = 1
  BY Classes
<1>4. QED
  BY <1>1, <1>2, <1>3

\* A sequence of the box's length is the data, or zeros, if each of its pieces is.
LEMMA Contained ==
    ASSUME TypeOK, kind \in Copying, NEW S, NEW b \in Seq(S), Len(b) = Pieces
    PROVE  /\ (\A i \in 1 .. Pieces : b[i] = 1) => b = Data
           /\ (\A i \in 1 .. Pieces : b[i] = 0) => b = Zeros
BY Contents, Classes

-----------------------------------------------------------------------------
(* Steps.                                                                  *)

\* A box keeps its class, and with it the number of its buffers and its data.
LEMMA SameClass ==
    ASSUME [Next]_vars
    PROVE  /\ kind' = kind /\ extra' = extra /\ Survivors' = Survivors
           /\ Slots' = Slots /\ Pieces' = Pieces /\ Data' = Data /\ Zeros' = Zeros
<1>1. CASE Thread
  BY <1>1, SameBox DEF Thread, Check, CheckTurn, Acquire, Land, FallingHop, SecureHop, NHop,
     ZeroingHop, EncryptedHop, CombinedHop, FetchRaises, PortsHop, Copy, Die, Step, Others
<1>2. CASE \E r \in Readers : Snapshot(r)
  BY <1>2, SameBox DEF Snapshot, Pause, Lock, Resume, Reconstruct, FallingSnapshot, SecureSnapshot,
     EncryptedSnapshot, CombinedSnapshot, Taken, Fails, Caller
<1>3. CASE Collapse
  BY <1>3, SameBox DEF Collapse, SetStop, Join, CollapseFallingBox, CollapseSecureBox,
     CollapseZeroingBox, CollapseNFallingBox, CollapseEncryptedBox, CollapseCombinedBox,
     StopFallingFile, DropBoth, DropKeyed, Drop
<1>4. CASE UNCHANGED vars
  BY <1>4, SameBox DEF vars
<1>5. QED
  BY <1>1, <1>2, <1>3, <1>4 DEF Next

\* The thread has the lock while it hops, a snapshot() while it reads.
LEMMA LockStep ==
    ASSUME TypeOK, LockInv, [Next]_vars
    PROVE  LockInv'
<1> USE FallingAssumption DEF TypeOK, LockInv, Hopping, Nobody, thread, reader
<1>1. CASE Check \/ Acquire \/ Land
  BY <1>1 DEF Check, CheckTurn, Acquire, Land, Others
<1>2. CASE FallingHop \/ SecureHop \/ NHop
  BY <1>2 DEF FallingHop, SecureHop, NHop, Copy, Die, Step, Others
<1>3. CASE ZeroingHop \/ PortsHop
  BY <1>3 DEF ZeroingHop, PortsHop, Copy, Die, Step, Others
<1>4. CASE EncryptedHop \/ CombinedHop
  BY <1>4 DEF EncryptedHop, CombinedHop, FetchRaises, Die, Step, Others
<1>5. ASSUME NEW r \in Readers, Snapshot(r) PROVE LockInv'
  <2>1. CASE Pause(r) \/ Lock(r) \/ Resume(r) \/ Reconstruct(r)
    BY <1>5, <2>1 DEF Pause, Lock, Resume, Reconstruct, Caller
  <2>2. CASE FallingSnapshot(r) \/ SecureSnapshot(r) \/ EncryptedSnapshot(r) \/ CombinedSnapshot(r)
    BY <1>5, <2>2 DEF FallingSnapshot, SecureSnapshot, EncryptedSnapshot, CombinedSnapshot,
       Taken, Fails, Caller
  <2>3. QED
    BY <1>5, <2>1, <2>2 DEF Snapshot
<1>6. CASE Collapse
  BY <1>6 DEF Collapse, SetStop, Join, CollapseFallingBox, CollapseSecureBox, CollapseZeroingBox,
     CollapseNFallingBox, CollapseEncryptedBox, CollapseCombinedBox, StopFallingFile,
     DropBoth, DropKeyed, Drop
<1>7. CASE UNCHANGED vars
  BY <1>7 DEF vars
<1>8. QED
  BY <1>1, <1>2, <1>3, <1>4, <1>5, <1>6, <1>7 DEF Next, Thread

\* The flag and the join.
LEMMA StopStep ==
    ASSUME TypeOK, StopInv, [Next]_vars
    PROVE  StopInv'
<1> USE DEF TypeOK, StopInv, thread, reader
<1>1. CASE Check \/ Acquire \/ Land
  BY <1>1 DEF Check, CheckTurn, Acquire, Land, Others
<1>2. CASE FallingHop \/ SecureHop \/ NHop
  BY <1>2 DEF FallingHop, SecureHop, NHop, Copy, Die, Step, Others
<1>3. CASE ZeroingHop \/ PortsHop
  BY <1>3 DEF ZeroingHop, PortsHop, Copy, Die, Step, Others
<1>4. CASE EncryptedHop \/ CombinedHop
  BY <1>4 DEF EncryptedHop, CombinedHop, FetchRaises, Die, Step, Others
<1>5. CASE \E r \in Readers : Snapshot(r)
  BY <1>5 DEF Snapshot, Pause, Lock, Resume, Reconstruct, FallingSnapshot, SecureSnapshot,
     EncryptedSnapshot, CombinedSnapshot, Taken, Fails, Caller
<1>6. CASE Collapse
  BY <1>6 DEF Collapse, SetStop, Join, CollapseFallingBox, CollapseSecureBox, CollapseZeroingBox,
     CollapseNFallingBox, CollapseEncryptedBox, CollapseCombinedBox, StopFallingFile,
     DropBoth, DropKeyed, Drop
<1>7. CASE UNCHANGED vars
  BY <1>7 DEF vars
<1>8. QED
  BY <1>1, <1>2, <1>3, <1>4, <1>5, <1>6, <1>7 DEF Next, Thread

\* Each class keeps to its own steps, and its loops to the pieces.
LEMMA PlaceStep ==
    ASSUME TypeOK, PlaceInv, [Next]_vars
    PROVE  PlaceInv'
<1> USE Classes DEF PlaceInv, thread, reader
<1>0. kind' = kind /\ Pieces' = Pieces
  BY SameClass
<1>1. CASE Check \/ Acquire \/ Land
  BY <1>0, <1>1 DEF Check, CheckTurn, Acquire, Land, Others
<1>2. CASE FallingHop \/ SecureHop \/ NHop
  BY <1>0, <1>2 DEF FallingHop, SecureHop, NHop, Copy, Die, Step, Others, Copying, TypeOK
<1>3. CASE ZeroingHop \/ PortsHop
  BY <1>0, <1>3 DEF ZeroingHop, PortsHop, Copy, Die, Step, Others, Copying, TypeOK
<1>4. CASE EncryptedHop \/ CombinedHop
  BY <1>0, <1>4 DEF EncryptedHop, CombinedHop, FetchRaises, Die, Step, Others, Copying, Ratcheting
<1>5. CASE \E r \in Readers : Snapshot(r)
  BY <1>0, <1>5 DEF Snapshot, Pause, Lock, Resume, Reconstruct, FallingSnapshot, SecureSnapshot,
     EncryptedSnapshot, CombinedSnapshot, Taken, Fails, Caller
<1>6. CASE Collapse
  BY <1>0, <1>6 DEF Collapse, SetStop, Join, CollapseFallingBox, CollapseSecureBox, CollapseZeroingBox,
     CollapseNFallingBox, CollapseEncryptedBox, CollapseCombinedBox, StopFallingFile,
     DropBoth, DropKeyed, Drop
<1>7. CASE UNCHANGED vars
  BY <1>0, <1>7 DEF vars
<1>8. QED
  BY <1>1, <1>2, <1>3, <1>4, <1>5, <1>6, <1>7 DEF Next, Thread

-----------------------------------------------------------------------------
(* Sorting.                                                                *)

\* A nonempty set of naturals has a least element.
LEMMA Least ==
    ASSUME NEW S \in SUBSET Nat, S # {}
    PROVE  \E x \in S : \A y \in S : x <= y
<1> DEFINE Less == {p \in Nat \X Nat : p[1] < p[2]}
<1>1. IsWellFoundedOn(Less, Nat)
  BY NatLessThanWellFounded, Zenon DEF OpToRel
<1>2. PICK x \in S : \A y \in S : <<y, x>> \notin Less
  <2> HIDE DEF Less
  <2> QED BY <1>1, WFMin, Zenon
<1>3. \A y \in S : ~(y < x)
  BY <1>2
<1>4. QED
  BY <1>3

\* Nothing but the pieces 1 to n in their order is a rising sequence of all of them: the
\* first piece that is not in its place could be in no other either.
LEMMA OnlyRising ==
    ASSUME NEW n \in Nat, NEW s \in [1 .. n -> 1 .. n], \A i, j \in 1 .. n : i < j => s[i] < s[j]
    PROVE  s = [i \in 1 .. n |-> i]
<1> DEFINE Id == [i \in 1 .. n |-> i]
<1>0. Cardinality(1 .. n) = n /\ IsFiniteSet(1 .. n)
  BY FS_Interval
<1> DEFINE Wrong == {i \in 1 .. n : s[i] # i}
<1>1. SUFFICES ASSUME Wrong # {} PROVE FALSE
  <2>1. Wrong = {} => \A i \in 1 .. n : s[i] = Id[i]
    OBVIOUS
  <2>2. QED
    BY <2>1
<1>2. PICK m \in Wrong : \A i \in Wrong : m <= i
  <2>1. Wrong \in SUBSET Nat
    OBVIOUS
  <2>2. QED
    BY <1>1, <2>1, Least
<1>3. \A i \in 1 .. m - 1 : s[i] = i
  BY <1>2
<1>4. m \in 1 .. n /\ s[m] # m
  OBVIOUS
<1>5. s[m] > m
  <2>1. SUFFICES ASSUME s[m] < m PROVE FALSE
    BY <1>4
  <2>2. s[s[m]] = s[m]
    BY <1>3, <1>4, <2>1
  <2>3. s[s[m]] < s[m]
    BY <1>4, <2>1
  <2>4. QED
    BY <1>4, <2>2, <2>3
<1>6. \A i \in 1 .. n : s[i] # m
  <2>1. ASSUME NEW i \in 1 .. n PROVE s[i] # m
    <3>1. CASE i < m
      BY <1>3, <3>1
    <3>2. CASE i = m
      BY <1>4, <3>2
    <3>3. CASE i > m
      BY <1>4, <1>5, <3>3
    <3>4. QED
      BY <3>1, <3>2, <3>3
  <2>2. QED
    BY <2>1
<1>7. \A i, j \in 1 .. n : s[i] = s[j] => i = j
  <2>1. ASSUME NEW i \in 1 .. n, NEW j \in 1 .. n, s[i] = s[j], i # j PROVE FALSE
    <3>1. i < j \/ j < i
      BY <2>1
    <3>2. s[i] < s[j] \/ s[j] < s[i]
      BY <3>1
    <3>3. QED
      BY <2>1, <3>2
  <2>2. QED
    BY <2>1
<1>8. s \in Injection(1 .. n, 1 .. n)
  BY <1>7 DEF Injection, IsInjective
<1>9. s \in Surjection(1 .. n, 1 .. n)
  BY <1>0, <1>8, FS_Injection
<1>10. \E i \in 1 .. n : s[i] = m
  BY <1>4, <1>9 DEF Surjection
<1>11. QED
  BY <1>6, <1>10

\* sorted() of n pieces in succession.
LEMMA SortedPieces ==
    ASSUME NEW n \in Nat, NEW a \in Nat
    PROVE  Sorted(a + 1 .. a + n) = [i \in 1 .. n |-> a + i]
<1> DEFINE S == a + 1 .. a + n
           Rising(s) == \A i, j \in DOMAIN s : i < j => s[i] < s[j]
           Id == [i \in 1 .. n |-> a + i]
<1>1. Cardinality(S) = n
  BY FS_Interval
<1>2. ASSUME NEW s \in [1 .. n -> S], Rising(s)
      PROVE  s = Id
  <2> DEFINE t == [i \in 1 .. n |-> s[i] - a]
  <2>1. \A i \in 1 .. n : s[i] \in S
    OBVIOUS
  <2>2. t \in [1 .. n -> 1 .. n] /\ \A i, j \in 1 .. n : i < j => t[i] < t[j]
    BY <1>2, <2>1
  <2>3. t = [i \in 1 .. n |-> i]
    <3> HIDE DEF t
    <3> QED BY <2>2, OnlyRising
  <2>4. \A i \in 1 .. n : s[i] = a + i
    <3>1. ASSUME NEW i \in 1 .. n PROVE s[i] = a + i
      <4>1. t[i] = i /\ t[i] = s[i] - a
        BY <2>3
      <4>2. QED
        BY <2>1, <4>1
    <3>2. QED
      BY <3>1
  <2>5. QED
    BY <2>4
<1>3. Id \in [1 .. n -> S] /\ Rising(Id)
  OBVIOUS
<1>4. Sorted(S) = CHOOSE s \in [1 .. n -> S] : Rising(s)
  BY <1>1 DEF Sorted
<1>5. QED
  <2> HIDE DEF Rising, Id, S
  <2>1. Sorted(S) \in [1 .. n -> S] /\ Rising(Sorted(S))
    BY <1>3, <1>4, Zenon
  <2>2. Sorted(S) = Id
    BY <1>2, <2>1
  <2>3. QED
    BY <2>2 DEF Id, S

\* The port that a piece comes from, of a list of as many ports as there are or longer: of
\* two that come to one port the later one.
Behind(e, p) == IF p <= e + 1 THEN NumBoxes + p - 1 ELSE p - 1

LEMMA PortBehind ==
    ASSUME NEW e \in 0 .. NumBoxes - 1, DOMAIN bufs[1] = 1 .. NumBoxes + e, NEW p \in 1 .. NumBoxes
    PROVE  (CHOOSE i \in PortsBefore(p) : \A j \in PortsBefore(p) : j <= i) = Behind(e, p)
<1>1. NumBoxes \in Nat \ {0, 1}
  BY FallingAssumption
<1>2. \A i \in 1 .. NumBoxes + e : i % NumBoxes = IF i < NumBoxes THEN i ELSE i - NumBoxes
  <2>1. ASSUME NEW i \in 1 .. NumBoxes + e
        PROVE  i % NumBoxes = IF i < NumBoxes THEN i ELSE i - NumBoxes
    <3>1. CASE i < NumBoxes
      BY <1>1, <3>1
    <3>2. CASE i >= NumBoxes
      <4>1. i - NumBoxes \in 0 .. NumBoxes - 1
        BY <1>1, <3>2
      <4>2. i = NumBoxes * 1 + (i - NumBoxes)
        BY <1>1
      <4>3. QED
        BY <1>1, <3>2, <4>1, <4>2
    <3>3. QED
      BY <1>1, <3>1, <3>2
  <2>2. QED
    BY <2>1
<1>3. ASSUME NEW i \in 1 .. NumBoxes + e
      PROVE  (i % NumBoxes) + 1 = p <=> i = p - 1 \/ i = NumBoxes + p - 1
  <2>1. i \in Int /\ p \in Int /\ 1 <= p /\ p <= NumBoxes /\ 1 <= i /\ NumBoxes \in Int
    BY <1>1
  <2>2. (i < NumBoxes /\ i % NumBoxes = i) \/ (i >= NumBoxes /\ i % NumBoxes = i - NumBoxes)
    <3>1. i % NumBoxes = IF i < NumBoxes THEN i ELSE i - NumBoxes
      BY <1>2
    <3>2. QED
      BY <2>1, <3>1
  <2>3. PICK m : m = i % NumBoxes
    OBVIOUS
  <2>4. (i < NumBoxes /\ m = i) \/ (i >= NumBoxes /\ m = i - NumBoxes)
    BY <2>2, <2>3
  <2>5. i < NumBoxes + NumBoxes
    BY <1>1
  <2>6. m + 1 = p <=> i = p - 1 \/ i = NumBoxes + p - 1
    BY <2>1, <2>4, <2>5
  <2>7. QED
    BY <2>3, <2>6
<1>4. PortsBefore(p) = {i \in 1 .. NumBoxes + e : i = p - 1 \/ i = NumBoxes + p - 1}
  BY <1>3 DEF PortsBefore
<1>5. Behind(e, p) \in PortsBefore(p) /\ \A j \in PortsBefore(p) : j <= Behind(e, p)
  BY <1>1, <1>4 DEF Behind
<1>6. \A i \in PortsBefore(p) : (\A j \in PortsBefore(p) : j <= i) => i = Behind(e, p)
  <2>1. PortsBefore(p) \subseteq Int
    BY <1>1, <1>4
  <2>2. QED
    BY <1>5, <2>1
<1>7. QED
  BY <1>5, <1>6

\* Together the ports take the last pieces of the list, each one.
LEMMA PortsTake ==
    ASSUME NEW e \in 0 .. NumBoxes - 1
    PROVE  {Behind(e, p) : p \in 1 .. NumBoxes} = e + 1 .. e + NumBoxes
<1>1. NumBoxes \in Nat \ {0, 1}
  BY FallingAssumption
<1>2. ASSUME NEW p \in 1 .. NumBoxes PROVE Behind(e, p) \in e + 1 .. e + NumBoxes
  BY <1>1 DEF Behind
<1>3. ASSUME NEW i \in e + 1 .. e + NumBoxes PROVE \E p \in 1 .. NumBoxes : Behind(e, p) = i
  <2>1. i < NumBoxes => i + 1 \in 1 .. NumBoxes /\ Behind(e, i + 1) = i
    BY <1>1 DEF Behind
  <2>2. i >= NumBoxes => /\ i - NumBoxes + 1 \in 1 .. NumBoxes
                        /\ Behind(e, i - NumBoxes + 1) = i
    BY <1>1 DEF Behind
  <2>3. QED
    BY <1>1, <2>1, <2>2
<1>4. QED
  BY <1>2, <1>3

\* One hop of the ports.
LEMMA PortsTurn ==
    ASSUME TypeOK, PortsInv, kind = "ports", NEW b,
           b = [p \in 1 .. NumBoxes |->
                  bufs[1][CHOOSE i \in PortsBefore(p) : \A j \in PortsBefore(p) : j <= i]]
    PROVE  /\ DOMAIN b = 1 .. NumBoxes
           /\ {b[p] : p \in 1 .. NumBoxes} = extra + 1 .. extra + NumBoxes
<1>1. NumBoxes \in Nat \ {0, 1} /\ extra \in 0 .. NumBoxes - 1
  BY FallingAssumption DEF TypeOK
<1>2. ASSUME NEW e \in 0 .. NumBoxes - 1, DOMAIN bufs[1] = 1 .. NumBoxes + e
      PROVE  {b[p] : p \in 1 .. NumBoxes} = {bufs[1][i] : i \in e + 1 .. e + NumBoxes}
  <2>1. \A p \in 1 .. NumBoxes : b[p] = bufs[1][Behind(e, p)]
    BY <1>2, PortBehind
  <2>2. {b[p] : p \in 1 .. NumBoxes} = {bufs[1][Behind(e, p)] : p \in 1 .. NumBoxes}
    BY <2>1
  <2>3. {bufs[1][Behind(e, p)] : p \in 1 .. NumBoxes}
          = {bufs[1][i] : i \in {Behind(e, p) : p \in 1 .. NumBoxes}}
    OBVIOUS
  <2>4. QED
    BY <2>2, <2>3, PortsTake
<1>3. CASE bufs[1] = Data
  <2>1. Data = [i \in 1 .. NumBoxes + extra |-> i]
    BY Classes DEF Data
  <2>4. DOMAIN bufs[1] = 1 .. NumBoxes + extra
    BY <1>3, <2>1
  <2>2. {b[p] : p \in 1 .. NumBoxes} = {Data[i] : i \in extra + 1 .. extra + NumBoxes}
    BY <1>1, <1>2, <1>3, <2>4
  <2>3. \A i \in extra + 1 .. extra + NumBoxes : Data[i] = i
    BY <1>1, <2>1
  <2>5. DOMAIN b = 1 .. NumBoxes
    OBVIOUS
  <2>6. {Data[i] : i \in extra + 1 .. extra + NumBoxes} = extra + 1 .. extra + NumBoxes
    BY <2>3
  <2>7. QED
    BY <2>2, <2>5, <2>6
<1>4. CASE /\ DOMAIN bufs[1] = 1 .. NumBoxes
           /\ {bufs[1][p] : p \in 1 .. NumBoxes} = extra + 1 .. extra + NumBoxes
  <2>1. 0 \in 0 .. NumBoxes - 1 /\ NumBoxes + 0 = NumBoxes /\ 0 + 1 .. 0 + NumBoxes = 1 .. NumBoxes
    BY <1>1
  <2>2. {b[p] : p \in 1 .. NumBoxes} = {bufs[1][i] : i \in 1 .. NumBoxes}
    BY <1>2, <1>4, <2>1
  <2>3. QED
    BY <1>4, <2>2
<1>5. QED
  BY <1>3, <1>4 DEF PortsInv

\* What the types say of the buffers.
BufsOK == bufs \in [Slots -> Seq(Values)] /\ \A s \in Slots : Len(bufs[s]) <= Pieces

\* The piece that the loop reads.
LEMMA ReadOne ==
    ASSUME TypeOK, PlaceInv, ShapeInv, kind \in Copying, tpc = "read", at <= Pieces,
           kind = "mapped" => bufs[active] # Closed
    PROVE  /\ Piece(bufs[active], at) \in {<<>>, <<0>>, <<1>>}
           /\ at <= Len(bufs[active]) => Piece(bufs[active], at) = <<bufs[active][at]>>
<1>1. active \in Slots /\ at \in Nat \ {0}
  BY DEF TypeOK
<1>2. bufs[active] \in Seq({0, 1})
  <2>1. CASE kind = "mapped"
    <3>1. bufs[active] = <<0>> \/ bufs[active] = <<1>>
      BY <1>1, <2>1 DEF ShapeInv
    <3>2. QED
      BY <3>1, OneByte
  <2>2. CASE kind # "mapped"
    BY <1>1, <2>2 DEF ShapeInv
  <2>3. QED
    BY <2>1, <2>2
<1>3. QED
  BY <1>1, <1>2, OnePiece

\* The buffer that the loop writes to, after it has.
LEMMA WriteOne ==
    ASSUME TypeOK, PlaceInv, ShapeInv, kind \in Copying, tpc = "write",
           kind = "mapped" => bufs[Target] # Closed,
           NEW b, b = Assign(bufs[Target], at, held)
    PROVE  /\ b \in Seq({0, 1}) /\ Len(b) <= Pieces
           /\ kind = "mapped" => b \in {<<0>>, <<1>>}
           /\ held = <<1>> /\ Len(bufs[Target]) = Pieces =>
                Len(b) = Pieces /\ \A j \in 1 .. Pieces : b[j] = IF j = at THEN 1 ELSE bufs[Target][j]
<1>1. Target \in Slots /\ Pieces \in Nat /\ at \in 1 .. Pieces
  BY NextBuffer, Classes DEF TypeOK, PlaceInv
<1>2. bufs[Target] \in Seq({0, 1}) /\ Len(bufs[Target]) <= Pieces
  <2>1. CASE kind = "mapped"
    <3>1. bufs[Target] = <<0>> \/ bufs[Target] = <<1>>
      BY <1>1, <2>1 DEF ShapeInv
    <3>2. bufs[Target] \in Seq({0, 1}) /\ Len(bufs[Target]) = 1
      BY <3>1, OneByte
    <3>3. QED
      BY <1>1, <3>2
  <2>2. CASE kind # "mapped"
    BY <1>1, <2>2 DEF ShapeInv, TypeOK
  <2>3. QED
    BY <2>1, <2>2
<1>3. held \in {<<>>, <<0>>, <<1>>}
  BY DEF ShapeInv
<1>4. CASE held = <<>>
  <2>1. b = bufs[Target] /\ held # <<1>>
    <3>1. Assign(bufs[Target], at, <<>>) = bufs[Target]
      BY DEF Assign
    <3>2. QED
      BY <1>4, <3>1
  <2>2. kind = "mapped" => b \in {<<0>>, <<1>>}
    BY <1>1, <2>1 DEF ShapeInv
  <2>3. QED
    BY <1>2, <2>1, <2>2
<1>5. ASSUME NEW x \in {0, 1}, held = <<x>>
      PROVE  /\ b \in Seq({0, 1}) /\ Len(b) <= Pieces
             /\ kind = "mapped" => b \in {<<0>>, <<1>>}
             /\ Len(bufs[Target]) = Pieces =>
                  Len(b) = Pieces /\ \A j \in 1 .. Pieces : b[j] = IF j = at THEN x ELSE bufs[Target][j]
  <2>1. /\ b \in Seq({0, 1}) /\ Len(b) <= Pieces
        /\ at <= Len(bufs[Target]) =>
             /\ Len(b) = Len(bufs[Target])
             /\ \A j \in 1 .. Len(b) : b[j] = IF j = at THEN x ELSE bufs[Target][j]
    BY <1>1, <1>2, <1>5, AssignOne
  <2>2. ASSUME kind = "mapped" PROVE b \in {<<0>>, <<1>>}
    <3>1. Pieces = 1 /\ Len(bufs[Target]) = 1 /\ at = 1
      BY <1>1, <2>2, Classes DEF ShapeInv
    <3>2. Len(b) = 1 /\ b[1] = x
      BY <2>1, <3>1
    <3>3. b = <<x>>
      BY <2>1, <3>2
    <3>4. QED
      BY <3>3
  <2>3. QED
    BY <1>1, <2>1, <2>2
<1>6. held = <<1>> => 1 \in {0, 1}
  OBVIOUS
<1>7. QED
  BY <1>3, <1>4, <1>5

\* One buffer is replaced by another that fits.
LEMMA ReplaceOne ==
    ASSUME TypeOK, kind \in Copying, kind' = kind, extra' = extra,
           NEW s \in Slots, NEW b \in Seq(Values), Len(b) <= Pieces, bufs' = [bufs EXCEPT ![s] = b]
    PROVE  BufsOK' /\ bufs'[s] = b /\ \A u \in Slots : u # s => bufs'[u] = bufs[u]
<1>1. Slots' = Slots /\ Pieces' = Pieces
  BY SameBox
<1>2. bufs' \in [Slots -> Seq(Values)] /\ bufs'[s] = b /\ \A u \in Slots : u # s => bufs'[u] = bufs[u]
  BY DEF TypeOK
<1>3. \A u \in Slots : Len(bufs'[u]) <= Pieces
  BY <1>2 DEF TypeOK
<1>4. QED
  BY <1>1, <1>2, <1>3 DEF BufsOK

\* A byte more or less: what the hand holds.
LEMMA HandOfOne ==
    ASSUME NEW k \in 0 .. NumKeys + 1
    PROVE  <<k>> \in Seq(0 .. NumKeys + 1) /\ <<k>> \in Seq(Values) /\ Len(<<k>>) = 1 /\ <<k>>[1] = k
<1>1. k \in Values
  BY DEF Values
<1>2. QED
  BY <1>1, OneByte

\* A copied piece fits the hand, and a copied buffer is a buffer.
LEMMA SmallBytes ==
    /\ {<<>>, <<0>>, <<1>>} \subseteq Seq(0 .. NumKeys + 1)
    /\ Seq({0, 1}) \subseteq Seq(Values)
    /\ Closed \in Seq(Values) /\ Len(Closed) = 1
<1>1. 0 \in 0 .. NumKeys + 1 /\ 1 \in 0 .. NumKeys + 1 /\ -1 \in Values
  BY FallingAssumption DEF Values
<1>2. <<>> \in Seq(0 .. NumKeys + 1)
  OBVIOUS
<1>3. {0, 1} \subseteq Values
  BY <1>1 DEF Values
<1>4. Seq({0, 1}) \subseteq Seq(Values)
  BY <1>3, SeqMonotonic
<1>5. QED
  BY <1>1, <1>2, <1>4, HandOfOne, OneByte DEF Closed

\* The ratchet stays within the keys that are told apart.
LEMMA RatchetRange ==
    ASSUME NEW k \in 0 .. NumKeys + 1
    PROVE  Ratchet(k) \in 1 .. NumKeys + 1 /\ (k # 0 => Ratchet(k) \in 1 .. NumKeys)
<1>1. NumKeys \in Nat \ {0} /\ k % NumKeys \in 0 .. NumKeys - 1
  BY FallingAssumption
<1>2. QED
  BY <1>1 DEF Ratchet

\* What a step of a copying hop leaves in the buffers and in the hand.
LEMMA CopyContent ==
    ASSUME TypeOK, PlaceInv, ShapeInv, kind \in Copying, NEW after, after \in {"land", "zero"},
           kind = "mapped" => /\ tpc = "read" /\ at = 1 => bufs[active] # Closed
                              /\ tpc = "write" => bufs[Target] # Closed,
           Copy(after)
    PROVE  BufsOK' /\ ShapeInv' /\ held' \in Seq(0 .. NumKeys + 1)
<1> USE DEF Step, Others, thread, reader, box
<1>0. kind' = kind /\ extra' = extra /\ Slots' = Slots /\ Pieces' = Pieces /\ key' = key
  BY SameBox DEF Copy
<1>k. key = 0 /\ key' = 0 /\ kind \notin Ratcheting
  BY <1>0 DEF ShapeInv, Copying, Ratcheting
<1>n. at \in Nat /\ Pieces \in Nat
  BY Classes DEF TypeOK
<1>1. CASE tpc = "read" /\ at <= Pieces
  <2>1. held' = Piece(bufs[active], at) /\ bufs' = bufs /\ tpc' = "write"
    BY <1>1, <1>n DEF Copy
  <2>2. kind = "mapped" => bufs[active] # Closed
    <3>1. kind = "mapped" => Pieces = 1
      BY Classes
    <3>2. kind = "mapped" => at = 1
      BY <1>1, <3>1 DEF TypeOK
    <3>3. QED
      BY <1>1, <3>2
  <2>3. held' \in {<<>>, <<0>>, <<1>>}
    BY <1>1, <2>1, <2>2, ReadOne
  <2>4. BufsOK'
    BY <1>0, <2>1 DEF BufsOK, TypeOK
  <2>5. ShapeInv'
    BY <1>0, <1>k, <2>1, <2>3 DEF ShapeInv
  <2>6. QED
    BY <2>3, <2>4, <2>5, SmallBytes
<1>2. CASE tpc = "write"
  <2>1. bufs' = [bufs EXCEPT ![Target] = Assign(bufs[Target], at, held)] /\ tpc' = "read" /\ held' = held
    BY <1>2 DEF Copy
  <2>2. PICK b : b = Assign(bufs[Target], at, held)
    OBVIOUS
  <2>3. b \in Seq({0, 1}) /\ Len(b) <= Pieces /\ (kind = "mapped" => b \in {<<0>>, <<1>>})
    BY <1>2, <2>2, WriteOne
  <2>4. b \in Seq(Values) /\ Target \in Slots
    BY <2>3, SmallBytes, NextBuffer
  <2>5. BufsOK' /\ bufs'[Target] = b /\ \A u \in Slots : u # Target => bufs'[u] = bufs[u]
    BY <1>0, <2>1, <2>2, <2>3, <2>4, ReplaceOne
  <2>6. ShapeInv'
    <3>1. kind \in Copying \ {"mapped"} => \A s \in Slots : bufs'[s] \in Seq({0, 1})
      BY <2>3, <2>5 DEF ShapeInv
    <3>2. kind = "mapped" => \A s \in Slots : bufs'[s] \in {Closed, <<0>>, <<1>>}
      BY <2>3, <2>5 DEF ShapeInv
    <3>3. QED
      BY <1>0, <1>k, <2>1, <3>1, <3>2 DEF ShapeInv
  <2>7. QED
    BY <2>1, <2>5, <2>6 DEF TypeOK
<1>3. CASE tpc = "read" /\ at > Pieces
  <2>1. bufs' = bufs /\ held' = held /\ tpc' = after
    BY <1>3, <1>n DEF Copy
  <2>2. BufsOK'
    BY <1>0, <2>1 DEF BufsOK, TypeOK
  <2>3. ShapeInv'
    BY <1>0, <1>k, <2>1 DEF ShapeInv
  <2>4. QED
    BY <2>1, <2>2, <2>3 DEF TypeOK
<1>4. QED
  BY <1>1, <1>2, <1>3, <1>n DEF Copy

\* Buffers and hand that a step leaves alone keep their shape; the hand may be emptied of
\* meaning by the end of the hop.
LEMMA ContentKept ==
    ASSUME TypeOK, ShapeInv, kind' = kind, extra' = extra, bufs' = bufs, key' = key, held' = held,
           tpc' = tpc \/ tpc' \in {"check", "lock", "read", "zero", "land", "ended"}
    PROVE  BufsOK' /\ ShapeInv' /\ held' \in Seq(0 .. NumKeys + 1)
<1>0. Slots' = Slots /\ Pieces' = Pieces
  BY SameBox
<1>1. BufsOK'
  BY <1>0 DEF BufsOK, TypeOK
<1>2. ShapeInv'
  BY <1>0 DEF ShapeInv
<1>3. QED
  BY <1>1, <1>2 DEF TypeOK

\* The only buffer is replaced.
LEMMA OnlyBuffer ==
    ASSUME Slots' = 1 .. 1, Pieces' \in Nat, NEW b \in Seq(Values), Len(b) <= Pieces', bufs' = <<b>>
    PROVE  BufsOK'
<1>1. bufs' \in [1 .. 1 -> Seq(Values)] /\ \A s \in 1 .. 1 : bufs'[s] = b
  OBVIOUS
<1>2. \A s \in Slots' : Len(bufs'[s]) <= Pieces'
  BY <1>1
<1>3. bufs' \in [Slots' -> Seq(Values)]
  BY <1>1
<1>4. QED
  BY <1>2, <1>3 DEF BufsOK

\* A ciphertext is written.
LEMMA SealedContent ==
    ASSUME TypeOK, ShapeInv, kind \in Ratcheting, kind' = kind, extra' = extra,
           tpc = "write", tpc' = "land", bufs' = <<held>>, held' = held, key' = key
    PROVE  BufsOK' /\ ShapeInv' /\ held' \in Seq(0 .. NumKeys + 1)
<1>0. Slots' = 1 .. 1 /\ Pieces' = 1
  BY Classes, SameBox
<1>1. PICK k \in 0 .. NumKeys + 1 : held = <<k>>
  BY DEF ShapeInv
<1>2. held \in Seq(Values) /\ Len(held) = 1
  BY <1>1, HandOfOne
<1>4. BufsOK'
  <2>1. Pieces' \in Nat /\ Len(held) <= Pieces' /\ Slots' = 1 .. 1 /\ held \in Seq(Values)
    BY <1>0, <1>2
  <2>2. QED
    BY <2>1, OnlyBuffer, Zenon
<1>5. ShapeInv'
  BY DEF ShapeInv, Ratcheting, Copying
<1>6. QED
  BY <1>4, <1>5 DEF TypeOK

\* The hand takes a key, or the key changes.
LEMMA KeyedContent ==
    ASSUME TypeOK, ShapeInv, kind \in Ratcheting, kind' = kind, extra' = extra, bufs' = bufs,
           \/ \E k \in 0 .. NumKeys + 1 : held' = <<k>>
           \/ /\ held' = held
              /\ \/ tpc' \notin {"turn", "seal", "write"}
                 \/ kind = "encrypted" /\ tpc' # "write"
                 \/ tpc \in {"turn", "seal"} /\ kind = "combined"
                 \/ tpc' = tpc
    PROVE  BufsOK' /\ ShapeInv' /\ held' \in Seq(0 .. NumKeys + 1)
<1>0. Slots' = Slots /\ Pieces' = Pieces
  BY SameBox
<1>1. BufsOK'
  BY <1>0 DEF BufsOK, TypeOK
<1>2. ShapeInv'
  BY DEF ShapeInv, Ratcheting, Copying
<1>3. held \in Seq(0 .. NumKeys + 1)
  BY DEF TypeOK
<1>4. \A k \in 0 .. NumKeys + 1 : <<k>> \in Seq(0 .. NumKeys + 1)
  BY HandOfOne
<1>5. held' \in Seq(0 .. NumKeys + 1)
  BY <1>3, <1>4
<1>6. QED
  BY <1>1, <1>2, <1>5

\* Every step keeps the shape of buffers and hand.
LEMMA ContentStep ==
    ASSUME TypeOK, PlaceInv, ShapeInv, PortsInv, [Next]_vars
    PROVE  BufsOK' /\ ShapeInv' /\ held' \in Seq(0 .. NumKeys + 1)
<1> USE DEF thread, reader, box
<1>0. kind' = kind /\ extra' = extra /\ Slots' = Slots /\ Pieces' = Pieces
  BY SameClass
<1>1. CASE Check \/ Acquire \/ Land
  BY <1>0, <1>1, ContentKept DEF Check, CheckTurn, Acquire, Land, Others
<1>2. CASE FallingHop
  BY <1>2, CopyContent DEF FallingHop, Copying
<1>3. CASE SecureHop
  <2>1. CASE Die
    BY <1>0, <2>1, ContentKept DEF Die
  <2>2. CASE /\ tpc = "read" /\ at = 1 => bufs[active] # Closed
             /\ tpc = "write" => bufs[Target] # Closed
             /\ Copy("land")
    BY <1>3, <2>2, CopyContent DEF SecureHop, Copying
  <2>3. QED
    BY <1>3, <2>1, <2>2 DEF SecureHop
<1>4. CASE NHop
  <2>1. CASE Die
    BY <1>0, <2>1, ContentKept DEF Die
  <2>2. CASE Copy("land")
    BY <1>4, <2>2, CopyContent DEF NHop, Copying
  <2>3. CASE UNCHANGED <<box, at, held>> /\ Step("land")
    BY <1>0, <2>3, ContentKept DEF Step
  <2>4. QED
    BY <1>4, <2>1, <2>2, <2>3 DEF NHop
<1>5. CASE ZeroingHop
  <2>1. CASE Die
    BY <1>0, <2>1, ContentKept DEF Die
  <2>2. CASE Copy("zero")
    BY <1>5, <2>2, CopyContent DEF ZeroingHop, Copying
  <2>3. CASE UNCHANGED <<box, at, held>> /\ Step("land")
    BY <1>0, <2>3, ContentKept DEF Step
  <2>4. CASE /\ tpc = "zero" /\ at <= Pieces /\ at <= Len(bufs[active])
             /\ bufs' = [bufs EXCEPT ![active][at] = 0] /\ at' = at + 1
             /\ UNCHANGED <<active, key, held>> /\ Step("zero")
    <3>1. kind = "zeroing" /\ kind \in Copying \ {"mapped"} /\ active \in Slots /\ at \in Nat \ {0}
      BY <1>5 DEF ZeroingHop, Copying, TypeOK
    <3>2. bufs[active] \in Seq({0, 1}) /\ Len(bufs[active]) <= Pieces
      BY <3>1 DEF ShapeInv, TypeOK
    <3>3. PICK b : b = [bufs[active] EXCEPT ![at] = 0]
      OBVIOUS
    <3>4. b \in Seq({0, 1}) /\ Len(b) = Len(bufs[active])
      BY <2>4, <3>1, <3>2, <3>3, ExceptSeq
    <3>5. bufs' = [bufs EXCEPT ![active] = b]
      BY <2>4, <3>1, <3>3 DEF TypeOK
    <3>6. b \in Seq(Values) /\ Len(b) <= Pieces
      BY <3>2, <3>4, SmallBytes
    <3>7. BufsOK' /\ bufs'[active] = b /\ \A u \in Slots : u # active => bufs'[u] = bufs[u]
      BY <1>0, <3>1, <3>5, <3>6, ReplaceOne
    <3>8. ShapeInv'
      BY <1>0, <2>4, <3>1, <3>4, <3>7 DEF ShapeInv, Step, Ratcheting, Copying
    <3>9. QED
      BY <2>4, <3>7, <3>8 DEF TypeOK
  <2>5. QED
    BY <1>5, <2>1, <2>2, <2>3, <2>4 DEF ZeroingHop
<1>6. CASE EncryptedHop
  <2>1. kind \in Ratcheting /\ kind = "encrypted" /\ key \in 0 .. NumKeys + 1
    BY <1>6 DEF EncryptedHop, Ratcheting, TypeOK
  <2>2. CASE Die
    BY <1>0, <2>2, ContentKept DEF Die
  <2>3. CASE tpc = "write" /\ bufs' = <<held>> /\ UNCHANGED <<active, key, at, held>> /\ Step("land")
    BY <1>0, <2>1, <2>3, SealedContent DEF Step
  <2>4. CASE bufs' = bufs /\ held' = held /\ tpc' \in {"turn", "seal"}
    BY <1>0, <2>1, <2>4, KeyedContent
  <2>5. CASE bufs' = bufs /\ held' = <<key>>
    <3>1. \E k \in 0 .. NumKeys + 1 : held' = <<k>>
      BY <2>1, <2>5
    <3>2. QED
      BY <1>0, <2>1, <2>5, <3>1, KeyedContent
  <2>6. QED
    BY <1>6, <2>2, <2>3, <2>4, <2>5 DEF EncryptedHop, Step
<1>7. CASE CombinedHop
  <2>1. kind \in Ratcheting /\ kind = "combined" /\ key \in 0 .. NumKeys + 1
    BY <1>7 DEF CombinedHop, Ratcheting, TypeOK
  <2>2. CASE Die
    BY <1>0, <2>2, ContentKept DEF Die
  <2>3. CASE tpc = "write" /\ bufs' = <<held>> /\ UNCHANGED <<active, key, at, held>> /\ Step("land")
    BY <1>0, <2>1, <2>3, SealedContent DEF Step
  <2>4. CASE tpc = "seal" /\ bufs' = bufs /\ held' = held
    BY <1>0, <2>1, <2>4, KeyedContent
  <2>5. CASE bufs' = bufs /\ held' = <<key>>
    <3>1. \E k \in 0 .. NumKeys + 1 : held' = <<k>>
      BY <2>1, <2>5
    <3>2. QED
      BY <1>0, <2>1, <2>5, <3>1, KeyedContent
  <2>6. CASE tpc = "turn" /\ bufs' = bufs /\ held' = <<NextKey(held[1])>>
    <3>1. PICK k \in 0 .. NumKeys + 1 : held = <<k>>
      BY <2>1, <2>6 DEF ShapeInv
    <3>2. NextKey(held[1]) \in 0 .. NumKeys + 1
      BY <3>1, RatchetRange, FallingAssumption DEF NextKey
    <3>3. QED
      BY <1>0, <2>1, <2>6, <3>2, KeyedContent
  <2>7. QED
    BY <1>7, <2>2, <2>3, <2>4, <2>5, <2>6 DEF CombinedHop, FetchRaises, Step
<1>8. CASE PortsHop
  <2>1. /\ kind = "ports" /\ kind \notin Ratcheting \cup Copying /\ Slots = 1 .. 1
        /\ Pieces = NumBoxes + extra /\ NumBoxes \in Nat \ {0} /\ extra \in 0 .. NumBoxes - 1
    BY <1>8, Classes, FallingAssumption DEF PortsHop, Ratcheting, Copying, TypeOK
  <2>2. PICK b : b = [p \in 1 .. NumBoxes |->
                        bufs[1][CHOOSE i \in PortsBefore(p) : \A j \in PortsBefore(p) : j <= i]]
    OBVIOUS
  <2>3. DOMAIN b = 1 .. NumBoxes /\ {b[p] : p \in 1 .. NumBoxes} = extra + 1 .. extra + NumBoxes
    <3>1. kind = "ports"
      BY <2>1
    <3>2. QED
      BY <2>2, <3>1, PortsTurn
  <2>4. b \in Seq(Values) /\ Len(b) = NumBoxes
    <3>1. extra + 1 .. extra + NumBoxes \subseteq Values
      BY <2>1 DEF Values
    <3>2. \A p \in 1 .. NumBoxes : b[p] \in Values
      BY <2>3, <3>1
    <3>3. b \in [1 .. NumBoxes -> Values]
      BY <2>2, <3>2
    <3>4. QED
      BY <2>1, <3>3
  <2>5. bufs' = <<b>>
    BY <1>8, <2>2 DEF PortsHop
  <2>6. BufsOK'
    BY <1>0, <2>1, <2>4, <2>5 DEF BufsOK
  <2>7. held' = held /\ key' = key /\ key = 0
    BY <1>8, <2>1 DEF PortsHop, ShapeInv
  <2>8. ShapeInv'
    BY <1>0, <2>1, <2>7 DEF ShapeInv
  <2>9. QED
    BY <2>6, <2>7, <2>8 DEF TypeOK
<1>9. CASE \E r \in Readers : Snapshot(r)
  BY <1>0, <1>9, ContentKept DEF Snapshot, Pause, Lock, Resume, Reconstruct, FallingSnapshot,
     SecureSnapshot, EncryptedSnapshot, CombinedSnapshot, Taken, Fails, Caller
<1>10. CASE SetStop \/ Join \/ StopFallingFile
  BY <1>0, <1>10, ContentKept DEF SetStop, Join, StopFallingFile, Drop
<1>11. CASE CollapseEncryptedBox \/ CollapseCombinedBox
  <2>1. kind \in Ratcheting /\ held' = held /\ tpc' = tpc /\ Slots = 1 .. 1 /\ Pieces = 1
    BY <1>11, Classes DEF CollapseEncryptedBox, CollapseCombinedBox, DropKeyed, Drop, Ratcheting
  <2>2. CASE bufs' = bufs
    BY <1>0, <2>1, <2>2, KeyedContent
  <2>3. CASE bufs' = <<Closed>>
    <3>1. BufsOK'
      <4>1. Slots' = 1 .. 1 /\ Pieces' = 1
        BY <1>0, <2>1
      <4>2. Closed \in Seq(Values) /\ Len(Closed) <= 1
        BY SmallBytes
      <4>3. QED
        BY <2>3, <4>1, <4>2, OnlyBuffer
    <3>2. kind' \in Ratcheting /\ kind' \notin Copying /\ kind' # "mapped"
      BY <1>0, <2>1 DEF Ratcheting, Copying
    <3>3. ShapeInv'
      <4>1. tpc = "write" \/ (kind = "combined" /\ tpc \in {"turn", "seal"}) =>
              \E k \in 0 .. NumKeys + 1 : held = <<k>>
        BY <2>1 DEF ShapeInv
      <4>2. QED
        BY <1>0, <2>1, <3>2, <4>1 DEF ShapeInv
    <3>4. held' \in Seq(0 .. NumKeys + 1)
      BY <2>1 DEF TypeOK
    <3>5. QED
      BY <3>1, <3>3, <3>4
  <2>4. QED
    BY <1>11, <2>2, <2>3 DEF CollapseEncryptedBox, CollapseCombinedBox, DropKeyed
<1>12. CASE CollapseFallingBox \/ CollapseSecureBox \/ CollapseZeroingBox
  <2>1. PICK empty \in {<<>>, Closed} :
            DropBoth(empty) /\ (empty = Closed <=> kind = "mapped")
    BY <1>12, OneByte DEF CollapseFallingBox, CollapseSecureBox, CollapseZeroingBox, Closed
  <2>2. kind \in {"plain", "mapped", "zeroing"} /\ kind \in Copying
    BY <1>12 DEF CollapseFallingBox, CollapseSecureBox, CollapseZeroingBox, Copying
  <2>3. Slots = 1 .. 2 /\ Pieces \in Nat \ {0}
    BY <2>2, Classes
  <2>4. empty \in Seq(Values) /\ Len(empty) <= Pieces
    <3>1. <<>> \in Seq(Values) /\ Len(<<>>) = 0
      OBVIOUS
    <3>2. Closed \in Seq(Values) /\ Len(Closed) <= Pieces
      BY <2>3, SmallBytes
    <3>3. Len(<<>>) <= Pieces
      BY <2>3, <3>1
    <3>4. empty = <<>> \/ empty = Closed
      BY <2>1
    <3>5. QED
      BY <3>1, <3>2, <3>3, <3>4, Zenon
  <2>5. PICK s \in Slots : bufs' = [bufs EXCEPT ![s] = empty]
    BY <2>1, <2>3 DEF DropBoth
  <2>6. BufsOK' /\ bufs'[s] = empty /\ \A u \in Slots : u # s => bufs'[u] = bufs[u]
    BY <1>0, <2>2, <2>4, <2>5, ReplaceOne
  <2>7. key' = key /\ held' = held /\ tpc' = tpc
    BY <2>1 DEF DropBoth, Drop
  <2>8. <<>> \in Seq({0, 1})
    OBVIOUS
  <2>9. ShapeInv'
    BY <1>0, <2>1, <2>6, <2>7, <2>8 DEF ShapeInv
  <2>10. QED
    BY <2>6, <2>7, <2>9 DEF TypeOK
<1>13. CASE CollapseNFallingBox
  <2>1. kind = "many" /\ bufs' = [s \in Slots |-> <<>>] /\ key' = key /\ held' = held /\ tpc' = tpc
    BY <1>13 DEF CollapseNFallingBox, Drop
  <2>2. BufsOK'
    BY <1>0, <2>1, Classes DEF BufsOK
  <2>3. ShapeInv'
    BY <1>0, <2>1 DEF ShapeInv
  <2>4. QED
    BY <2>1, <2>2, <2>3 DEF TypeOK
<1>14. CASE UNCHANGED vars
  BY <1>0, <1>14, ContentKept DEF vars
<1>15. QED
  BY <1>1, <1>2, <1>3, <1>4, <1>5, <1>6, <1>7, <1>8, <1>9, <1>10, <1>11, <1>12, <1>13, <1>14
  DEF Next, Thread, Collapse

\* What the types say of the rest.
ControlOK ==
    /\ kind \in Copying \cup Ratcheting \cup {"ports"} /\ extra \in 0 .. NumBoxes - 1
    /\ active \in Slots
    /\ key \in 0 .. NumKeys + 1
    /\ lock \in {Nobody, "thread"} \cup Readers
    /\ paused \in BOOLEAN /\ stop \in BOOLEAN
    /\ tpc \in {"check", "lock", "read", "write", "zero", "turn", "seal", "land", "ended"}
    /\ at \in 1 .. NumChunks + 1 /\ hops \in {0, 1}
    /\ timedOut \in BOOLEAN
    /\ rpc \in [Readers -> {"idle", "lock", "locked", "clear", "done", "raised"}]
    /\ cpc \in {"no", "join", "first", "second", "done"}

LEMMA ControlStep ==
    ASSUME TypeOK, StopInv, PlaceInv, ShapeInv, [Next]_vars
    PROVE  ControlOK'
<1>a. ControlOK
  BY DEF TypeOK, ControlOK
<1> USE <1>a DEF ControlOK, thread, reader, box
<1>0. kind' = kind /\ extra' = extra /\ Slots' = Slots
  BY SameClass
<1>p. Pieces \in Nat \ {0} /\ (kind \in Copying => Pieces <= NumChunks) /\ NumChunks \in Nat \ {0}
  BY Classes, FallingAssumption DEF Copying
<1>t. Target \in Slots
  BY NextBuffer
<1>1. CASE Check \/ Acquire
  BY <1>0, <1>1, <1>p DEF Check, CheckTurn, Acquire, Others
<1>2. CASE Land
  <2>1. active' \in Slots' /\ hops' \in {0, 1}
    BY <1>0, <1>2, <1>t DEF Land
  <2>2. QED
    BY <1>0, <1>2, <2>1 DEF Land, Others
<1>c. ASSUME kind \in Copying, NEW after, after \in {"land", "zero"}, Copy(after) PROVE ControlOK'
  <2>1. at' \in 1 .. NumChunks + 1
    BY <1>c, <1>p DEF Copy, PlaceInv
  <2>2. QED
    BY <1>0, <1>c, <2>1 DEF Copy, Step, Others
<1>d. ASSUME Die PROVE ControlOK'
  BY <1>0, <1>d DEF Die, Others
<1>m. ASSUME UNCHANGED <<box, at>>, NEW pc, pc \in {"write", "turn", "seal", "land"}, Step(pc)
      PROVE  ControlOK'
  BY <1>0, <1>m DEF Step, Others
<1>3. CASE FallingHop
  BY <1>3, <1>c DEF FallingHop, Copying
<1>4. CASE SecureHop
  BY <1>4, <1>c, <1>d DEF SecureHop, Copying
<1>5. CASE NHop
  <2>1. CASE Copy("land")
    BY <1>5, <1>c, <2>1 DEF NHop, Copying
  <2>2. CASE Die
    BY <1>d, <2>2
  <2>3. CASE UNCHANGED <<box, at, held>> /\ Step("land")
    BY <1>m, <2>3
  <2>4. QED
    BY <1>5, <2>1, <2>2, <2>3 DEF NHop
<1>6. CASE ZeroingHop
  <2>1. CASE Copy("zero")
    BY <1>6, <1>c, <2>1 DEF ZeroingHop, Copying
  <2>2. CASE Die
    BY <1>d, <2>2
  <2>3. CASE UNCHANGED <<box, at, held>> /\ Step("land")
    BY <1>m, <2>3
  <2>4. CASE at <= Pieces /\ at' = at + 1 /\ UNCHANGED <<active, key, held>> /\ Step("zero")
    <3>1. at' \in 1 .. NumChunks + 1
      BY <1>6, <1>p, <2>4 DEF ZeroingHop, Copying
    <3>2. QED
      BY <1>0, <2>4, <3>1 DEF Step, Others
  <2>5. QED
    BY <1>6, <2>1, <2>2, <2>3, <2>4 DEF ZeroingHop
<1>7. CASE EncryptedHop
  <2>1. CASE Die
    BY <1>d, <2>1
  <2>2. CASE UNCHANGED <<box, at>> /\ \E pc \in {"turn", "write"} : Step(pc)
    BY <1>m, <2>2
  <2>3. CASE key' = Ratchet(key) /\ UNCHANGED <<bufs, active, at, held>> /\ Step("seal")
    <3>1. key' \in 0 .. NumKeys + 1
      BY <2>3, RatchetRange, FallingAssumption
    <3>2. QED
      BY <1>0, <2>3, <3>1 DEF Step, Others
  <2>4. CASE UNCHANGED <<active, key, at, held>> /\ Step("land")
    BY <1>0, <2>4 DEF Step, Others
  <2>5. QED
    BY <1>7, <2>1, <2>2, <2>3, <2>4 DEF EncryptedHop
<1>8. CASE CombinedHop
  <2>1. CASE Die
    BY <1>d, <2>1
  <2>2. CASE UNCHANGED <<box, at>> /\ \E pc \in {"turn", "seal"} : Step(pc)
    BY <1>m, <2>2
  <2>3. CASE tpc = "seal" /\ key' = held[1] /\ UNCHANGED <<bufs, active, at, held>> /\ Step("write")
    <3>1. PICK k \in 0 .. NumKeys + 1 : held = <<k>>
      BY <1>8, <2>3 DEF ShapeInv, CombinedHop, Ratcheting
    <3>2. key' \in 0 .. NumKeys + 1
      BY <2>3, <3>1
    <3>3. QED
      BY <1>0, <2>3, <3>2 DEF Step, Others
  <2>4. CASE UNCHANGED <<active, key, at, held>> /\ Step("land")
    BY <1>0, <2>4 DEF Step, Others
  <2>5. QED
    BY <1>8, <2>1, <2>2, <2>3, <2>4 DEF CombinedHop, FetchRaises
<1>9. CASE PortsHop
  BY <1>0, <1>9 DEF PortsHop, Step, Others
<1>10. ASSUME NEW r \in Readers, Snapshot(r) PROVE ControlOK'
  <2>1. \E pc \in {"lock", "locked", "clear", "done", "raised"} : Caller(r, pc)
    BY <1>10 DEF Snapshot, Pause, Lock, Resume, Reconstruct, FallingSnapshot, SecureSnapshot,
       EncryptedSnapshot, CombinedSnapshot, Taken, Fails
  <2>2. lock' \in {lock, Nobody, r} /\ paused' \in {paused, TRUE, FALSE}
    BY <1>10 DEF Snapshot, Pause, Lock, Resume, Reconstruct, FallingSnapshot, SecureSnapshot,
       EncryptedSnapshot, CombinedSnapshot, Taken, Fails
  <2>3. UNCHANGED <<active, key>>
    BY <1>10 DEF Snapshot, Pause, Lock, Resume, Reconstruct, FallingSnapshot, SecureSnapshot,
       EncryptedSnapshot, CombinedSnapshot, Taken, Fails, Caller
  <2>4. rpc' \in [Readers -> {"idle", "lock", "locked", "clear", "done", "raised"}]
    BY <2>1 DEF Caller
  <2>5. lock' \in {Nobody, "thread"} \cup Readers /\ paused' \in BOOLEAN
    BY <2>2
  <2>6. UNCHANGED <<kind, extra, stop, thread, timedOut, cpc>>
    BY <2>1 DEF Caller
  <2>7. QED
    BY <1>0, <2>3, <2>4, <2>5, <2>6
<1>11. CASE Join
  BY <1>0, <1>11 DEF Join
<1>b. CASE Collapse /\ ~Join
  <2>1. /\ key' \in {key, 0} /\ stop' \in {stop, TRUE}
        /\ cpc' \in {"join", "first", "second", "done"}
        /\ UNCHANGED <<kind, extra, active, lock, paused, thread, timedOut, rpc>>
    BY <1>b DEF Collapse, SetStop, CollapseFallingBox, CollapseSecureBox, CollapseZeroingBox,
       CollapseNFallingBox, CollapseEncryptedBox, CollapseCombinedBox, StopFallingFile,
       DropBoth, DropKeyed, Drop
  <2>2. NumKeys \in Nat
    BY FallingAssumption
  <2>3. key' \in 0 .. NumKeys + 1
    BY <2>1, <2>2
  <2>4. stop' \in BOOLEAN
    BY <2>1
  <2>5. QED
    BY <1>0, <2>1, <2>3, <2>4, SMTT(30)
<1>12. CASE UNCHANGED vars
  BY <1>0, <1>12 DEF vars
<1>13. QED
  BY <1>1, <1>2, <1>3, <1>4, <1>5, <1>6, <1>7, <1>8, <1>9, <1>10, <1>11, <1>b, <1>12 DEF Next, Thread

\* A caller of snapshot() leaves box and thread alone.
LEMMA ReadersOnlyRead ==
    ASSUME (\E r \in Readers : Snapshot(r)) \/ UNCHANGED vars
    PROVE  UNCHANGED <<kind, extra, box, stop, thread, timedOut, cpc>>
BY DEF Snapshot, Pause, Lock, Resume, Reconstruct, FallingSnapshot, SecureSnapshot,
   EncryptedSnapshot, CombinedSnapshot, Taken, Fails, Caller, vars

\* Before the flag is set only the thread and the callers of snapshot() are at the box.
LEMMA BeforeStop ==
    ASSUME StopInv, [Next]_vars, ~stop'
    PROVE  ~stop /\ cpc = "no" /\ (Thread \/ (\E r \in Readers : Snapshot(r)) \/ UNCHANGED vars)
<1>1. CASE Collapse
  BY <1>1 DEF StopInv, Collapse, SetStop, Join, CollapseFallingBox, CollapseSecureBox,
     CollapseZeroingBox, CollapseNFallingBox, CollapseEncryptedBox, CollapseCombinedBox,
     StopFallingFile, DropBoth, DropKeyed, Drop
<1>2. CASE Thread
  BY <1>2 DEF StopInv, Thread, Check, CheckTurn, Acquire, Land, FallingHop, SecureHop, NHop,
     ZeroingHop, EncryptedHop, CombinedHop, FetchRaises, PortsHop, Copy, Die, Step, Others
<1>3. CASE \E r \in Readers : Snapshot(r)
  BY <1>3, ReadersOnlyRead DEF StopInv
<1>4. CASE UNCHANGED vars
  BY <1>4 DEF StopInv, vars
<1>5. QED
  BY <1>1, <1>2, <1>3, <1>4 DEF Next

\* With two buffers, the one after the next is the present one.
LEMMA TwoBuffers ==
    ASSUME Slots' = 1 .. 2, active' \in 1 .. 2
    PROVE  Target' = 3 - active'
<1>1. Cardinality(1 .. 2) = 2
  <2>1. \A n \in Nat : Cardinality(1 .. n) = n
    BY FS_Interval
  <2>2. QED
    BY <2>1
<1>2. Target' = 1 + (active' % 2)
  BY <1>1 DEF Target
<1>3. active' = 1 \/ active' = 2
  OBVIOUS
<1>4. 1 % 2 = 1 /\ 2 % 2 = 0
  OBVIOUS
<1>5. QED
  BY <1>2, <1>3, <1>4

\* A step of the loop over the pieces.
LEMMA CopyLoop ==
    ASSUME TypeOK, PlaceInv, ShapeInv, CopyInv, ZeroInv, kind \in Copying, ~stop,
           NEW after, after = IF kind = "zeroing" THEN "zero" ELSE "land",
           kind = "mapped" => /\ tpc = "read" /\ at = 1 => bufs[active] # Closed
                              /\ tpc = "write" => bufs[Target] # Closed,
           Copy(after)
    PROVE  CopyInv' /\ ZeroInv'
<1> USE DEF Step, Others, thread, reader, box
<1>0. kind' = kind /\ extra' = extra /\ Slots' = Slots /\ Pieces' = Pieces /\ Data' = Data /\ Zeros' = Zeros
      /\ stop' = stop /\ active' = active /\ Target' = Target
  BY SameBox DEF Copy, Target
<1>1. /\ Target \in Slots /\ active \in Slots /\ Target # active
      /\ Pieces \in Nat \ {0} /\ at \in Nat \ {0}
      /\ Len(Data) = Pieces /\ \A i \in 1 .. Pieces : Data[i] = 1
  BY NextBuffer, Classes, Contents DEF TypeOK
<1>2. \A s \in Slots : Len(bufs[s]) = Pieces
  BY DEF CopyInv
<1>3. CASE tpc = "read" /\ at <= Pieces
  <2>1. held' = Piece(bufs[active], at) /\ bufs' = bufs /\ tpc' = "write" /\ at' = at
    BY <1>1, <1>3 DEF Copy
  <2>2. bufs[active] = Data /\ \A i \in 1 .. at - 1 : bufs[Target][i] = 1
    BY <1>3 DEF CopyInv
  <2>3. kind = "mapped" => bufs[active] # Closed
    BY <1>1, <2>2, OneByte DEF Closed
  <2>4. held' = <<1>>
    <3>1. Piece(bufs[active], at) = <<bufs[active][at]>>
      BY <1>1, <1>2, <1>3, <2>3, ReadOne
    <3>2. bufs[active][at] = 1
      BY <1>1, <1>3, <2>2
    <3>3. QED
      BY <2>1, <3>1, <3>2
  <2>5. CopyInv'
    BY <1>0, <1>2, <2>1, <2>2, <2>4 DEF CopyInv
  <2>6. ZeroInv'
    BY <2>1 DEF ZeroInv, Hopping
  <2>7. QED
    BY <2>5, <2>6
<1>4. CASE tpc = "write"
  <2>1. bufs' = [bufs EXCEPT ![Target] = Assign(bufs[Target], at, held)] /\ tpc' = "read" /\ at' = at + 1
    BY <1>4 DEF Copy
  <2>2. PICK b : b = Assign(bufs[Target], at, held)
    OBVIOUS
  <2>3. held = <<1>> /\ bufs[active] = Data /\ \A i \in 1 .. at - 1 : bufs[Target][i] = 1
    BY <1>4 DEF CopyInv
  <2>4. /\ b \in Seq({0, 1}) /\ Len(b) = Pieces
        /\ \A j \in 1 .. Pieces : b[j] = IF j = at THEN 1 ELSE bufs[Target][j]
    BY <1>1, <1>2, <1>4, <2>2, <2>3, WriteOne
  <2>5. b \in Seq(Values) /\ Len(b) <= Pieces
    BY <1>1, <2>4, SmallBytes
  <2>6. bufs'[Target] = b /\ \A u \in Slots : u # Target => bufs'[u] = bufs[u]
    BY <1>0, <1>1, <2>1, <2>2, <2>5, ReplaceOne
  <2>7. \A s \in Slots : Len(bufs'[s]) = Pieces
    BY <1>2, <2>4, <2>6
  <2>8. at <= Pieces
    BY <1>4 DEF PlaceInv
  <2>9. \A i \in 1 .. at' - 1 : bufs'[Target][i] = 1
    BY <1>1, <2>1, <2>3, <2>4, <2>6, <2>8
  <2>10. CopyInv'
    BY <1>0, <1>1, <2>1, <2>3, <2>6, <2>7, <2>9 DEF CopyInv
  <2>11. ZeroInv'
    BY <2>1 DEF ZeroInv, Hopping
  <2>12. QED
    BY <2>10, <2>11
<1>5. CASE tpc = "read" /\ at > Pieces
  <2>1. bufs' = bufs /\ tpc' = after /\ at' = 1
    BY <1>1, <1>5 DEF Copy
  <2>2. at = Pieces + 1
    BY <1>1, <1>5 DEF PlaceInv
  <2>3. bufs[active] = Data /\ \A i \in 1 .. Pieces : bufs[Target][i] = 1
    BY <1>1, <1>5, <2>2 DEF CopyInv
  <2>4. bufs[Target] = Data
    <3>1. bufs[Target] \in Seq(Values) /\ Len(bufs[Target]) = Pieces
      BY <1>1, <1>2 DEF TypeOK
    <3>2. QED
      BY <2>3, <3>1, Contained
  <2>5. CopyInv'
    BY <1>0, <1>2, <2>1, <2>3, <2>4 DEF CopyInv
  <2>6. ZeroInv'
    BY <1>0, <2>1 DEF ZeroInv, Hopping
  <2>7. QED
    BY <2>5, <2>6
<1>6. QED
  BY <1>1, <1>3, <1>4, <1>5 DEF Copy

\* Data and zeros are where they belong after every step of a box that nobody collapses.
LEMMA CopyStep ==
    ASSUME TypeOK, StopInv, PlaceInv, ShapeInv, CopyInv, ZeroInv, [Next]_vars
    PROVE  CopyInv' /\ ZeroInv'
<1> USE DEF Others, thread, reader, box
<1>0. kind' = kind /\ extra' = extra /\ Slots' = Slots /\ Pieces' = Pieces /\ Data' = Data /\ Zeros' = Zeros
  BY SameClass
<1>1. SUFFICES ASSUME kind \in Copying, ~stop, ~stop', cpc = "no",
                      Thread \/ (\E r \in Readers : Snapshot(r)) \/ UNCHANGED vars
               PROVE  CopyInv' /\ ZeroInv'
  <2>1. stop' \/ kind \notin Copying => CopyInv' /\ ZeroInv'
    BY <1>0 DEF CopyInv, ZeroInv, Copying
  <2>2. QED
    BY <2>1, BeforeStop
<1>2. /\ Target \in Slots /\ active \in Slots /\ Target # active
      /\ Pieces \in Nat \ {0} /\ at \in Nat \ {0}
      /\ \A s \in Slots : Len(bufs[s]) = Pieces
  BY <1>1, NextBuffer, Classes DEF TypeOK, CopyInv
<1>t. active' = active => Target' = Target
  BY <1>0 DEF Target
<1>k. kind \notin Ratcheting /\ kind # "ports"
  BY <1>1 DEF Copying, Ratcheting
<1>3. CASE Check
  <2>1. UNCHANGED <<bufs, active>> /\ tpc = "check" /\ tpc' = "lock"
    BY <1>1, <1>3 DEF Check, CheckTurn
  <2>2. bufs[active] = Data /\ (kind = "zeroing" => bufs[Target] = Zeros)
    BY <1>1, <2>1 DEF CopyInv, ZeroInv, Hopping
  <2>3. CopyInv'
    BY <1>0, <1>2, <1>t, <2>1, <2>2 DEF CopyInv
  <2>4. ZeroInv'
    BY <1>0, <1>t, <2>1, <2>2 DEF ZeroInv
  <2>5. QED
    BY <2>3, <2>4
<1>4. CASE Acquire
  <2>1. UNCHANGED <<bufs, active>> /\ tpc = "lock" /\ tpc' = "read" /\ at' = 1
    BY <1>4 DEF Acquire
  <2>2. bufs[active] = Data
    BY <1>1, <2>1 DEF CopyInv
  <2>3. CopyInv'
    BY <1>0, <1>2, <1>t, <2>1, <2>2 DEF CopyInv
  <2>4. ZeroInv'
    BY <1>0, <2>1 DEF ZeroInv, Hopping
  <2>5. QED
    BY <2>3, <2>4
<1>5. CASE Land
  <2>1. bufs' = bufs /\ active' = Target /\ tpc = "land" /\ tpc' = "check"
    BY <1>5 DEF Land
  <2>2. bufs[Target] = Data
    BY <1>1, <2>1 DEF CopyInv
  <2>3. CopyInv'
    BY <1>0, <1>2, <2>1, <2>2 DEF CopyInv
  <2>4. ASSUME kind = "zeroing" PROVE bufs'[Target'] = Zeros
    <3>1. Slots = 1 .. 2 /\ Slots' = 1 .. 2
      BY <1>0, <2>4, Classes
    <3>2. active' \in 1 .. 2 /\ active \in 1 .. 2 /\ active # active'
      BY <1>2, <2>1, <3>1
    <3>3. Target' = active
      BY <3>1, <3>2, TwoBuffers
    <3>4. QED
      BY <1>1, <2>1, <2>4, <3>3 DEF ZeroInv
  <2>5. ZeroInv'
    BY <1>0, <2>1, <2>4 DEF ZeroInv
  <2>6. QED
    BY <2>3, <2>5
<1>6. CASE FallingHop
  BY <1>1, <1>6, CopyLoop DEF FallingHop
<1>7. CASE SecureHop
  <2>1. CASE Die
    <3>1. UNCHANGED <<bufs, active, kind>> /\ tpc' = "ended" /\ tpc \in {"read", "write"} /\ kind = "mapped"
      BY <1>7, <2>1 DEF Die, SecureHop, Copy, Step
    <3>2. bufs[active] = Data
      BY <1>1, <3>1 DEF CopyInv
    <3>3. CopyInv'
      BY <1>0, <1>2, <1>t, <3>1, <3>2 DEF CopyInv
    <3>4. ZeroInv'
      BY <1>0, <3>1 DEF ZeroInv
    <3>5. QED
      BY <3>3, <3>4
  <2>2. CASE /\ tpc = "read" /\ at = 1 => bufs[active] # Closed
             /\ tpc = "write" => bufs[Target] # Closed
             /\ Copy("land")
    BY <1>1, <1>7, <2>2, CopyLoop DEF SecureHop
  <2>3. QED
    BY <1>7, <2>1, <2>2 DEF SecureHop
<1>8. CASE NHop
  BY <1>1, <1>8, CopyLoop DEF NHop
<1>9. CASE ZeroingHop
  <2>1. CASE Copy("zero")
    BY <1>1, <1>9, <2>1, CopyLoop DEF ZeroingHop
  <2>2. CASE /\ tpc = "zero" /\ at <= Pieces /\ at <= Len(bufs[active])
             /\ bufs' = [bufs EXCEPT ![active][at] = 0] /\ at' = at + 1
             /\ UNCHANGED <<active, key, held>> /\ Step("zero")
    <3>1. bufs[Target] = Data /\ \A i \in 1 .. at - 1 : bufs[active][i] = 0
      BY <1>1, <1>9, <2>2 DEF CopyInv, ZeroInv, ZeroingHop
    <3>2. PICK b : b = [bufs[active] EXCEPT ![at] = 0]
      OBVIOUS
    <3>3. bufs[active] \in Seq({0, 1})
      BY <1>2, <1>9 DEF ShapeInv, ZeroingHop, Copying
    <3>4. /\ b \in Seq({0, 1}) /\ Len(b) = Pieces
          /\ \A i \in 1 .. Pieces : b[i] = IF i = at THEN 0 ELSE bufs[active][i]
      BY <1>2, <2>2, <3>2, <3>3
    <3>5. b \in Seq(Values) /\ Len(b) <= Pieces
      BY <1>2, <3>4, SmallBytes
    <3>6. bufs' = [bufs EXCEPT ![active] = b]
      BY <1>2, <2>2, <3>2 DEF TypeOK
    <3>7. bufs'[active] = b /\ \A u \in Slots : u # active => bufs'[u] = bufs[u]
      BY <1>0, <1>1, <1>2, <3>5, <3>6, ReplaceOne
    <3>8. \A i \in 1 .. at' - 1 : bufs'[active][i] = 0
      BY <1>2, <2>2, <3>1, <3>4, <3>7
    <3>9. tpc' = "zero" /\ active' = active
      BY <2>2 DEF Step
    <3>10. CopyInv'
      BY <1>0, <1>2, <1>t, <3>1, <3>4, <3>7, <3>9 DEF CopyInv
    <3>11. ZeroInv'
      BY <1>0, <3>8, <3>9 DEF ZeroInv, Hopping
    <3>12. QED
      BY <3>10, <3>11
  <2>3. CASE tpc = "zero" /\ at <= Pieces /\ at > Len(bufs[active]) /\ Die
    BY <1>2, <2>3
  <2>4. CASE /\ tpc = "zero" /\ (at > Pieces \/ (at = 1 /\ bufs[active] = <<>>))
             /\ UNCHANGED <<box, at, held>> /\ Step("land")
    <3>1. at = Pieces + 1
      <4>1. bufs[active] # <<>>
        BY <1>2
      <4>2. at <= Pieces + 1
        BY <1>1, <2>4 DEF PlaceInv
      <4>3. QED
        BY <1>2, <2>4, <4>1, <4>2
    <3>2. bufs[Target] = Data /\ \A i \in 1 .. Pieces : bufs[active][i] = 0
      BY <1>1, <1>2, <1>9, <2>4, <3>1 DEF CopyInv, ZeroInv, ZeroingHop
    <3>3. bufs[active] = Zeros
      <4>1. bufs[active] \in Seq(Values) /\ Len(bufs[active]) = Pieces
        BY <1>2 DEF TypeOK
      <4>2. QED
        BY <1>1, <3>2, <4>1, Contained
    <3>4. UNCHANGED <<bufs, active>> /\ tpc' = "land" /\ kind = "zeroing"
      BY <1>9, <2>4 DEF Step, ZeroingHop
    <3>5. QED
      BY <1>0, <1>2, <1>t, <3>2, <3>3, <3>4 DEF CopyInv, ZeroInv, Hopping
  <2>5. QED
    BY <1>9, <2>1, <2>2, <2>3, <2>4 DEF ZeroingHop
<1>10. CASE EncryptedHop \/ CombinedHop \/ PortsHop
  BY <1>k, <1>10 DEF EncryptedHop, CombinedHop, PortsHop, Ratcheting
<1>11. CASE (\E r \in Readers : Snapshot(r)) \/ UNCHANGED vars
  <2>1. UNCHANGED <<bufs, active, tpc, at, held>>
    BY <1>11, ReadersOnlyRead
  <2>2. QED
    BY <1>0, <1>1, <1>t, <2>1 DEF CopyInv, ZeroInv
<1>12. QED
  BY <1>1, <1>3, <1>4, <1>5, <1>6, <1>7, <1>8, <1>9, <1>10, <1>11 DEF Thread

\* The key opens the ciphertext after every step but those of the hop.
LEMMA KeyStep ==
    ASSUME TypeOK, StopInv, PlaceInv, ShapeInv, KeyInv, [Next]_vars
    PROVE  KeyInv'
<1> USE DEF Others, thread, reader, box
<1>0. kind' = kind /\ extra' = extra /\ Data' = Data
  BY SameClass
<1>1. SUFFICES ASSUME kind \in Ratcheting, ~stop, ~stop', cpc = "no",
                      Thread \/ (\E r \in Readers : Snapshot(r)) \/ UNCHANGED vars
               PROVE  KeyInv'
  <2>1. stop' \/ kind \notin Ratcheting => KeyInv'
    BY <1>0 DEF KeyInv
  <2>2. QED
    BY <2>1, BeforeStop
<1>2. kind \notin Copying /\ kind # "ports" /\ key \in 1 .. NumKeys
  BY <1>1 DEF Copying, Ratcheting, KeyInv
<1>c. \A k \in 1 .. NumKeys : <<k>> # Closed
  <2>1. \A k \in 1 .. NumKeys : <<k>>[1] = k /\ k # -1
    OBVIOUS
  <2>2. Closed[1] = -1
    BY DEF Closed
  <2>3. QED
    BY <2>1, <2>2
<1>b. bufs[1] # Closed
  BY <1>1 DEF KeyInv
<1>r. Ratchet(key) \in 1 .. NumKeys
  <2>1. key \in 0 .. NumKeys + 1 /\ key # 0
    BY <1>2, FallingAssumption
  <2>2. QED
    BY <2>1, RatchetRange
<1>3. CASE Check \/ Acquire \/ Land
  <2>1. UNCHANGED <<bufs, key>> /\ tpc \in {"check", "lock", "land"} /\ tpc' \in {"check", "lock", "read", "ended"}
    BY <1>3 DEF Check, CheckTurn, Acquire, Land
  <2>2. QED
    BY <1>0, <1>1, <1>b, <1>c, <2>1 DEF KeyInv
<1>4. CASE FallingHop \/ SecureHop \/ NHop \/ ZeroingHop \/ PortsHop
  BY <1>2, <1>4 DEF FallingHop, SecureHop, NHop, ZeroingHop, PortsHop, Copying
<1>5. CASE EncryptedHop
  <2>1. kind = "encrypted" /\ (tpc \notin {"seal", "write"} => bufs[1] = <<key>>)
        /\ (tpc = "write" => held = <<key>>)
    BY <1>1, <1>5 DEF EncryptedHop, KeyInv
  <2>2. CASE tpc = "read" /\ bufs[1] # <<key>> /\ Die
    BY <2>1, <2>2
  <2>3. CASE tpc = "read" /\ UNCHANGED <<box, at, held>> /\ Step("turn")
    BY <1>0, <1>2, <1>b, <1>c, <2>1, <2>3 DEF KeyInv, Step
  <2>4. CASE tpc = "turn" /\ key' = Ratchet(key) /\ UNCHANGED <<bufs, active, at, held>> /\ Step("seal")
    BY <1>0, <1>r, <1>b, <1>c, <2>1, <2>4 DEF KeyInv, Step
  <2>5. CASE tpc = "seal" /\ held' = <<key>> /\ UNCHANGED <<box, at>> /\ Step("write")
    BY <1>0, <1>2, <1>b, <1>c, <2>1, <2>5 DEF KeyInv, Step
  <2>6. CASE tpc = "write" /\ bufs[1] = Closed /\ Die
    BY <1>1, <2>6 DEF KeyInv
  <2>7. CASE tpc = "write" /\ bufs' = <<held>> /\ UNCHANGED <<active, key, at, held>> /\ Step("land")
    BY <1>0, <1>2, <1>b, <1>c, <2>1, <2>7 DEF KeyInv, Step
  <2>8. QED
    BY <1>5, <2>2, <2>3, <2>4, <2>5, <2>6, <2>7 DEF EncryptedHop
<1>6. CASE CombinedHop
  <2>1. kind = "combined" /\ (tpc # "write" => bufs[1] = <<key>>)
        /\ (tpc = "write" => held = <<key>>)
        /\ (tpc = "turn" => held = <<key>>) /\ (tpc = "seal" => held = <<Ratchet(key)>>)
    BY <1>1, <1>6 DEF CombinedHop, KeyInv
  <2>2. CASE tpc \in {"read", "turn", "seal"} /\ Die
    BY <1>0, <1>2, <1>b, <1>c, <2>1, <2>2 DEF KeyInv, Die
  <2>3. CASE tpc = "read" /\ held' = <<key>> /\ UNCHANGED <<box, at>> /\ Step("turn")
    BY <1>0, <1>2, <1>b, <1>c, <2>1, <2>3 DEF KeyInv, Step
  <2>4. CASE tpc = "turn" /\ held' = <<NextKey(held[1])>> /\ UNCHANGED <<box, at>> /\ Step("seal")
    <3>1. held' = <<Ratchet(key)>>
      BY <2>1, <2>4 DEF NextKey
    <3>2. Ratchet(key)' = Ratchet(key)
      BY <2>4 DEF Ratchet
    <3>3. QED
      BY <1>0, <1>2, <1>b, <1>c, <2>1, <2>4, <3>1, <3>2 DEF KeyInv, Step
  <2>5. CASE tpc = "seal" /\ key' = held[1] /\ UNCHANGED <<bufs, active, at, held>> /\ Step("write")
    <3>1. key' = Ratchet(key) /\ held' = <<key'>>
      BY <2>1, <2>5
    <3>2. QED
      BY <1>0, <1>r, <1>b, <1>c, <2>1, <2>5, <3>1 DEF KeyInv, Step
  <2>6. CASE tpc = "write" /\ bufs[1] = Closed /\ Die
    BY <1>1, <2>6 DEF KeyInv
  <2>7. CASE tpc = "write" /\ bufs' = <<held>> /\ UNCHANGED <<active, key, at, held>> /\ Step("land")
    BY <1>0, <1>2, <1>b, <1>c, <2>1, <2>7 DEF KeyInv, Step
  <2>8. QED
    BY <1>6, <2>2, <2>3, <2>4, <2>5, <2>6, <2>7 DEF CombinedHop, FetchRaises
<1>7. CASE (\E r \in Readers : Snapshot(r)) \/ UNCHANGED vars
  <2>1. UNCHANGED <<bufs, key, tpc, held>>
    BY <1>7, ReadersOnlyRead
  <2>2. Ratchet(key)' = Ratchet(key)
    BY <2>1 DEF Ratchet
  <2>3. QED
    BY <1>0, <1>1, <1>b, <1>c, <2>1, <2>2 DEF KeyInv
<1>8. QED
  BY <1>1, <1>3, <1>4, <1>5, <1>6, <1>7 DEF Thread

\* The pieces of the prototype go round the ports together: from the first hop on none is
\* lost, none doubled.
LEMMA PortsStep ==
    ASSUME TypeOK, PortsInv, [Next]_vars
    PROVE  PortsInv'
<1> USE DEF Others, thread, reader, box
<1>0. kind' = kind /\ extra' = extra /\ Data' = Data
  BY SameClass
<1>1. SUFFICES ASSUME kind = "ports"
               PROVE  PortsInv'
  BY <1>0 DEF PortsInv
<1>2. kind \notin Copying /\ kind \notin Ratcheting
  BY <1>1 DEF Copying, Ratcheting
<1>3. CASE PortsHop
  <2>1. PICK b : b = [p \in 1 .. NumBoxes |->
                        bufs[1][CHOOSE i \in PortsBefore(p) : \A j \in PortsBefore(p) : j <= i]]
    OBVIOUS
  <2>2. bufs' = <<b>>
    BY <1>3, <2>1 DEF PortsHop
  <2>3. DOMAIN b = 1 .. NumBoxes /\ {b[p] : p \in 1 .. NumBoxes} = extra + 1 .. extra + NumBoxes
    BY <1>1, <2>1, PortsTurn
  <2>4. bufs'[1] = b
    BY <2>2
  <2>5. QED
    BY <1>0, <2>3, <2>4 DEF PortsInv
<1>4. CASE FallingHop \/ SecureHop \/ NHop \/ ZeroingHop \/ EncryptedHop \/ CombinedHop
  BY <1>1, <1>4 DEF FallingHop, SecureHop, NHop, ZeroingHop, EncryptedHop, CombinedHop
<1>5. CASE Check \/ Acquire \/ Land
  BY <1>0, <1>5 DEF Check, CheckTurn, Acquire, Land, PortsInv
<1>6. CASE (\E r \in Readers : Snapshot(r)) \/ UNCHANGED vars
  BY <1>0, <1>6, ReadersOnlyRead DEF PortsInv
<1>7. CASE Collapse
  BY <1>0, <1>1, <1>7 DEF Collapse, SetStop, Join, CollapseFallingBox, CollapseSecureBox,
     CollapseZeroingBox, CollapseNFallingBox, CollapseEncryptedBox, CollapseCombinedBox,
     StopFallingFile, Drop, PortsInv
<1>8. QED
  BY <1>3, <1>4, <1>5, <1>6, <1>7 DEF Next, Thread


\* A step of collapse() that drops something.
LEMMA DropsMore ==
    ASSUME TypeOK, StopInv, ShapeInv, DropInv, [Next]_vars, Collapse, ~(SetStop \/ Join)
    PROVE  DropInv'
<1> USE DEF thread, reader, box
<1>0. kind' = kind /\ Slots' = Slots
  BY SameClass
<1>5. cpc \in {"first", "second"} /\ UNCHANGED <<thread, timedOut>>
  BY DEF Collapse, CollapseFallingBox, CollapseSecureBox, CollapseZeroingBox,
     CollapseNFallingBox, CollapseEncryptedBox, CollapseCombinedBox, StopFallingFile, DropBoth,
     DropKeyed, Drop
<1>7. ASSUME NEW empty \in {<<>>, Closed}, kind \in {"plain", "mapped", "zeroing"}, DropBoth(empty),
             empty = Closed <=> kind = "mapped"
      PROVE  DropInv'
  <2>1. Slots = 1 .. 2 /\ kind \notin Ratcheting
    BY <1>7, Classes DEF Ratcheting
  <2>2. CASE cpc = "first"
    <3>1. bufs' = [bufs EXCEPT ![1] = empty] /\ cpc' = "second"
      BY <1>7, <2>2 DEF DropBoth, Drop
    <3>2. bufs'[1] = empty
      BY <2>1, <3>1 DEF TypeOK
    <3>3. empty = IF kind = "mapped" THEN Closed ELSE <<>>
      BY <1>7
    <3>4. QED
      BY <1>0, <1>7, <3>1, <3>2, <3>3 DEF DropInv
  <2>3. CASE cpc = "second"
    <3>1. bufs' = [bufs EXCEPT ![2] = empty] /\ cpc' = "done"
      BY <1>7, <2>3 DEF DropBoth, Drop
    <3>2. bufs'[2] = empty /\ bufs'[1] = bufs[1]
      BY <2>1, <3>1 DEF TypeOK
    <3>3. kind = "mapped" => bufs[1] = Closed /\ empty = Closed
      BY <1>7, <2>3 DEF DropInv
    <3>4. kind \in {"plain", "zeroing"} /\ ~timedOut => bufs[1] = <<>>
      BY <2>3 DEF DropInv
    <3>5. kind = "mapped" => \A s \in Slots' : bufs'[s] = Closed
      BY <1>0, <2>1, <3>2, <3>3
    <3>6. kind \in {"plain", "zeroing"} /\ ~timedOut => \A s \in Slots' : bufs'[s] \in {<<>>, Closed}
      BY <1>0, <2>1, <3>2, <3>4
    <3>7. BuffersAreGone'
      BY <1>0, <1>5, <1>7, <3>5, <3>6 DEF BuffersAreGone
    <3>8. QED
      BY <1>0, <1>7, <2>1, <3>1, <3>5, <3>7 DEF DropInv, Mapped
  <2>4. QED
    BY <1>5, <2>2, <2>3
<1>8. CASE CollapseFallingBox \/ CollapseSecureBox \/ CollapseZeroingBox
  <2>1. <<>> # Closed
    BY DEF Closed
  <2>2. QED
    BY <1>7, <1>8, <2>1 DEF CollapseFallingBox, CollapseSecureBox, CollapseZeroingBox
<1>9. CASE CollapseNFallingBox
  <2>1. bufs' = [s \in Slots |-> <<>>] /\ cpc' = "done" /\ kind = "many" /\ kind \notin Mapped
    BY <1>9 DEF CollapseNFallingBox, Drop, Ratcheting, Mapped
  <2>2. \A s \in Slots' : bufs'[s] \in {<<>>, Closed}
    BY <1>0, <2>1
  <2>3. QED
    BY <1>0, <2>1, <2>2 DEF DropInv, BuffersAreGone
<1>10. CASE CollapseEncryptedBox \/ CollapseCombinedBox
  <2>1. kind \in Ratcheting /\ kind \notin {"plain", "mapped", "zeroing", "many", "ports"} /\ DropKeyed
    BY <1>10 DEF CollapseEncryptedBox, CollapseCombinedBox, Ratcheting
  <2>2. CASE cpc = "first"
    <3>1. cpc' = "second"
      BY <2>1, <2>2 DEF DropKeyed, Drop
    <3>2. QED
      BY <1>0, <2>1, <3>1 DEF DropInv
  <2>3. CASE cpc = "second"
    <3>1. bufs' = <<Closed>> /\ cpc' = "done"
      BY <2>1, <2>3 DEF DropKeyed, Drop
    <3>2. Slots' = 1 .. 1
      BY <1>0, <2>1, Classes
    <3>3. \A s \in Slots' : bufs'[s] = Closed
      BY <3>1, <3>2
    <3>4. QED
      BY <1>0, <2>1, <3>1, <3>3 DEF DropInv, BuffersAreGone
  <2>4. QED
    BY <1>5, <2>2, <2>3
<1>11. CASE StopFallingFile
  <2>1. kind = "ports" /\ cpc' = "done" /\ kind \notin Mapped
    BY <1>11 DEF StopFallingFile, Drop, Ratcheting, Mapped
  <2>2. QED
    BY <1>0, <2>1 DEF DropInv, BuffersAreGone
<1>12. QED
  BY <1>8, <1>9, <1>10, <1>11 DEF Collapse

\* What is dropped stays dropped: the thread has ended, or it raises where it would write,
\* or it has lists in hand that nobody else has.
LEMMA DropStep ==
    ASSUME TypeOK, StopInv, ShapeInv, DropInv, [Next]_vars
    PROVE  DropInv'
<1> USE DEF thread, reader, box
<1>0. kind' = kind /\ Slots' = Slots
  BY SameClass
<1>1. SUFFICES ASSUME cpc' \in {"second", "done"}
               PROVE  DropInv'
  BY DEF DropInv
<1>2. CASE Thread
  <2>1. cpc' = cpc /\ timedOut' = timedOut /\ tpc # "ended"
    BY <1>2 DEF Thread, Check, CheckTurn, Acquire, Land, FallingHop, SecureHop, NHop, ZeroingHop,
       EncryptedHop, CombinedHop, FetchRaises, PortsHop, Copy, Die, Step, Others
  <2>2. timedOut
    BY <1>1, <2>1 DEF StopInv
  <2>3. CASE kind = "mapped"
    <3>1. Slots = 1 .. 2 /\ Slots = {active, Target}
      BY <2>3, Classes, NextBuffer
    <3>2. \A s \in Slots : bufs[s] = Closed => bufs'[s] = Closed
      <4>1. CASE bufs' = bufs
        BY <4>1
      <4>2. CASE bufs[Target] # Closed /\ bufs' = [bufs EXCEPT ![Target] = Assign(@, at, held)]
        BY <4>2 DEF TypeOK
      <4>3. QED
        BY <1>2, <2>3, <4>1, <4>2 DEF Thread, Check, CheckTurn, Acquire, Land, FallingHop, SecureHop,
           NHop, ZeroingHop, EncryptedHop, CombinedHop, PortsHop, Copy, Die
    <3>3. cpc = "done" => \A s \in Slots : bufs'[s] = Closed
      BY <2>3, <3>2 DEF DropInv, Mapped
    <3>4. QED
      BY <1>0, <2>1, <2>3, <3>1, <3>2, <3>3 DEF DropInv, BuffersAreGone
  <2>4. CASE kind = "many"
    <3>1. cpc = "done" => bufs' = bufs
      BY <1>2, <2>4 DEF Thread, Check, CheckTurn, Acquire, Land, FallingHop, SecureHop, NHop,
         ZeroingHop, EncryptedHop, CombinedHop, PortsHop, Die, Ratcheting
    <3>2. QED
      BY <1>0, <2>1, <2>4, <3>1 DEF DropInv, BuffersAreGone
  <2>5. CASE kind \in Ratcheting
    <3>1. bufs[1] = Closed => bufs' = bufs
      BY <1>2, <2>5 DEF Thread, Check, CheckTurn, Acquire, Land, FallingHop, SecureHop, NHop,
         ZeroingHop, EncryptedHop, CombinedHop, FetchRaises, PortsHop, Die, Ratcheting
    <3>2. Slots = 1 .. 1 /\ kind \notin {"plain", "mapped", "zeroing", "many", "ports"} /\ kind \in Mapped
      BY <2>5, Classes DEF Ratcheting, Mapped
    <3>3. cpc = "done" => \A s \in Slots : bufs'[s] = Closed
      BY <3>1, <3>2 DEF DropInv
    <3>4. BuffersAreGone' \/ cpc # "done"
      BY <1>0, <3>3 DEF BuffersAreGone
    <3>5. QED
      BY <1>0, <2>1, <3>2, <3>3, <3>4 DEF DropInv
  <2>6. CASE kind \in {"plain", "zeroing", "ports"}
    <3>1. kind \notin Mapped /\ kind # "mapped"
      BY <2>6 DEF Mapped, Ratcheting
    <3>2. BuffersAreGone'
      BY <1>0, <2>1, <2>2, <2>6 DEF BuffersAreGone
    <3>3. QED
      BY <1>0, <2>1, <2>2, <3>1, <3>2 DEF DropInv, Mapped
  <2>7. QED
    BY <2>3, <2>4, <2>5, <2>6 DEF TypeOK, Copying
<1>3. CASE (\E r \in Readers : Snapshot(r)) \/ UNCHANGED vars
  <2>1. UNCHANGED <<kind, box, timedOut, cpc>>
    BY <1>3, ReadersOnlyRead
  <2>2. QED
    BY <1>0, <2>1 DEF DropInv, BuffersAreGone
<1>4. CASE SetStop \/ Join
  BY <1>1, <1>4 DEF SetStop, Join
<1>5. CASE Collapse /\ ~(SetStop \/ Join)
  BY <1>1, <1>5, DropsMore
<1>6. QED
  BY <1>2, <1>3, <1>4, <1>5 DEF Next

\* The key stays wiped: a guard that has collapsed takes no other, and the one hop that may
\* still ratchet a wiped bytearray does so once.
LEMMA WipedStep ==
    ASSUME TypeOK, StopInv, ShapeInv, WipedInv, [Next]_vars
    PROVE  WipedInv'
<1> USE DEF thread, reader, box
<1>1. SUFFICES ASSUME cpc' \in {"second", "done"}
               PROVE  WipedInv'
  BY DEF WipedInv
<1>k. kind' = kind
  BY SameClass
<1>2. CASE Thread
  <2>1. cpc' = cpc /\ timedOut' = timedOut /\ tpc # "ended"
    BY <1>2 DEF Thread, Check, CheckTurn, Acquire, Land, FallingHop, SecureHop, NHop, ZeroingHop,
       EncryptedHop, CombinedHop, FetchRaises, PortsHop, Copy, Die, Step, Others
  <2>2. timedOut /\ stop
    BY <1>1, <2>1 DEF StopInv
  <2>3. CASE Check \/ Acquire \/ Land
    BY <1>k, <2>1, <2>2, <2>3 DEF Check, CheckTurn, Acquire, Land, Others, WipedInv, Ratchet
  <2>4. CASE FallingHop \/ SecureHop \/ NHop \/ ZeroingHop \/ PortsHop
    BY <1>1, <1>k, <2>1, <2>4 DEF FallingHop, SecureHop, NHop, ZeroingHop, PortsHop, Copy, Die, Step, WipedInv
  <2>5. CASE EncryptedHop
    <3>1. kind = "encrypted"
      BY <2>5 DEF EncryptedHop
    <3>2. CASE tpc = "turn"
      <4>1. key = 0
        BY <1>1, <2>1, <3>2 DEF WipedInv
      <4>2. key' = Ratchet(0) /\ tpc' = "seal"
        BY <2>5, <3>2, <4>1 DEF EncryptedHop, Die, Step
      <4>3. QED
        BY <1>k, <2>1, <2>2, <3>1, <4>2 DEF WipedInv, Ratchet
    <3>3. CASE tpc # "turn"
      <4>1. key' = key
        BY <2>5, <3>3 DEF EncryptedHop, Die, Step
      <4>2. tpc \in {"seal", "write"} => tpc' \in {"write", "land", "ended"}
        BY <2>5 DEF EncryptedHop, Die, Step
      <4>3. tpc \in {"read", "seal", "write"}
        BY <2>5, <3>3 DEF EncryptedHop
      <4>4. QED
        BY <1>1, <1>k, <2>1, <3>1, <4>1, <4>2, <4>3 DEF WipedInv, Ratchet
    <3>4. QED
      BY <3>2, <3>3
  <2>6. CASE CombinedHop
    <3>1. kind = "combined" /\ key = 0
      BY <1>1, <2>1, <2>6 DEF CombinedHop, WipedInv
    <3>2. key' = key
      BY <2>6, <3>1 DEF CombinedHop, FetchRaises, Die, Step
    <3>3. QED
      BY <3>1, <3>2 DEF WipedInv
  <2>7. QED
    BY <1>2, <2>3, <2>4, <2>5, <2>6 DEF Thread
<1>3. CASE (\E r \in Readers : Snapshot(r)) \/ UNCHANGED vars
  <2>1. UNCHANGED <<kind, box, thread, timedOut, cpc>>
    BY <1>3, ReadersOnlyRead
  <2>2. QED
    BY <2>1 DEF WipedInv, Ratchet
<1>4. CASE SetStop \/ Join
  BY <1>1, <1>4 DEF SetStop, Join
<1>5. CASE CollapseFallingBox \/ CollapseSecureBox \/ CollapseZeroingBox \/ CollapseNFallingBox
           \/ StopFallingFile
  <2>1. key' = key /\ kind \notin Ratcheting
    BY <1>5 DEF CollapseFallingBox, CollapseSecureBox, CollapseZeroingBox, CollapseNFallingBox,
       StopFallingFile, DropBoth, Ratcheting
  <2>2. QED
    BY <2>1 DEF WipedInv, ShapeInv
<1>6. CASE CollapseEncryptedBox \/ CollapseCombinedBox
  <2>1. DropKeyed /\ UNCHANGED <<kind, thread, timedOut>>
    BY <1>6 DEF CollapseEncryptedBox, CollapseCombinedBox, DropKeyed, Drop
  <2>2. CASE key' = 0
    BY <2>2 DEF WipedInv
  <2>3. CASE key' = key /\ cpc = "second"
    BY <2>1, <2>3 DEF WipedInv, Ratchet
  <2>4. QED
    BY <2>1, <2>2, <2>3 DEF DropKeyed, Drop
<1>7. QED
  BY <1>2, <1>3, <1>4, <1>5, <1>6 DEF Next, Collapse

\* The data of a box, and what is written of the prototype's pieces in their order.
LEMMA DataIsSeq ==
    ASSUME TypeOK
    PROVE  Data \in Seq(Values)
<1>1. /\ Pieces \in Nat /\ (kind = "ports" => Pieces = NumBoxes + extra)
      /\ NumBoxes \in Nat /\ NumKeys \in Nat /\ extra \in 0 .. NumBoxes - 1
  BY Classes, FallingAssumption DEF TypeOK
<1>2. 1 \in Values
  BY <1>1 DEF Values
<1>3. kind = "ports" => \A i \in 1 .. Pieces : i \in Values
  BY <1>1 DEF Values
<1>4. QED
  BY <1>1, <1>2, <1>3 DEF Data

LEMMA PortsInOrder ==
    ASSUME TypeOK, PortsInv, kind = "ports", NEW b, b = Sorted({bufs[1][p] : p \in DOMAIN bufs[1]})
    PROVE  b \in Seq(Values) /\ (b = Data \/ (extra > 0 /\ b = Survivors))
<1>1. NumBoxes \in Nat \ {0} /\ extra \in 0 .. NumBoxes - 1 /\ Pieces = NumBoxes + extra
  BY Classes, FallingAssumption DEF TypeOK
<1>2. Data = [i \in 1 .. NumBoxes + extra |-> i] /\ Survivors = [i \in 1 .. NumBoxes |-> extra + i]
  BY <1>1 DEF Data, Survivors
<1>3. CASE bufs[1] = Data
  <2>1. DOMAIN bufs[1] = 1 .. NumBoxes + extra /\ \A i \in 1 .. NumBoxes + extra : bufs[1][i] = i
    BY <1>2, <1>3
  <2>2. {bufs[1][p] : p \in DOMAIN bufs[1]} = 0 + 1 .. 0 + (NumBoxes + extra)
    BY <1>1, <2>1
  <2>3. NumBoxes + extra \in Nat /\ 0 \in Nat
    BY <1>1
  <2>4. b = [i \in 1 .. NumBoxes + extra |-> 0 + i]
    BY <2>2, <2>3, SortedPieces, Zenon
  <2>5. [i \in 1 .. NumBoxes + extra |-> 0 + i] = [i \in 1 .. NumBoxes + extra |-> i]
    BY <1>1
  <2>6. b = Data
    BY <1>2, <2>4, <2>5
  <2>7. QED
    BY <2>6, DataIsSeq
<1>4. CASE /\ DOMAIN bufs[1] = 1 .. NumBoxes
           /\ {bufs[1][p] : p \in 1 .. NumBoxes} = extra + 1 .. extra + NumBoxes
  <2>1. {bufs[1][p] : p \in DOMAIN bufs[1]} = extra + 1 .. extra + NumBoxes
    BY <1>4
  <2>2. NumBoxes \in Nat /\ extra \in Nat
    BY <1>1
  <2>3. b = [i \in 1 .. NumBoxes |-> extra + i]
    BY <2>1, <2>2, SortedPieces, Zenon
  <2>4. b = Survivors
    BY <1>2, <2>3
  <2>5. extra = 0 => b = Data
    <3>1. extra = 0 => NumBoxes + extra = NumBoxes /\ \A i \in 1 .. NumBoxes : extra + i = i
      BY <1>1
    <3>2. QED
      BY <1>2, <2>3, <3>1
  <2>6. \A i \in 1 .. NumBoxes : extra + i \in Values
    BY <1>1 DEF Values
  <2>7. b \in [1 .. NumBoxes -> Values]
    BY <2>3, <2>6
  <2>8. b \in Seq(Values)
    BY <2>2, <2>7
  <2>9. QED
    BY <1>1, <2>4, <2>5, <2>8
<1>5. QED
  BY <1>3, <1>4 DEF PortsInv

\* Who has the lock reads the data: the thread is not in the middle of a hop.
LEMMA LockedReadsData ==
    ASSUME TypeOK, LockInv, CopyInv, KeyInv, NEW r \in Readers, rpc[r] = "locked", ~stop
    PROVE  /\ kind \in Copying => bufs[active] = Data
           /\ kind = "mapped" => bufs[active] # Closed
           /\ kind \in Ratcheting => bufs[1] = <<key>>
<1>1. tpc \notin Hopping
  <2>1. lock = r /\ r # "thread"
    BY FallingAssumption DEF LockInv
  <2>2. QED
    BY <2>1 DEF LockInv
<1>2. kind \in Copying => bufs[active] = Data
  BY <1>1 DEF CopyInv, Hopping
<1>3. kind \in Ratcheting => bufs[1] = <<key>>
  BY <1>1 DEF KeyInv, Hopping
<1>4. kind = "mapped" => Data # Closed
  <2>1. kind = "mapped" => Data = <<1>>
    BY Contents DEF Copying
  <2>2. <<1>>[1] # Closed[1]
    BY DEF Closed
  <2>3. QED
    BY <2>1, <2>2
<1>5. QED
  BY <1>2, <1>3, <1>4 DEF Copying

\* A snapshot() of a box that nobody collapses never fails, and has all the data.
LEMMA SnapshotStep ==
    ASSUME TypeOK, LockInv, CopyInv, KeyInv, PortsInv, SnapshotIsWhole, [Next]_vars
    PROVE  SnapshotIsWhole' /\ got' \in [Readers -> Seq(Values)]
<1> USE DEF reader
<1>0. Data' = Data /\ extra' = extra /\ Survivors' = Survivors
  BY SameClass
<1>t. got \in [Readers -> Seq(Values)] /\ rpc \in [Readers -> {"idle", "lock", "locked", "clear", "done", "raised"}]
  BY DEF TypeOK
<1>1. ASSUME UNCHANGED reader, stop' = stop \/ stop'
      PROVE  SnapshotIsWhole' /\ got' \in [Readers -> Seq(Values)]
  BY <1>0, <1>1, <1>t DEF SnapshotIsWhole
<1>2. CASE Thread
  <2>1. UNCHANGED <<reader, stop>>
    BY <1>2 DEF Thread, Check, CheckTurn, Acquire, Land, FallingHop, SecureHop, NHop, ZeroingHop,
       EncryptedHop, CombinedHop, FetchRaises, PortsHop, Copy, Die, Step, Others
  <2>2. QED
    BY <1>1, <2>1
<1>3. CASE Collapse
  <2>1. UNCHANGED reader /\ (stop' = stop \/ stop')
    BY <1>3 DEF Collapse, SetStop, Join, CollapseFallingBox, CollapseSecureBox, CollapseZeroingBox,
       CollapseNFallingBox, CollapseEncryptedBox, CollapseCombinedBox, StopFallingFile, DropBoth,
       DropKeyed, Drop
  <2>2. QED
    BY <1>1, <2>1
<1>4. CASE UNCHANGED vars
  BY <1>1, <1>4 DEF vars
<1>5. ASSUME NEW r \in Readers, Snapshot(r)
      PROVE  SnapshotIsWhole' /\ got' \in [Readers -> Seq(Values)]
  <2>0. stop' = stop
    BY <1>5, ReadersOnlyRead
  <2>1. ASSUME NEW pc, rpc' = [rpc EXCEPT ![r] = pc], got' = got,
               pc # "raised", pc \in {"clear", "done"} => rpc[r] = "clear"
        PROVE  SnapshotIsWhole' /\ got' \in [Readers -> Seq(Values)]
    BY <1>0, <1>t, <2>0, <2>1 DEF SnapshotIsWhole
  <2>2. ASSUME NEW b \in Seq(Values), NEW pc, rpc' = [rpc EXCEPT ![r] = pc], got' = [got EXCEPT ![r] = b],
               pc # "raised", ~stop => b = Data \/ (extra > 0 /\ b = Survivors)
        PROVE  SnapshotIsWhole' /\ got' \in [Readers -> Seq(Values)]
    BY <1>0, <1>t, <2>0, <2>2 DEF SnapshotIsWhole
  <2>3. CASE Pause(r) \/ Lock(r) \/ Resume(r)
    BY <2>1, <2>3 DEF Pause, Lock, Resume, Caller
  <2>4. ASSUME NEW b \in Seq(Values), Taken(r, b), ~stop => b = Data
        PROVE  SnapshotIsWhole' /\ got' \in [Readers -> Seq(Values)]
    BY <2>2, <2>4 DEF Taken, Caller
  <2>5. ASSUME Fails(r), stop
        PROVE  SnapshotIsWhole' /\ got' \in [Readers -> Seq(Values)]
    BY <1>t, <2>0, <2>5 DEF SnapshotIsWhole, Fails
  <2>6. active \in Slots /\ bufs[active] \in Seq(Values) /\ Data \in Seq(Values)
    BY DataIsSeq DEF TypeOK
  <2>7. CASE FallingSnapshot(r)
    <3>1. ~stop => bufs[active] = Data
      BY <2>7, LockedReadsData DEF FallingSnapshot, Taken, Copying
    <3>2. QED
      BY <2>4, <2>6, <2>7, <3>1 DEF FallingSnapshot
  <2>8. CASE SecureSnapshot(r)
    <3>1. rpc[r] = "locked"
      BY <2>8 DEF SecureSnapshot, Taken, Fails
    <3>2. ~stop => bufs[active] = Data /\ bufs[active] # Closed
      BY <2>8, <3>1, LockedReadsData DEF SecureSnapshot, Copying
    <3>3. QED
      BY <2>4, <2>5, <2>6, <2>8, <3>2 DEF SecureSnapshot
  <2>9. CASE EncryptedSnapshot(r) \/ CombinedSnapshot(r)
    <3>1. rpc[r] = "locked" /\ kind \in Ratcheting
      BY <2>9 DEF EncryptedSnapshot, CombinedSnapshot, Taken, Fails, Ratcheting
    <3>2. ~stop => bufs[1] = <<key>>
      BY <3>1, LockedReadsData
    <3>3. QED
      BY <2>4, <2>5, <2>6, <2>9, <3>2 DEF EncryptedSnapshot, CombinedSnapshot
  <2>10. CASE Reconstruct(r)
    <3>1. kind = "ports"
      BY <2>10 DEF Reconstruct
    <3>2. PICK b : b = Sorted({bufs[1][p] : p \in DOMAIN bufs[1]})
      OBVIOUS
    <3>6. b \in Seq(Values) /\ (b = Data \/ (extra > 0 /\ b = Survivors))
      BY <3>1, <3>2, PortsInOrder
    <3>3. CASE got' = got /\ Caller(r, "lock")
      BY <2>1, <3>3 DEF Caller
    <3>4. CASE /\ got' = [got EXCEPT ![r] = Sorted({bufs[1][p] : p \in DOMAIN bufs[1]})]
               /\ Caller(r, "done")
      BY <2>2, <3>2, <3>4, <3>6 DEF Caller
    <3>5. QED
      BY <2>10, <3>3, <3>4 DEF Reconstruct
  <2>11. QED
    BY <1>5, <2>3, <2>7, <2>8, <2>9, <2>10 DEF Snapshot
<1>6. QED
  BY <1>2, <1>3, <1>4, <1>5 DEF Next

-----------------------------------------------------------------------------
(* The theorems.                                                           *)

\* A box as its constructor leaves it: data in one buffer, zeros in the others, or a
\* ciphertext of its first key, and a thread at the head of its loop.
LEMMA Starts ==
    ASSUME Init
    PROVE  IInv
<1>0. /\ active = 1 /\ lock = Nobody /\ paused = FALSE /\ stop = FALSE
      /\ tpc = "check" /\ at = 1 /\ held = <<>> /\ hops = 0
      /\ timedOut = FALSE /\ extra \in 0 .. NumBoxes - 1
      /\ rpc = [r \in Readers |-> "idle"] /\ got = [r \in Readers |-> <<>>]
      /\ cpc = "no" /\ kind \in Copying \cup Ratcheting \cup {"ports"}
  BY FallingAssumption DEF Init
<1>1. /\ kind \in {"plain", "mapped", "zeroing"} => Slots = 1 .. 2 /\ bufs = <<Data, Zeros>> /\ key = 0
      /\ kind = "many" => /\ Slots = 1 .. NumBoxes /\ key = 0
                          /\ bufs = [s \in Slots |-> IF s = 1 THEN Data ELSE Zeros]
      /\ kind \in Ratcheting => Slots = 1 .. 1 /\ bufs = <<<<1>>>> /\ key = 1
      /\ kind = "ports" => Slots = 1 .. 1 /\ bufs = <<Data>> /\ key = 0
  <2>1. /\ kind = "plain" => NewFallingBox
        /\ kind = "mapped" => NewSecureBox
        /\ kind = "many" => NewNFallingBox
        /\ kind = "zeroing" => NewZeroingBox
        /\ kind = "encrypted" => NewEncryptedBox
        /\ kind = "combined" => NewCombinedBox
        /\ kind = "ports" => NewFallingFile
    BY DEF Init
  <2>2. QED
    BY <1>0, <2>1, ClassesOf DEF NewFallingBox, NewSecureBox, NewNFallingBox, NewZeroingBox,
       NewEncryptedBox, NewCombinedBox, NewFallingFile, Copying, Ratcheting
<1>2. /\ Pieces \in Nat \ {0} /\ (kind = "ports" => Pieces = NumBoxes + extra)
      /\ kind \in Ratcheting => Pieces = 1
  BY <1>0, ClassesOf
<1>3. NumBoxes \in Nat \ {0, 1} /\ NumKeys \in Nat \ {0, 1} /\ NumChunks \in Nat \ {0}
  BY FallingAssumption
<1>4. Data \in Seq(Values) /\ Zeros \in Seq(Values) /\ Len(Data) = Pieces /\ Len(Zeros) = Pieces
  <2>1. 0 \in Values /\ 1 \in Values /\ \A i \in 1 .. NumBoxes + extra : i \in Values
    BY <1>0, <1>3 DEF Values
  <2>2. Zeros \in Seq(Values) /\ Len(Zeros) = Pieces
    BY <1>2, <2>1 DEF Zeros
  <2>3. CASE kind = "ports"
    <3>1. Data = [i \in 1 .. NumBoxes + extra |-> i]
      BY <1>2, <2>3 DEF Data
    <3>2. QED
      BY <1>0, <1>2, <1>3, <2>1, <2>2, <2>3, <3>1
  <2>4. CASE kind # "ports"
    <3>1. Data = [i \in 1 .. Pieces |-> 1]
      BY <2>4 DEF Data
    <3>2. QED
      BY <1>2, <2>1, <2>2, <3>1
  <2>5. QED
    BY <2>3, <2>4
<1>5. <<1>> \in Seq(Values) /\ Len(<<1>>) = 1
  <2>1. 1 \in Values
    BY <1>3 DEF Values
  <2>2. QED
    BY <2>1, OneByte
<1>6. BufsOK /\ active \in Slots
  <2>1. CASE kind \in {"plain", "mapped", "zeroing"}
    <3>1. bufs = <<Data, Zeros>> /\ Slots = 1 .. 2
      BY <1>1, <2>1
    <3>2. DOMAIN bufs = Slots /\ \A s \in Slots : bufs[s] \in {Data, Zeros}
      BY <3>1
    <3>3. QED
      BY <1>0, <1>2, <1>4, <3>1, <3>2 DEF BufsOK
  <2>2. CASE kind = "many"
    <3>1. bufs = [s \in Slots |-> IF s = 1 THEN Data ELSE Zeros] /\ 1 \in Slots
      BY <1>1, <1>3, <2>2
    <3>2. QED
      BY <1>0, <1>2, <1>4, <3>1 DEF BufsOK
  <2>3. CASE kind \in Ratcheting
    <3>1. bufs = <<<<1>>>> /\ Slots = 1 .. 1 /\ Pieces = 1
      BY <1>1, <1>2, <2>3
    <3>2. bufs[1] = <<1>> /\ DOMAIN bufs = 1 .. 1
      BY <3>1
    <3>5. \A s \in Slots : bufs[s] = <<1>>
      BY <3>1, <3>2
    <3>6. bufs = [s \in Slots |-> <<1>>]
      BY <3>1
    <3>3. bufs \in [Slots -> Seq(Values)] /\ \A s \in Slots : bufs[s] = <<1>>
      BY <1>5, <3>5, <3>6
    <3>4. QED
      BY <1>0, <1>5, <3>1, <3>3 DEF BufsOK
  <2>4. CASE kind = "ports"
    <3>1. bufs = <<Data>> /\ Slots = 1 .. 1
      BY <1>1, <2>4
    <3>2. bufs[1] = Data /\ DOMAIN bufs = 1 .. 1
      BY <3>1
    <3>3. QED
      BY <1>0, <1>2, <1>4, <3>1, <3>2 DEF BufsOK
  <2>5. QED
    BY <1>0, <2>1, <2>2, <2>3, <2>4 DEF Copying
<1>7. TypeOK
  <2>1. key \in 0 .. NumKeys + 1 /\ at \in 1 .. NumChunks + 1
    BY <1>0, <1>1, <1>3 DEF Copying
  <2>2. held \in Seq(0 .. NumKeys + 1) /\ got \in [Readers -> Seq(Values)]
    BY <1>0
  <2>3. timedOut \in BOOLEAN
    BY <1>0
  <2>4. rpc \in [Readers -> {"idle", "lock", "locked", "clear", "done", "raised"}]
    BY <1>0
  <2>5. QED
    BY <1>0, <1>6, <2>1, <2>2, <2>3, <2>4, Zenon DEF TypeOK, BufsOK
<1>8. LockInv /\ StopInv /\ PlaceInv /\ SnapshotIsWhole /\ DropInv /\ WipedInv
  <2>1. LockInv
    BY <1>0, FallingAssumption DEF LockInv, Hopping, Nobody
  <2>2. QED
    BY <1>0, <1>2, <2>1 DEF StopInv, PlaceInv, SnapshotIsWhole, DropInv, WipedInv
<1>9. ASSUME kind \in Copying
      PROVE  /\ bufs[1] = Data /\ \A s \in Slots : s # 1 => bufs[s] = Zeros
             /\ Data \in Seq({0, 1}) /\ Zeros \in Seq({0, 1})
             /\ kind = "mapped" => Data = <<1>> /\ Zeros = <<0>>
  <2>1. bufs[1] = Data /\ \A s \in Slots : s # 1 => bufs[s] = Zeros
    BY <1>1, <1>3, <1>9 DEF Copying
  <2>2. QED
    BY <1>7, <1>9, <2>1, Contents
<1>10. ShapeInv
  <2>1. kind \in Copying => \A s \in Slots : bufs[s] = Data \/ bufs[s] = Zeros
    BY <1>9
  <2>2. kind \notin Ratcheting => key = 0
    BY <1>0, <1>1 DEF Copying
  <2>3. kind \in Copying => \A s \in Slots : bufs[s] \in Seq({0, 1})
    BY <1>9, <2>1
  <2>4. kind = "mapped" => \A s \in Slots : bufs[s] \in {Closed, <<0>>, <<1>>}
    BY <1>9, <2>1 DEF Copying
  <2>5. QED
    BY <1>0, <2>2, <2>3, <2>4 DEF ShapeInv
<1>11. CopyInv
  <2>1. kind \in Copying => \A s \in Slots : Len(bufs[s]) = Pieces
    BY <1>4, <1>9
  <2>2. QED
    BY <1>0, <1>9, <2>1 DEF CopyInv
<1>12. ZeroInv
  <2>1. kind = "zeroing" => Target \in Slots /\ Target # 1
    BY <1>0, <1>7, NextBuffer DEF Copying
  <2>2. QED
    BY <1>0, <1>9, <2>1 DEF ZeroInv, Copying
<1>13. KeyInv
  <2>1. <<1>> # Closed
    <3>1. <<1>>[1] # Closed[1]
      BY DEF Closed
    <3>2. QED
      BY <3>1
  <2>2. kind \in Ratcheting => bufs[1] = <<1>> /\ key = 1
    BY <1>1
  <2>3. 1 \in 1 .. NumKeys
    BY <1>3
  <2>4. QED
    BY <1>0, <2>1, <2>2, <2>3 DEF KeyInv
<1>14. PortsInv
  BY <1>1 DEF PortsInv
<1>15. QED
  BY <1>7, <1>8, <1>10, <1>11, <1>12, <1>13, <1>14 DEF IInv

\* The invariant of the proofs, which every step keeps.
THEOREM Invariance == Spec => []IInv
<1>1. ASSUME IInv, [Next]_vars PROVE IInv'
  <2>1. TypeOK'
    <3>1. ControlOK' /\ BufsOK' /\ held' \in Seq(0 .. NumKeys + 1) /\ got' \in [Readers -> Seq(Values)]
      BY <1>1, ControlStep, ContentStep, SnapshotStep DEF IInv
    <3>2. QED
      BY <3>1 DEF TypeOK, ControlOK, BufsOK
  <2>2. LockInv' /\ StopInv' /\ PlaceInv' /\ ShapeInv'
    BY <1>1, LockStep, StopStep, PlaceStep, ContentStep DEF IInv
  <2>3. CopyInv' /\ ZeroInv' /\ KeyInv' /\ PortsInv'
    BY <1>1, CopyStep, KeyStep, PortsStep DEF IInv
  <2>4. DropInv' /\ WipedInv' /\ SnapshotIsWhole'
    BY <1>1, DropStep, WipedStep, SnapshotStep DEF IInv
  <2>5. QED
    BY <2>1, <2>2, <2>3, <2>4 DEF IInv
<1>2. QED
  BY <1>1, Starts, PTL DEF Spec

\* snapshot() and reconstruct(): what a caller reads before anybody begins to collapse the
\* box is all of the data, in order, and no call fails, whatever the thread is doing and
\* however many callers there are.  Of a FallingFile with more pieces than ports it is all
\* of them, or what the first hop left of them: its last pieces, in order.
THEOREM SnapshotsAreWhole == Spec => []SnapshotIsWhole
<1>1. IInv => SnapshotIsWhole
  BY DEF IInv
<1>2. QED
  BY <1>1, Invariance, PTL

\* The hop of ZeroingFallingBox, and that of the two encrypted boxes with the fetch() that
\* may raise: whenever the lock is free there is one copy of the data, or a key that opens
\* the ciphertext.
THEOREM RestsInOrder == Spec => []AtRest
<1>1. ASSUME IInv, lock = Nobody, ~stop
      PROVE  /\ kind = "zeroing" => \A s \in Slots : bufs[s] = IF s = active THEN Data ELSE Zeros
             /\ kind \in Ratcheting => bufs[1] = <<key>>
  <2>1. tpc \notin Hopping
    BY <1>1 DEF IInv, LockInv, Nobody
  <2>2. ASSUME kind = "zeroing" PROVE \A s \in Slots : bufs[s] = IF s = active THEN Data ELSE Zeros
    <3>1. Slots = {active, Target}
      BY <1>1, <2>2, NextBuffer DEF IInv
    <3>2. bufs[active] = Data /\ bufs[Target] = Zeros
      BY <1>1, <2>1, <2>2 DEF IInv, CopyInv, ZeroInv, Hopping, Copying
    <3>3. QED
      BY <1>1, <2>2, <3>1, <3>2, NextBuffer DEF IInv, Copying
  <2>3. kind \in Ratcheting => bufs[1] = <<key>>
    BY <1>1, <2>1 DEF IInv, KeyInv, Hopping
  <2>4. QED
    BY <2>2, <2>3
<1>2. IInv => AtRest
  BY <1>1 DEF AtRest
<1>3. QED
  BY <1>2, Invariance, PTL

\* collapse() and its join(timeout=1.0): no buffer of a mapped box, of an encrypted one or
\* of a box of many buffers can be read afterwards, and no key opens anything, also when
\* the thread outlives the join and is anywhere in its hop; the bytearrays of a FallingBox
\* and of a ZeroingFallingBox are empty when the thread did not outlive it.
THEOREM CollapsesAreFinal == Spec => []CollapseIsFinal
<1>1. IInv => CollapseIsFinal
  <2>1. IInv /\ cpc = "done" => BuffersAreGone /\ (timedOut \/ tpc = "ended")
    BY DEF IInv, DropInv, StopInv
  <2>2. IInv /\ cpc = "done" => KeyIsGone
    BY DEF IInv, WipedInv, KeyIsGone
  <2>3. QED
    BY <2>1, <2>2 DEF IInv, CollapseIsFinal
<1>2. QED
  BY <1>1, Invariance, PTL
=============================================================================
