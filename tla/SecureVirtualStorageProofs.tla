--------------------- MODULE SecureVirtualStorageProofs ---------------------
(***************************************************************************)
(* Proofs about SecureVirtualStorage, for every set of files, any number   *)
(* of pieces, size of the watchdog's table and number of rotations, and,   *)
(* at the end, about KeyRelease, the other half of the same class.         *)
(***************************************************************************)
EXTENDS SecureVirtualStorage, KeyRelease, FiniteSetTheorems, TLAPS

SeqOK == listed \in [Files -> Seq(Region)] /\ table \in Seq(Region)

\* A file's save(), its place in _held and its forget() follow each other.
LifeInv ==
    \A f \in Files :
        /\ spc[f] = "building" => built[f] < NumPieces
        /\ spc[f] \in {"listing", "adding", "publishing", "saved"} => built[f] = NumPieces
        /\ f \in held <=> spc[f] = "saved" /\ fpc[f] = "no"
        /\ fpc[f] # "no" => spc[f] = "saved"
        /\ fpc[f] = "no" => collapsed[f] = 0
        /\ fpc[f] = "collapsing" => collapsed[f] < NumPieces
        /\ fpc[f] = "done" => collapsed[f] = NumPieces

\* The walk over the regions goes on in threes, current guard, next guard, pools; what
\* it noted as the next guard of a box without a slot is the guard that is next now.
ListInv ==
    \A f \in Files :
        /\ spc[f] = "listing" => Len(listed[f]) % 3 \in {0, 1} /\ Len(listed[f]) < 3 * NumPieces
        /\ spc[f] = "adding" => Len(listed[f]) = 3 * NumPieces
        /\ spc[f] \notin {"listing", "adding"} => listed[f] = <<>>
        /\ \A i \in Piece : 3 * i <= Len(listed[f]) =>
             /\ listed[f][3 * i] = <<f, i>>
             /\ slot[<<f, i>>] = 0 => listed[f][3 * i - 1] = <<f, i, 1>>

\* A box without a slot is in its first rotation, or before it.
RotInv ==
    \A f \in Files, i \in Piece :
        /\ slot[<<f, i>>] = 0 =>
             \/ gen[<<f, i>>] = 0 /\ rot[<<f, i>>] = "no"
             \/ gen[<<f, i>>] = 1 /\ rot[<<f, i>>] = "shifted"
        /\ gen[<<f, i>>] = 0 => slot[<<f, i>>] = 0

\* Slots are entries of the table, no two boxes share one, and each holds its box's next
\* guard between two rotations.
SlotInv ==
    /\ \A b \in Box : slot[b] # Full => slot[b] <= Len(table)
    /\ \A b, c \in Box : slot[b] = slot[c] /\ slot[b] \notin {0, Full} => b = c
    /\ \A f \in Files, i \in Piece :
         rot[<<f, i>>] = "no" /\ slot[<<f, i>>] \notin {0, Full} =>
             table[slot[<<f, i>>]] = <<f, i, gen[<<f, i>>] + 1>>

\* Entry k of the table is nobody's slot.
Free(k) == \A b \in Box : slot[b] # k

\* What a save() has registered stays where it is, outside all slots.
SavedInv ==
    \A f \in Files, i \in Piece : spc[f] \in {"publishing", "saved"} =>
        /\ \E k \in DOMAIN table : table[k] = <<f, i>> /\ Free(k)
        /\ slot[<<f, i>>] = 0 => \E k \in DOMAIN table : table[k] = <<f, i, 1>> /\ Free(k)

\* Who has entries in the table.
Savers  == {f \in Files : spc[f] \in {"publishing", "saved"}}
Slotted == {b \in Box : slot[b] # 0}
Rotated == {b \in Box : gen[b] > 0}

BoundInv ==
    /\ IsFiniteSet(Savers) /\ IsFiniteSet(Rotated)
    /\ Len(table) <= Cardinality(Savers) * 3 * NumPieces + Cardinality(Slotted)

IInv ==
    /\ TypeOK /\ SeqOK /\ LifeInv /\ ListInv /\ RotInv /\ SlotInv /\ SavedInv /\ BoundInv

-----------------------------------------------------------------------------
(* Steps.                                                                  *)

\* Counting in threes: how many boxes a walk that noted n regions has behind it.
LEMMA Threes ==
    ASSUME NEW n \in Nat, NEW m \in Nat, n < 3 * m
    PROVE  /\ n \div 3 + 1 \in 1 .. m
           /\ n % 3 = 0 => n = 3 * (n \div 3 + 1) - 3
           /\ n % 3 = 1 => n = 3 * (n \div 3 + 1) - 2
<1>1. n = 3 * (n \div 3) + (n % 3)
  OBVIOUS
<1>2. n \div 3 \in Nat
  OBVIOUS
<1>3. n \div 3 < m
  OBVIOUS
<1>4. n % 3 = 0 => n = 3 * (n \div 3 + 1) - 3
  BY <1>1, <1>2
<1>5. n % 3 = 1 => n = 3 * (n \div 3 + 1) - 2
  BY <1>1, <1>2
<1>6. n \div 3 + 1 \in 1 .. m
  BY <1>2, <1>3
<1>7. QED
  BY <1>4, <1>5, <1>6

\* A key guard and the pools of a box are regions.
LEMMA Regions ==
    ASSUME NEW f \in Files, NEW i \in Piece
    PROVE  /\ \A g \in 0 .. MaxGen + 1 : <<f, i, g>> \in Region
           /\ <<f, i>> \in Region /\ Empty \in Region
<1>1. Guard \subseteq Region /\ Pool \subseteq Region /\ Empty \in Region
  BY Zenon DEF Region
<1>2. ASSUME NEW g \in 0 .. MaxGen + 1 PROVE <<f, i, g>> \in Guard
  BY DEF Guard
<1>3. <<f, i>> \in Pool
  BY DEF Pool
<1>4. QED
  BY <1>1, <1>2, <1>3, Zenon

\* The generation of a box, and of its next guard, are in range.
LEMMA Generations ==
    ASSUME TypeOK, NEW f \in Files, NEW i \in Piece
    PROVE  /\ <<f, i>> \in Box
           /\ gen[<<f, i>>] \in 0 .. MaxGen /\ gen[<<f, i>>] \in 0 .. MaxGen + 1
           /\ NextGen(f, i) \in 0 .. MaxGen + 1
<1>1. <<f, i>> \in Box
  BY DEF Box
<1>2. gen[<<f, i>>] \in 0 .. MaxGen
  BY <1>1 DEF TypeOK
<1>3. gen[<<f, i>>] \in 0 .. MaxGen + 1 /\ gen[<<f, i>>] + 1 \in 0 .. MaxGen + 1
  <2>1. ASSUME NEW g \in 0 .. MaxGen PROVE g \in 0 .. MaxGen + 1 /\ g + 1 \in 0 .. MaxGen + 1
    BY ConstantsAssumption
  <2>2. QED
    BY <1>2, <2>1, Zenon
<1>4. QED
  BY <1>1, <1>2, <1>3 DEF NextGen

\* Two entries are appended one by one.
LEMMA Twice ==
    ASSUME NEW S, NEW s \in Seq(S), NEW x \in S, NEW y \in S
    PROVE  s \o <<x, y>> = Append(Append(s, x), y)
OBVIOUS

\* Overwriting an entry of a sequence leaves a sequence of the same length.
LEMMA Overwriting ==
    ASSUME NEW S, NEW s \in Seq(S), NEW k, NEW x \in S
    PROVE  /\ [s EXCEPT ![k] = x] \in Seq(S) /\ Len([s EXCEPT ![k] = x]) = Len(s)
           /\ DOMAIN [s EXCEPT ![k] = x] = DOMAIN s
<1>1. CASE k \in 1 .. Len(s)
  BY <1>1
<1>2. CASE k \notin 1 .. Len(s)
  <2>1. [s EXCEPT ![k] = x] = s
    BY <1>2
  <2>2. QED
    BY <2>1
<1>3. QED
  BY <1>1, <1>2

\* Where the walk over a file's regions is, and what it appends next.
LEMMA WalkStep ==
    ASSUME TypeOK, SeqOK, ListInv, NEW f \in Files, ListRegions(f),
           NEW i, i = Len(listed[f]) \div 3 + 1
    PROVE  /\ i \in Piece /\ listed' = [listed EXCEPT ![f] = listed'[f]]
           /\ listed'[f] \in Seq(Region)
           /\ \/ /\ Len(listed[f]) = 3 * i - 3 /\ spc' = spc
                 /\ listed'[f] = Append(listed[f], <<f, i, gen[<<f, i>>]>>)
              \/ /\ Len(listed[f]) = 3 * i - 2
                 /\ spc' = [spc EXCEPT ![f] = IF i = NumPieces THEN "adding" ELSE spc[f]]
                 /\ listed'[f] = Append(Append(listed[f], <<f, i, NextGen(f, i)>>), <<f, i>>)
<1> DEFINE n == Len(listed[f])
<1>1. n \in Nat /\ listed[f] \in Seq(Region)
  BY DEF SeqOK
<1>2. n % 3 \in {0, 1} /\ n < 3 * NumPieces
  <2>1. spc[f] = "listing"
    BY Zenon DEF ListRegions
  <2>2. QED
    BY <2>1, Zenon DEF ListInv
<1>3. n \div 3 + 1 \in 1 .. NumPieces
      /\ (n % 3 = 0 => n = 3 * (n \div 3 + 1) - 3) /\ (n % 3 = 1 => n = 3 * (n \div 3 + 1) - 2)
  <2>1. NumPieces \in Nat
    BY ConstantsAssumption
  <2> HIDE DEF n
  <2>2. QED
    BY <1>1, <1>2, <2>1, Threes
<1>4. i \in Piece
  BY <1>3, Zenon DEF Piece
<1>5. (n % 3 = 0 => n = 3 * i - 3) /\ (n % 3 # 0 => n = 3 * i - 2)
  <2>1. n % 3 # 0 => n % 3 = 1
    BY <1>2, Zenon
  <2>2. QED
    BY <1>3, <2>1, Zenon
<1>6. <<f, i, gen[<<f, i>>]>> \in Region /\ <<f, i, NextGen(f, i)>> \in Region /\ <<f, i>> \in Region
  BY <1>4, Generations, Regions, Zenon
<1>7. CASE Len(listed[f]) % 3 = 0
  <2>1. listed'[f] = Append(listed[f], <<f, i, gen[<<f, i>>]>>) /\ spc' = spc
        /\ listed' = [listed EXCEPT ![f] = listed'[f]]
    BY <1>7 DEF ListRegions, SeqOK
  <2>2. listed'[f] \in Seq(Region)
    <3>1. PICK x \in Region : x = <<f, i, gen[<<f, i>>]>>
      BY <1>6
    <3>2. Append(listed[f], x) \in Seq(Region)
      BY <1>1
    <3>3. QED
      BY <2>1, <3>1, <3>2
  <2>3. QED
    BY <1>4, <1>5, <1>7, <2>1, <2>2
<1>8. CASE Len(listed[f]) % 3 # 0
  <2>1. /\ listed'[f] = listed[f] \o <<<<f, i, NextGen(f, i)>>, <<f, i>>>>
        /\ spc' = [spc EXCEPT ![f] = IF i = NumPieces THEN "adding" ELSE spc[f]]
        /\ listed' = [listed EXCEPT ![f] = listed'[f]]
    BY <1>8 DEF ListRegions, SeqOK
  <2>2. listed[f] \in Seq(Region)
    BY DEF SeqOK
  <2>3. PICK x \in Region, y \in Region : x = <<f, i, NextGen(f, i)>> /\ y = <<f, i>>
    BY <1>6
  <2>4. listed[f] \o <<x, y>> = Append(Append(listed[f], x), y)
    BY <2>2, Twice
  <2>5. Append(Append(listed[f], x), y) \in Seq(Region)
    BY <2>2, <2>3
  <2>6. QED
    BY <1>4, <1>5, <1>8, <2>1, <2>3, <2>4, <2>5
<1>9. QED
  BY <1>7, <1>8

\* The regions a walk notes and the table stay sequences of regions.
LEMMA SeqStep ==
    ASSUME TypeOK, SeqOK, ListInv, SlotInv, RotInv, Next
    PROVE  SeqOK'
<1> USE DEF saves, boxes, downs
<1>1. ASSUME NEW f \in Files, ListRegions(f) PROVE SeqOK'
  <2>1. listed' \in [Files -> Seq(Region)]
    BY <1>1, WalkStep DEF SeqOK
  <2>2. QED
    BY <1>1, <2>1 DEF ListRegions, SeqOK
<1>2. ASSUME NEW f \in Files, AddRegions(f) PROVE SeqOK'
  <2>1. table \o listed[f] \in Seq(Region) /\ <<>> \in Seq(Region)
    BY DEF SeqOK
  <2>2. QED
    BY <1>2, <2>1 DEF AddRegions, SeqOK
<1>3. ASSUME NEW f \in Files, AddRegionsRaises(f) \/ ListRegionsRaises(f) PROVE SeqOK'
  <2>1. listed' = [listed EXCEPT ![f] = <<>>] /\ table' = table
    BY <1>3 DEF AddRegionsRaises, ListRegionsRaises
  <2>2. <<>> \in Seq(Region)
    OBVIOUS
  <2>3. QED
    BY <2>1, <2>2 DEF SeqOK
<1>4. ASSUME NEW f \in Files, NEW i \in Piece, ReserveSlot(f, i) PROVE SeqOK'
  <2>1. Append(table, Empty) \in Seq(Region)
    BY DEF SeqOK, Region
  <2>2. QED
    BY <1>4, <2>1 DEF ReserveSlot, SeqOK
<1>5. ASSUME NEW f \in Files, NEW i \in Piece, UpdateSlot(f, i) PROVE SeqOK'
  <2>1. PICK x \in Region : x = <<f, i, NextGen(f, i)>>
    BY Generations, Regions
  <2>2. [table EXCEPT ![slot[<<f, i>>]] = x] \in Seq(Region)
    BY Overwriting, Zenon DEF SeqOK
  <2>3. table' = table \/ table' = [table EXCEPT ![slot[<<f, i>>]] = x]
    BY <1>5, <2>1 DEF UpdateSlot, SlotOwner
  <2>4. UNCHANGED listed
    BY <1>5 DEF UpdateSlot
  <2>5. QED
    BY <2>2, <2>3, <2>4 DEF SeqOK
<1>6. CASE UNCHANGED <<listed, table>>
  BY <1>6 DEF SeqOK
<1>7. \/ UNCHANGED <<listed, table>>
      \/ \E f \in Files : ListRegions(f) \/ AddRegions(f) \/ AddRegionsRaises(f) \/ ListRegionsRaises(f)
      \/ \E f \in Files, i \in Piece : ReserveSlot(f, i) \/ UpdateSlot(f, i)
  BY DEF Next, Save, MakeBox, MakeBoxRaises, Publish, Rotate, RotateShift, Forget, CollapseBox,
         CollapseAllBegin, CollapseAllForget, CollapseAllNext, StopWatchdog
<1>8. QED
  BY <1>1, <1>2, <1>3, <1>4, <1>5, <1>6, <1>7

\* A file is built, published, popped by one forget() and collapsed, in this order.
LEMMA LifeStep ==
    ASSUME TypeOK, LifeInv, Next
    PROVE  LifeInv'
<1> USE ConstantsAssumption DEF saves, boxes, downs
<1> DEFINE life == <<spc, built, held, fpc, collapsed>>
<1>1. ASSUME NEW f \in Files, MakeBox(f) PROVE LifeInv'
  BY <1>1 DEF MakeBox, LifeInv, TypeOK
<1>2. ASSUME NEW f \in Files, MakeBoxRaises(f) \/ AddRegionsRaises(f) \/ ListRegionsRaises(f) PROVE LifeInv'
  BY <1>2 DEF MakeBoxRaises, AddRegionsRaises, ListRegionsRaises, LifeInv, TypeOK
<1>3. ASSUME NEW f \in Files, ListRegions(f) PROVE LifeInv'
  <2>1. /\ spc' = [spc EXCEPT ![f] = spc'[f]] /\ spc[f] = "listing"
        /\ spc'[f] \in {"listing", "adding"}
        /\ UNCHANGED <<built, held, fpc, collapsed>>
    BY <1>3 DEF ListRegions, TypeOK
  <2>2. QED
    BY <2>1 DEF LifeInv, TypeOK
<1>4. ASSUME NEW f \in Files, AddRegions(f) PROVE LifeInv'
  BY <1>4 DEF AddRegions, LifeInv, TypeOK
<1>5. ASSUME NEW f \in Files, Publish(f) PROVE LifeInv'
  BY <1>5 DEF Publish, LifeInv, TypeOK
<1>6. ASSUME NEW f \in Files, Forget(f) PROVE LifeInv'
  BY <1>6 DEF Forget, LifeInv, TypeOK
<1>7. ASSUME NEW f \in Files, CollapseBox(f) PROVE LifeInv'
  <2>1. CASE collapsed[f] + 1 = NumPieces
    BY <1>7, <2>1 DEF CollapseBox, LifeInv, TypeOK
  <2>2. CASE collapsed[f] + 1 # NumPieces
    <3>1. collapsed[f] + 1 < NumPieces
      <4>1. collapsed[f] \in 0 .. NumPieces
        BY Zenon DEF TypeOK
      <4>2. collapsed[f] < NumPieces
        BY <1>7, Zenon DEF CollapseBox, LifeInv
      <4>3. QED
        BY <2>2, <4>1, <4>2
    <3>2. UNCHANGED <<spc, built, held, fpc>> /\ fpc[f] = "collapsing"
          /\ collapsed' = [collapsed EXCEPT ![f] = @ + 1]
      BY <1>7, <2>2 DEF CollapseBox, TypeOK
    <3>3. QED
      BY <3>1, <3>2 DEF LifeInv, TypeOK
  <2>3. QED
    BY <2>1, <2>2
<1>8. ASSUME NEW f \in Files, CollapseAllForget(f) PROVE LifeInv'
  <2>1. CASE f \in held
    BY <1>8, <2>1 DEF CollapseAllForget, LifeInv, TypeOK
  <2>2. CASE f \notin held
    <3>1. UNCHANGED <<spc, built, held, fpc, collapsed>>
      BY <1>8, <2>2 DEF CollapseAllForget
    <3>2. QED
      BY <3>1 DEF LifeInv
  <2>3. QED
    BY <2>1, <2>2
<1>9. CASE UNCHANGED life
  BY <1>9 DEF LifeInv
<1>10. \/ UNCHANGED life
       \/ \E f \in Files : Save(f) \/ Forget(f) \/ CollapseBox(f) \/ CollapseAllForget(f)
  BY ZenonT(30) DEF Next, Rotate, RotateShift, ReserveSlot, UpdateSlot, CollapseAllBegin,
         CollapseAllNext, StopWatchdog
<1>11. QED
  BY <1>1, <1>2, <1>3, <1>4, <1>5, <1>6, <1>7, <1>8, <1>9, <1>10 DEF Save

\* The threes of a sequence that is one step of a walk longer.
LEMMA ThreesGrow ==
    ASSUME NEW S, NEW s \in Seq(S), NEW x \in S, NEW y \in S, NEW m \in Nat,
           NEW i \in 1 .. m, NEW j \in 1 .. m
    PROVE  /\ Len(s) = 3 * i - 3 =>
                /\ Len(Append(s, x)) = 3 * i - 2
                /\ 3 * j <= Len(Append(s, x)) =>
                     /\ 3 * j <= Len(s)
                     /\ Append(s, x)[3 * j] = s[3 * j]
                     /\ Append(s, x)[3 * j - 1] = s[3 * j - 1]
           /\ Len(s) = 3 * i - 2 =>
                /\ Len(Append(Append(s, x), y)) = 3 * i
                /\ Append(Append(s, x), y)[3 * i] = y
                /\ Append(Append(s, x), y)[3 * i - 1] = x
                /\ 3 * j <= Len(Append(Append(s, x), y)) /\ j # i =>
                     /\ 3 * j <= Len(s)
                     /\ Append(Append(s, x), y)[3 * j] = s[3 * j]
                     /\ Append(Append(s, x), y)[3 * j - 1] = s[3 * j - 1]
<1>1. /\ Len(Append(s, x)) = Len(s) + 1
      /\ Len(Append(Append(s, x), y)) = Len(s) + 2
  OBVIOUS
<1>2. \A k \in 1 .. Len(s) : Append(s, x)[k] = s[k] /\ Append(Append(s, x), y)[k] = s[k]
  OBVIOUS
<1>3. /\ Append(Append(s, x), y)[Len(s) + 2] = y
      /\ Append(Append(s, x), y)[Len(s) + 1] = x
  OBVIOUS
<1>4. Len(s) \in Nat /\ i \in Int /\ j \in Int /\ 1 <= i /\ 1 <= j
  OBVIOUS
<1>5. ASSUME Len(s) = 3 * i - 3, 3 * j <= Len(Append(s, x))
      PROVE  3 * j <= Len(s) /\ 3 * j \in 1 .. Len(s) /\ 3 * j - 1 \in 1 .. Len(s)
  BY <1>1, <1>4, <1>5
<1>6. ASSUME Len(s) = 3 * i - 2, 3 * j <= Len(Append(Append(s, x), y)), j # i
      PROVE  3 * j <= Len(s) /\ 3 * j \in 1 .. Len(s) /\ 3 * j - 1 \in 1 .. Len(s)
  BY <1>1, <1>4, <1>6
<1>7. ASSUME Len(s) = 3 * i - 3 PROVE Len(Append(s, x)) = 3 * i - 2
  BY <1>1, <1>4, <1>7
<1>8. ASSUME Len(s) = 3 * i - 2
      PROVE  Len(Append(Append(s, x), y)) = 3 * i /\ Len(s) + 2 = 3 * i /\ Len(s) + 1 = 3 * i - 1
  BY <1>1, <1>4, <1>8
<1>9. QED
  BY <1>2, <1>3, <1>5, <1>6, <1>7, <1>8, Zenon

\* What a walk that is one step further has noted.
LEMMA WalkNoted ==
    ASSUME TypeOK, SeqOK, ListInv, RotInv, NEW f \in Files, ListRegions(f)
    PROVE  /\ spc[f] = "listing"
           /\ spc'[f] = "listing" => Len(listed'[f]) % 3 \in {0, 1} /\ Len(listed'[f]) < 3 * NumPieces
           /\ spc'[f] = "adding" => Len(listed'[f]) = 3 * NumPieces
           /\ spc'[f] \in {"listing", "adding"} /\ spc' = [spc EXCEPT ![f] = spc'[f]]
           /\ \A j \in Piece : 3 * j <= Len(listed'[f]) =>
                /\ listed'[f][3 * j] = <<f, j>>
                /\ slot[<<f, j>>] = 0 => listed'[f][3 * j - 1] = <<f, j, 1>>
<1>1. PICK i : i = Len(listed[f]) \div 3 + 1
  OBVIOUS
<1>2. PICK x \in Region, y \in Region, z \in Region :
        x = <<f, i, gen[<<f, i>>]>> /\ y = <<f, i, NextGen(f, i)>> /\ z = <<f, i>>
  <2>1. i \in Piece
    BY <1>1, WalkStep
  <2>2. QED
    BY <2>1, Generations, Regions
<1>3. PICK s \in Seq(Region) : s = listed[f]
  BY DEF SeqOK
<1>4. /\ i \in Piece
      /\ \/ /\ Len(s) = 3 * i - 3 /\ spc' = spc
            /\ listed'[f] = Append(s, x)
         \/ /\ Len(s) = 3 * i - 2
            /\ spc' = [spc EXCEPT ![f] = IF i = NumPieces THEN "adding" ELSE spc[f]]
            /\ listed'[f] = Append(Append(s, y), z)
  BY <1>1, <1>2, <1>3, WalkStep, Zenon
<1>5. spc[f] = "listing" /\ NumPieces \in Nat
  BY ConstantsAssumption DEF ListRegions
<1>6. i \in 1 .. NumPieces
  BY <1>4, Zenon DEF Piece
<1>7. \A j \in Piece : 3 * j <= Len(s) =>
             /\ s[3 * j] = <<f, j>>
             /\ slot[<<f, j>>] = 0 => s[3 * j - 1] = <<f, j, 1>>
  BY <1>3, Zenon DEF ListInv
<1>8. /\ (3 * i - 2) % 3 = 1 /\ 3 * i - 2 < 3 * NumPieces
      /\ (3 * i) % 3 = 0 /\ (i # NumPieces => 3 * i < 3 * NumPieces)
  BY <1>5, <1>6
<1>9. CASE Len(s) = 3 * i - 3 /\ spc' = spc /\ listed'[f] = Append(s, x)
  <2>1. Len(listed'[f]) = 3 * i - 2
    BY <1>5, <1>6, <1>9, ThreesGrow
  <2>2. ASSUME NEW j \in Piece, 3 * j <= Len(listed'[f])
        PROVE  3 * j <= Len(s) /\ listed'[f][3 * j] = s[3 * j] /\ listed'[f][3 * j - 1] = s[3 * j - 1]
    BY <1>5, <1>6, <1>9, <2>2, ThreesGrow DEF Piece
  <2>3. spc'[f] = "listing" /\ spc'[f] # "adding" /\ spc' = [spc EXCEPT ![f] = spc'[f]]
    BY <1>5, <1>9 DEF TypeOK
  <2>4. \A j \in Piece : 3 * j <= Len(listed'[f]) =>
                /\ listed'[f][3 * j] = <<f, j>>
                /\ slot[<<f, j>>] = 0 => listed'[f][3 * j - 1] = <<f, j, 1>>
    BY <1>7, <2>2, Zenon
  <2>5. QED
    BY <1>5, <1>8, <2>1, <2>3, <2>4, Zenon
<1>10. CASE /\ Len(s) = 3 * i - 2
            /\ spc' = [spc EXCEPT ![f] = IF i = NumPieces THEN "adding" ELSE spc[f]]
            /\ listed'[f] = Append(Append(s, y), z)
  <2>1. Len(listed'[f]) = 3 * i /\ listed'[f][3 * i] = z /\ listed'[f][3 * i - 1] = y
    BY <1>5, <1>6, <1>10, ThreesGrow
  <2>2. ASSUME NEW j \in Piece, 3 * j <= Len(listed'[f]), j # i
        PROVE  3 * j <= Len(s) /\ listed'[f][3 * j] = s[3 * j] /\ listed'[f][3 * j - 1] = s[3 * j - 1]
    BY <1>5, <1>6, <1>10, <2>2, ThreesGrow DEF Piece
  <2>3. slot[<<f, i>>] = 0 => NextGen(f, i) = 1
    <3>1. ASSUME slot[<<f, i>>] = 0
          PROVE  \/ gen[<<f, i>>] = 0 /\ rot[<<f, i>>] = "no"
                 \/ gen[<<f, i>>] = 1 /\ rot[<<f, i>>] = "shifted"
      BY <1>4, <3>1, Zenon DEF RotInv
    <3>2. ASSUME gen[<<f, i>>] = 0, rot[<<f, i>>] = "no" PROVE NextGen(f, i) = 1
      BY <3>2 DEF NextGen
    <3>3. ASSUME gen[<<f, i>>] = 1, rot[<<f, i>>] = "shifted" PROVE NextGen(f, i) = 1
      BY <3>3 DEF NextGen
    <3>4. QED
      BY <3>1, <3>2, <3>3, Zenon
  <2>4. \A j \in Piece : 3 * j <= Len(listed'[f]) =>
                /\ listed'[f][3 * j] = <<f, j>>
                /\ slot[<<f, j>>] = 0 => listed'[f][3 * j - 1] = <<f, j, 1>>
    <3>1. TAKE j \in Piece
    <3>2. CASE j = i
      BY <1>2, <2>1, <2>3, <3>2, Zenon
    <3>3. CASE j # i
      BY <1>7, <2>2, <3>3, Zenon
    <3>4. QED
      BY <3>2, <3>3
  <2>5. /\ spc'[f] = IF i = NumPieces THEN "adding" ELSE "listing"
        /\ spc' = [spc EXCEPT ![f] = spc'[f]]
    BY <1>5, <1>10 DEF TypeOK
  <2>6. CASE i = NumPieces
    <3>1. spc'[f] = "adding" /\ spc'[f] # "listing"
      BY <2>5, <2>6
    <3>2. QED
      BY <1>5, <2>1, <2>4, <2>5, <2>6, <3>1, Zenon
  <2>7. CASE i # NumPieces
    <3>1. spc'[f] = "listing" /\ spc'[f] # "adding"
      BY <2>5, <2>7
    <3>2. QED
      BY <1>5, <1>8, <2>1, <2>4, <2>5, <2>7, <3>1, Zenon
  <2>8. QED
    BY <2>6, <2>7
<1>11. QED
  BY <1>4, <1>9, <1>10

\* A slot, once taken, is never given back.
LEMMA SlotStays ==
    ASSUME TypeOK, SeqOK, Next
    PROVE  \A b \in Box : slot'[b] = 0 => slot[b] = 0
<1> USE DEF saves, boxes, downs
<1>1. ASSUME NEW f \in Files, NEW i \in Piece, ReserveSlot(f, i)
      PROVE  \A b \in Box : slot'[b] = 0 => slot[b] = 0
  <2>1. Len(table) + 1 # 0 /\ Full # 0
    BY ConstantsAssumption DEF SeqOK, Full
  <2>2. QED
    BY <1>1, <2>1 DEF ReserveSlot, TypeOK
<1>2. UNCHANGED slot \/ \E f \in Files, i \in Piece : ReserveSlot(f, i)
  BY DEF Next, Save, MakeBox, MakeBoxRaises, ListRegions, AddRegions, AddRegionsRaises, ListRegionsRaises, Publish,
         Rotate, RotateShift, UpdateSlot, Forget, CollapseBox,
         CollapseAllBegin, CollapseAllForget, CollapseAllNext, StopWatchdog
<1>3. QED
  BY <1>1, <1>2

\* Walks go on in threes while boxes rotate and get their slots.
LEMMA ListStep ==
    ASSUME TypeOK, SeqOK, ListInv, RotInv, Next
    PROVE  ListInv'
<1> USE DEF saves, boxes, downs
<1>1. \A b \in Box : slot'[b] = 0 => slot[b] = 0
  BY SlotStays
<1>2. ASSUME NEW f \in Files, ListRegions(f) PROVE ListInv'
  <2>1. listed' = [listed EXCEPT ![f] = listed'[f]] /\ UNCHANGED slot
    BY <1>2, WalkStep DEF ListRegions
  <2>2. /\ spc'[f] = "listing" => Len(listed'[f]) % 3 \in {0, 1} /\ Len(listed'[f]) < 3 * NumPieces
        /\ spc'[f] = "adding" => Len(listed'[f]) = 3 * NumPieces
        /\ spc'[f] \in {"listing", "adding"} /\ spc' = [spc EXCEPT ![f] = spc'[f]]
        /\ \A j \in Piece : 3 * j <= Len(listed'[f]) =>
             /\ listed'[f][3 * j] = <<f, j>>
             /\ slot[<<f, j>>] = 0 => listed'[f][3 * j - 1] = <<f, j, 1>>
    BY <1>2, WalkNoted, Zenon
  <2>3. ASSUME NEW g \in Files, g # f PROVE listed'[g] = listed[g] /\ spc'[g] = spc[g]
    BY <2>1, <2>2, <2>3 DEF SeqOK, TypeOK
  <2>4. QED
    BY <2>1, <2>2, <2>3, ZenonT(30) DEF ListInv
<1>3. ASSUME NEW f \in Files, MakeBox(f) PROVE ListInv'
  <2>1. UNCHANGED <<listed, slot>> /\ spc' = [spc EXCEPT ![f] = spc'[f]] /\ listed[f] = <<>>
        /\ spc'[f] \in {"building", "listing"}
    BY <1>3 DEF MakeBox, TypeOK, ListInv
  <2>2. Len(<<>>) % 3 \in {0, 1} /\ Len(<<>>) < 3 * NumPieces
    BY ConstantsAssumption
  <2>3. QED
    BY <2>1, <2>2 DEF ListInv, TypeOK
<1>4. ASSUME NEW f \in Files, MakeBoxRaises(f) \/ Publish(f) PROVE ListInv'
  <2>1. UNCHANGED <<listed, slot>> /\ spc' = [spc EXCEPT ![f] = spc'[f]] /\ listed[f] = <<>>
        /\ spc'[f] \notin {"adding", "listing"}
    BY <1>4 DEF MakeBoxRaises, Publish, TypeOK, ListInv
  <2>2. QED
    BY <2>1 DEF ListInv, TypeOK
<1>5. ASSUME NEW f \in Files, AddRegions(f) \/ AddRegionsRaises(f) \/ ListRegionsRaises(f) PROVE ListInv'
  <2>1. /\ listed' = [listed EXCEPT ![f] = <<>>] /\ UNCHANGED slot
        /\ spc' = [spc EXCEPT ![f] = spc'[f]] /\ spc'[f] \in {"publishing", "raised"}
    BY <1>5 DEF AddRegions, AddRegionsRaises, ListRegionsRaises, TypeOK
  <2>2. \A j \in Piece : ~(3 * j <= Len(<<>>))
    BY ConstantsAssumption DEF Piece
  <2>3. QED
    BY <2>1, <2>2 DEF ListInv, TypeOK, SeqOK
<1>6. CASE UNCHANGED <<spc, listed>>
  <2>1. ASSUME NEW f \in Files, NEW i \in Piece PROVE slot'[<<f, i>>] = 0 => slot[<<f, i>>] = 0
    BY <1>1 DEF Box
  <2>2. QED
    BY <1>6, <2>1 DEF ListInv
<1>7. UNCHANGED <<spc, listed>> \/ \E f \in Files : Save(f)
  BY DEF Next, Rotate, RotateShift, ReserveSlot, UpdateSlot, Forget, CollapseBox,
         CollapseAllBegin, CollapseAllForget, CollapseAllNext, StopWatchdog
<1>8. QED
  BY <1>2, <1>3, <1>4, <1>5, <1>6, <1>7 DEF Save

\* The first rotation of a box is the one that gives it its slot.
LEMMA RotStep ==
    ASSUME TypeOK, SeqOK, RotInv, Next
    PROVE  RotInv'
<1> USE DEF saves, boxes, downs
<1>1. ASSUME NEW f \in Files, NEW i \in Piece, RotateShift(f, i) PROVE RotInv'
  <2>1. /\ UNCHANGED slot /\ rot[<<f, i>>] = "no" /\ rot'[<<f, i>>] = "shifted"
        /\ gen'[<<f, i>>] = gen[<<f, i>>] + 1 /\ gen[<<f, i>>] \in Nat
    BY <1>1, Generations DEF RotateShift, TypeOK
  <2>2. ASSUME NEW g \in Files, NEW j \in Piece, <<g, j>> # <<f, i>>
        PROVE  gen'[<<g, j>>] = gen[<<g, j>>] /\ rot'[<<g, j>>] = rot[<<g, j>>]
    BY <1>1, <2>2, Generations DEF RotateShift, TypeOK
  <2>3. gen'[<<f, i>>] # 0 /\ (gen[<<f, i>>] = 0 => gen'[<<f, i>>] = 1)
    BY <2>1
  <2>4. slot[<<f, i>>] = 0 => gen[<<f, i>>] = 0
    BY <2>1 DEF RotInv
  <2>5. ASSUME NEW g \in Files, NEW j \in Piece
        PROVE  /\ slot'[<<g, j>>] = 0 =>
                    \/ gen'[<<g, j>>] = 0 /\ rot'[<<g, j>>] = "no"
                    \/ gen'[<<g, j>>] = 1 /\ rot'[<<g, j>>] = "shifted"
               /\ gen'[<<g, j>>] = 0 => slot'[<<g, j>>] = 0
    <3>1. CASE <<g, j>> = <<f, i>>
      BY <2>1, <2>3, <2>4, <3>1, Zenon
    <3>2. CASE <<g, j>> # <<f, i>>
      <4>1. /\ gen'[<<g, j>>] = gen[<<g, j>>] /\ rot'[<<g, j>>] = rot[<<g, j>>]
            /\ slot'[<<g, j>>] = slot[<<g, j>>]
        BY <2>1, <2>2, <3>2, Zenon
      <4>2. QED
        BY <4>1, Zenon DEF RotInv
    <3>3. QED
      BY <3>1, <3>2
  <2>6. QED
    BY <2>5, Zenon DEF RotInv
<1>2. ASSUME NEW f \in Files, NEW i \in Piece, ReserveSlot(f, i) PROVE RotInv'
  <2>1. Len(table) + 1 # 0 /\ Full # 0
    BY ConstantsAssumption DEF SeqOK, Full
  <2>2. /\ UNCHANGED gen /\ rot[<<f, i>>] = "shifted"
        /\ rot'[<<f, i>>] = "reserved" /\ slot'[<<f, i>>] # 0
    BY <1>2, <2>1, Generations DEF ReserveSlot, SlotOwner, TypeOK
  <2>3. ASSUME NEW g \in Files, NEW j \in Piece, <<g, j>> # <<f, i>>
        PROVE  slot'[<<g, j>>] = slot[<<g, j>>] /\ rot'[<<g, j>>] = rot[<<g, j>>]
    BY <1>2, <2>3, Generations DEF ReserveSlot, SlotOwner, TypeOK
  <2>4. gen[<<f, i>>] # 0
    BY <2>2 DEF RotInv
  <2>5. QED
    BY <2>2, <2>3, <2>4, ZenonT(30) DEF RotInv
<1>3. ASSUME NEW f \in Files, NEW i \in Piece, UpdateSlot(f, i) PROVE RotInv'
  BY <1>3, ZenonT(30) DEF UpdateSlot, RotInv, TypeOK, Box
<1>4. CASE UNCHANGED boxes
  BY <1>4 DEF RotInv
<1>5. UNCHANGED boxes \/ \E f \in Files, i \in Piece : Rotate(f, i)
  BY DEF Next, Save, MakeBox, MakeBoxRaises, ListRegions, AddRegions, AddRegionsRaises, ListRegionsRaises, Publish,
         Forget, CollapseBox,
         CollapseAllBegin, CollapseAllForget, CollapseAllNext, StopWatchdog
<1>6. QED
  BY <1>1, <1>2, <1>3, <1>4, <1>5 DEF Rotate

\* A box that has shifted its guards and made a successor has a slot, or was refused one;
\* a slot that was given is an entry of the table.
LEMMA HasSlot ==
    ASSUME TypeOK, SeqOK, RotInv, SlotInv, NEW f \in Files, NEW i \in Piece
    PROVE  /\ <<f, i>> \in Box /\ slot[<<f, i>>] \in Nat
           /\ rot[<<f, i>>] = "reserved" => slot[<<f, i>>] # 0
           /\ slot[<<f, i>>] \notin {0, Full} => slot[<<f, i>>] \in 1 .. Len(table)
<1>1. <<f, i>> \in Box
  BY DEF Box
<1>2. PICK k \in 0 .. Full : k = slot[<<f, i>>]
  BY <1>1 DEF TypeOK
<1>3. k \in Nat
  BY <1>2, ConstantsAssumption DEF Full
<1>4. k # Full => k <= Len(table)
  BY <1>1, <1>2, Zenon DEF SlotInv
<1>5. Len(table) \in Nat
  BY DEF SeqOK
<1>6. k \notin {0, Full} => k \in 1 .. Len(table)
  BY <1>3, <1>4, <1>5
<1>7. rot[<<f, i>>] = "reserved" => k # 0
  BY <1>2 DEF RotInv
<1>8. QED
  BY <1>1, <1>2, <1>3, <1>6, <1>7, Zenon

\* What a box's first announcement of a successor does to its slot and to the table.
LEMMA Reserving ==
    ASSUME TypeOK, SeqOK, NEW f \in Files, NEW i \in Piece, ReserveSlot(f, i)
    PROVE  /\ rot' = [rot EXCEPT ![<<f, i>>] = "reserved"] /\ rot[<<f, i>>] = "shifted"
           /\ UNCHANGED <<spc, gen, listed>>
           /\ \/ UNCHANGED <<slot, table>> /\ slot[<<f, i>>] # 0
              \/ /\ slot[<<f, i>>] = 0 /\ slot' = [slot EXCEPT ![<<f, i>>] = Full]
                 /\ UNCHANGED table
              \/ /\ slot[<<f, i>>] = 0 /\ slot' = [slot EXCEPT ![<<f, i>>] = Len(table) + 1]
                 /\ table' = Append(table, Empty) /\ Len(table) + 1 <= MaxRegions
                 /\ Len(table') = Len(table) + 1
                 /\ \A k \in 1 .. Len(table) : table'[k] = table[k]
<1> USE DEF saves, boxes, downs
<1>1. CASE slot[<<f, i>>] = 0 /\ Fits(1)
  <2>1. table' = Append(table, Empty) /\ slot' = [slot EXCEPT ![<<f, i>>] = Len(table) + 1]
    BY <1>1 DEF ReserveSlot, SlotOwner
  <2>2. Empty \in Region /\ table \in Seq(Region)
    BY Zenon DEF SeqOK, Region
  <2>3. /\ Len(Append(table, Empty)) = Len(table) + 1
        /\ \A k \in 1 .. Len(table) : Append(table, Empty)[k] = table[k]
    BY <2>2
  <2>4. QED
    BY <1>1, <2>1, <2>3 DEF ReserveSlot, Fits
<1>2. CASE slot[<<f, i>>] = 0 /\ ~Fits(1)
  BY <1>2 DEF ReserveSlot, SlotOwner
<1>3. CASE slot[<<f, i>>] # 0
  BY <1>3 DEF ReserveSlot, SlotOwner
<1>4. QED
  BY <1>1, <1>2, <1>3

\* What the announcement of a new guard writes, and where.
LEMMA Updating ==
    ASSUME TypeOK, SeqOK, RotInv, SlotInv, NEW f \in Files, NEW i \in Piece, UpdateSlot(f, i)
    PROVE  /\ rot[<<f, i>>] = "reserved" /\ rot' = [rot EXCEPT ![<<f, i>>] = "no"]
           /\ UNCHANGED <<spc, gen, slot, listed>> /\ slot[<<f, i>>] # 0
           /\ Len(table') = Len(table) /\ DOMAIN table' = DOMAIN table
           /\ slot[<<f, i>>] # Full => table'[slot[<<f, i>>]] = <<f, i, gen[<<f, i>>] + 1>>
           /\ \A k \in DOMAIN table : k # slot[<<f, i>>] => table'[k] = table[k]
<1> USE DEF saves, boxes, downs
<1>1. /\ rot[<<f, i>>] = "reserved" /\ rot' = [rot EXCEPT ![<<f, i>>] = "no"]
      /\ UNCHANGED <<spc, gen, slot, listed>> /\ slot[<<f, i>>] # 0
  BY HasSlot DEF UpdateSlot
<1>2. NextGen(f, i) = gen[<<f, i>>] + 1
  BY <1>1 DEF NextGen
<1>3. CASE slot[<<f, i>>] = Full
  BY <1>1, <1>3 DEF UpdateSlot, SlotOwner
<1>4. CASE slot[<<f, i>>] # Full
  <2>1. PICK x \in Region : x = <<f, i, NextGen(f, i)>>
    BY Generations, Regions
  <2>2. table' = [table EXCEPT ![slot[<<f, i>>]] = x]
    BY <1>4, <2>1 DEF UpdateSlot, SlotOwner
  <2>3. table \in Seq(Region) /\ slot[<<f, i>>] \in 1 .. Len(table)
    BY <1>1, <1>4, HasSlot DEF SeqOK
  <2>4. Len(table') = Len(table) /\ DOMAIN table' = DOMAIN table
    BY <2>2, <2>3, Overwriting
  <2>5. table'[slot[<<f, i>>]] = x
    BY <2>2, <2>3
  <2>6. \A k \in DOMAIN table : k # slot[<<f, i>>] => table'[k] = table[k]
    BY <2>2, <2>3
  <2>7. QED
    BY <1>1, <1>2, <2>1, <2>4, <2>5, <2>6, Zenon
<1>5. QED
  BY <1>3, <1>4

\* What add_regions() does to the table: the entries it had stay, the new ones follow.
LEMMA Adding ==
    ASSUME TypeOK, SeqOK, ListInv, NEW f \in Files, AddRegions(f)
    PROVE  /\ UNCHANGED boxes /\ spc[f] = "adding"
           /\ spc' = [spc EXCEPT ![f] = "publishing"]
           /\ Len(listed[f]) = 3 * NumPieces
           /\ Len(table') = Len(table) + 3 * NumPieces /\ Len(table') <= MaxRegions
           /\ \A k \in 1 .. Len(table) : table'[k] = table[k]
           /\ \A k \in 1 .. 3 * NumPieces : table'[Len(table) + k] = listed[f][k]
<1>1. /\ UNCHANGED boxes /\ spc[f] = "adding" /\ spc' = [spc EXCEPT ![f] = "publishing"]
      /\ table' = table \o listed[f] /\ Len(table) + Len(listed[f]) <= MaxRegions
  BY DEF AddRegions, Fits
<1>2. Len(listed[f]) = 3 * NumPieces
  BY <1>1, Zenon DEF ListInv
<1>3. PICK s \in Seq(Region), t \in Seq(Region) : s = table /\ t = listed[f]
  BY DEF SeqOK
<1>4. /\ Len(s \o t) = Len(s) + Len(t)
      /\ \A k \in 1 .. Len(s) : (s \o t)[k] = s[k]
      /\ \A k \in 1 .. Len(t) : (s \o t)[Len(s) + k] = t[k]
  OBVIOUS
<1>5. QED
  BY <1>1, <1>2, <1>3, <1>4

\* The steps that touch the table, the boxes or the walk.
LEMMA Quiet ==
    ASSUME Next
    PROVE  \/ UNCHANGED <<boxes, table>>
           \/ \E f \in Files : AddRegions(f)
           \/ \E f \in Files, i \in Piece : Rotate(f, i)
BY DEF Next, Save, MakeBox, MakeBoxRaises, ListRegions, AddRegionsRaises, ListRegionsRaises, Publish, Forget,
       CollapseBox, CollapseAllBegin, CollapseAllForget, CollapseAllNext, StopWatchdog

\* SlotInv, one box at a time.
OwnSlot(b) == slot[b] # Full => slot[b] <= Len(table)
Apart(b, c) == slot[b] = slot[c] /\ slot[b] \notin {0, Full} => b = c
InSlot(f, i) ==
    rot[<<f, i>>] = "no" /\ slot[<<f, i>>] \notin {0, Full} =>
        table[slot[<<f, i>>]] = <<f, i, gen[<<f, i>>] + 1>>

\* Boxes keep their own slots, and what is in them, whatever is appended meanwhile.
LEMMA SlotStep ==
    ASSUME TypeOK, SeqOK, ListInv, RotInv, SlotInv, Next
    PROVE  SlotInv'
<1> USE DEF saves, boxes, downs
<1>1. ASSUME /\ \A b \in Box : OwnSlot(b)'
             /\ \A b, c \in Box : Apart(b, c)'
             /\ \A f \in Files, i \in Piece : InSlot(f, i)'
      PROVE  SlotInv'
  BY <1>1, Zenon DEF SlotInv, OwnSlot, Apart, InSlot
<1>2. /\ \A b \in Box : OwnSlot(b)
      /\ \A b, c \in Box : Apart(b, c)
      /\ \A f \in Files, i \in Piece : InSlot(f, i)
  BY Zenon DEF SlotInv, OwnSlot, Apart, InSlot
<1>3. Len(table) \in Nat /\ DOMAIN table = 1 .. Len(table) /\ Full \in Nat /\ Full = MaxRegions + 1
      /\ Full # 0 /\ Len(table) <= MaxRegions /\ MaxRegions \in Nat
  BY ConstantsAssumption DEF SeqOK, Full, TypeOK
<1>4. \A b \in Box : slot[b] \in Nat
  BY <1>3 DEF TypeOK
<1>5. ASSUME UNCHANGED slot, Len(table') \in Nat, Len(table') >= Len(table)
      PROVE  /\ \A b \in Box : OwnSlot(b)'
             /\ \A b, c \in Box : Apart(b, c)'
  <2>1. \A b \in Box : OwnSlot(b)'
    BY <1>2, <1>3, <1>4, <1>5 DEF OwnSlot
  <2>2. \A b, c \in Box : Apart(b, c)'
    BY <1>2, <1>5 DEF Apart
  <2>3. QED
    BY <2>1, <2>2
<1>6. ASSUME NEW g \in Files, NEW j \in Piece,
             slot'[<<g, j>>] = slot[<<g, j>>], gen'[<<g, j>>] = gen[<<g, j>>],
             rot'[<<g, j>>] = rot[<<g, j>>],
             slot[<<g, j>>] \in 1 .. Len(table) => table'[slot[<<g, j>>]] = table[slot[<<g, j>>]]
      PROVE  InSlot(g, j)'
  <2>1. slot[<<g, j>>] \notin {0, Full} => slot[<<g, j>>] \in 1 .. Len(table)
    BY HasSlot
  <2>2. InSlot(g, j)
    BY <1>2
  <2>3. QED
    BY <1>6, <2>1, <2>2 DEF InSlot
<1>7. ASSUME NEW f \in Files, AddRegions(f) PROVE SlotInv'
  <2>1. /\ UNCHANGED <<gen, rot, slot>> /\ Len(table') = Len(table) + 3 * NumPieces
        /\ \A k \in 1 .. Len(table) : table'[k] = table[k]
    BY <1>7, Adding
  <2>2. Len(table') \in Nat /\ Len(table') >= Len(table)
    BY <1>3, <2>1, ConstantsAssumption
  <2>3. \A g \in Files, j \in Piece : InSlot(g, j)'
    BY <1>6, <2>1
  <2>4. QED
    BY <1>1, <1>5, <2>1, <2>2, <2>3
<1>8. ASSUME NEW f \in Files, NEW i \in Piece, RotateShift(f, i) PROVE SlotInv'
  <2>1. UNCHANGED <<slot, table>> /\ rot'[<<f, i>>] = "shifted"
    BY <1>8, HasSlot DEF RotateShift, TypeOK
  <2>2. ASSUME NEW g \in Files, NEW j \in Piece, <<g, j>> # <<f, i>>
        PROVE  gen'[<<g, j>>] = gen[<<g, j>>] /\ rot'[<<g, j>>] = rot[<<g, j>>]
    BY <1>8, <2>2, HasSlot DEF RotateShift, TypeOK
  <2>3. \A g \in Files, j \in Piece : <<g, j>> # <<f, i>> => InSlot(g, j)'
    BY <1>6, <2>1, <2>2
  <2>4. InSlot(f, i)'
    BY <2>1 DEF InSlot
  <2>5. \A g \in Files, j \in Piece : InSlot(g, j)'
    BY <2>3, <2>4
  <2>6. QED
    BY <1>1, <1>3, <1>5, <2>1, <2>5
<1>9. ASSUME NEW f \in Files, NEW i \in Piece, UpdateSlot(f, i) PROVE SlotInv'
  <2>1. /\ UNCHANGED <<gen, slot>> /\ slot[<<f, i>>] # 0
        /\ rot' = [rot EXCEPT ![<<f, i>>] = "no"] /\ Len(table') = Len(table)
        /\ slot[<<f, i>>] # Full => table'[slot[<<f, i>>]] = <<f, i, gen[<<f, i>>] + 1>>
        /\ \A k \in 1 .. Len(table) : k # slot[<<f, i>>] => table'[k] = table[k]
    BY <1>3, <1>9, Updating
  <2>2. ASSUME NEW g \in Files, NEW j \in Piece, <<g, j>> # <<f, i>> PROVE InSlot(g, j)'
    <3>1. rot'[<<g, j>>] = rot[<<g, j>>]
      BY <2>1, <2>2, HasSlot DEF TypeOK
    <3>2. slot[<<g, j>>] \in 1 .. Len(table) => slot[<<g, j>>] # 0 /\ slot[<<g, j>>] # Full
      BY <1>3
    <3>3. slot[<<g, j>>] \in 1 .. Len(table) => slot[<<g, j>>] # slot[<<f, i>>]
      <4>1. <<g, j>> \in Box /\ <<f, i>> \in Box
        BY HasSlot
      <4>2. Apart(<<g, j>>, <<f, i>>)
        BY <1>2, <4>1, Zenon
      <4>3. QED
        BY <2>2, <3>2, <4>2 DEF Apart
    <3>4. slot[<<g, j>>] \in 1 .. Len(table) => table'[slot[<<g, j>>]] = table[slot[<<g, j>>]]
      BY <2>1, <3>3
    <3>5. QED
      BY <1>6, <2>1, <3>1, <3>4
  <2>3. InSlot(f, i)'
    BY <2>1 DEF InSlot
  <2>4. \A g \in Files, j \in Piece : InSlot(g, j)'
    BY <2>2, <2>3
  <2>5. QED
    BY <1>1, <1>3, <1>5, <2>1, <2>4
<1>10. ASSUME NEW f \in Files, NEW i \in Piece, ReserveSlot(f, i) PROVE SlotInv'
  <2>1. <<f, i>> \in Box
    BY HasSlot
  <2>2. rot'[<<f, i>>] = "reserved" /\ UNCHANGED gen
        /\ \A c \in Box : c # <<f, i>> => rot'[c] = rot[c]
    BY <1>10, <2>1, Reserving, SMTT(20) DEF TypeOK
  <2>3. \/ UNCHANGED <<slot, table>>
        \/ /\ slot' = [slot EXCEPT ![<<f, i>>] = Full] /\ UNCHANGED table
        \/ /\ slot' = [slot EXCEPT ![<<f, i>>] = Len(table) + 1]
           /\ Len(table) + 1 <= MaxRegions /\ Len(table') = Len(table) + 1
           /\ \A k \in 1 .. Len(table) : table'[k] = table[k]
    BY <1>10, Reserving
  <2>4. \A c \in Box : c # <<f, i>> => slot'[c] = slot[c]
    BY <2>1, <2>3 DEF TypeOK
  <2>5. \A k \in 1 .. Len(table) : table'[k] = table[k]
    BY <2>3
  <2>6. Len(table') \in Nat /\ Len(table') >= Len(table)
    BY <1>3, <2>3
  <2>7. \/ UNCHANGED slot
        \/ slot'[<<f, i>>] = Full
        \/ slot'[<<f, i>>] = Len(table) + 1 /\ Len(table') = Len(table) + 1
           /\ Len(table) + 1 # Full
    BY <1>3, <2>1, <2>3 DEF TypeOK
  <2>8. \A g \in Files, j \in Piece : InSlot(g, j)'
    <3>1. ASSUME NEW g \in Files, NEW j \in Piece, <<g, j>> # <<f, i>> PROVE InSlot(g, j)'
      <4>1. <<g, j>> \in Box
        BY HasSlot
      <4>2. QED
        BY <1>6, <2>2, <2>4, <2>5, <3>1, <4>1
    <3>2. InSlot(f, i)'
      BY <2>2 DEF InSlot
    <3>3. QED
      BY <3>1, <3>2
  <2>9. CASE UNCHANGED slot
    BY <1>1, <1>5, <2>6, <2>8, <2>9
  <2>10. CASE slot'[<<f, i>>] = Full
    <3>1. ASSUME NEW b \in Box PROVE OwnSlot(b)'
      <4>1. CASE b = <<f, i>>
        BY <2>10, <4>1 DEF OwnSlot, Full
      <4>2. CASE b # <<f, i>>
        BY <1>2, <1>3, <1>4, <2>4, <2>6, <4>2 DEF OwnSlot, Full
      <4>3. QED
        BY <4>1, <4>2
    <3>2. ASSUME NEW b \in Box, NEW c \in Box PROVE Apart(b, c)'
      BY <1>2, <2>4, <2>10 DEF Apart, Full
    <3>3. QED
      BY <1>1, <2>8, <3>1, <3>2
  <2>11. CASE slot'[<<f, i>>] = Len(table) + 1 /\ Len(table') = Len(table) + 1
              /\ Len(table) + 1 # Full
    <3>1. ASSUME NEW b \in Box PROVE OwnSlot(b)'
      <4>1. CASE b = <<f, i>>
        BY <1>3, <2>11, <4>1 DEF OwnSlot
      <4>2. CASE b # <<f, i>>
        BY <1>2, <1>3, <1>4, <2>4, <2>6, <4>2 DEF OwnSlot, Full
      <4>3. QED
        BY <4>1, <4>2
    <3>2. ASSUME NEW b \in Box, b # <<f, i>> PROVE slot'[b] # slot'[<<f, i>>]
      <4>1. slot'[b] = slot[b] /\ OwnSlot(b) /\ slot[b] \in Nat
        BY <1>2, <1>4, <2>4, <3>2
      <4>2. slot[b] # Len(table) + 1
        BY <1>3, <2>11, <4>1 DEF OwnSlot
      <4>3. QED
        BY <2>11, <4>1, <4>2
    <3>3. ASSUME NEW b \in Box, NEW c \in Box PROVE Apart(b, c)'
      BY <1>2, <2>4, <3>2 DEF Apart, Full
    <3>4. QED
      BY <1>1, <2>8, <3>1, <3>3
  <2>12. QED
    BY <2>7, <2>9, <2>10, <2>11
<1>11. CASE UNCHANGED <<boxes, table>>
  BY <1>11 DEF SlotInv
<1>12. QED
  BY <1>7, <1>8, <1>9, <1>10, <1>11, Quiet DEF Rotate

\* An entry that is nobody's slot stays as it is: announcements write to slots only.
LEMMA EntryStays ==
    ASSUME TypeOK, SeqOK, SeqOK', ListInv, RotInv, SlotInv, Next,
           NEW k \in DOMAIN table, Free(k)
    PROVE  k \in DOMAIN table' /\ table'[k] = table[k] /\ Free(k)'
<1>1. /\ k \in 1 .. Len(table) /\ DOMAIN table = 1 .. Len(table) /\ Len(table) \in Nat
      /\ DOMAIN table' = 1 .. Len(table') /\ Len(table') \in Nat
      /\ Len(table) <= MaxRegions /\ MaxRegions \in Nat /\ Full = MaxRegions + 1
  BY ConstantsAssumption DEF SeqOK, TypeOK, Full
<1>2. ASSUME UNCHANGED slot, Len(table') >= Len(table), table'[k] = table[k]
      PROVE  k \in DOMAIN table' /\ table'[k] = table[k] /\ Free(k)'
  BY <1>1, <1>2 DEF Free
<1>3. ASSUME NEW f \in Files, AddRegions(f)
      PROVE  k \in DOMAIN table' /\ table'[k] = table[k] /\ Free(k)'
  <2>1. /\ UNCHANGED slot /\ Len(table') = Len(table) + 3 * NumPieces
        /\ table'[k] = table[k]
    BY <1>1, <1>3, Adding DEF boxes
  <2>2. QED
    BY <1>1, <1>2, <2>1, ConstantsAssumption
<1>4. ASSUME NEW f \in Files, NEW i \in Piece, RotateShift(f, i)
      PROVE  k \in DOMAIN table' /\ table'[k] = table[k] /\ Free(k)'
  BY <1>1, <1>2, <1>4 DEF RotateShift
<1>5. ASSUME NEW f \in Files, NEW i \in Piece, UpdateSlot(f, i)
      PROVE  k \in DOMAIN table' /\ table'[k] = table[k] /\ Free(k)'
  <2>1. k # slot[<<f, i>>]
    BY HasSlot DEF Free
  <2>2. UNCHANGED slot /\ Len(table') = Len(table) /\ table'[k] = table[k]
    BY <1>5, <2>1, Updating
  <2>3. QED
    BY <1>1, <1>2, <2>2
<1>6. ASSUME NEW f \in Files, NEW i \in Piece, ReserveSlot(f, i)
      PROVE  k \in DOMAIN table' /\ table'[k] = table[k] /\ Free(k)'
  <2>1. \/ UNCHANGED <<slot, table>>
        \/ slot' = [slot EXCEPT ![<<f, i>>] = Full] /\ UNCHANGED table
        \/ /\ slot' = [slot EXCEPT ![<<f, i>>] = Len(table) + 1]
           /\ Len(table') = Len(table) + 1 /\ table'[k] = table[k]
    BY <1>1, <1>6, Reserving
  <2>2. k # Full /\ k # Len(table) + 1
    BY <1>1
  <2>3. Free(k)'
    BY <2>1, <2>2 DEF Free, TypeOK
  <2>4. k \in DOMAIN table' /\ table'[k] = table[k]
    <3>1. CASE UNCHANGED table
      BY <3>1
    <3>2. CASE Len(table') = Len(table) + 1 /\ table'[k] = table[k]
      BY <1>1, <3>2
    <3>3. QED
      BY <2>1, <3>1, <3>2, Zenon
  <2>5. QED
    BY <2>3, <2>4
<1>7. CASE UNCHANGED <<boxes, table>>
  BY <1>7 DEF boxes, Free
<1>8. QED
  BY <1>3, <1>4, <1>5, <1>6, <1>7, Quiet DEF Rotate

\* Whose save() is past registering was so before, but for the one that registers now.
LEMMA SaversStep ==
    ASSUME TypeOK, Next, NEW f \in Files, spc'[f] \in {"publishing", "saved"}
    PROVE  spc[f] \in {"publishing", "saved"} \/ AddRegions(f)
<1> USE DEF saves, boxes, downs
<1>1. ASSUME NEW g \in Files, MakeBox(g) PROVE spc[f] \in {"publishing", "saved"}
  BY <1>1 DEF MakeBox, TypeOK
<1>2. ASSUME NEW g \in Files, MakeBoxRaises(g) PROVE spc[f] \in {"publishing", "saved"}
  BY <1>2 DEF MakeBoxRaises, TypeOK
<1>3. ASSUME NEW g \in Files, ListRegions(g) PROVE spc[f] \in {"publishing", "saved"}
  <2>1. spc' = spc \/ spc' = [spc EXCEPT ![g] = "adding"]
    BY <1>3 DEF ListRegions, TypeOK
  <2>2. QED
    BY <2>1 DEF TypeOK
<1>4. ASSUME NEW g \in Files, AddRegions(g), g # f PROVE spc[f] \in {"publishing", "saved"}
  BY <1>4 DEF AddRegions, TypeOK
<1>5. ASSUME NEW g \in Files, AddRegionsRaises(g) \/ ListRegionsRaises(g) PROVE spc[f] \in {"publishing", "saved"}
  BY <1>5 DEF AddRegionsRaises, ListRegionsRaises, TypeOK
<1>6. ASSUME NEW g \in Files, Publish(g) PROVE spc[f] \in {"publishing", "saved"}
  BY <1>6 DEF Publish, TypeOK
<1>7. UNCHANGED spc \/ \E g \in Files : Save(g)
  BY DEF Next, Rotate, RotateShift, ReserveSlot, UpdateSlot, Forget, CollapseBox,
         CollapseAllBegin, CollapseAllForget, CollapseAllNext, StopWatchdog
<1>8. QED
  BY <1>1, <1>2, <1>3, <1>4, <1>5, <1>6, <1>7 DEF Save

\* A save() that has registered its regions does not take that back.
LEMMA SaversStay ==
    ASSUME TypeOK, Next, NEW f \in Files, spc[f] \in {"publishing", "saved"}
    PROVE  spc'[f] \in {"publishing", "saved"}
<1> USE DEF saves, boxes, downs
<1>1. ASSUME NEW g \in Files, Save(g) PROVE spc'[f] \in {"publishing", "saved"}
  <2>1. CASE g = f
    BY <1>1, <2>1 DEF Save, MakeBox, MakeBoxRaises, ListRegions, AddRegions, AddRegionsRaises, ListRegionsRaises,
                      Publish, TypeOK
  <2>2. CASE g # f
    <3>1. spc' = spc \/ spc' = [spc EXCEPT ![g] = spc'[g]]
      BY <1>1 DEF Save, MakeBox, MakeBoxRaises, ListRegions, AddRegions, AddRegionsRaises, ListRegionsRaises,
                  Publish, TypeOK
    <3>2. QED
      BY <2>2, <3>1 DEF TypeOK
  <2>3. QED
    BY <2>1, <2>2
<1>2. UNCHANGED spc \/ \E g \in Files : Save(g)
  BY DEF Next, Rotate, RotateShift, ReserveSlot, UpdateSlot, Forget, CollapseBox,
         CollapseAllBegin, CollapseAllForget, CollapseAllNext, StopWatchdog
<1>3. QED
  BY <1>1, <1>2

\* What a save() has registered stays registered.
LEMMA SavedStep ==
    ASSUME TypeOK, SeqOK, SeqOK', ListInv, RotInv, SlotInv, SavedInv, Next
    PROVE  SavedInv'
<1> DEFINE Kept(x) == \E k \in DOMAIN table : table[k] = x /\ Free(k)
<1>1. ASSUME NEW x, Kept(x) PROVE \E k \in DOMAIN table' : table'[k] = x /\ Free(k)'
  <2>1. PICK k \in DOMAIN table : table[k] = x /\ Free(k)
    BY <1>1
  <2>2. k \in DOMAIN table' /\ table'[k] = x /\ Free(k)'
    BY <2>1, EntryStays
  <2>3. QED
    BY <2>2
<1>2. SUFFICES ASSUME NEW f \in Files, NEW i \in Piece, spc'[f] \in {"publishing", "saved"}
               PROVE  /\ \E k \in DOMAIN table' : table'[k] = <<f, i>> /\ Free(k)'
                      /\ slot'[<<f, i>>] = 0 =>
                           \E k \in DOMAIN table' : table'[k] = <<f, i, 1>> /\ Free(k)'
  BY Zenon DEF SavedInv
<1>3. slot'[<<f, i>>] = 0 => slot[<<f, i>>] = 0
  <2>1. <<f, i>> \in Box
    BY HasSlot
  <2>2. QED
    BY <2>1, SlotStays
<1>4. CASE spc[f] \in {"publishing", "saved"}
  <2>1. Kept(<<f, i>>) /\ (slot[<<f, i>>] = 0 => Kept(<<f, i, 1>>))
    BY <1>4, Zenon DEF SavedInv
  <2> HIDE DEF Kept
  <2>2. QED
    BY <1>1, <1>3, <2>1
<1>5. CASE AddRegions(f)
  <2>1. /\ UNCHANGED slot /\ Len(listed[f]) = 3 * NumPieces
        /\ Len(table') = Len(table) + 3 * NumPieces /\ Len(table') <= MaxRegions
        /\ \A k \in 1 .. 3 * NumPieces : table'[Len(table) + k] = listed[f][k]
    BY <1>5, Adding DEF boxes
  <2>2. i \in 1 .. NumPieces /\ NumPieces \in Nat
    BY ConstantsAssumption DEF Piece
  <2>3. 3 * i \in 1 .. 3 * NumPieces /\ 3 * i - 1 \in 1 .. 3 * NumPieces
    BY <2>2
  <2>4. listed[f][3 * i] = <<f, i>> /\ (slot[<<f, i>>] = 0 => listed[f][3 * i - 1] = <<f, i, 1>>)
    <3>1. 3 * i <= Len(listed[f])
      BY <2>1, <2>2
    <3>2. QED
      BY <3>1, Zenon DEF ListInv
  <2>5. ASSUME NEW k \in 1 .. 3 * NumPieces
        PROVE  \E p \in DOMAIN table' : table'[p] = listed[f][k] /\ Free(p)'
    <3>1. /\ Len(table) \in Nat /\ DOMAIN table' = 1 .. Len(table')
          /\ MaxRegions \in Nat /\ Full = MaxRegions + 1
      BY ConstantsAssumption DEF SeqOK, Full
    <3>2. Len(table) + k \in 1 .. Len(table')
      BY <2>1, <2>2, <3>1
    <3>3. Len(table) + k > Len(table) /\ Len(table) + k # Full
      BY <2>1, <2>2, <3>1
    <3>4. ASSUME NEW b \in Box PROVE slot[b] # Len(table) + k
      BY <3>1, <3>3 DEF SlotInv
    <3>5. QED
      <4>1. PICK n : n = Len(table) + k
        OBVIOUS
      <4>2. Free(n)'
        BY <2>1, <3>4, <4>1 DEF Free
      <4>3. n \in DOMAIN table' /\ table'[n] = listed[f][k]
        BY <2>1, <3>1, <3>2, <4>1
      <4>4. QED
        BY <4>2, <4>3
  <2>6. QED
    BY <1>3, <2>3, <2>4, <2>5, Zenon
<1>6. QED
  BY <1>2, <1>4, <1>5, SaversStep

\* Slots are for boxes that have rotated.
LEMMA SlottedRotated ==
    ASSUME TypeOK, RotInv
    PROVE  Slotted \subseteq Rotated
<1>1. ASSUME NEW b \in Box, slot[b] # 0 PROVE gen[b] > 0
  <2>1. PICK f \in Files, i \in Piece : b = <<f, i>>
    BY DEF Box
  <2>2. gen[b] # 0
    BY <1>1, <2>1 DEF RotInv
  <2>3. gen[b] \in Nat
    BY ConstantsAssumption DEF TypeOK
  <2>4. QED
    BY <2>2, <2>3
<1>2. QED
  BY <1>1 DEF Slotted, Rotated

\* Adding one member to the savers or to the boxes with a slot makes room for its regions.
LEMMA Room ==
    ASSUME NEW S, IsFiniteSet(S), NEW x, x \notin S
    PROVE  /\ IsFiniteSet(S \cup {x}) /\ Cardinality(S) \in Nat
           /\ Cardinality(S \cup {x}) = Cardinality(S) + 1
BY FS_AddElement, FS_CardinalityType

\* Three entries per piece of one more file.
LEMMA Amounts ==
    ASSUME NEW c \in Nat, NEW n \in Nat
    PROVE  (c + 1) * 3 * n = c * 3 * n + 3 * n /\ c * 3 * n \in Nat
OBVIOUS

\* Every entry of the table was added by a save() or reserved by a box, once each.
LEMMA BoundStep ==
    ASSUME TypeOK, SeqOK, ListInv, RotInv, SlotInv, BoundInv, Next
    PROVE  BoundInv'
<1>1. /\ IsFiniteSet(Savers) /\ IsFiniteSet(Rotated) /\ IsFiniteSet(Slotted)
      /\ Cardinality(Savers) \in Nat /\ Cardinality(Slotted) \in Nat
      /\ Len(table) \in Nat /\ NumPieces \in Nat
      /\ Len(table) <= Cardinality(Savers) * 3 * NumPieces + Cardinality(Slotted)
  <2>1. IsFiniteSet(Savers) /\ IsFiniteSet(Rotated)
    BY DEF BoundInv
  <2>2. IsFiniteSet(Slotted)
    BY <2>1, SlottedRotated, FS_Subset
  <2>3. QED
    BY <2>1, <2>2, FS_CardinalityType, ConstantsAssumption DEF BoundInv, SeqOK
<1>2. ASSUME NEW f \in Files, AddRegions(f) PROVE BoundInv'
  <2>1. Savers' = Savers \cup {f} /\ f \notin Savers
    BY <1>2, Adding DEF Savers, TypeOK
  <2>2. UNCHANGED <<Slotted, Rotated>> /\ Len(table') = Len(table) + 3 * NumPieces
    BY <1>2, Adding DEF boxes, Slotted, Rotated
  <2>3. IsFiniteSet(Savers') /\ Cardinality(Savers') = Cardinality(Savers) + 1
    BY <1>1, <2>1, Room
  <2>4. PICK c \in Nat, d \in Nat, t \in Nat :
          c = Cardinality(Savers) /\ d = Cardinality(Slotted) /\ t = Len(table)
    BY <1>1
  <2>5. t <= c * 3 * NumPieces + d
    BY <1>1, <2>4, Zenon
  <2>6. (c + 1) * 3 * NumPieces = c * 3 * NumPieces + 3 * NumPieces /\ c * 3 * NumPieces \in Nat
    BY <1>1, Amounts
  <2>7. PICK r : r = c * 3 * NumPieces
    OBVIOUS
  <2>8. t + 3 * NumPieces <= (c + 1) * 3 * NumPieces + d
    <3>1. t <= r + d /\ r \in Nat /\ (c + 1) * 3 * NumPieces = r + 3 * NumPieces
      BY <2>5, <2>6, <2>7, Zenon
    <3>2. t + 3 * NumPieces <= (r + 3 * NumPieces) + d
      BY <1>1, <2>4, <3>1
    <3>3. QED
      BY <3>1, <3>2, Zenon
  <2>9. QED
    BY <1>1, <2>2, <2>3, <2>4, <2>8, Zenon DEF BoundInv
<1>3. ASSUME NEW f \in Files, NEW i \in Piece, Rotate(f, i) PROVE BoundInv'
  <2>1. <<f, i>> \in Box /\ UNCHANGED Savers
    BY <1>3, HasSlot DEF Rotate, RotateShift, ReserveSlot, UpdateSlot, saves, Savers
  <2>2. IsFiniteSet(Rotated')
    <3>1. Rotated' \subseteq Rotated \cup {<<f, i>>}
      BY <1>3, <2>1 DEF Rotate, RotateShift, ReserveSlot, UpdateSlot, Rotated, TypeOK
    <3>2. IsFiniteSet(Rotated \cup {<<f, i>>})
      BY <1>1, FS_AddElement
    <3>3. QED
      BY <3>1, <3>2, FS_Subset
  <2>3. \/ Len(table') = Len(table) /\ Slotted' = Slotted
        \/ Len(table') \in {Len(table), Len(table) + 1}
           /\ Slotted' = Slotted \cup {<<f, i>>} /\ <<f, i>> \notin Slotted
    <3>1. CASE RotateShift(f, i)
      BY <3>1 DEF RotateShift, Slotted
    <3>2. CASE UpdateSlot(f, i)
      BY <3>2, Updating DEF Slotted
    <3>3. CASE ReserveSlot(f, i)
      <4>1. Full # 0 /\ Len(table) + 1 # 0
        BY <1>1, ConstantsAssumption DEF Full
      <4>2. \/ UNCHANGED <<slot, table>>
            \/ /\ slot[<<f, i>>] = 0 /\ slot' = [slot EXCEPT ![<<f, i>>] = Full]
               /\ UNCHANGED table
            \/ /\ slot[<<f, i>>] = 0 /\ slot' = [slot EXCEPT ![<<f, i>>] = Len(table) + 1]
               /\ Len(table') = Len(table) + 1
        BY <3>3, Reserving
      <4>3. QED
        BY <2>1, <4>1, <4>2 DEF Slotted, TypeOK
    <3>4. QED
      BY <1>3, <3>1, <3>2, <3>3 DEF Rotate
  <2>4. Cardinality(Savers) * 3 * NumPieces \in Nat
    BY <1>1, Amounts
  <2>5. Len(table') <= Cardinality(Savers) * 3 * NumPieces + Cardinality(Slotted')
    <3>1. PICK r \in Nat, d \in Nat, t \in Nat :
            r = Cardinality(Savers) * 3 * NumPieces /\ d = Cardinality(Slotted) /\ t = Len(table)
      BY <1>1, <2>4
    <3>2. t <= r + d
      BY <1>1, <3>1, Zenon
    <3>3. CASE Len(table') = Len(table) /\ Slotted' = Slotted
      BY <3>1, <3>2, <3>3, Zenon
    <3>4. CASE Len(table') \in {Len(table), Len(table) + 1}
               /\ Slotted' = Slotted \cup {<<f, i>>} /\ <<f, i>> \notin Slotted
      <4>1. Cardinality(Slotted') = d + 1
        BY <1>1, <3>1, <3>4, Room
      <4>2. Len(table') \in {t, t + 1}
        BY <3>1, <3>4
      <4>3. t <= r + (d + 1) /\ t + 1 <= r + (d + 1)
        BY <3>2
      <4>4. QED
        BY <3>1, <4>1, <4>2, <4>3
    <3>5. QED
      BY <2>3, <3>3, <3>4
  <2>6. QED
    BY <1>1, <2>1, <2>2, <2>5 DEF BoundInv
<1>4. CASE UNCHANGED <<boxes, table>> /\ \A f \in Files : ~AddRegions(f)
  <2>1. UNCHANGED <<Slotted, Rotated, table>>
    BY <1>4 DEF boxes, Slotted, Rotated
  <2>2. Savers' = Savers
    <3>1. Savers' \subseteq Savers
      BY <1>4, SaversStep DEF Savers
    <3>2. Savers \subseteq Savers'
      BY SaversStay DEF Savers
    <3>3. QED
      BY <3>1, <3>2
  <2>3. QED
    BY <1>1, <2>1, <2>2, Zenon DEF BoundInv
<1>5. QED
  BY <1>2, <1>3, <1>4, Quiet

\* TypeOK without the sequences, which SeqOK and ListInv speak of.
Saving  == /\ spc \in [Files -> {"building", "listing", "adding",
                                 "publishing", "saved", "raised"}]
           /\ built \in [Files -> 0 .. NumPieces]
           /\ raises \in 0 .. MaxRaises
           /\ held \subseteq Files
Turning == /\ gen \in [Box -> 0 .. MaxGen]
           /\ rot \in [Box -> {"no", "shifted", "reserved"}]
           /\ slot \in [Box -> 0 .. Full]
Ending  == /\ fpc \in [Files -> {"no", "collapsing", "done"}]
           /\ collapsed \in [Files -> 0 .. NumPieces]
           /\ apc \in {"idle", "forgetting", "waiting", "stopping", "done"}
           /\ todo \subseteq Files
           /\ waitFor \subseteq Files

\* Every step keeps the types of the saves.
LEMMA SavingStep ==
    ASSUME TypeOK, SeqOK, LifeInv, Next
    PROVE  Saving'
<1> USE DEF saves, boxes, downs
<1>1. Saving /\ MaxRaises \in Nat /\ NumPieces \in Nat
  BY ConstantsAssumption DEF TypeOK, Saving
<1>2. ASSUME NEW f \in Files, MakeBox(f) PROVE Saving'
  <2>1. built[f] < NumPieces /\ built[f] \in 0 .. NumPieces
    BY <1>2 DEF MakeBox, LifeInv, TypeOK
  <2>2. built[f] + 1 \in 0 .. NumPieces
    BY <1>1, <2>1
  <2>3. QED
    BY <1>1, <1>2, <2>2 DEF MakeBox, Saving
<1>3. ASSUME NEW f \in Files, MakeBoxRaises(f) PROVE Saving'
  <2>1. raises + 1 \in 0 .. MaxRaises
    BY <1>1, <1>3 DEF MakeBoxRaises, Saving
  <2>2. QED
    BY <1>1, <1>3, <2>1 DEF MakeBoxRaises, Saving
<1>4. ASSUME NEW f \in Files, ListRegions(f) PROVE Saving'
  BY <1>1, <1>4 DEF ListRegions, Saving
<1>5. ASSUME NEW f \in Files, AddRegions(f) PROVE Saving'
  BY <1>1, <1>5 DEF AddRegions, Saving
<1>6. ASSUME NEW f \in Files, AddRegionsRaises(f) \/ ListRegionsRaises(f) PROVE Saving'
  BY <1>1, <1>6 DEF AddRegionsRaises, ListRegionsRaises, Saving
<1>7. ASSUME NEW f \in Files, Publish(f) PROVE Saving'
  BY <1>1, <1>7 DEF Publish, Saving
<1>8. CASE UNCHANGED <<spc, built, raises>> /\ held' \subseteq held
  BY <1>1, <1>8 DEF Saving
<1>9. \/ UNCHANGED <<spc, built, raises>> /\ held' \subseteq held
      \/ \E f \in Files : Save(f)
  BY ZenonT(30) DEF Next, Rotate, RotateShift, ReserveSlot, UpdateSlot, Forget, CollapseBox,
         CollapseAllBegin, CollapseAllForget, CollapseAllNext, StopWatchdog
<1>10. QED
  BY <1>2, <1>3, <1>4, <1>5, <1>6, <1>7, <1>8, <1>9 DEF Save

\* Every step keeps the types of the rotations, and the table within its limit.
LEMMA TurningStep ==
    ASSUME TypeOK, SeqOK, ListInv, RotInv, SlotInv, Next
    PROVE  Turning' /\ Len(table') <= MaxRegions
<1>1. /\ Turning /\ MaxGen \in Nat /\ Full \in Nat /\ Full = MaxRegions + 1 /\ MaxRegions \in Nat
      /\ Len(table) \in Nat /\ Len(table) <= MaxRegions
  BY ConstantsAssumption DEF TypeOK, Turning, Full, SeqOK
<1>2. ASSUME NEW f \in Files, AddRegions(f) PROVE Turning' /\ Len(table') <= MaxRegions
  BY <1>1, <1>2, Adding DEF Turning, boxes
<1>3. ASSUME NEW f \in Files, NEW i \in Piece, RotateShift(f, i)
      PROVE  Turning' /\ Len(table') <= MaxRegions
  <2>1. gen[<<f, i>>] + 1 \in 0 .. MaxGen
    BY <1>1, <1>3, Generations DEF RotateShift
  <2>2. QED
    BY <1>1, <1>3, <2>1 DEF RotateShift, Turning
<1>4. ASSUME NEW f \in Files, NEW i \in Piece, UpdateSlot(f, i)
      PROVE  Turning' /\ Len(table') <= MaxRegions
  BY <1>1, <1>4, Updating DEF Turning
<1>5. ASSUME NEW f \in Files, NEW i \in Piece, ReserveSlot(f, i)
      PROVE  Turning' /\ Len(table') <= MaxRegions
  <2>1. rot' \in [Box -> {"no", "shifted", "reserved"}] /\ gen' \in [Box -> 0 .. MaxGen]
    BY <1>1, <1>5, Reserving DEF Turning
  <2>2. \/ UNCHANGED <<slot, table>>
        \/ slot' = [slot EXCEPT ![<<f, i>>] = Full] /\ UNCHANGED table
        \/ /\ slot' = [slot EXCEPT ![<<f, i>>] = Len(table) + 1]
           /\ Len(table) + 1 <= MaxRegions /\ Len(table') = Len(table) + 1
    BY <1>5, Reserving
  <2>3. Full \in 0 .. Full /\ (Len(table) + 1 <= MaxRegions => Len(table) + 1 \in 0 .. Full)
    BY <1>1
  <2>4. slot' \in [Box -> 0 .. Full]
    BY <1>1, <2>2, <2>3 DEF Turning
  <2>5. Len(table') <= MaxRegions
    <3>1. CASE UNCHANGED table
      BY <1>1, <3>1
    <3>2. CASE Len(table) + 1 <= MaxRegions /\ Len(table') = Len(table) + 1
      BY <3>2, Zenon
    <3>3. QED
      BY <2>2, <3>1, <3>2, Zenon
  <2>6. QED
    BY <2>1, <2>4, <2>5 DEF Turning
<1>6. CASE UNCHANGED <<boxes, table>>
  BY <1>1, <1>6 DEF Turning, boxes
<1>7. QED
  BY <1>2, <1>3, <1>4, <1>5, <1>6, Quiet DEF Rotate

\* Every step keeps the types of forget() and collapse_all().
LEMMA EndingStep ==
    ASSUME TypeOK, LifeInv, Next
    PROVE  Ending' /\ watching' \in BOOLEAN
<1> USE DEF saves, boxes, downs
<1>1. Ending /\ NumPieces \in Nat
  BY ConstantsAssumption DEF TypeOK, Ending
<1>2. watching' = watching \/ watching' = FALSE
  BY Zenon DEF Next, Save, MakeBox, MakeBoxRaises, ListRegions, AddRegions, AddRegionsRaises, ListRegionsRaises,
         Publish, Rotate, RotateShift, ReserveSlot, UpdateSlot, Forget, CollapseBox,
         CollapseAllBegin, CollapseAllForget, CollapseAllNext, StopWatchdog
<1>3. watching' \in BOOLEAN
  BY <1>2, Zenon DEF TypeOK
<1>4. ASSUME NEW f \in Files, Forget(f) PROVE Ending'
  BY <1>1, <1>4 DEF Forget, Ending
<1>5. ASSUME NEW f \in Files, CollapseBox(f) PROVE Ending'
  <2>1. collapsed[f] < NumPieces /\ collapsed[f] \in 0 .. NumPieces
    BY <1>5 DEF CollapseBox, LifeInv, TypeOK
  <2>2. collapsed[f] + 1 \in 0 .. NumPieces
    BY <1>1, <2>1
  <2>3. QED
    BY <1>1, <1>5, <2>2 DEF CollapseBox, Ending
<1>6. ASSUME CollapseAllBegin PROVE Ending'
  BY <1>1, <1>6 DEF CollapseAllBegin, Ending, TypeOK
<1>7. ASSUME NEW f \in Files, CollapseAllForget(f) PROVE Ending'
  BY <1>1, <1>7 DEF CollapseAllForget, Ending
<1>8. ASSUME CollapseAllNext PROVE Ending'
  BY <1>1, <1>8 DEF CollapseAllNext, Ending
<1>9. ASSUME StopWatchdog PROVE Ending'
  BY <1>1, <1>9 DEF StopWatchdog, Ending
<1>10. ASSUME UNCHANGED downs PROVE Ending'
  BY <1>1, <1>10 DEF Ending
<1>11. \/ UNCHANGED downs \/ CollapseAllBegin \/ CollapseAllNext \/ StopWatchdog
       \/ \E f \in Files : Forget(f) \/ CollapseBox(f) \/ CollapseAllForget(f)
  BY ZenonT(30) DEF Next, Save, MakeBox, MakeBoxRaises, ListRegions, AddRegions, AddRegionsRaises, ListRegionsRaises, Publish,
         Rotate, RotateShift, ReserveSlot, UpdateSlot
<1>12. QED
  BY <1>3, <1>4, <1>5, <1>6, <1>7, <1>8, <1>9, <1>10, <1>11

\* Every step keeps the types.
LEMMA TypeStep ==
    ASSUME TypeOK, SeqOK, SeqOK', LifeInv, ListInv, ListInv', RotInv, SlotInv, Next
    PROVE  TypeOK'
<1>1. Saving' /\ Turning' /\ Ending' /\ watching' \in BOOLEAN /\ Len(table') <= MaxRegions
  BY SavingStep, TurningStep, EndingStep, Zenon
<1>2. ASSUME NEW f \in Files
      PROVE  /\ Len(listed'[f]) <= 3 * NumPieces
             /\ \A k \in DOMAIN listed'[f] : listed'[f][k] \in Region
  <2>1. listed'[f] \in Seq(Region) /\ NumPieces \in Nat
    BY ConstantsAssumption DEF SeqOK
  <2>2. \/ Len(listed'[f]) < 3 * NumPieces \/ Len(listed'[f]) = 3 * NumPieces
        \/ listed'[f] = <<>>
    BY Zenon DEF ListInv
  <2>3. Len(listed'[f]) <= 3 * NumPieces
    BY <2>1, <2>2
  <2>4. \A k \in DOMAIN listed'[f] : listed'[f][k] \in Region
    BY <2>1
  <2>5. QED
    BY <2>3, <2>4
<1>3. \A k \in DOMAIN table' : table'[k] \in Region
  BY DEF SeqOK
<1>4. QED
  BY <1>1, <1>2, <1>3, Zenon DEF TypeOK, Saving, Turning, Ending

\* An empty storage with an empty table is in the invariant.
LEMMA Initially == Init => IInv
<1> SUFFICES ASSUME Init PROVE IInv
  OBVIOUS
<1>1. /\ NumPieces \in Nat /\ NumPieces > 0 /\ MaxRegions \in Nat /\ MaxRaises \in Nat
      /\ MaxGen \in Nat /\ Full \in Nat /\ Full # 0
  BY ConstantsAssumption DEF Full
<1>2. <<>> \in Seq(Region) /\ Len(<<>>) = 0 /\ DOMAIN <<>> = {}
  OBVIOUS
<1>3. SeqOK
  BY <1>2 DEF Init, SeqOK
<1>4. TypeOK
  <2>1. watching \in BOOLEAN
    BY Zenon DEF Init
  <2>2. Saving /\ Turning /\ Ending
    BY <1>1 DEF Init, Saving, Turning, Ending
  <2>3. \A f \in Files : /\ Len(listed[f]) <= 3 * NumPieces
                         /\ \A k \in DOMAIN listed[f] : listed[f][k] \in Region
    BY <1>1, <1>2 DEF Init
  <2>4. Len(table) <= MaxRegions /\ \A k \in DOMAIN table : table[k] \in Region
    BY <1>1, <1>2 DEF Init
  <2>5. QED
    BY <2>1, <2>2, <2>3, <2>4, Zenon DEF TypeOK, Saving, Turning, Ending
<1>5. LifeInv
  BY <1>1 DEF Init, LifeInv
<1>6. ListInv
  <2>1. \A i \in Piece : ~(3 * i <= 0)
    BY <1>1 DEF Piece
  <2>2. QED
    BY <1>1, <1>2, <2>1 DEF Init, ListInv
<1>7. RotInv
  BY DEF Init, RotInv, Box
<1>8. SlotInv
  <2>1. \A b \in Box : slot[b] = 0
    BY DEF Init
  <2>2. \A f \in Files, i \in Piece : slot[<<f, i>>] = 0
    BY <2>1 DEF Box
  <2>3. \A b \in Box : slot[b] # Full => slot[b] <= Len(table)
    BY <1>2, <2>1 DEF Init
  <2>4. QED
    BY <2>1, <2>2, <2>3, Zenon DEF SlotInv
<1>9. SavedInv
  BY DEF Init, SavedInv
<1>10. BoundInv
  <2>1. Savers = {} /\ Rotated = {} /\ Slotted = {}
    BY DEF Init, Savers, Rotated, Slotted
  <2>2. IsFiniteSet({}) /\ Cardinality({}) = 0
    BY FS_EmptySet
  <2>3. Len(table) = 0
    BY <1>2 DEF Init
  <2>4. 0 <= 0 * 3 * NumPieces + 0
    BY <1>1
  <2>5. QED
    BY <2>1, <2>2, <2>3, <2>4, Zenon DEF BoundInv
<1>11. QED
  BY <1>3, <1>4, <1>5, <1>6, <1>7, <1>8, <1>9, <1>10, Zenon DEF IInv

\* A step that changes nothing keeps the invariant.
LEMMA Stutter == ASSUME IInv, UNCHANGED vars PROVE IInv'
<1> USE DEF vars, saves, boxes, downs
<1>1. TypeOK' /\ SeqOK' /\ LifeInv'
  BY DEF IInv, TypeOK, SeqOK, LifeInv
<1>2. ListInv' /\ RotInv' /\ SlotInv'
  BY DEF IInv, ListInv, RotInv, SlotInv
<1>3. SavedInv' /\ BoundInv'
  BY DEF IInv, SavedInv, Free, BoundInv, Savers, Slotted, Rotated
<1>4. QED
  BY <1>1, <1>2, <1>3 DEF IInv

\* The inductive invariant: types, the life of a file, the walk over its regions, the
\* first rotation, the slots, what saves registered and the size of the table.
THEOREM Invariance == Spec => []IInv
<1>1. ASSUME IInv, Next PROVE IInv'
  <2>1. /\ TypeOK /\ SeqOK /\ LifeInv /\ ListInv /\ RotInv /\ SlotInv /\ SavedInv /\ BoundInv
    BY <1>1, Zenon DEF IInv
  <2>2. SeqOK' /\ ListInv' /\ RotInv' /\ SlotInv' /\ LifeInv'
    BY <1>1, <2>1, SeqStep, ListStep, RotStep, SlotStep, LifeStep, Zenon
  <2>3. TypeOK' /\ SavedInv' /\ BoundInv'
    BY <1>1, <2>1, <2>2, TypeStep, SavedStep, BoundStep, Zenon
  <2>4. QED
    BY <2>2, <2>3, Zenon DEF IInv
<1>2. IInv /\ [Next]_vars => IInv'
  BY <1>1, Stutter
<1>3. QED
  BY Initially, <1>2, PTL DEF Spec

\* secure_system.py with the region table of process_watchdog.py: through any number of
\* saves, rotations, refused slots and full tables, the next key of every held piece is
\* registered, every box writes only its own slot, and the table stays within its bounds.
THEOREM TableFollowsBoxes == Spec => []TableInOrder
<1>1. ASSUME IInv PROVE TableInOrder
  <2> USE <1>1 DEF IInv
  <2>1. ASSUME NEW f \in held, NEW i \in Piece
        PROVE  f \in Files /\ spc[f] = "saved" /\ <<f, i>> \in Registered
    <3>1. f \in Files /\ spc[f] = "saved"
      BY DEF TypeOK, LifeInv
    <3>2. PICK k \in DOMAIN table : table[k] = <<f, i>>
      BY <3>1 DEF SavedInv
    <3>3. QED
      BY <3>1, <3>2 DEF Registered
  <2>2. ASSUME NEW f \in Files, NEW i \in Piece, rot[<<f, i>>] = "no"
        PROVE  /\ NextGen(f, i) = gen[<<f, i>>] + 1
               /\ slot[<<f, i>>] = 0 => NextGen(f, i) = 1
               /\ slot[<<f, i>>] \notin {0, Full} =>
                    /\ slot[<<f, i>>] \in DOMAIN table
                    /\ table[slot[<<f, i>>]] = <<f, i, NextGen(f, i)>>
    <3>1. NextGen(f, i) = gen[<<f, i>>] + 1
      BY <2>2 DEF NextGen
    <3>2. ASSUME slot[<<f, i>>] = 0 PROVE NextGen(f, i) = 1
      <4>1. gen[<<f, i>>] = 0
        BY <2>2, <3>2 DEF RotInv
      <4>2. QED
        BY <3>1, <4>1
    <3>3. ASSUME slot[<<f, i>>] \notin {0, Full}
          PROVE  /\ slot[<<f, i>>] \in DOMAIN table
                 /\ table[slot[<<f, i>>]] = <<f, i, NextGen(f, i)>>
      <4>1. slot[<<f, i>>] \in DOMAIN table
        BY <3>3, HasSlot DEF SeqOK
      <4>2. QED
        BY <2>2, <3>1, <3>3, <4>1, Zenon DEF SlotInv
    <3>4. QED
      BY <3>1, <3>2, <3>3
  <2>3. NextKeyRegistered
    <3>1. SUFFICES ASSUME NEW f \in held, NEW i \in Piece, rot[<<f, i>>] = "no",
                          slot[<<f, i>>] # Full
                   PROVE  <<f, i, NextGen(f, i)>> \in Registered
      BY DEF NextKeyRegistered
    <3>2. f \in Files /\ spc[f] = "saved"
      BY <2>1
    <3>3. CASE slot[<<f, i>>] = 0
      <4>1. PICK k \in DOMAIN table : table[k] = <<f, i, 1>>
        BY <3>2, <3>3 DEF SavedInv
      <4>2. NextGen(f, i) = 1
        BY <2>2, <3>1, <3>2, <3>3
      <4>3. QED
        BY <4>1, <4>2 DEF Registered
    <3>4. CASE slot[<<f, i>>] # 0
      BY <2>2, <3>1, <3>2, <3>4 DEF Registered
    <3>5. QED
      BY <3>3, <3>4
  <2>4. SlotsDisjoint
    <3>1. ASSUME NEW k \in 1 .. MaxRegions PROVE k # 0 /\ k # Full
      BY ConstantsAssumption DEF Full
    <3>2. QED
      BY <2>1, <2>2, <3>1 DEF SlotsDisjoint
  <2>5. TableBounded
    <3>1. Slotted \subseteq Rotated /\ IsFiniteSet(Rotated) /\ IsFiniteSet(Savers)
      BY SlottedRotated DEF BoundInv
    <3>2. Cardinality(Slotted) <= Cardinality(Rotated) /\ IsFiniteSet(Slotted)
      BY <3>1, FS_Subset
    <3>3. /\ Cardinality(Savers) \in Nat /\ Cardinality(Slotted) \in Nat
          /\ Cardinality(Rotated) \in Nat /\ Len(table) \in Nat /\ NumPieces \in Nat
      BY <3>1, <3>2, FS_CardinalityType, ConstantsAssumption DEF SeqOK
    <3>4. PICK r \in Nat : r = Cardinality(Savers) * 3 * NumPieces
      BY <3>3, Amounts
    <3>5. Len(table) <= r + Cardinality(Slotted)
      BY <3>4, Zenon DEF BoundInv
    <3>6. Len(table) <= r + Cardinality(Rotated)
      BY <3>2, <3>3, <3>5
    <3>7. Len(table) <= MaxRegions
      BY DEF TypeOK
    <3>8. QED
      BY <3>4, <3>6, <3>7, Zenon DEF TableBounded, Savers, Rotated
  <2>6. QED
    BY <2>3, <2>4, <2>5 DEF TableInOrder
<1>2. QED
  BY Invariance, <1>1, PTL

\* forget() and collapse_all() of secure_system.py, alone or together: a file that can be
\* looked up has all its boxes, and one that is forgotten, by whomever, has none.
THEOREM FilesAndBoxesTogether == Spec => []BoxesOfFiles
<1>1. ASSUME IInv PROVE BoxesOfFiles
  <2> USE <1>1 DEF IInv
  <2>1. ASSUME NEW f \in Files
        PROVE  collapsed[f] \in 0 .. NumPieces /\ built[f] \in 0 .. NumPieces /\ NumPieces \in Nat
    BY ConstantsAssumption DEF TypeOK
  <2>2. HeldIsWhole
    <3>1. SUFFICES ASSUME NEW f \in held, NEW i \in Piece PROVE Falling(f, i)
      BY DEF HeldIsWhole
    <3>2. f \in Files /\ collapsed[f] = 0 /\ built[f] = NumPieces
      BY DEF TypeOK, LifeInv
    <3>3. i \in 1 .. NumPieces
      BY Zenon DEF Piece
    <3>4. QED
      BY <2>1, <3>2, <3>3 DEF Falling
  <2>3. ForgetLeavesNoBox
    <3>1. SUFFICES ASSUME NEW f \in Files, NEW i \in Piece, Falling(f, i), f \notin held,
                          spc[f] \notin {"building", "listing", "adding", "publishing", "raised"}
                   PROVE  fpc[f] = "collapsing"
      BY Zenon DEF ForgetLeavesNoBox
    <3>2. spc[f] = "saved" /\ fpc[f] # "no"
      BY <3>1 DEF TypeOK, LifeInv
    <3>3. fpc[f] = "done" => collapsed[f] = NumPieces
      BY Zenon DEF LifeInv
    <3>4. collapsed[f] < i /\ i <= NumPieces
      BY <2>1, <3>1, ConstantsAssumption DEF Falling, Piece
    <3>5. collapsed[f] # NumPieces
      BY <2>1, <3>4, ConstantsAssumption DEF Piece
    <3>6. QED
      BY <3>2, <3>3, <3>5 DEF TypeOK
  <2>4. QED
    BY <2>2, <2>3 DEF BoxesOfFiles
<1>2. QED
  BY Invariance, <1>1, PTL

-----------------------------------------------------------------------------
(***************************************************************************)
(* The release of transit keys by the same class: KeyRelease keeps its     *)
(* promises for any number of calls, any TTL and any clock range.          *)
(***************************************************************************)
\* Past its fsync() a call's file is on disk.
SyncedIsDurable ==
    \A t \in Call : pc[t] \in {"synced", "minted", "done"} => t \in durable

\* So are all its chunks, whatever decrypt_wrapped_file() has read of them.
SyncedIsWhole ==
    \A t \in Call : pc[t] \in {"written", "synced", "minted", "done"} => written[t] = NumChunks

\* A token in the table was issued and its key is still here.
PendingIsHere == \A t \in pending : pc[t] = "done" /\ delivered[t] = 0

\* A call that has not returned has given no key away.
NotBeforeReturn == \A t \in Call : pc[t] # "done" => delivered[t] = 0

DeliveredOnce == \A t \in Call : delivered[t] \in {0, 1}

\* What redeem_key() has said about a token, it says of one that is not in the table.
RefusedIsGone == \A t \in Call : answers[t] # {} => pc[t] = "done" /\ t \notin pending

ReleaseInv ==
    /\ ReleaseTypeOK
    /\ SyncedIsDurable
    /\ SyncedIsWhole
    /\ PendingIsHere
    /\ NotBeforeReturn
    /\ DeliveredOnce
    /\ RefusedIsGone
    /\ RedeemableUntilDeadline
    /\ DecryptedIsWhole

\* The initial state satisfies the invariant.
LEMMA InitReleaseInv == ReleaseInit => ReleaseInv
  BY ReleaseAssumption
     DEF ReleaseInit, ReleaseInv, ReleaseTypeOK, SyncedIsDurable, SyncedIsWhole,
          DecryptedIsWhole, PendingIsHere, NotBeforeReturn,
         DeliveredOnce, RefusedIsGone, RedeemableUntilDeadline, Call, Time

\* Every step keeps the types: the clock stays in range and so does every
\* deadline that Mint sets.
LEMMA ReleaseTypeStep == ReleaseTypeOK /\ [ReleaseNext]_releaseVars => ReleaseTypeOK'
<1> SUFFICES ASSUME ReleaseTypeOK, [ReleaseNext]_releaseVars PROVE ReleaseTypeOK'
  OBVIOUS
<1> USE ReleaseAssumption DEF ReleaseTypeOK, Call, Time
<1>1. CASE Tick
  BY <1>1 DEF Tick, files, desk, log, back
<1>2. ASSUME NEW t \in Call, Begin(t) \/ StreamWrapped(t) \/ Fails(t) \/ Fsync(t)
      PROVE ReleaseTypeOK'
  BY <1>2 DEF Begin, StreamWrapped, Streamed, Fails, Fsync, Goto, files, desk, log, back
<1>7. ASSUME NEW t \in Call, WrapChunk(t) \/ OpenChunk(t) \/ EndOfFile(t) PROVE ReleaseTypeOK'
  BY <1>7 DEF WrapChunk, OpenChunk, EndOfFile, files, desk, log, back
<1>3. ASSUME NEW t \in Call, ReturnKey(t) \/ Redeem(t) PROVE ReleaseTypeOK'
  BY <1>3 DEF ReturnKey, Redeem, Deliver, Goto, files, desk, log, back
<1>4. ASSUME NEW t \in Call, Mint(t) \/ Issue(t) PROVE ReleaseTypeOK'
  BY <1>4 DEF Mint, Issue, Goto, Expired, files, desk, log, back
<1>5. ASSUME NEW t \in Call, RedeemUnknown(t) \/ RedeemExpired(t) PROVE ReleaseTypeOK'
  BY <1>5 DEF RedeemUnknown, RedeemExpired, Refuse, files, desk, log, back
<1>6. CASE UNCHANGED releaseVars
  BY <1>6 DEF releaseVars, files, desk, log, back
<1> QED
  BY <1>1, <1>2, <1>3, <1>4, <1>5, <1>6, <1>7 DEF ReleaseNext

\* Every step keeps the invariant.  The parts lean on each other: a key leaves
\* the table in the step that gives it away, so the next redeemer finds nothing.
LEMMA StepReleaseInv == ReleaseInv /\ [ReleaseNext]_releaseVars => ReleaseInv'
<1> SUFFICES ASSUME ReleaseInv, [ReleaseNext]_releaseVars PROVE ReleaseInv'
  OBVIOUS
<1>t. ReleaseTypeOK /\ ReleaseTypeOK'
  BY ReleaseTypeStep DEF ReleaseInv
<1> DEFINE Rest == /\ SyncedIsDurable /\ SyncedIsWhole /\ PendingIsHere /\ NotBeforeReturn
                   /\ DeliveredOnce /\ RefusedIsGone /\ RedeemableUntilDeadline
                   /\ DecryptedIsWhole
<1>r. Rest
  BY DEF ReleaseInv
<1> SUFFICES Rest'
  BY <1>t DEF ReleaseInv
<1> USE DEF SyncedIsDurable, SyncedIsWhole, DecryptedIsWhole, PendingIsHere, NotBeforeReturn,
           DeliveredOnce, RefusedIsGone, RedeemableUntilDeadline
<1>1. CASE Tick
  <2>1. \A t \in Hostile : now > expires[t] => now' > expires'[t]
    <3>1. now' = now + 1 /\ expires' = expires
      BY <1>1 DEF Tick, desk
    <3>2. now \in Int /\ \A t \in Hostile : expires[t] \in Int
      BY <1>t, ReleaseAssumption DEF ReleaseTypeOK, Time, Call
    <3>3. QED
      BY <3>1, <3>2
  <2>2. RedeemableUntilDeadline'
    BY <1>1, <1>r, <2>1 DEF Tick, files, desk, log, back
  <2>3. QED
    BY <1>1, <1>r, <2>2 DEF Tick, files, desk, log, back
<1>2. ASSUME NEW t \in Call, Begin(t) \/ StreamWrapped(t) \/ Fails(t) PROVE Rest'
  BY <1>2, <1>r, <1>t DEF Begin, StreamWrapped, Streamed, Fails, Goto, files, desk, log, back,
       ReleaseTypeOK, Call
<1>3. ASSUME NEW t \in Call, Fsync(t) PROVE Rest'
  BY <1>3, <1>r, <1>t DEF Fsync, Goto, files, desk, log, back, ReleaseTypeOK, Call
<1>4. ASSUME NEW t \in Call, ReturnKey(t) PROVE Rest'
  <2>1. t \notin Hostile /\ t \notin pending
    BY <1>4, <1>t, ReleaseAssumption DEF ReturnKey, ReleaseTypeOK
  <2> QED
    BY <2>1, <1>4, <1>r, <1>t DEF ReturnKey, Deliver, Goto, files, desk, log, back,
         ReleaseTypeOK, Call
<1>5. ASSUME NEW t \in Call, Mint(t) PROVE Rest'
  BY <1>5, <1>r, <1>t DEF Mint, Goto, files, desk, log, back, ReleaseTypeOK, Call
<1>6. ASSUME NEW t \in Call, Issue(t) PROVE Rest'
  BY <1>6, <1>r, <1>t DEF Issue, Expired, Goto, files, desk, log, back, ReleaseTypeOK, Call
<1>7. ASSUME NEW t \in Call, RedeemUnknown(t) \/ RedeemExpired(t) PROVE Rest'
  BY <1>7, <1>r, <1>t DEF RedeemUnknown, RedeemExpired, Refuse, files, desk, log, back,
       ReleaseTypeOK, Call
<1>8. ASSUME NEW t \in Call, Redeem(t) PROVE Rest'
  BY <1>8, <1>r, <1>t, ReleaseAssumption
     DEF Redeem, Deliver, files, desk, log, back, ReleaseTypeOK, Call, Time
<1>9. ASSUME NEW t \in Call, WrapChunk(t) PROVE Rest'
  BY <1>9, <1>r, <1>t DEF WrapChunk, files, desk, log, back, ReleaseTypeOK, Call
<1>10. ASSUME NEW t \in Call, OpenChunk(t) PROVE Rest'
  BY <1>10, <1>r, <1>t DEF OpenChunk, files, desk, log, back, ReleaseTypeOK, Call
<1>11. ASSUME NEW t \in Call, EndOfFile(t) PROVE Rest'
  \* A key was given away, so the call has returned and its file is whole.
  <2>1. pc[t] = "done" /\ written[t] = NumChunks
    BY <1>11, <1>r, <1>t DEF EndOfFile, ReleaseTypeOK
  <2> QED
    BY <2>1, <1>11, <1>r, <1>t DEF EndOfFile, files, desk, log, back, ReleaseTypeOK, Call
<1>12. CASE UNCHANGED releaseVars
  BY <1>12, <1>r DEF releaseVars, files, desk, log, back
<1> HIDE DEF Rest
<1> QED
  BY <1>1, <1>2, <1>3, <1>4, <1>5, <1>6, <1>7, <1>8, <1>9, <1>10, <1>11, <1>12
     DEF ReleaseNext

\* The inductive invariant holds in every reachable state.
THEOREM ReleaseInvariance == ReleaseSpec => []ReleaseInv
  BY InitReleaseInv, StepReleaseInv, PTL DEF ReleaseSpec

\* No key leaves, and no token for it exists, before its file was forced to
\* disk, for any number of concurrent calls of retrieve_to_destination().
THEOREM ReleasedAfterFsync == ReleaseSpec => []KeyAfterDeparture
<1>1. ReleaseInv => KeyAfterDeparture
  BY DEF ReleaseInv, ReleaseTypeOK, SyncedIsDurable, PendingIsHere, NotBeforeReturn,
         KeyAfterDeparture, Call
<1> QED
  BY <1>1, ReleaseInvariance, PTL

\* Whoever reads a file back with a key that was given away has all its chunks.
THEOREM ReadBackWhole == ReleaseSpec => []DecryptedIsWhole
<1>1. ReleaseInv => DecryptedIsWhole
  BY DEF ReleaseInv
<1> QED
  BY <1>1, ReleaseInvariance, PTL

\* Every transit key is given away at most once.
THEOREM ReleasedOnce == ReleaseSpec => []SingleUse
<1>1. ReleaseInv => SingleUse
  BY DEF ReleaseInv, DeliveredOnce, SingleUse
<1> QED
  BY <1>1, ReleaseInvariance, PTL

\* Whatever other calls sweep and whoever redeems: a token that was returned can be
\* redeemed until its deadline, is refused only when it is too late or its key is gone,
\* and never both times out and gives its key.
THEOREM TokensLastUntilDeadline == ReleaseSpec => []RedeemableUntilDeadline
<1>1. ReleaseInv => RedeemableUntilDeadline
  BY DEF ReleaseInv
<1> QED
  BY <1>1, ReleaseInvariance, PTL
=============================================================================
