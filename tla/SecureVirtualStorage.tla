------------------------- MODULE SecureVirtualStorage -------------------------
(***************************************************************************)
(* SecureVirtualStorage (vstorage/secure_system.py) with the region table  *)
(* of its ProcessWatchdog (vstorage/process_watchdog.py): save() builds    *)
(* one falling box per piece, registers their memory with the watchdog and *)
(* publishes the file; the boxes rotate their keys all the while and tell  *)
(* the watchdog through a slot of the table; forget() and collapse_all()   *)
(* take files down again.                                                  *)
(*                                                                         *)
(* A key guard is <<f, i, g>>: file, piece, generation.  All the pages of  *)
(* a guard are one region here, and so are the pools of a box.             *)
(***************************************************************************)
EXTENDS Naturals, Sequences, FiniteSets

CONSTANTS
    Files,       \* one save() each
    NumPieces,   \* boxes per file: content, structure, metadata
    MaxRegions,  \* ProcessWatchdog.MAX_REGIONS
    MaxRaises,   \* box constructions that may raise (a fetch, the allocator)
    MaxGen       \* bound: rotations per box

ASSUME ConstantsAssumption ==
    /\ NumPieces \in Nat \ {0}
    /\ MaxRegions \in Nat
    /\ MaxRaises \in Nat
    /\ MaxGen \in Nat

VARIABLES
    spc,       \* progress of each file's save()
    built,     \* boxes it has made
    listed,    \* regions it has collected from them
    raises,    \* constructions that have raised so far
    held,      \* self._held
    gen,       \* the generation of each box's current guard
    rot,       \* progress of each box's rotation
    slot,      \* each box's watchdog slot: 0 none yet, Full if refused
    table,     \* the watchdog's region table
    watching,  \* is the watchdog process running?
    fpc,       \* progress of forget() on each file
    collapsed, \* boxes it has collapsed
    apc,       \* progress of collapse_all()
    todo,      \* the file ids it has yet to forget
    waitFor    \* the file it is forgetting, if any

saves  == <<spc, built, listed, raises>>
boxes  == <<gen, rot, slot>>
downs  == <<fpc, collapsed, apc, todo, waitFor>>
vars   == <<saves, held, boxes, table, watching, downs>>

Piece == 1 .. NumPieces
Box   == Files \X Piece
Full  == MaxRegions + 1
Guard == Files \X Piece \X (0 .. MaxGen + 1)
Pool  == Files \X Piece
\* A reserved entry that has not been written yet: address 0, length 0.
Empty == <<>>
\* What the table of (address, length) pairs can hold.
Region == Guard \cup Pool \cup {Empty}

TypeOK ==
    /\ spc \in [Files -> {"building", "listing", "adding",
                          "publishing", "saved", "raised"}]
    /\ built \in [Files -> 0 .. NumPieces]
    /\ \A f \in Files : /\ Len(listed[f]) <= 3 * NumPieces
                        /\ \A k \in DOMAIN listed[f] : listed[f][k] \in Region
    /\ raises \in 0 .. MaxRaises
    /\ held \subseteq Files
    /\ gen \in [Box -> 0 .. MaxGen]
    /\ rot \in [Box -> {"no", "shifted", "reserved"}]
    /\ slot \in [Box -> 0 .. Full]
    /\ Len(table) <= MaxRegions
    /\ \A k \in DOMAIN table : table[k] \in Region
    /\ watching \in BOOLEAN
    /\ fpc \in [Files -> {"no", "collapsing", "done"}]
    /\ collapsed \in [Files -> 0 .. NumPieces]
    /\ apc \in {"idle", "forgetting", "waiting", "stopping", "done"}
    /\ todo \subseteq Files
    /\ waitFor \subseteq Files

Init ==
    /\ spc = [f \in Files |-> "building"]
    /\ built = [f \in Files |-> 0]
    /\ listed = [f \in Files |-> <<>>]
    /\ raises = 0
    /\ held = {}
    /\ gen = [b \in Box |-> 0]
    /\ rot = [b \in Box |-> "no"]
    /\ slot = [b \in Box |-> 0]
    /\ table = <<>>
    /\ watching = TRUE
    /\ fpc = [f \in Files |-> "no"]
    /\ collapsed = [f \in Files |-> 0]
    /\ apc = "idle" /\ todo = {} /\ waitFor = {}

\* A box falls from its construction until it is collapsed.
Falling(f, i) == collapsed[f] < i /\ i <= built[f]

\* The generation of a box's next guard: while a rotation has moved next to
\* current and not made its successor yet, both names refer to one guard.
NextGen(f, i) == IF rot[<<f, i>>] = "shifted" THEN gen[<<f, i>>] ELSE gen[<<f, i>>] + 1

\* The watchdog's table has room for n more regions.
Fits(n) == Len(table) + n <= MaxRegions

-----------------------------------------------------------------------------
(* save(): _hold() and the boxes' constructors.                            *)

\* One more box; it falls from now on.
MakeBox(f) ==
    /\ spc[f] = "building"
    /\ built' = [built EXCEPT ![f] = @ + 1]
    /\ spc' = [spc EXCEPT ![f] = IF built[f] + 1 = NumPieces THEN "listing"
                                                             ELSE "building"]
    /\ UNCHANGED <<listed, raises, held, boxes, table, watching, downs>>

\* The constructor raises: save() ends and nobody has the boxes made so far.
MakeBoxRaises(f) ==
    /\ spc[f] = "building" /\ raises < MaxRaises
    /\ raises' = raises + 1
    /\ spc' = [spc EXCEPT ![f] = "raised"]
    /\ UNCHANGED <<built, listed, held, boxes, table, watching, downs>>

\* box.regions() of one box after the other: its current guard, then its next
\* guard and its pools, each as it is when the walk gets there.
ListRegions(f) ==
    LET i == Len(listed[f]) \div 3 + 1 IN
    /\ spc[f] = "listing"
    /\ IF Len(listed[f]) % 3 = 0
       THEN /\ listed' = [listed EXCEPT ![f] = Append(@, <<f, i, gen[<<f, i>>]>>)]
            /\ spc' = spc
       ELSE /\ listed' = [listed EXCEPT ![f] = @ \o <<<<f, i, NextGen(f, i)>>, <<f, i>>>>]
            /\ spc' = [spc EXCEPT ![f] = IF i = NumPieces THEN "adding" ELSE @]
    /\ UNCHANGED <<built, raises, held, boxes, table, watching, downs>>

\* The walk meets a page of a guard that a rotation has closed meanwhile: save() ends, its
\* boxes stay behind.
ListRegionsRaises(f) ==
    /\ spc[f] = "listing" /\ gen[<<f, Len(listed[f]) \div 3 + 1>>] > 0
    /\ listed' = [listed EXCEPT ![f] = <<>>]
    /\ spc' = [spc EXCEPT ![f] = "raised"]
    /\ UNCHANGED <<built, raises, held, boxes, table, watching, downs>>

AddRegions(f) ==
    /\ spc[f] = "adding" /\ Fits(Len(listed[f]))
    /\ table' = table \o listed[f]
    /\ listed' = [listed EXCEPT ![f] = <<>>]
    /\ spc' = [spc EXCEPT ![f] = "publishing"]
    /\ UNCHANGED <<built, raises, held, boxes, watching, downs>>

\* "ProcessWatchdog region table full": save() ends, its boxes stay behind.
AddRegionsRaises(f) ==
    /\ spc[f] = "adding" /\ ~Fits(Len(listed[f]))
    /\ listed' = [listed EXCEPT ![f] = <<>>]
    /\ spc' = [spc EXCEPT ![f] = "raised"]
    /\ UNCHANGED <<built, raises, held, boxes, table, watching, downs>>

Publish(f) ==
    /\ spc[f] = "publishing"
    /\ held' = held \cup {f}
    /\ spc' = [spc EXCEPT ![f] = "saved"]
    /\ UNCHANGED <<built, listed, raises, boxes, table, watching, downs>>

Save(f) ==
    \/ MakeBox(f) \/ MakeBoxRaises(f) \/ ListRegions(f) \/ ListRegionsRaises(f)
    \/ AddRegions(f) \/ AddRegionsRaises(f) \/ Publish(f)

-----------------------------------------------------------------------------
(* Rotations and their registrar.                                          *)

\* Mutant of SlotOwner: the pieces of a file share one registrar.
SharedSlot(f, i) == <<f, 1>>

\* Whose slot a box's registrar uses: every piece has its own.
SlotOwner(f, i) == <<f, i>>

\* next becomes current (its successor does not exist yet).
RotateShift(f, i) ==
    /\ Falling(f, i) /\ rot[<<f, i>>] = "no" /\ gen[<<f, i>>] < MaxGen
    /\ gen' = [gen EXCEPT ![<<f, i>>] = @ + 1]
    /\ rot' = [rot EXCEPT ![<<f, i>>] = "shifted"]
    /\ UNCHANGED <<saves, held, slot, table, watching, downs>>

\* The successor is made and announced; the first announcement reserves a slot
\* of the table, and a full table is remembered.
ReserveSlot(f, i) ==
    LET b == SlotOwner(f, i) IN
    /\ rot[<<f, i>>] = "shifted"
    /\ rot' = [rot EXCEPT ![<<f, i>>] = "reserved"]
    /\ \/ /\ slot[b] = 0 /\ Fits(1)
          /\ slot' = [slot EXCEPT ![b] = Len(table) + 1]
          /\ table' = Append(table, Empty)
       \/ /\ slot[b] = 0 /\ ~Fits(1)
          /\ slot' = [slot EXCEPT ![b] = Full]
          /\ table' = table
       \/ slot[b] # 0 /\ UNCHANGED <<slot, table>>
    /\ UNCHANGED <<saves, held, gen, watching, downs>>

\* The slot is overwritten with the new guard, if there is one; the rotation
\* closes the old guard and ends.
UpdateSlot(f, i) ==
    LET b == SlotOwner(f, i) IN
    /\ rot[<<f, i>>] = "reserved"
    /\ rot' = [rot EXCEPT ![<<f, i>>] = "no"]
    /\ table' = IF slot[b] = Full THEN table
                ELSE [table EXCEPT ![slot[b]] = <<f, i, NextGen(f, i)>>]
    /\ UNCHANGED <<saves, held, gen, slot, watching, downs>>

Rotate(f, i) == RotateShift(f, i) \/ ReserveSlot(f, i) \/ UpdateSlot(f, i)

-----------------------------------------------------------------------------
(* forget() and collapse_all().                                            *)

Forget(f) ==
    /\ f \in held
    /\ held' = held \ {f}
    /\ fpc' = [fpc EXCEPT ![f] = "collapsing"]
    /\ UNCHANGED <<saves, boxes, table, watching, collapsed, apc, todo, waitFor>>

\* Mutant of CollapseBox: the metadata box is left out.
CollapseBoxShort(f) ==
    /\ fpc[f] = "collapsing" /\ rot[<<f, collapsed[f] + 1>>] = "no"
    /\ collapsed' = [collapsed EXCEPT ![f] = @ + 1]
    /\ fpc' = [fpc EXCEPT ![f] = IF collapsed[f] + 2 >= NumPieces THEN "done" ELSE @]
    /\ UNCHANGED <<saves, held, boxes, table, watching, apc, todo, waitFor>>

\* box.collapse() of the next box: it takes the lock a rotation holds.
CollapseBox(f) ==
    /\ fpc[f] = "collapsing" /\ rot[<<f, collapsed[f] + 1>>] = "no"
    /\ collapsed' = [collapsed EXCEPT ![f] = @ + 1]
    /\ fpc' = [fpc EXCEPT ![f] = IF collapsed[f] + 1 = NumPieces THEN "done" ELSE @]
    /\ UNCHANGED <<saves, held, boxes, table, watching, apc, todo, waitFor>>

\* list(self._held.keys())
CollapseAllBegin ==
    /\ apc = "idle"
    /\ todo' = held
    /\ apc' = "forgetting"
    /\ UNCHANGED <<saves, held, boxes, table, watching, fpc, collapsed, waitFor>>

\* Its forget() of one file: a file another thread has popped is skipped.
CollapseAllForget(f) ==
    /\ apc = "forgetting" /\ f \in todo
    /\ todo' = todo \ {f}
    /\ held' = held \ {f}
    /\ IF f \in held
       THEN /\ fpc' = [fpc EXCEPT ![f] = "collapsing"]
            /\ apc' = "waiting" /\ waitFor' = {f}
       ELSE UNCHANGED <<fpc, apc, waitFor>>
    /\ UNCHANGED <<saves, boxes, table, watching, collapsed>>

\* That forget() has collapsed every box of the file.
CollapseAllNext ==
    /\ apc = "waiting" /\ \A f \in waitFor : fpc[f] = "done"
    /\ apc' = "forgetting" /\ waitFor' = {}
    /\ UNCHANGED <<saves, held, boxes, table, watching, fpc, collapsed, todo>>

\* Nothing left to forget: the watchdog is stopped.
StopWatchdog ==
    /\ apc = "forgetting" /\ todo = {}
    /\ watching' = FALSE
    /\ apc' = "done"
    /\ UNCHANGED <<saves, held, boxes, table, fpc, collapsed, todo, waitFor>>

Next ==
    \/ \E f \in Files : Save(f) \/ Forget(f) \/ CollapseBox(f) \/ CollapseAllForget(f)
    \/ \E f \in Files, i \in Piece : Rotate(f, i)
    \/ CollapseAllBegin \/ CollapseAllNext \/ StopWatchdog

Spec == Init /\ [][Next]_vars

-----------------------------------------------------------------------------
(* Properties.                                                             *)

Registered == {table[k] : k \in DOMAIN table}

\* The next key of every box of a held file is in the watchdog's table between
\* two rotations, whichever rotations fell between the walk of its regions,
\* their registration and now, unless the table was full at its first rotation.
NextKeyRegistered ==
    \A f \in held, i \in Piece :
        rot[<<f, i>>] = "no" /\ slot[<<f, i>>] # Full =>
            <<f, i, NextGen(f, i)>> \in Registered

\* A rotation overwrites its own box's slot and nothing else: after it the slot
\* holds the box's newest guard, and the pools save() registered stay listed,
\* whatever other boxes reserve and other saves append meanwhile.
SlotsDisjoint ==
    /\ \A f \in Files, i \in Piece :
         rot[<<f, i>>] = "no" /\ slot[<<f, i>>] \in 1 .. MaxRegions =>
             table[slot[<<f, i>>]] = <<f, i, NextGen(f, i)>>
    /\ \A f \in held, i \in Piece : <<f, i>> \in Registered

\* The table grows by a fixed amount per save() and box, however often keys
\* rotate, and never past its limit.
TableBounded ==
    /\ Len(table) <= MaxRegions
    /\ Len(table) <= Cardinality({f \in Files : spc[f] \in {"publishing", "saved"}})
                       * 3 * NumPieces
                     + Cardinality({b \in Box : gen[b] > 0})

\* forget(), alone or from collapse_all(), leaves no box behind: one that still
\* falls belongs to a file that is held, being saved or being forgotten, or to
\* a save() that raised.
ForgetLeavesNoBox ==
    \A f \in Files, i \in Piece :
        Falling(f, i) =>
            \/ f \in held
            \/ spc[f] \in {"building", "listing", "adding", "publishing", "raised"}
            \/ fpc[f] = "collapsing"

\* A held file has all its boxes: no collapse reaches a file that a caller can
\* still look up, two threads in forget() and collapse_all() included.
HeldIsWhole == \A f \in held, i \in Piece : Falling(f, i)

\* The watchdog's table follows the boxes through saves, rotations and a full table:
\* the next key of every held piece is in it, every box writes only its own slot, and it
\* does not grow with the rotations.
TableInOrder == TypeOK /\ NextKeyRegistered /\ SlotsDisjoint /\ TableBounded

\* Files and boxes stay together: a file that is held has all its boxes, and a file that
\* forget() or collapse_all() is done with has none.
BoxesOfFiles == HeldIsWhole /\ ForgetLeavesNoBox
=============================================================================
