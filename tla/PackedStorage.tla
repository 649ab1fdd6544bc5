---------------------------- MODULE PackedStorage ----------------------------
(***************************************************************************)
(* PackedVirtualStorage (vstorage/packed_system.py): all files share three *)
(* PackedFallingBoxes (vstorage/packed_box.py), each a pair of buffers and *)
(* an index of offsets and lengths.                                        *)
(*                                                                         *)
(* A buffer is a sequence of units <<file, what it is a unit of>>.  What   *)
(* add(), get(), remove() and a hop do with the lock is one step; the      *)
(* pause flag is set before it and cleared after it, without a finally.    *)
(* collapse() has no lock: its flag and each of its three assignments are  *)
(* steps of their own, with the steps of other calls between them, and a   *)
(* late hop when its join() has timed out.  A hop or a locked step that    *)
(* one of these assignments falls into is taken before or after it: of a   *)
(* box that is being dropped the properties claim nothing.                 *)
(* A file_id is named after the save() that made it.                       *)
(***************************************************************************)
EXTENDS Splitter, Sequences, FiniteSets, Functions

CONSTANTS
    Calls,      \* calls of the storage, each made once
    MaxRunning, \* at most this many are under way at a time
    MaxSaves,   \* at most this many of them are a save()
    MaxLate,    \* at most this many late hops are made
    MaxDropped, \* a call begins while at most this many boxes are being dropped
    FileKinds,  \* kinds of files that are saved
    Parses,     \* does the parser get text out of a PDF or Office file?
    RawSize,    \* units of a compressed file; of any other piece that is not empty, 1
    NoCall      \* None

ASSUME PackedAssumption ==
    /\ {MaxRunning, MaxSaves, MaxLate, MaxDropped} \subseteq Nat
    /\ FileKinds \subseteq Kinds /\ Parses \in BOOLEAN /\ RawSize \in Nat \ {0}
    /\ NoCall \notin Calls

VARIABLES
    active,     \* whichever of _box_a and _box_b of a box is active, by _active
    other,      \* the other one
    index,      \* _index: file -> [offset, length]
    paused,     \* _paused
    stopped,    \* boxes whose _stop is set
    late,       \* those whose thread has made a hop since
    dropped,    \* boxes of which collapse() has replaced something
    front,      \* of such a box, whether _active is "a" or "b"
    meta,       \* _meta: file -> reconstruct_from
    op, file,   \* what each call does, and to which file
    result,     \* the pieces a save() holds in hand
    todo,       \* the boxes a call has still to visit, in order
    pc,         \* where it is
    ans         \* what it returned

packed == <<active, other, index>>
death  == <<stopped, late, dropped, front>>
calls  == <<op, file, result>>
vars   == <<packed, paused, death, meta, calls, todo, pc, ans>>

All     == <<"content", "structure", "metadata">>
Nothing == [f \in {} |-> {}]

\* d[f] = v of a dictionary.
Put(d, f, v) == [g \in DOMAIN d \cup {f} |-> IF g = f THEN v ELSE d[g]]

Size(of)       == CASE of = "empty" -> 0 [] of = "raw" -> RawSize [] OTHER -> 1
Units(f, of)   == [i \in 1 .. Size(of) |-> <<f, of>>]
Zeros(n)       == [i \in 1 .. n |-> <<NoCall, "empty">>]
Prefix(b, n)   == [i \in 1 .. (IF n < Len(b) THEN n ELSE Len(b)) |-> b[i]]
Assign(b, c)   == c \o SubSeq(b, Len(c) + 1, Len(b))  \* the chunks of c over those of b

\* b[o:o + l], and del b[o:o + l]: a place below zero counts from the end, and what lies
\* beyond either end is left out.
Place(b, i)  == IF i < 0 THEN (IF Len(b) + i < 0 THEN 0 ELSE Len(b) + i)
                ELSE IF i < Len(b) THEN i ELSE Len(b)
Cut(b, o, l) == IF Place(b, o + l) <= Place(b, o) THEN b
                ELSE SubSeq(b, 1, Place(b, o)) \o SubSeq(b, Place(b, o + l) + 1, Len(b))
Slice(w, f)  == LET e == index[w][f]
                IN  SubSeq(active[w], Place(active[w], e.offset) + 1, Place(active[w], e.offset + e.length))

UnitSet == (Calls \cup {NoCall}) \X {"empty", "raw", "text", "tag", "meta"}

TypeOK ==
    /\ active \in [Pieces -> Seq(UnitSet)] /\ other \in [Pieces -> Seq(UnitSet)]
    /\ \A w \in Pieces \ dropped : Len(active[w]) = Len(other[w])
    /\ \A w \in Pieces : DOMAIN index[w] \subseteq Calls
    /\ paused \in [Pieces -> BOOLEAN]
    /\ stopped \subseteq Pieces /\ late \subseteq stopped /\ dropped \subseteq stopped
    /\ front \in [Pieces -> {"a", "b"}]
    /\ DOMAIN meta \subseteq Calls
    /\ op \in [Calls -> {"none", "save", "retrieve", "forget", "collapse_all"}]
    /\ file \in [Calls -> Calls \cup {NoCall}]
    /\ \A c \in Calls : todo[c] \in Seq(Pieces)
    /\ pc \in [Calls -> {"idle", "visit", "locked", "clear", "last", "done", "raised",
                        "first", "second", "third"}]

\* The three boxes, empty and falling.
NewBoxes ==
    /\ active = [w \in Pieces |-> <<>>] /\ other = [w \in Pieces |-> <<>>]
    /\ index = [w \in Pieces |-> Nothing]
    /\ paused = [w \in Pieces |-> FALSE]
    /\ stopped = {} /\ late = {} /\ dropped = {} /\ front = [w \in Pieces |-> "a"]

Init ==
    /\ NewBoxes /\ meta = Nothing
    /\ op = [c \in Calls |-> "none"] /\ file = [c \in Calls |-> NoCall]
    /\ result = [c \in Calls |-> Nothing]
    /\ todo = [c \in Calls |-> <<>>] /\ pc = [c \in Calls |-> "idle"]
    /\ ans = [c \in Calls |-> <<>>]

-----------------------------------------------------------------------------
(* PackedFallingBox.                                                       *)

\* As many bytes are copied as _box_a has, whichever buffer is active.
Length(w) == IF front[w] = "a" THEN Len(active[w]) ELSE Len(other[w])

Fall(w) ==
    /\ active' = [active EXCEPT ![w] = Assign(other[w], Prefix(active[w], Length(w)))]
    /\ other' = [other EXCEPT ![w] = active[w]]
    /\ UNCHANGED <<index, paused, stopped, dropped, meta, calls, todo, pc, ans>>

\* A hop of a box that is not empty.  The thread may have looked at the pause flag before
\* it was set, so a hop comes at any moment; the flag only keeps the next ones away.
Hop(w) ==
    /\ w \notin stopped /\ active[w] # <<>>
    /\ Fall(w) /\ UNCHANGED <<late, front>>

\* The thread of a stopped box that was past the head of its loop hops once more, also
\* when the buffers are being replaced because join() has timed out.
LateHop(w) ==
    /\ w \in stopped \ late /\ Length(w) # 0 /\ Cardinality(late) < MaxLate
    /\ Fall(w)
    /\ late' = late \cup {w}
    /\ front' = IF w \in dropped THEN [front EXCEPT ![w] = IF @ = "a" THEN "b" ELSE "a"] ELSE front

Goto(c, l)  == pc' = [pc EXCEPT ![c] = l]
Box(c)      == Head(todo[c])
Rest        == UNCHANGED <<death, meta, calls>>

\* _paused.set()
Pause(c) ==
    /\ pc[c] = "visit" /\ todo[c] # <<>> /\ op[c] \in {"save", "retrieve", "forget"}
    /\ op[c] = "save" => Compressible(result[c][Box(c)])
    /\ paused' = [paused EXCEPT ![Box(c)] = TRUE]
    /\ Goto(c, "locked")
    /\ UNCHANGED <<packed, todo, ans>> /\ Rest

Add(c) ==
    /\ pc[c] = "locked" /\ op[c] = "save"
    /\ LET w == Box(c)  data == Units(c, result[c][w].of)
       IN  /\ active' = [active EXCEPT ![w] = @ \o data]
           /\ other' = [other EXCEPT ![w] = @ \o Zeros(Len(data))]
           /\ index' = [index EXCEPT ![w] = Put(@, c, [offset |-> Len(active[w]), length |-> Len(data)])]
    /\ Goto(c, "clear")
    /\ UNCHANGED <<paused, todo, ans>> /\ Rest

Get(c) ==
    /\ pc[c] = "locked" /\ op[c] = "retrieve" /\ file[c] \in DOMAIN index[Box(c)]
    /\ ans' = [ans EXCEPT ![c] = Slice(Box(c), file[c])]
    /\ Goto(c, "clear")
    /\ UNCHANGED <<packed, paused, todo>> /\ Rest

\* Mutant of Shifted: the piece right behind the one that is cut out stays.
ShiftedLate(e, cut) ==
    IF e.offset > cut.offset + cut.length THEN [e EXCEPT !.offset = @ - cut.length] ELSE e

\* Everyone after the piece that is cut out moves up.
Shifted(e, cut) == IF e.offset > cut.offset THEN [e EXCEPT !.offset = @ - cut.length] ELSE e

\* Mutant of Remove: the other buffer is only made as short as the active one.
RemoveOneSided(c) ==
    /\ pc[c] = "locked" /\ op[c] = "forget" /\ file[c] \in DOMAIN index[Box(c)]
    /\ LET w == Box(c)  cut == index[w][file[c]] IN
       /\ active' = [active EXCEPT ![w] = Cut(@, cut.offset, cut.length)]
       /\ other' = [other EXCEPT ![w] = Cut(@, Len(@) - cut.length, cut.length)]
       /\ index' = [index EXCEPT ![w] = [f \in DOMAIN @ \ {file[c]} |-> Shifted(@[f], cut)]]
    /\ Goto(c, "clear")
    /\ UNCHANGED <<paused, todo, ans>> /\ Rest

Remove(c) ==
    /\ pc[c] = "locked" /\ op[c] = "forget" /\ file[c] \in DOMAIN index[Box(c)]
    /\ LET w == Box(c)  cut == index[w][file[c]] IN
       /\ active' = [active EXCEPT ![w] = Cut(@, cut.offset, cut.length)]
       /\ other' = [other EXCEPT ![w] = Cut(@, cut.offset, cut.length)]
       /\ index' = [index EXCEPT ![w] = [f \in DOMAIN @ \ {file[c]} |-> Shifted(@[f], cut)]]
    /\ Goto(c, "clear")
    /\ UNCHANGED <<paused, todo, ans>> /\ Rest

\* _index[name] raises KeyError with the pause flag set.
IndexRaises(c) ==
    /\ pc[c] = "locked" /\ op[c] # "save" /\ file[c] \notin DOMAIN index[Box(c)]
    /\ Goto(c, "raised")
    /\ UNCHANGED <<packed, paused, todo, ans>> /\ Rest

\* _paused.clear()
Clear(c) ==
    /\ pc[c] = "clear"
    /\ paused' = [paused EXCEPT ![Box(c)] = FALSE]
    /\ todo' = [todo EXCEPT ![c] = Tail(@)]
    /\ Goto(c, IF Len(todo[c]) = 1 THEN "last" ELSE "visit")
    /\ UNCHANGED <<packed, ans>> /\ Rest

\* collapse() of a box: _stop.set(), and a join() that returns because the thread has
\* ended or because it has not.
StopBox(c) ==
    /\ pc[c] = "visit" /\ op[c] = "collapse_all"
    /\ stopped' = stopped \cup {Box(c)}
    /\ Goto(c, "first")
    /\ UNCHANGED <<packed, paused, late, dropped, front, meta, calls, todo, ans>>

\* _box_a = bytearray(): after any number of hops it may be the active one or not.
DropA(c) ==
    /\ pc[c] = "first"
    /\ \E n \in IF Box(c) \in dropped THEN {front[Box(c)]} ELSE {"a", "b"} :
          /\ front' = [front EXCEPT ![Box(c)] = n]
          /\ active' = IF n = "a" THEN [active EXCEPT ![Box(c)] = <<>>] ELSE active
          /\ other' = IF n = "a" THEN other ELSE [other EXCEPT ![Box(c)] = <<>>]
    /\ dropped' = dropped \cup {Box(c)}
    /\ Goto(c, "second")
    /\ UNCHANGED <<index, paused, stopped, late, meta, calls, todo, ans>>

\* _box_b = bytearray()
DropB(c) ==
    /\ pc[c] = "second"
    /\ active' = IF front[Box(c)] = "b" THEN [active EXCEPT ![Box(c)] = <<>>] ELSE active
    /\ other' = IF front[Box(c)] = "b" THEN other ELSE [other EXCEPT ![Box(c)] = <<>>]
    /\ Goto(c, "third")
    /\ UNCHANGED <<index, paused, todo, ans>> /\ Rest

\* _index = {}
DropIndex(c) ==
    /\ pc[c] = "third"
    /\ index' = [index EXCEPT ![Box(c)] = Nothing]
    /\ todo' = [todo EXCEPT ![c] = Tail(@)]
    /\ Goto(c, IF Len(todo[c]) = 1 THEN "last" ELSE "visit")
    /\ UNCHANGED <<active, other, paused, ans>> /\ Rest

-----------------------------------------------------------------------------
(* PackedVirtualStorage.                                                   *)

Begin(c, o, f, r, boxes) ==
    /\ pc[c] = "idle" /\ Cardinality(dropped) <= MaxDropped
    /\ Cardinality({d \in Calls : pc[d] \notin {"idle", "done", "raised"}}) < MaxRunning
    /\ op' = [op EXCEPT ![c] = o] /\ file' = [file EXCEPT ![c] = f]
    /\ result' = [result EXCEPT ![c] = r] /\ todo' = [todo EXCEPT ![c] = boxes]
    /\ Goto(c, IF boxes = <<>> THEN "last" ELSE "visit")
    /\ UNCHANGED <<packed, paused, death, meta, ans>>

\* save(path) and save_bytes(raw, name): split, then _hold() adds piece after piece.
Save(c) ==
    /\ Cardinality({d \in Calls : op[d] = "save"}) < MaxSaves
    /\ \E kind \in FileKinds :
        \E r \in {split_file(kind, Parses), split_bytes(Bytes("raw"), kind, Parses)} :
            Begin(c, "save", c, r, All)

\* _compress() of a FromFile marker raises; what was added before stays.
CompressRaises(c) ==
    /\ pc[c] = "visit" /\ op[c] = "save" /\ ~Compressible(result[c][Box(c)])
    /\ Goto(c, "raised")
    /\ UNCHANGED <<packed, paused, todo, ans>> /\ Rest

\* retrieve(file_id, which): a KeyError of _meta, or the box of the piece.
Retrieve(c, f) ==
    /\ f \in DOMAIN meta
    /\ \E which \in {"full", "metadata"} :
           Begin(c, "retrieve", f, [which |-> which],
                 <<IF which = "full" THEN meta[f] ELSE which>>)

\* forget(file_id): nothing to do for a file that is not held.
Forget(c, f) == Begin(c, "forget", f, [found |-> f \in DOMAIN meta], IF f \in DOMAIN meta THEN All ELSE <<>>)

CollapseAll(c) == Begin(c, "collapse_all", NoCall, Nothing, All)

\* del _meta[file_id]: collapse_all() may have put an empty one in its place.
MetaIsGone(c) == op[c] = "forget" /\ result[c].found /\ file[c] \notin DOMAIN meta

\* The last line of each: publish the file, drop it, or drop them all.
Last(c) ==
    /\ pc[c] = "last" /\ ~MetaIsGone(c)
    /\ meta' = CASE op[c] = "save"   -> Put(meta, c, result[c].reconstruct_from)
                 [] op[c] = "forget" -> Restrict(meta, DOMAIN meta \ {file[c]})
                 [] op[c] = "collapse_all" -> Nothing
                 [] OTHER -> meta
    /\ Goto(c, "done")
    /\ UNCHANGED <<packed, paused, death, calls, todo, ans>>

\* KeyError.
MetaRaises(c) ==
    /\ pc[c] = "last" /\ MetaIsGone(c)
    /\ Goto(c, "raised")
    /\ UNCHANGED <<packed, paused, todo, ans>> /\ Rest

-----------------------------------------------------------------------------
Next ==
    \/ \E w \in Pieces : Hop(w) \/ LateHop(w)
    \/ \E c \in Calls :
        \/ Pause(c) \/ Add(c) \/ Get(c) \/ Remove(c) \/ IndexRaises(c) \/ Clear(c)
        \/ StopBox(c) \/ DropA(c) \/ DropB(c) \/ DropIndex(c)
        \/ Save(c) \/ CompressRaises(c) \/ CollapseAll(c) \/ Last(c) \/ MetaRaises(c)
        \/ \E f \in Calls : pc[f] = "done" /\ op[f] = "save" /\ (Retrieve(c, f) \/ Forget(c, f))

Spec == Init /\ [][Next]_vars

-----------------------------------------------------------------------------
Runs(o)     == {c \in Calls : op[c] = o /\ pc[c] \notin {"idle", "done", "raised"}}
Returned(o) == {c \in Calls : op[c] = o /\ pc[c] = "done"}
Standing    == Pieces \ dropped  \* the boxes that no collapse() has begun to drop

\* The index finds every file's own bytes, all of them, in the active buffer, however adds
\* and removals, of empty pieces too, have moved them.
SlicesInPlace ==
    \A w \in Standing : \A f \in DOMAIN index[w] : Slice(w, f) = Units(f, result[f][w].of)

\* Of a file that forget() removed, no byte is left in either buffer of any box: the copy
\* that is not active has it at the same place.
NothingRemains ==
    \A c \in Returned("forget"), w \in Standing :
        result[c].found => file[c] \notin {u[1] : u \in Range(active[w]) \cup Range(other[w])}

\* A published file has all its pieces, unless a forget() of it is under way, and
\* retrieve("full") of it gives the original bytes, as long as no box is being dropped.
HeldIsComplete ==
    /\ \A f \in DOMAIN meta :
        \/ \E c \in Runs("forget") : file[c] = f
        \/ \A w \in Standing : f \in DOMAIN index[w]
    /\ dropped = {} => \A c \in Returned("retrieve") : result[c].which = "full" => ans[c] = Units(file[c], "raw")

\* c began while its file was held, and then a forget() of the file or a collapse_all()
\* took it away.
LostRace(c) == dropped # {} \/ \E d \in Calls \ {c} : op[d] = "forget" /\ file[d] = file[c]

\* A box is paused only while a call is at it, or because a get() or remove() raised in it
\* (no finally clears the flag then, and the box rests): that takes a call that lost a
\* race with another, and never happens to calls made one after the other.
PausedByCaller ==
    \A w \in Pieces : paused[w] =>
        \E c \in Calls :
            /\ todo[c] # <<>> /\ Box(c) = w
            /\ pc[c] \in {"locked", "clear"} \/ (pc[c] = "raised" /\ op[c] # "save" /\ LostRace(c))

\* Whatever interleaves, a box that no collapse() is dropping is in order: both buffers of
\* a length, every index entry at its own bytes; and a box that is paused has a call at
\* it, or had one that lost a race and raised.
BoxInOrder == TypeOK /\ SlicesInPlace /\ PausedByCaller
=============================================================================
