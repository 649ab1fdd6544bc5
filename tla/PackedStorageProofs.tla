------------------------- MODULE PackedStorageProofs -------------------------
(***************************************************************************)
(* Proofs about PackedStorage, for every set of calls, any number of them  *)
(* under way, and any size of a compressed file.                           *)
(***************************************************************************)
EXTENDS PackedStorage, FiniteSetTheorems, SequenceTheorems, TLAPS

\* What an index holds, and what is left of it in a box that is being dropped: an offset
\* can then become negative.
Entries == [offset : Nat, length : Nat]
Remnants == [offset : Int, length : Nat]
End(e)  == e.offset + e.length

\* What split_file() and split_bytes() give for any file.
Splits == {split_file(kind, Parses) : kind \in Kinds} \cup
          {split_bytes(Bytes("raw"), kind, Parses) : kind \in Kinds}

\* The dictionaries, lists and results that TypeOK says less about.
ShapeInv ==
    /\ DOMAIN index = Pieces /\ \A w \in Pieces : index[w] \in [DOMAIN index[w] -> Remnants]
    /\ meta \in [DOMAIN meta -> Pieces]
    /\ DOMAIN result = Calls /\ DOMAIN ans = Calls /\ DOMAIN todo = Calls

\* The boxes that are left to a save(), forget() or collapse_all().
Fours == {All, Tail(All), Tail(Tail(All)), <<>>}

\* A box that a call at l, with the boxes t before it, has behind it: a call has taken its
\* step at the first box once it is at "clear".
Behind(t, l, w) == \A i \in 1 .. Len(t) : t[i] = w => i = 1 /\ l = "clear"

\* Where a call can be: save, forget and collapse_all go through the boxes in order, and
\* collapse_all takes no lock and leaves dropped boxes behind.
Visits(c) ==
    /\ op[c] = "none" <=> pc[c] = "idle"
    /\ op[c] \in {"save", "forget", "collapse_all"} =>
           todo[c] \in Fours
    /\ op[c] = "retrieve" => todo[c] = <<>> \/ \E w \in Pieces : todo[c] = <<w>>
    /\ pc[c] \in {"visit", "locked", "clear", "first", "second", "third"} => todo[c] # <<>>
    /\ pc[c] \in {"last", "done"} => todo[c] = <<>>
    /\ op[c] = "collapse_all" => pc[c] \notin {"locked", "clear", "raised"}

Collapses(c) ==
    /\ op[c] = "collapse_all" => \A w \in Pieces : Behind(todo[c], "visit", w) => w \in dropped
    /\ pc[c] \in {"first", "second", "third"} => op[c] = "collapse_all" /\ Box(c) \in stopped
    /\ pc[c] \in {"second", "third"} => Box(c) \in dropped

\* Whose pieces they are: a save() names its file, retrieve() and forget() are about the
\* file of a save() that has returned.
Names(c) ==
    /\ op[c] = "save" => file[c] = c /\ result[c] \in Splits
    /\ op[c] \in {"retrieve", "forget"} =>
           file[c] \in Calls /\ op[file[c]] = "save" /\ pc[file[c]] = "done"
    /\ op[c] = "forget" /\ todo[c] # <<>> => result[c].found

CallInv == \A c \in Calls : Visits(c) /\ Names(c)

\* The boxes are dropped in order.
DropInv ==
    /\ \A c \in Calls : Collapses(c)
    /\ \A t \in Fours : t # <<>> /\ Head(t) \in dropped =>
           \A w \in Pieces : Behind(t, "visit", w) => w \in dropped

\* The index x of a box w tiles its active buffer a, file by file, with the pieces r.
Tiled(a, x, r, w) ==
    /\ \A f \in DOMAIN x :
         /\ x[f].length = Size(r[f][w].of) /\ End(x[f]) <= Len(a)
         /\ \A i \in x[f].offset + 1 .. End(x[f]) : a[i] = <<f, r[f][w].of>>
    /\ \A i \in 1 .. Len(a) : \E f \in DOMAIN x : i \in x[f].offset + 1 .. End(x[f])
    /\ \A f, g \in DOMAIN x : f # g => End(x[f]) <= x[g].offset \/ End(x[g]) <= x[f].offset

\* The other buffer has zeros or the same units at the same places.
Mirrored(a, b) == \A i \in 1 .. Len(b) : b[i] = a[i] \/ b[i] = <<NoCall, "empty">>

TilesInv ==
    \A w \in Standing :
        /\ index[w] \in [DOMAIN index[w] -> Entries]
        /\ Tiled(active[w], index[w], result, w) /\ Mirrored(active[w], other[w])

\* A call is through with a box.
Through(c, w) == pc[c] # "idle" /\ Behind(todo[c], pc[c], w)

\* A save() adds its piece once.
FreshInv == \A w \in Pieces : \A f \in DOMAIN index[w] : op[f] = "save" /\ Through(f, w)

\* forget() of a file that it found has taken it out of the boxes behind it.
GoneInv ==
    \A c \in Calls : op[c] = "forget" /\ result[c].found =>
        \A w \in Pieces : Through(c, w) => file[c] \notin DOMAIN index[w]

\* A forget() that has the file out of the first box.
Forgetting(c) == op[c] = "forget" /\ result[c].found /\ Through(c, "content")

\* In a box that stands a file is whole while it is added and once it is published, or one
\* forget() has it out of the boxes it is through with.  That forget() raises only in a box
\* that is being dropped, or after the file was taken from _meta.
HeldInv ==
    /\ \A c \in Calls, w \in Standing :
         op[c] = "save" /\ pc[c] # "done" /\ Through(c, w) => c \in DOMAIN index[w]
    /\ \A c, d \in Calls : Forgetting(c) /\ Forgetting(d) /\ file[c] = file[d] => c = d
    /\ \A f \in Calls, w \in Standing : op[f] = "save" /\ pc[f] = "done" =>
         f \in DOMAIN index[w] \/ \E c \in Calls : Forgetting(c) /\ file[c] = f /\ Through(c, w)
    /\ \A c \in Calls : Forgetting(c) =>
         /\ pc[c] = "raised" /\ todo[c] # <<>> => Box(c) \in dropped
         /\ pc[c] \in {"done", "raised"} /\ todo[c] = <<>> => file[c] \notin DOMAIN meta

\* A published file is one that was saved; the piece it is put together from is its original.
MetaInv ==
    \A f \in DOMAIN meta : op[f] = "save" /\ pc[f] = "done" /\ meta[f] = result[f].reconstruct_from

\* retrieve("full") visits the box of the piece that is the original, and finds it there if
\* no box is being dropped.
FullInv ==
    \A c \in Calls : op[c] = "retrieve" /\ result[c].which = "full" =>
        /\ pc[c] \in {"visit", "locked"} => result[file[c]][Box(c)].of = "raw"
        /\ pc[c] \in {"clear", "last", "done"} /\ dropped = {} => ans[c] = Units(file[c], "raw")

IInv ==
    /\ TypeOK /\ ShapeInv /\ CallInv /\ DropInv /\ TilesInv /\ FreshInv /\ GoneInv /\ HeldInv
    /\ MetaInv /\ FullInv /\ PausedByCaller

-----------------------------------------------------------------------------
(* The operators.                                                          *)

\* A dictionary with one more entry.
LEMMA Putting ==
    ASSUME NEW d, NEW f, NEW v
    PROVE  /\ DOMAIN Put(d, f, v) = DOMAIN d \cup {f} /\ Put(d, f, v)[f] = v
           /\ \A g \in DOMAIN d : g # f => Put(d, f, v)[g] = d[g]
BY DEF Put

\* The lists of boxes that are left to a call.
LEMMA Order ==
    /\ Fours \subseteq Seq(Pieces)
    /\ Tail(Tail(Tail(All))) = <<>>
    /\ All # <<>> /\ Tail(All) # <<>> /\ Tail(Tail(All)) # <<>>
    /\ Len(All) = 3 /\ Len(Tail(All)) = 2 /\ Len(Tail(Tail(All))) = 1
    /\ Head(All) = "content" /\ Head(Tail(All)) = "structure" /\ Head(Tail(Tail(All))) = "metadata"
    /\ All[1] = "content" /\ All[2] = "structure" /\ All[3] = "metadata"
    /\ Tail(All)[1] = "structure" /\ Tail(All)[2] = "metadata" /\ Tail(Tail(All))[1] = "metadata"
<1>1. All = <<"content", "structure", "metadata">> /\ Tail(All) = <<"structure", "metadata">>
      /\ Tail(Tail(All)) = <<"metadata">> /\ Tail(Tail(Tail(All))) = <<>>
  BY DEF All
<1>2. QED
  BY <1>1 DEF Pieces, Fours

LEMMA One ==
    ASSUME NEW w \in Pieces
    PROVE  /\ <<w>> \in Seq(Pieces) /\ <<w>> # <<>> /\ Len(<<w>>) = 1 /\ Head(<<w>>) = w
           /\ <<w>>[1] = w /\ Tail(<<w>>) = <<>>
OBVIOUS

\* A piece has a size, and is put together of its units.
LEMMA Sizes ==
    ASSUME NEW r \in Splits, NEW w \in Pieces
    PROVE  /\ r[w].of \in {"empty", "raw", "text", "tag", "meta"} /\ Size(r[w].of) \in Nat
           /\ r.reconstruct_from \in Pieces /\ r[r.reconstruct_from].of = "raw"
<1>1. /\ r.content.of \in {"empty", "raw", "text", "tag", "meta"}
      /\ r.structure.of \in {"empty", "raw", "text", "tag", "meta"}
      /\ r.metadata.of = "meta"
      /\ r.reconstruct_from \in {"content", "structure"}
      /\ r[r.reconstruct_from].of = "raw"
  <2>1. CASE \E kind \in Kinds : r = split_file(kind, Parses)
    BY <2>1 DEF split_file, SplitResult, ExtractedFromPath, Extracted, Tag, FromFile, Empty, Bytes,
       Metadata, Extracts
  <2>2. CASE \E kind \in Kinds : r = split_bytes(Bytes("raw"), kind, Parses)
    BY <2>2 DEF split_bytes, SplitResult, Extracted, Tag, FromFile, Empty, Bytes, Metadata, Extracts
  <2>3. QED
    BY <2>1, <2>2 DEF Splits
<1>2. QED
  BY <1>1, PackedAssumption DEF Pieces, Size

LEMMA UnitsOf ==
    ASSUME NEW f \in Calls, NEW of \in {"empty", "raw", "text", "tag", "meta"}
    PROVE  /\ Size(of) \in Nat /\ Units(f, of) \in Seq(UnitSet) /\ Len(Units(f, of)) = Size(of)
           /\ \A i \in 1 .. Size(of) : Units(f, of)[i] = <<f, of>>
<1>1. Size(of) \in Nat
  BY PackedAssumption DEF Size
<1>2. <<f, of>> \in UnitSet
  BY DEF UnitSet
<1>3. QED
  BY <1>1, <1>2 DEF Units

LEMMA ZerosOf ==
    ASSUME NEW n \in Nat
    PROVE  /\ Zeros(n) \in Seq(UnitSet) /\ Len(Zeros(n)) = n
           /\ \A i \in 1 .. n : Zeros(n)[i] = <<NoCall, "empty">>
<1>1. <<NoCall, "empty">> \in UnitSet
  BY DEF UnitSet
<1>2. QED
  BY <1>1 DEF Zeros

\* What a hop copies.
LEMMA Prefixes ==
    ASSUME NEW S, NEW a \in Seq(S), NEW n \in Nat
    PROVE  Prefix(a, n) \in Seq(S) /\ (n = Len(a) => Prefix(a, n) = a)
<1>1. Len(a) \in Nat /\ a = [i \in 1 .. Len(a) |-> a[i]] /\ \A i \in 1 .. Len(a) : a[i] \in S
  OBVIOUS
<1>2. PICK m \in Nat : m = IF n < Len(a) THEN n ELSE Len(a)
  BY <1>1
<1>3. Prefix(a, n) = [i \in 1 .. m |-> a[i]] /\ m <= Len(a) /\ (n = Len(a) => m = n)
  BY <1>1, <1>2 DEF Prefix
<1>4. [i \in 1 .. m |-> a[i]] \in Seq(S)
  BY <1>1, <1>3
<1>5. QED
  BY <1>1, <1>3, <1>4

\* A hop leaves in the buffer that becomes active what was in the other one.
LEMMA Copied ==
    ASSUME NEW S, NEW a \in Seq(S), NEW b \in Seq(S)
    PROVE  Assign(b, a) \in Seq(S) /\ (Len(a) = Len(b) => Assign(b, a) = a)
<1>1. Len(a) \in Nat /\ Len(b) \in Nat
  OBVIOUS
<1>2. SubSeq(b, Len(a) + 1, Len(b)) \in Seq(S)
  <2>1. \A i \in Len(a) + 1 .. Len(b) : i \in 1 .. Len(b)
    BY <1>1
  <2>2. QED
    BY <1>1, <2>1, SubSeqProperties
<1>3. Assign(b, a) \in Seq(S)
  BY <1>2, ConcatProperties DEF Assign
<1>4. ASSUME Len(a) = Len(b) PROVE Assign(b, a) = a
  <2>1. SubSeq(b, Len(a) + 1, Len(b)) = <<>>
    BY <1>1, <1>4, SubSeqEmpty
  <2>2. QED
    BY <2>1, ConcatEmptySeq DEF Assign
<1>5. QED
  BY <1>3, <1>4

\* A place lies within the buffer, and is the index itself when that does.
LEMMA PlaceIn ==
    ASSUME NEW S, NEW b \in Seq(S), NEW i \in Int
    PROVE  Place(b, i) \in 0 .. Len(b) /\ (i \in 0 .. Len(b) => Place(b, i) = i)
BY DEF Place

\* Whatever is cut out, a buffer of units is left.
LEMMA CutAnywhere ==
    ASSUME NEW S, NEW b \in Seq(S), NEW o \in Int, NEW l \in Nat
    PROVE  Cut(b, o, l) \in Seq(S)
<1>1. PICK i \in 0 .. Len(b), j \in 0 .. Len(b) : i = Place(b, o) /\ j = Place(b, o + l)
  BY PlaceIn, o + l \in Int
<1>2. CASE j <= i
  BY <1>1, <1>2 DEF Cut
<1>3. CASE ~(j <= i)
  <2>1. SubSeq(b, 1, i) \in Seq(S) /\ SubSeq(b, j + 1, Len(b)) \in Seq(S)
    BY <1>1, SubSeqProperties
  <2>2. SubSeq(b, 1, i) \o SubSeq(b, j + 1, Len(b)) \in Seq(S)
    BY <2>1, ConcatProperties
  <2>3. QED
    BY <1>1, <1>3, <2>2 DEF Cut
<1>4. QED
  BY <1>2, <1>3

\* What is left when a stretch is cut out.
LEMMA Cutting ==
    ASSUME NEW S, NEW b \in Seq(S), NEW o \in Nat, NEW l \in Nat, o + l <= Len(b)
    PROVE  /\ Cut(b, o, l) \in Seq(S) /\ Len(Cut(b, o, l)) = Len(b) - l
           /\ \A i \in 1 .. Len(b) - l : Cut(b, o, l)[i] = IF i <= o THEN b[i] ELSE b[i + l]
<1> DEFINE p == SubSeq(b, 1, o)
           q == SubSeq(b, o + l + 1, Len(b))
<1>0. Len(b) \in Nat /\ Place(b, o) = o /\ Place(b, o + l) = o + l
  BY PlaceIn
<1>z. CASE l = 0
  <2>1. Cut(b, o, l) = b
    BY <1>0, <1>z DEF Cut
  <2>2. QED
    BY <1>0, <1>z, <2>1
<1>1. p \in Seq(S) /\ Len(p) = o /\ \A i \in 1 .. o : p[i] = b[i]
  BY <1>0, SubSeqProperties
<1>2. q \in Seq(S) /\ Len(q) = Len(b) - l - o /\ \A i \in 1 .. Len(b) - l - o : q[i] = b[o + l + i]
  BY <1>0, SubSeqProperties
<1>c. ASSUME l # 0 PROVE Cut(b, o, l) = p \o q
  <2>1. ~(Place(b, o + l) <= Place(b, o))
    BY <1>0, <1>c
  <2>2. Cut(b, o, l) = SubSeq(b, 1, Place(b, o)) \o SubSeq(b, Place(b, o + l) + 1, Len(b))
    BY <2>1, Zenon DEF Cut
  <2>3. QED
    BY <1>0, <2>2, Zenon DEF p, q
<1> HIDE DEF p, q
<1>3. p \o q \in Seq(S) /\ Len(p \o q) = Len(b) - l
  <2>1. p \o q \in Seq(S) /\ Len(p \o q) = Len(p) + Len(q)
    BY <1>1, <1>2, ConcatProperties
  <2>2. QED
    BY <1>0, <1>1, <1>2, <2>1
<1>4. ASSUME NEW i \in 1 .. Len(b) - l PROVE (p \o q)[i] = IF i <= o THEN b[i] ELSE b[i + l]
  <2>0. i \in 1 .. Len(p) + Len(q) /\ i \in Nat
    BY <1>0, <1>1, <1>2, <1>4
  <2>1. (p \o q)[i] = IF i <= Len(p) THEN p[i] ELSE q[i - Len(p)]
    BY <1>1, <1>2, <2>0, ConcatProperties
  <2>2. CASE i <= o
    BY <1>1, <2>1, <2>2
  <2>3. CASE i > o
    <3>1. i - o \in 1 .. Len(b) - l - o /\ o + l + (i - o) = i + l
      BY <1>0, <2>3
    <3>2. (p \o q)[i] = q[i - o]
      BY <1>1, <2>1, <2>3
    <3>3. QED
      BY <1>2, <2>3, <3>1, <3>2
  <2>4. QED
    BY <2>0, <2>2, <2>3
<1>5. QED
  BY <1>z, <1>c, <1>3, <1>4

\* What a call has behind it, by the boxes that are left to it.
Lists == Fours \cup {<<w>> : w \in Pieces}

LEMMA BehindOne ==
    ASSUME NEW v, NEW w, NEW l
    PROVE  Behind(<<v>>, l, w) <=> (w = v => l = "clear")
BY DEF Behind

LEMMA BehindFours ==
    ASSUME NEW w \in Pieces, NEW l
    PROVE  /\ Behind(All, l, w) <=> w = "content" /\ l = "clear"
           /\ Behind(Tail(All), l, w) <=> w = "content" \/ (w = "structure" /\ l = "clear")
           /\ Behind(Tail(Tail(All)), l, w) <=> w # "metadata" \/ l = "clear"
           /\ Behind(<<>>, l, w)
<1>0. 1 .. 3 = {1, 2, 3} /\ 1 .. 2 = {1, 2} /\ 1 .. 1 = {1}
  OBVIOUS
<1>1. Behind(All, l, w) <=> w = "content" /\ l = "clear"
  BY <1>0, Zenon, Order DEF Behind, Pieces
<1>2. Behind(Tail(All), l, w) <=> w = "content" \/ (w = "structure" /\ l = "clear")
  BY <1>0, Zenon, Order DEF Behind, Pieces
<1>3. Behind(Tail(Tail(All)), l, w) <=> w # "metadata" \/ l = "clear"
  BY <1>0, Zenon, Order DEF Behind, Pieces
<1>4. Behind(<<>>, l, w)
  BY DEF Behind
<1>5. QED
  BY <1>1, <1>2, <1>3, <1>4

\* The step from the first box to the next one.
LEMMA Behinds ==
    ASSUME NEW t \in Lists, t # <<>>, NEW w \in Pieces, NEW l, l # "clear"
    PROVE  /\ Head(t) \in Pieces /\ Tail(t) \in Lists /\ (t \in Fours => Tail(t) \in Fours)
           /\ Len(t) = 1 <=> Tail(t) = <<>>
           /\ ~Behind(t, l, Head(t))
           /\ Behind(t, "clear", w) <=> Behind(t, l, w) \/ w = Head(t)
           /\ Behind(Tail(t), l, w) <=> Behind(t, "clear", w)
<1>1. CASE t \in Fours
  <2>1. t = All \/ t = Tail(All) \/ t = Tail(Tail(All))
    BY <1>1 DEF Fours
  <2>2. Head(t) \in Pieces /\ Tail(t) \in Fours /\ (Len(t) = 1 <=> Tail(t) = <<>>)
    BY <2>1, Order DEF Pieces, Fours
  <2>3. ~Behind(t, l, Head(t))
    <3>1. /\ "content" \in Pieces /\ "structure" \in Pieces /\ "metadata" \in Pieces
          /\ "content" # "structure" /\ "content" # "metadata" /\ "structure" # "metadata"
      BY DEF Pieces
    <3>2. ~Behind(All, l, "content") /\ ~Behind(Tail(All), l, "structure")
          /\ ~Behind(Tail(Tail(All)), l, "metadata")
      BY <3>1, BehindFours
    <3>3. QED
      BY <2>1, <3>2, Order
  <2>4. Behind(t, "clear", w) <=> Behind(t, l, w) \/ w = Head(t)
    BY <2>1, Order, BehindFours DEF Pieces
  <2>5. Behind(Tail(t), l, w) <=> Behind(t, "clear", w)
    BY <2>1, Order, BehindFours DEF Pieces
  <2>6. QED
    BY <2>2, <2>3, <2>4, <2>5 DEF Lists
<1>2. CASE \E v \in Pieces : t = <<v>>
  <2>1. PICK v \in Pieces : t = <<v>>
    BY <1>2
  <2>2. Head(t) = v /\ Tail(t) = <<>> /\ Len(t) = 1 /\ <<>> \in Fours
    BY <2>1, One DEF Fours
  <2>3. /\ Behind(t, "clear", w) /\ ~Behind(t, l, Head(t))
        /\ (Behind(t, l, w) <=> w # v) /\ Behind(<<>>, l, w)
    BY <2>1, <2>2, BehindOne, BehindFours
  <2>4. Behind(t, l, w) \/ w = Head(t)
    BY <2>2, <2>3
  <2>5. QED
    BY <2>1, <2>2, <2>3, <2>4 DEF Lists
<1>3. QED
  BY <1>1, <1>2 DEF Lists

\* The content box comes first.
LEMMA ContentFirst ==
    ASSUME NEW t \in Fours, NEW w \in Pieces, NEW l
    PROVE  /\ Behind(t, l, w) => Behind(t, l, "content")
           /\ t # <<>> /\ Head(t) # "content" => Behind(t, l, "content")
           /\ "content" \in Pieces
<1>1. "content" \in Pieces
  BY DEF Pieces
<1>2. t = All \/ t = Tail(All) \/ t = Tail(Tail(All)) \/ t = <<>>
  BY DEF Fours
<1>3. Behind(t, l, w) => Behind(t, l, "content")
  BY <1>1, <1>2, BehindFours
<1>4. t # <<>> /\ Head(t) # "content" => Behind(t, l, "content")
  <2>1. Behind(Tail(All), l, "content") /\ Behind(Tail(Tail(All)), l, "content")
    BY <1>1, BehindFours
  <2>2. Head(All) = "content"
    BY Order
  <2>3. QED
    BY <1>2, <2>1, <2>2
<1>5. QED
  BY <1>1, <1>3, <1>4

-----------------------------------------------------------------------------
(* What the actions do.                                                    *)

Ops    == {"none", "save", "retrieve", "forget", "collapse_all"}
Places == {"idle", "visit", "locked", "clear", "last", "done", "raised", "first", "second", "third"}

\* The functions of the calls, and where each call is.
LEMMA Calling ==
    ASSUME TypeOK, ShapeInv, CallInv
    PROVE  /\ op \in [Calls -> Ops] /\ pc \in [Calls -> Places] /\ file \in [Calls -> Calls \cup {NoCall}]
           /\ DOMAIN todo = Calls /\ DOMAIN result = Calls /\ DOMAIN ans = Calls
           /\ \A c \in Calls : op[c] # "none" => todo[c] \in Lists
           /\ \A c \in Calls : op[c] = "none" <=> pc[c] = "idle"
<1>1. op \in [Calls -> Ops] /\ pc \in [Calls -> Places] /\ file \in [Calls -> Calls \cup {NoCall}]
  BY DEF TypeOK, Ops, Places
<1>2. DOMAIN todo = Calls /\ DOMAIN result = Calls /\ DOMAIN ans = Calls
  BY DEF ShapeInv
<1>3. ASSUME NEW c \in Calls
      PROVE  (op[c] # "none" => todo[c] \in Lists) /\ (op[c] = "none" <=> pc[c] = "idle")
  <2>1. Visits(c)
    BY DEF CallInv
  <2>2. op[c] \in Ops /\ <<>> \in Lists
    BY <1>1 DEF Lists, Fours
  <2>3. QED
    BY <2>1, <2>2 DEF Visits, Ops, Lists
<1>4. QED
  BY <1>1, <1>2, <1>3

\* A step of one call leaves all others where they are.
Only(c) ==
    \A d \in Calls : d # c =>
        /\ pc'[d] = pc[d] /\ todo'[d] = todo[d] /\ op'[d] = op[d] /\ file'[d] = file[d]
        /\ result'[d] = result[d] /\ ans'[d] = ans[d]

\* The same call goes on, with the same boxes before it.
Goes(c, l) ==
    /\ pc' \in [Calls -> Places] /\ pc'[c] = l /\ Only(c)
    /\ op' = op /\ file' = file /\ result' = result

LEMMA Going ==
    ASSUME TypeOK, NEW c \in Calls, NEW l \in Places, Goto(c, l), UNCHANGED calls,
           \A d \in Calls : d # c => todo'[d] = todo[d] /\ ans'[d] = ans[d]
    PROVE  Goes(c, l)
<1>1. pc \in [Calls -> Places]
  BY DEF TypeOK, Places
<1>2. pc' = [pc EXCEPT ![c] = l]
  BY DEF Goto
<1>3. pc' \in [Calls -> Places] /\ pc'[c] = l /\ \A d \in Calls : d # c => pc'[d] = pc[d]
  BY <1>1, <1>2
<1>4. op' = op /\ file' = file /\ result' = result
  BY DEF calls
<1>5. QED
  BY <1>3, <1>4 DEF Goes, Only

\* A hop changes nothing but, of a box that stands, the buffer that was the active one.
Still ==
    /\ UNCHANGED <<index, paused, stopped, dropped, meta, calls, todo, pc, ans>>
    /\ active' \in [Pieces -> Seq(UnitSet)] /\ other' \in [Pieces -> Seq(UnitSet)]
    /\ \A w \in Standing : active'[w] = active[w] /\ other'[w] \in {other[w], active[w]}
    /\ late' \subseteq stopped /\ front' \in [Pieces -> {"a", "b"}]

LEMMA Hopping ==
    ASSUME TypeOK, NEW w \in Pieces, Hop(w) \/ LateHop(w)
    PROVE  Still
<1>1. /\ active \in [Pieces -> Seq(UnitSet)] /\ other \in [Pieces -> Seq(UnitSet)]
      /\ front \in [Pieces -> {"a", "b"}] /\ late \subseteq stopped /\ dropped \subseteq stopped
      /\ w \notin dropped => Len(active[w]) = Len(other[w])
  BY DEF TypeOK
<1>2. Length(w) \in Nat /\ (w \notin dropped => Length(w) = Len(active[w]))
  BY <1>1 DEF Length
<1>3. /\ active' = [active EXCEPT ![w] = Assign(other[w], Prefix(active[w], Length(w)))]
      /\ other' = [other EXCEPT ![w] = active[w]]
      /\ UNCHANGED <<index, paused, stopped, dropped, meta, calls, todo, pc, ans>>
  BY DEF Hop, LateHop, Fall
<1>4. PICK a, b : a = active[w] /\ b = other[w]
  OBVIOUS
<1>5. a \in Seq(UnitSet) /\ b \in Seq(UnitSet)
  BY <1>1, <1>4
<1>6. PICK n \in Nat : n = Length(w) /\ (w \notin dropped => n = Len(a) /\ Len(a) = Len(b))
  BY <1>1, <1>2, <1>4
<1>7. Prefix(a, n) \in Seq(UnitSet) /\ (w \notin dropped => Prefix(a, n) = a)
  BY <1>5, <1>6, Prefixes
<1>8. Assign(b, Prefix(a, n)) \in Seq(UnitSet) /\ (w \notin dropped => Assign(b, Prefix(a, n)) = a)
  <2>1. Assign(b, Prefix(a, n)) \in Seq(UnitSet)
    BY <1>5, <1>7, Copied
  <2>2. Assign(b, a) = a \/ w \in dropped
    BY <1>5, <1>6, Copied
  <2>3. QED
    BY <1>7, <2>1, <2>2
<1>9. active' = [active EXCEPT ![w] = Assign(b, Prefix(a, n))] /\ other' = [other EXCEPT ![w] = a]
  BY <1>3, <1>4, <1>6
<1>10. active' \in [Pieces -> Seq(UnitSet)] /\ other' \in [Pieces -> Seq(UnitSet)]
  BY <1>1, <1>5, <1>8, <1>9
<1>11. \A v \in Standing : active'[v] = active[v] /\ other'[v] \in {other[v], active[v]}
  BY <1>1, <1>4, <1>8, <1>9 DEF Standing
<1>12. late' \subseteq stopped /\ front' \in [Pieces -> {"a", "b"}]
  <2>1. CASE Hop(w)
    BY <1>1, <2>1 DEF Hop
  <2>2. CASE LateHop(w)
    BY <1>1, <2>2 DEF LateHop
  <2>3. QED
    BY <2>1, <2>2
<1>13. QED
  BY <1>3, <1>10, <1>11, <1>12 DEF Still

\* A call takes a lock, leaves one, raises or returns: it has the same boxes behind it.
Quiet(c) == Pause(c) \/ IndexRaises(c) \/ CompressRaises(c) \/ Clear(c) \/ Last(c) \/ MetaRaises(c)

LEMMA Quietly ==
    ASSUME TypeOK, ShapeInv, CallInv, NEW c \in Calls, Quiet(c)
    PROVE  /\ \E l \in Places \ {"idle", "clear"} : Goes(c, l)
           /\ active' = active /\ other' = other /\ index' = index /\ UNCHANGED death /\ ans' = ans
           /\ pc[c] \notin {"idle", "done"} /\ op[c] # "none"
           /\ \A d \in Calls, w \in Pieces : Through(d, w)' <=> Through(d, w)
<1>0. pc \in [Calls -> Places] /\ DOMAIN todo = Calls
      /\ (op[c] # "none" => todo[c] \in Lists) /\ (op[c] = "none" <=> pc[c] = "idle") /\ Visits(c)
  BY Calling DEF CallInv
<1>1. pc[c] \in {"visit", "locked", "clear", "last"}
  BY DEF Quiet, Pause, IndexRaises, CompressRaises, Clear, Last, MetaRaises
<1>2. pc[c] \notin {"idle", "done"} /\ op[c] # "none" /\ todo[c] \in Lists
  BY <1>0, <1>1
<1>3. active' = active /\ other' = other /\ index' = index /\ UNCHANGED death /\ ans' = ans
      /\ UNCHANGED calls
  BY DEF Quiet, Pause, IndexRaises, CompressRaises, Clear, Last, MetaRaises, Rest, packed
<1>4. CASE Clear(c)
  <2>1. todo' = [todo EXCEPT ![c] = Tail(@)] /\ pc[c] = "clear"
    BY <1>4 DEF Clear
  <2>2. todo'[c] = Tail(todo[c]) /\ \A d \in Calls : d # c => todo'[d] = todo[d]
    BY <1>0, <2>1
  <2>3. PICK l \in {"last", "visit"} : Goto(c, l)
    BY <1>4 DEF Clear
  <2>4. Goes(c, l)
    BY <1>3, <2>2, <2>3, Going DEF Places
  <2>5. todo[c] # <<>>
    BY <1>0, <2>1 DEF Visits
  <2>6. ASSUME NEW w \in Pieces PROVE Through(c, w)' <=> Through(c, w)
    <3>1. Behind(Tail(todo[c]), l, w) <=> Behind(todo[c], "clear", w)
      BY <1>2, <2>5, Behinds, l # "clear"
    <3>2. QED
      BY <2>1, <2>2, <2>4, <3>1 DEF Through, Goes
  <2>7. ASSUME NEW d \in Calls, NEW w \in Pieces PROVE Through(d, w)' <=> Through(d, w)
    BY <2>4, <2>6 DEF Through, Goes, Only
  <2>8. l \in Places \ {"idle", "clear"}
    BY DEF Places
  <2>9. QED
    BY <1>2, <1>3, <2>4, <2>7, <2>8
<1>5. CASE Pause(c) \/ IndexRaises(c) \/ CompressRaises(c) \/ Last(c) \/ MetaRaises(c)
  <2>1. todo' = todo
    BY <1>5 DEF Pause, IndexRaises, CompressRaises, Last, MetaRaises
  <2>2. PICK l \in {"locked", "raised", "done"} : Goto(c, l)
    BY <1>5 DEF Pause, IndexRaises, CompressRaises, Last, MetaRaises
  <2>3. Goes(c, l)
    BY <1>3, <2>1, <2>2, Going DEF Places
  <2>4. pc[c] # "clear"
    BY <1>5 DEF Pause, IndexRaises, CompressRaises, Last, MetaRaises
  <2>5. ASSUME NEW w \in Pieces PROVE Through(c, w)' <=> Through(c, w)
    BY <1>2, <2>1, <2>3, <2>4 DEF Through, Goes, Behind
  <2>6. ASSUME NEW d \in Calls, NEW w \in Pieces PROVE Through(d, w)' <=> Through(d, w)
    BY <2>3, <2>5 DEF Through, Goes, Only
  <2>7. l \in Places \ {"idle", "clear"}
    BY DEF Places
  <2>8. QED
    BY <1>2, <1>3, <2>3, <2>6, <2>7
<1>6. QED
  BY <1>4, <1>5 DEF Quiet

\* A call has its turn at a box, and has it behind it.
Passes(c) == Add(c) \/ Get(c) \/ Remove(c)

LEMMA Passing ==
    ASSUME TypeOK, ShapeInv, CallInv, NEW c \in Calls, Passes(c)
    PROVE  /\ Goes(c, "clear") /\ todo' = todo
           /\ meta' = meta /\ paused' = paused /\ UNCHANGED death
           /\ pc[c] = "locked" /\ op[c] # "none" /\ todo[c] # <<>> /\ todo[c] \in Lists /\ Box(c) \in Pieces
           /\ ~Through(c, Box(c))
           /\ \A d \in Calls, w \in Pieces : Through(d, w)' <=> Through(d, w) \/ (d = c /\ w = Box(c))
<1>0. pc \in [Calls -> Places] /\ DOMAIN ans = Calls
      /\ (op[c] # "none" => todo[c] \in Lists) /\ (op[c] = "none" <=> pc[c] = "idle") /\ Visits(c)
  BY Calling DEF CallInv
<1>1. pc[c] = "locked" /\ todo' = todo /\ Goto(c, "clear")
  BY DEF Passes, Add, Get, Remove
<1>2. op[c] # "none" /\ todo[c] \in Lists /\ todo[c] # <<>>
  BY <1>0, <1>1 DEF Visits
<1>3. Box(c) \in Pieces /\ ~Through(c, Box(c))
  <2>1. "content" \in Pieces /\ pc[c] # "clear"
    BY <1>1 DEF Pieces
  <2>2. Head(todo[c]) \in Pieces /\ ~Behind(todo[c], pc[c], Head(todo[c]))
    BY <1>2, <2>1, Behinds
  <2>3. QED
    BY <2>2 DEF Through, Box
<1>4. meta' = meta /\ paused' = paused /\ UNCHANGED death /\ UNCHANGED calls
  BY DEF Passes, Add, Get, Remove, Rest
<1>5. \A d \in Calls : d # c => todo'[d] = todo[d] /\ ans'[d] = ans[d]
  BY <1>0, <1>1 DEF Passes, Add, Get, Remove
<1>6. Goes(c, "clear")
  BY <1>1, <1>4, <1>5, Going DEF Places
<1>7. ASSUME NEW w \in Pieces PROVE Through(c, w)' <=> Through(c, w) \/ w = Box(c)
  <2>1. Through(c, w) <=> Behind(todo[c], pc[c], w)
    BY <1>1 DEF Through
  <2>2. Through(c, w)' <=> Behind(todo[c], "clear", w)
    BY <1>1, <1>6 DEF Through, Goes
  <2>3. Behind(todo[c], "clear", w) <=> Behind(todo[c], pc[c], w) \/ w = Head(todo[c])
    BY <1>1, <1>2, Behinds
  <2>4. QED
    BY <2>1, <2>2, <2>3 DEF Box
<1>8. ASSUME NEW d \in Calls, NEW w \in Pieces
      PROVE  Through(d, w)' <=> Through(d, w) \/ (d = c /\ w = Box(c))
  BY <1>6, <1>7 DEF Through, Goes, Only
<1>9. QED
  BY <1>1, <1>2, <1>3, <1>4, <1>6, <1>8

\* A collapse() goes on: the box is stopped, then dropped, and all other boxes are left alone.
Drops(c) == StopBox(c) \/ DropA(c) \/ DropB(c) \/ DropIndex(c)

LEMMA Dropping ==
    ASSUME TypeOK, ShapeInv, CallInv, DropInv, NEW c \in Calls, Drops(c)
    PROVE  /\ \E l \in Places \ {"idle", "locked", "clear", "done", "raised"} : Goes(c, l)
           /\ meta' = meta /\ paused' = paused /\ ans' = ans
           /\ op[c] = "collapse_all" /\ todo[c] # <<>> /\ todo[c] \in Fours /\ Box(c) \in Pieces
           /\ stopped \subseteq stopped' /\ stopped' \subseteq Pieces /\ late' = late
           /\ dropped \subseteq dropped' /\ dropped' \subseteq dropped \cup {Box(c)} /\ dropped' \subseteq stopped'
           /\ front' \in [Pieces -> {"a", "b"}]
           /\ active' \in [Pieces -> Seq(UnitSet)] /\ other' \in [Pieces -> Seq(UnitSet)]
           /\ DOMAIN index' = Pieces /\ \A w \in Pieces : index'[w] \in {index[w], Nothing}
           /\ \A w \in Pieces \ dropped' :
                active'[w] = active[w] /\ other'[w] = other[w] /\ index'[w] = index[w]
           /\ \A d \in Calls, w \in Pieces : d # c => (Through(d, w)' <=> Through(d, w))
<1>0. /\ pc \in [Calls -> Places] /\ DOMAIN todo = Calls /\ Visits(c) /\ Collapses(c)
      /\ (op[c] = "none" <=> pc[c] = "idle")
  BY Calling DEF CallInv, DropInv
<1>1. pc[c] \in {"visit", "first", "second", "third"} /\ op[c] = "collapse_all"
  BY <1>0 DEF Drops, StopBox, DropA, DropB, DropIndex, Collapses
<1>2. todo[c] # <<>> /\ todo[c] \in Fours
  BY <1>0, <1>1 DEF Visits
<1>3. Box(c) \in Pieces
  <2>1. todo[c] \in Lists /\ "content" \in Pieces /\ "visit" # "clear"
    BY <1>2 DEF Lists, Pieces
  <2>2. QED
    BY <1>2, <2>1, Behinds DEF Box
<1>4. meta' = meta /\ paused' = paused /\ ans' = ans /\ late' = late /\ UNCHANGED calls
  BY DEF Drops, StopBox, DropA, DropB, DropIndex, Rest, death
<1>5. \A d \in Calls : d # c => todo'[d] = todo[d]
  BY <1>0 DEF Drops, StopBox, DropA, DropB, DropIndex
<1>6. PICK l \in {"visit", "last", "first", "second", "third"} : Goto(c, l)
  BY DEF Drops, StopBox, DropA, DropB, DropIndex
<1>7. Goes(c, l) /\ l \in Places \ {"idle", "locked", "clear", "done", "raised"}
  BY <1>4, <1>5, <1>6, Going DEF Places
<1>8. /\ stopped \subseteq Pieces /\ dropped \subseteq stopped /\ front \in [Pieces -> {"a", "b"}]
      /\ active \in [Pieces -> Seq(UnitSet)] /\ other \in [Pieces -> Seq(UnitSet)]
      /\ DOMAIN index = Pieces /\ <<>> \in Seq(UnitSet)
  BY DEF TypeOK, ShapeInv
<1>9. /\ stopped \subseteq stopped' /\ stopped' \subseteq Pieces
      /\ dropped \subseteq dropped' /\ dropped' \subseteq dropped \cup {Box(c)} /\ dropped' \subseteq stopped'
      /\ front' \in [Pieces -> {"a", "b"}]
      /\ active' \in [Pieces -> Seq(UnitSet)] /\ other' \in [Pieces -> Seq(UnitSet)]
      /\ DOMAIN index' = Pieces /\ \A w \in Pieces : index'[w] \in {index[w], Nothing}
      /\ \A w \in Pieces \ dropped' :
           active'[w] = active[w] /\ other'[w] = other[w] /\ index'[w] = index[w]
  <2>1. CASE StopBox(c)
    BY <1>3, <1>8, <2>1 DEF StopBox, packed
  <2>2. CASE DropA(c)
    <3>1. Box(c) \in stopped
      BY <1>0, <2>2 DEF DropA, Collapses
    <3>2. /\ dropped' = dropped \cup {Box(c)} /\ stopped' = stopped /\ index' = index
          /\ active' \in {active, [active EXCEPT ![Box(c)] = <<>>]}
          /\ other' \in {other, [other EXCEPT ![Box(c)] = <<>>]}
      BY <2>2 DEF DropA
    <3>3. PICK n \in {"a", "b"} : front' = [front EXCEPT ![Box(c)] = n]
      BY <1>3, <1>8, <2>2 DEF DropA
    <3>4. front' \in [Pieces -> {"a", "b"}]
      BY <1>3, <1>8, <3>3
    <3>5. active' \in [Pieces -> Seq(UnitSet)] /\ other' \in [Pieces -> Seq(UnitSet)]
          /\ \A w \in Pieces : w # Box(c) => active'[w] = active[w] /\ other'[w] = other[w]
      BY <1>3, <1>8, <3>2
    <3>6. QED
      BY <1>8, <3>1, <3>2, <3>4, <3>5
  <2>3. CASE DropB(c)
    <3>1. Box(c) \in dropped
      BY <1>0, <2>3 DEF DropB, Collapses
    <3>2. /\ UNCHANGED <<stopped, dropped, front, index>>
          /\ active' \in {active, [active EXCEPT ![Box(c)] = <<>>]}
          /\ other' \in {other, [other EXCEPT ![Box(c)] = <<>>]}
      BY <2>3 DEF DropB, Rest, death
    <3>3. active' \in [Pieces -> Seq(UnitSet)] /\ other' \in [Pieces -> Seq(UnitSet)]
          /\ \A w \in Pieces : w # Box(c) => active'[w] = active[w] /\ other'[w] = other[w]
      BY <1>3, <1>8, <3>2
    <3>4. QED
      BY <1>8, <3>1, <3>2, <3>3
  <2>4. CASE DropIndex(c)
    <3>1. Box(c) \in dropped
      BY <1>0, <2>4 DEF DropIndex, Collapses
    <3>2. /\ UNCHANGED <<stopped, dropped, front, active, other>>
          /\ index' = [index EXCEPT ![Box(c)] = Nothing]
      BY <2>4 DEF DropIndex, Rest, death
    <3>3. DOMAIN index' = Pieces /\ \A w \in Pieces : index'[w] = IF w = Box(c) THEN Nothing ELSE index[w]
      BY <1>3, <1>8, <3>2
    <3>4. QED
      BY <1>8, <3>1, <3>2, <3>3
  <2>5. QED
    BY <2>1, <2>2, <2>3, <2>4 DEF Drops
<1>10. ASSUME NEW d \in Calls, NEW w \in Pieces, d # c PROVE Through(d, w)' <=> Through(d, w)
  BY <1>7, <1>10 DEF Through, Goes, Only
<1>11. QED
  BY <1>1, <1>2, <1>3, <1>4, <1>7, <1>9, <1>10

\* A file whose save() has returned.
Saved(f) == f \in Calls /\ op[f] = "save" /\ pc[f] = "done"

\* A call begins: what it does, to which file, with which result, and the boxes before it.
Starts(c, o, f, r, boxes) ==
    /\ pc[c] = "idle" /\ Goto(c, IF boxes = <<>> THEN "last" ELSE "visit")
    /\ op' = [op EXCEPT ![c] = o] /\ file' = [file EXCEPT ![c] = f]
    /\ result' = [result EXCEPT ![c] = r] /\ todo' = [todo EXCEPT ![c] = boxes]
    /\ UNCHANGED <<packed, paused, death, meta, ans>>
    /\ \/ o = "save" /\ f = c /\ r \in Splits /\ boxes = All
       \/ /\ o = "retrieve" /\ Saved(f)
          /\ \E w \in Pieces : boxes = <<w>> /\ (r.which = "full" => f \in DOMAIN meta /\ w = meta[f])
       \/ o = "forget" /\ Saved(f) /\ ((r.found /\ boxes = All) \/ (~r.found /\ boxes = <<>>))
       \/ o = "collapse_all" /\ f = NoCall /\ boxes = All

LEMMA Beginning ==
    ASSUME ShapeInv, NEW c \in Calls,
           \/ Save(c) \/ CollapseAll(c)
           \/ \E f \in Calls : pc[f] = "done" /\ op[f] = "save" /\ (Retrieve(c, f) \/ Forget(c, f))
    PROVE  \E o, f, r, boxes : Starts(c, o, f, r, boxes)
<1>1. CASE Save(c)
  <2>1. PICK kind \in FileKinds :
          \E r \in {split_file(kind, Parses), split_bytes(Bytes("raw"), kind, Parses)} :
              Begin(c, "save", c, r, All)
    BY <1>1 DEF Save
  <2>2. PICK r \in {split_file(kind, Parses), split_bytes(Bytes("raw"), kind, Parses)} :
             Begin(c, "save", c, r, All)
    BY <2>1
  <2>3. r \in Splits
    BY <2>2, PackedAssumption DEF Splits
  <2>4. Starts(c, "save", c, r, All)
    BY <2>2, <2>3 DEF Begin, Starts
  <2>5. QED
    BY <2>4
<1>2. CASE CollapseAll(c)
  <2>1. Starts(c, "collapse_all", NoCall, Nothing, All)
    BY <1>2 DEF CollapseAll, Begin, Starts
  <2>2. QED
    BY <2>1
<1>3. ASSUME NEW f \in Calls, pc[f] = "done", op[f] = "save", Retrieve(c, f)
      PROVE  \E o, g, r, boxes : Starts(c, o, g, r, boxes)
  <2>1. f \in DOMAIN meta /\ meta[f] \in Pieces
    BY <1>3 DEF Retrieve, ShapeInv
  <2>2. PICK which \in {"full", "metadata"} :
             Begin(c, "retrieve", f, [which |-> which], <<IF which = "full" THEN meta[f] ELSE which>>)
    BY <1>3 DEF Retrieve
  <2>3. (IF which = "full" THEN meta[f] ELSE which) \in Pieces
    BY <2>1, <2>2 DEF Pieces
  <2>4. Starts(c, "retrieve", f, [which |-> which], <<IF which = "full" THEN meta[f] ELSE which>>)
    BY <1>3, <2>1, <2>2, <2>3 DEF Begin, Starts, Saved
  <2>5. QED
    BY <2>4
<1>4. ASSUME NEW f \in Calls, pc[f] = "done", op[f] = "save", Forget(c, f)
      PROVE  \E o, g, r, boxes : Starts(c, o, g, r, boxes)
  <2>1. Starts(c, "forget", f, [found |-> f \in DOMAIN meta], IF f \in DOMAIN meta THEN All ELSE <<>>)
    BY <1>4 DEF Forget, Begin, Starts, Saved
  <2>2. QED
    BY <2>1
<1>5. QED
  BY <1>1, <1>2, <1>3, <1>4

\* Nobody knew of the call before, and it has no box behind it unless it has none before it.
LEMMA Starting ==
    ASSUME TypeOK, ShapeInv, CallInv, NEW c \in Calls, NEW o, NEW f, NEW r, NEW boxes,
           Starts(c, o, f, r, boxes)
    PROVE  /\ pc[c] = "idle" /\ op[c] = "none" /\ pc' \in [Calls -> Places] /\ Only(c)
           /\ o \in Ops \ {"none"} /\ f \in Calls \cup {NoCall} /\ boxes \in Lists
           /\ op'[c] = o /\ file'[c] = f /\ result'[c] = r /\ todo'[c] = boxes
           /\ boxes = <<>> => pc'[c] = "last"
           /\ boxes # <<>> => pc'[c] = "visit"
           /\ DOMAIN result' = Calls /\ DOMAIN todo' = Calls
           /\ active' = active /\ other' = other /\ index' = index /\ paused' = paused
           /\ UNCHANGED death /\ meta' = meta /\ ans' = ans
           /\ \A d \in Calls, w \in Pieces : d # c => (Through(d, w)' <=> Through(d, w))
           /\ \A w \in Pieces : ~Through(c, w) /\ (boxes = All => ~Through(c, w)')
<1>0. /\ op \in [Calls -> Ops] /\ pc \in [Calls -> Places] /\ file \in [Calls -> Calls \cup {NoCall}]
      /\ DOMAIN todo = Calls /\ DOMAIN result = Calls /\ DOMAIN ans = Calls
      /\ pc[c] = "idle" /\ op[c] = "none"
  BY Calling DEF Starts
<1>1. o \in Ops \ {"none"} /\ f \in Calls \cup {NoCall}
  BY DEF Starts, Ops, Saved
<1>2. boxes \in Lists
  BY DEF Starts, Lists, Fours
<1>3. /\ op' = [op EXCEPT ![c] = o] /\ file' = [file EXCEPT ![c] = f]
      /\ result' = [result EXCEPT ![c] = r] /\ todo' = [todo EXCEPT ![c] = boxes]
      /\ ans' = ans
  BY DEF Starts
<1>4. pc' = [pc EXCEPT ![c] = IF boxes = <<>> THEN "last" ELSE "visit"]
  BY DEF Starts, Goto
<1>5. pc' \in [Calls -> Places] /\ (boxes = <<>> => pc'[c] = "last") /\ (boxes # <<>> => pc'[c] = "visit")
      /\ \A d \in Calls : d # c => pc'[d] = pc[d]
  BY <1>0, <1>4 DEF Places
<1>6. /\ op'[c] = o /\ file'[c] = f /\ result'[c] = r /\ todo'[c] = boxes
      /\ DOMAIN result' = Calls /\ DOMAIN todo' = Calls
      /\ \A d \in Calls : d # c => /\ op'[d] = op[d] /\ file'[d] = file[d] /\ result'[d] = result[d]
                                   /\ todo'[d] = todo[d] /\ ans'[d] = ans[d]
  BY <1>0, <1>3
<1>7. Only(c)
  BY <1>5, <1>6 DEF Only
<1>8. active' = active /\ other' = other /\ index' = index /\ paused' = paused
      /\ UNCHANGED death /\ meta' = meta /\ ans' = ans
  BY DEF Starts, packed
<1>9. ASSUME NEW d \in Calls, NEW w \in Pieces, d # c PROVE Through(d, w)' <=> Through(d, w)
  BY <1>7, <1>9 DEF Through, Only
<1>10. ASSUME NEW w \in Pieces PROVE ~Through(c, w) /\ (boxes = All => ~Through(c, w)')
  <2>1. ~Through(c, w)
    BY <1>0 DEF Through
  <2>2. ASSUME boxes = All PROVE ~Through(c, w)'
    <3>1. pc'[c] = "visit" /\ todo'[c] = All
      BY <1>5, <1>6, <2>2, Order
    <3>2. ~Behind(All, "visit", w)
      BY BehindFours
    <3>3. QED
      BY <3>1, <3>2 DEF Through
  <2>3. QED
    BY <2>1, <2>2
<1>11. QED
  BY <1>0, <1>1, <1>2, <1>5, <1>6, <1>7, <1>8, <1>9, <1>10

\* A step of a call.
Step(c) == Quiet(c) \/ Passes(c) \/ Drops(c) \/ \E o, f, r, boxes : Starts(c, o, f, r, boxes)

\* Every step is a hop or one of a call's.
LEMMA Stepping ==
    ASSUME TypeOK, ShapeInv, [Next]_vars
    PROVE  Still \/ \E c \in Calls : Step(c)
<1>1. CASE UNCHANGED vars
  <2>1. UNCHANGED <<active, other, index, paused, stopped, late, dropped, front, meta, calls, todo, pc, ans>>
    BY <1>1 DEF vars, packed, death
  <2>2. active \in [Pieces -> Seq(UnitSet)] /\ other \in [Pieces -> Seq(UnitSet)] /\ late \subseteq stopped
        /\ front \in [Pieces -> {"a", "b"}]
    BY DEF TypeOK
  <2>3. QED
    BY <2>1, <2>2 DEF Still
<1>2. ASSUME NEW w \in Pieces, Hop(w) \/ LateHop(w)
      PROVE  Still
  BY <1>2, Hopping
<1>3. ASSUME NEW c \in Calls,
             \/ Save(c) \/ CollapseAll(c)
             \/ \E f \in Calls : pc[f] = "done" /\ op[f] = "save" /\ (Retrieve(c, f) \/ Forget(c, f))
      PROVE  \E o, f, r, boxes : Starts(c, o, f, r, boxes)
  BY <1>3, Beginning
<1>4. QED
  BY <1>1, <1>2, <1>3 DEF Next, Step, Quiet, Passes, Drops

-----------------------------------------------------------------------------
(* Every step keeps each part of the invariant.                            *)

\* A file that is saved stays so, with its pieces.
LEMMA StaysSaved ==
    ASSUME TypeOK, ShapeInv, CallInv, DropInv, NEW c \in Calls, Step(c)
    PROVE  \A g \in Calls : Saved(g) => g # c /\ Saved(g)' /\ result'[g] = result[g]
<1>1. CASE Quiet(c)
  BY <1>1, Quietly DEF Saved, Goes, Only
<1>2. CASE Passes(c)
  BY <1>2, Passing DEF Saved, Goes, Only
<1>3. CASE Drops(c)
  BY <1>3, Dropping DEF Saved, Goes, Only
<1>4. ASSUME NEW o, NEW f, NEW r, NEW boxes, Starts(c, o, f, r, boxes)
      PROVE  \A g \in Calls : Saved(g) => g # c /\ Saved(g)' /\ result'[g] = result[g]
  BY <1>4, Starting DEF Saved, Only
<1>5. QED
  BY <1>1, <1>2, <1>3, <1>4 DEF Step

\* A step of a call leaves the other calls alone, and no box stands again.
LEMMA Growing ==
    ASSUME TypeOK, ShapeInv, CallInv, DropInv, NEW c \in Calls, Step(c)
    PROVE  Only(c) /\ stopped \subseteq stopped' /\ dropped \subseteq dropped'
<1>1. CASE Quiet(c)
  BY <1>1, Quietly DEF Goes, death
<1>2. CASE Passes(c)
  BY <1>2, Passing DEF Goes, death
<1>3. CASE Drops(c)
  BY <1>3, Dropping DEF Goes
<1>4. ASSUME NEW o, NEW f, NEW r, NEW boxes, Starts(c, o, f, r, boxes)
      PROVE  Only(c) /\ stopped \subseteq stopped' /\ dropped \subseteq dropped'
  BY <1>4, Starting DEF death
<1>5. QED
  BY <1>1, <1>2, <1>3, <1>4 DEF Step

LEMMA CallStep ==
    ASSUME TypeOK, ShapeInv, CallInv, DropInv, NEW c \in Calls, Step(c)
    PROVE  CallInv'
<1>0. /\ op \in [Calls -> Ops] /\ pc \in [Calls -> Places] /\ DOMAIN todo = Calls
      /\ Visits(c) /\ Names(c) /\ (op[c] # "none" => todo[c] \in Lists)
  BY Calling DEF CallInv
<1>c. "content" \in Pieces /\ "visit" # "clear"
  BY DEF Pieces
<1>1. Only(c)
  BY Growing
<1>2. ASSUME NEW d \in Calls, d # c PROVE (Visits(d) /\ Names(d))'
  <2>1. Visits(d) /\ Names(d)
    BY DEF CallInv
  <2>2. Visits(d)'
    BY <1>1, <1>2, <2>1 DEF Only, Visits
  <2>3. op[d] \in {"retrieve", "forget"} => Saved(file[d])'
    <3>1. SUFFICES ASSUME op[d] \in {"retrieve", "forget"} PROVE Saved(file[d])'
      OBVIOUS
    <3>2. Saved(file[d]) /\ file[d] \in Calls
      BY <2>1, <3>1 DEF Names, Saved
    <3>3. PICK g \in Calls : g = file[d] /\ Saved(g)
      BY <3>2
    <3>4. Saved(g)' /\ file'[d] = g
      BY <1>1, <1>2, <3>3, StaysSaved DEF Only
    <3>5. QED
      BY <3>4 DEF Saved
  <2>4. Names(d)'
    BY <1>1, <1>2, <2>1, <2>3 DEF Only, Names, Saved
  <2>5. QED
    BY <2>2, <2>4
<1>3. ASSUME op' = op, file' = file, result' = result, op[c] # "none", todo'[c] # <<>> => todo[c] # <<>>,
             Quiet(c) \/ Passes(c)
      PROVE  Names(c)'
  <2>1. op[c] \in {"retrieve", "forget"} => Saved(file[c])'
    BY <1>0, <1>3, StaysSaved DEF Names, Saved
  <2>2. QED
    BY <1>0, <1>3, <2>1 DEF Names, Saved
<1>4. CASE Quiet(c) /\ ~Clear(c)
  <2>1. todo' = todo
    BY <1>4 DEF Quiet, Pause, IndexRaises, CompressRaises, Last, MetaRaises
  <2>2. PICK l \in Places \ {"idle", "clear"} : Goes(c, l)
    BY <1>4, Quietly
  <2>3. Names(c)'
    BY <1>3, <1>4, <2>1, <2>2, Quietly DEF Goes
  <2>4. /\ pc[c] \in {"visit", "locked", "last"} /\ pc'[c] \in {"locked", "raised", "done"}
        /\ (pc'[c] = "locked" => pc[c] = "visit" /\ op[c] # "collapse_all")
        /\ (pc'[c] = "done" => pc[c] = "last")
        /\ (pc'[c] = "raised" => pc[c] = "locked" \/ op[c] \in {"save", "forget"})
    BY <1>0, <1>4 DEF Quiet, Pause, IndexRaises, CompressRaises, Last, MetaRaises, MetaIsGone, Goto
  <2>5. Visits(c)'
    BY <1>0, <2>1, <2>2, <2>4 DEF Visits, Goes
  <2>6. QED
    BY <1>2, <2>3, <2>5 DEF CallInv
<1>5. CASE Clear(c)
  <2>1. /\ todo'[c] = Tail(todo[c]) /\ pc[c] = "clear"
        /\ pc'[c] = IF Len(todo[c]) = 1 THEN "last" ELSE "visit"
    BY <1>0, <1>5 DEF Clear, Goto
  <2>2. op' = op /\ file' = file /\ result' = result /\ op[c] # "none" /\ op[c] # "collapse_all"
        /\ todo[c] # <<>>
    BY <1>0, <1>5, <2>1 DEF Clear, Rest, calls, Visits
  <2>3. /\ Tail(todo[c]) \in Lists /\ (todo[c] \in Fours => Tail(todo[c]) \in Fours)
        /\ Len(todo[c]) = 1 <=> Tail(todo[c]) = <<>>
    BY <1>0, <2>2, <1>c, Behinds
  <2>4. op[c] = "retrieve" => Tail(todo[c]) = <<>>
    BY <1>0, <2>2, One DEF Visits
  <2>5. Visits(c)'
    BY <1>0, <2>1, <2>2, <2>3, <2>4 DEF Visits
  <2>6. Names(c)'
    BY <1>3, <1>5, <2>2 DEF Quiet
  <2>7. QED
    BY <1>2, <2>5, <2>6 DEF CallInv
<1>6. CASE Passes(c)
  <2>1. todo' = todo /\ pc[c] = "locked" /\ pc'[c] = "clear" /\ op' = op /\ file' = file /\ result' = result
    BY <1>6, Passing DEF Goes
  <2>2. Visits(c)'
    BY <1>0, <2>1 DEF Visits
  <2>3. Names(c)'
    BY <1>3, <1>6, <2>1, Passing
  <2>4. QED
    BY <1>2, <2>2, <2>3 DEF CallInv
<1>7. CASE Drops(c)
  <2>1. /\ op[c] = "collapse_all" /\ todo[c] # <<>> /\ todo[c] \in Fours
        /\ pc[c] \notin {"idle", "last", "done"} /\ op' = op
    BY <1>0, <1>7, Dropping DEF Visits, Goes
  <2>2. ASSUME StopBox(c) \/ DropA(c) \/ DropB(c) PROVE Visits(c)'
    <3>1. todo' = todo /\ pc'[c] \in {"first", "second", "third"}
      BY <1>0, <2>2 DEF StopBox, DropA, DropB, Goto
    <3>2. QED
      BY <2>1, <3>1 DEF Visits
  <2>3. ASSUME DropIndex(c) PROVE Visits(c)'
    <3>1. todo'[c] = Tail(todo[c]) /\ pc'[c] = IF Len(todo[c]) = 1 THEN "last" ELSE "visit"
      BY <1>0, <2>3 DEF DropIndex, Goto
    <3>2. todo[c] \in Lists
      BY <2>1 DEF Lists
    <3>3. Tail(todo[c]) \in Fours /\ (Len(todo[c]) = 1 <=> Tail(todo[c]) = <<>>)
      BY <1>c, <2>1, <3>2, Behinds
    <3>4. QED
      BY <2>1, <3>1, <3>3 DEF Visits
  <2>4. Visits(c)'
    BY <1>7, <2>2, <2>3 DEF Drops
  <2>5. Names(c)'
    BY <2>1 DEF Names
  <2>6. QED
    BY <1>2, <2>4, <2>5 DEF CallInv
<1>8. ASSUME NEW o, NEW f, NEW r, NEW boxes, Starts(c, o, f, r, boxes)
      PROVE  CallInv'
  <2>1. /\ op'[c] = o /\ file'[c] = f /\ result'[c] = r /\ todo'[c] = boxes /\ o # "none"
        /\ boxes = <<>> => pc'[c] = "last"
        /\ boxes # <<>> => pc'[c] = "visit"
    BY <1>8, Starting
  <2>2. /\ o = "save" => f = c /\ r \in Splits /\ boxes = All
        /\ o = "retrieve" => Saved(f) /\ \E w \in Pieces : boxes = <<w>>
        /\ o = "forget" => Saved(f) /\ ((r.found /\ boxes = All) \/ (~r.found /\ boxes = <<>>))
        /\ o = "collapse_all" => boxes = All
    BY <1>8 DEF Starts
  <2>3. Visits(c)'
    BY <2>1, <2>2, Order, One DEF Visits, Fours
  <2>4. Saved(f) => Saved(f)'
    BY <1>8, StaysSaved DEF Saved
  <2>5. Names(c)'
    BY <2>1, <2>2, <2>4, Order DEF Names, Saved
  <2>6. QED
    BY <1>2, <2>3, <2>5 DEF CallInv
<1>9. QED
  BY <1>4, <1>5, <1>6, <1>7, <1>8 DEF Step

\* The first of the boxes that are left to a call says how many there are.
LEMMA Heads ==
    ASSUME NEW t \in Fours, NEW u \in Fours, t # <<>>, u # <<>>, Head(t) = Head(u)
    PROVE  t = u
<1>1. t \in {All, Tail(All), Tail(Tail(All))} /\ u \in {All, Tail(All), Tail(Tail(All))}
  BY DEF Fours
<1>2. QED
  BY <1>1, Order

LEMMA DropStep ==
    ASSUME TypeOK, ShapeInv, CallInv, DropInv, NEW c \in Calls, Step(c)
    PROVE  DropInv'
<1>0. /\ Only(c) /\ stopped \subseteq stopped' /\ dropped \subseteq dropped' /\ DOMAIN todo = Calls
      /\ pc \in [Calls -> Places] /\ Visits(c) /\ Collapses(c) /\ (op[c] = "none" <=> pc[c] = "idle")
  BY Growing, Calling DEF CallInv, DropInv
<1>1. ASSUME NEW d \in Calls, d # c PROVE Collapses(d)'
  <2>1. Collapses(d)
    BY DEF DropInv
  <2>2. pc'[d] = pc[d] /\ todo'[d] = todo[d] /\ op'[d] = op[d]
    BY <1>0, <1>1 DEF Only
  <2>3. QED
    BY <1>0, <2>1, <2>2 DEF Collapses, Box
<1>2. CASE Quiet(c)
  <2>1. op' = op /\ UNCHANGED death /\ pc'[c] \in {"locked", "raised", "visit", "last", "done"}
    <3>1. op' = op /\ UNCHANGED death
      BY <1>2, Quietly DEF Goes
    <3>2. pc'[c] \in {"locked", "raised", "visit", "last", "done"}
      BY <1>0, <1>2 DEF Quiet, Pause, IndexRaises, CompressRaises, Clear, Last, MetaRaises, Goto
    <3>3. QED
      BY <3>1, <3>2
  <2>2. op[c] = "collapse_all" => todo' = todo
    BY <1>0, <1>2 DEF Visits, Quiet, Pause, IndexRaises, CompressRaises, Clear, Last, MetaRaises
  <2>3. Collapses(c)'
    BY <1>0, <2>1, <2>2 DEF Collapses, death
  <2>4. QED
    BY <1>1, <2>1, <2>3 DEF DropInv, death
<1>3. CASE Passes(c)
  <2>1. op' = op /\ UNCHANGED death /\ pc[c] = "locked" /\ pc'[c] = "clear"
    BY <1>3, Passing DEF Goes
  <2>2. Collapses(c)'
    BY <1>0, <2>1 DEF Collapses, Visits
  <2>3. QED
    BY <1>1, <2>1, <2>2 DEF DropInv, death
<1>4. CASE Drops(c)
  <2>0. /\ op[c] = "collapse_all" /\ op' = op /\ todo[c] # <<>> /\ todo[c] \in Fours
        /\ dropped' \subseteq dropped \cup {Box(c)}
        /\ \A w \in Pieces : Behind(todo[c], "visit", w) => w \in dropped
    BY <1>0, <1>4, Dropping DEF Goes, Collapses
  <2>1. ASSUME StopBox(c) PROVE Collapses(c)'
    <3>1. todo' = todo /\ pc'[c] = "first" /\ stopped' = stopped \cup {Box(c)} /\ dropped' = dropped
      BY <1>0, <2>1 DEF StopBox, Goto
    <3>2. QED
      BY <2>0, <3>1 DEF Collapses, Box
  <2>2. ASSUME DropA(c) PROVE Collapses(c)'
    <3>1. todo' = todo /\ pc[c] = "first" /\ pc'[c] = "second" /\ stopped' = stopped
          /\ dropped' = dropped \cup {Box(c)}
      BY <1>0, <2>2 DEF DropA, Goto
    <3>2. QED
      BY <1>0, <2>0, <3>1 DEF Collapses, Box
  <2>3. ASSUME DropB(c) PROVE Collapses(c)'
    <3>1. todo' = todo /\ pc[c] = "second" /\ pc'[c] = "third" /\ stopped' = stopped /\ dropped' = dropped
      BY <1>0, <2>3 DEF DropB, Goto, Rest, death
    <3>2. QED
      BY <1>0, <2>0, <3>1 DEF Collapses, Box
  <2>4. ASSUME DropIndex(c) PROVE Collapses(c)'
    <3>1. todo'[c] = Tail(todo[c]) /\ pc[c] = "third" /\ pc'[c] \in {"last", "visit"} /\ dropped' = dropped
      BY <1>0, <2>4 DEF DropIndex, Goto, Rest, death
    <3>2. Box(c) \in dropped /\ todo[c] \in Lists /\ "visit" # "clear"
      BY <1>0, <2>0, <3>1 DEF Collapses, Lists
    <3>3. ASSUME NEW w \in Pieces, Behind(Tail(todo[c]), "visit", w) PROVE w \in dropped
      <4>1. Behind(todo[c], "visit", w) \/ w = Head(todo[c])
        BY <2>0, <3>2, <3>3, Behinds
      <4>2. QED
        BY <2>0, <3>2, <4>1 DEF Box
    <3>4. QED
      BY <2>0, <3>1, <3>3 DEF Collapses
  <2>5. Collapses(c)'
    BY <1>4, <2>1, <2>2, <2>3, <2>4 DEF Drops
  <2>6. ASSUME NEW t \in Fours, t # <<>>, Head(t) \in dropped', NEW w \in Pieces, Behind(t, "visit", w)
        PROVE  w \in dropped'
    <3>1. CASE Head(t) \in dropped
      BY <1>0, <2>6, <3>1 DEF DropInv
    <3>2. CASE Head(t) \notin dropped
      <4>1. Head(t) = Head(todo[c])
        BY <2>0, <2>6, <3>2 DEF Box
      <4>2. t = todo[c]
        BY <2>0, <2>6, <4>1, Heads
      <4>3. QED
        BY <1>0, <2>0, <2>6, <4>2
    <3>3. QED
      BY <3>1, <3>2
  <2>7. QED
    BY <1>1, <2>5, <2>6 DEF DropInv
<1>5. ASSUME NEW o, NEW f, NEW r, NEW boxes, Starts(c, o, f, r, boxes)
      PROVE  DropInv'
  <2>1. /\ op'[c] = o /\ todo'[c] = boxes /\ pc'[c] \in {"visit", "last"} /\ UNCHANGED death
    BY <1>5, Starting
  <2>2. o = "collapse_all" => boxes = All
    BY <1>5 DEF Starts
  <2>3. \A w \in Pieces : ~Behind(All, "visit", w)
    BY BehindFours
  <2>4. Collapses(c)'
    BY <2>1, <2>2, <2>3 DEF Collapses
  <2>5. QED
    BY <1>1, <2>1, <2>4 DEF DropInv, death
<1>6. QED
  BY <1>2, <1>3, <1>4, <1>5 DEF Step

\* What a call's turn at a box does to the indexes.
LEMMA Indexing ==
    ASSUME TypeOK, ShapeInv, CallInv, NEW c \in Calls, Passes(c)
    PROVE  /\ \A w \in Pieces : w # Box(c) =>
                index'[w] = index[w] /\ active'[w] = active[w] /\ other'[w] = other[w]
           /\ Add(c) => op[c] = "save" /\ DOMAIN index'[Box(c)] = DOMAIN index[Box(c)] \cup {c}
           /\ Get(c) => op[c] = "retrieve" /\ index' = index
           /\ Remove(c) => op[c] = "forget" /\ DOMAIN index'[Box(c)] = DOMAIN index[Box(c)] \ {file[c]}
           /\ DOMAIN index' = Pieces
<1>1. DOMAIN index = Pieces /\ DOMAIN active = Pieces /\ DOMAIN other = Pieces /\ Box(c) \in Pieces
  BY Passing DEF ShapeInv, TypeOK
<1>2. DOMAIN index' = Pieces /\ \A w \in Pieces : w # Box(c) =>
          index'[w] = index[w] /\ active'[w] = active[w] /\ other'[w] = other[w]
  BY <1>1 DEF Passes, Add, Get, Remove, packed
<1>3. ASSUME Add(c) PROVE op[c] = "save" /\ DOMAIN index'[Box(c)] = DOMAIN index[Box(c)] \cup {c}
  <2>1. PICK e : index' = [index EXCEPT ![Box(c)] = Put(@, c, e)]
    BY <1>3 DEF Add
  <2>2. index'[Box(c)] = Put(index[Box(c)], c, e)
    BY <1>1, <2>1
  <2>3. DOMAIN Put(index[Box(c)], c, e) = DOMAIN index[Box(c)] \cup {c}
    BY Putting
  <2>4. QED
    BY <1>3, <2>2, <2>3 DEF Add
<1>4. ASSUME Get(c) PROVE op[c] = "retrieve" /\ index' = index
  BY <1>4 DEF Get, packed
<1>5. ASSUME Remove(c) PROVE op[c] = "forget" /\ DOMAIN index'[Box(c)] = DOMAIN index[Box(c)] \ {file[c]}
  BY <1>1, <1>5 DEF Remove
<1>6. QED
  BY <1>2, <1>3, <1>4, <1>5

\* A collapse() takes files out of the index of a box and puts none in.
LEMMA Unindexing ==
    ASSUME TypeOK, ShapeInv, CallInv, DropInv, NEW c \in Calls, Drops(c), NEW w \in Pieces
    PROVE  DOMAIN index'[w] \subseteq DOMAIN index[w]
<1>1. index'[w] \in {index[w], Nothing}
  BY Dropping
<1>2. DOMAIN Nothing = {}
  BY DEF Nothing
<1>3. QED
  BY <1>1, <1>2

LEMMA FreshStep ==
    ASSUME TypeOK, ShapeInv, CallInv, DropInv, FreshInv, NEW c \in Calls, Step(c)
    PROVE  FreshInv'
<1>0. SUFFICES ASSUME NEW w \in Pieces, NEW f \in DOMAIN index'[w]
               PROVE  op'[f] = "save" /\ Through(f, w)'
  BY DEF FreshInv
<1>1. \A g \in DOMAIN index[w] : g \in Calls /\ op[g] = "save" /\ Through(g, w)
  BY DEF TypeOK, FreshInv
<1>2. CASE Quiet(c)
  BY <1>0, <1>1, <1>2, Quietly DEF Goes
<1>3. CASE Passes(c)
  <2>1. \A d \in Calls : Through(d, w)' <=> Through(d, w) \/ (d = c /\ w = Box(c))
    BY <1>3, Passing
  <2>2. op' = op
    BY <1>3, Passing DEF Goes
  <2>3. f \in DOMAIN index[w] \/ (f = c /\ w = Box(c) /\ op[c] = "save")
    BY <1>0, <1>3, Indexing DEF Passes
  <2>4. QED
    BY <1>1, <2>1, <2>2, <2>3
<1>4. ASSUME NEW o, NEW g, NEW r, NEW boxes, Starts(c, o, g, r, boxes)
      PROVE  op'[f] = "save" /\ Through(f, w)'
  <2>1. f \in DOMAIN index[w] /\ f # c
    BY <1>0, <1>1, <1>4, Starting
  <2>2. QED
    BY <1>1, <1>4, <2>1, Starting DEF Only
<1>5. CASE Drops(c)
  <2>1. f \in DOMAIN index[w]
    BY <1>0, <1>5, Unindexing
  <2>2. op[f] = "save" /\ op[c] = "collapse_all" /\ op' = op
    BY <1>1, <1>5, <2>1, Dropping DEF Goes
  <2>3. QED
    BY <1>1, <1>5, <2>1, <2>2, Dropping
<1>6. QED
  BY <1>2, <1>3, <1>4, <1>5 DEF Step

LEMMA GoneStep ==
    ASSUME TypeOK, ShapeInv, CallInv, DropInv, GoneInv, NEW c \in Calls, Step(c)
    PROVE  GoneInv'
<1>0. SUFFICES ASSUME NEW d \in Calls, op'[d] = "forget", result'[d].found,
                      NEW w \in Pieces, Through(d, w)'
               PROVE  file'[d] \notin DOMAIN index'[w]
  BY DEF GoneInv
<1>1. CASE Quiet(c)
  BY <1>0, <1>1, Quietly DEF GoneInv, Goes
<1>2. CASE Passes(c)
  <2>1. op' = op /\ file' = file /\ result' = result
        /\ (Through(d, w) \/ (d = c /\ w = Box(c)))
    BY <1>0, <1>2, Passing DEF Goes
  <2>2. Through(d, w) => file[d] \notin DOMAIN index[w]
    BY <1>0, <2>1 DEF GoneInv
  <2>3. file[d] # c
    BY <1>0, <1>2, <2>1, Passing DEF CallInv, Names
  <2>4. DOMAIN index'[w] \subseteq DOMAIN index[w] \cup {c}
    BY <1>2, Indexing DEF Passes
  <2>5. CASE Through(d, w)
    BY <2>1, <2>2, <2>3, <2>4, <2>5
  <2>6. CASE d = c /\ w = Box(c)
    BY <1>0, <1>2, <2>1, <2>6, Indexing DEF Passes
  <2>7. QED
    BY <2>1, <2>5, <2>6
<1>3. ASSUME NEW o, NEW g, NEW r, NEW boxes, Starts(c, o, g, r, boxes)
      PROVE  file'[d] \notin DOMAIN index'[w]
  <2>1. CASE d = c
    <3>1. o = "forget" /\ r.found
      BY <1>0, <1>3, <2>1, Starting
    <3>2. boxes = All
      BY <1>3, <3>1 DEF Starts
    <3>3. QED
      BY <1>0, <1>3, <2>1, <3>2, Starting
  <2>2. CASE d # c
    BY <1>0, <1>3, <2>2, Starting DEF GoneInv, Only
  <2>3. QED
    BY <2>1, <2>2
<1>4. CASE Drops(c)
  <2>1. op[c] = "collapse_all" /\ op' = op /\ file' = file /\ result' = result
    BY <1>4, Dropping DEF Goes
  <2>2. Through(d, w) /\ d # c
    BY <1>0, <1>4, <2>1, Dropping
  <2>3. file[d] \notin DOMAIN index[w]
    BY <1>0, <2>1, <2>2 DEF GoneInv
  <2>4. QED
    BY <1>4, <2>1, <2>3, Unindexing
<1>5. QED
  BY <1>1, <1>2, <1>3, <1>4 DEF Step

LEMMA MetaStep ==
    ASSUME TypeOK, ShapeInv, CallInv, DropInv, MetaInv, NEW c \in Calls, Step(c)
    PROVE  MetaInv' /\ meta' \in [DOMAIN meta' -> Pieces] /\ DOMAIN meta' \subseteq Calls
<1>0. \A g \in DOMAIN meta : Saved(g) /\ meta[g] = result[g].reconstruct_from /\ meta[g] \in Pieces
  BY DEF MetaInv, TypeOK, ShapeInv, Saved
<1>1. \A g \in DOMAIN meta : Saved(g)' /\ meta[g] = result'[g].reconstruct_from /\ meta[g] \in Pieces
  <2>1. \A g \in Calls : Saved(g) => Saved(g)' /\ result'[g] = result[g]
    BY StaysSaved
  <2>2. QED
    BY <1>0, <2>1 DEF Saved
<1>2. CASE \A g \in DOMAIN meta' : g \in DOMAIN meta /\ meta'[g] = meta[g]
  <2>1. MetaInv'
    BY <1>1, <1>2 DEF MetaInv, Saved
  <2>2. meta' = [g \in DOMAIN meta' |-> meta'[g]]
    <3>1. CASE Last(c)
      BY <1>1, <3>1, <1>2 DEF Last, Put, Restrict, Nothing, ShapeInv
    <3>2. CASE ~Last(c)
      <4>1. meta' = meta
        BY <3>2, Passing, Dropping, Starting
           DEF Step, Quiet, Pause, IndexRaises, CompressRaises, Clear, MetaRaises, Rest
      <4>2. QED
        BY <4>1 DEF ShapeInv
    <3>3. QED
      BY <3>1, <3>2
  <2>3. QED
    BY <1>1, <1>2, <2>1, <2>2 DEF Saved
<1>3. CASE Last(c) /\ op[c] = "save"
  <2>1. meta' = Put(meta, c, result[c].reconstruct_from)
    BY <1>3 DEF Last
  <2>2. op' = op /\ result' = result /\ pc'[c] = "done"
    BY <1>3, Quietly DEF Quiet, Last, calls, Goes, Goto, TypeOK
  <2>3. result[c] \in Splits
    BY <1>3 DEF CallInv, Names
  <2>4. result[c].reconstruct_from \in Pieces
    <3>1. "content" \in Pieces
      BY DEF Pieces
    <3>2. QED
      BY <2>3, <3>1, Sizes
  <2>5. DOMAIN meta' = DOMAIN meta \cup {c} /\ meta'[c] = result[c].reconstruct_from
        /\ \A g \in DOMAIN meta : g # c => meta'[g] = meta[g]
    <3>1. /\ DOMAIN Put(meta, c, result[c].reconstruct_from) = DOMAIN meta \cup {c}
          /\ Put(meta, c, result[c].reconstruct_from)[c] = result[c].reconstruct_from
          /\ \A g \in DOMAIN meta : g # c => Put(meta, c, result[c].reconstruct_from)[g] = meta[g]
      BY DEF Put
    <3>2. QED
      BY <2>1, <3>1
  <2>6. meta' = [g \in DOMAIN meta' |-> meta'[g]]
    BY <2>1 DEF Put
  <2>7. \A g \in DOMAIN meta' : /\ Saved(g)' /\ meta'[g] = result'[g].reconstruct_from /\ meta'[g] \in Pieces
    BY <1>1, <1>3, <2>2, <2>4, <2>5 DEF Saved
  <2>8. QED
    BY <2>6, <2>7 DEF MetaInv, Saved
<1>4. CASE Last(c) /\ op[c] # "save"
  BY <1>2, <1>4 DEF Last, Restrict, Nothing
<1>5. CASE ~Last(c)
  <2>1. meta' = meta
    BY <1>5, Passing, Dropping, Starting
       DEF Step, Quiet, Pause, IndexRaises, CompressRaises, Clear, MetaRaises, Rest
  <2>2. QED
    BY <1>2, <2>1
<1>6. QED
  BY <1>3, <1>4, <1>5

\* A get() or remove() that does not find its file in a box lost a race.
LEMMA Losing ==
    ASSUME TypeOK, ShapeInv, CallInv, DropInv, HeldInv, NEW c \in Calls, IndexRaises(c)
    PROVE  op[c] # "save" /\ LostRace(c)
<1>1. /\ pc[c] = "locked" /\ op[c] # "save" /\ file[c] \notin DOMAIN index[Box(c)]
      /\ pc \in [Calls -> Places] /\ op \in [Calls -> Ops] /\ (op[c] = "none" <=> pc[c] = "idle") /\ Visits(c)
      /\ (op[c] # "none" => todo[c] \in Lists)
  BY Calling DEF IndexRaises, CallInv
<1>2. op[c] \in {"retrieve", "forget"} /\ todo[c] # <<>> /\ todo[c] \in Lists
  BY <1>1 DEF Visits, Ops
<1>3. Saved(file[c]) /\ file[c] \in Calls
  BY <1>2 DEF CallInv, Names, Saved
<1>4. Box(c) \in Pieces /\ ~Through(c, Box(c))
  <2>1. "content" \in Pieces
    BY DEF Pieces
  <2>2. QED
    BY <1>1, <1>2, <2>1, Behinds DEF Box, Through
<1>5. CASE Box(c) \in dropped
  BY <1>1, <1>5 DEF LostRace
<1>6. CASE Box(c) \notin dropped
  <2>1. Box(c) \in Standing
    BY <1>4, <1>6 DEF Standing
  <2>2. PICK e \in Calls : Forgetting(e) /\ file[e] = file[c] /\ Through(e, Box(c))
    BY <1>1, <1>3, <2>1 DEF HeldInv, Saved
  <2>3. e # c /\ op[e] = "forget"
    BY <1>4, <2>2 DEF Forgetting
  <2>4. QED
    BY <1>1, <2>2, <2>3 DEF LostRace
<1>7. QED
  BY <1>5, <1>6

\* A race that is lost stays so.
LEMMA StaysLost ==
    ASSUME TypeOK, ShapeInv, CallInv, DropInv, NEW c \in Calls, Step(c),
           NEW d \in Calls, LostRace(d), d # c \/ file'[c] = file[c]
    PROVE  LostRace(d)'
<1>1. Only(c) /\ dropped \subseteq dropped'
  BY Growing
<1>2. file'[d] = file[d]
  BY <1>1 DEF Only
<1>3. CASE dropped # {}
  BY <1>1, <1>3 DEF LostRace
<1>4. ASSUME NEW e \in Calls, e # d, op[e] = "forget", file[e] = file[d] PROVE LostRace(d)'
  <2>1. CASE e # c
    BY <1>1, <1>2, <1>4, <2>1 DEF Only, LostRace
  <2>2. CASE e = c
    <3>1. op[c] = "forget"
      BY <1>4, <2>2
    <3>2. op'[c] = op[c] /\ file'[c] = file[c]
      BY <3>1, Quietly, Passing, Dropping, Starting DEF Step, Goes
    <3>3. QED
      BY <1>2, <1>4, <2>2, <3>2 DEF LostRace
  <2>3. QED
    BY <2>1, <2>2
<1>5. QED
  BY <1>3, <1>4 DEF LostRace

LEMMA PausedStep ==
    ASSUME TypeOK, ShapeInv, CallInv, DropInv, HeldInv, PausedByCaller, NEW c \in Calls, Step(c)
    PROVE  PausedByCaller'
<1> DEFINE At(d, w) ==
              /\ todo[d] # <<>> /\ Box(d) = w
              /\ pc[d] \in {"locked", "clear"} \/ (pc[d] = "raised" /\ op[d] # "save" /\ LostRace(d))
<1>0. SUFFICES ASSUME NEW w \in Pieces, paused'[w]
               PROVE  \E d \in Calls : At(d, w)'
  BY DEF PausedByCaller
<1>1. DOMAIN paused = Pieces /\ (paused[w] => \E d \in Calls : At(d, w))
  BY DEF PausedByCaller, TypeOK
<1>2. Only(c) /\ pc \in [Calls -> Places] /\ DOMAIN todo = Calls
  BY Growing, Calling
<1>3. ASSUME NEW d \in Calls, At(d, w), d # c PROVE At(d, w)'
  <2>1. LostRace(d) => LostRace(d)'
    BY <1>3, StaysLost
  <2>2. todo'[d] = todo[d] /\ pc'[d] = pc[d] /\ op'[d] = op[d]
    BY <1>2, <1>3 DEF Only
  <2>3. Box(d)' = Box(d)
    BY <2>2 DEF Box
  <2>4. QED
    BY <1>3, <2>1, <2>2, <2>3
<1>4. CASE Pause(c)
  <2>1. paused' = [paused EXCEPT ![Box(c)] = TRUE] /\ todo' = todo /\ pc'[c] = "locked" /\ todo[c] # <<>>
    BY <1>2, <1>4 DEF Pause, Goto
  <2>2. CASE w = Box(c)
    <3>1. At(c, w)'
      BY <2>1, <2>2 DEF Box
    <3>2. QED
      BY <3>1
  <2>3. CASE w # Box(c)
    <3>1. paused[w]
      BY <1>0, <1>1, <2>1, <2>3
    <3>2. PICK d \in Calls : At(d, w)
      BY <1>1, <3>1
    <3>3. d # c
      BY <2>3, <3>2
    <3>4. QED
      BY <1>3, <3>2, <3>3
  <2>4. QED
    BY <2>2, <2>3
<1>5. CASE Clear(c)
  <2>1. paused' = [paused EXCEPT ![Box(c)] = FALSE]
    BY <1>5 DEF Clear
  <2>2. w # Box(c) /\ paused[w]
    BY <1>0, <1>1, <2>1
  <2>3. PICK d \in Calls : At(d, w)
    BY <1>1, <2>2
  <2>4. d # c
    BY <2>2, <2>3
  <2>5. QED
    BY <1>3, <2>3, <2>4
<1>6. CASE ~Pause(c) /\ ~Clear(c)
  <2>1. paused' = paused
    BY <1>6, Passing, Dropping, Starting DEF Step, Quiet, IndexRaises, CompressRaises, Last, MetaRaises
  <2>2. PICK d \in Calls : At(d, w)
    BY <1>0, <1>1, <2>1
  <2>3. CASE d # c
    BY <1>3, <2>2, <2>3
  <2>4. CASE d = c
    <3>1. pc[c] \in {"locked", "clear", "raised"} /\ todo[c] # <<>> /\ Box(c) = w
      BY <2>2, <2>4
    <3>2. Visits(c) /\ (pc[c] \in {"first", "second", "third"} => op[c] = "collapse_all")
      BY DEF CallInv, DropInv, Collapses
    <3>3. ~Drops(c)
      BY <3>1 DEF Drops, StopBox, DropA, DropB, DropIndex
    <3>4. \A o, f, r, boxes : ~Starts(c, o, f, r, boxes)
      BY <3>1 DEF Starts
    <3>5. Passes(c) \/ IndexRaises(c)
      BY <1>6, <3>1, <3>3, <3>4 DEF Step, Quiet, CompressRaises, Last, MetaRaises
    <3>6. CASE Passes(c)
      <4>1. todo' = todo /\ pc'[c] = "clear"
        BY <3>6, Passing DEF Goes
      <4>2. At(c, w)'
        BY <3>1, <4>1 DEF Box
      <4>3. QED
        BY <4>2
    <3>7. CASE IndexRaises(c)
      <4>1. todo' = todo /\ pc'[c] = "raised" /\ op' = op /\ file' = file
        BY <1>2, <3>7 DEF IndexRaises, Goto, Rest, calls
      <4>2. op[c] # "save" /\ LostRace(c)
        BY <3>7, Losing
      <4>3. LostRace(c)'
        BY <4>1, <4>2, StaysLost
      <4>4. At(c, w)'
        BY <3>1, <4>1, <4>2, <4>3 DEF Box
      <4>5. QED
        BY <4>4
    <3>8. QED
      BY <3>5, <3>6, <3>7
  <2>5. QED
    BY <2>3, <2>4
<1>7. QED
  BY <1>4, <1>5, <1>6

-----------------------------------------------------------------------------
(* The buffers.                                                            *)

\* A box with buffers a and b and index x has them become p, q and y when the file c with
\* the units data is added.
Appended(w, c, r, data, a, b, x, p, q, y) ==
    /\ a \in Seq(UnitSet) /\ b \in Seq(UnitSet) /\ Len(a) = Len(b) /\ x \in [DOMAIN x -> Entries]
    /\ DOMAIN x \subseteq Calls /\ Tiled(a, x, r, w) /\ Mirrored(a, b)
    /\ c \notin DOMAIN x /\ r[c] \in Splits /\ data = Units(c, r[c][w].of)
    /\ p = a \o data /\ q = b \o Zeros(Len(data))
    /\ DOMAIN y = DOMAIN x \cup {c} /\ \A g \in DOMAIN x : y[g] = x[g]
    /\ y[c].offset = Len(a) /\ y[c].length = Len(data)

\* Two buffers put together.
LEMMA Joining ==
    ASSUME NEW s \in Seq(UnitSet), NEW t \in Seq(UnitSet)
    PROVE  /\ s \o t \in Seq(UnitSet) /\ Len(s \o t) = Len(s) + Len(t)
           /\ \A i \in 1 .. Len(s) + Len(t) : (s \o t)[i] = IF i <= Len(s) THEN s[i] ELSE t[i - Len(s)]
BY ConcatProperties

\* A new file goes behind all others.
LEMMA AddInOrder ==
    ASSUME NEW w \in Pieces, NEW c \in Calls, NEW r, NEW data, NEW a, NEW b, NEW x, NEW p, NEW q, NEW y,
           Appended(w, c, r, data, a, b, x, p, q, y)
    PROVE  /\ p \in Seq(UnitSet) /\ q \in Seq(UnitSet) /\ Len(p) = Len(q)
           /\ Tiled(p, y, r, w) /\ Mirrored(p, q)
<1>0. /\ a \in Seq(UnitSet) /\ b \in Seq(UnitSet) /\ Len(a) = Len(b) /\ x \in [DOMAIN x -> Entries]
      /\ DOMAIN x \subseteq Calls /\ Tiled(a, x, r, w) /\ Mirrored(a, b)
      /\ c \notin DOMAIN x /\ r[c] \in Splits /\ data = Units(c, r[c][w].of)
      /\ p = a \o data /\ q = b \o Zeros(Len(data))
      /\ DOMAIN y = DOMAIN x \cup {c} /\ \A g \in DOMAIN x : y[g] = x[g]
      /\ y[c].offset = Len(a) /\ y[c].length = Len(data)
  BY DEF Appended
<1> USE <1>0
<1> DEFINE n == Size(r[c][w].of)
           z == Zeros(Len(data))
           A == a \o data
           B == b \o z
<1>1. /\ n \in Nat /\ data \in Seq(UnitSet) /\ Len(data) = n
      /\ \A i \in 1 .. n : data[i] = <<c, r[c][w].of>>
  <2>1. r[c][w].of \in {"empty", "raw", "text", "tag", "meta"}
    BY Sizes
  <2>2. QED
    BY <2>1, UnitsOf
<1>2. z \in Seq(UnitSet) /\ Len(z) = n /\ \A i \in 1 .. n : z[i] = <<NoCall, "empty">>
  BY <1>1, ZerosOf
<1>3. Len(a) \in Nat /\ Len(b) \in Nat
  OBVIOUS
<1> HIDE DEF n, z
<1>5. /\ A \in Seq(UnitSet) /\ Len(A) = Len(a) + n
      /\ \A i \in 1 .. Len(a) + n : A[i] = IF i <= Len(a) THEN a[i] ELSE data[i - Len(a)]
  BY <1>1, Joining
<1>6. /\ B \in Seq(UnitSet) /\ Len(B) = Len(b) + n
      /\ \A i \in 1 .. Len(b) + n : B[i] = IF i <= Len(b) THEN b[i] ELSE z[i - Len(b)]
  <2>1. /\ B \in Seq(UnitSet) /\ Len(B) = Len(b) + Len(z)
        /\ \A i \in 1 .. Len(b) + Len(z) : B[i] = IF i <= Len(b) THEN b[i] ELSE z[i - Len(b)]
    <3>1. b \in Seq(UnitSet) /\ z \in Seq(UnitSet)
      BY <1>0, <1>2
    <3>2. QED
      BY ONLY <3>1, Joining DEF B
  <2>2. QED
    BY <1>2, <2>1
<1> HIDE DEF A, B
<1>7. /\ DOMAIN y = DOMAIN x \cup {c} /\ y[c].offset = Len(a) /\ y[c].length = n /\ End(y[c]) = Len(a) + n
      /\ \A g \in DOMAIN x : y[g] = x[g]
  BY <1>1, <1>3 DEF End
<1>9. \A g \in DOMAIN x : x[g].offset \in Nat /\ x[g].length \in Nat /\ End(x[g]) \in Nat
  BY DEF Entries, End
<1>10. ASSUME NEW g \in DOMAIN y
       PROVE  /\ y[g].length = Size(r[g][w].of) /\ End(y[g]) <= Len(A)
              /\ \A i \in y[g].offset + 1 .. End(y[g]) : A[i] = <<g, r[g][w].of>>
  <2>1. CASE g = c
    <3>1. \A i \in Len(a) + 1 .. Len(a) + n : i \in 1 .. Len(a) + n /\ ~(i <= Len(a)) /\ i - Len(a) \in 1 .. n
      BY <1>1, <1>3
    <3>2. \A i \in Len(a) + 1 .. Len(a) + n : A[i] = <<c, r[c][w].of>>
      BY <1>1, <1>5, <3>1
    <3>3. n = Size(r[c][w].of) /\ Len(a) + n <= Len(A)
      BY <1>1, <1>3, <1>5 DEF n
    <3>4. QED
      BY <1>7, <2>1, <3>2, <3>3
  <2>2. CASE g # c
    <3>1. g \in DOMAIN x /\ y[g] = x[g]
      BY <1>7, <2>2
    <3>2. /\ x[g].length = Size(r[g][w].of) /\ End(x[g]) <= Len(a)
          /\ \A i \in x[g].offset + 1 .. End(x[g]) : a[i] = <<g, r[g][w].of>>
      BY <3>1 DEF Tiled
    <3>3. x[g].offset \in Nat /\ End(x[g]) \in Nat
      BY <1>9, <3>1
    <3>4. \A i \in x[g].offset + 1 .. End(x[g]) : i \in 1 .. Len(a) + n /\ i <= Len(a)
      BY <1>1, <1>3, <3>2, <3>3
    <3>5. \A i \in x[g].offset + 1 .. End(x[g]) : A[i] = a[i]
      BY <1>5, <3>4
    <3>6. End(x[g]) <= Len(A)
      BY <1>1, <1>3, <1>5, <3>2, <3>3
    <3>7. QED
      BY <3>1, <3>2, <3>5, <3>6
  <2>3. QED
    BY <2>1, <2>2
<1>11. ASSUME NEW i \in 1 .. Len(A) PROVE \E g \in DOMAIN y : i \in y[g].offset + 1 .. End(y[g])
  <2>1. CASE i <= Len(a)
    <3>1. i \in 1 .. Len(a)
      BY <1>3, <2>1
    <3>2. PICK g \in DOMAIN x : i \in x[g].offset + 1 .. End(x[g])
      BY <3>1 DEF Tiled
    <3>3. QED
      BY <1>7, <3>2
  <2>2. CASE ~(i <= Len(a))
    <3>1. i \in Len(a) + 1 .. Len(a) + n
      BY <1>1, <1>3, <1>5, <2>2
    <3>2. QED
      BY <1>7, <3>1
  <2>3. QED
    BY <2>1, <2>2
<1>12. ASSUME NEW f \in DOMAIN y, NEW g \in DOMAIN y, f # g
       PROVE  End(y[f]) <= y[g].offset \/ End(y[g]) <= y[f].offset
  <2>1. \A h \in DOMAIN x : End(x[h]) <= Len(a) /\ y[h] = x[h]
    BY <1>7 DEF Tiled
  <2>2. CASE f = c
    BY <1>7, <1>12, <2>1, <2>2
  <2>3. CASE g = c
    BY <1>7, <1>12, <2>1, <2>3
  <2>4. CASE f # c /\ g # c
    <3>1. f \in DOMAIN x /\ g \in DOMAIN x
      BY <1>7, <2>4
    <3>2. QED
      BY <1>12, <2>1, <3>1 DEF Tiled
  <2>5. QED
    BY <2>2, <2>3, <2>4
<1>13. Tiled(A, y, r, w)
  BY <1>10, <1>11, <1>12 DEF Tiled
<1>14. Mirrored(A, B)
  <2>1. SUFFICES ASSUME NEW i \in 1 .. Len(B) PROVE B[i] = A[i] \/ B[i] = <<NoCall, "empty">>
    BY DEF Mirrored
  <2>2. i \in 1 .. Len(a) + n
    BY <1>6
  <2>3. CASE i <= Len(a)
    <3>1. i \in 1 .. Len(b)
      BY <1>3, <2>2, <2>3
    <3>2. A[i] = a[i] /\ B[i] = b[i]
      BY <1>5, <1>6, <2>2, <2>3
    <3>3. QED
      BY <3>1, <3>2 DEF Mirrored
  <2>4. CASE ~(i <= Len(a))
    <3>1. i - Len(b) \in 1 .. n
      BY <1>1, <1>3, <2>2, <2>4
    <3>2. B[i] = z[i - Len(b)]
      BY <1>6, <2>2, <2>4
    <3>3. QED
      BY <1>2, <3>1, <3>2
  <2>5. QED
    BY <2>3, <2>4
<1>15. Len(A) = Len(B)
  BY <1>5, <1>6
<1>16. QED
  BY <1>5, <1>6, <1>13, <1>14, <1>15 DEF A, B, z

\* Positions and bounds that l units less precede.
LEMMA MovedUp ==
    ASSUME NEW i \in Int, NEW p \in Nat, NEW e \in Nat, NEW o \in Nat, NEW l \in Nat, NEW m \in Nat,
           p >= o + l, i \in p - l + 1 .. e - l, e <= m
    PROVE  i \in 1 .. m - l /\ ~(i <= o) /\ i + l \in p + 1 .. e
OBVIOUS

LEMMA BothMovedUp ==
    ASSUME NEW p \in Nat, NEW q \in Nat, NEW l \in Nat, p <= q
    PROVE  p - l <= q - l
OBVIOUS

\* A box with buffers a and b and index x has them become p, q and y when the file f is
\* cut out.
CutOut(w, f, r, a, b, x, p, q, y) ==
    /\ a \in Seq(UnitSet) /\ b \in Seq(UnitSet) /\ Len(a) = Len(b) /\ x \in [DOMAIN x -> Entries]
    /\ Tiled(a, x, r, w) /\ Mirrored(a, b) /\ f \in DOMAIN x
    /\ p = Cut(a, x[f].offset, x[f].length) /\ q = Cut(b, x[f].offset, x[f].length)
    /\ DOMAIN y = DOMAIN x \ {f} /\ \A g \in DOMAIN y : y[g] = Shifted(x[g], x[f])

\* What is behind the piece that is cut out moves up with its entries.
LEMMA CutInOrder ==
    ASSUME NEW w \in Pieces, NEW f, NEW r, NEW a, NEW b, NEW x, NEW p, NEW q, NEW y,
           CutOut(w, f, r, a, b, x, p, q, y)
    PROVE  /\ p \in Seq(UnitSet) /\ q \in Seq(UnitSet) /\ Len(p) = Len(q)
           /\ \A g \in DOMAIN y : y[g] \in Entries
           /\ Tiled(p, y, r, w) /\ Mirrored(p, q)
<1>0. /\ a \in Seq(UnitSet) /\ b \in Seq(UnitSet) /\ Len(a) = Len(b) /\ x \in [DOMAIN x -> Entries]
      /\ Tiled(a, x, r, w) /\ Mirrored(a, b) /\ f \in DOMAIN x
      /\ p = Cut(a, x[f].offset, x[f].length) /\ q = Cut(b, x[f].offset, x[f].length)
      /\ DOMAIN y = DOMAIN x \ {f} /\ \A g \in DOMAIN y : y[g] = Shifted(x[g], x[f])
  BY DEF CutOut
<1> USE <1>0
<1> DEFINE o == x[f].offset
           l == x[f].length
           n == Len(a) - l
           A == Cut(a, o, l)
           B == Cut(b, o, l)
<1>1. o \in Nat /\ l \in Nat /\ End(x[f]) = o + l /\ o + l <= Len(a) /\ Len(a) \in Nat /\ n \in Nat
  BY DEF Entries, End, Tiled
<1>2. \A g \in DOMAIN x : /\ x[g] \in Entries /\ x[g].offset \in Nat /\ x[g].length \in Nat
                          /\ End(x[g]) = x[g].offset + x[g].length /\ End(x[g]) <= Len(a)
  BY DEF Entries, End, Tiled
<1>3. \A g \in DOMAIN x : g # f => End(x[g]) <= o \/ o + l <= x[g].offset
  BY <1>1 DEF Tiled
<1> HIDE DEF o, l
<1>4. A \in Seq(UnitSet) /\ Len(A) = n /\ \A i \in 1 .. n : A[i] = IF i <= o THEN a[i] ELSE a[i + l]
  BY <1>1, Cutting
<1>5. B \in Seq(UnitSet) /\ Len(B) = n /\ \A i \in 1 .. n : B[i] = IF i <= o THEN b[i] ELSE b[i + l]
  BY <1>1, Cutting
<1> HIDE DEF A, B, o, l
<1> DEFINE Moves(g) == /\ x[g].offset >= o + l /\ y[g].offset = x[g].offset - l /\ y[g].length = x[g].length
                       /\ End(y[g]) = End(x[g]) - l
           Remains(g) == y[g] = x[g] /\ (End(x[g]) <= o \/ l = 0)
<1>6. ASSUME NEW g \in DOMAIN y
      PROVE  g \in DOMAIN x /\ g # f /\ y[g] \in Entries /\ (Moves(g) \/ Remains(g))
  <2>1. g \in DOMAIN x /\ g # f /\ y[g] = Shifted(x[g], x[f])
    BY <1>6
  <2>2. CASE x[g].offset > o
    <3>0. /\ End(x[g]) <= o \/ o + l <= x[g].offset
          /\ x[g].offset \in Nat /\ x[g].length \in Nat /\ End(x[g]) = x[g].offset + x[g].length
      BY <1>2, <1>3, <2>1
    <3>1. x[g].offset >= o + l
      BY <1>1, <2>2, <3>0
    <3>2. x[g] = [offset |-> x[g].offset, length |-> x[g].length]
      BY <1>2, <2>1 DEF Entries
    <3>3. y[g] = [x[g] EXCEPT !.offset = x[g].offset - l]
      BY <2>1, <2>2 DEF Shifted, o, l
    <3>4. y[g] = [offset |-> x[g].offset - l, length |-> x[g].length]
      BY <3>2, <3>3
    <3>5. x[g].offset - l \in Nat
      BY <1>1, <1>2, <2>1, <3>1
    <3>6. y[g] \in Entries
      BY <1>2, <2>1, <3>4, <3>5 DEF Entries
    <3>7. y[g].offset = x[g].offset - l /\ y[g].length = x[g].length
      BY <3>4
    <3>8. End(y[g]) = End(x[g]) - l
      BY <1>1, <1>2, <2>1, <3>7 DEF End
    <3>9. QED
      BY <2>1, <3>1, <3>6, <3>7, <3>8
  <2>3. CASE ~(x[g].offset > o)
    <3>1. y[g] = x[g]
      BY <2>1, <2>3 DEF Shifted, o, l
    <3>2. End(x[g]) <= o \/ l = 0
      BY <1>1, <1>2, <1>3, <2>1, <2>3
    <3>3. QED
      BY <1>2, <2>1, <3>1, <3>2
  <2>4. QED
    BY <2>2, <2>3
<1>7. (\A g \in DOMAIN y : y[g] \in Entries) /\ DOMAIN y = DOMAIN x \ {f}
  BY <1>6
<1> HIDE DEF Moves, Remains, n
<1>8. ASSUME NEW g \in DOMAIN y
      PROVE  /\ y[g].length = Size(r[g][w].of) /\ End(y[g]) <= Len(A)
             /\ \A i \in y[g].offset + 1 .. End(y[g]) : A[i] = <<g, r[g][w].of>>
  <2>1. g \in DOMAIN x /\ g # f /\ y[g] \in Entries /\ (Moves(g) \/ Remains(g))
    BY <1>6
  <2>2. /\ x[g].length = Size(r[g][w].of) /\ End(x[g]) <= Len(a)
        /\ \A i \in x[g].offset + 1 .. End(x[g]) : a[i] = <<g, r[g][w].of>>
    BY <2>1 DEF Tiled
  <2>3. x[g].offset \in Nat /\ x[g].length \in Nat /\ End(x[g]) = x[g].offset + x[g].length
    BY <1>2, <2>1
  <2>4. CASE Moves(g)
    <3>1. y[g].length = x[g].length /\ End(y[g]) <= Len(A)
      BY <1>1, <1>4, <2>2, <2>3, <2>4 DEF Moves, n
    <3>2. ASSUME NEW i \in y[g].offset + 1 .. End(y[g]) PROVE A[i] = <<g, r[g][w].of>>
      <4>0. /\ x[g].offset >= o + l /\ y[g].offset = x[g].offset - l /\ End(y[g]) = End(x[g]) - l
            /\ n = Len(a) - l /\ i \in y[g].offset + 1 .. End(y[g])
        BY <2>4, <3>2 DEF Moves, n
      <4>4. /\ i \in Int /\ i \in x[g].offset - l + 1 .. End(x[g]) - l
            /\ End(x[g]) \in Nat /\ n = Len(a) - l
        BY <1>1, <2>3, <4>0
      <4>1. i \in 1 .. n /\ ~(i <= o) /\ i + l \in x[g].offset + 1 .. End(x[g])
        <5>1. x[g].offset \in Nat /\ End(x[g]) \in Nat /\ o \in Nat /\ l \in Nat /\ Len(a) \in Nat
          BY <1>1, <2>3, <4>4
        <5>2. i \in Int /\ i \in x[g].offset - l + 1 .. End(x[g]) - l /\ x[g].offset >= o + l /\ End(x[g]) <= Len(a)
          BY <2>2, <4>0, <4>4
        <5>3. i \in 1 .. Len(a) - l /\ ~(i <= o) /\ i + l \in x[g].offset + 1 .. End(x[g])
          BY <5>1, <5>2, MovedUp
        <5>4. QED
          BY <4>4, <5>3
      <4>2. A[i] = a[i + l]
        BY <1>4, <4>1
      <4>3. QED
        BY <2>2, <4>1, <4>2
    <3>3. QED
      BY <2>2, <3>1, <3>2
  <2>5. CASE Remains(g)
    <3>1. y[g] = x[g] /\ (End(x[g]) <= o \/ l = 0)
      BY <2>5 DEF Remains
    <3>2. End(x[g]) <= n
      BY <1>1, <2>2, <2>3, <3>1 DEF n
    <3>3. ASSUME NEW i \in x[g].offset + 1 .. End(x[g]) PROVE A[i] = <<g, r[g][w].of>>
      <4>1. i \in 1 .. n /\ (i <= o \/ i + l = i)
        BY <1>1, <2>3, <3>1, <3>2, <3>3
      <4>2. A[i] = a[i]
        BY <1>4, <4>1
      <4>3. QED
        BY <2>2, <3>3, <4>2
    <3>4. QED
      BY <1>4, <2>2, <3>1, <3>2, <3>3
  <2>6. QED
    BY <2>1, <2>4, <2>5
<1>9. ASSUME NEW i \in 1 .. Len(A) PROVE \E g \in DOMAIN y : i \in y[g].offset + 1 .. End(y[g])
  <2>1. i \in 1 .. n /\ i \in Nat
    BY <1>1, <1>4
  <2>2. PICK j \in 1 .. Len(a) : (i <= o /\ j = i) \/ (~(i <= o) /\ j = i + l)
    <3>1. CASE i <= o
      BY <1>1, <2>1, <3>1 DEF n
    <3>2. CASE ~(i <= o)
      <4>1. i + l \in 1 .. Len(a)
        BY <1>1, <2>1, <3>2 DEF n
      <4>2. QED
        BY <3>2, <4>1
    <3>3. QED
      BY <3>1, <3>2
  <2>3. PICK g \in DOMAIN x : j \in x[g].offset + 1 .. End(x[g])
    BY DEF Tiled
  <2>4. x[g].offset \in Nat /\ End(x[g]) \in Nat
    BY <1>2, <2>3
  <2>5. g # f
    BY <1>1, <2>1, <2>2, <2>3 DEF o
  <2>6. g \in DOMAIN y /\ (Moves(g) \/ Remains(g))
    BY <1>6, <1>7, <2>5
  <2>7. CASE Moves(g)
    <3>1. j = i + l
      BY <1>1, <2>1, <2>2, <2>3, <2>4, <2>7 DEF Moves
    <3>2. i \in y[g].offset + 1 .. End(y[g])
      BY <1>1, <2>1, <2>3, <2>4, <2>7, <3>1 DEF Moves
    <3>3. QED
      BY <2>6, <3>2
  <2>8. CASE Remains(g)
    <3>1. y[g] = x[g] /\ (End(x[g]) <= o \/ l = 0)
      BY <2>8 DEF Remains
    <3>2. i = j
      BY <1>1, <2>1, <2>2, <2>3, <2>4, <3>1
    <3>3. QED
      BY <2>3, <2>6, <3>1, <3>2
  <2>9. QED
    BY <2>6, <2>7, <2>8
<1>10. ASSUME NEW g \in DOMAIN y, NEW h \in DOMAIN y, g # h
       PROVE  End(y[g]) <= y[h].offset \/ End(y[h]) <= y[g].offset
  <2>1. /\ g \in DOMAIN x /\ (Moves(g) \/ Remains(g))
        /\ h \in DOMAIN x /\ (Moves(h) \/ Remains(h))
    BY <1>6
  <2>2. End(x[g]) <= x[h].offset \/ End(x[h]) <= x[g].offset
    BY <1>10, <2>1 DEF Tiled
  <2>3. /\ x[g].offset \in Nat /\ x[g].length \in Nat /\ End(x[g]) = x[g].offset + x[g].length
        /\ x[h].offset \in Nat /\ x[h].length \in Nat /\ End(x[h]) = x[h].offset + x[h].length
    BY <1>2, <2>1
  <2>4. CASE Moves(g) /\ Moves(h)
    <3>1. /\ y[g].offset = x[g].offset - l /\ End(y[g]) = End(x[g]) - l
          /\ y[h].offset = x[h].offset - l /\ End(y[h]) = End(x[h]) - l
      BY <2>4 DEF Moves
    <3>2. End(x[g]) \in Nat /\ End(x[h]) \in Nat
      BY <2>3
    <3>3. QED
      BY <1>1, <2>2, <2>3, <3>1, <3>2, BothMovedUp
  <2>5. CASE Remains(g) /\ Remains(h)
    BY <2>2, <2>5 DEF Remains
  <2>6. CASE Moves(g) /\ Remains(h)
    BY <1>1, <2>2, <2>3, <2>6 DEF Moves, Remains
  <2>7. CASE Remains(g) /\ Moves(h)
    BY <1>1, <2>2, <2>3, <2>7 DEF Moves, Remains
  <2>8. QED
    BY <2>1, <2>4, <2>5, <2>6, <2>7
<1>11. Tiled(A, y, r, w)
  BY <1>8, <1>9, <1>10 DEF Tiled
<1>12. Mirrored(A, B)
  <2>1. SUFFICES ASSUME NEW i \in 1 .. Len(B) PROVE B[i] = A[i] \/ B[i] = <<NoCall, "empty">>
    BY DEF Mirrored
  <2>2. i \in 1 .. n /\ i \in Nat
    BY <1>1, <1>5
  <2>3. CASE i <= o
    <3>1. i \in 1 .. Len(b) /\ A[i] = a[i] /\ B[i] = b[i]
      BY <1>1, <1>4, <1>5, <2>2, <2>3 DEF n
    <3>2. QED
      BY <3>1 DEF Mirrored
  <2>4. CASE ~(i <= o)
    <3>1. i + l \in 1 .. Len(b) /\ A[i] = a[i + l] /\ B[i] = b[i + l]
      BY <1>1, <1>4, <1>5, <2>2, <2>4 DEF n
    <3>2. QED
      BY <3>1 DEF Mirrored
  <2>5. QED
    BY <2>3, <2>4
<1>13. QED
  BY <1>4, <1>5, <1>7, <1>11, <1>12 DEF A, B, o, l

\* A box, its index and its two buffers.
BoxOK(w) ==
    /\ active[w] \in Seq(UnitSet) /\ other[w] \in Seq(UnitSet) /\ Len(active[w]) = Len(other[w])
    /\ index[w] \in [DOMAIN index[w] -> Entries] /\ DOMAIN index[w] \subseteq Calls
    /\ Tiled(active[w], index[w], result, w) /\ Mirrored(active[w], other[w])

\* What can be said of a box that is being dropped, too.
Indexed(w) == index[w] \in [DOMAIN index[w] -> Remnants] /\ DOMAIN index[w] \subseteq Calls

Boxed ==
    /\ active \in [Pieces -> Seq(UnitSet)] /\ other \in [Pieces -> Seq(UnitSet)] /\ DOMAIN index = Pieces
    /\ \A w \in Pieces : Indexed(w)
    /\ \A w \in Standing : BoxOK(w)

LEMMA Boxes ==
    ASSUME TypeOK, ShapeInv, TilesInv
    PROVE  Boxed
BY DEF TypeOK, ShapeInv, TilesInv, BoxOK, Boxed, Indexed, Standing

\* A box that is not touched stays in order, and so does one whose buffers agree with its
\* index.
LEMMA BoxStays ==
    ASSUME result' = result, NEW w \in Pieces,
           active'[w] \in Seq(UnitSet), other'[w] \in Seq(UnitSet), Len(active'[w]) = Len(other'[w]),
           index'[w] \in [DOMAIN index'[w] -> Entries], DOMAIN index'[w] \subseteq Calls,
           Tiled(active'[w], index'[w], result', w), Mirrored(active'[w], other'[w])
    PROVE  BoxOK(w)'
BY DEF BoxOK

\* The empty box.
LEMMA EmptyBox ==
    ASSUME NEW w \in Pieces, NEW r
    PROVE  /\ <<>> \in Seq(UnitSet) /\ Nothing \in [DOMAIN Nothing -> Entries] /\ DOMAIN Nothing = {}
           /\ Tiled(<<>>, Nothing, r, w) /\ Mirrored(<<>>, <<>>)
<1>1. DOMAIN Nothing = {} /\ Nothing \in [DOMAIN Nothing -> Entries]
  BY DEF Nothing
<1>2. <<>> \in Seq(UnitSet) /\ Len(<<>>) = 0 /\ 1 .. 0 = {}
  OBVIOUS
<1>3. QED
  BY <1>1, <1>2 DEF Tiled, Mirrored

\* A call's turn at a box leaves buffers of units, and an index of offsets and lengths, also
\* when the box is being dropped.
LEMMA PassesTyped ==
    ASSUME TypeOK, ShapeInv, CallInv, Boxed, NEW c \in Calls, Passes(c)
    PROVE  /\ active' \in [Pieces -> Seq(UnitSet)] /\ other' \in [Pieces -> Seq(UnitSet)]
           /\ \A w \in Pieces : Indexed(w)'
<1>1. /\ active \in [Pieces -> Seq(UnitSet)] /\ other \in [Pieces -> Seq(UnitSet)] /\ DOMAIN index = Pieces
      /\ \A w \in Pieces : Indexed(w)
      /\ Box(c) \in Pieces /\ \A w \in Pieces : w # Box(c) => index'[w] = index[w]
  BY Passing, Indexing DEF Boxed
<1>2. PICK w \in Pieces : w = Box(c)
  BY <1>1
<1>3. PICK a, b, x : a = active[w] /\ b = other[w] /\ x = index[w]
  OBVIOUS
<1>4. a \in Seq(UnitSet) /\ b \in Seq(UnitSet) /\ x \in [DOMAIN x -> Remnants] /\ DOMAIN x \subseteq Calls
  BY <1>1, <1>3 DEF Indexed
<1>5. SUFFICES ASSUME NEW p, NEW q, NEW y,
                      active' = [active EXCEPT ![w] = p], other' = [other EXCEPT ![w] = q], index'[w] = y
               PROVE  p \in Seq(UnitSet) /\ q \in Seq(UnitSet) /\ y \in [DOMAIN y -> Remnants]
                      /\ DOMAIN y \subseteq Calls
  <2>1. \E p, q : active' = [active EXCEPT ![w] = p] /\ other' = [other EXCEPT ![w] = q]
    <3>1. CASE Add(c) \/ Remove(c)
      BY <1>2, <3>1 DEF Add, Remove
    <3>2. CASE Get(c)
      <4>1. active' = [active EXCEPT ![w] = active[w]] /\ other' = [other EXCEPT ![w] = other[w]]
        BY <1>1, <3>2 DEF Get, packed
      <4>2. QED
        BY <4>1
    <3>3. QED
      BY <3>1, <3>2 DEF Passes
  <2>2. PICK p, q, y :
             active' = [active EXCEPT ![w] = p] /\ other' = [other EXCEPT ![w] = q] /\ index'[w] = y
    BY <2>1
  <2>3. p \in Seq(UnitSet) /\ q \in Seq(UnitSet) /\ Indexed(w)'
    BY <1>5, <2>2 DEF Indexed
  <2>4. QED
    BY <1>1, <1>2, <2>2, <2>3 DEF Indexed
<1>6. p = active'[w] /\ q = other'[w] /\ y = index'[w]
  BY <1>1, <1>5
<1>7. CASE Add(c)
  <2>1. PICK data : data = Units(c, result[c][w].of)
    OBVIOUS
  <2>2. result[c] \in Splits
    BY <1>7 DEF Add, CallInv, Names
  <2>3. data \in Seq(UnitSet) /\ Len(data) \in Nat
    <3>1. result[c][w].of \in {"empty", "raw", "text", "tag", "meta"}
      BY <2>2, Sizes
    <3>2. data \in Seq(UnitSet)
      BY <2>1, <3>1, UnitsOf
    <3>3. QED
      BY <3>2
  <2>4. p = a \o data /\ q = b \o Zeros(Len(data)) /\ y = Put(x, c, [offset |-> Len(a), length |-> Len(data)])
    BY <1>1, <1>2, <1>3, <1>6, <1>7, <2>1 DEF Add
  <2>5. Zeros(Len(data)) \in Seq(UnitSet)
    BY <2>3, ZerosOf
  <2>6. PICK z \in Seq(UnitSet) : z = Zeros(Len(data))
    BY <2>5
  <2>7. p \in Seq(UnitSet) /\ q \in Seq(UnitSet)
    BY <1>4, <2>3, <2>4, <2>6, ConcatProperties
  <2>8. [offset |-> Len(a), length |-> Len(data)] \in Remnants
    BY <1>4, <2>3 DEF Remnants
  <2>9. QED
    BY <1>4, <2>4, <2>7, <2>8 DEF Put
<1>8. CASE Get(c)
  BY <1>3, <1>4, <1>6, <1>8 DEF Get, packed
<1>9. CASE Remove(c)
  <2>1. PICK f \in DOMAIN x : f = file[c]
    BY <1>2, <1>3, <1>9 DEF Remove
  <2>2. PICK o \in Int, l \in Nat : o = x[f].offset /\ l = x[f].length
    BY <1>4, <2>1 DEF Remnants
  <2>3. /\ p = Cut(a, x[f].offset, x[f].length) /\ q = Cut(b, x[f].offset, x[f].length)
        /\ y = [g \in DOMAIN x \ {f} |-> Shifted(x[g], x[f])]
    BY <1>1, <1>2, <1>3, <1>6, <1>9, <2>1 DEF Remove
  <2>4. p \in Seq(UnitSet) /\ q \in Seq(UnitSet)
    BY <1>4, <2>2, <2>3, CutAnywhere
  <2>5. ASSUME NEW g \in DOMAIN x PROVE Shifted(x[g], x[f]) \in Remnants
    <3>1. x[g] \in Remnants
      BY <1>4
    <3>2. x[g].offset - l \in Int
      BY <2>2, <3>1 DEF Remnants
    <3>3. [x[g] EXCEPT !.offset = x[g].offset - l] \in Remnants
      BY <3>1, <3>2 DEF Remnants
    <3>4. QED
      BY <2>2, <3>1, <3>3 DEF Shifted
  <2>6. QED
    BY <1>4, <2>3, <2>4, <2>5
<1>10. QED
  BY <1>7, <1>8, <1>9 DEF Passes

LEMMA BoxesStep ==
    ASSUME TypeOK, ShapeInv, CallInv, DropInv, TilesInv, FreshInv, NEW c \in Calls, Step(c)
    PROVE  Boxed'
<1>0. Boxed
  BY Boxes
<1>1. CASE Passes(c)
  <2>1. /\ op' = op /\ result' = result /\ Box(c) \in Pieces /\ op[c] # "none" /\ ~Through(c, Box(c))
        /\ DOMAIN index' = Pieces /\ UNCHANGED death
        /\ \A w \in Pieces : w # Box(c) =>
             index'[w] = index[w] /\ active'[w] = active[w] /\ other'[w] = other[w]
    BY <1>1, Passing, Indexing DEF Goes
  <2>2. DOMAIN active = Pieces /\ DOMAIN other = Pieces /\ DOMAIN index = Pieces
    BY <1>0 DEF Boxed
  <2>3. /\ active' \in [Pieces -> Seq(UnitSet)] /\ other' \in [Pieces -> Seq(UnitSet)]
        /\ \A w \in Pieces : Indexed(w)'
    BY <1>0, <1>1, PassesTyped
  <2>s. Standing' = Standing /\ Standing \subseteq Pieces
    BY <2>1 DEF Standing, death
  <2>4. ASSUME NEW w \in Standing, w # Box(c) PROVE BoxOK(w)'
    <3>1. BoxOK(w)
      BY <1>0 DEF Boxed
    <3>2. QED
      BY <2>1, <2>4, <2>s, <3>1, BoxStays DEF BoxOK
  <2>5. ASSUME NEW w \in Standing, w = Box(c) PROVE BoxOK(w)'
    <3>0. w \in Pieces
      BY <2>s
    <3>1. /\ active[w] \in Seq(UnitSet) /\ other[w] \in Seq(UnitSet) /\ Len(active[w]) = Len(other[w])
          /\ index[w] \in [DOMAIN index[w] -> Entries] /\ DOMAIN index[w] \subseteq Calls
          /\ Tiled(active[w], index[w], result, w) /\ Mirrored(active[w], other[w])
      BY <1>0 DEF Boxed, BoxOK
    <3>2. SUFFICES
            /\ active'[w] \in Seq(UnitSet) /\ other'[w] \in Seq(UnitSet) /\ Len(active'[w]) = Len(other'[w])
            /\ index'[w] \in [DOMAIN index'[w] -> Entries] /\ DOMAIN index'[w] \subseteq Calls
            /\ Tiled(active'[w], index'[w], result', w) /\ Mirrored(active'[w], other'[w])
      BY <2>1, <3>0, BoxStays
    <3>3. CASE Add(c)
      <4>1. PICK data : data = Units(c, result[c][w].of)
        OBVIOUS
      <4>2. /\ active'[w] = active[w] \o data /\ other'[w] = other[w] \o Zeros(Len(data))
            /\ index'[w] = Put(index[w], c, [offset |-> Len(active[w]), length |-> Len(data)])
        BY <2>2, <2>5, <3>0, <3>3, <4>1 DEF Add
      <4>3. c \notin DOMAIN index[w] /\ op[c] = "save" /\ result[c] \in Splits
        BY <2>1, <2>5, <3>0, <3>3 DEF FreshInv, Add, CallInv, Names
      <4>4. PICK a, b, x, y, r, p, q :
              /\ a = active[w] /\ b = other[w] /\ x = index[w] /\ r = result
              /\ y = index'[w] /\ p = active'[w] /\ q = other'[w]
        OBVIOUS
      <4>5. PICK e : e = [offset |-> Len(a), length |-> Len(data)]
        OBVIOUS
      <4>6. /\ y = Put(x, c, e) /\ DOMAIN y = DOMAIN x \cup {c} /\ y[c] = e /\ \A g \in DOMAIN x : y[g] = x[g]
        BY <4>2, <4>3, <4>4, <4>5, <3>1 DEF Put
      <4>7. /\ a \in Seq(UnitSet) /\ b \in Seq(UnitSet) /\ x \in [DOMAIN x -> Entries] /\ DOMAIN x \subseteq Calls
            /\ Tiled(a, x, r, w) /\ Mirrored(a, b) /\ Len(a) = Len(b) /\ c \notin DOMAIN x
            /\ p = a \o data /\ q = b \o Zeros(Len(data)) /\ e.offset = Len(a) /\ e.length = Len(data)
        BY <3>1, <4>2, <4>3, <4>4, <4>5
      <4>8. p \in Seq(UnitSet) /\ q \in Seq(UnitSet) /\ Len(p) = Len(q) /\ Tiled(p, y, r, w) /\ Mirrored(p, q)
        <5>1. data = Units(c, r[c][w].of) /\ r[c] \in Splits /\ y[c].offset = Len(a) /\ y[c].length = Len(data)
          BY <4>1, <4>3, <4>4, <4>6, <4>7
        <5>2. Appended(w, c, r, data, a, b, x, p, q, y)
          BY <4>6, <4>7, <5>1 DEF Appended
        <5>3. QED
          BY <3>0, <5>2, AddInOrder
      <4>9. e \in Entries
        <5>1. data \in Seq(UnitSet)
          BY <3>0, <4>1, <4>3, Sizes, UnitsOf
        <5>2. QED
          BY <4>5, <4>7, <5>1 DEF Entries
      <4>10. y \in [DOMAIN y -> Entries] /\ DOMAIN y \subseteq Calls
        BY <4>6, <4>7, <4>9 DEF Put
      <4>11. QED
        BY <2>1, <4>4, <4>8, <4>10
    <3>4. CASE Get(c)
      BY <2>1, <3>1, <3>4 DEF Get, packed
    <3>5. CASE Remove(c)
      <4>1. PICK f \in DOMAIN index[w] : f = file[c]
        BY <2>5, <3>5 DEF Remove
      <4>2. PICK a, b, x, y, r, p, q :
              /\ a = active[w] /\ b = other[w] /\ x = index[w] /\ r = result
              /\ y = index'[w] /\ p = active'[w] /\ q = other'[w]
        OBVIOUS
      <4>3. /\ p = Cut(a, x[f].offset, x[f].length) /\ q = Cut(b, x[f].offset, x[f].length)
            /\ y = [g \in DOMAIN x \ {f} |-> Shifted(x[g], x[f])]
        BY <2>2, <2>5, <3>0, <3>5, <4>1, <4>2 DEF Remove
      <4>7. DOMAIN y = DOMAIN x \ {f} /\ \A g \in DOMAIN y : y[g] = Shifted(x[g], x[f])
        BY <4>3
      <4>4. /\ a \in Seq(UnitSet) /\ b \in Seq(UnitSet) /\ x \in [DOMAIN x -> Entries]
            /\ Tiled(a, x, r, w) /\ Mirrored(a, b) /\ Len(a) = Len(b) /\ f \in DOMAIN x
        BY <3>1, <4>2
      <4>5. /\ p \in Seq(UnitSet) /\ q \in Seq(UnitSet) /\ Len(p) = Len(q)
            /\ \A g \in DOMAIN y : y[g] \in Entries
            /\ Tiled(p, y, r, w) /\ Mirrored(p, q)
        <5>1. CutOut(w, f, r, a, b, x, p, q, y)
          BY <4>3, <4>4, <4>7 DEF CutOut
        <5>2. QED
          BY <3>0, <5>1, CutInOrder
      <4>8. y \in [DOMAIN y -> Entries] /\ DOMAIN y \subseteq DOMAIN x
        BY <4>3, <4>5, <4>7
      <4>6. QED
        BY <2>1, <3>1, <4>2, <4>5, <4>8
    <3>6. QED
      BY <1>1, <3>3, <3>4, <3>5 DEF Passes
  <2>6. \A w \in Standing' : BoxOK(w)'
    BY <2>4, <2>5, <2>s
  <2>7. QED
    BY <2>1, <2>3, <2>6 DEF Boxed
<1>2. ASSUME active' = active, other' = other, index' = index, UNCHANGED death,
             \A w \in Pieces : \A f \in DOMAIN index[w] : op'[f] = op[f] /\ result'[f] = result[f]
      PROVE  Boxed'
  <2>1. ASSUME NEW w \in Standing PROVE BoxOK(w)'
    <3>1. BoxOK(w)
      BY <1>0 DEF Boxed
    <3>2. Tiled(active[w], index[w], result, w)'
      <4>1. w \in Pieces
        BY DEF Standing
      <4>2. QED
        BY <1>2, <3>1, <4>1 DEF BoxOK, Tiled
    <3>3. QED
      BY <1>2, <3>1, <3>2 DEF BoxOK, Mirrored
  <2>2. Standing' = Standing /\ \A w \in Pieces : Indexed(w) => Indexed(w)'
    BY <1>2 DEF Standing, death, Indexed
  <2>3. QED
    BY <1>0, <1>2, <2>1, <2>2 DEF Boxed
<1>3. CASE Quiet(c)
  BY <1>2, <1>3, Quietly DEF Goes
<1>4. ASSUME NEW o, NEW g, NEW r, NEW boxes, Starts(c, o, g, r, boxes) PROVE Boxed'
  <2>1. \A w \in Pieces : \A f \in DOMAIN index[w] : f # c /\ f \in Calls
    BY <1>4, Starting DEF FreshInv, TypeOK
  <2>2. QED
    BY <1>2, <1>4, <2>1, Starting DEF Only
<1>5. CASE Drops(c)
  <2>1. /\ active' \in [Pieces -> Seq(UnitSet)] /\ other' \in [Pieces -> Seq(UnitSet)] /\ DOMAIN index' = Pieces
        /\ \A w \in Pieces : index'[w] \in {index[w], Nothing}
        /\ \A w \in Pieces \ dropped' : active'[w] = active[w] /\ other'[w] = other[w] /\ index'[w] = index[w]
        /\ result' = result /\ dropped \subseteq dropped'
    BY <1>5, Dropping DEF Goes
  <2>2. ASSUME NEW w \in Pieces PROVE Indexed(w)'
    <3>1. Nothing \in [DOMAIN Nothing -> Remnants] /\ DOMAIN Nothing = {}
      BY DEF Nothing
    <3>2. Indexed(w)
      BY <1>0 DEF Boxed
    <3>3. QED
      BY <2>1, <3>1, <3>2 DEF Indexed
  <2>3. ASSUME NEW w \in Standing' PROVE BoxOK(w)'
    <3>1. w \in Standing /\ active'[w] = active[w] /\ other'[w] = other[w] /\ index'[w] = index[w] /\ w \in Pieces
      BY <2>1 DEF Standing
    <3>2. BoxOK(w)
      BY <1>0, <3>1 DEF Boxed
    <3>3. QED
      BY <2>1, <3>1, <3>2 DEF BoxOK
  <2>4. QED
    BY <2>1, <2>2, <2>3 DEF Boxed
<1>6. QED
  BY <1>1, <1>3, <1>4, <1>5 DEF Step

LEMMA TypeStep ==
    ASSUME TypeOK, ShapeInv, CallInv, DropInv, TilesInv, FreshInv, MetaInv, NEW c \in Calls, Step(c)
    PROVE  TypeOK' /\ ShapeInv' /\ TilesInv'
<1>1. Boxed'
  BY BoxesStep
<1>2. meta' \in [DOMAIN meta' -> Pieces] /\ DOMAIN meta' \subseteq Calls
  BY MetaStep
<1>3. TilesInv'
  BY <1>1 DEF Boxed, BoxOK, TilesInv
<1>4. /\ op' \in [Calls -> Ops] /\ pc' \in [Calls -> Places] /\ file' \in [Calls -> Calls \cup {NoCall}]
      /\ DOMAIN result' = Calls
  <2>0. op \in [Calls -> Ops] /\ file \in [Calls -> Calls \cup {NoCall}] /\ DOMAIN result = Calls
    BY Calling
  <2>1. CASE Quiet(c) \/ Passes(c) \/ Drops(c)
    BY <2>0, <2>1, Quietly, Passing, Dropping DEF Goes
  <2>2. ASSUME NEW o, NEW g, NEW r, NEW boxes, Starts(c, o, g, r, boxes)
        PROVE  /\ op' \in [Calls -> Ops] /\ pc' \in [Calls -> Places] /\ file' \in [Calls -> Calls \cup {NoCall}]
               /\ DOMAIN result' = Calls
    BY <2>0, <2>2, Starting DEF Starts
  <2>3. QED
    BY <2>1, <2>2 DEF Step
<1>5. DOMAIN todo' = Calls /\ DOMAIN ans' = Calls
  BY DEF ShapeInv, Step, Quiet, Pause, IndexRaises, CompressRaises, Clear, Last, MetaRaises, Rest,
         Passes, Add, Get, Remove, Drops, StopBox, DropA, DropB, DropIndex, Starts
<1>6. \A d \in Calls : todo'[d] \in Seq(Pieces)
  <2>1. Lists \subseteq Seq(Pieces)
    BY Order, One DEF Lists
  <2>2. CallInv'
    BY CallStep
  <2>3. ASSUME NEW d \in Calls, op'[d] # "none" PROVE todo'[d] \in Lists
    BY <1>4, <2>2, <2>3 DEF CallInv, Visits, Ops, Lists, Fours
  <2>4. ASSUME NEW d \in Calls, op'[d] = "none" PROVE todo'[d] = todo[d]
    <3>1. d # c
      BY <2>4, Quietly, Passing, Dropping, Starting DEF Step, Goes
    <3>2. QED
      BY <3>1, Growing DEF Only
  <2>5. QED
    BY <2>1, <2>3, <2>4 DEF TypeOK
<1>7. paused' \in [Pieces -> BOOLEAN]
  BY Passing, Dropping, Starting
     DEF TypeOK, Step, Quiet, Pause, IndexRaises, CompressRaises, Clear, Last, MetaRaises, Rest
<1>d. /\ stopped' \subseteq Pieces /\ late' \subseteq stopped' /\ dropped' \subseteq stopped'
      /\ front' \in [Pieces -> {"a", "b"}]
  <2>1. stopped \subseteq Pieces /\ late \subseteq stopped /\ dropped \subseteq stopped /\ front \in [Pieces -> {"a", "b"}]
    BY DEF TypeOK
  <2>2. CASE Drops(c)
    BY <2>1, <2>2, Dropping
  <2>3. CASE ~Drops(c)
    <3>1. UNCHANGED death
      BY <2>3, Quietly, Passing, Starting DEF Step
    <3>2. QED
      BY <2>1, <3>1 DEF death
  <2>4. QED
    BY <2>2, <2>3
<1>8. ShapeInv'
  BY <1>1, <1>2, <1>4, <1>5 DEF ShapeInv, Boxed, Indexed
<1>9. TypeOK'
  BY <1>1, <1>2, <1>4, <1>6, <1>7, <1>d DEF TypeOK, Boxed, BoxOK, Indexed, Standing, Ops, Places
<1>10. QED
  BY <1>3, <1>8, <1>9

-----------------------------------------------------------------------------
(* What the index finds, and what retrieve() returns.                      *)

\* What the entry of a file f finds in the buffer.
Found(a, x, f) == SubSeq(a, Place(a, x[f].offset) + 1, Place(a, x[f].offset + x[f].length))

\* It is the piece of that file.
LEMMA SliceOf ==
    ASSUME NEW a \in Seq(UnitSet), NEW x, NEW r, NEW w \in Pieces, NEW f \in DOMAIN x,
           x \in [DOMAIN x -> Entries], Tiled(a, x, r, w)
    PROVE  Found(a, x, f) = Units(f, r[f][w].of)
<1> DEFINE o == x[f].offset
           l == x[f].length
           of == r[f][w].of
           s == SubSeq(a, o + 1, o + l)
<1>1. /\ o \in Nat /\ l \in Nat /\ l = Size(of) /\ o + l <= Len(a)
      /\ \A i \in o + 1 .. o + l : a[i] = <<f, of>>
  BY DEF Tiled, Entries, End
<1>2. Place(a, o) = o /\ Place(a, o + l) = o + l /\ Len(a) \in Nat
  <2>1. o \in 0 .. Len(a) /\ o + l \in 0 .. Len(a) /\ o \in Int /\ o + l \in Int
    BY <1>1
  <2>2. QED
    BY <2>1, PlaceIn
<1>3. Found(a, x, f) = s
  BY <1>2, Zenon DEF Found, o, l, s
<1> HIDE DEF o, l, of
<1>4. Len(s) = l /\ s \in Seq(UnitSet) /\ \A i \in 1 .. l : s[i] = a[o + i]
  BY <1>1, <1>2, SubSeqProperties DEF s
<1> HIDE DEF s
<1>5. \A i \in 1 .. l : a[o + i] = <<f, of>>
  <2>1. \A i \in 1 .. l : o + i \in o + 1 .. o + l
    BY <1>1
  <2>2. QED
    BY <1>1, <2>1
<1>6. s = [i \in 1 .. l |-> <<f, of>>]
  <2>1. s = [i \in 1 .. Len(s) |-> s[i]]
    BY <1>4
  <2>2. s = [i \in 1 .. l |-> s[i]] /\ \A i \in 1 .. l : s[i] = <<f, of>>
    BY <1>4, <1>5, <2>1
  <2>3. QED
    BY <2>2
<1>7. QED
  BY <1>1, <1>3, <1>6, Zenon DEF Units, of

LEMMA InPlace ==
    ASSUME Boxed
    PROVE  SlicesInPlace
<1>1. SUFFICES ASSUME NEW w \in Standing, NEW f \in DOMAIN index[w]
               PROVE  Slice(w, f) = Units(f, result[f][w].of)
  BY DEF SlicesInPlace
<1>2. /\ active[w] \in Seq(UnitSet) /\ index[w] \in [DOMAIN index[w] -> Entries]
      /\ Tiled(active[w], index[w], result, w) /\ w \in Pieces
  BY DEF Boxed, BoxOK, Standing
<1>3. PICK a, x : a = active[w] /\ x = index[w]
  OBVIOUS
<1>4. Slice(w, f) = Found(a, x, f)
  BY <1>3, Zenon DEF Slice, Found
<1>5. a \in Seq(UnitSet) /\ x \in [DOMAIN x -> Entries] /\ Tiled(a, x, result, w) /\ f \in DOMAIN x
  BY <1>2, <1>3
<1>6. Found(a, x, f) = Units(f, result[f][w].of)
  BY <1>2, <1>5, SliceOf
<1>7. QED
  BY <1>4, <1>6

LEMMA FullStep ==
    ASSUME TypeOK, ShapeInv, CallInv, DropInv, TilesInv, MetaInv, FullInv, NEW c \in Calls, Step(c)
    PROVE  FullInv'
<1>0. SUFFICES ASSUME NEW d \in Calls, op'[d] = "retrieve", result'[d].which = "full"
               PROVE  /\ pc'[d] \in {"visit", "locked"} => result'[file'[d]][Head(todo'[d])].of = "raw"
                      /\ pc'[d] \in {"clear", "last", "done"} /\ dropped = {} => ans'[d] = Units(file'[d], "raw")
  <2>1. dropped \subseteq dropped'
    BY Growing
  <2>2. QED
    BY <2>1 DEF FullInv, Box
<1>1. ASSUME op[d] = "retrieve", result[d].which = "full"
      PROVE  /\ pc[d] \in {"visit", "locked"} => result[file[d]][Head(todo[d])].of = "raw"
             /\ pc[d] \in {"clear", "last", "done"} /\ dropped = {} => ans[d] = Units(file[d], "raw")
             /\ file[d] \in Calls /\ result'[file[d]] = result[file[d]]
             /\ todo[d] = <<>> \/ \E w \in Pieces : todo[d] = <<w>>
  <2>1. /\ pc[d] \in {"visit", "locked"} => result[file[d]][Head(todo[d])].of = "raw"
        /\ pc[d] \in {"clear", "last", "done"} /\ dropped = {} => ans[d] = Units(file[d], "raw")
    BY <1>1 DEF FullInv, Box
  <2>2. Saved(file[d]) /\ file[d] \in Calls
    BY <1>1 DEF CallInv, Names, Saved
  <2>3. result'[file[d]] = result[file[d]]
    BY <2>2, StaysSaved
  <2>4. todo[d] = <<>> \/ \E w \in Pieces : todo[d] = <<w>>
    BY <1>1 DEF CallInv, Visits
  <2>5. QED
    BY <2>1, <2>2, <2>3, <2>4
<1>2. Only(c)
  BY Growing
<1>3. CASE d # c
  <2>1. /\ pc'[d] = pc[d] /\ todo'[d] = todo[d] /\ op'[d] = op[d] /\ file'[d] = file[d]
        /\ result'[d] = result[d] /\ ans'[d] = ans[d]
    BY <1>2, <1>3 DEF Only
  <2>2. QED
    BY <1>0, <1>1, <2>1
<1>4. CASE d = c /\ Quiet(c)
  <2>1. op' = op /\ file' = file /\ result' = result /\ ans' = ans /\ DOMAIN pc = Calls
    BY <1>4, Quietly DEF Goes, TypeOK
  <2>2. CASE Clear(c)
    <3>1. pc[c] = "clear" /\ pc'[c] = IF Len(todo[c]) = 1 THEN "last" ELSE "visit"
      BY <2>1, <2>2 DEF Clear, Goto
    <3>2. todo[c] # <<>>
      BY <3>1 DEF CallInv, Visits
    <3>3. Len(todo[c]) = 1
      BY <1>0, <1>1, <1>4, <2>1, <3>2, One
    <3>4. QED
      BY <1>0, <1>1, <1>4, <2>1, <3>1, <3>3
  <2>3. CASE Pause(c)
    BY <1>0, <1>1, <1>4, <2>1, <2>3 DEF Pause, Goto
  <2>4. CASE Last(c)
    BY <1>0, <1>1, <1>4, <2>1, <2>4 DEF Last, Goto
  <2>5. CASE IndexRaises(c) \/ CompressRaises(c) \/ MetaRaises(c)
    BY <1>0, <1>4, <2>1, <2>5 DEF IndexRaises, CompressRaises, MetaRaises, Goto
  <2>6. QED
    BY <1>4, <2>2, <2>3, <2>4, <2>5 DEF Quiet
<1>5. CASE d = c /\ Passes(c)
  <2>1. op' = op /\ file' = file /\ result' = result
    BY <1>5, Passing DEF Goes
  <2>2. Get(c)
    BY <1>0, <1>5, <2>1, Indexing DEF Passes
  <2>3. /\ pc[c] = "locked" /\ file[c] \in DOMAIN index[Box(c)] /\ Box(c) \in Pieces
        /\ ans'[c] = Slice(Box(c), file[c]) /\ pc'[c] = "clear"
    BY <1>5, <2>2, Passing DEF Get, Goto, TypeOK, ShapeInv
  <2>4. dropped = {} => Slice(Box(c), file[c]) = Units(file[c], result[file[c]][Box(c)].of)
    <3>1. dropped = {} => Box(c) \in Standing
      BY <2>3 DEF Standing
    <3>2. QED
      BY <2>3, <3>1, Boxes, InPlace DEF SlicesInPlace
  <2>5. result[file[c]][Box(c)].of = "raw"
    BY <1>0, <1>1, <1>5, <2>1, <2>3 DEF Box
  <2>6. QED
    BY <1>5, <2>1, <2>3, <2>4, <2>5
<1>6. ASSUME NEW o, NEW f, NEW r, NEW boxes, Starts(c, o, f, r, boxes), d = c
      PROVE  /\ pc'[d] \in {"visit", "locked"} => result'[file'[d]][Head(todo'[d])].of = "raw"
             /\ pc'[d] \in {"clear", "last", "done"} /\ dropped = {} => ans'[d] = Units(file'[d], "raw")
  <2>1. /\ op'[c] = o /\ file'[c] = f /\ result'[c] = r /\ todo'[c] = boxes
        /\ boxes # <<>> => pc'[c] = "visit"
    BY <1>6, Starting
  <2>2. PICK w \in Pieces : Saved(f) /\ boxes = <<w>> /\ f \in DOMAIN meta /\ w = meta[f]
    BY <1>0, <1>6, <2>1 DEF Starts
  <2>3. result'[f] = result[f] /\ f \in Calls
    BY <2>2, StaysSaved DEF Saved
  <2>4. w = result[f].reconstruct_from /\ result[f] \in Splits
    BY <2>2 DEF MetaInv, Saved, CallInv, Names
  <2>5. result[f][w].of = "raw"
    BY <2>4, Sizes
  <2>6. pc'[c] = "visit" /\ Head(todo'[c]) = w
    BY <2>1, <2>2, One
  <2>7. QED
    BY <1>6, <2>1, <2>3, <2>5, <2>6
<1>7. CASE d = c /\ Drops(c)
  BY <1>0, <1>7, Dropping DEF Goes
<1>8. QED
  BY <1>3, <1>4, <1>5, <1>6, <1>7 DEF Step

-----------------------------------------------------------------------------
(* What is held is whole.                                                  *)

LEMMA HeldQuiet ==
    ASSUME TypeOK, ShapeInv, CallInv, DropInv, HeldInv, NEW c \in Calls, Quiet(c)
    PROVE  HeldInv'
<1>1. /\ op' = op /\ file' = file /\ result' = result /\ index' = index /\ UNCHANGED death
      /\ pc[c] \notin {"idle", "done"} /\ \A d \in Calls : d # c => pc'[d] = pc[d] /\ todo'[d] = todo[d]
  BY Quietly DEF Goes, Only
<1>s. Standing' = Standing /\ Standing \subseteq Pieces /\ Step(c)
  BY <1>1 DEF Standing, death, Step
<1>2. \A d \in Calls, w \in Pieces : Through(d, w)' <=> Through(d, w)
  BY Quietly
<1>3. \A d \in Calls : Forgetting(d)' <=> Forgetting(d)
  <2>1. "content" \in Pieces
    BY DEF Pieces
  <2>2. QED
    BY <1>1, <1>2, <2>1 DEF Forgetting
<1>4. ASSUME NEW d \in Calls, NEW w \in Standing, op'[d] = "save", pc'[d] # "done", Through(d, w)'
      PROVE  d \in DOMAIN index'[w]
  <2>1. pc[d] # "done"
    BY <1>1, <1>4
  <2>2. QED
    BY <1>1, <1>2, <1>4, <1>s, <2>1 DEF HeldInv
<1>5. ASSUME NEW d \in Calls, NEW e \in Calls, Forgetting(d)', Forgetting(e)', file'[d] = file'[e]
      PROVE  d = e
  BY <1>1, <1>3, <1>5 DEF HeldInv
<1>6. ASSUME NEW f \in Calls, NEW w \in Standing, op'[f] = "save", pc'[f] = "done"
      PROVE  f \in DOMAIN index'[w] \/ \E e \in Calls : Forgetting(e)' /\ file'[e] = f /\ Through(e, w)'
  <2>1. CASE f = c
    <3>1. CallInv'
      BY <1>s, CallStep
    <3>2. todo'[c] = <<>>
      BY <1>6, <2>1, <3>1 DEF CallInv, Visits
    <3>3. Through(c, w)'
      BY <1>6, <1>s, <2>1, <3>2, BehindFours DEF Through
    <3>4. QED
      BY <1>1, <1>2, <1>6, <1>s, <2>1, <3>3 DEF HeldInv
  <2>2. CASE f # c
    <3>1. f \in DOMAIN index[w] \/ \E e \in Calls : Forgetting(e) /\ file[e] = f /\ Through(e, w)
      BY <1>1, <1>6, <2>2 DEF HeldInv
    <3>2. QED
      BY <1>1, <1>2, <1>3, <1>s, <3>1
  <2>3. QED
    BY <2>1, <2>2
<1>7. ASSUME NEW d \in Calls, Forgetting(d)'
      PROVE  /\ pc'[d] = "raised" /\ todo'[d] # <<>> => Box(d)' \in dropped
             /\ pc'[d] \in {"done", "raised"} /\ todo'[d] = <<>> => file'[d] \notin DOMAIN meta'
  <2>1. /\ Forgetting(d) /\ op[d] = "forget" /\ Saved(file[d]) /\ file[d] \in Calls
        /\ pc[d] = "raised" /\ todo[d] # <<>> => Box(d) \in dropped
        /\ pc[d] \in {"done", "raised"} /\ todo[d] = <<>> => file[d] \notin DOMAIN meta
    BY <1>3, <1>7 DEF HeldInv, Forgetting, CallInv, Names, Saved
  <2>2. file[d] # c
    BY <1>s, <2>1, StaysSaved
  <2>3. CASE d # c
    <3>1. file[d] \in DOMAIN meta' => file[d] \in DOMAIN meta
      BY <2>2 DEF Quiet, Pause, IndexRaises, CompressRaises, Clear, Last, MetaRaises, Rest, Put, Restrict, Nothing
    <3>2. pc'[d] = pc[d] /\ todo'[d] = todo[d] /\ Box(d)' = Box(d)
      BY <1>1, <2>3 DEF Box
    <3>3. QED
      BY <1>1, <2>1, <3>1, <3>2
  <2>4. CASE d = c
    <3>0. DOMAIN pc = Calls /\ Visits(c)
      BY Calling DEF CallInv
    <3>1. CASE IndexRaises(c)
      <4>1. pc[c] = "locked" /\ file[c] \notin DOMAIN index[Box(c)] /\ todo' = todo
        BY <3>1 DEF IndexRaises
      <4>2. todo[c] \in Lists /\ todo[c] # <<>>
        BY <2>1, <2>4, <3>0, <4>1 DEF Visits, Lists
      <4>3. Box(c) \in Pieces /\ ~Behind(todo[c], "locked", Box(c))
        <5>1. "content" \in Pieces
          BY DEF Pieces
        <5>2. QED
          BY <4>2, <5>1, Behinds DEF Box
      <4>4. ~Through(c, Box(c))
        BY <4>1, <4>3 DEF Through
      <4>5. Box(c) \in dropped
        <5>1. SUFFICES ASSUME Box(c) \in Standing PROVE FALSE
          BY <4>3 DEF Standing
        <5>2. PICK e \in Calls : Forgetting(e) /\ file[e] = file[c] /\ Through(e, Box(c))
          BY <2>1, <2>4, <4>1, <5>1 DEF HeldInv, Saved
        <5>3. e = c
          BY <2>1, <2>4, <5>2 DEF HeldInv
        <5>4. QED
          BY <4>4, <5>2, <5>3
      <4>6. QED
        BY <2>4, <4>1, <4>2, <4>5 DEF Box
    <3>2. CASE Last(c)
      <4>1. meta' = Restrict(meta, DOMAIN meta \ {file[c]}) /\ pc'[c] = "done"
        BY <2>1, <2>4, <3>0, <3>2 DEF Last, Goto
      <4>2. file[c] \notin DOMAIN meta'
        BY <4>1 DEF Restrict
      <4>3. QED
        BY <1>1, <2>4, <4>1, <4>2
    <3>3. CASE MetaRaises(c)
      <4>1. pc[c] = "last" /\ todo' = todo /\ meta' = meta /\ file[c] \notin DOMAIN meta
        BY <3>3 DEF MetaRaises, MetaIsGone, Rest
      <4>2. todo'[c] = <<>>
        BY <3>0, <4>1 DEF Visits
      <4>3. QED
        BY <1>1, <2>4, <4>1, <4>2
    <3>4. CASE Pause(c) \/ CompressRaises(c) \/ Clear(c)
      <4>1. pc'[c] \in {"locked", "last", "visit"}
        BY <2>1, <2>4, <3>0, <3>4 DEF Pause, CompressRaises, Clear, Goto
      <4>2. QED
        BY <2>4, <4>1
    <3>5. QED
      BY <3>1, <3>2, <3>3, <3>4 DEF Quiet
  <2>5. QED
    BY <2>3, <2>4
<1>8. /\ \A d \in Calls, w \in Standing' : op'[d] = "save" /\ pc'[d] # "done" /\ Through(d, w)' => d \in DOMAIN index'[w]
      /\ \A f \in Calls, w \in Standing' : op'[f] = "save" /\ pc'[f] = "done" =>
           f \in DOMAIN index'[w] \/ \E e \in Calls : Forgetting(e)' /\ file'[e] = f /\ Through(e, w)'
  BY <1>4, <1>6, <1>s
<1>9. dropped' = dropped
  BY <1>1 DEF death
<1>10. QED
  BY <1>5, <1>7, <1>8, <1>9 DEF HeldInv

LEMMA HeldPasses ==
    ASSUME TypeOK, ShapeInv, CallInv, DropInv, GoneInv, HeldInv, NEW c \in Calls, Passes(c)
    PROVE  HeldInv'
<1>1. /\ op' = op /\ file' = file /\ result' = result /\ meta' = meta /\ Box(c) \in Pieces
      /\ pc[c] = "locked" /\ pc'[c] = "clear" /\ todo' = todo /\ UNCHANGED death
      /\ \A d \in Calls : d # c => pc'[d] = pc[d]
  BY Passing DEF Goes, Only
<1>s. Standing' = Standing /\ Standing \subseteq Pieces /\ dropped' = dropped /\ Step(c)
  BY <1>1 DEF Standing, death, Step
<1>2. \A d \in Calls, w \in Pieces : Through(d, w)' <=> Through(d, w) \/ (d = c /\ w = Box(c))
  BY Passing
<1>3. "content" \in Pieces
  BY DEF Pieces
<1>4. \A w \in Pieces : w # Box(c) => index'[w] = index[w]
  BY Indexing
<1>5. \A d \in Calls : Forgetting(d) => Forgetting(d)'
  BY <1>1, <1>2, <1>3 DEF Forgetting
<1>6. \A d \in Calls : d # c \/ op[c] # "forget" => (Forgetting(d)' <=> Forgetting(d))
  BY <1>1, <1>2, <1>3 DEF Forgetting
<1>7. ASSUME NEW d \in Calls, Forgetting(d)'
      PROVE  /\ pc'[d] = "raised" /\ todo'[d] # <<>> => Box(d)' \in dropped
             /\ pc'[d] \in {"done", "raised"} /\ todo'[d] = <<>> => file'[d] \notin DOMAIN meta'
  <2>1. CASE d = c
    BY <1>1, <2>1
  <2>2. CASE d # c
    <3>1. Forgetting(d) /\ pc'[d] = pc[d] /\ Box(d)' = Box(d)
      BY <1>1, <1>6, <1>7, <2>2 DEF Box
    <3>2. QED
      BY <1>1, <3>1 DEF HeldInv
  <2>3. QED
    BY <2>1, <2>2
<1>n. SUFFICES
        /\ \A d \in Calls, w \in Standing : op'[d] = "save" /\ pc'[d] # "done" /\ Through(d, w)' => d \in DOMAIN index'[w]
        /\ \A d, e \in Calls : Forgetting(d)' /\ Forgetting(e)' /\ file'[d] = file'[e] => d = e
        /\ \A f \in Calls, w \in Standing : op'[f] = "save" /\ pc'[f] = "done" =>
             f \in DOMAIN index'[w] \/ \E e \in Calls : Forgetting(e)' /\ file'[e] = f /\ Through(e, w)'
  BY <1>7, <1>s DEF HeldInv
<1>8. CASE ~Remove(c)
  <2>1. op[c] \in {"save", "retrieve"}
    BY <1>8, Indexing DEF Passes
  <2>2. \A d \in Calls : Forgetting(d)' <=> Forgetting(d)
    BY <1>6, <2>1
  <2>3. \A w \in Pieces : DOMAIN index[w] \subseteq DOMAIN index'[w]
    BY <1>4, <1>8, Indexing DEF Passes
  <2>4. op[c] = "save" => c \in DOMAIN index'[Box(c)]
    BY <1>8, Indexing DEF Passes
  <2>5. ASSUME NEW d \in Calls, NEW w \in Standing, op'[d] = "save", pc'[d] # "done", Through(d, w)'
        PROVE  d \in DOMAIN index'[w]
    <3>1. pc[d] # "done" /\ op[d] = "save"
      BY <1>1, <2>5
    <3>2. Through(d, w) \/ (d = c /\ w = Box(c))
      BY <1>2, <1>s, <2>5
    <3>3. QED
      BY <1>s, <2>3, <2>4, <3>1, <3>2 DEF HeldInv
  <2>6. ASSUME NEW d \in Calls, NEW e \in Calls, Forgetting(d)', Forgetting(e)', file'[d] = file'[e]
        PROVE  d = e
    BY <1>1, <2>2, <2>6 DEF HeldInv
  <2>7. ASSUME NEW f \in Calls, NEW w \in Standing, op'[f] = "save", pc'[f] = "done"
        PROVE  f \in DOMAIN index'[w] \/ \E e \in Calls : Forgetting(e)' /\ file'[e] = f /\ Through(e, w)'
    <3>1. op[f] = "save" /\ pc[f] = "done"
      BY <1>1, <2>7
    <3>2. CASE f \in DOMAIN index[w]
      BY <1>s, <2>3, <3>2
    <3>3. CASE \E e \in Calls : Forgetting(e) /\ file[e] = f /\ Through(e, w)
      BY <1>1, <1>2, <1>5, <1>s, <3>3
    <3>4. QED
      BY <3>1, <3>2, <3>3 DEF HeldInv
  <2>8. QED
    BY <2>5, <2>6, <2>7
<1>9. CASE Remove(c)
  <2>1. /\ op[c] = "forget" /\ pc[c] = "locked" /\ file[c] \in DOMAIN index[Box(c)]
        /\ DOMAIN index'[Box(c)] = DOMAIN index[Box(c)] \ {file[c]}
    BY <1>9, Indexing DEF Remove
  <2>2. todo[c] # <<>> /\ todo[c] \in Fours /\ result[c].found
    BY <2>1 DEF CallInv, Visits, Names
  <2>3. Saved(file[c]) /\ file[c] \in Calls /\ file[c] # c
    BY <2>1 DEF CallInv, Names, Saved
  <2>4. \A w \in Pieces : \A g \in DOMAIN index[w] : g \in DOMAIN index'[w] \/ (g = file[c] /\ w = Box(c))
    BY <1>4, <2>1
  <2>5. Through(c, "content") \/ Box(c) = "content"
    <3>1. Head(todo[c]) # "content" => Behind(todo[c], "locked", "content")
      BY <2>2, <1>3, ContentFirst
    <3>2. QED
      BY <2>1, <3>1 DEF Through, Box
  <2>6. Forgetting(c)' /\ \A w \in Pieces : w = Box(c) => Through(c, w)'
    BY <1>1, <1>2, <1>3, <2>1, <2>2, <2>5 DEF Forgetting
  <2>7. ASSUME NEW d \in Calls, NEW w \in Standing, op'[d] = "save", pc'[d] # "done", Through(d, w)'
        PROVE  d \in DOMAIN index'[w]
    <3>1. d # c /\ op[d] = "save" /\ pc[d] # "done" /\ Through(d, w)
      BY <1>1, <1>2, <1>s, <2>1, <2>7
    <3>2. d # file[c]
      BY <2>3, <3>1 DEF Saved
    <3>3. QED
      BY <1>s, <2>4, <3>1, <3>2 DEF HeldInv
  <2>8. ASSUME NEW d \in Calls, d # c, Forgetting(d)' PROVE file[d] # file[c]
    <3>1. Forgetting(d)
      BY <1>6, <2>8
    <3>2. CASE Through(c, "content")
      <4>1. Forgetting(c)
        BY <2>1, <2>2, <3>2 DEF Forgetting
      <4>2. QED
        BY <2>8, <3>1, <4>1 DEF HeldInv
    <3>3. CASE Box(c) = "content"
      <4>1. file[d] \notin DOMAIN index["content"]
        BY <1>3, <3>1 DEF Forgetting, GoneInv
      <4>2. QED
        BY <2>1, <3>3, <4>1
    <3>4. QED
      BY <2>5, <3>2, <3>3
  <2>9. ASSUME NEW d \in Calls, NEW e \in Calls, Forgetting(d)', Forgetting(e)', file'[d] = file'[e]
        PROVE  d = e
    <3>1. CASE d # c /\ e # c
      <4>1. Forgetting(d) /\ Forgetting(e) /\ file[d] = file[e]
        BY <1>1, <1>6, <2>9, <3>1
      <4>2. QED
        BY <4>1 DEF HeldInv
    <3>2. CASE d = c \/ e = c
      BY <1>1, <2>8, <2>9, <3>2
    <3>3. QED
      BY <3>1, <3>2
  <2>10. ASSUME NEW f \in Calls, NEW w \in Standing, op'[f] = "save", pc'[f] = "done"
         PROVE  f \in DOMAIN index'[w] \/ \E e \in Calls : Forgetting(e)' /\ file'[e] = f /\ Through(e, w)'
    <3>1. op[f] = "save" /\ pc[f] = "done"
      BY <1>1, <2>10
    <3>2. CASE f \in DOMAIN index[w]
      BY <1>1, <1>s, <2>4, <2>6, <3>2
    <3>3. CASE \E e \in Calls : Forgetting(e) /\ file[e] = f /\ Through(e, w)
      BY <1>1, <1>2, <1>5, <1>s, <3>3
    <3>4. QED
      BY <3>1, <3>2, <3>3 DEF HeldInv
  <2>11. QED
    BY <2>7, <2>9, <2>10
<1>10. QED
  BY <1>8, <1>9

LEMMA HeldStarts ==
    ASSUME TypeOK, ShapeInv, CallInv, DropInv, HeldInv, NEW c \in Calls,
           NEW o, NEW g, NEW r, NEW boxes, Starts(c, o, g, r, boxes)
    PROVE  HeldInv'
<1>1. /\ op[c] = "none" /\ op'[c] = o /\ result'[c] = r /\ pc'[c] \in {"visit", "last"}
      /\ index' = index /\ meta' = meta /\ UNCHANGED death
      /\ \A d \in Calls : d # c => op'[d] = op[d] /\ file'[d] = file[d] /\ result'[d] = result[d]
                                   /\ pc'[d] = pc[d] /\ todo'[d] = todo[d]
  BY Starting DEF Only
<1>s. Standing' = Standing /\ Standing \subseteq Pieces /\ dropped' = dropped
  BY <1>1 DEF Standing, death
<1>2. \A d \in Calls, w \in Pieces : d # c => (Through(d, w)' <=> Through(d, w))
  BY Starting
<1>3. \A w \in Pieces : boxes = All => ~Through(c, w)'
  BY Starting
<1>4. "content" \in Pieces
  BY DEF Pieces
<1>5. /\ o = "save" => boxes = All
      /\ o = "forget" /\ r.found => boxes = All
  BY DEF Starts
<1>6. ~Forgetting(c) /\ ~Forgetting(c)'
  BY <1>1, <1>3, <1>4, <1>5 DEF Forgetting
<1>7. \A d \in Calls : Forgetting(d)' <=> Forgetting(d)
  <2>1. ASSUME NEW d \in Calls, d # c PROVE Forgetting(d)' <=> Forgetting(d)
    BY <1>1, <1>2, <1>4, <2>1 DEF Forgetting
  <2>2. QED
    BY <1>6, <2>1
<1>8. ASSUME NEW d \in Calls, NEW w \in Standing', op'[d] = "save", pc'[d] # "done", Through(d, w)'
      PROVE  d \in DOMAIN index'[w]
  <2>1. d # c
    BY <1>1, <1>3, <1>5, <1>8, <1>s
  <2>2. QED
    BY <1>1, <1>2, <1>8, <1>s, <2>1 DEF HeldInv
<1>9. ASSUME NEW d \in Calls, NEW e \in Calls, Forgetting(d)', Forgetting(e)', file'[d] = file'[e]
      PROVE  d = e
  BY <1>1, <1>6, <1>7, <1>9 DEF HeldInv
<1>10. ASSUME NEW f \in Calls, NEW w \in Standing', op'[f] = "save", pc'[f] = "done"
       PROVE  f \in DOMAIN index'[w] \/ \E e \in Calls : Forgetting(e)' /\ file'[e] = f /\ Through(e, w)'
  <2>1. op[f] = "save" /\ pc[f] = "done"
    BY <1>1, <1>10
  <2>2. CASE f \in DOMAIN index[w]
    BY <1>1, <2>2
  <2>3. CASE \E e \in Calls : Forgetting(e) /\ file[e] = f /\ Through(e, w)
    <3>1. PICK e \in Calls : Forgetting(e) /\ file[e] = f /\ Through(e, w)
      BY <2>3
    <3>2. e # c
      BY <1>6, <3>1
    <3>3. QED
      BY <1>1, <1>2, <1>7, <1>s, <3>1, <3>2
  <2>4. QED
    BY <1>s, <2>1, <2>2, <2>3 DEF HeldInv
<1>11. ASSUME NEW d \in Calls, Forgetting(d)'
       PROVE  /\ pc'[d] = "raised" /\ todo'[d] # <<>> => Box(d)' \in dropped'
              /\ pc'[d] \in {"done", "raised"} /\ todo'[d] = <<>> => file'[d] \notin DOMAIN meta'
  <2>1. d # c /\ Forgetting(d)
    BY <1>6, <1>7, <1>11
  <2>2. pc'[d] = pc[d] /\ todo'[d] = todo[d] /\ file'[d] = file[d] /\ Box(d)' = Box(d)
    BY <1>1, <2>1 DEF Box
  <2>3. QED
    BY <1>1, <1>s, <2>1, <2>2 DEF HeldInv
<1>12. QED
  BY <1>8, <1>9, <1>10, <1>11 DEF HeldInv

LEMMA HeldDrops ==
    ASSUME TypeOK, ShapeInv, CallInv, DropInv, HeldInv, NEW c \in Calls, Drops(c)
    PROVE  HeldInv'
<1>1. /\ op' = op /\ file' = file /\ result' = result /\ meta' = meta /\ op[c] = "collapse_all"
      /\ \A d \in Calls : d # c => pc'[d] = pc[d] /\ todo'[d] = todo[d]
      /\ dropped \subseteq dropped' /\ \A w \in Pieces \ dropped' : index'[w] = index[w]
  BY Dropping DEF Goes, Only
<1>2. \A d \in Calls, w \in Pieces : d # c => (Through(d, w)' <=> Through(d, w))
  BY Dropping
<1>3. \A d \in Calls : Forgetting(d)' <=> Forgetting(d) /\ d # c
  <2>1. "content" \in Pieces
    BY DEF Pieces
  <2>2. QED
    BY <1>1, <1>2, <2>1 DEF Forgetting
<1>4. \A w \in Standing' : w \in Standing /\ w \in Pieces /\ index'[w] = index[w]
  BY <1>1 DEF Standing
<1>5. ASSUME NEW d \in Calls, NEW w \in Standing', op'[d] = "save", pc'[d] # "done", Through(d, w)'
      PROVE  d \in DOMAIN index'[w]
  BY <1>1, <1>2, <1>4, <1>5 DEF HeldInv
<1>6. ASSUME NEW d \in Calls, NEW e \in Calls, Forgetting(d)', Forgetting(e)', file'[d] = file'[e]
      PROVE  d = e
  BY <1>1, <1>3, <1>6 DEF HeldInv
<1>7. ASSUME NEW f \in Calls, NEW w \in Standing', op'[f] = "save", pc'[f] = "done"
      PROVE  f \in DOMAIN index'[w] \/ \E e \in Calls : Forgetting(e)' /\ file'[e] = f /\ Through(e, w)'
  <2>1. op[f] = "save" /\ pc[f] = "done"
    BY <1>1, <1>7
  <2>2. CASE f \in DOMAIN index[w]
    BY <1>4, <2>2
  <2>3. CASE \E e \in Calls : Forgetting(e) /\ file[e] = f /\ Through(e, w)
    <3>1. PICK e \in Calls : Forgetting(e) /\ file[e] = f /\ Through(e, w)
      BY <2>3
    <3>2. e # c
      BY <1>1, <3>1 DEF Forgetting
    <3>3. QED
      BY <1>1, <1>2, <1>3, <1>4, <3>1, <3>2
  <2>4. QED
    BY <1>4, <2>1, <2>2, <2>3 DEF HeldInv
<1>8. ASSUME NEW d \in Calls, Forgetting(d)'
      PROVE  /\ pc'[d] = "raised" /\ todo'[d] # <<>> => Box(d)' \in dropped'
             /\ pc'[d] \in {"done", "raised"} /\ todo'[d] = <<>> => file'[d] \notin DOMAIN meta'
  <2>1. Forgetting(d) /\ d # c
    BY <1>3, <1>8
  <2>2. pc'[d] = pc[d] /\ todo'[d] = todo[d] /\ Box(d)' = Box(d)
    BY <1>1, <2>1 DEF Box
  <2>3. QED
    BY <1>1, <2>1, <2>2 DEF HeldInv
<1>9. QED
  BY <1>5, <1>6, <1>7, <1>8 DEF HeldInv

LEMMA HeldStep ==
    ASSUME TypeOK, ShapeInv, CallInv, DropInv, GoneInv, HeldInv, NEW c \in Calls, Step(c)
    PROVE  HeldInv'
BY HeldQuiet, HeldPasses, HeldDrops, HeldStarts DEF Step

-----------------------------------------------------------------------------
(* The specification.                                                      *)

LEMMA InitIInv ==
    Init => IInv
<1> SUFFICES ASSUME Init PROVE IInv
  OBVIOUS
<1> USE DEF Init, NewBoxes
<1>1. DOMAIN Nothing = {} /\ <<>> \in Seq(Pieces) /\ <<>> \in Seq(UnitSet) /\ Len(<<>>) = 0
  BY DEF Nothing
<1>2. TypeOK
  BY <1>1 DEF TypeOK
<1>3. ShapeInv
  BY <1>1 DEF ShapeInv
<1>4. CallInv
  BY DEF CallInv, Visits, Names
<1>d. DropInv
  BY DEF DropInv, Collapses
<1>5. TilesInv
  BY EmptyBox DEF TilesInv, Standing
<1>6. FreshInv /\ MetaInv
  BY <1>1 DEF FreshInv, MetaInv
<1>7. GoneInv /\ FullInv
  BY DEF GoneInv, FullInv
<1>8. HeldInv
  BY DEF HeldInv, Forgetting, Through
<1>9. PausedByCaller
  BY DEF PausedByCaller
<1>10. QED
  BY <1>2, <1>3, <1>4, <1>d, <1>5, <1>6, <1>7, <1>8, <1>9 DEF IInv

\* After a hop the other buffer of a box that stands has what the active one has.
LEMMA StillStep ==
    ASSUME IInv, Still
    PROVE  IInv'
<1>1. /\ index' = index /\ paused' = paused /\ stopped' = stopped /\ dropped' = dropped /\ meta' = meta
      /\ op' = op /\ file' = file /\ result' = result /\ todo' = todo /\ pc' = pc /\ ans' = ans
      /\ active' \in [Pieces -> Seq(UnitSet)] /\ other' \in [Pieces -> Seq(UnitSet)]
      /\ \A w \in Standing : active'[w] = active[w] /\ other'[w] \in {other[w], active[w]}
      /\ late' \subseteq stopped /\ front' \in [Pieces -> {"a", "b"}]
  BY DEF Still, calls
<1>2. \A w \in Standing : Len(active[w]) = Len(other[w])
  BY DEF IInv, TypeOK, Standing
<1>s. Standing' = Standing
  BY <1>1 DEF Standing
<1>3. \A w \in Pieces \ dropped : Len(active'[w]) = Len(other'[w])
  BY <1>1, <1>2 DEF Standing
<1>4. TypeOK'
  BY <1>1, <1>3 DEF IInv, TypeOK
<1>5. TilesInv'
  <2>1. SUFFICES ASSUME NEW w \in Standing
                 PROVE  /\ index'[w] \in [DOMAIN index'[w] -> Entries]
                        /\ Tiled(active'[w], index'[w], result', w) /\ Mirrored(active'[w], other'[w])
    BY <1>s DEF TilesInv
  <2>2. /\ index[w] \in [DOMAIN index[w] -> Entries]
        /\ Tiled(active[w], index[w], result, w) /\ Mirrored(active[w], other[w])
    BY DEF IInv, TilesInv
  <2>3. Mirrored(active[w], active[w])
    BY DEF Mirrored
  <2>4. QED
    BY <1>1, <2>2, <2>3
<1>6. ShapeInv' /\ FreshInv' /\ GoneInv' /\ MetaInv' /\ FullInv'
  BY <1>1 DEF IInv, ShapeInv, FreshInv, GoneInv, MetaInv, FullInv, Through, Box
<1>7. CallInv' /\ DropInv'
  BY <1>1 DEF IInv, CallInv, Visits, Names, DropInv, Collapses, Box
<1>8. HeldInv'
  BY <1>1, <1>s DEF IInv, HeldInv, Forgetting, Through, Box
<1>9. PausedByCaller'
  BY <1>1 DEF IInv, PausedByCaller, LostRace, Box
<1>10. QED
  BY <1>4, <1>5, <1>6, <1>7, <1>8, <1>9 DEF IInv

LEMMA StepIInv ==
    IInv /\ [Next]_vars => IInv'
<1> SUFFICES ASSUME IInv, [Next]_vars PROVE IInv'
  OBVIOUS
<1>1. /\ TypeOK /\ ShapeInv /\ CallInv /\ DropInv /\ TilesInv /\ FreshInv /\ GoneInv /\ HeldInv /\ MetaInv
      /\ FullInv /\ PausedByCaller
  BY DEF IInv
<1>2. ASSUME NEW c \in Calls, Step(c) PROVE IInv'
  <2>1. TypeOK' /\ ShapeInv' /\ TilesInv'
    BY <1>1, <1>2, TypeStep
  <2>2. CallInv' /\ DropInv'
    BY <1>1, <1>2, CallStep, DropStep
  <2>3. FreshInv' /\ GoneInv' /\ HeldInv'
    BY <1>1, <1>2, FreshStep, GoneStep, HeldStep
  <2>4. MetaInv' /\ FullInv' /\ PausedByCaller'
    BY <1>1, <1>2, MetaStep, FullStep, PausedStep
  <2>5. QED
    BY <2>1, <2>2, <2>3, <2>4 DEF IInv
<1>3. Still \/ \E c \in Calls : Step(c)
  BY <1>1, Stepping
<1>4. QED
  BY <1>2, <1>3, StillStep

\* The inductive invariant of the storage holds throughout: its type, and what each call and
\* each box can rely on.
THEOREM Invariance == Spec => []IInv
BY InitIInv, StepIInv, PTL DEF Spec

\* Whatever adds, removals, hops, raising calls and the assignments of collapse() interleave,
\* of a box that no collapse() is dropping the two buffers are of one length and get() finds
\* every file's own bytes, all of them; and a box is paused only by a call that is at it, or
\* that raised in it because it lost a race.
THEOREM BoxesInOrder == Spec => []BoxInOrder
<1>1. IInv => BoxInOrder
  BY Boxes, InPlace DEF IInv, BoxInOrder
<1>2. QED
  BY <1>1, Invariance, PTL

\* Once forget() of a file has returned, neither buffer of any box that stands has a byte of
\* it: every byte of the active one is some indexed file's, and the other has it, or zeros, there.
THEOREM ForgottenIsGone == Spec => []NothingRemains
<1>1. IInv => NothingRemains
  <2>1. SUFFICES ASSUME IInv, NEW c \in Returned("forget"), NEW w \in Standing, result[c].found,
                        NEW u \in Range(active[w]) \cup Range(other[w])
                 PROVE  u[1] # file[c]
    BY DEF NothingRemains
  <2>2. c \in Calls /\ op[c] = "forget" /\ pc[c] = "done"
    BY <2>1 DEF Returned
  <2>3. todo[c] = <<>> /\ Saved(file[c]) /\ file[c] \in Calls
    BY <2>1, <2>2 DEF IInv, CallInv, Visits, Names, Saved
  <2>p. w \in Pieces /\ w \notin dropped
    BY DEF Standing
  <2>4. Through(c, w)
    BY <2>2, <2>3, <2>p, BehindFours DEF Through
  <2>5. file[c] \notin DOMAIN index[w]
    BY <2>1, <2>2, <2>4, <2>p DEF IInv, GoneInv
  <2>6. /\ active[w] \in Seq(UnitSet) /\ other[w] \in Seq(UnitSet) /\ Len(active[w]) = Len(other[w])
        /\ Tiled(active[w], index[w], result, w) /\ Mirrored(active[w], other[w])
    BY <2>1, <2>p DEF IInv, TypeOK, TilesInv
  <2>7. ASSUME NEW i \in 1 .. Len(active[w]) PROVE active[w][i][1] # file[c]
    <3>1. PICK f \in DOMAIN index[w] : active[w][i] = <<f, result[f][w].of>>
      BY <2>6 DEF Tiled
    <3>2. QED
      BY <2>5, <3>1
  <2>8. ASSUME NEW i \in 1 .. Len(other[w]) PROVE other[w][i][1] # file[c]
    <3>1. other[w][i] = active[w][i] \/ other[w][i] = <<NoCall, "empty">>
      BY <2>6 DEF Mirrored
    <3>2. NoCall # file[c]
      BY <2>3, PackedAssumption
    <3>3. QED
      BY <2>6, <2>7, <3>1, <3>2
  <2>9. \/ \E i \in 1 .. Len(active[w]) : u = active[w][i]
        \/ \E i \in 1 .. Len(other[w]) : u = other[w][i]
    BY <2>6 DEF Range
  <2>10. QED
    BY <2>7, <2>8, <2>9
<1>2. QED
  BY <1>1, Invariance, PTL

\* A file that retrieve() can be asked for has its pieces in all boxes that no collapse() is
\* dropping, unless it is being forgotten; and as long as there are three such boxes
\* retrieve("full") has returned its original.
THEOREM HeldFilesAreComplete == Spec => []HeldIsComplete
<1>1. IInv => HeldIsComplete
  <2>1. SUFFICES ASSUME IInv PROVE HeldIsComplete
    OBVIOUS
  <2>2. ASSUME NEW f \in DOMAIN meta, NEW w \in Standing, f \notin DOMAIN index[w]
        PROVE  \E c \in Runs("forget") : file[c] = f
    <3>1. f \in Calls /\ op[f] = "save" /\ pc[f] = "done" /\ w \in Pieces /\ w \notin dropped
      BY <2>1 DEF IInv, TypeOK, MetaInv, Standing
    <3>2. PICK c \in Calls : Forgetting(c) /\ file[c] = f /\ Through(c, w)
      BY <2>1, <2>2, <3>1 DEF IInv, HeldInv
    <3>3. /\ pc[c] # "idle" /\ op[c] = "forget" /\ todo[c] \in Fours /\ pc[c] \in Places
          /\ pc[c] = "done" => todo[c] = <<>>
      BY <2>1, <3>2 DEF Forgetting, Through, IInv, CallInv, Visits, TypeOK, Places
    <3>4. pc[c] # "done"
      BY <2>1, <2>2, <3>2, <3>3 DEF IInv, HeldInv
    <3>5. pc[c] # "raised"
      <4>1. SUFFICES ASSUME pc[c] = "raised" PROVE FALSE
        OBVIOUS
      <4>2. todo[c] # <<>> /\ Head(todo[c]) \in dropped
        BY <2>1, <2>2, <3>2, <4>1 DEF IInv, HeldInv, Box
      <4>3. Behind(todo[c], "visit", w)
        BY <3>2, <4>1 DEF Through, Behind
      <4>4. QED
        BY <2>1, <3>1, <3>3, <4>2, <4>3 DEF IInv, DropInv
    <3>6. QED
      BY <3>2, <3>3, <3>4, <3>5 DEF Runs
  <2>3. ASSUME NEW c \in Returned("retrieve"), result[c].which = "full", dropped = {}
        PROVE  ans[c] = Units(file[c], "raw")
    BY <2>1, <2>3 DEF Returned, IInv, FullInv
  <2>4. QED
    BY <2>2, <2>3 DEF HeldIsComplete
<1>2. QED
  BY <1>1, Invariance, PTL
=============================================================================
