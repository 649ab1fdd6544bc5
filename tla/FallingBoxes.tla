----------------------------- MODULE FallingBoxes -----------------------------
(***************************************************************************)
(* The boxes that fall in a thread of their own: FallingBox, the box of    *)
(* VirtualStorage (vstorage/falling_box.py), the five it was developed     *)
(* into (vstorage/superseded/), and the prototype they all come from       *)
(* (backup-original-source/vstorage/falling_storage.py).  Init picks the   *)
(* class of the box.                                                       *)
(*                                                                         *)
(*   plain      two bytearrays, copied in pieces of 64 KB                  *)
(*   mapped     two anonymous mappings, copied in one piece                *)
(*   many       n bytearrays                                               *)
(*   zeroing    two bytearrays; the old one is zeroed after every hop      *)
(*   encrypted  one mapping; every hop ratchets the key in a bytearray     *)
(*   combined   one mapping; the key is in a SplitKeyGuard and the ratchet *)
(*              may fetch() from a trust group, which may raise            *)
(*   ports      the prototype: pieces that move round a ring of ports; it  *)
(*              is read under the lock alone and joined without a timeout  *)
(*                                                                         *)
(* The others share the loop of _fall_forever, the pause flag and lock of  *)
(* snapshot(), and a collapse() that waits a second for the thread and     *)
(* then drops the buffers without the lock.                                *)
(***************************************************************************)
EXTENDS Integers, Sequences, FiniteSets

CONSTANTS
    NumChunks,  \* pieces of 64 KB in the data
    NumBoxes,   \* n_boxes of NFallingBox, num_ports of FallingFile
    NumKeys,    \* generations of keys told apart
    Readers     \* callers of snapshot()

ASSUME FallingAssumption ==
    /\ NumChunks \in Nat \ {0} /\ NumBoxes \in Nat \ {0, 1}
    /\ NumKeys \in Nat \ {0, 1} /\ IsFiniteSet(Readers)
    /\ Readers \cap {"nobody", "thread"} = {}

VARIABLES
    kind,      \* the class of the box
    extra,     \* pieces a FallingFile has beyond its ports
    bufs,      \* its buffers, as sequences of pieces
    active,    \* _active
    key,       \* generation of _key or of the guard's key; 0 once wiped or closed
    lock,      \* owner of _lock
    paused,    \* _paused
    stop,      \* _stop
    tpc,       \* where the thread is
    at,        \* i of its loops
    held,      \* what it has in hand: a piece, or a key generation
    hops,      \* parity of _hops
    timedOut,  \* whether join() timed out
    rpc,       \* where each snapshot() is
    got,       \* what it read
    cpc        \* where collapse() is

box    == <<bufs, active, key>>
thread == <<tpc, at, held, hops>>
reader == <<rpc, got>>
vars   == <<kind, extra, box, lock, paused, stop, thread, timedOut, reader, cpc>>

Copying    == {"plain", "mapped", "many", "zeroing"}
Ratcheting == {"encrypted", "combined"}
Mapped     == {"mapped"} \cup Ratcheting
\* NFallingBox and ZeroingFallingBox have neither snapshot() nor a pause flag.
Readable   == {"plain", "mapped"} \cup Ratcheting

Closed == <<-1>>  \* a closed mapping: every use raises ValueError
Nobody == "nobody"

Pieces    == CASE kind \in {"plain", "many", "zeroing"} -> NumChunks
               [] kind = "ports" -> NumBoxes + extra
               [] OTHER -> 1
Data      == [i \in 1 .. Pieces |-> IF kind = "ports" THEN i ELSE 1]
Zeros     == [i \in 1 .. Pieces |-> 0]
Slots     == 1 .. (CASE kind = "many" -> NumBoxes [] kind \in Ratcheting \cup {"ports"} -> 1 [] OTHER -> 2)
Target    == 1 + (active % Cardinality(Slots))
Ratchet(k) == IF k = 0 THEN NumKeys + 1 ELSE 1 + (k % NumKeys)

\* b[i:i + 1], and b[i:i + len(c)] = c, which makes a shorter bytearray longer.
Piece(b, i) == IF i <= Len(b) THEN <<b[i]>> ELSE <<>>
Assign(b, i, c) == IF c = <<>> THEN b ELSE IF i <= Len(b) THEN [b EXCEPT ![i] = c[1]] ELSE b \o c

Values == (-1 .. NumKeys + 1) \cup (1 .. 2 * NumBoxes)

TypeOK ==
    /\ kind \in Copying \cup Ratcheting \cup {"ports"} /\ extra \in 0 .. NumBoxes - 1
    /\ bufs \in [Slots -> Seq(Values)] /\ active \in Slots
    /\ \A s \in Slots : Len(bufs[s]) <= Pieces
    /\ key \in 0 .. NumKeys + 1
    /\ lock \in {Nobody, "thread"} \cup Readers
    /\ paused \in BOOLEAN /\ stop \in BOOLEAN
    /\ tpc \in {"check", "lock", "read", "write", "zero", "turn", "seal", "land", "ended"}
    /\ at \in 1 .. NumChunks + 1 /\ held \in Seq(0 .. NumKeys + 1) /\ hops \in {0, 1}
    /\ timedOut \in BOOLEAN
    /\ rpc \in [Readers -> {"idle", "lock", "locked", "clear", "done", "raised"}]
    /\ got \in [Readers -> Seq(Values)]
    /\ cpc \in {"no", "join", "first", "second", "done"}

-----------------------------------------------------------------------------
\* The constructors: what the buffers hold when the thread starts.
NewFallingBox     == bufs = <<Data, Zeros>> /\ key = 0
NewSecureBox      == bufs = <<Data, Zeros>> /\ key = 0
NewNFallingBox    == bufs = [s \in Slots |-> IF s = 1 THEN Data ELSE Zeros] /\ key = 0
NewZeroingBox     == bufs = <<Data, Zeros>> /\ key = 0
NewEncryptedBox   == bufs = <<<<1>>>> /\ key = 1
NewCombinedBox    == bufs = <<<<1>>>> /\ key = 1
\* Pieces of len(data) // num_ports bytes: one for every port, and up to num_ports - 1
\* more when the length is no multiple of num_ports; the list of ports is then longer.
NewFallingFile    == bufs = <<Data>> /\ key = 0

Init ==
    /\ kind \in Copying \cup Ratcheting \cup {"ports"}
    /\ extra \in IF kind = "ports" THEN 0 .. NumBoxes - 1 ELSE {0}
    /\ CASE kind = "plain"     -> NewFallingBox
         [] kind = "mapped"    -> NewSecureBox
         [] kind = "many"      -> NewNFallingBox
         [] kind = "zeroing"   -> NewZeroingBox
         [] kind = "encrypted" -> NewEncryptedBox
         [] kind = "combined"  -> NewCombinedBox
         [] kind = "ports"     -> NewFallingFile
    /\ active = 1 /\ lock = Nobody /\ paused = FALSE /\ stop = FALSE
    /\ tpc = "check" /\ at = 1 /\ held = <<>> /\ hops = 0
    /\ timedOut = FALSE
    /\ rpc = [r \in Readers |-> "idle"] /\ got = [r \in Readers |-> <<>>]
    /\ cpc = "no"

-----------------------------------------------------------------------------
(* _fall_forever.                                                          *)

Others == UNCHANGED <<kind, extra, paused, stop, reader, cpc>>

\* The head of the loop: leave it, wait a millisecond, or go on to the hop.
CheckTurn(leave, wait) ==
    /\ tpc = "check" /\ ~wait
    /\ tpc' = IF leave THEN "ended" ELSE "lock"
    /\ UNCHANGED <<box, lock, at, held, hops, timedOut>> /\ Others

\* Mutant of Check: the pause flag is looked at before _stop.
CheckPauseFirst == CheckTurn(stop, kind \in Readable /\ paused)

\* while not _stop.is_set(): if _paused.is_set(): wait, continue
Check == CheckTurn(stop, ~stop /\ kind \in Readable /\ paused)

Acquire ==
    /\ tpc = "lock" /\ lock = Nobody
    /\ lock' = "thread" /\ tpc' = "read" /\ at' = 1
    /\ UNCHANGED <<box, held, hops, timedOut>> /\ Others

\* An exception in the hop: the lock is let go, the thread ends.
Die ==
    /\ tpc' = "ended" /\ lock' = Nobody
    /\ UNCHANGED <<box, at, held, hops, timedOut>> /\ Others

Step(pc) == tpc' = pc /\ UNCHANGED <<lock, hops, timedOut>> /\ Others

\* The loop over the pieces: read one from the active buffer, write it to the next.
Copy(after) ==
    \/ /\ tpc = "read" /\ at <= Pieces
       /\ held' = Piece(bufs[active], at)
       /\ UNCHANGED <<box, at>> /\ Step("write")
    \/ /\ tpc = "write"
       /\ bufs' = [bufs EXCEPT ![Target] = Assign(@, at, held)]
       /\ at' = at + 1
       /\ UNCHANGED <<active, key, held>> /\ Step("read")
    \/ /\ tpc = "read" /\ at > Pieces
       /\ at' = 1
       /\ UNCHANGED <<box, held>> /\ Step(after)

Land ==
    /\ tpc = "land"
    /\ active' = Target /\ hops' = 1 - hops /\ lock' = Nobody /\ tpc' = "check"
    /\ UNCHANGED <<bufs, key, at, held, timedOut>> /\ Others

FallingHop == kind = "plain" /\ Copy("land")

\* A closed mapping raises, at its end of the copy.
SecureHop ==
    /\ kind = "mapped"
    /\ \/ /\ \/ tpc = "read" /\ at = 1 /\ bufs[active] = Closed
             \/ tpc = "write" /\ bufs[Target] = Closed
          /\ Die
       \/ /\ tpc = "read" /\ at = 1 => bufs[active] # Closed
          /\ tpc = "write" => bufs[Target] # Closed
          /\ Copy("land")

\* src and dst are looked up once, before the first piece: in a dropped list there are
\* none, and what a loop that has them still copies is out of everybody's reach.
NHop ==
    /\ kind = "many"
    /\ \/ cpc # "done" /\ Copy("land")
       \/ cpc = "done" /\ tpc = "read" /\ at = 1 /\ Die
       \/ /\ cpc = "done" /\ tpc \in {"read", "write"}
          /\ UNCHANGED <<box, at, held>> /\ Step("land")

\* Mutant of ZeroingHop: the old buffer is not zeroed.
ZeroingHopKeeps == kind = "zeroing" /\ Copy("land")

\* Zeroing indexes the buffer piece by piece, and raises when it has been replaced.
ZeroingHop ==
    /\ kind = "zeroing"
    /\ \/ Copy("zero")
       \/ /\ tpc = "zero" /\ at <= Pieces /\ at <= Len(bufs[active])
          /\ bufs' = [bufs EXCEPT ![active][at] = 0] /\ at' = at + 1
          /\ UNCHANGED <<active, key, held>> /\ Step("zero")
       \/ tpc = "zero" /\ at <= Pieces /\ at > Len(bufs[active]) /\ Die
       \/ /\ tpc = "zero" /\ (at > Pieces \/ (at = 1 /\ bufs[active] = <<>>))
          /\ UNCHANGED <<box, at, held>> /\ Step("land")

\* decrypt, ratchet the key in place, encrypt under whatever _key holds by then, write.
EncryptedHop ==
    /\ kind = "encrypted"
    /\ \/ tpc = "read" /\ bufs[1] # <<key>> /\ Die
       \/ /\ tpc = "read" /\ bufs[1] = <<key>>
          /\ UNCHANGED <<box, at, held>> /\ Step("turn")
       \/ /\ tpc = "turn"
          /\ key' = Ratchet(key)
          /\ UNCHANGED <<bufs, active, at, held>> /\ Step("seal")
       \/ /\ tpc = "seal"
          /\ held' = <<key>>
          /\ UNCHANGED <<box, at>> /\ Step("write")
       \/ tpc = "write" /\ bufs[1] = Closed /\ Die
       \/ /\ tpc = "write" /\ bufs[1] # Closed
          /\ bufs' = <<held>>
          /\ UNCHANGED <<active, key, at, held>> /\ Step("land")

\* _next_key: the ratchet of the key in hand, or an exception of fetch().
NextKey(k) == Ratchet(k)
FetchRaises == tpc = "turn" /\ Die

\* The keys are locals here; reconstruct() and update() raise on a collapsed guard.
CombinedHop ==
    /\ kind = "combined"
    /\ \/ tpc = "read" /\ bufs[1] # <<key>> /\ Die
       \/ /\ tpc = "read" /\ bufs[1] = <<key>>
          /\ held' = <<key>>
          /\ UNCHANGED <<box, at>> /\ Step("turn")
       \/ FetchRaises
       \/ /\ tpc = "turn"
          /\ held' = <<NextKey(held[1])>>
          /\ UNCHANGED <<box, at>> /\ Step("seal")
       \/ tpc = "seal" /\ key = 0 /\ Die
       \/ /\ tpc = "seal" /\ key # 0
          /\ key' = held[1]
          /\ UNCHANGED <<bufs, active, at, held>> /\ Step("write")
       \/ tpc = "write" /\ bufs[1] = Closed /\ Die
       \/ /\ tpc = "write" /\ bufs[1] # Closed
          /\ bufs' = <<held>>
          /\ UNCHANGED <<active, key, at, held>> /\ Step("land")

\* new_ports[(i + 1) % num_ports] = ports[i], and the list is replaced: of two pieces
\* that move to one port the later one stays.
PortsBefore(p) == {i \in DOMAIN bufs[1] : (i % NumBoxes) + 1 = p}

PortsHop ==
    /\ kind = "ports" /\ tpc = "read"
    /\ bufs' = <<[p \in 1 .. NumBoxes |->
                     bufs[1][CHOOSE i \in PortsBefore(p) : \A j \in PortsBefore(p) : j <= i]]>>
    /\ UNCHANGED <<active, key, at, held>> /\ Step("land")

Thread ==
    \/ Check \/ Acquire \/ Land
    \/ FallingHop \/ SecureHop \/ NHop \/ ZeroingHop \/ EncryptedHop \/ CombinedHop
    \/ PortsHop

-----------------------------------------------------------------------------
(* snapshot(): pause, lock, copy, unlock, resume.  No finally.             *)

Caller(r, pc) == rpc' = [rpc EXCEPT ![r] = pc] /\ UNCHANGED <<kind, extra, box, stop, thread, timedOut, cpc>>

Pause(r) ==
    /\ kind \in Readable /\ rpc[r] = "idle"
    /\ paused' = TRUE
    /\ UNCHANGED <<lock, got>> /\ Caller(r, "lock")

\* Mutant of Lock: the snapshot does not wait for the hop under way.
LockBarges(r) ==
    /\ rpc[r] = "lock" /\ lock' = r
    /\ UNCHANGED <<paused, got>> /\ Caller(r, "locked")

Lock(r) ==
    /\ rpc[r] = "lock" /\ lock = Nobody
    /\ lock' = r
    /\ UNCHANGED <<paused, got>> /\ Caller(r, "locked")

Taken(r, b) ==
    /\ rpc[r] = "locked"
    /\ got' = [got EXCEPT ![r] = b] /\ lock' = Nobody
    /\ UNCHANGED paused /\ Caller(r, "clear")

Fails(r) ==
    /\ rpc[r] = "locked"
    /\ lock' = Nobody
    /\ UNCHANGED <<paused, got>> /\ Caller(r, "raised")

FallingSnapshot(r) == kind = "plain" /\ Taken(r, bufs[active])

SecureSnapshot(r) ==
    /\ kind = "mapped"
    /\ IF bufs[active] = Closed THEN Fails(r) ELSE Taken(r, bufs[active])

EncryptedSnapshot(r) ==
    /\ kind = "encrypted"
    /\ IF bufs[1] = <<key>> THEN Taken(r, Data) ELSE Fails(r)

CombinedSnapshot(r) ==
    /\ kind = "combined"
    /\ IF bufs[1] = <<key>> THEN Taken(r, Data) ELSE Fails(r)

\* sorted() of a set of pieces.
Sorted(S) == CHOOSE s \in [1 .. Cardinality(S) -> S] : \A i, j \in DOMAIN s : i < j => s[i] < s[j]

\* reconstruct(): no pause flag; the pieces the ports have, in their order.
Reconstruct(r) ==
    /\ kind = "ports"
    /\ \/ rpc[r] = "idle" /\ UNCHANGED <<paused, lock, got>> /\ Caller(r, "lock")
       \/ /\ rpc[r] = "locked"
          /\ got' = [got EXCEPT ![r] = Sorted({bufs[1][p] : p \in DOMAIN bufs[1]})] /\ lock' = Nobody
          /\ UNCHANGED paused /\ Caller(r, "done")

Resume(r) ==
    /\ rpc[r] = "clear"
    /\ paused' = FALSE
    /\ UNCHANGED <<lock, got>> /\ Caller(r, "done")

Snapshot(r) ==
    \/ Pause(r) \/ Lock(r) \/ Resume(r)
    \/ FallingSnapshot(r) \/ SecureSnapshot(r) \/ EncryptedSnapshot(r) \/ CombinedSnapshot(r)
    \/ Reconstruct(r)

-----------------------------------------------------------------------------
(* collapse(): stop, join for a second, drop.                              *)

SetStop ==
    /\ cpc = "no"
    /\ stop' = TRUE /\ cpc' = "join"
    /\ UNCHANGED <<kind, extra, box, lock, paused, thread, timedOut, reader>>

\* Mutant of Join: the thread is not waited for.
JoinSkipped ==
    /\ cpc = "join" /\ cpc' = "first"
    /\ UNCHANGED <<kind, extra, box, lock, paused, stop, thread, timedOut, reader>>

Join ==
    /\ cpc = "join" /\ (kind = "ports" => tpc = "ended")
    /\ timedOut' = (tpc # "ended")
    /\ cpc' = "first"
    /\ UNCHANGED <<kind, extra, box, lock, paused, stop, thread, reader>>

Drop(pc, next) ==
    /\ cpc = pc /\ cpc' = next
    /\ UNCHANGED <<kind, extra, active, lock, paused, stop, thread, timedOut, reader>>

\* The two assignments, or close() calls, one after the other.
DropBoth(empty) ==
    /\ UNCHANGED key
    /\ \/ bufs' = [bufs EXCEPT ![1] = empty] /\ Drop("first", "second")
       \/ bufs' = [bufs EXCEPT ![2] = empty] /\ Drop("second", "done")

\* The key first, then the mapping.
DropKeyed ==
    \/ key' = 0 /\ UNCHANGED bufs /\ Drop("first", "second")
    \/ bufs' = <<Closed>> /\ UNCHANGED key /\ Drop("second", "done")

CollapseFallingBox == kind = "plain" /\ DropBoth(<<>>)
CollapseSecureBox  == kind = "mapped" /\ DropBoth(Closed)
CollapseZeroingBox == kind = "zeroing" /\ DropBoth(<<>>)
CollapseNFallingBox ==
    /\ kind = "many"
    /\ bufs' = [s \in Slots |-> <<>>] /\ UNCHANGED key
    /\ Drop("first", "done")
CollapseEncryptedBox == kind = "encrypted" /\ DropKeyed
CollapseCombinedBox  == kind = "combined" /\ DropKeyed
\* stop() of the prototype lets the thread end and keeps the data.
StopFallingFile == kind = "ports" /\ UNCHANGED <<bufs, key>> /\ Drop("first", "done")

Collapse ==
    \/ SetStop \/ Join
    \/ CollapseFallingBox \/ CollapseSecureBox \/ CollapseZeroingBox
    \/ CollapseNFallingBox \/ CollapseEncryptedBox \/ CollapseCombinedBox
    \/ StopFallingFile

-----------------------------------------------------------------------------
Next == Thread \/ (\E r \in Readers : Snapshot(r)) \/ Collapse

Spec == Init /\ [][Next]_vars

\* The thread and the callers run whenever they can; nobody has to collapse a box, and
\* once it is begun a collapse goes on.  No fairness of the lock is assumed.
FairSpec ==
    /\ Spec
    /\ WF_vars(Thread) /\ WF_vars(cpc # "no" /\ Collapse)
    /\ \A r \in Readers : WF_vars(rpc[r] # "idle" /\ Snapshot(r))

-----------------------------------------------------------------------------
\* What the first hop leaves of a FallingFile with more pieces than ports: its end.
Survivors == [i \in 1 .. NumBoxes |-> extra + i]

\* A snapshot() that read the box before anybody began to collapse it has all the
\* data: the pieces of a hop under way are never mixed into it.  One class of file is
\* the exception, and it is lost in one way only: a FallingFile with more pieces than
\* ports reads whole before its first hop, and without its first pieces after it.
SnapshotIsWhole ==
    \A r \in Readers : ~stop =>
        /\ rpc[r] # "raised"
        /\ rpc[r] \in {"clear", "done"} => got[r] = Data \/ (extra > 0 /\ got[r] = Survivors)

\* Between two hops a zeroing box has one copy of the data, and an encrypted one has
\* the key its ciphertext opens with, also after a fetch() that ended the thread.
AtRest ==
    lock = Nobody /\ ~stop =>
        /\ kind = "zeroing" => \A s \in Slots : bufs[s] = IF s = active THEN Data ELSE Zeros
        /\ kind \in Ratcheting => bufs[1] = <<key>>

\* After a collapse() no buffer can be read, whatever the hop under way was doing when
\* they were dropped.  Two classes keep that promise only when join() returned because
\* the thread had ended: the late hop of a FallingBox or a ZeroingFallingBox finds the
\* new bytearrays by their names and copies data into them, where it stays.
BuffersAreGone ==
    kind # "ports" /\ (kind \in {"plain", "zeroing"} => ~timedOut) =>
        \A s \in Slots : bufs[s] \in {<<>>, Closed}

\* The key is gone, or is the ratchet of the wiped one, with which nothing that can
\* still be read was encrypted.
KeyIsGone == key = 0 \/ (kind = "encrypted" /\ timedOut /\ key = Ratchet(0))

\* collapse() is final, for buffers and keys; if its join() did not time out the thread
\* has ended, and the prototype's stop() leaves no thread.
CollapseIsFinal ==
    TypeOK /\ (cpc = "done" => BuffersAreGone /\ KeyIsGone /\ (timedOut \/ tpc = "ended"))

\* A caller that paused the box gets its lock, unless another caller's resume has set
\* the box falling again: the pause makes the thread leave the lock alone.
PauseHandsOver ==
    \A r \in Readers : rpc[r] = "lock" /\ paused ~> rpc[r] # "lock" \/ ~paused

\* A box nobody collapses keeps falling, whoever reads it, unless its fetch() fails.
KeepsFalling == \A p \in {0, 1} : []<>(hops = p \/ stop \/ tpc = "ended")

\* The thread of a collapsed box ends, also when a snapshot() of the closed box has
\* raised and left the pause flag set.
ThreadEnds == stop ~> tpc = "ended"

\* Nobody waits for ever: not a caller for the lock of a box it paused, not a box for a
\* pause to end, and not a collapsed box for its thread.
NobodyWaits == PauseHandsOver /\ KeepsFalling /\ ThreadEnds
=============================================================================
