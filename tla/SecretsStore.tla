----------------------------- MODULE SecretsStore -----------------------------
(***************************************************************************)
(* The secrets API (vstorage/secrets_api.py) over VirtualStorage           *)
(* (vstorage/system.py): store, retrieve, share, rotate and revoke of one  *)
(* key by concurrent calls, on one SecretsStore or on the replicas of a    *)
(* ReplicatedSecretsStore.  No class here has a lock: every look-up and    *)
(* every assignment is a step of its own.                                  *)
(*                                                                         *)
(* Every call is made once.  The secret it writes, the file_id it gets and *)
(* the _Entry it makes are named after it, so a fresh name is never reused.*)
(* A box of a file is what FallingBoxes shows of it: it holds its piece    *)
(* until it is collapsed and an empty buffer afterwards.                   *)
(***************************************************************************)
EXTENDS Splitter, FiniteSets

CONSTANTS
    Calls,     \* calls of the API
    Tokens,    \* the callers' tokens
    Replicas,  \* replica_count
    Parses,    \* does the parser get text out of a PDF?
    MaxRunning,\* at most this many calls are under way at a time
    NoCall     \* None

ASSUME SecretsAssumption ==
    Replicas \in Nat \ {0} /\ NoCall \notin Calls /\ Parses \in BOOLEAN /\ MaxRunning \in Nat

VARIABLES
    mode,     \* "single": a SecretsStore; "replicated": a ReplicatedSecretsStore
    kind,     \* the extension of the key, which is the name_hint of its files
    alive,    \* _alive
    entries,  \* _entries of each replica: the _Entry of the key
    file_id,  \* file_id of each _Entry
    shared,   \* _shared_with of each replica: a set of grants of the key, at most one
    held,     \* _held of each replica's storage
    boxes,    \* what the boxes of each file hold
    op, token,\* the calls, and who makes them
    pc,       \* where each call is
    at,       \* the replica it works on
    entry,    \* the _Entry it has looked up
    old,      \* the file it is to forget
    ans,      \* how it ended
    quiet     \* calls during which nobody wrote

store == <<entries, file_id, shared>>
vs    == <<held, boxes>>
args  == <<op, token>>
vars  == <<mode, kind, alive, store, vs, args, pc, at, entry, old, ans, quiet>>

Reps    == 1 .. Replicas
Writers == {"store", "share", "rotate", "revoke"}
Ops(m)  == IF m = "single" THEN Writers \cup {"retrieve"} ELSE {"store", "retrieve"}
Errors  == {"KeyError", "AuthError"}
Answers == Calls \cup Errors \cup {"none", "ok", "empty"}

TypeOK ==
    /\ mode \in {"single", "replicated"} /\ kind \in Kinds
    /\ alive \in [Reps -> BOOLEAN]
    /\ entries \in [Reps -> Calls \cup {NoCall}]
    /\ file_id \in [Reps -> [Calls -> Calls \cup {NoCall}]]
    /\ shared \in [Reps -> SUBSET SUBSET Tokens]
    /\ \A r \in Reps : Cardinality(shared[r]) <= 1
    /\ held \in [Reps -> SUBSET Calls]
    /\ boxes \in [Reps -> [Calls -> [Pieces -> {"none", "empty", "raw", "tag", "text", "meta"}]]]
    /\ op \in [Calls -> Writers \cup {"retrieve", "none"}] /\ token \in [Calls -> Tokens]
    /\ pc \in [Calls -> {"idle", "replica", "save", "entry", "shared", "look", "auth", "held",
                         "snapshot", "grant", "old", "swap", "pop", "collapse", "forgotten",
                         "unshare", "done"}]
    /\ at \in [Calls -> 1 .. Replicas + 1]
    /\ entry \in [Calls -> Calls \cup {NoCall}] /\ old \in [Calls -> Calls \cup {NoCall}]
    /\ ans \in [Calls -> Answers] /\ quiet \subseteq Calls

\* A store of each replica, over a virtual storage that holds nothing.
NewStores ==
    /\ entries = [r \in Reps |-> NoCall]
    /\ file_id = [r \in Reps |-> [c \in Calls |-> NoCall]]
    /\ shared = [r \in Reps |-> {}]
    /\ held = [r \in Reps |-> {}]
    /\ boxes = [r \in Reps |-> [c \in Calls |-> [p \in Pieces |-> "none"]]]

Init ==
    /\ mode \in {"single", "replicated"} /\ kind \in {"pdf", "text"}
    /\ alive = [r \in Reps |-> mode = "replicated" \/ r = 1]
    /\ NewStores
    /\ op = [c \in Calls |-> "none"] /\ token \in [Calls -> Tokens]
    /\ pc = [c \in Calls |-> "idle"] /\ at = [c \in Calls |-> 1]
    /\ entry = [c \in Calls |-> NoCall] /\ old = [c \in Calls |-> NoCall]
    /\ ans = [c \in Calls |-> "none"] /\ quiet = {}

-----------------------------------------------------------------------------
Goto(c, l) == pc' = [pc EXCEPT ![c] = l]
World      == UNCHANGED <<mode, kind, alive, args, quiet>>
Running(c) == pc[c] \notin {"idle", "done"}
Writing    == {c \in Calls : Running(c) /\ op[c] \in Writers}

\* A call ends here, or goes on with the next replica: a store() that is through with
\* this one, a retrieve() that did not find its key on it.
End(c, a) ==
    /\ IF mode = "replicated" /\ (op[c] = "store" \/ a = "KeyError")
       THEN at' = [at EXCEPT ![c] = @ + 1] /\ Goto(c, "replica") /\ UNCHANGED ans
       ELSE ans' = [ans EXCEPT ![c] = a] /\ Goto(c, "done") /\ UNCHANGED at
Raise(c, e) == End(c, e) /\ UNCHANGED <<store, vs, entry, old>> /\ World

Begin(c, o) ==
    /\ pc[c] = "idle" /\ o \in Ops(mode)
    /\ Cardinality({d \in Calls : Running(d)}) < MaxRunning
    /\ op' = [op EXCEPT ![c] = o]
    /\ quiet' = IF o \in Writers THEN {} ELSE IF Writing = {} THEN quiet \cup {c} ELSE quiet
    /\ Goto(c, IF mode = "replicated" THEN "replica" ELSE IF o = "store" THEN "save" ELSE "look")
    /\ UNCHANGED <<mode, kind, alive, store, vs, token, at, entry, old, ans>>

\* for i, replica in enumerate(_replicas): if _alive[i]
NextReplica(c) ==
    /\ pc[c] = "replica"
    /\ \/ /\ at[c] > Replicas
          /\ ans' = [ans EXCEPT ![c] = IF op[c] = "store" THEN "ok" ELSE "KeyError"]
          /\ Goto(c, "done") /\ UNCHANGED at
       \/ /\ at[c] <= Replicas /\ ~alive[at[c]]
          /\ at' = [at EXCEPT ![c] = @ + 1] /\ UNCHANGED <<ans, pc>>
       \/ /\ at[c] <= Replicas /\ alive[at[c]]
          /\ Goto(c, IF op[c] = "store" THEN "save" ELSE "look") /\ UNCHANGED <<ans, at>>
    /\ UNCHANGED <<store, vs, entry, old>> /\ World

\* kill_replica(): nothing of it can be reached any more.
KillReplica(r) ==
    /\ mode = "replicated" /\ alive[r]
    /\ alive' = [alive EXCEPT ![r] = FALSE]
    /\ UNCHANGED <<mode, kind, store, vs, args, pc, at, entry, old, ans, quiet>>

-----------------------------------------------------------------------------
(* VirtualStorage.                                                         *)

\* save_bytes() and _hold(): split, compress, box, publish.
Hold(r, c) ==
    LET result == split_bytes(Bytes("raw"), kind, Parses) IN
    /\ \A p \in Pieces : Compressible(result[p])
    /\ boxes' = [boxes EXCEPT ![r][c] = [p \in Pieces |-> result[p].of]]
    /\ held' = [held EXCEPT ![r] = @ \cup {c}]

\* retrieve(file_id, "full"): the box of the held file, then its snapshot, decompressed.
LookUpHeld(c) ==
    /\ pc[c] = "held"
    /\ LET f == file_id[at[c]][entry[c]] IN
       IF f \in held[at[c]]
       THEN old' = [old EXCEPT ![c] = f] /\ Goto(c, "snapshot")
            /\ UNCHANGED <<store, vs, at, entry, ans>> /\ World
       ELSE Raise(c, "KeyError")

Snapshot(c) ==
    /\ pc[c] = "snapshot"
    /\ LET from == split_bytes(Bytes("raw"), kind, Parses).reconstruct_from
       IN  End(c, IF boxes[at[c]][old[c]][from] = "raw" THEN old[c] ELSE "empty")
    /\ UNCHANGED <<store, vs, entry, old>> /\ World

\* forget(): pop the file, then collapse its boxes one after the other.
ForgetPop(c) ==
    /\ pc[c] = "pop"
    /\ held' = [held EXCEPT ![at[c]] = @ \ {old[c]}]
    /\ Goto(c, IF old[c] \in held[at[c]] THEN "collapse" ELSE "forgotten")
    /\ UNCHANGED <<store, boxes, at, entry, old, ans>> /\ World

ForgetCollapse(c) ==
    /\ pc[c] = "collapse"
    /\ LET r == at[c]  left == {p \in Pieces : boxes[r][old[c]][p] # "none"} IN
       \E p \in left :
          /\ p = "structure" => "content" \notin left
          /\ p = "metadata" => left = {p}
          /\ boxes' = [boxes EXCEPT ![r][old[c]][p] = "none"]
          /\ IF left = {p} THEN Goto(c, "forgotten") ELSE UNCHANGED pc
    /\ UNCHANGED <<store, held, at, entry, old, ans>> /\ World

-----------------------------------------------------------------------------
(* SecretsStore.                                                           *)

StoreSave(c) ==
    /\ pc[c] = "save" /\ op[c] = "store"
    /\ Hold(at[c], c) /\ Goto(c, "entry")
    /\ UNCHANGED <<store, at, entry, old, ans>> /\ World

StoreEntry(c) ==
    /\ pc[c] = "entry"
    /\ entries' = [entries EXCEPT ![at[c]] = c]
    /\ file_id' = [file_id EXCEPT ![at[c]][c] = c]
    /\ Goto(c, "shared")
    /\ UNCHANGED <<shared, vs, at, entry, old, ans>> /\ World

\* Mutant of StoreShared: only the first replica that is alive is written.
StoreSharedOnce(c) ==
    /\ pc[c] = "shared"
    /\ shared' = [shared EXCEPT ![at[c]] = {{}}]
    /\ ans' = [ans EXCEPT ![c] = "ok"] /\ Goto(c, "done")
    /\ UNCHANGED <<entries, file_id, vs, at, entry, old>> /\ World

StoreShared(c) ==
    /\ pc[c] = "shared"
    /\ shared' = [shared EXCEPT ![at[c]] = {{}}]
    /\ End(c, "ok")
    /\ UNCHANGED <<entries, file_id, vs, entry, old>> /\ World

\* entry = self._entries.get(key), and for all but retrieve() the owner's check.
LookUp(c) ==
    /\ pc[c] = "look"
    /\ LET e == entries[at[c]] IN
       CASE e = NoCall -> Raise(c, "KeyError")
         [] e # NoCall /\ op[c] # "retrieve" /\ token[c] # token[e] -> Raise(c, "AuthError")
         [] OTHER ->
              /\ entry' = [entry EXCEPT ![c] = e]
              /\ Goto(c, CASE op[c] = "retrieve" -> "auth" [] op[c] = "share" -> "grant"
                           [] op[c] = "rotate" -> "save" [] op[c] = "revoke" -> "old")
              /\ UNCHANGED <<store, vs, at, old, ans>> /\ World

\* retrieve(): the owner, or whoever is in _shared_with[key] by now.
Authorize(c) ==
    /\ pc[c] = "auth"
    /\ LET grants == shared[at[c]] IN
       CASE token[c] # token[entry[c]] /\ grants = {} -> Raise(c, "KeyError")
         [] token[c] # token[entry[c]] /\ grants # {} /\ token[c] \notin UNION grants -> Raise(c, "AuthError")
         [] OTHER -> Goto(c, "held") /\ UNCHANGED <<store, vs, at, entry, old, ans>> /\ World

Share(c) ==
    /\ pc[c] = "grant"
    /\ IF shared[at[c]] = {} THEN Raise(c, "KeyError")
       ELSE /\ \E t \in Tokens : shared' = [shared EXCEPT ![at[c]] = {(UNION @) \cup {t}}]
            /\ End(c, "ok")
            /\ UNCHANGED <<entries, file_id, vs, entry, old>> /\ World

RotateSave(c) ==
    /\ pc[c] = "save" /\ op[c] = "rotate"
    /\ Hold(at[c], c) /\ Goto(c, "old")
    /\ UNCHANGED <<store, at, entry, old, ans>> /\ World

\* Mutant of ReadOld: rotate() forgets the old file before it points to the new one.
ReadOldForgets(c) ==
    /\ pc[c] = "old"
    /\ old' = [old EXCEPT ![c] = file_id[at[c]][entry[c]]]
    /\ Goto(c, "pop")
    /\ UNCHANGED <<store, vs, at, entry, ans>> /\ World

\* old_file_id = entry.file_id (rotate), or the argument of forget() (revoke).
ReadOld(c) ==
    /\ pc[c] = "old"
    /\ old' = [old EXCEPT ![c] = file_id[at[c]][entry[c]]]
    /\ Goto(c, IF op[c] = "rotate" THEN "swap" ELSE "pop")
    /\ UNCHANGED <<store, vs, at, entry, ans>> /\ World

\* Mutant of RotateSwap: old_file_id is read after the assignment.
RotateSwapFirst(c) ==
    /\ pc[c] = "swap"
    /\ file_id' = [file_id EXCEPT ![at[c]][entry[c]] = c]
    /\ old' = [old EXCEPT ![c] = c] /\ Goto(c, "pop")
    /\ UNCHANGED <<entries, shared, vs, at, entry, ans>> /\ World

RotateSwap(c) ==
    /\ pc[c] = "swap"
    /\ file_id' = [file_id EXCEPT ![at[c]][entry[c]] = c]
    /\ Goto(c, "pop")
    /\ UNCHANGED <<entries, shared, vs, at, entry, old, ans>> /\ World

\* What follows forget(): rotate() returns, revoke() deletes the key.
Forgotten(c) ==
    /\ pc[c] = "forgotten"
    /\ CASE op[c] = "rotate" -> Raise(c, "ok")
         [] op[c] = "revoke" /\ entries[at[c]] = NoCall -> Raise(c, "KeyError")
         [] OTHER -> /\ entries' = [entries EXCEPT ![at[c]] = NoCall]
                     /\ Goto(c, "unshare")
                     /\ UNCHANGED <<file_id, shared, vs, at, entry, old, ans>> /\ World

RevokeShared(c) ==
    /\ pc[c] = "unshare"
    /\ End(c, IF shared[at[c]] = {} THEN "KeyError" ELSE "ok")
    /\ shared' = [shared EXCEPT ![at[c]] = {}]
    /\ UNCHANGED <<entries, file_id, vs, entry, old>> /\ World

-----------------------------------------------------------------------------
Next ==
    \/ \E c \in Calls :
        \/ \E o \in Ops(mode) : Begin(c, o)
        \/ NextReplica(c) \/ LookUpHeld(c) \/ Snapshot(c) \/ ForgetPop(c) \/ ForgetCollapse(c)
        \/ StoreSave(c) \/ StoreEntry(c) \/ StoreShared(c) \/ LookUp(c) \/ Authorize(c)
        \/ Share(c) \/ RotateSave(c) \/ ReadOld(c) \/ RotateSwap(c) \/ Forgotten(c) \/ RevokeShared(c)
    \/ \E r \in Reps : KillReplica(r)

Spec == Init /\ [][Next]_vars

-----------------------------------------------------------------------------
\* The files of the key's entry on a replica, with all their boxes falling.
Whole(r, f) == f \in held[r] /\ \A p \in Pieces : boxes[r][f][p] # "none"

\* "No window where neither exists": whatever rotations, stores and revocations meet, the
\* file of a key's entry is held whole, unless a revoke() of that very entry is under way.
EntryIsLive ==
    /\ TypeOK
    /\ \A r \in Reps : entries[r] # NoCall =>
        \/ Whole(r, file_id[r][entries[r]])
        \/ \E c \in Writing : op[c] = "revoke" /\ entry[c] = entries[r]

\* Whatever races the writers had among themselves, a retrieve() of the owner that begins
\* when they are done, and is not disturbed, finds the value of the key.
QuietOwnerRead ==
    \A c \in quiet :
        pc[c] = "done" /\ mode = "single" /\ entries[1] # NoCall /\ token[c] = token[entries[1]]
            => ans[c] = file_id[1][entries[1]]

\* When a store() has returned, every replica that is still alive can serve the key: a
\* crash of some of them loses nothing.
StoredOnEveryReplica ==
    mode = "replicated" /\ (\E c \in Calls : op[c] = "store" /\ pc[c] = "done") =>
        \A r \in Reps : alive[r] => entries[r] # NoCall /\ Whole(r, file_id[r][entries[r]])
=============================================================================
