-------------------------- MODULE SecretsStoreProofs --------------------------
(***************************************************************************)
(* Proofs about SecretsStore, for every set of calls and tokens and any    *)
(* number of replicas and of calls under way.                              *)
(***************************************************************************)
EXTENDS SecretsStore, FiniteSetTheorems, TLAPS

\* Which operation is where, on which replica, and what it has looked up by then.
Control(c) ==
    /\ op[c] = "none" <=> pc[c] = "idle"
    /\ pc[c] = "save" => op[c] \in {"store", "rotate"}
    /\ pc[c] \in {"entry", "shared"} => op[c] = "store"
    /\ pc[c] = "look" => op[c] \in {"retrieve", "share", "rotate", "revoke"}
    /\ pc[c] \in {"auth", "held", "snapshot"} => op[c] = "retrieve"
    /\ pc[c] = "grant" => op[c] = "share"
    /\ pc[c] \in {"old", "pop", "collapse", "forgotten"} => op[c] \in {"rotate", "revoke"}
    /\ pc[c] = "swap" => op[c] = "rotate"
    /\ pc[c] = "unshare" => op[c] = "revoke"
    /\ mode = "single" => at[c] = 1 /\ pc[c] # "replica"
    /\ mode = "replicated" => op[c] \in {"none", "store", "retrieve"}
    /\ pc[c] \notin {"idle", "replica", "done"} => at[c] \in Reps
    /\ pc[c] = "idle" => at[c] = 1
    /\ pc[c] \in {"auth", "held", "snapshot", "grant", "old", "swap", "pop", "collapse",
                  "forgotten", "unshare"} => entry[c] \in Calls
    /\ pc[c] = "save" /\ op[c] = "rotate" => entry[c] \in Calls
    /\ pc[c] \in {"snapshot", "collapse"} => old[c] \in Calls

ControlInv == \A c \in Calls : Control(c)

\* A call that has given its name to a file_id; one that has not is still fresh.
Past(f) == \/ op[f] = "store" /\ pc[f] \in {"shared", "done"}
           \/ op[f] = "rotate" /\ pc[f] \in {"pop", "collapse", "forgotten", "done"}

\* The file f was made for the entry e: by the store() that made e, or by a rotate() of it.
Owned(f, e) == Past(f) /\ ((op[f] = "store" /\ f = e) \/ (op[f] = "rotate" /\ entry[f] = e))

\* What a call has looked up is an entry that was made, the file it is to forget is one of
\* that entry, and a rotate() that is about to forget has put another in its place.
Owner(c) ==
    /\ entry[c] # NoCall => op[entry[c]] = "store" /\ Past(entry[c])
    /\ op[c] \in {"rotate", "revoke"} /\ old[c] # NoCall => Owned(old[c], entry[c])
    /\ pc[c] \in {"idle", "look", "save", "old"} => old[c] = NoCall
    /\ op[c] = "rotate" /\ pc[c] \in {"pop", "collapse"} /\ old[c] # NoCall =>
           old[c] # file_id[1][entry[c]]

\* Every file belongs to one entry.
OwnerInv ==
    mode = "single" =>
        /\ \A e \in Calls : file_id[1][e] # NoCall => Owned(file_id[1][e], e)
        /\ entries[1] # NoCall => op[entries[1]] = "store" /\ Past(entries[1])
        /\ \A r \in Reps : r # 1 => entries[r] = NoCall
        /\ \A c \in Calls : Owner(c)

\* A revoke() that has begun to forget the file of its entry, and has not deleted it yet.
Forgets(c) == op[c] = "revoke" /\ pc[c] \in {"collapse", "forgotten"}

\* The entry of the key on a replica is held whole, or being revoked.
Served(r) ==
    entries[r] # NoCall =>
        \/ Whole(r, file_id[r][entries[r]])
        \/ \E c \in Calls : Forgets(c) /\ entry[c] = entries[r]

\* A file that is about to be pointed to is held whole, and a revoke() that is not through
\* does not meet its entry again.
Fresh(c) ==
    /\ pc[c] = "entry" => Whole(at[c], c)
    /\ op[c] = "rotate" /\ pc[c] \in {"old", "swap"} => Whole(at[c], c)
    /\ pc[c] = "unshare" => entries[1] = NoCall \/ entries[1] # entry[c]

LiveInv == (\A r \in Reps : Served(r)) /\ \A c \in Calls : Fresh(c)

\* A store() leaves an entry on every replica that it finds alive, before it goes on.
Stored(c) ==
    mode = "replicated" /\ op[c] = "store" =>
        /\ \A r \in Reps : r < at[c] /\ alive[r] => entries[r] # NoCall
        /\ pc[c] = "shared" => entries[at[c]] # NoCall
        /\ pc[c] = "done" => at[c] > Replicas

StoredInv == \A c \in Calls : Stored(c)

\* The box that a file is rebuilt from has the original, or is collapsed.
From == split_bytes(Bytes("raw"), kind, Parses).reconstruct_from
RawInv == \A r \in Reps, f \in Calls : boxes[r][f][From] \in {"none", "raw"}

\* Beside an undisturbed retrieve() nobody writes: what it has looked up is what there is.
Undisturbed(c) ==
    /\ Writing = {} /\ op[c] = "retrieve"
    /\ pc[c] \in {"auth", "held", "snapshot"} => entry[c] = entries[1]
    /\ pc[c] = "snapshot" => old[c] = file_id[1][entry[c]]
    /\ pc[c] = "done" /\ entries[1] # NoCall /\ token[c] = token[entries[1]] =>
           ans[c] = file_id[1][entries[1]]

QuietInv == mode = "single" => \A c \in quiet : Undisturbed(c)

IInv ==
    /\ TypeOK /\ ControlInv /\ OwnerInv /\ LiveInv /\ StoredInv /\ RawInv /\ QuietInv

-----------------------------------------------------------------------------
\* What split_bytes() makes of a key, by its extension.
LEMMA Split ==
    ASSUME kind \in Kinds, Parses \in BOOLEAN
    PROVE  /\ \A p \in Pieces :
                split_bytes(Bytes("raw"), kind, Parses)[p].of \in {"empty", "raw", "tag", "text", "meta"}
           /\ From \in Pieces
           /\ split_bytes(Bytes("raw"), kind, Parses)[From].of = "raw"
<1> USE DEF split_bytes, SplitResult, Bytes, Extracted, Empty, Metadata, Tag, Pieces, From
<1>1. CASE Extracts(kind)
  BY <1>1
<1>2. CASE ~Extracts(kind) /\ kind = "compressed"
  BY <1>2
<1>3. CASE ~Extracts(kind) /\ kind # "compressed"
  BY <1>3
<1>4. QED
  BY <1>1, <1>2, <1>3

\* A look-up that finds an entry, which the caller may use.
Found(c) ==
    /\ entries[at[c]] \in Calls /\ entry' = [entry EXCEPT ![c] = entries[at[c]]]
    /\ \/ op[c] = "retrieve" /\ Goto(c, "auth")
       \/ op[c] = "share" /\ Goto(c, "grant")
       \/ op[c] = "rotate" /\ Goto(c, "save")
       \/ op[c] = "revoke" /\ Goto(c, "old")
    /\ UNCHANGED <<store, vs, at, old, ans>> /\ World

\* The outcomes of a look-up.
LEMMA LookUps ==
    ASSUME TypeOK, ControlInv, NEW c \in Calls, LookUp(c)
    PROVE  \/ entries[at[c]] = NoCall /\ Raise(c, "KeyError")
           \/ op[c] # "retrieve" /\ Raise(c, "AuthError")
           \/ Found(c)
<1> DEFINE e == entries[at[c]]
<1>1. at[c] \in Reps /\ op[c] \in {"retrieve", "share", "rotate", "revoke"}
  BY DEF LookUp, ControlInv, Control
<1>2. e \in Calls \cup {NoCall}
  BY <1>1 DEF TypeOK
<1>3. CASE e = NoCall
  BY <1>3 DEF LookUp
<1>4. CASE e # NoCall /\ op[c] # "retrieve" /\ token[c] # token[e]
  BY <1>4 DEF LookUp
<1>5. CASE e # NoCall /\ ~(op[c] # "retrieve" /\ token[c] # token[e])
  BY <1>1, <1>2, <1>5 DEF LookUp, Found, Goto
<1>6. QED
  BY <1>3, <1>4, <1>5

Places == {"idle", "replica", "save", "entry", "shared", "look", "auth", "held", "snapshot",
           "grant", "old", "swap", "pop", "collapse", "forgotten", "unshare", "done"}

\* The end of a call keeps the types.
LEMMA EndType ==
    ASSUME TypeOK, NEW c \in Calls, NEW a \in Answers, at[c] \in Reps, End(c, a)
    PROVE  at' \in [Calls -> 1 .. Replicas + 1] /\ pc' \in [Calls -> Places] /\ ans' \in [Calls -> Answers]
<1>1. at[c] + 1 \in 1 .. Replicas + 1
  BY SecretsAssumption DEF Reps
<1>2. /\ at \in [Calls -> 1 .. Replicas + 1] /\ pc \in [Calls -> Places]
      /\ ans \in [Calls -> Answers]
  BY DEF TypeOK, Places
<1>3. at' \in [Calls -> 1 .. Replicas + 1]
  BY <1>1, <1>2 DEF End
<1>4. pc' \in [Calls -> Places]
  BY <1>2 DEF End, Goto, Places
<1>5. ans' \in [Calls -> Answers]
  BY <1>2 DEF End
<1>6. QED
  BY <1>3, <1>4, <1>5

\* At most one grant.
LEMMA One == Cardinality({}) <= 1 /\ \A x : Cardinality({x}) <= 1
<1>1. Cardinality({}) = 0 /\ \A x : Cardinality({x}) = 1
  BY FS_EmptySet, FS_Singleton
<1>2. QED
  BY <1>1

\* The grants of a replica, replaced.
LEMMA SharedType ==
    ASSUME TypeOK, NEW r \in Reps, NEW S \in SUBSET SUBSET Tokens, Cardinality(S) <= 1,
           shared' = [shared EXCEPT ![r] = S]
    PROVE  shared' \in [Reps -> SUBSET SUBSET Tokens] /\ \A q \in Reps : Cardinality(shared'[q]) <= 1
BY DEF TypeOK

\* Every step keeps the types.
LEMMA TypeStep ==
    ASSUME TypeOK, ControlInv, Next
    PROVE  TypeOK'
<1> USE SecretsAssumption, Split
<1>1. ASSUME NEW c \in Calls, NEW o \in Ops(mode), Begin(c, o) PROVE TypeOK'
  BY <1>1 DEF TypeOK, Ops, Writers, Begin, Goto, store, vs
<1>2. ASSUME NEW c \in Calls, NextReplica(c) PROVE TypeOK'
  <2>1. /\ at \in [Calls -> 1 .. Replicas + 1] /\ pc \in [Calls -> Places]
        /\ ans \in [Calls -> Answers] /\ {"ok", "KeyError"} \subseteq Answers
    BY DEF TypeOK, Places, Answers, Errors
  <2>2. at' \in [Calls -> 1 .. Replicas + 1]
    BY <1>2, <2>1, SecretsAssumption DEF NextReplica
  <2>3. pc' \in [Calls -> Places] /\ ans' \in [Calls -> Answers]
    BY <1>2, <2>1 DEF NextReplica, Goto, Places
  <2>4. QED
    BY <1>2, <2>2, <2>3 DEF TypeOK, Places, NextReplica, World, store, vs, args
<1>3. ASSUME NEW c \in Calls, LookUpHeld(c) PROVE TypeOK'
  <2>1. at[c] \in Reps /\ (pc[c] # "look" => entry[c] \in Calls)
    BY <1>3 DEF ControlInv, Control, LookUpHeld
  <2>2. ASSUME NEW e \in {"KeyError", "AuthError", "ok"}, Raise(c, e) PROVE TypeOK'
    <3>1. End(c, e) /\ e \in Answers
      BY <2>2 DEF Raise, Answers, Errors
    <3>2. QED
      BY <3>1, <2>1, <2>2, EndType DEF TypeOK, Places, Raise, World, store, vs, args
  <2>3. CASE ~\E e \in {"KeyError", "AuthError", "ok"} : Raise(c, e)
    BY <1>3, <2>1, <2>3 DEF TypeOK, Reps, World, Goto, store, vs, args, LookUpHeld
  <2>4. QED
    BY <2>2, <2>3
<1>4. ASSUME NEW c \in Calls, Snapshot(c) PROVE TypeOK'
  <2>1. at[c] \in Reps /\ (IF boxes[at[c]][old[c]][From] = "raw" THEN old[c] ELSE "empty") \in Answers
    BY <1>4 DEF ControlInv, Control, Answers, Errors, Snapshot
  <2>2. End(c, (IF boxes[at[c]][old[c]][From] = "raw" THEN old[c] ELSE "empty"))
    BY <1>4 DEF Snapshot, From
  <2>9. QED
    BY <1>4, <2>1, <2>2, EndType DEF TypeOK, Places, World, store, vs, args, Snapshot
<1>5. ASSUME NEW c \in Calls, ForgetPop(c) PROVE TypeOK'
  BY <1>5 DEF TypeOK, ControlInv, Control, ForgetPop, World, Goto, store, args
<1>6. ASSUME NEW c \in Calls, ForgetCollapse(c) PROVE TypeOK'
  <2>1. at[c] \in Reps /\ old[c] \in Calls
    BY <1>6 DEF ControlInv, Control, ForgetCollapse
  <2>2. boxes' \in [Reps -> [Calls -> [Pieces -> {"none", "empty", "raw", "tag", "text", "meta"}]]]
    BY <1>6, <2>1 DEF TypeOK, ForgetCollapse
  <2>3. pc' \in [Calls -> Places]
    BY <1>6 DEF TypeOK, ForgetCollapse, Goto, Places
  <2>4. QED
    BY <1>6, <2>2, <2>3 DEF TypeOK, Places, World, store, args, ForgetCollapse
<1>7. ASSUME NEW c \in Calls, StoreSave(c) PROVE TypeOK'
  <2>1. at[c] \in Reps
    BY <1>7 DEF ControlInv, Control, StoreSave
  <2>2. /\ boxes' \in [Reps -> [Calls -> [Pieces -> {"none", "empty", "raw", "tag", "text", "meta"}]]]
        /\ held' \in [Reps -> SUBSET Calls]
    BY <1>7, <2>1, Split DEF TypeOK, Hold, StoreSave
  <2>3. QED
    BY <1>7, <2>1, <2>2 DEF TypeOK, World, Goto, store, vs, args, StoreSave
<1>8. ASSUME NEW c \in Calls, StoreEntry(c) PROVE TypeOK'
  BY <1>8 DEF TypeOK, ControlInv, Control, StoreEntry, World, Goto, vs, args
<1>9. ASSUME NEW c \in Calls, StoreShared(c) PROVE TypeOK'
  <2>1. at[c] \in Reps /\ "ok" \in Answers
    BY <1>9 DEF ControlInv, Control, Answers, Errors, StoreShared
  <2>2. End(c, "ok")
    BY <1>9 DEF StoreShared
  <2>3. shared' = [shared EXCEPT ![at[c]] = {{}}] /\ Cardinality({{}}) <= 1
    BY <1>9, One DEF StoreShared
  <2>4. shared' \in [Reps -> SUBSET SUBSET Tokens] /\ \A q \in Reps : Cardinality(shared'[q]) <= 1
    BY <2>1, <2>3, {} \in SUBSET SUBSET Tokens, {{}} \in SUBSET SUBSET Tokens, SharedType
  <2>9. QED
    BY <1>9, <2>1, <2>2, <2>4, EndType DEF TypeOK, Places, World, store, vs, args, StoreShared
<1>10. ASSUME NEW c \in Calls, LookUp(c) PROVE TypeOK'
  <2>1. at[c] \in Reps /\ {"KeyError", "AuthError"} \subseteq Answers
    BY <1>10 DEF ControlInv, Control, Answers, Errors, LookUp
  <2>2. ASSUME NEW e \in {"KeyError", "AuthError"}, Raise(c, e) PROVE TypeOK'
    <3>1. End(c, e)
      BY <2>2 DEF Raise
    <3>2. QED
      BY <3>1, <2>1, <2>2, EndType DEF TypeOK, Places, Raise, World, store, vs, args
  <2>3. CASE Found(c)
    <3>1. pc' \in [Calls -> Places]
      BY <2>3 DEF TypeOK, Places, Found, Goto
    <3>2. entry' \in [Calls -> Calls \cup {NoCall}]
      BY <2>3 DEF TypeOK, Found
    <3>3. UNCHANGED <<mode, kind, alive, args, quiet, store, vs, at, old, ans>>
      BY <2>3 DEF Found, World
    <3>4. QED
      BY <3>1, <3>2, <3>3 DEF TypeOK, Places, store, vs, args
  <2>4. QED
    BY <1>10, <2>2, <2>3, LookUps
<1>11. ASSUME NEW c \in Calls, Authorize(c) PROVE TypeOK'
  <2>1. at[c] \in Reps /\ (pc[c] # "look" => entry[c] \in Calls)
    BY <1>11 DEF ControlInv, Control, Authorize
  <2>2. ASSUME NEW e \in {"KeyError", "AuthError", "ok"}, Raise(c, e) PROVE TypeOK'
    <3>1. End(c, e) /\ e \in Answers
      BY <2>2 DEF Raise, Answers, Errors
    <3>2. QED
      BY <3>1, <2>1, <2>2, EndType DEF TypeOK, Places, Raise, World, store, vs, args
  <2>3. CASE ~\E e \in {"KeyError", "AuthError", "ok"} : Raise(c, e)
    BY <1>11, <2>1, <2>3 DEF TypeOK, Reps, World, Goto, store, vs, args, Authorize
  <2>4. QED
    BY <2>2, <2>3
<1>12. ASSUME NEW c \in Calls, Share(c) PROVE TypeOK'
  <2>1. at[c] \in Reps /\ "ok" \in Answers /\ "KeyError" \in Answers
    BY <1>12 DEF ControlInv, Control, Answers, Errors, Share
  <2>2. CASE shared[at[c]] = {}
    BY <1>12, <2>1, <2>2, EndType DEF TypeOK, Places, Raise, World, store, vs, args, Share
  <2>3. CASE shared[at[c]] # {}
    <3>1. PICK t \in Tokens : shared' = [shared EXCEPT ![at[c]] = {(UNION shared[at[c]]) \cup {t}}]
      BY <1>12, <2>3 DEF Share
    <3>2. /\ {(UNION shared[at[c]]) \cup {t}} \in SUBSET SUBSET Tokens
          /\ Cardinality({(UNION shared[at[c]]) \cup {t}}) <= 1
      <4>1. (UNION shared[at[c]]) \cup {t} \in SUBSET Tokens
        BY <2>1 DEF TypeOK
      <4>2. QED
        BY <4>1, One
    <3>3. shared' \in [Reps -> SUBSET SUBSET Tokens] /\ \A q \in Reps : Cardinality(shared'[q]) <= 1
      BY <2>1, <3>1, <3>2, SharedType
    <3>4. QED
      BY <1>12, <2>1, <2>3, <3>3, EndType DEF TypeOK, Places, World, store, vs, args, Share
  <2>4. QED
    BY <2>2, <2>3
<1>13. ASSUME NEW c \in Calls, RotateSave(c) PROVE TypeOK'
  <2>1. at[c] \in Reps
    BY <1>13 DEF ControlInv, Control, RotateSave
  <2>2. /\ boxes' \in [Reps -> [Calls -> [Pieces -> {"none", "empty", "raw", "tag", "text", "meta"}]]]
        /\ held' \in [Reps -> SUBSET Calls]
    BY <1>13, <2>1, Split DEF TypeOK, Hold, RotateSave
  <2>3. QED
    BY <1>13, <2>1, <2>2 DEF TypeOK, World, Goto, store, vs, args, RotateSave
<1>14. ASSUME NEW c \in Calls, ReadOld(c) PROVE TypeOK'
  <2>1. at[c] \in Reps /\ entry[c] \in Calls
    BY <1>14 DEF ControlInv, Control, ReadOld
  <2>2. QED
    BY <1>14, <2>1 DEF TypeOK, ReadOld, World, Goto, store, vs, args
<1>15. ASSUME NEW c \in Calls, RotateSwap(c) PROVE TypeOK'
  BY <1>15 DEF TypeOK, ControlInv, Control, RotateSwap, World, Goto, vs, args
<1>16. ASSUME NEW c \in Calls, Forgotten(c) PROVE TypeOK'
  <2>1. at[c] \in Reps /\ (pc[c] # "look" => entry[c] \in Calls)
    BY <1>16 DEF ControlInv, Control, Forgotten
  <2>2. ASSUME NEW e \in {"KeyError", "AuthError", "ok"}, Raise(c, e) PROVE TypeOK'
    <3>1. End(c, e) /\ e \in Answers
      BY <2>2 DEF Raise, Answers, Errors
    <3>2. QED
      BY <3>1, <2>1, <2>2, EndType DEF TypeOK, Places, Raise, World, store, vs, args
  <2>3. CASE ~\E e \in {"KeyError", "AuthError", "ok"} : Raise(c, e)
    BY <1>16, <2>1, <2>3 DEF TypeOK, Reps, World, Goto, store, vs, args, Forgotten
  <2>4. QED
    BY <2>2, <2>3
<1>17. ASSUME NEW c \in Calls, RevokeShared(c) PROVE TypeOK'
  <2>1. at[c] \in Reps /\ (IF shared[at[c]] = {} THEN "KeyError" ELSE "ok") \in Answers
    BY <1>17 DEF ControlInv, Control, Answers, Errors, RevokeShared
  <2>2. End(c, (IF shared[at[c]] = {} THEN "KeyError" ELSE "ok"))
    BY <1>17 DEF RevokeShared
  <2>3. shared' = [shared EXCEPT ![at[c]] = {}] /\ Cardinality({}) <= 1
    BY <1>17, One DEF RevokeShared
  <2>4. shared' \in [Reps -> SUBSET SUBSET Tokens] /\ \A q \in Reps : Cardinality(shared'[q]) <= 1
    BY <2>1, <2>3, {} \in SUBSET SUBSET Tokens, {{}} \in SUBSET SUBSET Tokens, SharedType
  <2>9. QED
    BY <1>17, <2>1, <2>2, <2>4, EndType DEF TypeOK, Places, World, store, vs, args, RevokeShared
<1>18. ASSUME NEW r \in Reps, KillReplica(r) PROVE TypeOK'
  BY <1>18 DEF TypeOK, KillReplica, store, vs, args
<1>19. QED
  BY <1>1, <1>2, <1>3, <1>4, <1>5, <1>6, <1>7, <1>8, <1>9, <1>10, <1>11, <1>12, <1>13,
     <1>14, <1>15, <1>16, <1>17, <1>18 DEF Next

\* Every step leaves each call where its operation can be.
LEMMA ControlStep ==
    ASSUME TypeOK, ControlInv, Next
    PROVE  ControlInv'
<1> USE SecretsAssumption DEF TypeOK, Reps, ControlInv, Control, Ops, Writers
<1>1. ASSUME NEW c \in Calls, NEW o \in Ops(mode), Begin(c, o) PROVE ControlInv'
  BY <1>1 DEF Begin, Goto, store, vs
<1>2. ASSUME NEW c \in Calls, NextReplica(c) PROVE ControlInv'
  BY <1>2 DEF NextReplica, World, Goto, store, vs, args
<1>3. ASSUME NEW c \in Calls, LookUpHeld(c) PROVE ControlInv'
  BY <1>3 DEF LookUpHeld, Raise, End, World, Goto, store, vs, args
<1>4. ASSUME NEW c \in Calls, Snapshot(c) PROVE ControlInv'
  BY <1>4 DEF Snapshot, End, World, Goto, store, vs, args
<1>5. ASSUME NEW c \in Calls, ForgetPop(c) PROVE ControlInv'
  BY <1>5 DEF ForgetPop, World, Goto, store, args
<1>6. ASSUME NEW c \in Calls, ForgetCollapse(c) PROVE ControlInv'
  BY <1>6 DEF ForgetCollapse, World, Goto, store, args
<1>7. ASSUME NEW c \in Calls, StoreSave(c) PROVE ControlInv'
  BY <1>7 DEF StoreSave, Hold, World, Goto, store, args
<1>8. ASSUME NEW c \in Calls, StoreEntry(c) PROVE ControlInv'
  BY <1>8 DEF StoreEntry, World, Goto, vs, args
<1>9. ASSUME NEW c \in Calls, StoreShared(c) PROVE ControlInv'
  BY <1>9 DEF StoreShared, End, World, Goto, vs, args
<1>10. ASSUME NEW c \in Calls, LookUp(c) PROVE ControlInv'
  BY <1>10 DEF LookUp, Raise, End, World, Goto, store, vs, args
<1>11. ASSUME NEW c \in Calls, Authorize(c) PROVE ControlInv'
  BY <1>11 DEF Authorize, Raise, End, World, Goto, store, vs, args
<1>12. ASSUME NEW c \in Calls, Share(c) PROVE ControlInv'
  BY <1>12 DEF Share, Raise, End, World, Goto, store, vs, args
<1>13. ASSUME NEW c \in Calls, RotateSave(c) PROVE ControlInv'
  BY <1>13 DEF RotateSave, Hold, World, Goto, store, args
<1>14. ASSUME NEW c \in Calls, ReadOld(c) PROVE ControlInv'
  BY <1>14 DEF ReadOld, World, Goto, store, vs, args
<1>15. ASSUME NEW c \in Calls, RotateSwap(c) PROVE ControlInv'
  BY <1>15 DEF RotateSwap, World, Goto, vs, args
<1>16. ASSUME NEW c \in Calls, Forgotten(c) PROVE ControlInv'
  BY <1>16 DEF Forgotten, Raise, End, World, Goto, store, vs, args
<1>17. ASSUME NEW c \in Calls, RevokeShared(c) PROVE ControlInv'
  BY <1>17 DEF RevokeShared, End, World, Goto, vs, args
<1>18. ASSUME NEW r \in Reps, KillReplica(r) PROVE ControlInv'
  BY <1>18 DEF KillReplica, store, vs, args
<1>19. QED
  BY <1>1, <1>2, <1>3, <1>4, <1>5, <1>6, <1>7, <1>8, <1>9, <1>10, <1>11, <1>12, <1>13,
     <1>14, <1>15, <1>16, <1>17, <1>18 DEF Next

\* What a step keeps of such a call.
Settled(f) == Past(f)' /\ op'[f] = op[f] /\ entry'[f] = entry[f]

\* In a store, a call that has given its file a name keeps what it is.
LEMMA PastStays ==
    ASSUME TypeOK, ControlInv, Next, mode = "single", NEW f \in Calls, Past(f)
    PROVE  Settled(f)
<1> USE DEF TypeOK, Past, ControlInv, Control, Settled
<1>1. ASSUME NEW c \in Calls, NEW o \in Ops(mode), Begin(c, o) PROVE Settled(f)
  BY <1>1 DEF Begin, Goto, store, vs
<1>2. ASSUME NEW c \in Calls, NextReplica(c) PROVE Settled(f)
  BY <1>2 DEF NextReplica, World, Goto, store, vs, args
<1>3. ASSUME NEW c \in Calls, LookUpHeld(c) PROVE Settled(f)
  BY <1>3 DEF LookUpHeld, Raise, End, World, Goto, store, vs, args
<1>4. ASSUME NEW c \in Calls, Snapshot(c) PROVE Settled(f)
  BY <1>4 DEF Snapshot, End, World, Goto, store, vs, args
<1>5. ASSUME NEW c \in Calls, ForgetPop(c) PROVE Settled(f)
  BY <1>5 DEF ForgetPop, World, Goto, store, args
<1>6. ASSUME NEW c \in Calls, ForgetCollapse(c) PROVE Settled(f)
  BY <1>6 DEF ForgetCollapse, World, Goto, store, args
<1>7. ASSUME NEW c \in Calls, StoreSave(c) PROVE Settled(f)
  BY <1>7 DEF StoreSave, Hold, World, Goto, store, args
<1>8. ASSUME NEW c \in Calls, StoreEntry(c) PROVE Settled(f)
  BY <1>8 DEF StoreEntry, World, Goto, vs, args
<1>9. ASSUME NEW c \in Calls, StoreShared(c) PROVE Settled(f)
  BY <1>9 DEF StoreShared, End, World, Goto, vs, args
<1>10. ASSUME NEW c \in Calls, LookUp(c) PROVE Settled(f)
  BY <1>10 DEF LookUp, Raise, End, World, Goto, store, vs, args
<1>11. ASSUME NEW c \in Calls, Authorize(c) PROVE Settled(f)
  BY <1>11 DEF Authorize, Raise, End, World, Goto, store, vs, args
<1>12. ASSUME NEW c \in Calls, Share(c) PROVE Settled(f)
  BY <1>12 DEF Share, Raise, End, World, Goto, store, vs, args
<1>13. ASSUME NEW c \in Calls, RotateSave(c) PROVE Settled(f)
  BY <1>13 DEF RotateSave, Hold, World, Goto, store, args
<1>14. ASSUME NEW c \in Calls, ReadOld(c) PROVE Settled(f)
  BY <1>14 DEF ReadOld, World, Goto, store, vs, args
<1>15. ASSUME NEW c \in Calls, RotateSwap(c) PROVE Settled(f)
  BY <1>15 DEF RotateSwap, World, Goto, vs, args
<1>16. ASSUME NEW c \in Calls, Forgotten(c) PROVE Settled(f)
  BY <1>16 DEF Forgotten, Raise, End, World, Goto, store, vs, args
<1>17. ASSUME NEW c \in Calls, RevokeShared(c) PROVE Settled(f)
  BY <1>17 DEF RevokeShared, End, World, Goto, vs, args
<1>18. ASSUME NEW r \in Reps, KillReplica(r) PROVE Settled(f)
  BY <1>18 DEF KillReplica, store, vs, args
<1>19. QED
  BY <1>1, <1>2, <1>3, <1>4, <1>5, <1>6, <1>7, <1>8, <1>9, <1>10, <1>11, <1>12, <1>13,
     <1>14, <1>15, <1>16, <1>17, <1>18 DEF Next

\* What a step leaves alone, and which handlers change the rest.
Kept ==
    /\ mode' = mode /\ kind' = kind /\ token' = token
    /\ quiet' = quiet \/ \E c \in Calls, o \in Ops(mode) : Begin(c, o)
    /\ \/ entries' = entries /\ file_id' = file_id
       \/ \E c \in Calls : StoreEntry(c) \/ RotateSwap(c) \/ Forgotten(c)
    /\ \/ held' = held /\ boxes' = boxes
       \/ \E c \in Calls : StoreSave(c) \/ RotateSave(c) \/ ForgetPop(c) \/ ForgetCollapse(c)
    /\ \A d \in Calls :
         /\ entry'[d] = entry[d] \/ LookUp(d)
         /\ old'[d] = old[d] \/ LookUpHeld(d) \/ ReadOld(d)
         /\ op'[d] = op[d] \/ (pc[d] = "idle" /\ entry'[d] = entry[d] /\ old'[d] = old[d])
         /\ mode = "single" /\ pc'[d] \in {"idle", "look", "save", "old"} =>
                pc[d] \in {"idle", "look", "save", "old"} /\ old'[d] = old[d]
         /\ op'[d] = "rotate" /\ pc'[d] \in {"pop", "collapse"} =>
                \/ RotateSwap(d)
                \/ /\ op[d] = "rotate" /\ pc[d] \in {"pop", "collapse"}
                   /\ old'[d] = old[d] /\ entry'[d] = entry[d]

\* Every step leaves the rest alone.
LEMMA Frame ==
    ASSUME TypeOK, ControlInv, Next
    PROVE  Kept
<1> USE DEF TypeOK, Kept
<1>1. ASSUME NEW c \in Calls, NEW o \in Ops(mode), Begin(c, o) PROVE Kept
  BY <1>1 DEF TypeOK, Begin, Goto, store, vs
<1>2. ASSUME NEW c \in Calls, NextReplica(c) PROVE Kept
  BY <1>2 DEF ControlInv, Control, NextReplica, World, Goto, store, vs, args
<1>3. ASSUME NEW c \in Calls, LookUpHeld(c) PROVE Kept
  BY <1>3 DEF LookUpHeld, Raise, End, World, Goto, store, vs, args
<1>4. ASSUME NEW c \in Calls, Snapshot(c) PROVE Kept
  BY <1>4 DEF Snapshot, End, World, Goto, store, vs, args
<1>5. ASSUME NEW c \in Calls, ForgetPop(c) PROVE Kept
  BY <1>5 DEF ForgetPop, World, Goto, store, args
<1>6. ASSUME NEW c \in Calls, ForgetCollapse(c) PROVE Kept
  BY <1>6 DEF ForgetCollapse, World, Goto, store, args
<1>7. ASSUME NEW c \in Calls, StoreSave(c) PROVE Kept
  BY <1>7 DEF StoreSave, Hold, World, Goto, store, args
<1>8. ASSUME NEW c \in Calls, StoreEntry(c) PROVE Kept
  BY <1>8 DEF StoreEntry, World, Goto, vs, args
<1>9. ASSUME NEW c \in Calls, StoreShared(c) PROVE Kept
  BY <1>9 DEF StoreShared, End, World, Goto, vs, args
<1>10. ASSUME NEW c \in Calls, LookUp(c) PROVE Kept
  BY <1>10, LookUps DEF ControlInv, Control, Found, LookUp, Raise, End, World, Goto, store, vs, args
<1>11. ASSUME NEW c \in Calls, Authorize(c) PROVE Kept
  BY <1>11 DEF Authorize, Raise, End, World, Goto, store, vs, args
<1>12. ASSUME NEW c \in Calls, Share(c) PROVE Kept
  BY <1>12 DEF Share, Raise, End, World, Goto, store, vs, args
<1>13. ASSUME NEW c \in Calls, RotateSave(c) PROVE Kept
  BY <1>13 DEF RotateSave, Hold, World, Goto, store, args
<1>14. ASSUME NEW c \in Calls, ReadOld(c) PROVE Kept
  BY <1>14 DEF ReadOld, World, Goto, store, vs, args
<1>15. ASSUME NEW c \in Calls, RotateSwap(c) PROVE Kept
  BY <1>15 DEF RotateSwap, World, Goto, vs, args
<1>16. ASSUME NEW c \in Calls, Forgotten(c) PROVE Kept
  BY <1>16 DEF Forgotten, Raise, End, World, Goto, store, vs, args
<1>17. ASSUME NEW c \in Calls, RevokeShared(c) PROVE Kept
  BY <1>17 DEF RevokeShared, End, World, Goto, vs, args
<1>18. ASSUME NEW r \in Reps, KillReplica(r) PROVE Kept
  BY <1>18 DEF KillReplica, store, vs, args
<1>19. QED
  BY <1>1, <1>2, <1>3, <1>4, <1>5, <1>6, <1>7, <1>8, <1>9, <1>10, <1>11, <1>12, <1>13,
     <1>14, <1>15, <1>16, <1>17, <1>18 DEF Next

\* In a store, every step leaves each file with the entry that it was made for.
LEMMA OwnerStep ==
    ASSUME TypeOK, ControlInv, OwnerInv, Next, mode = "single"
    PROVE  OwnerInv'
<1> DEFINE T1 == \A e \in Calls : file_id[1][e] # NoCall => Owned(file_id[1][e], e)
<1> DEFINE T2 == entries[1] # NoCall => op[entries[1]] = "store" /\ Past(entries[1])
<1> DEFINE T3 == \A r \in Reps : r # 1 => entries[r] = NoCall
<1>0. 1 \in Reps /\ NoCall \notin Calls
  BY SecretsAssumption DEF Reps
<1>1. \A f \in Calls : Past(f) => Past(f)' /\ op'[f] = op[f] /\ entry'[f] = entry[f]
  BY PastStays DEF Settled
<1>2. \A f \in Calls : \A e : Owned(f, e) => Past(f) /\ Owned(f, e)'
  BY <1>1 DEF Owned
<1>3. T1 /\ T2 /\ T3 /\ \A c \in Calls : Owner(c)
  BY DEF OwnerInv
<1>4. /\ \A c \in Calls : at[c] = 1
      /\ entries[1] \in Calls \cup {NoCall}
      /\ \A e \in Calls : file_id[1][e] \in Calls \cup {NoCall}
      /\ entries \in [Reps -> Calls \cup {NoCall}]
      /\ file_id \in [Reps -> [Calls -> Calls \cup {NoCall}]]
  BY <1>0 DEF TypeOK, ControlInv, Control
<1>5. T1' /\ T2' /\ T3'
  <2>1. CASE entries' = entries /\ file_id' = file_id
    <3>1. T1'
      BY <1>2, <1>3, <1>4, <2>1
    <3>2. T2' /\ T3'
      BY <1>1, <1>3, <1>4, <2>1
    <3>3. QED
      BY <3>1, <3>2
  <2>2. ASSUME NEW c \in Calls, StoreEntry(c) PROVE T1' /\ T2' /\ T3'
    <3>1. Owned(c, c)' /\ op'[c] = "store" /\ Past(c)'
      BY <2>2 DEF StoreEntry, Goto, World, args, Owned, Past, ControlInv, Control, TypeOK
    <3>2. /\ entries' = [entries EXCEPT ![1] = c]
          /\ file_id' = [file_id EXCEPT ![1][c] = c]
      BY <1>4, <2>2 DEF StoreEntry
    <3>3. T1'
      BY <1>0, <1>2, <1>3, <1>4, <3>1, <3>2
    <3>4. T2' /\ T3'
      BY <1>0, <1>3, <1>4, <3>1, <3>2
    <3>5. QED
      BY <3>3, <3>4
  <2>3. ASSUME NEW c \in Calls, RotateSwap(c) PROVE T1' /\ T2' /\ T3'
    <3>1. Owned(c, entry[c])' /\ entry[c] \in Calls
      BY <2>3 DEF RotateSwap, Goto, World, args, Owned, Past, ControlInv, Control, TypeOK
    <3>2. entries' = entries /\ file_id' = [file_id EXCEPT ![1][entry[c]] = c] /\ entry' = entry
      BY <1>4, <2>3 DEF RotateSwap
    <3>3. T1'
      BY <1>0, <1>2, <1>3, <1>4, <3>1, <3>2
    <3>4. T2' /\ T3'
      BY <1>1, <1>3, <1>4, <3>2
    <3>5. QED
      BY <3>3, <3>4
  <2>4. ASSUME NEW c \in Calls, Forgotten(c) PROVE T1' /\ T2' /\ T3'
    <3>1. file_id' = file_id /\ (entries' = entries \/ entries' = [entries EXCEPT ![1] = NoCall])
      BY <1>4, <2>4 DEF Forgotten, Raise, store
    <3>2. T1'
      BY <1>2, <1>3, <1>4, <3>1
    <3>3. T2' /\ T3'
      BY <1>0, <1>1, <1>3, <1>4, <3>1
    <3>4. QED
      BY <3>2, <3>3
  <2>5. QED
    BY <2>1, <2>2, <2>3, <2>4, Frame, Zenon DEF Kept
<1>6. ASSUME NEW d \in Calls PROVE Owner(d)'
  <2>0. /\ Owner(d) /\ Control(d) /\ Control(d)' /\ mode' = "single"
        /\ entry[d] \in Calls \cup {NoCall} /\ old[d] \in Calls \cup {NoCall}
        /\ op'[d] = op[d] \/ (pc[d] = "idle" /\ entry'[d] = entry[d] /\ old'[d] = old[d])
    BY <1>3, ControlStep, Frame DEF ControlInv, TypeOK, Kept
  <2>1. \/ entry'[d] = entry[d]
        \/ pc[d] = "look" /\ entry'[d] = entries[1] /\ entry'[d] \in Calls /\ old'[d] = old[d]
    <3>1. CASE LookUp(d)
      <4>1. CASE Found(d)
        BY <1>4, <3>1, <4>1 DEF TypeOK, Found, LookUp
      <4>2. CASE ~Found(d)
        BY <3>1, <4>2, LookUps DEF Raise
      <4>3. QED
        BY <4>1, <4>2
    <3>2. QED
      BY <3>1, Frame DEF Kept
  <2>2. \/ old'[d] = old[d]
        \/ op[d] = "retrieve" /\ op'[d] = "retrieve"
        \/ /\ ReadOld(d) /\ old'[d] = file_id[1][entry[d]] /\ entry'[d] = entry[d]
           /\ entry[d] \in Calls /\ op'[d] = op[d]
    BY <1>4, <2>0, Frame DEF Kept, TypeOK, ReadOld, LookUpHeld, Control, World, args, Raise, End
  <2>3. (entry[d] # NoCall => op[entry[d]] = "store" /\ Past(entry[d]))'
    <3>1. PICK e \in Calls \cup {NoCall} : e = entry'[d]
      BY <2>0, <2>1
    <3>2. e # NoCall => op[e] = "store" /\ Past(e)
      BY <1>3, <2>0, <2>1, <3>1 DEF Owner
    <3>3. e # NoCall => op'[e] = "store" /\ Past(e)'
      BY <1>1, <3>1, <3>2
    <3>4. QED
      BY <3>1, <3>3 DEF Past
  <2>4. (op[d] \in {"rotate", "revoke"} /\ old[d] # NoCall => Owned(old[d], entry[d]))'
    <3>1. PICK e \in Calls \cup {NoCall}, f \in Calls \cup {NoCall} : e = entry'[d] /\ f = old'[d]
      BY <2>0, <2>1, TypeStep DEF TypeOK
    <3>2. ASSUME op'[d] \in {"rotate", "revoke"}, f # NoCall
          PROVE  f \in Calls /\ Owned(f, e)
      <4>1. CASE old'[d] = old[d]
        <5>1. op'[d] = op[d] /\ entry'[d] = entry[d]
          BY <2>0, <2>1, <3>1, <3>2, <4>1 DEF Owner
        <5>2. f \in Calls /\ Owned(f, e)
          BY <2>0, <3>1, <3>2, <4>1, <5>1 DEF Owner
        <5>3. QED
          BY <5>2
      <4>2. CASE ReadOld(d) /\ old'[d] = file_id[1][entry[d]] /\ entry'[d] = entry[d] /\ entry[d] \in Calls
        BY <1>3, <1>4, <3>1, <3>2, <4>2
      <4>3. QED
        BY <2>2, <3>2, <4>1, <4>2
    <3>3. ASSUME op'[d] \in {"rotate", "revoke"}, f # NoCall PROVE Owned(f, e)'
      BY <1>2, <3>2, <3>3
    <3>4. QED
      BY <3>1, <3>3 DEF Owned, Past
  <2>5. (pc[d] \in {"idle", "look", "save", "old"} => old[d] = NoCall)'
    BY <2>0, Frame DEF Owner, Kept
  <2>6. (op[d] = "rotate" /\ pc[d] \in {"pop", "collapse"} /\ old[d] # NoCall =>
            old[d] # file_id[1][entry[d]])'
    <3> SUFFICES ASSUME op'[d] = "rotate", pc'[d] \in {"pop", "collapse"}, old'[d] # NoCall
                 PROVE  old'[d] # file_id'[1][entry'[d]]
      OBVIOUS
    <3>1. CASE RotateSwap(d)
      <4>1. /\ old'[d] = old[d] /\ entry'[d] = entry[d] /\ ~Past(d) /\ op[d] = "rotate"
            /\ file_id' = [file_id EXCEPT ![1][entry[d]] = d] /\ entry[d] \in Calls
        BY <1>4, <2>0, <3>1 DEF RotateSwap, Control, Past
      <4>2. Past(old[d])
        BY <2>0, <4>1 DEF Owner, Owned
      <4>3. QED
        BY <1>0, <1>4, <4>1, <4>2
    <3>2. CASE /\ op[d] = "rotate" /\ pc[d] \in {"pop", "collapse"}
               /\ old'[d] = old[d] /\ entry'[d] = entry[d]
      <4>1. /\ Past(old[d]) /\ entry[d] \in Calls /\ op[entry[d]] = "store" /\ Past(entry[d])
            /\ old[d] # file_id[1][entry[d]]
        BY <1>0, <2>0, <3>2 DEF Owner, Owned, Control
      <4>2. CASE file_id' = file_id
        BY <3>2, <4>1, <4>2
      <4>3. ASSUME NEW c \in Calls, StoreEntry(c) PROVE old[d] # file_id'[1][entry[d]]
        <5>1. ~Past(c) /\ file_id' = [file_id EXCEPT ![1][c] = c]
          BY <1>4, <4>3 DEF StoreEntry, Past, ControlInv, Control
        <5>2. QED
          BY <1>0, <1>4, <4>1, <5>1
      <4>4. ASSUME NEW c \in Calls, RotateSwap(c) PROVE old[d] # file_id'[1][entry[d]]
        <5>1. ~Past(c) /\ file_id' = [file_id EXCEPT ![1][entry[c]] = c]
          BY <1>4, <4>4 DEF RotateSwap, Past, ControlInv, Control
        <5>2. QED
          BY <1>0, <1>4, <4>1, <5>1
      <4>5. ASSUME NEW c \in Calls, Forgotten(c) PROVE file_id' = file_id
        BY <4>5 DEF Forgotten, Raise, store
      <4>6. QED
        BY <3>2, <4>2, <4>3, <4>4, <4>5, Frame DEF Kept
    <3>3. QED
      BY <3>1, <3>2, Frame DEF Kept
  <2>7. QED
    BY <2>3, <2>4, <2>5, <2>6 DEF Owner
<1>7. QED
  BY <1>5, <1>6 DEF OwnerInv

\* How the calls come to hold a file that nothing points to, and to forget one.
Moves ==
    \A d \in Calls :
        /\ pc'[d] = "entry" => at'[d] = at[d] /\ (StoreSave(d) \/ pc[d] = "entry")
        /\ op'[d] = "rotate" /\ pc'[d] \in {"old", "swap"} =>
              /\ at'[d] = at[d] /\ op[d] = "rotate"
              /\ RotateSave(d) \/ pc[d] \in {"old", "swap"}
        /\ pc'[d] = "unshare" =>
              \/ entries' = [entries EXCEPT ![at[d]] = NoCall] /\ at[d] \in Reps /\ mode = "single"
              \/ pc[d] = "unshare" /\ entry'[d] = entry[d]
        /\ Forgets(d) =>
              \/ Forgotten(d)
              \/ op'[d] = "revoke" /\ pc'[d] \in {"collapse", "forgotten"} /\ entry'[d] = entry[d]

\* Every step moves the calls this way.
LEMMA Moved ==
    ASSUME TypeOK, ControlInv, Next
    PROVE  Moves
<1> USE DEF TypeOK, Moves, Forgets
<1>1. ASSUME NEW c \in Calls, NEW o \in Ops(mode), Begin(c, o) PROVE Moves
  BY <1>1 DEF Begin, Goto, store, vs
<1>2. ASSUME NEW c \in Calls, NextReplica(c) PROVE Moves
  BY <1>2 DEF ControlInv, Control, NextReplica, World, Goto, store, vs, args
<1>3. ASSUME NEW c \in Calls, LookUpHeld(c) PROVE Moves
  BY <1>3 DEF LookUpHeld, Raise, End, World, Goto, store, vs, args
<1>4. ASSUME NEW c \in Calls, Snapshot(c) PROVE Moves
  BY <1>4 DEF Snapshot, End, World, Goto, store, vs, args
<1>5. ASSUME NEW c \in Calls, ForgetPop(c) PROVE Moves
  BY <1>5 DEF ForgetPop, World, Goto, store, args
<1>6. ASSUME NEW c \in Calls, ForgetCollapse(c) PROVE Moves
  BY <1>6 DEF ForgetCollapse, World, Goto, store, args
<1>7. ASSUME NEW c \in Calls, StoreSave(c) PROVE Moves
  BY <1>7 DEF StoreSave, Hold, World, Goto, store, args
<1>8. ASSUME NEW c \in Calls, StoreEntry(c) PROVE Moves
  BY <1>8 DEF StoreEntry, World, Goto, vs, args
<1>9. ASSUME NEW c \in Calls, StoreShared(c) PROVE Moves
  BY <1>9 DEF StoreShared, End, World, Goto, vs, args
<1>10. ASSUME NEW c \in Calls, LookUp(c) PROVE Moves
  BY <1>10, LookUps DEF ControlInv, Control, Found, LookUp, Raise, End, World, Goto, store, vs, args
<1>11. ASSUME NEW c \in Calls, Authorize(c) PROVE Moves
  BY <1>11 DEF Authorize, Raise, End, World, Goto, store, vs, args
<1>12. ASSUME NEW c \in Calls, Share(c) PROVE Moves
  BY <1>12 DEF Share, Raise, End, World, Goto, store, vs, args
<1>13. ASSUME NEW c \in Calls, RotateSave(c) PROVE Moves
  BY <1>13 DEF RotateSave, Hold, World, Goto, store, args
<1>14. ASSUME NEW c \in Calls, ReadOld(c) PROVE Moves
  BY <1>14 DEF ReadOld, World, Goto, store, vs, args
<1>15. ASSUME NEW c \in Calls, RotateSwap(c) PROVE Moves
  BY <1>15 DEF RotateSwap, World, Goto, vs, args
<1>16. ASSUME NEW c \in Calls, Forgotten(c) PROVE Moves
  BY <1>16 DEF ControlInv, Control, Forgotten, Raise, End, World, Goto, store, vs, args
<1>17. ASSUME NEW c \in Calls, RevokeShared(c) PROVE Moves
  BY <1>17 DEF RevokeShared, End, World, Goto, vs, args
<1>18. ASSUME NEW r \in Reps, KillReplica(r) PROVE Moves
  BY <1>18 DEF KillReplica, store, vs, args
<1>19. QED
  BY <1>1, <1>2, <1>3, <1>4, <1>5, <1>6, <1>7, <1>8, <1>9, <1>10, <1>11, <1>12, <1>13,
     <1>14, <1>15, <1>16, <1>17, <1>18 DEF Next

\* What is forgotten is forgotten in a store, and it is an old file of an entry.
LEMMA Forgetting ==
    ASSUME TypeOK, ControlInv, OwnerInv, NEW c \in Calls, ForgetPop(c) \/ ForgetCollapse(c)
    PROVE  /\ mode = "single" /\ at[c] = 1 /\ op[c] \in {"rotate", "revoke"}
           /\ entry[c] \in Calls
           /\ old[c] # NoCall => Owned(old[c], entry[c]) /\ Past(old[c])
           /\ op[c] = "rotate" /\ old[c] # NoCall => old[c] # file_id[1][entry[c]]
           /\ pc'[c] \in {"collapse", "forgotten"} /\ op' = op /\ entry' = entry
           /\ entries' = entries /\ file_id' = file_id
<1>1. Control(c) /\ pc[c] \in {"pop", "collapse"} /\ mode \in {"single", "replicated"} /\ pc \in [Calls -> Places]
  BY DEF ControlInv, ForgetPop, ForgetCollapse, TypeOK, Places
<1>2. mode = "single" /\ op[c] \in {"rotate", "revoke"} /\ entry[c] \in Calls /\ at[c] = 1
  BY <1>1 DEF Control
<1>3. Owner(c)
  BY <1>2 DEF OwnerInv
<1>4. pc'[c] \in {"collapse", "forgotten"}
  BY <1>1 DEF ForgetPop, ForgetCollapse, Goto
<1>5. op' = op /\ entry' = entry /\ entries' = entries /\ file_id' = file_id
  BY DEF ForgetPop, ForgetCollapse, World, args, store
<1>6. QED
  BY <1>1, <1>2, <1>3, <1>4, <1>5 DEF Owner, Owned

\* What Hold() makes is whole.
LEMMA HoldWhole ==
    ASSUME TypeOK, NEW r \in Reps, NEW c \in Calls, Hold(r, c)
    PROVE  /\ Whole(r, c)'
           /\ \A q \in Reps, f \in Calls : Whole(q, f) => Whole(q, f)'
<1>1. /\ held \in [Reps -> SUBSET Calls]
      /\ boxes \in [Reps -> [Calls -> [Pieces -> {"none", "empty", "raw", "tag", "text", "meta"}]]]
      /\ \A p \in Pieces : split_bytes(Bytes("raw"), kind, Parses)[p].of # "none"
  BY Split, SecretsAssumption DEF TypeOK
<1> DEFINE b == [p \in Pieces |-> split_bytes(Bytes("raw"), kind, Parses)[p].of]
<1>2. \A p \in Pieces : b[p] # "none"
  BY <1>1
<1>3. boxes' = [boxes EXCEPT ![r][c] = b] /\ held' = [held EXCEPT ![r] = @ \cup {c}]
  BY DEF Hold
<1> HIDE DEF b
<1>4. QED
  BY <1>1, <1>2, <1>3 DEF Whole

\* A file stays whole until it is forgotten.
LEMMA WholeStays ==
    ASSUME TypeOK, ControlInv, OwnerInv, Next, NEW r \in Reps, NEW f \in Calls, Whole(r, f),
           ~\E c \in Calls : (ForgetPop(c) \/ ForgetCollapse(c)) /\ r = at[c] /\ f = old[c]
    PROVE  Whole(r, f)'
<1>1. CASE held' = held /\ boxes' = boxes
  BY <1>1 DEF Whole
<1>2. ASSUME NEW c \in Calls, StoreSave(c) \/ RotateSave(c) PROVE Whole(r, f)'
  <2>1. at[c] \in Reps /\ Hold(at[c], c)
    BY <1>2 DEF StoreSave, RotateSave, ControlInv, Control
  <2>2. QED
    BY <2>1, HoldWhole
<1>3. ASSUME NEW c \in Calls, ForgetPop(c) \/ ForgetCollapse(c) PROVE Whole(r, f)'
  <2>1. r # at[c] \/ f # old[c]
    BY <1>3
  <2>2. /\ held \in [Reps -> SUBSET Calls]
        /\ boxes \in [Reps -> [Calls -> [Pieces -> {"none", "empty", "raw", "tag", "text", "meta"}]]]
    BY DEF TypeOK
  <2>3. CASE ForgetPop(c)
    BY <2>1, <2>2, <2>3 DEF ForgetPop, Whole
  <2>4. CASE ForgetCollapse(c)
    <3>1. PICK p \in Pieces : boxes' = [boxes EXCEPT ![at[c]][old[c]][p] = "none"]
      BY <2>4 DEF ForgetCollapse
    <3>2. boxes'[r][f] = boxes[r][f] /\ held' = held
      BY <2>1, <2>2, <2>4, <3>1 DEF ForgetCollapse
    <3>3. QED
      BY <3>2 DEF Whole
  <2>5. QED
    BY <1>3, <2>3, <2>4
<1>4. QED
  BY <1>1, <1>2, <1>3, Frame DEF Kept

\* Every step leaves the entry of the key whole, or being revoked.
LEMMA LiveStep ==
    ASSUME TypeOK, ControlInv, OwnerInv, LiveInv, Next
    PROVE  LiveInv'
<1>0. NoCall \notin Calls /\ 1 \in Reps
  BY SecretsAssumption DEF Reps
<1>1. /\ entries \in [Reps -> Calls \cup {NoCall}] /\ mode \in {"single", "replicated"}
      /\ file_id \in [Reps -> [Calls -> Calls \cup {NoCall}]]
      /\ op \in [Calls -> Writers \cup {"retrieve", "none"}] /\ held \in [Reps -> SUBSET Calls]
  BY DEF TypeOK
<1>2. /\ \A r \in Reps : Served(r)
      /\ \A c \in Calls : Fresh(c)
      /\ \A c \in Calls : Control(c)
  BY DEF LiveInv, ControlInv
<1>3. ASSUME NEW c \in Calls, NEW r \in Reps, Whole(r, c), ~Past(c) PROVE Whole(r, c)'
  BY <1>0, <1>3, Forgetting, WholeStays
<1>4. ASSUME NEW c \in Calls, Forgets(c)
      PROVE  Forgotten(c) \/ (Forgets(c)' /\ entry'[c] = entry[c])
  BY <1>4, Moved DEF Moves, Forgets
<1>5. ASSUME NEW r \in Reps, entries'[r] = entries[r], entries[r] \in Calls,
             file_id'[r][entries[r]] = file_id[r][entries[r]]
      PROVE  Served(r)'
  <2>1. CASE \E c \in Calls : Forgets(c) /\ entry[c] = entries[r]
    <3>1. PICK c \in Calls : Forgets(c) /\ entry[c] = entries[r]
      BY <2>1
    <3>2. ~Forgotten(c)
      <4> SUFFICES ASSUME Forgotten(c) PROVE FALSE
        OBVIOUS
      <4>1. mode = "single" /\ at[c] = 1 /\ op[c] = "revoke"
        BY <1>1, <1>2, <3>1 DEF Control, Forgets
      <4>2. r = 1
        BY <1>0, <1>5, <4>1 DEF OwnerInv
      <4>3. entries' = [entries EXCEPT ![1] = NoCall]
        BY <1>0, <1>5, <4>1, <4>2 DEF Forgotten
      <4>4. QED
        BY <1>0, <1>1, <1>5, <4>2, <4>3
    <3>3. Forgets(c)' /\ entry'[c] = entry[c]
      BY <1>4, <3>1, <3>2
    <3>4. QED
      BY <1>5, <3>1, <3>3 DEF Served
  <2>2. CASE Whole(r, file_id[r][entries[r]])
    <3>1. PICK f \in Calls : f = file_id[r][entries[r]]
      BY <1>0, <1>1, <1>5, <2>2 DEF Whole
    <3>2. CASE \E c \in Calls : (ForgetPop(c) \/ ForgetCollapse(c)) /\ r = at[c] /\ f = old[c]
      <4>1. PICK c \in Calls : (ForgetPop(c) \/ ForgetCollapse(c)) /\ r = at[c] /\ f = old[c]
        BY <3>2
      <4>2. /\ mode = "single" /\ r = 1 /\ Owned(f, entry[c])
            /\ op[c] = "rotate" => f # file_id[1][entry[c]]
            /\ op[c] \in {"rotate", "revoke"} /\ entry[c] \in Calls
            /\ pc'[c] \in {"collapse", "forgotten"} /\ op' = op /\ entry' = entry
        BY <1>0, <3>1, <4>1, Forgetting
      <4>3. Owned(f, entries[r])
        BY <1>0, <1>5, <3>1, <4>2 DEF OwnerInv
      <4>4. entry[c] = entries[r]
        BY <4>2, <4>3 DEF Owned
      <4>5. Forgets(c)'
        BY <3>1, <4>2, <4>4 DEF Forgets
      <4>6. QED
        BY <1>5, <4>2, <4>4, <4>5 DEF Served
    <3>3. CASE ~\E c \in Calls : (ForgetPop(c) \/ ForgetCollapse(c)) /\ r = at[c] /\ f = old[c]
      <4>1. Whole(r, f)'
        BY <2>2, <3>1, <3>3, WholeStays
      <4>2. QED
        BY <1>5, <3>1, <4>1 DEF Served, Whole
    <3>4. QED
      BY <3>2, <3>3
  <2>3. QED
    BY <1>0, <1>2, <1>5, <2>1, <2>2 DEF Served
<1>6. ASSUME NEW r \in Reps PROVE Served(r)'
  <2>1. CASE entries'[r] = NoCall
    BY <2>1 DEF Served
  <2>2. ASSUME entries'[r] # NoCall, entries' = entries, file_id' = file_id PROVE Served(r)'
    BY <1>1, <1>5, <2>2
  <2>3. ASSUME NEW c \in Calls, StoreEntry(c), entries'[r] # NoCall PROVE Served(r)'
    <3>1. /\ at[c] \in Reps /\ Whole(at[c], c) /\ held' = held /\ boxes' = boxes
          /\ entries' = [entries EXCEPT ![at[c]] = c]
          /\ file_id' = [file_id EXCEPT ![at[c]][c] = c]
      BY <1>2, <2>3 DEF StoreEntry, Control, Fresh, vs
    <3>2. CASE r = at[c]
      BY <1>1, <3>1, <3>2 DEF Served, Whole
    <3>3. CASE r # at[c]
      <4>1. entries'[r] = entries[r] /\ file_id'[r] = file_id[r]
        BY <1>1, <3>1, <3>3
      <4>2. QED
        BY <1>1, <1>5, <2>3, <4>1
    <3>4. QED
      BY <3>2, <3>3
  <2>4. ASSUME NEW c \in Calls, RotateSwap(c), entries'[r] # NoCall PROVE Served(r)'
    <3>1. /\ at[c] \in Reps /\ Whole(at[c], c) /\ held' = held /\ boxes' = boxes
          /\ entries' = entries /\ entry[c] \in Calls
          /\ file_id' = [file_id EXCEPT ![at[c]][entry[c]] = c]
      BY <1>2, <2>4 DEF RotateSwap, Control, Fresh, vs
    <3>2. CASE r = at[c] /\ entries[r] = entry[c]
      BY <1>1, <3>1, <3>2 DEF Served, Whole
    <3>3. CASE ~(r = at[c] /\ entries[r] = entry[c])
      <4>1. entries'[r] = entries[r] /\ entries[r] \in Calls
        BY <1>1, <2>4, <3>1
      <4>2. file_id'[r][entries[r]] = file_id[r][entries[r]]
        BY <1>1, <3>1, <3>3, <4>1
      <4>3. QED
        BY <1>5, <4>1, <4>2
    <3>4. QED
      BY <3>2, <3>3
  <2>5. ASSUME NEW c \in Calls, Forgotten(c), entries'[r] # NoCall PROVE Served(r)'
    <3>1. file_id' = file_id /\ at[c] \in Reps
      BY <1>2, <2>5 DEF Forgotten, Raise, store, Control
    <3>2. entries' = entries \/ entries' = [entries EXCEPT ![at[c]] = NoCall]
      BY <2>5 DEF Forgotten, Raise, store
    <3>3. entries'[r] = entries[r]
      BY <1>1, <2>5, <3>1, <3>2
    <3>4. QED
      BY <1>1, <1>5, <2>5, <3>1, <3>3
  <2>6. QED
    BY <2>1, <2>2, <2>3, <2>4, <2>5, Frame DEF Kept
<1>7. ASSUME NEW c \in Calls PROVE Fresh(c)'
  <2>1. (pc[c] = "entry" => Whole(at[c], c))'
    <3> SUFFICES ASSUME pc'[c] = "entry" PROVE Whole(at[c], c)'
      OBVIOUS
    <3>1. at'[c] = at[c] /\ (StoreSave(c) \/ pc[c] = "entry")
      BY Moved DEF Moves
    <3>2. PICK r \in Reps : r = at[c]
      BY <1>2, <3>1 DEF Control, StoreSave
    <3>3. CASE StoreSave(c)
      <4>1. Whole(r, c)'
        BY <3>2, <3>3, HoldWhole DEF StoreSave
      <4>2. QED
        BY <3>1, <3>2, <4>1 DEF Whole
    <3>4. CASE pc[c] = "entry"
      <4>1. Whole(r, c)'
        BY <1>2, <1>3, <3>2, <3>4 DEF Fresh, Past
      <4>2. QED
        BY <3>1, <3>2, <4>1 DEF Whole
    <3>5. QED
      BY <3>1, <3>3, <3>4
  <2>2. (op[c] = "rotate" /\ pc[c] \in {"old", "swap"} => Whole(at[c], c))'
    <3> SUFFICES ASSUME op'[c] = "rotate", pc'[c] \in {"old", "swap"} PROVE Whole(at[c], c)'
      OBVIOUS
    <3>1. at'[c] = at[c] /\ op[c] = "rotate" /\ (RotateSave(c) \/ pc[c] \in {"old", "swap"})
      BY Moved DEF Moves
    <3>2. PICK r \in Reps : r = at[c]
      BY <1>2, <3>1 DEF Control, RotateSave
    <3>3. CASE RotateSave(c)
      <4>1. Whole(r, c)'
        BY <3>2, <3>3, HoldWhole DEF RotateSave
      <4>2. QED
        BY <3>1, <3>2, <4>1 DEF Whole
    <3>4. CASE pc[c] \in {"old", "swap"}
      <4>1. Whole(r, c)'
        BY <1>2, <1>3, <3>1, <3>2, <3>4 DEF Fresh, Past
      <4>2. QED
        BY <3>1, <3>2, <4>1 DEF Whole
    <3>5. QED
      BY <3>1, <3>3, <3>4
  <2>3. (pc[c] = "unshare" => entries[1] = NoCall \/ entries[1] # entry[c])'
    <3> SUFFICES ASSUME pc'[c] = "unshare" PROVE entries'[1] = NoCall \/ entries'[1] # entry'[c]
      OBVIOUS
    <3>1. CASE entries' = [entries EXCEPT ![at[c]] = NoCall] /\ mode = "single"
      BY <1>0, <1>1, <1>2, <3>1 DEF Control
    <3>2. CASE pc[c] = "unshare" /\ entry'[c] = entry[c]
      <4>1. CASE entries' = entries
        BY <1>2, <3>2, <4>1 DEF Fresh
      <4>2. ASSUME NEW d \in Calls, StoreEntry(d) PROVE entries'[1] # entry[c]
        <5>1. mode = "single" /\ entry[c] \in Calls /\ at[d] = 1
          BY <1>1, <1>2, <3>2 DEF Control
        <5>2. Past(entry[c]) /\ ~Past(d)
          BY <1>0, <4>2, <5>1 DEF OwnerInv, Owner, Past, StoreEntry
        <5>3. entries'[1] = d
          BY <1>0, <1>1, <4>2, <5>1 DEF StoreEntry
        <5>4. QED
          BY <5>2, <5>3
      <4>3. ASSUME NEW d \in Calls, Forgotten(d), entries' # entries PROVE entries'[1] = NoCall
        <5>1. at[d] = 1
          BY <1>1, <1>2, <3>2 DEF Control
        <5>2. entries' = [entries EXCEPT ![at[d]] = NoCall]
          BY <4>3 DEF Forgotten, Raise, store
        <5>3. QED
          BY <1>0, <1>1, <5>1, <5>2
      <4>4. ASSUME NEW d \in Calls, RotateSwap(d) PROVE entries' = entries
        BY <4>4 DEF RotateSwap
      <4>5. QED
        BY <3>2, <4>1, <4>2, <4>3, <4>4, Frame DEF Kept
    <3>3. QED
      BY <3>1, <3>2, Moved DEF Moves
  <2>4. QED
    BY <2>1, <2>2, <2>3 DEF Fresh
<1>8. QED
  BY <1>6, <1>7 DEF LiveInv

\* Every step leaves an entry on the replicas that a store() has been to.
LEMMA StoredStep ==
    ASSUME TypeOK, ControlInv, StoredInv, Next
    PROVE  StoredInv'
<1> USE SecretsAssumption DEF StoredInv, Stored, ControlInv, Control
<1>0. /\ at \in [Calls -> 1 .. Replicas + 1] /\ alive \in [Reps -> BOOLEAN] /\ Reps = 1 .. Replicas
      /\ entries \in [Reps -> Calls \cup {NoCall}]
      /\ pc \in [Calls -> Places] /\ op \in [Calls -> Writers \cup {"retrieve", "none"}]
      /\ mode \in {"single", "replicated"}
  BY DEF TypeOK, Places, Reps
<1>1. ASSUME NEW c \in Calls, NEW o \in Ops(mode), Begin(c, o) PROVE StoredInv'
  BY <1>0, <1>1 DEF Begin, Goto, store, vs
<1>2. ASSUME NEW c \in Calls, NextReplica(c) PROVE StoredInv'
  BY <1>0, <1>2 DEF NextReplica, World, Goto, store, vs, args
<1>3. ASSUME NEW c \in Calls, LookUpHeld(c) PROVE StoredInv'
  BY <1>0, <1>3 DEF LookUpHeld, Raise, End, World, Goto, store, vs, args
<1>4. ASSUME NEW c \in Calls, Snapshot(c) PROVE StoredInv'
  BY <1>0, <1>4 DEF Snapshot, End, World, Goto, store, vs, args
<1>5. ASSUME NEW c \in Calls, ForgetPop(c) PROVE StoredInv'
  BY <1>0, <1>5 DEF ForgetPop, World, Goto, store, args
<1>6. ASSUME NEW c \in Calls, ForgetCollapse(c) PROVE StoredInv'
  BY <1>0, <1>6 DEF ForgetCollapse, World, Goto, store, args
<1>7. ASSUME NEW c \in Calls, StoreSave(c) PROVE StoredInv'
  BY <1>0, <1>7 DEF StoreSave, Hold, World, Goto, store, args
<1>8. ASSUME NEW c \in Calls, StoreEntry(c) PROVE StoredInv'
  <2>1. /\ entries' = [entries EXCEPT ![at[c]] = c] /\ pc' = [pc EXCEPT ![c] = "shared"]
        /\ UNCHANGED <<mode, alive, op, at>> /\ at[c] \in Reps /\ c # NoCall
    BY <1>8 DEF StoreEntry, World, Goto, args
  <2>2. \A r \in Reps : entries[r] # NoCall => entries'[r] # NoCall
    BY <1>0, <2>1
  <2>3. entries'[at[c]] # NoCall
    BY <1>0, <2>1
  <2>4. QED
    BY <1>0, <2>1, <2>2, <2>3
<1>9. ASSUME NEW c \in Calls, StoreShared(c) PROVE StoredInv'
  <2>1. UNCHANGED <<mode, alive, op, entries>> /\ pc[c] = "shared" /\ End(c, "ok")
    BY <1>9 DEF StoreShared, World, args
  <2>2. CASE mode = "replicated"
    <3>1. /\ op[c] = "store" /\ entries[at[c]] # NoCall /\ at[c] \in Reps
          /\ pc' = [pc EXCEPT ![c] = "replica"] /\ at' = [at EXCEPT ![c] = at[c] + 1]
      BY <1>0, <2>1, <2>2 DEF End, Goto
    <3>2. \A r \in Reps : r < at[c] + 1 => r < at[c] \/ r = at[c]
      BY <1>0
    <3>3. QED
      BY <1>0, <2>1, <3>1, <3>2
  <2>3. CASE mode # "replicated"
    BY <2>1, <2>3
  <2>4. QED
    BY <2>2, <2>3
<1>10. ASSUME NEW c \in Calls, LookUp(c) PROVE StoredInv'
  BY <1>0, <1>10 DEF LookUp, Raise, End, World, Goto, store, vs, args
<1>11. ASSUME NEW c \in Calls, Authorize(c) PROVE StoredInv'
  BY <1>0, <1>11 DEF Authorize, Raise, End, World, Goto, store, vs, args
<1>12. ASSUME NEW c \in Calls, Share(c) PROVE StoredInv'
  BY <1>0, <1>12 DEF Share, Raise, End, World, Goto, store, vs, args
<1>13. ASSUME NEW c \in Calls, RotateSave(c) PROVE StoredInv'
  BY <1>0, <1>13 DEF RotateSave, Hold, World, Goto, store, args
<1>14. ASSUME NEW c \in Calls, ReadOld(c) PROVE StoredInv'
  BY <1>0, <1>14 DEF ReadOld, World, Goto, store, vs, args
<1>15. ASSUME NEW c \in Calls, RotateSwap(c) PROVE StoredInv'
  BY <1>0, <1>15 DEF RotateSwap, World, Goto, vs, args
<1>16. ASSUME NEW c \in Calls, Forgotten(c) PROVE StoredInv'
  BY <1>0, <1>16 DEF Forgotten, Raise, End, World, Goto, store, vs, args
<1>17. ASSUME NEW c \in Calls, RevokeShared(c) PROVE StoredInv'
  BY <1>0, <1>17 DEF RevokeShared, End, World, Goto, vs, args
<1>18. ASSUME NEW r \in Reps, KillReplica(r) PROVE StoredInv'
  BY <1>0, <1>18 DEF KillReplica, store, vs, args
<1>19. QED
  BY <1>1, <1>2, <1>3, <1>4, <1>5, <1>6, <1>7, <1>8, <1>9, <1>10, <1>11, <1>12, <1>13,
     <1>14, <1>15, <1>16, <1>17, <1>18 DEF Next

\* Every step leaves the original in the box that a file is rebuilt from, or nothing.
LEMMA RawStep ==
    ASSUME TypeOK, ControlInv, RawInv, Next
    PROVE  RawInv'
<1>0. /\ boxes \in [Reps -> [Calls -> [Pieces -> {"none", "empty", "raw", "tag", "text", "meta"}]]]
      /\ From \in Pieces
  BY Split, SecretsAssumption DEF TypeOK
<1>1. From' = From
  BY Frame DEF Kept, From
<1>2. CASE boxes' = boxes
  BY <1>1, <1>2 DEF RawInv
<1>3. ASSUME NEW c \in Calls, StoreSave(c) \/ RotateSave(c) PROVE RawInv'
  <2> DEFINE b == [p \in Pieces |-> split_bytes(Bytes("raw"), kind, Parses)[p].of]
  <2>1. at[c] \in Reps /\ boxes' = [boxes EXCEPT ![at[c]][c] = b]
    BY <1>3 DEF StoreSave, RotateSave, Hold, ControlInv, Control
  <2>2. b[From] = "raw"
    BY <1>0, Split, SecretsAssumption DEF TypeOK
  <2> HIDE DEF b
  <2>3. QED
    BY <1>0, <1>1, <2>1, <2>2 DEF RawInv
<1>4. ASSUME NEW c \in Calls, ForgetCollapse(c) PROVE RawInv'
  <2>1. PICK p \in Pieces : boxes' = [boxes EXCEPT ![at[c]][old[c]][p] = "none"]
    BY <1>4 DEF ForgetCollapse
  <2>2. QED
    BY <1>0, <1>1, <2>1 DEF RawInv
<1>5. ASSUME NEW c \in Calls, ForgetPop(c) PROVE boxes' = boxes
  BY <1>5 DEF ForgetPop
<1>6. QED
  BY <1>2, <1>3, <1>4, <1>5, Frame DEF Kept

\* A step while nobody writes is one of a retrieve(), or the beginning of a call.
LEMMA NobodyWrites ==
    ASSUME TypeOK, ControlInv, Next, mode = "single", Writing = {}
    PROVE  \/ \E c \in Calls, o \in Ops(mode) : Begin(c, o)
           \/ \E c \in Calls : /\ op[c] = "retrieve"
                               /\ LookUp(c) \/ Authorize(c) \/ LookUpHeld(c) \/ Snapshot(c)
<1>1. \A c \in Calls : Control(c) /\ (pc[c] \in {"idle", "done"} \/ op[c] \notin Writers)
  BY DEF Writing, Running, ControlInv
<1>2. ASSUME NEW c \in Calls
      PROVE  ~(ForgetPop(c) \/ ForgetCollapse(c) \/ StoreSave(c) \/ StoreEntry(c) \/ StoreShared(c))
  BY <1>1 DEF Control, Writers, ForgetPop, ForgetCollapse, StoreSave, StoreEntry, StoreShared
<1>3. ASSUME NEW c \in Calls
      PROVE  ~(Share(c) \/ RotateSave(c) \/ ReadOld(c) \/ RotateSwap(c) \/ Forgotten(c) \/ RevokeShared(c))
  BY <1>1 DEF Control, Writers, Share, RotateSave, ReadOld, RotateSwap, Forgotten, RevokeShared
<1>4. ASSUME NEW c \in Calls, LookUp(c) \/ Authorize(c) \/ LookUpHeld(c) \/ Snapshot(c)
      PROVE  op[c] = "retrieve"
  BY <1>1, <1>4 DEF Control, Writers, LookUp, Authorize, LookUpHeld, Snapshot
<1>5. ASSUME NEW c \in Calls PROVE ~NextReplica(c)
  BY <1>1 DEF Control, NextReplica
<1>6. ASSUME NEW r \in Reps PROVE ~KillReplica(r)
  BY DEF KillReplica
<1>7. QED
  BY <1>2, <1>3, <1>4, <1>5, <1>6 DEF Next

\* Every step leaves an undisturbed retrieve() with what there is.
LEMMA QuietStep ==
    ASSUME TypeOK, ControlInv, OwnerInv, LiveInv, RawInv, QuietInv, Next, mode = "single"
    PROVE  QuietInv'
<1>0. /\ 1 \in Reps /\ quiet \subseteq Calls /\ NoCall \notin Calls
      /\ \A c \in Calls : Control(c) /\ at[c] = 1
      /\ pc \in [Calls -> Places] /\ op \in [Calls -> Writers \cup {"retrieve", "none"}]
      /\ entries[1] \in Calls \cup {NoCall}
      /\ entry \in [Calls -> Calls \cup {NoCall}] /\ old \in [Calls -> Calls \cup {NoCall}]
      /\ ans \in [Calls -> Answers]
  BY SecretsAssumption DEF TypeOK, Places, Reps, ControlInv, Control
<1>1. SUFFICES ASSUME NEW d \in quiet' PROVE Undisturbed(d)'
  BY DEF QuietInv
<1>2. ASSUME NEW c \in Calls, NEW o \in Ops(mode), Begin(c, o) PROVE Undisturbed(d)'
  <2>1. o = "retrieve" /\ Writing = {} /\ quiet' = quiet \cup {c}
    BY <1>0, <1>2 DEF Begin, Ops, QuietInv, Undisturbed
  <2>2. /\ op' = [op EXCEPT ![c] = "retrieve"] /\ pc' = [pc EXCEPT ![c] = "look"]
        /\ UNCHANGED <<entries, file_id, token, entry, old, ans>> /\ op[c] = "none"
    BY <1>0, <1>2, <2>1 DEF Begin, Goto, store, Control
  <2>3. Writing' = {}
    BY <1>0, <2>1, <2>2 DEF Writing, Running, Writers
  <2>4. CASE d = c
    BY <1>0, <2>2, <2>3, <2>4 DEF Undisturbed
  <2>5. CASE d # c
    <3>1. d \in quiet /\ d \in Calls /\ Undisturbed(d)
      BY <1>0, <2>1, <2>5 DEF QuietInv
    <3>2. QED
      BY <1>0, <2>2, <2>3, <2>5, <3>1 DEF Undisturbed
  <2>6. QED
    BY <2>4, <2>5
<1>3. ASSUME NEW c \in Calls, op[c] = "retrieve",
             LookUp(c) \/ Authorize(c) \/ LookUpHeld(c) \/ Snapshot(c)
      PROVE  Undisturbed(d)'
  <2>1. /\ UNCHANGED <<entries, file_id, op, token, mode, quiet>>
        /\ \A f \in Calls : f # c => pc'[f] = pc[f] /\ entry'[f] = entry[f] /\ old'[f] = old[f] /\ ans'[f] = ans[f]
    <3>1. CASE LookUp(c)
      BY <1>0, <3>1, LookUps DEF Found, Raise, End, World, Goto, store, args
    <3>2. CASE Authorize(c)
      BY <1>0, <3>2 DEF Authorize, Raise, End, World, Goto, store, args
    <3>3. CASE LookUpHeld(c)
      BY <1>0, <3>3 DEF LookUpHeld, Raise, End, World, Goto, store, args
    <3>4. CASE Snapshot(c)
      BY <1>0, <3>4 DEF Snapshot, End, World, Goto, store, args
    <3>5. QED
      BY <1>3, <3>1, <3>2, <3>3, <3>4
  <2>2. d \in quiet /\ d \in Calls /\ Undisturbed(d)
    BY <1>0, <2>1 DEF QuietInv
  <2>3. Writing = {} /\ Writing' = {}
    <3>1. \A f \in Calls : pc[f] \in {"idle", "done"} \/ op[f] \notin Writers
      BY <2>2 DEF Undisturbed, Writing, Running
    <3>2. \A f \in Calls : pc'[f] \in {"idle", "done"} \/ op'[f] \notin Writers
      BY <1>3, <2>1, <3>1 DEF Writers
    <3>3. QED
      BY <2>2, <3>2 DEF Undisturbed, Writing, Running
  <2>4. CASE d # c
    BY <2>1, <2>2, <2>3, <2>4 DEF Undisturbed
  <2>5. CASE d = c
    <3>0. /\ pc[c] \in {"auth", "held", "snapshot"} => entry[c] = entries[1] /\ entry[c] \in Calls
          /\ pc[c] = "snapshot" => old[c] = file_id[1][entry[c]]
      BY <1>0, <2>2, <2>5 DEF Undisturbed, Control
    <3>1. entries[1] # NoCall => Whole(1, file_id[1][entries[1]])
      <4>1. \A f \in Calls : ~Forgets(f)
        BY <2>2 DEF Undisturbed, Writing, Running, Forgets, Writers
      <4>2. QED
        BY <1>0, <4>1 DEF LiveInv, Served
    <3>2. (pc[c] \in {"auth", "held", "snapshot"} => entry[c] = entries[1])'
      <4>1. CASE LookUp(c)
        BY <1>0, <2>1, <4>1, LookUps DEF Found, Raise, End, Goto, LookUp
      <4>2. CASE Authorize(c)
        BY <1>0, <2>1, <3>0, <4>2 DEF Authorize, Raise, End, Goto
      <4>3. CASE LookUpHeld(c)
        BY <1>0, <2>1, <3>0, <4>3 DEF LookUpHeld, Raise, End, Goto
      <4>4. CASE Snapshot(c)
        BY <1>0, <2>1, <3>0, <4>4 DEF Snapshot, End, Goto
      <4>5. QED
        BY <1>3, <4>1, <4>2, <4>3, <4>4
    <3>3. (pc[c] = "snapshot" => old[c] = file_id[1][entry[c]])'
      <4>1. CASE LookUp(c)
        <5>1. Found(c) \/ End(c, "KeyError")
          BY <1>3, <4>1, LookUps DEF Raise
        <5>2. pc'[c] # "snapshot"
          BY <1>0, <1>3, <5>1 DEF Found, End, Goto
        <5>3. QED
          BY <5>2
      <4>2. CASE Authorize(c)
        BY <1>0, <2>1, <3>0, <4>2 DEF Authorize, Raise, End, Goto
      <4>3. CASE LookUpHeld(c)
        BY <1>0, <2>1, <3>0, <4>3 DEF LookUpHeld, Raise, End, Goto
      <4>4. CASE Snapshot(c)
        BY <1>0, <2>1, <3>0, <4>4 DEF Snapshot, End, Goto
      <4>5. QED
        BY <1>3, <4>1, <4>2, <4>3, <4>4
    <3>4. (pc[c] = "done" /\ entries[1] # NoCall /\ token[c] = token[entries[1]] =>
              ans[c] = file_id[1][entries[1]])'
      <4> SUFFICES ASSUME pc'[c] = "done", entries[1] # NoCall, token[c] = token[entries[1]]
                   PROVE  ans'[c] = file_id[1][entries[1]]
        BY <2>1
      <4>1. CASE LookUp(c)
        BY <1>0, <1>3, <4>1, LookUps DEF Found, Goto
      <4>2. CASE Authorize(c)
        BY <1>0, <3>0, <4>2 DEF Authorize, Goto
      <4>3. CASE LookUpHeld(c)
        BY <1>0, <3>0, <3>1, <4>3 DEF LookUpHeld, Goto, Whole
      <4>4. CASE Snapshot(c)
        <5>1. old[c] = file_id[1][entries[1]] /\ old[c] \in Calls
          BY <1>0, <3>0, <4>4 DEF Snapshot, Control
        <5>2. boxes[1][old[c]][From] = "raw"
          BY <1>0, <3>1, <5>1, Split, SecretsAssumption DEF RawInv, Whole, TypeOK
        <5>3. End(c, old[c])
          BY <1>0, <4>4, <5>2 DEF Snapshot, From
        <5>4. QED
          BY <1>0, <5>1, <5>3 DEF End
      <4>5. QED
        BY <1>3, <4>1, <4>2, <4>3, <4>4
    <3>5. QED
      BY <2>1, <2>2, <2>3, <2>5, <3>2, <3>3, <3>4 DEF Undisturbed
  <2>6. QED
    BY <2>4, <2>5
<1>4. CASE quiet # {}
  <2>1. Writing = {}
    BY <1>4 DEF QuietInv, Undisturbed
  <2>2. \/ \E c \in Calls, o \in Ops(mode) : Begin(c, o)
        \/ \E c \in Calls : /\ op[c] = "retrieve"
                            /\ LookUp(c) \/ Authorize(c) \/ LookUpHeld(c) \/ Snapshot(c)
    BY <2>1, NobodyWrites
  <2>3. CASE \E c \in Calls, o \in Ops(mode) : Begin(c, o)
    BY <1>2, <2>3
  <2>4. ASSUME NEW c \in Calls, op[c] = "retrieve",
               LookUp(c) \/ Authorize(c) \/ LookUpHeld(c) \/ Snapshot(c)
        PROVE  Undisturbed(d)'
    BY <1>3, <2>4
  <2>5. QED
    BY <2>2, <2>3, <2>4
<1>5. CASE quiet = {}
  <2>1. \/ quiet' = quiet
        \/ \E c \in Calls, o \in Ops(mode) : Begin(c, o)
    BY Frame DEF Kept
  <2>2. QED
    BY <1>1, <1>2, <1>5, <2>1
<1>6. QED
  BY <1>4, <1>5

-----------------------------------------------------------------------------
(* The invariant and what it says.                                         *)

\* A new store is empty, and no call has begun.
LEMMA Initially == Init => IInv
<1> SUFFICES ASSUME Init PROVE IInv
  OBVIOUS
<1> USE SecretsAssumption DEF Init, NewStores
<1>1. TypeOK
  <2>1. shared \in [Reps -> SUBSET SUBSET Tokens] /\ \A r \in Reps : Cardinality(shared[r]) <= 1
    BY One
  <2>2. /\ kind \in Kinds /\ alive \in [Reps -> BOOLEAN] /\ mode \in {"single", "replicated"}
        /\ at \in [Calls -> 1 .. Replicas + 1]
    BY DEF Kinds
  <2>3. QED
    BY <2>1, <2>2 DEF TypeOK, Answers
<1>2. ControlInv
  BY DEF ControlInv, Control, Writers
<1>3. 1 \in Reps
  BY DEF Reps
<1>4. OwnerInv
  BY <1>3 DEF OwnerInv, Owner
<1>5. LiveInv
  BY <1>3 DEF LiveInv, Served, Fresh
<1>6. StoredInv
  BY DEF StoredInv, Stored
<1>7. RawInv
  BY <1>1, Split DEF RawInv, TypeOK
<1>8. QuietInv
  BY DEF QuietInv
<1>9. QED
  BY <1>1, <1>2, <1>4, <1>5, <1>6, <1>7, <1>8 DEF IInv

\* A step that changes nothing keeps the invariant.
LEMMA Stutter == IInv /\ UNCHANGED vars => IInv'
<1> SUFFICES ASSUME IInv, UNCHANGED vars PROVE IInv'
  OBVIOUS
<1> USE DEF vars, store, vs, args
<1>1. TypeOK' /\ ControlInv' /\ StoredInv'
  BY DEF IInv, TypeOK, ControlInv, Control, StoredInv, Stored
<1>2. OwnerInv'
  BY DEF IInv, OwnerInv, Owner, Owned, Past
<1>3. LiveInv'
  BY DEF IInv, LiveInv, Served, Fresh, Forgets, Whole
<1>4. RawInv'
  BY DEF IInv, RawInv, From
<1>5. QuietInv'
  BY DEF IInv, QuietInv, Undisturbed, Writing, Running
<1>6. QED
  BY <1>1, <1>2, <1>3, <1>4, <1>5 DEF IInv

\* The inductive invariant of the stores: which file belongs to which entry, and what every
\* call has looked up.
THEOREM Invariance == Spec => []IInv
<1>1. IInv /\ Next => IInv'
  <2> SUFFICES ASSUME IInv, Next PROVE IInv'
    OBVIOUS
  <2>1. TypeOK' /\ ControlInv' /\ LiveInv' /\ StoredInv' /\ RawInv'
    BY TypeStep, ControlStep, LiveStep, StoredStep, RawStep DEF IInv
  <2>2. mode' = mode
    BY Frame DEF IInv, Kept
  <2>3. OwnerInv' /\ QuietInv'
    <3>1. CASE mode = "single"
      BY <3>1, OwnerStep, QuietStep DEF IInv
    <3>2. CASE mode # "single"
      BY <2>2, <3>2 DEF OwnerInv, QuietInv
    <3>3. QED
      BY <3>1, <3>2
  <2>4. QED
    BY <2>1, <2>3 DEF IInv
<1>2. QED
  BY <1>1, Initially, Stutter, PTL DEF Spec

\* rotate(), store() and revoke(), however many of them race: the file that the key's entry
\* names is held whole, unless a revoke() of that entry is under way.
THEOREM EntryStaysLive == Spec => []EntryIsLive
<1>1. IInv => EntryIsLive
  BY DEF IInv, LiveInv, Served, Forgets, Writing, Running, Writers, EntryIsLive
<1>2. QED
  BY <1>1, Invariance, PTL

\* ReplicatedSecretsStore.store(): when it returns, each replica that is still alive can
\* serve the key, for every number of replicas.
THEOREM StoredEverywhere == Spec => []StoredOnEveryReplica
<1>1. IInv => StoredOnEveryReplica
  <2> SUFFICES ASSUME IInv, mode = "replicated", NEW c \in Calls, op[c] = "store", pc[c] = "done",
                      NEW r \in Reps, alive[r]
               PROVE  entries[r] # NoCall /\ Whole(r, file_id[r][entries[r]])
    BY DEF StoredOnEveryReplica
  <2>1. r < at[c]
    BY SecretsAssumption DEF IInv, TypeOK, StoredInv, Stored, Reps
  <2>2. entries[r] # NoCall
    BY <2>1 DEF IInv, StoredInv, Stored
  <2>3. \A d \in Calls : ~Forgets(d)
    BY DEF IInv, ControlInv, Control, Forgets
  <2>4. QED
    BY <2>2, <2>3 DEF IInv, LiveInv, Served
<1>2. QED
  BY <1>1, Invariance, PTL

\* retrieve() by the owner, beside which nobody writes: it gives the file of the key's entry,
\* whatever the writers before it did to each other.
THEOREM OwnerReads == Spec => []QuietOwnerRead
<1>1. IInv => QuietOwnerRead
  BY DEF IInv, QuietInv, Undisturbed, QuietOwnerRead
<1>2. QED
  BY <1>1, Invariance, PTL
==============================================================================
