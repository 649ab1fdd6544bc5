------------------------------ MODULE KeyRelease ------------------------------
(***************************************************************************)
(* The release of transit keys by SecureVirtualStorage                     *)
(* (vstorage/secure_system.py): retrieve_to_destination() writes a file    *)
(* encrypted under a fresh key, forces it to disk and only then gives the  *)
(* key away, directly ("untrusted") or for a single-use token with a       *)
(* deadline ("hostile") that redeem_key() exchanges.  Whoever has the key  *)
(* reads the file back with decrypt_wrapped_file(), which takes the end of *)
(* the file for the end of the data.                                       *)
(*                                                                         *)
(* A call names its key and its token.  The clock is time.time().  The     *)
(* specification is ReleaseSpec, so that a module can extend this one and  *)
(* SecureVirtualStorage.                                                   *)
(***************************************************************************)
EXTENDS Naturals

CONSTANTS
    Untrusted, Hostile,  \* calls of retrieve_to_destination() by tier
    NumChunks,           \* wrapped chunks in a file
    TTL,                 \* token_ttl
    MaxTime              \* bound: the clock

ASSUME ReleaseAssumption ==
    /\ Untrusted \cap Hostile = {}
    /\ NumChunks \in Nat /\ TTL \in Nat /\ MaxTime \in Nat

VARIABLES
    now,        \* time.time()
    pc,         \* progress of each call
    written,    \* wrapped chunks in its file
    durable,    \* calls whose file is on disk for good
    pending,    \* tokens in self._pending_keys
    expires,    \* the deadline of each token
    delivered,  \* how often each key has been given away (2: more than once)
    answers,    \* what redeem_key() has raised for each token so far
    opened,     \* chunks that decrypt_wrapped_file() has read back
    decrypted   \* calls whose file it has read to the end

files == <<pc, written, durable>>
desk  == <<pending, expires>>
log   == <<delivered, answers>>
back  == <<opened, decrypted>>
releaseVars == <<now, files, desk, log, back>>

Call == Untrusted \cup Hostile
Time == 0 .. MaxTime

ReleaseTypeOK ==
    /\ now \in Time
    /\ pc \in [Call -> {"idle", "streaming", "written", "synced", "minted",
                        "done", "failed"}]
    /\ written \in [Call -> 0 .. NumChunks]
    /\ durable \subseteq Call
    /\ pending \subseteq Hostile
    /\ expires \in [Call -> 0 .. MaxTime + TTL]
    /\ delivered \in [Call -> 0 .. 2]
    /\ answers \in [Call -> SUBSET {"KeyError", "TimeoutError"}]
    /\ opened \in [Call -> 0 .. NumChunks] /\ decrypted \subseteq Call

ReleaseInit ==
    /\ now = 0
    /\ pc = [t \in Call |-> "idle"]
    /\ written = [t \in Call |-> 0]
    /\ durable = {} /\ pending = {}
    /\ expires = [t \in Call |-> 0]
    /\ delivered = [t \in Call |-> 0]
    /\ answers = [t \in Call |-> {}]
    /\ opened = [t \in Call |-> 0] /\ decrypted = {}

Goto(t, label) == pc' = [pc EXCEPT ![t] = label]

Tick == now < MaxTime /\ now' = now + 1 /\ UNCHANGED <<files, desk, log, back>>

-----------------------------------------------------------------------------
(* retrieve_to_destination().                                              *)

Begin(t) ==
    /\ pc[t] = "idle"
    /\ Goto(t, "streaming")
    /\ UNCHANGED <<now, written, durable, desk, log, back>>

\* One chunk decrypted, encrypted under the transit key and written.
WrapChunk(t) ==
    /\ pc[t] = "streaming" /\ written[t] < NumChunks
    /\ written' = [written EXCEPT ![t] = @ + 1]
    /\ UNCHANGED <<now, pc, durable, desk, log, back>>

Streamed(t, complete, label) ==
    /\ pc[t] = "streaming" /\ complete
    /\ Goto(t, label)
    /\ UNCHANGED <<now, written, durable, desk, log, back>>

\* Mutants of StreamWrapped: write() is taken for durable; the last chunk is left out.
StreamNoSync(t) == Streamed(t, written[t] = NumChunks, "synced")
StreamShort(t)  == Streamed(t, written[t] + 1 >= NumChunks, "written")

\* Every chunk is written, and the file is flushed.
StreamWrapped(t) == Streamed(t, written[t] = NumChunks, "written")

\* The box was forgotten meanwhile, or the disk is full: the exception leaves
\* a partial file behind and no key.
Fails(t) ==
    /\ pc[t] \in {"streaming", "written"}
    /\ Goto(t, "failed")
    /\ UNCHANGED <<now, written, durable, desk, log, back>>

Fsync(t) ==
    /\ pc[t] = "written"
    /\ durable' = durable \cup {t}
    /\ Goto(t, "synced")
    /\ UNCHANGED <<now, written, desk, log, back>>

Deliver(t) ==
    /\ delivered' = [delivered EXCEPT ![t] = IF @ = 2 THEN 2 ELSE @ + 1]
    /\ UNCHANGED answers

ReturnKey(t) ==
    /\ t \in Untrusted /\ pc[t] = "synced"
    /\ Deliver(t)
    /\ Goto(t, "done")
    /\ UNCHANGED <<now, written, durable, desk, back>>

\* The token is drawn and its deadline set, before the lock is taken.
Mint(t) ==
    /\ t \in Hostile /\ pc[t] = "synced"
    /\ expires' = [expires EXCEPT ![t] = now + TTL]
    /\ Goto(t, "minted")
    /\ UNCHANGED <<now, written, durable, pending, log, back>>

\* Mutant of Expired: the sweep takes the last instant for too late, redeem_key() does not.
ExpiredAtDeadline == {t \in pending : expires[t] <= now}

\* _sweep_expired_tokens_locked
Expired == {t \in pending : expires[t] < now}

Issue(t) ==
    /\ t \in Hostile /\ pc[t] = "minted"
    /\ pending' = (pending \ Expired) \cup {t}
    /\ Goto(t, "done")
    /\ UNCHANGED <<now, written, durable, expires, log, back>>

-----------------------------------------------------------------------------
(* redeem_key(), one critical section each.                                *)

Refuse(t, answer) ==
    /\ answers' = [answers EXCEPT ![t] = @ \cup {answer}]
    /\ UNCHANGED <<now, files, expires, delivered, back>>

\* Any string may be presented; only a token that was returned can be right.
RedeemUnknown(t) ==
    /\ t \in Hostile /\ pc[t] = "done" /\ t \notin pending
    /\ Refuse(t, "KeyError")
    /\ UNCHANGED pending

RedeemExpired(t) ==
    /\ t \in pending /\ now > expires[t]
    /\ pending' = pending \ {t}
    /\ Refuse(t, "TimeoutError")

\* Mutant of Redeem: the entry is not deleted.
RedeemKept(t) ==
    /\ t \in pending /\ now <= expires[t]
    /\ Deliver(t)
    /\ UNCHANGED <<now, files, desk, back>>

Redeem(t) ==
    /\ t \in pending /\ now <= expires[t]
    /\ pending' = pending \ {t}
    /\ Deliver(t)
    /\ UNCHANGED <<now, files, expires, back>>

-----------------------------------------------------------------------------
(* decrypt_wrapped_file(), with a key that was given away.                 *)

OpenChunk(t) ==
    /\ delivered[t] > 0 /\ opened[t] < written[t]
    /\ opened' = [opened EXCEPT ![t] = @ + 1]
    /\ UNCHANGED <<now, files, desk, log, decrypted>>

\* An empty read ends the loop: nothing else tells a file from its beginning.
EndOfFile(t) ==
    /\ delivered[t] > 0 /\ opened[t] = written[t]
    /\ decrypted' = decrypted \cup {t}
    /\ UNCHANGED <<now, files, desk, log, opened>>

ReleaseNext ==
    \/ Tick
    \/ \E t \in Call :
         \/ Begin(t) \/ WrapChunk(t) \/ StreamWrapped(t) \/ Fails(t) \/ Fsync(t)
         \/ ReturnKey(t) \/ OpenChunk(t) \/ EndOfFile(t)
         \/ Mint(t) \/ Issue(t) \/ RedeemUnknown(t) \/ RedeemExpired(t) \/ Redeem(t)

ReleaseSpec == ReleaseInit /\ [][ReleaseNext]_releaseVars

-----------------------------------------------------------------------------
(* Properties.                                                             *)

\* "Don't hand out the means to read the file until the file has genuinely,
\* durably left": no key, and no token for one, before its fsync().
KeyAfterDeparture ==
    \A t \in Call : delivered[t] > 0 \/ t \in pending => t \in durable

\* Whoever was given a key reads all the data back: a file that a failed call has cut
\* off between two chunks, which decrypt_wrapped_file() could not tell from a whole
\* one, never comes with a key.
DecryptedIsWhole == \A t \in decrypted : opened[t] = NumChunks

\* A key leaves once, whatever the races of two redeemers and of the sweep of
\* another call: "single-use (deleted the instant this succeeds)".
SingleUse == \A t \in Call : delivered[t] <= 1

\* Until its own deadline a token is worth its key: the sweep of another call, which reads
\* the clock with < where redeem_key() has >, does not take it away, and nobody who comes
\* in time and first is refused.  "TimeoutError for a real but expired one" is said only
\* of a token whose key has never been given away and never will be.
RedeemableUntilDeadline ==
    \A t \in Hostile :
        /\ pc[t] = "done" => t \in pending \/ delivered[t] > 0 \/ now > expires[t]
        /\ answers[t] # {} => delivered[t] > 0 \/ now > expires[t]
        /\ "TimeoutError" \in answers[t] => delivered[t] = 0
=============================================================================
