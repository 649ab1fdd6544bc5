-------------------------- MODULE NetworkTrustGroup --------------------------
(***************************************************************************)
(* NetworkTrustGroup (vstorage/network_trust.py) and its holder servers    *)
(* (vstorage/holder_server.py): N processes answer "ping" and "get_share"  *)
(* over one TLS connection each.  The heartbeat thread and the callers of  *)
(* fetch() share a lock; stop() closes the connections without it.         *)
(*                                                                         *)
(* A connection is two queues.  Nobody takes a late answer out of it: what *)
(* arrives after a timeout is read by whoever asks next.  A server answers *)
(* from a copy of its share that its watchdog does not zero, so tampering  *)
(* is, for the group, the death of the server.                             *)
(***************************************************************************)
EXTENDS Integers, Sequences, FiniteSets, FiniteSetsExt

CONSTANTS
    N, K,            \* holders, and shares needed
    KillThreshold,   \* compromised holders that kill the main process; 0: never
    Secret, Random,  \* the root secret and the random coefficients
    Split(_, _, _),  \* split_secret() and combine_shares() of shamir.py: module Shamir
    Combine(_),
    Fetchers,        \* threads that call fetch()
    Mortal,          \* holders that may die
    Slow             \* holders whose answers may come too late, or never

ASSUME GroupAssumption ==
    /\ N \in Nat \ {0} /\ K \in 1 .. N /\ KillThreshold \in Nat
    /\ Fetchers \cap {"free", "monitor"} = {}
    /\ Mortal \subseteq 1 .. N /\ Slow \subseteq 1 .. N

Holder == 1 .. N
Shares == Split(Secret, Random, N)
Pong   == <<"pong">>

\* What the group needs of the sharing: any K shares, of K holders, give the secret, in
\* whatever order they come in, and no share looks like the answer to a ping.
ASSUME SharingAssumption ==
    /\ \A hs \in [1 .. K -> Holder] :
         (\A i, j \in 1 .. K : i # j => hs[i] # hs[j]) =>
             Combine([i \in 1 .. K |-> Shares[hs[i]]]) = Secret
    /\ \A h \in Holder : Shares[h] # Pong

VARIABLES
    up,           \* the holder servers that run
    req, resp,    \* each connection, both directions
    closed,       \* the connections that stop() has closed
    main,         \* is the main process alive?
    lock,         \* owner of self._lock
    compromised,  \* self._compromised_indices
    killed,       \* self._kill_triggered
    mpc, mi,      \* the constructor, then the monitor: where it is, and at which holder
    fpc,          \* each fetch(): where it is; idle before it and after it raised
    todo,         \* the holders it has yet to ask
    collected,    \* the shares it has got; once done, it returns what they combine to
    stopping, spc, si \* self._stopping, and stop(): where it is, and at which holder

wire    == <<up, req, resp>>
verdict == <<compromised, killed, main>>
monitor == <<mpc, mi>>
fetches == <<fpc, todo, collected>>
stopper == <<stopping, closed, spc, si>>
vars    == <<wire, verdict, lock, monitor, fetches, stopper>>

TypeOK ==
    /\ up \subseteq Holder /\ closed \subseteq Holder /\ compromised \subseteq Holder
    /\ req \in [Holder -> Seq({"ping", "get_share"})]
    /\ \A h \in Holder : \A i \in DOMAIN resp[h] : resp[h][i] \in {Pong, Shares[h]}
    /\ main \in BOOLEAN /\ killed \in BOOLEAN /\ stopping \in BOOLEAN
    /\ lock \in Fetchers \cup {"free", "monitor"}
    /\ mpc \in {"start", "connect", "raised", "check", "lock", "recv", "accuse", "judge", "ended"} /\ mi \in Holder
    /\ fpc \in [Fetchers -> {"idle", "lock", "send", "recv", "judge", "done"}]
    /\ todo \in [Fetchers -> SUBSET Holder]
    /\ \A f \in Fetchers : Len(collected[f]) <= K
    /\ spc \in {"idle", "close", "terminate", "wait", "done"} /\ si \in Holder

Init ==
    /\ up = {} /\ closed = {} /\ compromised = {}
    /\ req = [h \in Holder |-> <<>>] /\ resp = [h \in Holder |-> <<>>]
    /\ main = TRUE /\ killed = FALSE /\ stopping = FALSE /\ lock = "free"
    /\ mpc = "start" /\ mi = 1
    /\ fpc = [f \in Fetchers |-> "idle"] /\ todo = [f \in Fetchers |-> {}]
    /\ collected = [f \in Fetchers |-> <<>>]
    /\ spc = "idle" /\ si = 1

\* The constructor has returned: there is a group to use.
Built == mpc \notin {"start", "connect", "raised"}

-----------------------------------------------------------------------------
(* The constructor: one holder after the other.                            *)

\* Popen and the server's main(), up to its ready line.
HolderStarts ==
    /\ mpc = "start"
    /\ up' = up \cup {mi} /\ mpc' = "connect"
    /\ UNCHANGED <<req, resp, verdict, lock, mi, fetches, stopper>>

\* The connection to it; after the last one the heartbeat starts.
Connect ==
    /\ mpc = "connect" /\ mi \in up
    /\ mpc' = IF mi = N THEN "check" ELSE "start"
    /\ mi' = (mi % N) + 1
    /\ UNCHANGED <<wire, verdict, lock, fetches, stopper>>

\* No ready line, or nobody listens: the servers started before stay behind.
ConnectRaises ==
    /\ mpc = "connect" /\ mi \notin up
    /\ mpc' = "raised"
    /\ UNCHANGED <<wire, verdict, lock, mi, fetches, stopper>>

-----------------------------------------------------------------------------
(* The holder servers and their connections.                               *)

\* _handle_connection: one line in, one line out.
Serve(h) ==
    /\ h \in up /\ req[h] # <<>>
    /\ req' = [req EXCEPT ![h] = Tail(@)]
    /\ resp' = [resp EXCEPT ![h] = Append(@, IF Head(req[h]) = "ping" THEN Pong ELSE Shares[h])]
    /\ UNCHANGED <<up, verdict, lock, monitor, fetches, stopper>>

\* A server is killed, by its watchdog or otherwise.
HolderDies(h) ==
    /\ h \in Mortal \cap up
    /\ up' = up \ {h}
    /\ UNCHANGED <<req, resp, verdict, lock, monitor, fetches, stopper>>

\* _send; a connection that stop() has closed raises OSError instead.
Send(h, op) == h \notin closed /\ req' = [req EXCEPT ![h] = Append(@, op)] /\ UNCHANGED <<up, resp>>

\* _recv_line returns the oldest line, whoever asked for it.
Receive(h) ==
    /\ resp[h] # <<>> /\ h \notin closed
    /\ resp' = [resp EXCEPT ![h] = Tail(@)]
    /\ UNCHANGED <<up, req>>

\* Mutant of ReceiveRaises: the sockets have no timeout.
ReceiveRaisesNoTimeout(h) == (h \in closed \/ h \notin up) /\ UNCHANGED wire

\* _recv_line raises: end of file, a reset, the timeout, or a closed socket.
ReceiveRaises(h) ==
    /\ h \in closed \/ h \notin up \/ (h \in Slow /\ resp[h] = <<>>)
    /\ UNCHANGED wire

-----------------------------------------------------------------------------
(* _on_holder_compromised, in two steps: the set, then the count.          *)

Judge ==
    LET kill == ~killed /\ KillThreshold > 0 /\ Cardinality(compromised) >= KillThreshold IN
    killed' = (killed \/ kill) /\ main' = (main /\ ~kill) /\ UNCHANGED compromised

-----------------------------------------------------------------------------
(* The heartbeat thread.                                                   *)

\* Mutant of NextHolder: every round but the first leaves out the first holder.
NextHolderNotFirst == IF mi = N THEN 2 ELSE mi + 1

NextHolder == (mi % N) + 1

\* After the last holder it sleeps, which takes no step.
MonitorCheck ==
    /\ main /\ mpc = "check"
    /\ \/ stopping /\ mpc' = "ended" /\ mi' = mi
       \/ ~stopping /\ mi \in compromised /\ mpc' = mpc /\ mi' = NextHolder
       \/ ~stopping /\ mi \notin compromised /\ mpc' = "lock" /\ mi' = mi
    /\ UNCHANGED <<wire, verdict, lock, fetches, stopper>>

\* _ping: the lock is taken and the question sent.
PingLock ==
    /\ main /\ mpc = "lock" /\ lock = "free"
    /\ \/ Send(mi, "ping") /\ lock' = "monitor" /\ mpc' = "recv"
       \/ mi \in closed /\ lock' = lock /\ mpc' = "accuse" /\ UNCHANGED wire
    /\ UNCHANGED <<verdict, mi, fetches, stopper>>

\* Only a pong is a sign of life; the lock is released before the verdict.
PingRecv ==
    /\ main /\ mpc = "recv"
    /\ \/ /\ Receive(mi)
          /\ IF Head(resp[mi]) = Pong THEN mpc' = "check" /\ mi' = NextHolder
                                      ELSE mpc' = "accuse" /\ mi' = mi
       \/ ReceiveRaises(mi) /\ mpc' = "accuse" /\ mi' = mi
    /\ lock' = "free"
    /\ UNCHANGED <<verdict, fetches, stopper>>

MonitorAccuse ==
    /\ main /\ mpc = "accuse"
    /\ compromised' = compromised \cup {mi}
    /\ IF mi \in compromised THEN mpc' = "check" /\ mi' = NextHolder
                             ELSE mpc' = "judge" /\ mi' = mi
    /\ UNCHANGED <<wire, killed, main, lock, fetches, stopper>>

MonitorJudge ==
    /\ main /\ mpc = "judge"
    /\ Judge
    /\ mpc' = "check" /\ mi' = NextHolder
    /\ UNCHANGED <<wire, lock, fetches, stopper>>

-----------------------------------------------------------------------------
(* fetch().                                                                *)

\* alive_indices[:self.k]
FirstK(S) == {i \in S : Cardinality({j \in S : j < i}) < K}

Asked(f) == Min(todo[f])
At(f, label) == fpc' = [fpc EXCEPT ![f] = label]

\* Whom to ask is decided before the lock is taken.
FetchBegin(f) ==
    /\ main /\ Built /\ fpc[f] \in {"idle", "done"}
    /\ IF Cardinality(Holder \ compromised) < K
       THEN At(f, "idle") /\ UNCHANGED todo
       ELSE At(f, "lock") /\ todo' = [todo EXCEPT ![f] = FirstK(Holder \ compromised)]
    /\ collected' = [collected EXCEPT ![f] = <<>>]
    /\ UNCHANGED <<wire, verdict, lock, monitor, stopper>>

FetchLock(f) ==
    /\ main /\ fpc[f] = "lock" /\ lock = "free"
    /\ lock' = f /\ At(f, "send")
    /\ UNCHANGED <<wire, verdict, monitor, todo, collected, stopper>>

FetchSend(f) ==
    /\ main /\ fpc[f] = "send"
    /\ Send(Asked(f), "get_share") /\ At(f, "recv")
    /\ UNCHANGED <<verdict, lock, monitor, todo, collected, stopper>>

\* A share is kept; the last one ends the round trips.
FetchRecv(f) ==
    /\ main /\ fpc[f] = "recv"
    /\ Receive(Asked(f)) /\ Head(resp[Asked(f)]) # Pong
    /\ collected' = [collected EXCEPT ![f] = Append(@, Head(resp[Asked(f)]))]
    /\ todo' = [todo EXCEPT ![f] = @ \ {Asked(f)}]
    /\ IF todo[f] = {Asked(f)} THEN At(f, "done") /\ lock' = "free"
                               ELSE At(f, "send") /\ lock' = lock
    /\ UNCHANGED <<verdict, monitor, stopper>>

\* The end of a fetch() that raises.
Raise(f) ==
    /\ At(f, "idle") /\ lock' = "free"
    /\ todo' = [todo EXCEPT ![f] = {}] /\ collected' = [collected EXCEPT ![f] = <<>>]

\* What its try block catches: the socket raises, or the line is a late pong (KeyError).
FetchCatches(f) ==
    \/ fpc[f] = "send" /\ Asked(f) \in closed /\ UNCHANGED wire
    \/ /\ fpc[f] = "recv"
       /\ \/ ReceiveRaises(Asked(f))
          \/ Receive(Asked(f)) /\ Head(resp[Asked(f)]) = Pong

\* Mutant of FetchFails: the failure is left to the heartbeat to find.
FetchFailsSilently(f) ==
    /\ main /\ FetchCatches(f) /\ Raise(f)
    /\ UNCHANGED <<verdict, monitor, stopper>>

\* Mutant of FetchFails: everybody who was not asked yet is accused, too.
FetchFailsBroadly(f) ==
    /\ main /\ FetchCatches(f)
    /\ compromised' = compromised \cup todo[f]
    /\ IF Asked(f) \in compromised
       THEN Raise(f)
       ELSE At(f, "judge") /\ UNCHANGED <<lock, todo, collected>>
    /\ UNCHANGED <<killed, main, monitor, stopper>>

\* The holder is accused before the lock is released.
FetchFails(f) ==
    /\ main /\ FetchCatches(f)
    /\ compromised' = compromised \cup {Asked(f)}
    /\ IF Asked(f) \in compromised
       THEN Raise(f)
       ELSE At(f, "judge") /\ UNCHANGED <<lock, todo, collected>>
    /\ UNCHANGED <<killed, main, monitor, stopper>>

FetchJudge(f) ==
    /\ main /\ fpc[f] = "judge"
    /\ Judge /\ Raise(f)
    /\ UNCHANGED <<wire, monitor, stopper>>

-----------------------------------------------------------------------------
(* stop(): loops over the holders, without the lock.                       *)

Loop(here, next) ==
    /\ si' = (si % N) + 1
    /\ spc' = IF si = N THEN next ELSE here

StopBegin ==
    /\ main /\ Built /\ spc = "idle"
    /\ stopping' = TRUE /\ spc' = "close"
    /\ UNCHANGED <<wire, closed, si, verdict, lock, monitor, fetches>>

\* What is under way on a closed connection reaches nobody any more.
StopClose ==
    /\ main /\ spc = "close"
    /\ closed' = closed \cup {si}
    /\ req' = [req EXCEPT ![si] = <<>>] /\ resp' = [resp EXCEPT ![si] = <<>>]
    /\ Loop("close", "terminate")
    /\ UNCHANGED <<up, stopping, verdict, lock, monitor, fetches>>

\* terminate(), to every server ...
StopTerminate ==
    /\ main /\ spc = "terminate"
    /\ spc' = "wait"
    /\ UNCHANGED <<wire, si, stopping, closed, verdict, lock, monitor, fetches>>

\* ... which _on_term obeys, and kill() enforces after two seconds.
OnTerm(h) ==
    /\ h \in up /\ spc \in {"wait", "done"}
    /\ up' = up \ {h}
    /\ UNCHANGED <<req, resp, verdict, lock, monitor, fetches, stopper>>

StopWait ==
    /\ main /\ spc = "wait"
    /\ up' = up \ {si}
    /\ Loop("wait", "done")
    /\ UNCHANGED <<req, resp, stopping, closed, verdict, lock, monitor, fetches>>

-----------------------------------------------------------------------------
Monitor == MonitorCheck \/ PingRecv \/ MonitorAccuse \/ MonitorJudge
FetchStep(f) == FetchSend(f) \/ FetchRecv(f) \/ FetchFails(f) \/ FetchJudge(f)
Stop == StopClose \/ StopTerminate \/ StopWait

Next ==
    \/ HolderStarts \/ Connect \/ ConnectRaises
    \/ \E h \in Holder : Serve(h) \/ HolderDies(h) \/ OnTerm(h)
    \/ Monitor \/ PingLock
    \/ \E f \in Fetchers : FetchBegin(f) \/ FetchLock(f) \/ FetchStep(f)
    \/ StopBegin \/ Stop

\* Threads run, and servers that are not slow answer.  The lock is free while
\* the heartbeat sleeps, so a thread that waits for it gets it in the end.
Spec ==
    /\ Init /\ [][Next]_vars
    /\ \A h \in Holder \ Slow : WF_vars(Serve(h))
    /\ WF_vars(Monitor) /\ SF_vars(PingLock)
    /\ \A f \in Fetchers : SF_vars(FetchLock(f)) /\ WF_vars(FetchStep(f))

-----------------------------------------------------------------------------
(* Properties.                                                             *)

\* fetch() returns the root secret or raises: no late answer, lost holder or
\* closed connection makes it combine too few shares or the wrong ones.
RightSecret == \A f \in Fetchers : fpc[f] = "done" => Combine(collected[f]) = Secret

\* "One request/response in flight per socket": while nobody holds the lock,
\* the connection of every holder that later calls will use is empty.  A
\* timeout leaves an answer behind only where the holder is given up.
InStep ==
    lock = "free" => \A h \in Holder \ compromised :
        (mpc = "accuse" /\ mi = h) \/ (req[h] = <<>> /\ resp[h] = <<>>)

\* Every answer is matched to its own question, whatever times out: a connection that
\* is used again is empty, and a fetch() that returns has the secret.
RightAnswers == TypeOK /\ InStep /\ RightSecret

\* Heartbeat and fetch() do not take each other's answers for failures: until stop() is
\* called, whoever is accused died or may have been late.  Afterwards it may also be a
\* holder whose connection stop() has closed, and the process killed for it: nothing is
\* said of a group that is stopping.
OnlyFailedAreAccused == ~stopping => compromised \subseteq (Holder \ up) \cup Slow

\* The main process is killed at the threshold of accused holders and never before,
\* whichever of heartbeat and fetch() counts the last one.
KilledAtThreshold ==
    /\ ~main => KillThreshold > 0 /\ Cardinality(compromised) >= KillThreshold
    /\ main /\ mpc # "judge" /\ (\A f \in Fetchers : fpc[f] # "judge") =>
         (KillThreshold > 0 => Cardinality(compromised) < KillThreshold)

\* A group that is not being stopped kills its process for cause: at the threshold exactly,
\* and counting only holders that failed it.
KilledForCause == OnlyFailedAreAccused /\ KilledAtThreshold

\* Every fetch() ends, with the secret or an exception, even if a holder never
\* answers: its timeout bounds the wait, and heartbeats do not starve it.
FetchEnds == \A f \in Fetchers : fpc[f] = "lock" ~> fpc[f] \in {"done", "idle"} \/ ~main

\* A dead holder is found by the heartbeat, whether or not anybody fetches, and
\* however busy the lock is.
ReactsToDeath ==
    \A h \in Holder : Built /\ h \notin up ~> h \in compromised \/ stopping \/ ~main
=============================================================================
