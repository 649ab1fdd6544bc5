------------------------ MODULE DistributedTrustGroup ------------------------
(***************************************************************************)
(* DistributedTrustGroup (vstorage/distributed_key.py): N holder processes *)
(* with one Shamir share each, a watchdog process per holder, and in the   *)
(* main process a monitor thread, callers of fetch() and one stop().       *)
(*                                                                         *)
(* Pipes are queues.  Everything is forked, so descriptors are inherited:  *)
(* the watchdog of a holder has a copy of the holder's end of its pipe,    *)
(* and the holder has a copy of the main process's end of its own.  Hence  *)
(* the main process sees the end of a pipe only when holder and watchdog   *)
(* are both gone, and a holder never sees it: the EOFError branch of       *)
(* _holder_process cannot be taken and has no action here.                 *)
(***************************************************************************)
EXTENDS Naturals, Sequences, FiniteSets, FiniteSetsExt

CONSTANTS
    N, K,           \* holders, and shares needed
    KillThreshold,  \* compromised holders that kill the main process; 0: never
    Fetchers,       \* threads that call fetch()
    Crashes,        \* holders that may die without their watchdog's doing
    Tampers         \* holders that somebody may attach to

ASSUME ConstantsAssumption ==
    /\ N \in Nat \ {0} /\ K \in 1 .. N
    /\ KillThreshold \in Nat
    /\ Crashes \subseteq 1 .. N
    /\ Tampers \subseteq 1 .. N
    /\ "free" \notin Fetchers

VARIABLES
    holder,       \* each holder: up, share zeroed, dead
    watch,        \* its watchdog: on, about to kill, killed it, gone
    req, rep,     \* the two directions of its pipe
    main,         \* is the main process alive?
    lock,         \* owner of self._lock
    stopping,     \* self._stopping
    compromised,  \* self._compromised_indices
    killed,       \* self._kill_triggered
    mpc, mi,      \* the monitor: where it is, and at which holder
    fpc,          \* each fetch(): where it is; idle before it and after it raised
    todo,         \* the holders it has yet to ask
    collected,    \* the shares it has got
    spc, si       \* stop(): where it is, and at which holder

procs    == <<holder, watch>>
pipes    == <<req, rep>>
verdict  == <<compromised, killed, main>>
monitor  == <<mpc, mi>>
fetches  == <<fpc, todo, collected>>
stopper  == <<stopping, spc, si>>
vars     == <<procs, pipes, verdict, lock, monitor, fetches, stopper>>

Holder == 1 .. N
\* A share names its holder; the zeroed buffer of holder h is h + N.
Share  == 1 .. 2 * N
Blank(h) == h + N

TypeOK ==
    /\ holder \in [Holder -> {"up", "wiped", "dead"}]
    /\ watch \in [Holder -> {"on", "killing", "leaving", "off"}]
    /\ req \in [Holder -> Seq({"get_share", "stop"})]
    /\ rep \in [Holder -> Seq(Share)]
    /\ main \in BOOLEAN /\ stopping \in BOOLEAN /\ killed \in BOOLEAN
    /\ lock \in Fetchers \cup {"free"}
    /\ compromised \subseteq Holder
    /\ mpc \in {"check", "probe", "react", "ended"} /\ mi \in Holder
    /\ fpc \in [Fetchers -> {"idle", "lock", "send", "recv", "react", "done"}]
    /\ todo \in [Fetchers -> SUBSET Holder]
    /\ collected \in [Fetchers -> SUBSET Share]
    /\ spc \in {"idle", "watchdogs", "send", "join", "done"} /\ si \in Holder

Init ==
    /\ holder = [h \in Holder |-> "up"]
    /\ watch = [h \in Holder |-> "on"]
    /\ req = [h \in Holder |-> <<>>] /\ rep = [h \in Holder |-> <<>>]
    /\ main = TRUE /\ lock = "free" /\ stopping = FALSE
    /\ compromised = {} /\ killed = FALSE
    /\ mpc = "check" /\ mi = 1
    /\ fpc = [f \in Fetchers |-> "idle"]
    /\ todo = [f \in Fetchers |-> {}]
    /\ collected = [f \in Fetchers |-> {}]
    /\ spc = "idle" /\ si = 1

-----------------------------------------------------------------------------
(* Holders and their watchdogs.                                            *)

\* _holder_process: answer a request, or stop.
Serve(h) ==
    /\ holder[h] # "dead" /\ req[h] # <<>>
    /\ req' = [req EXCEPT ![h] = Tail(@)]
    /\ IF Head(req[h]) = "get_share"
       THEN /\ rep' = [rep EXCEPT ![h] = Append(@, IF holder[h] = "up" THEN h ELSE Blank(h))]
            /\ holder' = holder
       ELSE holder' = [holder EXCEPT ![h] = "dead"] /\ rep' = rep
    /\ UNCHANGED <<watch, verdict, lock, monitor, fetches, stopper>>

\* Somebody attaches to a holder: its watchdog zeroes the share ...
WatchdogWipe(h) ==
    /\ h \in Tampers /\ watch[h] = "on" /\ holder[h] = "up"
    /\ holder' = [holder EXCEPT ![h] = "wiped"]
    /\ watch' = [watch EXCEPT ![h] = "killing"]
    /\ UNCHANGED <<pipes, verdict, lock, monitor, fetches, stopper>>

\* ... kills the holder ...
WatchdogKill(h) ==
    /\ watch[h] = "killing"
    /\ holder' = [holder EXCEPT ![h] = "dead"]
    /\ watch' = [watch EXCEPT ![h] = "leaving"]
    /\ UNCHANGED <<pipes, verdict, lock, monitor, fetches, stopper>>

\* Mutant of WatchdogExit: the watchdog does not return after its kill.
WatchdogStays(h) == watch[h] = "leaving" /\ UNCHANGED vars

\* ... and exits.
WatchdogExit(h) ==
    /\ watch[h] = "leaving"
    /\ watch' = [watch EXCEPT ![h] = "off"]
    /\ UNCHANGED <<holder, pipes, verdict, lock, monitor, fetches, stopper>>

\* A holder dies of something else.  Nobody reaps it, so its watchdog goes on
\* watching a zombie.
Crash(h) ==
    /\ h \in Crashes /\ holder[h] # "dead"
    /\ holder' = [holder EXCEPT ![h] = "dead"]
    /\ UNCHANGED <<watch, pipes, verdict, lock, monitor, fetches, stopper>>

\* _is_dead: gone, or a zombie that nobody has reaped.
IsDead(h) == holder[h] = "dead"

\* The holder's end of the pipe is open in some process.
Connected(h) == holder[h] # "dead" \/ watch[h] # "off"

-----------------------------------------------------------------------------
(* _on_holder_compromised.                                                 *)

\* Mutant of ReachesThreshold: one more compromise is tolerated.
ReachesThresholdLate(count) == KillThreshold > 0 /\ count > KillThreshold

ReachesThreshold(count) == KillThreshold > 0 /\ count >= KillThreshold

\* Its second half, after the holder was added to the set.
React ==
    LET kill == ~killed /\ ReachesThreshold(Cardinality(compromised)) IN
    /\ killed' = (killed \/ kill)
    /\ main' = (main /\ ~kill)
    /\ UNCHANGED compromised

-----------------------------------------------------------------------------
(* The monitor thread.                                                     *)

NextHolder == (mi % N) + 1

MonitorCheck ==
    /\ main /\ mpc = "check"
    /\ mpc' = IF stopping THEN "ended" ELSE "probe"
    /\ UNCHANGED <<procs, pipes, verdict, lock, mi, fetches, stopper>>

MonitorProbe ==
    /\ main /\ mpc = "probe"
    /\ IF mi \notin compromised /\ IsDead(mi)
       THEN /\ compromised' = compromised \cup {mi}
            /\ mpc' = "react" /\ mi' = mi
       ELSE mpc' = "check" /\ mi' = NextHolder /\ UNCHANGED compromised
    /\ UNCHANGED <<procs, pipes, killed, main, lock, fetches, stopper>>

\* Mutant of MonitorReact: the monitor returns after the first dead holder.
MonitorReactOnce ==
    /\ main /\ mpc = "react"
    /\ React
    /\ mpc' = "ended" /\ mi' = NextHolder
    /\ UNCHANGED <<procs, pipes, lock, fetches, stopper>>

MonitorReact ==
    /\ main /\ mpc = "react"
    /\ React
    /\ mpc' = "check" /\ mi' = NextHolder
    /\ UNCHANGED <<procs, pipes, lock, fetches, stopper>>

Monitor == MonitorCheck \/ MonitorProbe \/ MonitorReact

-----------------------------------------------------------------------------
(* fetch().                                                                *)

\* alive_indices[:self.k]
FirstK(S) == {i \in S : Cardinality({j \in S : j < i}) < K}

Asked(f) == Min(todo[f])
At(f, label) == fpc' = [fpc EXCEPT ![f] = label]

\* The holders to ask are chosen before the lock is taken.
FetchBegin(f) ==
    /\ main /\ fpc[f] \in {"idle", "done"}
    /\ collected' = [collected EXCEPT ![f] = {}]
    /\ IF Cardinality(Holder \ compromised) < K
       THEN At(f, "idle") /\ UNCHANGED todo
       ELSE /\ At(f, "lock")
            /\ todo' = [todo EXCEPT ![f] = FirstK(Holder \ compromised)]
    /\ UNCHANGED <<procs, pipes, verdict, lock, monitor, stopper>>

\* Mutant of FetchLock: the group has no lock.
FetchNoLock(f) ==
    /\ main /\ fpc[f] = "lock"
    /\ lock' = f
    /\ At(f, "send")
    /\ UNCHANGED <<procs, pipes, verdict, monitor, todo, collected, stopper>>

FetchLock(f) ==
    /\ main /\ fpc[f] = "lock" /\ lock = "free"
    /\ lock' = f
    /\ At(f, "send")
    /\ UNCHANGED <<procs, pipes, verdict, monitor, todo, collected, stopper>>

FetchSend(f) ==
    /\ main /\ fpc[f] = "send" /\ Connected(Asked(f))
    /\ req' = [req EXCEPT ![Asked(f)] = Append(@, "get_share")]
    /\ At(f, "recv")
    /\ UNCHANGED <<procs, rep, verdict, lock, monitor, todo, collected, stopper>>

\* The last share ends the round trips and lets go of the lock.
FetchRecv(f) ==
    /\ main /\ fpc[f] = "recv" /\ rep[Asked(f)] # <<>>
    /\ rep' = [rep EXCEPT ![Asked(f)] = Tail(@)]
    /\ collected' = [collected EXCEPT ![f] = @ \cup {Head(rep[Asked(f)])}]
    /\ todo' = [todo EXCEPT ![f] = @ \ {Asked(f)}]
    /\ IF todo[f] = {Asked(f)} THEN At(f, "done") /\ lock' = "free"
                               ELSE At(f, "send") /\ lock' = lock
    /\ UNCHANGED <<procs, req, verdict, monitor, stopper>>

\* BrokenPipeError or EOFError: the holder is marked at once.
FetchFails(f) ==
    /\ main
    /\ \/ fpc[f] = "send"
       \/ fpc[f] = "recv" /\ rep[Asked(f)] = <<>>
    /\ ~Connected(Asked(f))
    /\ IF Asked(f) \in compromised
       THEN At(f, "idle") /\ lock' = "free" /\ UNCHANGED compromised
       ELSE /\ At(f, "react") /\ lock' = lock
            /\ compromised' = compromised \cup {Asked(f)}
    /\ todo' = [todo EXCEPT ![f] = {}]
    /\ collected' = [collected EXCEPT ![f] = {}]
    /\ UNCHANGED <<procs, pipes, killed, main, monitor, stopper>>

FetchReact(f) ==
    /\ main /\ fpc[f] = "react"
    /\ React
    /\ At(f, "idle") /\ lock' = "free"
    /\ UNCHANGED <<procs, pipes, monitor, todo, collected, stopper>>

FetchStep(f) ==
    \/ FetchLock(f) \/ FetchSend(f) \/ FetchRecv(f) \/ FetchFails(f) \/ FetchReact(f)

-----------------------------------------------------------------------------
(* stop(): three loops over the holders.                                   *)

Loop(here, next) ==
    /\ si' = (si % N) + 1
    /\ spc' = IF si = N THEN next ELSE here

StopBegin ==
    /\ main /\ spc = "idle"
    /\ stopping' = TRUE
    /\ spc' = "watchdogs" /\ si' = 1
    /\ UNCHANGED <<procs, pipes, verdict, lock, monitor, fetches>>

StopWatchdogs ==
    /\ main /\ spc = "watchdogs"
    /\ watch' = [watch EXCEPT ![si] = "off"]
    /\ Loop("watchdogs", "send")
    /\ UNCHANGED <<holder, pipes, verdict, lock, monitor, fetches, stopping>>

\* A pipe that is closed already is passed over.
StopSend ==
    /\ main /\ spc = "send"
    /\ req' = IF Connected(si) THEN [req EXCEPT ![si] = Append(@, "stop")] ELSE req
    /\ Loop("send", "join")
    /\ UNCHANGED <<procs, rep, verdict, lock, monitor, fetches, stopping>>

\* Whoever has not gone after a second is terminated.
StopJoin ==
    /\ main /\ spc = "join"
    /\ holder' = [holder EXCEPT ![si] = "dead"]
    /\ Loop("join", "done")
    /\ UNCHANGED <<watch, pipes, verdict, lock, monitor, fetches, stopping>>

Stop == StopWatchdogs \/ StopSend \/ StopJoin

-----------------------------------------------------------------------------
Next ==
    \/ \E h \in Holder : Serve(h) \/ WatchdogWipe(h) \/ WatchdogKill(h)
                         \/ WatchdogExit(h) \/ Crash(h)
    \/ Monitor
    \/ \E f \in Fetchers : FetchBegin(f) \/ FetchStep(f)
    \/ StopBegin \/ Stop

Spec == Init /\ [][Next]_vars

\* Processes and threads run; nobody has to attach, crash, fetch or stop.
FairSpec ==
    /\ Spec
    /\ \A h \in Holder : WF_vars(Serve(h))
    /\ \A h \in Tampers : WF_vars(WatchdogKill(h) \/ WatchdogExit(h))
    /\ WF_vars(Monitor)
    /\ \A f \in Fetchers : WF_vars(FetchStep(f))

-----------------------------------------------------------------------------
(* Properties.                                                             *)

\* "Any reason other than a clean stop()": until stop() is called, monitor and fetch()
\* mark only holders that an attack or a crash has ended, although a fetch() chose whom to
\* ask before it had the lock.  Afterwards they may mark a holder that stop() has ended,
\* and even kill the process for it: nothing is said of a group that is stopping.
OnlyFailedAreAccused == ~stopping => \A h \in compromised : holder[h] = "dead"

\* The main process is killed at the threshold of marked holders and never before,
\* whichever of monitor and fetch() counts the last one; once neither has a count to act
\* upon, it is not alive above the threshold.
KilledAtThreshold ==
    /\ ~main => ReachesThreshold(Cardinality(compromised))
    /\ main /\ mpc # "react" /\ (\A f \in Fetchers : fpc[f] # "react") =>
         (KillThreshold > 0 => Cardinality(compromised) < KillThreshold)

\* A group that is not being stopped kills its process for cause: as soon as, and only if,
\* KillThreshold holders have failed, none counted wrongly or twice.
KilledForCause == TypeOK /\ OnlyFailedAreAccused /\ KilledAtThreshold

\* fetch() combines the shares of K different holders, never fewer, and a zero
\* share only from a holder that was tampered with.
FetchIsWhole ==
    \A f \in Fetchers : fpc[f] = "done" =>
        /\ Cardinality(collected[f]) = K
        /\ \A h \in Holder : ~({h, Blank(h)} \subseteq collected[f])
        /\ \A h \in Holder : Blank(h) \in collected[f] => holder[h] # "up"

\* A fetch() that fails half way leaves no question or answer behind in the
\* pipe of a holder that later fetches will ask: between fetches the pipes of
\* live holders are empty.
NoStrayMessages ==
    lock = "free" => \A h \in Holder :
        holder[h] # "dead" => rep[h] = <<>> /\ (req[h] = <<>> \/ stopping)

\* A fetch() combines answers to its own questions, of K holders, and leaves none behind
\* for the next one.
CleanFetch == FetchIsWhole /\ NoStrayMessages

\* Whoever has the group's lock lets go of it, with the secret or an exception,
\* unless the main process is killed: no caller waits for ever for a holder that
\* is gone.  The exception is a holder that died under a watchdog which goes on
\* watching it, and keeps its end of the pipe open.
FetchEnds ==
    \A f \in Fetchers :
        lock = f ~> \/ lock # f \/ ~main
                    \/ \E h \in todo[f] : holder[h] = "dead" /\ watch[h] = "on"

\* Dead holders kill the main process when they reach the threshold, without
\* waiting for a fetch() to notice, and even while one is stuck, unless the group
\* is stopping.
ReactsToTamper ==
    (KillThreshold > 0 /\ Cardinality({h \in Holder : holder[h] = "dead"}) >= KillThreshold)
        ~> (~main \/ stopping)
=============================================================================
