--------------------- MODULE DistributedTrustGroupProofs ---------------------
(***************************************************************************)
(* Proofs about processes that are joined by pipes.  DistributedTrustGroup *)
(* for every number of holders, shares and callers of fetch(), and whoever *)
(* crashes or is attacked; Streams for every length of a piece, every      *)
(* capacity and chunk, and whoever dies.                                   *)
(***************************************************************************)
EXTENDS DistributedTrustGroup, Streams, FiniteSetTheorems, SequenceTheorems,
        WellFoundedInduction, TLAPS

\* A fetch() that has been through the choice of its holders and not ended.
Fetching(f) == fpc[f] \in {"lock", "send", "recv"}

\* self._lock belongs to the fetch() that is inside it.
LockInv ==
    \A f \in Fetchers : lock = f <=> fpc[f] \in {"send", "recv", "react"}

\* _kill_triggered is set in the step that kills the process.
KillInv == killed <=> ~main

\* The answers in a holder's pipe are its share, or zeros after a wipe.
AnswersInv ==
    \A h \in Holder : \A i \in DOMAIN rep[h] :
        \/ rep[h][i] = h
        \/ rep[h][i] = Blank(h) /\ holder[h] # "up"

\* A fetch() has one share of every holder that it has asked, and none of those
\* that it has yet to ask: K together.
SharesInv ==
    \A f \in Fetchers :
        /\ Fetching(f) => /\ todo[f] # {}
                          /\ Cardinality(collected[f]) + Cardinality(todo[f]) = K
                          /\ \A h \in todo[f] : {h, Blank(h)} \cap collected[f] = {}
        /\ fpc[f] = "done" => Cardinality(collected[f]) = K
        /\ \A h \in Holder : ~({h, Blank(h)} \subseteq collected[f])
        /\ \A h \in Holder : Blank(h) \in collected[f] => holder[h] # "up"

\* Somebody waits for the answer of h.
Awaited(h) == \E f \in Fetchers : fpc[f] = "recv" /\ Asked(f) = h

NoQuestion(q)  == \A i \in DOMAIN q : q[i] # "get_share"
OneQuestion(q) == \E i \in DOMAIN q : q[i] = "get_share"
                                      /\ \A j \in DOMAIN q : q[j] = "get_share" => j = i

\* A holder that lives has one question or one answer in its pipe if it is waited
\* for, and none if it is not; "stop" comes only from stop().
PipesInv ==
    \A h \in Holder : holder[h] # "dead" =>
        /\ Awaited(h) => \/ rep[h] = <<>> /\ OneQuestion(req[h])
                         \/ Len(rep[h]) = 1 /\ NoQuestion(req[h])
        /\ ~Awaited(h) => rep[h] = <<>> /\ NoQuestion(req[h])
        /\ ~stopping => \A i \in DOMAIN req[h] : req[h][i] # "stop"

\* A stop() that has begun has set the flag.
StopInv == spc # "idle" => stopping

\* Only holders that are dead are marked: they have failed, or stop() has ended them.
CompromisedAreDead == \A h \in compromised : holder[h] = "dead"

CauseInv == TypeOK /\ CompromisedAreDead /\ KilledAtThreshold

IInv ==
    /\ CauseInv
    /\ LockInv /\ KillInv /\ AnswersInv /\ SharesInv /\ PipesInv /\ StopInv

-----------------------------------------------------------------------------
(* The operators.                                                          *)

\* A nonempty set of naturals has a minimum, and Min returns it.
LEMMA MinOfNats ==
    ASSUME NEW S \in SUBSET Nat, S # {}
    PROVE  Min(S) \in S /\ \A y \in S : Min(S) <= y
<1> DEFINE R == {ss \in Nat \X Nat : ss[1] < ss[2]}
<1>1. IsWellFoundedOn(R, Nat)
  BY NatLessThanWellFounded, Zenon DEF OpToRel
<1>2. \E x \in S : \A y \in S : ~(<<y, x>> \in R)
  <2> HIDE DEF R
  <2> QED BY <1>1, WFMin, Zenon
<1>3. \E x \in S : \A y \in S : x =< y
  <2>1. PICK x \in S : \A y \in S : ~(<<y, x>> \in R)
    BY <1>2
  <2>2. ASSUME NEW y \in S PROVE x =< y
    <3>1. y < x => <<y, x>> \in R
      OBVIOUS
    <3>2. QED
      BY <2>1, <3>1
  <2>3. QED
    BY <2>2
<1>4. QED
  BY <1>3, Zenon DEF Min

\* alive_indices[:self.k] has K elements if there are as many: the rank of an index
\* in the list is a bijection from the list to 0 .. its length - 1.
LEMMA FirstKHasK ==
    ASSUME NEW S \in SUBSET Nat, IsFiniteSet(S), Cardinality(S) >= K
    PROVE  FirstK(S) \subseteq S /\ Cardinality(FirstK(S)) = K
<1> DEFINE Below(i) == {j \in S : j < i}
           T        == 0 .. (Cardinality(S) - 1)
           r        == [i \in S |-> Cardinality(Below(i))]
           F        == FirstK(S)
           g        == [i \in F |-> r[i]]
<1>1. Cardinality(S) \in Nat /\ K \in Nat /\ K > 0
  BY FS_CardinalityType, ConstantsAssumption
<1>2. ASSUME NEW i \in S
      PROVE  /\ IsFiniteSet(Below(i)) /\ Cardinality(Below(i)) \in Nat
             /\ IsFiniteSet(Below(i) \cup {i})
             /\ Cardinality(Below(i) \cup {i}) = Cardinality(Below(i)) + 1
  <2>1. Below(i) \in SUBSET S /\ i \notin Below(i)
    OBVIOUS
  <2> HIDE DEF Below
  <2>2. QED
    BY <2>1, FS_Subset, FS_CardinalityType, FS_AddElement
<1>3. ASSUME NEW i \in S
      PROVE  r[i] \in T
  <2>1. Below(i) \cup {i} \in SUBSET S
    OBVIOUS
  <2> HIDE DEF Below
  <2>2. Cardinality(Below(i) \cup {i}) <= Cardinality(S)
    BY <2>1, <1>2, FS_Subset
  <2>3. Cardinality(Below(i)) \in Nat /\ Cardinality(Below(i)) + 1 <= Cardinality(S)
    BY <2>2, <1>2
  <2>4. r[i] = Cardinality(Below(i))
    OBVIOUS
  <2> HIDE DEF r
  <2>5. QED
    BY <2>3, <2>4, <1>1
<1>4. ASSUME NEW i \in S, NEW j \in S, i < j
      PROVE  r[i] < r[j]
  <2>1. \A x \in Below(i) \cup {i} : x \in Below(j)
    BY <1>4
  <2> HIDE DEF Below
  <2>2. Cardinality(Below(i) \cup {i}) <= Cardinality(Below(j))
    BY <2>1, <1>2, FS_Subset
  <2>3. Cardinality(Below(i)) \in Nat /\ Cardinality(Below(j)) \in Nat
        /\ Cardinality(Below(i)) + 1 <= Cardinality(Below(j))
    BY <2>2, <1>2
  <2>4. r[i] = Cardinality(Below(i)) /\ r[j] = Cardinality(Below(j))
    OBVIOUS
  <2> HIDE DEF r
  <2>5. QED
    BY <2>3, <2>4
<1>5. r \in [S -> T]
  <2>1. \A i \in S : r[i] \in T
    BY <1>3
  <2> HIDE DEF Below
  <2>2. QED
    BY <2>1
<1>6. \A i \in F : i \in S /\ r[i] < K
  BY DEF FirstK
<1>7. \A i \in S : r[i] < K => i \in F
  BY DEF FirstK
<1> HIDE DEF r, F, T
<1>8. r \in Injection(S, T)
  <2>1. ASSUME NEW i \in S, NEW j \in S, i # j PROVE r[i] # r[j]
    <3>1. i \in Nat /\ j \in Nat /\ r[i] \in T /\ r[j] \in T
      BY <1>3
    <3>2. i < j \/ j < i
      BY <3>1, <2>1
    <3>3. QED
      BY <3>1, <3>2, <1>4 DEF T
  <2>2. QED
    BY <2>1, <1>5 DEF Injection, IsInjective
<1>9. IsFiniteSet(T) /\ Cardinality(T) = Cardinality(S)
  <2>1. 0 \in Int /\ Cardinality(S) - 1 \in Int
    BY <1>1
  <2>2. IsFiniteSet(T) /\ Cardinality(T) = IF 0 > Cardinality(S) - 1 THEN 0
                                           ELSE Cardinality(S) - 1 - 0 + 1
    BY <2>1, FS_Interval, Zenon DEF T
  <2>3. QED
    BY <2>2, <1>1
<1>10. r \in Surjection(S, T)
  BY <1>8, <1>9, FS_Injection
<1>11. g \in [F -> 0 .. (K - 1)]
  <2>1. ASSUME NEW i \in F PROVE r[i] \in 0 .. (K - 1)
    <3>1. i \in S /\ r[i] < K
      BY <1>6
    <3>2. r[i] \in T
      BY <3>1, <1>3
    <3>3. QED
      BY <3>1, <3>2, <1>1 DEF T
  <2>2. QED
    BY <2>1
<1>12. \A x \in F, y \in F : x # y => g[x] # g[y]
  BY <1>6, <1>8 DEF Injection, IsInjective
<1>13. \A n \in 0 .. (K - 1) : \E x \in F : g[x] = n
  <2> SUFFICES ASSUME NEW n \in 0 .. (K - 1) PROVE \E x \in F : g[x] = n
    OBVIOUS
  <2>1. n \in T
    BY <1>1 DEF T
  <2>2. PICK x \in S : r[x] = n
    BY <2>1, <1>10 DEF Surjection
  <2>3. QED
    BY <2>2, <1>1, <1>7
<1> HIDE DEF g
<1>14. g \in Bijection(F, 0 .. (K - 1))
  BY <1>11, <1>12, <1>13, Zenon DEF Bijection, Injection, Surjection, IsInjective
<1>15. F \subseteq S /\ IsFiniteSet(F)
  BY <1>6, FS_Subset
<1>16. Cardinality(0 .. (K - 1)) = Cardinality(F)
  BY <1>14, <1>15, FS_Bijection DEF ExistsBijection
<1>17. QED
  BY <1>1, <1>15, <1>16, FS_Interval DEF F

\* The holders are finitely many naturals, and the shares of two differ.
LEMMA Holders ==
    /\ Holder \subseteq Nat /\ IsFiniteSet(Holder) /\ Cardinality(Holder) = N
    /\ \A h \in Holder : h \in Share /\ Blank(h) \in Share
    /\ \A h \in Holder, g \in Holder : h # Blank(g) /\ (Blank(h) = Blank(g) => h = g)
    /\ \A h \in Holder : (h % N) + 1 \in Holder
<1>1. N \in Nat /\ N > 0 /\ 1 \in Int /\ N \in Int
  BY ConstantsAssumption
<1>2. IsFiniteSet(Holder) /\ Cardinality(Holder) = IF 1 > N THEN 0 ELSE N - 1 + 1
  BY <1>1, FS_Interval, Zenon DEF Holder
<1>3. QED
  BY <1>1, <1>2 DEF Holder, Share, Blank

\* A fetch() with holders to ask asks one of them.
LEMMA AsksOne ==
    ASSUME TypeOK, NEW f \in Fetchers, todo[f] # {}
    PROVE  Asked(f) \in todo[f] /\ Asked(f) \in Holder
BY Holders, MinOfNats DEF Asked, TypeOK

-----------------------------------------------------------------------------
(* Steps.                                                                  *)

\* Every step keeps the types.
LEMMA TypeStep ==
    ASSUME TypeOK, SharesInv, Next
    PROVE  TypeOK'
<1> USE DEF TypeOK, procs, pipes, verdict, monitor, fetches, stopper, At
<1>1. ASSUME NEW h \in Holder, Serve(h) PROVE TypeOK'
  <2>1. req' \in [Holder -> Seq({"get_share", "stop"})]
    BY <1>1 DEF Serve
  <2>2. rep' \in [Holder -> Seq(Share)]
    <3>1. (IF holder[h] = "up" THEN h ELSE Blank(h)) \in Share
      BY Holders
    <3>2. Append(rep[h], IF holder[h] = "up" THEN h ELSE Blank(h)) \in Seq(Share)
      BY <3>1
    <3>3. QED
      BY <1>1, <3>2 DEF Serve
  <2>3. holder' \in [Holder -> {"up", "wiped", "dead"}]
    BY <1>1 DEF Serve
  <2>4. QED
    BY <1>1, <2>1, <2>2, <2>3 DEF Serve
<1>2. ASSUME NEW h \in Holder, WatchdogWipe(h) PROVE TypeOK'
  BY <1>2 DEF WatchdogWipe
<1>3. ASSUME NEW h \in Holder, WatchdogKill(h) PROVE TypeOK'
  BY <1>3 DEF WatchdogKill
<1>4. ASSUME NEW h \in Holder, WatchdogExit(h) PROVE TypeOK'
  BY <1>4 DEF WatchdogExit
<1>5. ASSUME NEW h \in Holder, Crash(h) PROVE TypeOK'
  BY <1>5 DEF Crash
<1>6. CASE MonitorCheck
  BY <1>6 DEF MonitorCheck
<1>7. CASE MonitorProbe
  <2>1. compromised' \subseteq Holder
    BY <1>7 DEF MonitorProbe
  <2>2. mi' \in Holder /\ mpc' \in {"check", "probe", "react", "ended"}
    BY <1>7, Holders DEF MonitorProbe, NextHolder
  <2>3. QED
    BY <1>7, <2>1, <2>2 DEF MonitorProbe
<1>8. CASE MonitorReact
  <2>1. main' \in BOOLEAN /\ killed' \in BOOLEAN
    BY <1>8, Zenon DEF MonitorReact, React
  <2>2. QED
    BY <1>8, <2>1, Holders DEF MonitorReact, React, NextHolder
<1>9. ASSUME NEW f \in Fetchers, FetchBegin(f) PROVE TypeOK'
  <2>1. FirstK(Holder \ compromised) \in SUBSET Holder
    BY DEF FirstK
  <2>2. todo' \in [Fetchers -> SUBSET Holder]
    BY <1>9, <2>1 DEF FetchBegin
  <2>3. collected' \in [Fetchers -> SUBSET Share]
    BY <1>9 DEF FetchBegin
  <2>4. QED
    BY <1>9, <2>2, <2>3 DEF FetchBegin
<1>10. ASSUME NEW f \in Fetchers, FetchLock(f) PROVE TypeOK'
  BY <1>10 DEF FetchLock
<1>11. ASSUME NEW f \in Fetchers, fpc[f] \in {"send", "recv"} PROVE Asked(f) \in Holder
  BY <1>11, AsksOne DEF SharesInv, Fetching
<1>12. ASSUME NEW f \in Fetchers, FetchSend(f) PROVE TypeOK'
  BY <1>11, <1>12 DEF FetchSend
<1>13. ASSUME NEW f \in Fetchers, FetchRecv(f) PROVE TypeOK'
  <2>1. Asked(f) \in Holder
    BY <1>11, <1>13 DEF FetchRecv
  <2>2. rep[Asked(f)] \in Seq(Share) /\ rep[Asked(f)] # <<>>
    BY <2>1, <1>13 DEF FetchRecv
  <2>3. Head(rep[Asked(f)]) \in Share /\ Tail(rep[Asked(f)]) \in Seq(Share)
    BY <2>2
  <2>4. rep' \in [Holder -> Seq(Share)]
    BY <1>13, <2>1, <2>3 DEF FetchRecv
  <2>5. collected' \in [Fetchers -> SUBSET Share]
    BY <1>13, <2>3 DEF FetchRecv
  <2>6. todo' \in [Fetchers -> SUBSET Holder]
    BY <1>13 DEF FetchRecv
  <2>7. QED
    BY <1>13, <2>4, <2>5, <2>6 DEF FetchRecv
<1>14. ASSUME NEW f \in Fetchers, FetchFails(f) PROVE TypeOK'
  <2>1. compromised' \subseteq Holder
    BY <1>11, <1>14 DEF FetchFails
  <2>2. todo' \in [Fetchers -> SUBSET Holder] /\ collected' \in [Fetchers -> SUBSET Share]
    BY <1>14 DEF FetchFails
  <2>3. QED
    BY <1>14, <2>1, <2>2 DEF FetchFails
<1>15. ASSUME NEW f \in Fetchers, FetchReact(f) PROVE TypeOK'
  <2>1. main' \in BOOLEAN /\ killed' \in BOOLEAN
    BY <1>15, Zenon DEF FetchReact, React
  <2>2. QED
    BY <1>15, <2>1 DEF FetchReact, React
<1>16. CASE StopBegin
  BY <1>16, Holders, ConstantsAssumption DEF StopBegin, Holder
<1>17. CASE StopWatchdogs
  BY <1>17, Holders DEF StopWatchdogs, Loop
<1>18. CASE StopSend
  BY <1>18, Holders, SMTT(20) DEF StopSend, Loop
<1>19. CASE StopJoin
  BY <1>19, Holders DEF StopJoin, Loop
<1>20. QED
  BY <1>1, <1>2, <1>3, <1>4, <1>5, <1>6, <1>7, <1>8, <1>9, <1>10, <1>12, <1>13, <1>14,
     <1>15, <1>16, <1>17, <1>18, <1>19, Zenon
  DEF Next, Monitor, FetchStep, Stop

\* The steps that leave the fetches and the lock alone.
Elsewhere == UNCHANGED <<lock, fpc, todo, collected>>

\* The lock of the group belongs to the fetch() that is inside it.
LEMMA LockStep ==
    ASSUME TypeOK, LockInv, Next
    PROVE  LockInv'
<1> USE DEF procs, pipes, verdict, monitor, fetches, stopper, At
<1>1. CASE Elsewhere
  BY <1>1 DEF LockInv, Elsewhere
<1>2. ASSUME NEW f \in Fetchers, FetchBegin(f) PROVE LockInv'
  BY <1>2 DEF FetchBegin, LockInv, TypeOK
<1>3. ASSUME NEW f \in Fetchers, FetchLock(f) PROVE LockInv'
  BY <1>3, ConstantsAssumption DEF FetchLock, LockInv, TypeOK
<1>4. ASSUME NEW f \in Fetchers, FetchSend(f) PROVE LockInv'
  BY <1>4 DEF FetchSend, LockInv, TypeOK
<1>5. ASSUME NEW f \in Fetchers, FetchRecv(f) PROVE LockInv'
  <2>1. /\ lock = f
        /\ \/ fpc' = [fpc EXCEPT ![f] = "done"] /\ lock' = "free"
           \/ fpc' = [fpc EXCEPT ![f] = "send"] /\ lock' = lock
    BY <1>5 DEF FetchRecv, LockInv
  <2>2. QED
    BY <2>1, ConstantsAssumption, ZenonT(30) DEF LockInv, TypeOK
<1>6. ASSUME NEW f \in Fetchers, FetchFails(f) PROVE LockInv'
  <2>1. /\ lock = f
        /\ \/ fpc' = [fpc EXCEPT ![f] = "idle"] /\ lock' = "free"
           \/ fpc' = [fpc EXCEPT ![f] = "react"] /\ lock' = lock
    BY <1>6 DEF FetchFails, LockInv
  <2>2. QED
    BY <2>1, ConstantsAssumption, ZenonT(30) DEF LockInv, TypeOK
<1>7. ASSUME NEW f \in Fetchers, FetchReact(f) PROVE LockInv'
  BY <1>7, ConstantsAssumption DEF FetchReact, LockInv, TypeOK
<1>8. Elsewhere \/ \E f \in Fetchers : FetchBegin(f) \/ FetchStep(f)
  BY DEF Next, Elsewhere, Serve, WatchdogWipe, WatchdogKill, WatchdogExit, Crash, Monitor,
         MonitorCheck, MonitorProbe, MonitorReact, StopBegin, Stop, StopWatchdogs, StopSend,
         StopJoin
<1>9. QED
  BY <1>1, <1>2, <1>3, <1>4, <1>5, <1>6, <1>7, <1>8, Zenon DEF FetchStep

\* Whatever is not a React leaves the verdict alone, or adds a dead holder to it and
\* makes the thread that did so react next.
LEMMA VerdictSteps ==
    ASSUME TypeOK, SharesInv, Next
    PROVE  \/ UNCHANGED <<compromised, killed, main, mpc, fpc>>
           \/ UNCHANGED <<compromised, killed, main>> /\ main
              /\ (mpc = "react" => mpc' = "react")
              /\ \A f \in Fetchers : fpc[f] = "react" => fpc'[f] = "react"
           \/ /\ \E h \in Holder : IsDead(h) /\ compromised' = compromised \cup {h}
              /\ UNCHANGED <<killed, main>> /\ main
              /\ mpc' = "react" \/ \E f \in Fetchers : fpc'[f] = "react"
           \/ React /\ main
<1> USE DEF procs, pipes, verdict, monitor, fetches, stopper, At
<1>1. ASSUME NEW h \in Holder, \/ Serve(h) \/ WatchdogWipe(h) \/ WatchdogKill(h)
                               \/ WatchdogExit(h) \/ Crash(h)
      PROVE  UNCHANGED <<compromised, killed, main, mpc, fpc>>
  BY <1>1 DEF Serve, WatchdogWipe, WatchdogKill, WatchdogExit, Crash
<1>2. CASE Stop \/ StopBegin
  BY <1>2 DEF Stop, StopBegin, StopWatchdogs, StopSend, StopJoin
<1>3. CASE MonitorCheck
  BY <1>3 DEF MonitorCheck
<1>4. CASE MonitorProbe
  BY <1>4 DEF MonitorProbe, TypeOK
<1>5. CASE MonitorReact
  BY <1>5 DEF MonitorReact
<1>6. ASSUME NEW f \in Fetchers,
             FetchBegin(f) \/ FetchLock(f) \/ FetchSend(f) \/ FetchRecv(f)
      PROVE  /\ UNCHANGED <<compromised, killed, main, mpc>> /\ main
             /\ \A g \in Fetchers : fpc[g] = "react" => fpc'[g] = "react"
  BY <1>6 DEF FetchBegin, FetchLock, FetchSend, FetchRecv, TypeOK
<1>7. ASSUME NEW f \in Fetchers, FetchFails(f)
      PROVE  \/ UNCHANGED <<compromised, killed, main, mpc>> /\ main
                /\ \A g \in Fetchers : fpc[g] = "react" => fpc'[g] = "react"
             \/ /\ \E h \in Holder : IsDead(h) /\ compromised' = compromised \cup {h}
                /\ UNCHANGED <<killed, main>> /\ main
                /\ \E g \in Fetchers : fpc'[g] = "react"
  <2>1. Asked(f) \in Holder
    BY <1>7, AsksOne DEF FetchFails, SharesInv, Fetching
  <2>2. IsDead(Asked(f))
    BY <1>7 DEF FetchFails, Connected, IsDead
  <2>3. QED
    BY <1>7, <2>1, <2>2 DEF FetchFails, TypeOK
<1>8. ASSUME NEW f \in Fetchers, FetchReact(f) PROVE React /\ main
  BY <1>8 DEF FetchReact
<1>9. QED
  BY <1>1, <1>2, <1>3, <1>4, <1>5, <1>6, <1>7, <1>8 DEF Next, Monitor, FetchStep

\* A share that was zeroed does not come back, and no holder is started again.
LEMMA HolderSteps ==
    ASSUME TypeOK, Next, NEW h \in Holder
    PROVE  /\ holder[h] = "dead" => holder'[h] = "dead"
           /\ holder[h] # "up" => holder'[h] # "up"
<1> USE DEF TypeOK, procs
<1>1. ASSUME NEW g \in Holder, Serve(g)
      PROVE  holder' = holder \/ holder' = [holder EXCEPT ![g] = "dead"]
  BY <1>1 DEF Serve
<1>2. ASSUME NEW g \in Holder, WatchdogWipe(g)
      PROVE  holder[g] = "up" /\ holder' = [holder EXCEPT ![g] = "wiped"]
  BY <1>2 DEF WatchdogWipe
<1>3. ASSUME NEW g \in Holder, WatchdogKill(g) \/ Crash(g)
      PROVE  holder' = [holder EXCEPT ![g] = "dead"]
  BY <1>3 DEF WatchdogKill, Crash
<1>4. ASSUME NEW g \in Holder, WatchdogExit(g) PROVE holder' = holder
  BY <1>4 DEF WatchdogExit
<1>5. ASSUME Monitor PROVE holder' = holder
  BY <1>5 DEF Monitor, MonitorCheck, MonitorProbe, MonitorReact
<1>6. ASSUME NEW f \in Fetchers, FetchBegin(f) \/ FetchStep(f) PROVE holder' = holder
  BY <1>6 DEF FetchBegin, FetchStep, FetchLock, FetchSend, FetchRecv, FetchFails, FetchReact
<1>7. ASSUME StopBegin \/ Stop
      PROVE  holder' = holder \/ holder' = [holder EXCEPT ![si] = "dead"]
  BY <1>7 DEF StopBegin, Stop, StopWatchdogs, StopSend, StopJoin
<1>8. \/ holder' = holder
      \/ \E g \in Holder : holder' = [holder EXCEPT ![g] = "dead"]
      \/ \E g \in Holder : holder[g] = "up" /\ holder' = [holder EXCEPT ![g] = "wiped"]
  BY <1>1, <1>2, <1>3, <1>4, <1>5, <1>6, <1>7 DEF Next
<1>9. QED
  BY <1>8

\* Only dead holders are accused, and the main process is killed at the threshold exactly.
LEMMA KilledStep ==
    ASSUME CauseInv, KillInv, SharesInv, Next
    PROVE  CauseInv' /\ KillInv'
<1>1. TypeOK /\ TypeOK'
  BY TypeStep DEF CauseInv
<1>2. \A h \in Holder : IsDead(h) => holder'[h] = "dead"
  BY <1>1, HolderSteps DEF IsDead
<1>3. /\ \A h \in compromised : holder'[h] = "dead"
      /\ compromised \subseteq Holder /\ compromised' \subseteq Holder
      /\ IsFiniteSet(compromised) /\ Cardinality(compromised) \in Nat
      /\ KillThreshold \in Nat
  BY <1>1, <1>2, Holders, FS_Subset, FS_CardinalityType, ConstantsAssumption
  DEF CauseInv, CompromisedAreDead, IsDead, TypeOK
<1> USE DEF CauseInv, CompromisedAreDead, KilledAtThreshold, KillInv
<1>4. CASE UNCHANGED <<compromised, killed, main, mpc, fpc>>
  BY <1>1, <1>3, <1>4 DEF ReachesThreshold
<1>5. CASE /\ UNCHANGED <<compromised, killed, main>> /\ main
           /\ mpc = "react" => mpc' = "react"
           /\ \A f \in Fetchers : fpc[f] = "react" => fpc'[f] = "react"
  BY <1>1, <1>3, <1>5 DEF ReachesThreshold
<1>6. CASE /\ \E h \in Holder : IsDead(h) /\ compromised' = compromised \cup {h}
           /\ UNCHANGED <<killed, main>> /\ main
           /\ mpc' = "react" \/ \E f \in Fetchers : fpc'[f] = "react"
  BY <1>1, <1>2, <1>3, <1>6
<1>7. CASE React /\ main
  <2>1. ~killed
    BY <1>7
  <2>2. ~main' => ReachesThreshold(Cardinality(compromised))
    BY <1>7, <2>1, Zenon DEF React
  <2>3. main' => ~ReachesThreshold(Cardinality(compromised))
    BY <1>7, <2>1, Zenon DEF React
  <2>4. killed' <=> ~main'
    BY <1>7, <2>1, Zenon DEF React
  <2>5. compromised' = compromised
    BY <1>7 DEF React
  <2>6. QED
    BY <1>1, <1>3, <2>2, <2>3, <2>4, <2>5 DEF ReachesThreshold
<1>8. QED
  BY <1>1, <1>4, <1>5, <1>6, <1>7, VerdictSteps

\* Every answer in a pipe is the share of its holder, or zeros after a wipe.
LEMMA AnswersStep ==
    ASSUME TypeOK, SharesInv, AnswersInv, Next
    PROVE  AnswersInv'
<1> USE DEF procs, pipes, verdict, monitor, fetches, stopper
<1>1. \A h \in Holder : holder[h] # "up" => holder'[h] # "up"
  BY HolderSteps
<1>2. ASSUME NEW g \in Holder, Serve(g) PROVE AnswersInv'
  <2> SUFFICES ASSUME NEW h \in Holder, NEW i \in DOMAIN rep'[h]
               PROVE  rep'[h][i] = h \/ (rep'[h][i] = Blank(h) /\ holder'[h] # "up")
    BY DEF AnswersInv
  <2>1. CASE rep'[h] = rep[h]
    BY <1>1, <2>1 DEF AnswersInv
  <2>2. CASE rep'[h] # rep[h]
    <3>1. h = g /\ rep'[h] = Append(rep[h], IF holder[h] = "up" THEN h ELSE Blank(h))
      BY <1>2, <2>2 DEF Serve, TypeOK
    <3>2. rep[h] \in Seq(Share)
      BY DEF TypeOK
    <3>3. CASE i \in DOMAIN rep[h]
      BY <1>1, <3>1, <3>2, <3>3 DEF AnswersInv
    <3>4. CASE i \notin DOMAIN rep[h]
      BY <1>1, <3>1, <3>2, <3>4
    <3>5. QED
      BY <3>3, <3>4
  <2>3. QED
    BY <2>1, <2>2
<1>3. ASSUME NEW f \in Fetchers, FetchRecv(f) PROVE AnswersInv'
  <2>1. Asked(f) \in Holder
    BY <1>3, AsksOne DEF FetchRecv, SharesInv, Fetching
  <2> SUFFICES ASSUME NEW h \in Holder, NEW i \in DOMAIN rep'[h]
               PROVE  rep'[h][i] = h \/ (rep'[h][i] = Blank(h) /\ holder'[h] # "up")
    BY DEF AnswersInv
  <2>2. CASE rep'[h] = rep[h]
    BY <1>1, <2>2 DEF AnswersInv
  <2>3. CASE rep'[h] # rep[h]
    <3>1. rep[h] \in Seq(Share) /\ rep[h] # <<>> /\ rep'[h] = Tail(rep[h])
      BY <1>3, <2>1, <2>3 DEF FetchRecv, TypeOK
    <3>2. i + 1 \in DOMAIN rep[h] /\ rep'[h][i] = rep[h][i + 1]
      BY <3>1
    <3>3. QED
      BY <1>1, <3>2 DEF AnswersInv
  <2>4. QED
    BY <2>2, <2>3
<1>4. CASE rep' = rep
  BY <1>1, <1>4 DEF AnswersInv
<1>5. \/ rep' = rep
      \/ \E g \in Holder : Serve(g)
      \/ \E f \in Fetchers : FetchRecv(f)
  BY DEF Next, WatchdogWipe, WatchdogKill, WatchdogExit, Crash,
         Monitor, MonitorCheck, MonitorProbe, MonitorReact, FetchBegin, FetchStep, FetchLock,
         FetchSend, FetchFails, FetchReact, StopBegin, Stop, StopWatchdogs, StopSend, StopJoin
<1>6. QED
  BY <1>2, <1>3, <1>4, <1>5

\* What a fetch() has to ask and has got is finite.
LEMMA FetchSets ==
    ASSUME TypeOK, NEW f \in Fetchers
    PROVE  /\ IsFiniteSet(todo[f]) /\ Cardinality(todo[f]) \in Nat
           /\ IsFiniteSet(collected[f]) /\ Cardinality(collected[f]) \in Nat
<1>1. todo[f] \in SUBSET Holder /\ collected[f] \in SUBSET Share
  BY DEF TypeOK
<1>2. IsFiniteSet(Holder) /\ IsFiniteSet(Share)
  <2>1. 1 \in Int /\ 2 * N \in Int
    BY ConstantsAssumption
  <2>2. QED
    BY <2>1, Holders, FS_Interval, Zenon DEF Share
<1>3. QED
  BY <1>1, <1>2, FS_Subset, FS_CardinalityType, Zenon

\* A fetch() trades one holder to ask for one share, and has no two shares of one holder.
LEMMA SharesStep ==
    ASSUME TypeOK, AnswersInv, SharesInv, Next
    PROVE  SharesInv'
<1> USE DEF procs, pipes, verdict, monitor, fetches, stopper, At
<1>1. \A h \in Holder : holder[h] # "up" => holder'[h] # "up"
  BY HolderSteps
<1>2. CASE UNCHANGED <<fpc, todo, collected>>
  BY <1>1, <1>2 DEF SharesInv, Fetching
<1> SUFFICES ASSUME NEW f \in Fetchers, FetchBegin(f) \/ FetchStep(f)
             PROVE  SharesInv'
  BY <1>2
  DEF Next, Serve, WatchdogWipe, WatchdogKill, WatchdogExit, Crash, Monitor, MonitorCheck,
      MonitorProbe, MonitorReact, StopBegin, Stop, StopWatchdogs, StopSend, StopJoin
\* What is said of one fetch().
<1> DEFINE Wait(g) == /\ todo[g] # {}
                      /\ Cardinality(collected[g]) + Cardinality(todo[g]) = K
                      /\ \A h \in todo[g] : {h, Blank(h)} \cap collected[g] = {}
           Held(g) == /\ \A h \in Holder : ~({h, Blank(h)} \subseteq collected[g])
                      /\ \A h \in Holder : Blank(h) \in collected[g] => holder[h] # "up"
<1>3. ASSUME NEW g \in Fetchers, g # f
      PROVE  UNCHANGED <<fpc[g], todo[g], collected[g]>>
  BY <1>3 DEF FetchBegin, FetchStep, FetchLock, FetchSend, FetchRecv, FetchFails, FetchReact,
              TypeOK
<1>4. SUFFICES /\ Fetching(f)' => Wait(f)'
               /\ fpc'[f] = "done" => Cardinality(collected'[f]) = K
               /\ Held(f)'
  BY <1>1, <1>3, <1>4 DEF SharesInv, Fetching
<1>5. /\ Fetching(f) => Wait(f)
      /\ Held(f)
  BY DEF SharesInv
<1>6. CASE FetchBegin(f)
  <2>1. collected'[f] = {}
    BY <1>6 DEF FetchBegin, TypeOK
  <2>2. Held(f)' /\ fpc'[f] # "done"
    BY <1>6, <2>1 DEF FetchBegin, TypeOK
  <2>3. ASSUME Fetching(f)' PROVE Wait(f)'
    <3> DEFINE S == Holder \ compromised
    <3>1. Cardinality(S) >= K /\ todo'[f] = FirstK(S)
      <4>1. IsFiniteSet(S) /\ Cardinality(S) \in Nat /\ K \in Nat
        BY Holders, FS_Subset, FS_CardinalityType, ConstantsAssumption
      <4>2. QED
        BY <1>6, <2>3, <4>1 DEF FetchBegin, Fetching, TypeOK
    <3>2. Cardinality(todo'[f]) = K
      BY <3>1, Holders, FS_Subset, FirstKHasK
    <3>3. Cardinality(collected'[f]) = 0 /\ K \in Nat /\ K > 0
      BY <2>1, FS_EmptySet, ConstantsAssumption
    <3>4. todo'[f] # {}
      BY <3>2, <3>3, FS_EmptySet
    <3>5. QED
      BY <2>1, <3>2, <3>3, <3>4
  <2>4. QED
    BY <2>2, <2>3
<1>7. CASE FetchLock(f) \/ FetchSend(f)
  <2>1. /\ Fetching(f) /\ Fetching(f)' /\ fpc'[f] # "done"
        /\ UNCHANGED <<todo, collected, holder>>
    BY <1>7 DEF FetchLock, FetchSend, Fetching, TypeOK
  <2>2. QED
    BY <1>5, <2>1
<1>8. CASE FetchRecv(f)
  <2> DEFINE a == Asked(f)
             x == Head(rep[a])
  <2>1. Fetching(f) /\ Wait(f)
    BY <1>5, <1>8 DEF FetchRecv, Fetching
  <2>2. a \in todo[f] /\ a \in Holder
    BY <2>1, AsksOne
  <2>3. x = a \/ (x = Blank(a) /\ holder[a] # "up")
    <3>1. rep[a] \in Seq(Share) /\ rep[a] # <<>>
      BY <1>8, <2>2 DEF FetchRecv, TypeOK
    <3>2. 1 \in DOMAIN rep[a] /\ x = rep[a][1]
      BY <3>1
    <3>3. QED
      BY <2>2, <3>2 DEF AnswersInv
  <2>4. /\ collected'[f] = collected[f] \cup {x} /\ todo'[f] = todo[f] \ {a}
        /\ fpc'[f] = IF todo[f] = {a} THEN "done" ELSE "send"
        /\ holder' = holder
    BY <1>8 DEF FetchRecv, TypeOK
  <2> HIDE DEF a, x
  <2>5. x \notin collected[f]
    BY <2>1, <2>2, <2>3
  <2>6. Cardinality(collected'[f]) + Cardinality(todo'[f]) = K
    <3>1. Cardinality(collected'[f]) = Cardinality(collected[f]) + 1
      BY <2>4, <2>5, FetchSets, FS_AddElement, ZenonT(30)
    <3>2. Cardinality(todo'[f]) = Cardinality(todo[f]) - 1
      BY <2>2, <2>4, FetchSets, FS_RemoveElement
    <3>3. QED
      BY <2>1, <3>1, <3>2, FetchSets
  <2>7. \A h \in todo'[f] : {h, Blank(h)} \cap collected'[f] = {}
    <3>1. ASSUME NEW h \in todo'[f] PROVE h # x /\ Blank(h) # x
      <4>1. h \in Holder /\ h # a
        BY <2>4 DEF TypeOK
      <4>2. QED
        BY <2>2, <2>3, <4>1, Holders
    <3>2. QED
      BY <2>1, <2>4, <3>1
  <2>8. Held(f)'
    <3>1. ASSUME NEW h \in Holder PROVE ~({h, Blank(h)} \subseteq collected'[f])
      <4>1. CASE h = a
        BY <4>1, <2>1, <2>2, <2>3, <2>4, Holders
      <4>2. CASE h # a
        <5>1. h # x /\ Blank(h) # x
          BY <4>2, <2>2, <2>3, Holders
        <5>2. ~({h, Blank(h)} \subseteq collected[f])
          BY <1>5
        <5>3. QED
          BY <5>1, <5>2, <2>4
      <4>3. QED
        BY <4>1, <4>2
    <3>2. ASSUME NEW h \in Holder, Blank(h) \in collected'[f] PROVE holder'[h] # "up"
      BY <3>2, <1>5, <2>2, <2>3, <2>4, Holders
    <3>3. QED
      BY <3>1, <3>2
  <2>9. CASE todo[f] = {a}
    <3>1. todo'[f] = {}
      BY <2>4, <2>9
    <3>2. Cardinality(todo'[f]) = 0 /\ Cardinality(collected'[f]) \in Nat
      BY <3>1, <2>4, FetchSets, FS_AddElement, FS_CardinalityType, FS_EmptySet
    <3>3. QED
      BY <2>4, <2>6, <2>8, <2>9, <3>2 DEF Fetching
  <2>10. CASE todo[f] # {a}
    <3>1. todo'[f] # {}
      BY <2>2, <2>4, <2>10
    <3>2. QED
      BY <2>4, <2>6, <2>7, <2>8, <2>10, <3>1
  <2>11. QED
    BY <2>9, <2>10
<1>9. CASE FetchFails(f)
  <2>1. collected'[f] = {} /\ fpc'[f] \in {"idle", "react"}
    BY <1>9 DEF FetchFails, TypeOK
  <2>2. QED
    BY <2>1 DEF Fetching
<1>10. CASE FetchReact(f)
  <2>1. UNCHANGED <<collected, holder>> /\ fpc'[f] = "idle"
    BY <1>10 DEF FetchReact, TypeOK
  <2>2. QED
    BY <1>5, <2>1 DEF Fetching
<1>11. QED
  BY <1>6, <1>7, <1>8, <1>9, <1>10 DEF FetchStep

\* Questions in a pipe, when one is taken out or something is put in.
LEMMA Questions ==
    ASSUME NEW q \in Seq({"get_share", "stop"})
    PROVE  /\ q # <<>> /\ Head(q) = "get_share" => ~NoQuestion(q)
           /\ q # <<>> /\ Head(q) = "get_share" /\ OneQuestion(q) => NoQuestion(Tail(q))
           /\ NoQuestion(q) => /\ OneQuestion(Append(q, "get_share"))
                               /\ NoQuestion(Append(q, "stop"))
           /\ OneQuestion(q) => OneQuestion(Append(q, "stop"))
<1>1. q # <<>> => /\ 1 \in DOMAIN q /\ Head(q) = q[1]
                  /\ \A j \in DOMAIN Tail(q) : j + 1 \in DOMAIN q /\ Tail(q)[j] = q[j + 1]
                                               /\ j + 1 # 1
  OBVIOUS
<1>2. ASSUME NEW e \in {"get_share", "stop"}
      PROVE  /\ Len(q) + 1 \in DOMAIN Append(q, e) /\ Append(q, e)[Len(q) + 1] = e
             /\ \A j \in DOMAIN q : j \in DOMAIN Append(q, e) /\ Append(q, e)[j] = q[j]
             /\ \A j \in DOMAIN Append(q, e) : j = Len(q) + 1 \/ j \in DOMAIN q
  OBVIOUS
<1>3. q # <<>> /\ Head(q) = "get_share" => ~NoQuestion(q)
  BY <1>1 DEF NoQuestion
<1>4. q # <<>> /\ Head(q) = "get_share" /\ OneQuestion(q) => NoQuestion(Tail(q))
  BY <1>1 DEF NoQuestion, OneQuestion
<1>5. NoQuestion(q) => OneQuestion(Append(q, "get_share")) /\ NoQuestion(Append(q, "stop"))
  BY <1>2 DEF NoQuestion, OneQuestion
<1>6. OneQuestion(q) => OneQuestion(Append(q, "stop"))
  BY <1>2 DEF OneQuestion
<1>7. QED
  BY <1>3, <1>4, <1>5, <1>6

\* stop() sets its flag first, and nothing takes it back.
LEMMA StopStep ==
    ASSUME StopInv, Next
    PROVE  StopInv' /\ (stopping => stopping')
BY DEF StopInv, Next, Serve, WatchdogWipe, WatchdogKill, WatchdogExit, Crash, Monitor,
       MonitorCheck, MonitorProbe, MonitorReact, FetchBegin, FetchStep, FetchLock, FetchSend,
       FetchRecv, FetchFails, FetchReact, StopBegin, Stop, StopWatchdogs, StopSend, StopJoin,
       Loop, stopper

\* Only the owner of the lock waits for an answer.
LEMMA OneWaits ==
    ASSUME LockInv, NEW f \in Fetchers, fpc[f] \in {"send", "recv", "react"}
    PROVE  /\ \A g \in Fetchers : fpc[g] = "recv" => g = f
           /\ \A h \in Holder : Awaited(h) <=> fpc[f] = "recv" /\ Asked(f) = h
BY DEF LockInv, Awaited

\* One question or one answer is in the pipe of a living holder that is waited for, none in the others.
LEMMA PipesStep ==
    ASSUME TypeOK, LockInv, SharesInv, PipesInv, StopInv, Next
    PROVE  PipesInv'
<1> USE DEF procs, pipes, verdict, monitor, fetches, stopper, At
<1>1. TypeOK' /\ LockInv' /\ (stopping => stopping')
  BY TypeStep, LockStep, StopStep
<1>2. \A h \in Holder : holder'[h] # "dead" => holder[h] # "dead"
  BY HolderSteps
<1>3. ASSUME NEW h \in Holder
      PROVE  req[h] \in Seq({"get_share", "stop"}) /\ rep[h] \in Seq(Share)
  BY DEF TypeOK
<1> SUFFICES ASSUME NEW h \in Holder, holder'[h] # "dead"
             PROVE  /\ Awaited(h)' => \/ rep'[h] = <<>> /\ OneQuestion(req'[h])
                                      \/ Len(rep'[h]) = 1 /\ NoQuestion(req'[h])
                    /\ ~Awaited(h)' => rep'[h] = <<>> /\ NoQuestion(req'[h])
                    /\ ~stopping' => \A i \in DOMAIN req'[h] : req'[h][i] # "stop"
  BY DEF PipesInv, OneQuestion, NoQuestion
<1>4. /\ Awaited(h) => \/ rep[h] = <<>> /\ OneQuestion(req[h])
                       \/ Len(rep[h]) = 1 /\ NoQuestion(req[h])
      /\ ~Awaited(h) => rep[h] = <<>> /\ NoQuestion(req[h])
      /\ ~stopping => \A i \in DOMAIN req[h] : req[h][i] # "stop"
  BY <1>2 DEF PipesInv
<1>5. CASE UNCHANGED <<rep[h], req[h]>> /\ (Awaited(h)' <=> Awaited(h))
  BY <1>1, <1>4, <1>5
<1>6. ASSUME NEW g \in Holder, Serve(g)
      PROVE  \/ UNCHANGED <<rep[h], req[h]>>
             \/ /\ req[h] # <<>> /\ Head(req[h]) = "get_share" /\ req'[h] = Tail(req[h])
                /\ \E x \in Share : rep'[h] = Append(rep[h], x)
  <2>1. CASE h # g
    BY <1>6, <2>1 DEF Serve, TypeOK
  <2>2. CASE h = g
    BY <1>6, <2>2, Holders DEF Serve, TypeOK
  <2>3. QED
    BY <2>1, <2>2
<1>7. ASSUME NEW g \in Holder, Serve(g)
      PROVE  /\ Awaited(h)' => \/ rep'[h] = <<>> /\ OneQuestion(req'[h])
                               \/ Len(rep'[h]) = 1 /\ NoQuestion(req'[h])
             /\ ~Awaited(h)' => rep'[h] = <<>> /\ NoQuestion(req'[h])
             /\ ~stopping' => \A i \in DOMAIN req'[h] : req'[h][i] # "stop"
  <2>1. Awaited(h)' <=> Awaited(h)
    BY <1>7 DEF Serve, Awaited, Asked
  <2>2. CASE UNCHANGED <<rep[h], req[h]>>
    BY <1>5, <2>1, <2>2
  <2>3. ASSUME req[h] # <<>>, Head(req[h]) = "get_share", req'[h] = Tail(req[h]),
               NEW x \in Share, rep'[h] = Append(rep[h], x)
        PROVE  /\ Awaited(h)' /\ Len(rep'[h]) = 1 /\ NoQuestion(req'[h])
               /\ ~stopping' => \A i \in DOMAIN req'[h] : req'[h][i] # "stop"
    <3>1. Awaited(h) /\ rep[h] = <<>> /\ OneQuestion(req[h])
      BY <1>3, <1>4, <2>3, Questions
    <3>2. NoQuestion(req'[h])
      BY <1>3, <2>3, <3>1, Questions
    <3>3. Len(rep'[h]) = 1
      BY <1>3, <2>3, <3>1
    <3>4. ~stopping' => \A i \in DOMAIN req'[h] : req'[h][i] # "stop"
      <4>1. \A i \in DOMAIN req'[h] : i + 1 \in DOMAIN req[h] /\ req'[h][i] = req[h][i + 1]
        BY <1>3, <2>3
      <4>2. QED
        BY <1>1, <1>4, <4>1
    <3>5. QED
      BY <2>1, <3>1, <3>2, <3>3, <3>4
  <2>4. QED
    BY <1>6, <1>7, <2>2, <2>3
<1>8. ASSUME NEW f \in Fetchers, fpc[f] \in {"send", "recv"}
      PROVE  Asked(f) \in Holder
  BY <1>8, AsksOne DEF SharesInv, Fetching
<1>9. ASSUME NEW f \in Fetchers, FetchSend(f)
      PROVE  /\ Awaited(h)' => rep'[h] = <<>> /\ OneQuestion(req'[h])
             /\ ~Awaited(h)' => rep'[h] = <<>> /\ NoQuestion(req'[h])
             /\ ~stopping' => \A i \in DOMAIN req'[h] : req'[h][i] # "stop"
  <2>1. fpc[f] = "send" /\ fpc'[f] = "recv" /\ Asked(f)' = Asked(f)
    BY <1>9 DEF FetchSend, TypeOK, Asked
  <2>2. ~Awaited(h) /\ (Awaited(h)' <=> Asked(f) = h)
    <3>1. ~Awaited(h)
      BY <2>1, OneWaits
    <3>2. \A g \in Fetchers : fpc'[g] = "recv" => g = f
      BY <1>1, <2>1 DEF LockInv
    <3>3. QED
      BY <2>1, <3>1, <3>2 DEF Awaited
  <2>3. rep' = rep
    BY <1>9 DEF FetchSend
  <2>4. CASE Asked(f) = h
    <3>1. req'[h] = Append(req[h], "get_share")
      BY <1>9, <2>4 DEF FetchSend, TypeOK
    <3>2. OneQuestion(req'[h])
      BY <1>3, <1>4, <2>2, <3>1, Questions
    <3>3. ~stopping' => \A i \in DOMAIN req'[h] : req'[h][i] # "stop"
      <4>1. \A i \in DOMAIN req'[h] : \/ i \in DOMAIN req[h] /\ req'[h][i] = req[h][i]
                                      \/ req'[h][i] = "get_share"
        BY <1>3, <3>1
      <4>2. QED
        BY <1>1, <1>4, <4>1
    <3>4. QED
      BY <1>4, <2>2, <2>3, <2>4, <3>2, <3>3
  <2>5. CASE Asked(f) # h
    <3>1. req'[h] = req[h]
      BY <1>9, <2>5 DEF FetchSend, TypeOK
    <3>2. QED
      BY <1>1, <1>4, <2>2, <2>3, <2>5, <3>1
  <2>6. QED
    BY <2>4, <2>5
<1>10. ASSUME NEW f \in Fetchers, FetchRecv(f)
       PROVE  /\ ~Awaited(h)' /\ rep'[h] = <<>> /\ NoQuestion(req'[h])
              /\ ~stopping' => \A i \in DOMAIN req'[h] : req'[h][i] # "stop"
  <2>1. fpc[f] = "recv" /\ fpc'[f] # "recv" /\ req' = req
        /\ \A g \in Fetchers : g # f => fpc'[g] = fpc[g]
    BY <1>10 DEF FetchRecv, TypeOK
  <2>2. ~Awaited(h)' /\ (Awaited(h) <=> Asked(f) = h)
    BY <2>1, OneWaits DEF Awaited
  <2>3. CASE Asked(f) = h
    <3>1. rep[h] # <<>> /\ rep'[h] = Tail(rep[h])
      BY <1>10, <2>3 DEF FetchRecv, TypeOK
    <3>2. Len(rep[h]) = 1 /\ NoQuestion(req[h])
      BY <1>4, <2>2, <2>3, <3>1
    <3>3. rep'[h] = <<>>
      <4>1. rep'[h] \in Seq(Share) /\ Len(rep'[h]) = 0
        BY <1>3, <3>1, <3>2
      <4>2. QED
        BY <4>1, EmptySeq, Zenon
    <3>4. QED
      BY <1>1, <1>4, <2>1, <2>2, <3>2, <3>3
  <2>4. CASE Asked(f) # h
    <3>1. rep'[h] = rep[h]
      BY <1>10, <2>4 DEF FetchRecv, TypeOK
    <3>2. QED
      BY <1>1, <1>4, <2>1, <2>2, <2>4, <3>1
  <2>5. QED
    BY <2>3, <2>4
<1>11. ASSUME NEW f \in Fetchers, FetchFails(f)
       PROVE  UNCHANGED <<rep[h], req[h]>> /\ ~Awaited(h)' /\ ~Awaited(h)
  <2>1. /\ fpc[f] \in {"send", "recv"} /\ fpc'[f] # "recv" /\ UNCHANGED <<rep, req>>
        /\ \A g \in Fetchers : g # f => fpc'[g] = fpc[g]
    BY <1>11 DEF FetchFails, TypeOK
  <2>2. Asked(f) # h
    BY <1>2, <1>11 DEF FetchFails, Connected
  <2>3. ~Awaited(h)
    BY <2>1, <2>2, OneWaits
  <2>4. ~Awaited(h)'
    <3>1. \A g \in Fetchers : fpc[g] = "recv" => g = f
      BY <2>1, OneWaits
    <3>2. QED
      BY <2>1, <3>1 DEF Awaited
  <2>5. QED
    BY <2>1, <2>3, <2>4
<1>12. ASSUME NEW f \in Fetchers, FetchBegin(f) \/ FetchLock(f) \/ FetchReact(f)
       PROVE  UNCHANGED <<rep[h], req[h]>> /\ (Awaited(h)' <=> Awaited(h))
  <2>1. /\ UNCHANGED <<rep, req>> /\ fpc[f] # "recv" /\ fpc'[f] # "recv"
        /\ \A g \in Fetchers : g # f => fpc'[g] = fpc[g] /\ todo'[g] = todo[g]
    BY <1>12 DEF FetchBegin, FetchLock, FetchReact, TypeOK
  <2>2. QED
    BY <2>1 DEF Awaited, Asked
<1>13. ASSUME StopSend
       PROVE  /\ Awaited(h)' => \/ rep'[h] = <<>> /\ OneQuestion(req'[h])
                                \/ Len(rep'[h]) = 1 /\ NoQuestion(req'[h])
              /\ ~Awaited(h)' => rep'[h] = <<>> /\ NoQuestion(req'[h])
              /\ stopping'
  <2>1. /\ Awaited(h)' <=> Awaited(h)
        /\ rep' = rep /\ stopping'
    BY <1>13 DEF StopSend, Awaited, Asked, StopInv
  <2>2. req'[h] = req[h] \/ req'[h] = Append(req[h], "stop")
    BY <1>13 DEF StopSend, TypeOK
  <2>3. QED
    BY <1>3, <1>4, <2>1, <2>2, Questions
<1>14. CASE UNCHANGED <<rep, req, fpc, todo>>
  BY <1>5, <1>14 DEF Awaited, Asked
<1>15. \/ UNCHANGED <<rep, req, fpc, todo>> \/ StopSend
       \/ \E g \in Holder : Serve(g)
       \/ \E f \in Fetchers : FetchBegin(f) \/ FetchStep(f)
  BY DEF Next, WatchdogWipe, WatchdogKill, WatchdogExit, Crash, Monitor, MonitorCheck,
         MonitorProbe, MonitorReact, StopBegin, Stop, StopWatchdogs, StopJoin
<1>16. QED
  BY <1>5, <1>7, <1>9, <1>10, <1>11, <1>12, <1>13, <1>14, <1>15 DEF FetchStep

-----------------------------------------------------------------------------
(* The theorems.                                                           *)

\* The constructor leaves the group in the invariant.
LEMMA Initially == Init => IInv
<1> SUFFICES ASSUME Init PROVE IInv
  OBVIOUS
<1>1. main = TRUE /\ stopping = FALSE /\ killed = FALSE
  BY DEF Init
<1>2. TypeOK
  <2>1. main \in BOOLEAN /\ stopping \in BOOLEAN /\ killed \in BOOLEAN
    BY <1>1, Zenon
  <2>2. QED
    BY <2>1, ConstantsAssumption DEF Init, TypeOK, Holder
<1>3. CompromisedAreDead /\ KilledAtThreshold
  BY FS_EmptySet, ConstantsAssumption
  DEF Init, CompromisedAreDead, KilledAtThreshold, ReachesThreshold
<1>4. LockInv
  BY ConstantsAssumption DEF Init, LockInv
<1>5. KillInv /\ StopInv
  BY DEF Init, KillInv, StopInv
<1>6. AnswersInv
  BY DEF Init, AnswersInv
<1>7. SharesInv
  BY DEF Init, SharesInv, Fetching
<1>8. PipesInv
  BY DEF Init, PipesInv, Awaited, NoQuestion
<1>9. QED
  BY <1>2, <1>3, <1>4, <1>5, <1>6, <1>7, <1>8 DEF IInv, CauseInv

\* A step of no part of the group changes nothing the invariant is about.
LEMMA Stutter == IInv /\ UNCHANGED vars => IInv'
BY DEF IInv, CauseInv, TypeOK, CompromisedAreDead, KilledAtThreshold, ReachesThreshold,
       LockInv, KillInv, AnswersInv, SharesInv, Fetching, PipesInv, Awaited, Asked,
       NoQuestion, OneQuestion, StopInv, vars, procs, pipes, verdict, monitor, fetches, stopper

\* The group's inductive invariant: lock, pipes and shares fit together at every step
\* of holders, watchdogs, monitor, callers of fetch() and stop().
THEOREM Invariance == Spec => []IInv
<1>1. IInv /\ Next => IInv'
  BY TypeStep, LockStep, KilledStep, AnswersStep, SharesStep, PipesStep, StopStep, Zenon
  DEF IInv, CauseInv
<1>2. QED
  BY <1>1, Initially, Stutter, PTL DEF Spec

\* _on_holder_compromised, for every number of holders, threshold and set of callers:
\* until stop() is called the group marks only holders that have failed, and it kills the
\* main process at KillThreshold of them and never before, whichever of monitor and
\* fetch() counts the last one.
THEOREM KillsForCause == Spec => []KilledForCause
<1>1. IInv => KilledForCause
  BY DEF IInv, CauseInv, CompromisedAreDead, KilledForCause, OnlyFailedAreAccused
<1>2. QED
  BY <1>1, Invariance, PTL

\* fetch(), for every N and K and any number of callers: it combines the shares of K
\* different holders, zeros only from one that was tampered with, and between
\* fetches the pipes of the holders that live are empty.
THEOREM FetchesAreClean == Spec => []CleanFetch
<1>1. IInv => FetchIsWhole
  BY DEF IInv, SharesInv, FetchIsWhole
<1>2. IInv => NoStrayMessages
  <2> SUFFICES ASSUME IInv, lock = "free", NEW h \in Holder, holder[h] # "dead"
               PROVE  rep[h] = <<>> /\ (req[h] = <<>> \/ stopping)
    BY DEF NoStrayMessages
  <2>1. ~Awaited(h)
    BY ConstantsAssumption DEF IInv, LockInv, Awaited
  <2>2. rep[h] = <<>> /\ NoQuestion(req[h])
        /\ (~stopping => \A i \in DOMAIN req[h] : req[h][i] # "stop")
    BY <2>1 DEF IInv, PipesInv
  <2>3. req[h] \in Seq({"get_share", "stop"})
    BY DEF IInv, CauseInv, TypeOK
  <2>4. ~stopping => Len(req[h]) = 0
    <3> SUFFICES ASSUME ~stopping, Len(req[h]) # 0 PROVE FALSE
      OBVIOUS
    <3>1. 1 \in DOMAIN req[h] /\ req[h][1] \in {"get_share", "stop"}
      BY <2>3
    <3>2. QED
      BY <2>2, <3>1 DEF NoQuestion
  <2>5. QED
    BY <2>2, <2>3, <2>4, EmptySeq, Zenon
<1>3. QED
  BY <1>1, <1>2, Invariance, PTL DEF CleanFetch

-----------------------------------------------------------------------------
(* Streams: its invariant.                                                 *)

\* The bytes from place x + 1 to place y of a piece.
Bytes(x, y) == [i \in 1 .. y - x |-> x + i]

\* What of a piece of p bytes has arrived, is in the second pipe, and in the first one.
Passing(rcv, mid, wire, p) ==
    \E x \in 0 .. p : \E y \in x .. p :
        rcv = Bytes(0, x) /\ mid = Bytes(x, y) /\ wire = Bytes(y, p)

Boxes      == [a : Seq(Nat), b : Seq(Nat), active : {"a", "b"}]
ReportA    == <<"A">>
ReportB(n) == <<"B", Piece(n)>>

DataInv ==
    /\ pos \in Nat /\ sent \in 0 .. Len(chunks) /\ out \in Boxes /\ kept \in Boxes
    /\ src \in Seq(Nat) /\ dst \in Seq(Nat) /\ received \in Seq(Nat)
    /\ queue \in Seq({ReportA, ReportB(expected)})
    /\ final \in {<<>>, ReportB(expected)}
    /\ pools \in Seq([size : Nat, cursor : Nat])
    /\ chunks \in Seq([plain : Seq(Nat), from : Nat, pool : Nat, offset : Nat, length : Nat])

\* The labels of each route.
PlaceInv ==
    /\ route = "handoff" => /\ cpc \in {"fork", "join_writer", "get", "join_reader", "done"}
                             /\ wpc # "put"
    /\ route = "tracked" => cpc \in {"fork", "get", "get again", "join_writer", "join_reader", "done"}
    /\ Spliced => /\ cpc \in {"splice", "join_writer", "join_reader", "join_sampler",
                              "done", "raised", "failed"}
                  /\ rpc \in {"read", "ended"} /\ wpc \in {"fall", "write", "ended"} /\ hops = 0
    /\ route = "ingest" => /\ cpc \in {"pack", "stream", "done"} /\ rpc = "read" /\ wpc = "fall"
                           /\ hops = 0 /\ src = <<>> /\ dst = <<>>
    /\ route # "ingest" => chunks = <<>> /\ pools = <<>>
    /\ Forked => dst = <<>>

\* How long the piece really is, and that the writer still has it.
Length == IF Forked THEN expected ELSE Len(Current(out))

OutInv ==
    /\ pos <= Length
    /\ wpc \in {"fall", "write"} \/ ~Forked => Current(out) = Piece(Length)
    /\ route # "ingest" /\ wpc = "fall" => pos = 0
    /\ wpc \in {"put", "ended"} => pos = Length \/ error
    /\ error => Spliced /\ wpc = "ended"

\* What has been written is in the pipes or at the reader, in this order.
PassingInv == route # "ingest" => Passing(received, dst, src, pos)

\* The caller of splice() counts what has left the first pipe.
CountInv == Spliced => remaining + Len(received) + Len(dst) = expected

\* The ends of the pipes that matter to somebody.
EndsInv ==
    /\ Forked /\ rpc = "read" => <<"reader", "src_w">> \in ends
    /\ Spliced /\ wpc # "ended" => <<"writer", "src_w">> \in ends
    /\ Spliced /\ cpc = "splice" => <<"caller", "dst_w">> \in ends
    /\ <<"caller", "src_w">> \in ends \/ <<"caller", "src_r">> \in ends => cpc \in {"fork", "splice"}
    /\ <<"caller", "src_w">> \in ends => Forked
    /\ <<"caller", "dst_w">> \in ends => cpc = "splice"
    /\ <<"caller", "dst_r">> \in ends => Spliced /\ cpc \notin {"join_sampler", "done", "raised"}

\* Where the mover of splice() has been, others are through.
MovedInv == Spliced =>
    /\ cpc \notin {"splice", "failed"} => remaining = 0 \/ (src = <<>> /\ wpc = "ended")
    /\ rpc = "ended" => dst = <<>> /\ cpc # "splice"
    /\ cpc \in {"join_reader", "join_sampler", "done", "raised"} => wpc = "ended"
    /\ cpc \in {"join_sampler", "done", "raised"} => rpc = "ended"
    /\ cpc = "done" => ~error

\* The two reports of a hand-off: A's at most once, B's with the whole piece.
NoReportA == \A i \in DOMAIN queue : queue[i] # ReportA

ReportsInv == Forked =>
    /\ rpc \in {"fall", "flush", "ended"} => Current(kept) = Piece(expected)
    /\ wpc # "ended" \/ route = "handoff" => NoReportA
    /\ \A i, j \in DOMAIN queue : queue[i] = ReportA /\ queue[j] = ReportA => i = j
    /\ cpc = "get again" /\ final = <<>> => NoReportA /\ wpc = "ended"
    /\ (cpc \in {"join_reader", "done"} \/ (route = "tracked" /\ cpc = "join_writer")) =>
           final = ReportB(expected)

\* Every chunk is the bytes after those of the chunk before it, and the last one ends at pos.
FileInv == route = "ingest" =>
    /\ pos = End(Len(chunks))
    /\ \A i \in DOMAIN chunks :
         /\ chunks[i].from = End(i - 1) /\ End(i) <= pos
         /\ chunks[i].plain = Bytes(chunks[i].from, End(i))

\* A pool's cursor is behind every slot, and a slot behind the earlier ones.
SlotsInv == \A i \in DOMAIN chunks :
    /\ chunks[i].pool \in DOMAIN pools
    /\ chunks[i].offset + chunks[i].length <= pools[chunks[i].pool].cursor
    /\ \A j \in 1 .. i - 1 : chunks[j].pool = chunks[i].pool =>
           chunks[j].offset + chunks[j].length <= chunks[i].offset

\* stream_to() has written the chunks so far, or as much of them as _data_len.
SentInv == route = "ingest" =>
    /\ remaining + Len(received) = expected
    /\ received = Piece(Len(received))
    /\ Len(received) = IF End(sent) < expected THEN End(sent) ELSE expected
    /\ cpc = "pack" => sent = 0
    /\ cpc \in {"stream", "done"} => pos = Length
    /\ cpc = "done" => sent = Len(chunks) \/ remaining = 0

StreamsIInv ==
    /\ StreamsTypeOK /\ DataInv /\ PlaceInv /\ OutInv
    /\ PassingInv /\ CountInv /\ EndsInv /\ MovedInv /\ ReportsInv
    /\ FileInv /\ SlotsInv /\ SentInv

-----------------------------------------------------------------------------
(* Streams: bytes, and the least of a few numbers.                         *)

LEMMA BytesAre ==
    ASSUME NEW x \in Nat, NEW y \in Nat, x <= y
    PROVE  /\ Bytes(x, y) \in Seq(Nat) /\ Len(Bytes(x, y)) = y - x
           /\ \A i \in 1 .. y - x : Bytes(x, y)[i] = x + i
<1>1. y - x \in Nat /\ \A i \in 1 .. y - x : x + i \in Nat
  OBVIOUS
<1>2. Bytes(x, y) \in [1 .. y - x -> Nat]
  BY <1>1 DEF Bytes
<1>3. Bytes(x, y) \in Seq(Nat)
  BY <1>1, <1>2, SeqDef
<1>4. Len(Bytes(x, y)) = y - x
  BY <1>1, <1>2, <1>3, LenProperties
<1>5. \A i \in 1 .. y - x : Bytes(x, y)[i] = x + i
  BY DEF Bytes
<1>6. QED
  BY <1>3, <1>4, <1>5

LEMMA BytesOfNothing ==
    ASSUME NEW x \in Nat
    PROVE  Bytes(x, x) = <<>>
<1>1. x - x = 0 /\ Bytes(x, x) \in Seq(Nat) /\ Len(Bytes(x, x)) = x - x
  BY BytesAre
<1>2. QED
  BY <1>1, EmptySeq

LEMMA PieceIsBytes ==
    ASSUME NEW n \in Nat
    PROVE  /\ Piece(n) = Bytes(0, n)
           /\ Piece(n) \in Seq(Nat) /\ Len(Piece(n)) = n /\ \A i \in 1 .. n : Piece(n)[i] = i
<1>1. /\ Bytes(0, n) \in Seq(Nat) /\ Len(Bytes(0, n)) = n - 0
      /\ \A i \in 1 .. n - 0 : Bytes(0, n)[i] = 0 + i
  <2>1. 0 \in Nat /\ 0 <= n
    OBVIOUS
  <2>2. QED
    BY <2>1, BytesAre
<1>2. n - 0 = n /\ \A i \in 1 .. n : 0 + i = i
  OBVIOUS
<1>3. Piece(n) = Bytes(0, n)
  BY <1>2 DEF Piece, Bytes
<1>4. QED
  BY <1>1, <1>2, <1>3

\* Bytes follow on each other.
LEMMA BytesJoin ==
    ASSUME NEW x \in Nat, NEW y \in Nat, NEW z \in Nat, x <= y, y <= z
    PROVE  Bytes(x, y) \o Bytes(y, z) = Bytes(x, z)
<1>1. /\ Bytes(x, y) \in Seq(Nat) /\ Len(Bytes(x, y)) = y - x
      /\ \A i \in 1 .. y - x : Bytes(x, y)[i] = x + i
  BY BytesAre
<1>2. /\ Bytes(y, z) \in Seq(Nat) /\ Len(Bytes(y, z)) = z - y
      /\ \A i \in 1 .. z - y : Bytes(y, z)[i] = y + i
  BY BytesAre
<1>3. /\ Bytes(x, z) \in Seq(Nat) /\ Len(Bytes(x, z)) = z - x
      /\ \A i \in 1 .. z - x : Bytes(x, z)[i] = x + i
  BY BytesAre
<1> DEFINE s == Bytes(x, y)
           t == Bytes(y, z)
<1> HIDE DEF s, t
<1>4. /\ s \o t \in Seq(Nat) /\ Len(s \o t) = Len(s) + Len(t)
      /\ \A i \in 1 .. Len(s) + Len(t) :
            (s \o t)[i] = IF i <= Len(s) THEN s[i] ELSE t[i - Len(s)]
  BY <1>1, <1>2, ConcatProperties DEF s, t
<1>5. Len(s \o t) = z - x
  BY <1>1, <1>2, <1>4 DEF s, t
<1>6. ASSUME NEW i \in 1 .. z - x PROVE (s \o t)[i] = x + i
  <2>1. i \in 1 .. Len(s) + Len(t) /\ Len(s) = y - x
    BY <1>1, <1>2 DEF s, t
  <2>2. CASE i <= y - x
    BY <2>1, <2>2, <1>1, <1>4 DEF s
  <2>3. CASE i > y - x
    BY <2>1, <2>3, <1>2, <1>4 DEF t
  <2>4. i <= y - x \/ i > y - x
    OBVIOUS
  <2>5. QED
    BY <2>2, <2>3, <2>4
<1>7. \A i \in 1 .. Len(s \o t) : (s \o t)[i] = Bytes(x, z)[i]
  BY <1>3, <1>5, <1>6
<1> HIDE DEF Bytes
<1>8. s \o t = Bytes(x, z)
  BY <1>3, <1>4, <1>5, <1>7, SeqEqual
<1>9. QED
  BY <1>8 DEF s, t

\* What is cut out of bytes is bytes.
LEMMA BytesCut ==
    ASSUME NEW x \in Nat, NEW y \in Nat, NEW m \in Nat, NEW n \in Nat,
           x <= y, m <= n, n <= y - x
    PROVE  SubSeq(Bytes(x, y), m + 1, n) = Bytes(x + m, x + n)
<1>1. /\ Bytes(x, y) \in Seq(Nat) /\ Len(Bytes(x, y)) = y - x
      /\ \A i \in 1 .. y - x : Bytes(x, y)[i] = x + i
  BY BytesAre
<1>2. /\ Bytes(x + m, x + n) \in Seq(Nat) /\ Len(Bytes(x + m, x + n)) = n - m
      /\ \A i \in 1 .. n - m : Bytes(x + m, x + n)[i] = x + m + i
  <2>1. x + m \in Nat /\ x + n \in Nat /\ x + m <= x + n /\ (x + n) - (x + m) = n - m
    OBVIOUS
  <2>2. QED
    BY <2>1, BytesAre
<1> DEFINE s == Bytes(x, y)
           c == SubSeq(s, m + 1, n)
<1>3. \A i \in m + 1 .. n : s[i] \in Nat
  BY <1>1
<1> HIDE DEF s
<1>4. /\ c \in Seq(Nat) /\ Len(c) = IF m + 1 <= n THEN n - (m + 1) + 1 ELSE 0
      /\ \A i \in 1 .. n - (m + 1) + 1 : c[i] = s[(m + 1) + i - 1]
  BY <1>3, SubSeqProperties
<1> HIDE DEF c
<1>5. Len(c) = n - m
  BY <1>4
<1>6. ASSUME NEW i \in 1 .. n - m PROVE c[i] = x + m + i
  <2>1. c[i] = s[(m + 1) + i - 1] /\ (m + 1) + i - 1 = m + i
    BY <1>4
  <2>2. s[m + i] = x + (m + i)
    BY <1>1 DEF s
  <2>3. QED
    BY <2>1, <2>2
<1>7. c = Bytes(x + m, x + n)
  BY <1>2, <1>4, <1>5, <1>6, SeqEqual
<1>8. QED
  BY <1>7 DEF c, s

LEMMA BytesWithin ==
    ASSUME NEW y \in Nat, NEW m \in Nat, NEW n \in Nat, m <= n, n <= y
    PROVE  SubSeq(Bytes(0, y), m + 1, n) = Bytes(m, n)
<1>1. 0 \in Nat /\ 0 <= y /\ n <= y - 0 /\ 0 + m = m /\ 0 + n = n
  OBVIOUS
<1>2. \A x \in Nat : x <= y /\ n <= y - x => SubSeq(Bytes(x, y), m + 1, n) = Bytes(x + m, x + n)
  BY BytesCut
<1>3. SubSeq(Bytes(0, y), m + 1, n) = Bytes(0 + m, 0 + n)
  BY <1>1, <1>2
<1>4. QED
  BY <1>1, <1>3

\* What a part of bytes is cut into.
LEMMA BytesSplit ==
    ASSUME NEW x \in Nat, NEW y \in Nat, NEW n \in Nat, x <= y, n <= y - x
    PROVE  /\ SubSeq(Bytes(x, y), 1, n) = Bytes(x, x + n)
           /\ SubSeq(Bytes(x, y), n + 1, Len(Bytes(x, y))) = Bytes(x + n, y)
<1>1. SubSeq(Bytes(x, y), 0 + 1, n) = Bytes(x + 0, x + n)
  <2>1. 0 \in Nat /\ 0 <= n
    OBVIOUS
  <2>2. QED
    BY <2>1, BytesCut
<1>2. SubSeq(Bytes(x, y), n + 1, y - x) = Bytes(x + n, x + (y - x))
  <2>1. y - x \in Nat /\ y - x <= y - x
    OBVIOUS
  <2>2. QED
    BY <2>1, BytesCut
<1>3. Len(Bytes(x, y)) = y - x /\ x + (y - x) = y /\ 0 + 1 = 1 /\ x + 0 = x
  BY BytesAre
<1>4. QED
  BY <1>1, <1>2, <1>3

LEMMA MinOfTwo ==
    ASSUME NEW a \in Nat, NEW b \in Nat
    PROVE  Min({a, b}) = IF a <= b THEN a ELSE b
<1>1. Min({a, b}) \in {a, b} /\ \A y \in {a, b} : Min({a, b}) <= y
  BY MinOfNats
<1>2. QED
  BY <1>1

LEMMA MaxOfTwo ==
    ASSUME NEW a \in Nat, NEW b \in Nat
    PROVE  Max({a, b}) = IF a <= b THEN b ELSE a
<1>1. \E x \in {a, b} : \A y \in {a, b} : x >= y
  OBVIOUS
<1>2. Max({a, b}) \in {a, b} /\ \A y \in {a, b} : Max({a, b}) >= y
  BY <1>1, Zenon DEF Max
<1>3. QED
  BY <1>2

\* How many bytes one call moves.
LEMMA MovesWithin ==
    ASSUME NEW left \in Nat, NEW there \in Nat, NEW room \in Nat,
           NEW n \in Moves(left, there, room)
    PROVE  n \in Nat \ {0} /\ n <= CHUNK /\ n <= left /\ n <= there /\ n <= room
<1>1. CHUNK \in Nat
  BY StreamsAssumption
<1> DEFINE m == Min({CHUNK, left, there, room})
<1>2. m \in Nat /\ m <= CHUNK /\ m <= left /\ m <= there /\ m <= room
  BY <1>1, MinOfNats
<1>3. n \in 1 .. m
  BY DEF Moves
<1> HIDE DEF m
<1>4. n \in Nat \ {0} /\ n <= m
  BY <1>2, <1>3
<1>5. QED
  BY <1>1, <1>2, <1>4

-----------------------------------------------------------------------------
(* Boxes, and what every step starts from.                                 *)

LEMMA BoxHolds ==
    ASSUME NEW data \in Seq(Nat)
    PROVE  Box(data) \in Boxes /\ Current(Box(data)) = data
<1>1. Len(data) \in Nat /\ Zeros(Len(data)) \in [1 .. Len(data) -> Nat]
  BY DEF Zeros
<1>2. Zeros(Len(data)) \in Seq(Nat)
  BY <1>1, SeqDef
<1>3. QED
  BY <1>2 DEF Box, Boxes, Current

\* A bounce copies the active buffer and switches to the copy.
LEMMA BounceKeeps ==
    ASSUME NEW box \in Boxes
    PROVE  /\ bounce_once(box) \in Boxes /\ Current(bounce_once(box)) = Current(box)
           /\ Current(box) \in Seq(Nat)
BY DEF Boxes, bounce_once, Current

\* Every step, with the routes it belongs to.
LEMMA StepOfARoute ==
    ASSUME StreamsTypeOK, PlaceInv, StreamsNext
    PROVE  \/ route # "ingest" /\ (WriterHop \/ Write)
           \/ Forked /\ (WriterCloses \/ Receive \/ ReceiveEnds \/ ReaderFalls \/ ReaderEnds)
           \/ Forked /\ (CallerForked \/ CallerJoinsWriter \/ CallerGets \/ CallerJoinsReader)
           \/ Forked /\ (WriterDies \/ ReaderDies)
           \/ route = "tracked" /\ WriterPuts
           \/ Spliced /\ (FeederCloses \/ Drain)
           \/ Spliced /\ (Splice \/ SpliceEnds \/ SpliceRaises)
           \/ Spliced /\ (MoverJoinsWriter \/ MoverJoinsReader)
           \/ route = "stealth" /\ MoverJoinsSampler
           \/ SamplerEnds
           \/ route = "ingest" /\ (PackChunk \/ PackEmpty \/ PackEnds)
           \/ route = "ingest" /\ (stream_chunk \/ StreamEnds)
<1>1. route \in {"handoff", "tracked", "splice", "stealth", "ingest"}
  BY DEF StreamsTypeOK
<1>2. cpc = "splice" => Spliced
  BY <1>1 DEF PlaceInv, Forked, Spliced
<1>3. cpc \in {"pack", "stream"} => route = "ingest"
  BY <1>1 DEF PlaceInv, Forked, Spliced
<1>4. CASE Writer
  BY <1>4 DEF Writer, HandoffSender, TrackedSender, feed, feed_from_file, Forked, Spliced
<1>5. CASE Reader
  BY <1>5 DEF Reader, HandoffReceiver, TrackedReceiver, drain_and_keep, drain_and_discard,
              Forked, Spliced
<1>6. CASE Caller
  BY <1>6 DEF Caller, share_via_handoff, share_via_handoff_tracked, splice_move,
              measure_stealth_flow_from_file, Forked, Spliced
<1>7. CASE SamplerEnds
  BY <1>7
<1>8. CASE SpliceRaises
  BY <1>2, <1>8 DEF SpliceRaises
<1>9. CASE WriterDies \/ ReaderDies
  BY <1>9 DEF WriterDies, ReaderDies
<1>10. CASE from_file
  <2>1. route = "ingest"
    BY <1>3, <1>10 DEF from_file, PackChunk, PackEmpty, PackEnds
  <2>2. QED
    BY <2>1, <1>10 DEF from_file
<1>11. CASE stream_to
  <2>1. route = "ingest"
    BY <1>3, <1>11 DEF stream_to, stream_chunk, StreamEnds
  <2>2. QED
    BY <2>1, <1>11 DEF stream_to
<1>12. QED
  BY <1>4, <1>5, <1>6, <1>7, <1>8, <1>9, <1>10, <1>11 DEF StreamsNext

\* The numbers of a state.
LEMMA NumbersOf ==
    ASSUME StreamsIInv
    PROVE  /\ expected \in Nat /\ pos \in Nat /\ pos <= Length /\ Length \in Nat
           /\ Current(out) \in Seq(Nat) /\ Len(Current(out)) \in Nat
           /\ Len(src) \in Nat /\ Len(src) <= Capacity /\ Capacity - Len(src) \in Nat
           /\ Len(dst) \in Nat /\ Len(dst) <= Capacity /\ Capacity - Len(dst) \in Nat
           /\ remaining \in Nat /\ remaining <= expected
           /\ wpc \in {"fall", "write"} \/ ~Forked =>
                  /\ Current(out) = Bytes(0, Length) /\ Len(Current(out)) = Length
                  /\ Left = Length - pos /\ Left \in Nat
<1> USE DEF StreamsIInv
<1>1. expected \in Nat /\ remaining \in Nat /\ remaining <= expected
  <2>1. expected \in Sizes /\ remaining \in 0 .. expected
    BY DEF StreamsTypeOK
  <2>2. Sizes \subseteq Nat
    BY StreamsAssumption
  <2>3. QED
    BY <2>1, <2>2
<1>2. pos \in Nat /\ pos <= Length
  BY DEF DataInv, OutInv
<1>3. Current(out) \in Seq(Nat) /\ Len(Current(out)) \in Nat
  <2>1. out \in Boxes
    BY DEF DataInv
  <2>2. QED
    BY <2>1, BounceKeeps, LenProperties
<1>4. Length \in Nat
  BY <1>1, <1>3 DEF Length
<1>5. /\ Len(src) \in Nat /\ Len(src) <= Capacity /\ Capacity - Len(src) \in Nat
      /\ Len(dst) \in Nat /\ Len(dst) <= Capacity /\ Capacity - Len(dst) \in Nat
  <2>1. Len(src) <= Capacity /\ Len(dst) <= Capacity
    BY DEF StreamsTypeOK
  <2>2. src \in Seq(Nat) /\ dst \in Seq(Nat)
    BY DEF DataInv
  <2>3. Capacity \in Nat /\ Len(src) \in Nat /\ Len(dst) \in Nat
    BY <2>2, StreamsAssumption
  <2>4. QED
    BY <2>1, <2>3
<1>6. ASSUME wpc \in {"fall", "write"} \/ ~Forked
      PROVE  /\ Current(out) = Bytes(0, Length) /\ Len(Current(out)) = Length
             /\ Left = Length - pos /\ Left \in Nat
  <2>1. Current(out) = Piece(Length)
    BY <1>6 DEF OutInv
  <2>2. Current(out) = Bytes(0, Length) /\ Len(Current(out)) = Length
    BY <2>1, <1>4, PieceIsBytes
  <2>3. QED
    BY <2>2, <1>2, <1>4 DEF Left
<1>7. QED
  BY <1>1, <1>2, <1>3, <1>4, <1>5, <1>6

\* What one write, or the chunk that is packed, takes of the piece.
LEMMA NextBytes ==
    ASSUME NEW n \in Nat, StreamsIInv, wpc \in {"fall", "write"} \/ ~Forked, n <= Left
    PROVE  /\ SubSeq(Current(out), pos + 1, pos + n) = Bytes(pos, pos + n)
           /\ pos + n \in Nat /\ pos + n <= Length
<1>1. /\ pos \in Nat /\ Length \in Nat /\ Current(out) = Bytes(0, Length)
      /\ Left = Length - pos
  BY NumbersOf
<1>2. pos + n \in Nat /\ pos <= pos + n /\ pos + n <= Length
  BY <1>1
<1>3. SubSeq(Bytes(0, Length), pos + 1, pos + n) = Bytes(pos, pos + n)
  BY <1>1, <1>2, BytesWithin
<1>4. QED
  BY <1>1, <1>2, <1>3

-----------------------------------------------------------------------------
(* The bytes on their way.                                                 *)

\* Where the bytes of a piece are, in numbers.
LEMMA PassingIn ==
    ASSUME NEW p \in Nat, NEW rcv, NEW mid, NEW wire, Passing(rcv, mid, wire, p)
    PROVE  /\ rcv \in Seq(Nat) /\ mid \in Seq(Nat) /\ wire \in Seq(Nat)
           /\ rcv \o mid \o wire = Bytes(0, p)
           /\ Len(rcv) \in Nat /\ Len(mid) \in Nat /\ Len(wire) \in Nat
           /\ Len(rcv) + Len(mid) + Len(wire) = p
           /\ rcv = Bytes(0, Len(rcv))
           /\ mid = Bytes(Len(rcv), Len(rcv) + Len(mid))
           /\ wire = Bytes(Len(rcv) + Len(mid), p)
<1>1. PICK x \in 0 .. p : \E y \in x .. p :
          rcv = Bytes(0, x) /\ mid = Bytes(x, y) /\ wire = Bytes(y, p)
  BY DEF Passing
<1>2. PICK y \in x .. p : rcv = Bytes(0, x) /\ mid = Bytes(x, y) /\ wire = Bytes(y, p)
  BY <1>1
<1>3. 0 \in Nat /\ x \in Nat /\ y \in Nat /\ 0 <= x /\ x <= y /\ y <= p
  OBVIOUS
<1>4. rcv \in Seq(Nat) /\ Len(rcv) = x - 0
  BY <1>2, <1>3, BytesAre
<1>5. mid \in Seq(Nat) /\ Len(mid) = y - x
  BY <1>2, <1>3, BytesAre
<1>6. wire \in Seq(Nat) /\ Len(wire) = p - y
  BY <1>2, <1>3, BytesAre
<1>7. Len(rcv) = x /\ Len(rcv) + Len(mid) = y
  BY <1>3, <1>4, <1>5
<1>8. rcv \o mid = Bytes(0, y)
  BY <1>2, <1>3, BytesJoin
<1>9. Bytes(0, y) \o Bytes(y, p) = Bytes(0, p)
  <2>1. 0 \in Nat /\ 0 <= y
    BY <1>3
  <2>2. QED
    BY <2>1, <1>3, BytesJoin
<1>10. rcv \o mid \o wire = Bytes(0, p)
  BY <1>2, <1>8, <1>9
<1>11. /\ Len(rcv) \in Nat /\ Len(mid) \in Nat /\ Len(wire) \in Nat
       /\ Len(rcv) + Len(mid) + Len(wire) = p
  BY <1>3, <1>4, <1>5, <1>6
<1>12. QED
  BY <1>2, <1>4, <1>5, <1>6, <1>7, <1>10, <1>11

\* And the converse: counts give the places.
LEMMA PassingBy ==
    ASSUME NEW p \in Nat, NEW x \in Nat, NEW y \in Nat, x <= y, y <= p
    PROVE  Passing(Bytes(0, x), Bytes(x, y), Bytes(y, p), p)
<1>1. x \in 0 .. p /\ y \in x .. p
  OBVIOUS
<1>2. QED
  BY <1>1 DEF Passing

\* A write, a read from the first or from the second pipe, and a splice.
LEMMA PassingMoves ==
    ASSUME NEW p \in Nat, NEW rcv, NEW mid, NEW wire, NEW n \in Nat,
           Passing(rcv, mid, wire, p)
    PROVE  /\ Passing(rcv, mid, wire \o Bytes(p, p + n), p + n)
           /\ mid = <<>> /\ n <= Len(wire) =>
                  Passing(rcv \o SubSeq(wire, 1, n), mid, SubSeq(wire, n + 1, Len(wire)), p)
           /\ n <= Len(mid) =>
                  Passing(rcv \o SubSeq(mid, 1, n), SubSeq(mid, n + 1, Len(mid)), wire, p)
           /\ n <= Len(wire) =>
                  Passing(rcv, mid \o SubSeq(wire, 1, n), SubSeq(wire, n + 1, Len(wire)), p)
<1>1. PICK x \in Nat, y \in Nat : x = Len(rcv) /\ y = Len(rcv) + Len(mid)
  BY PassingIn
<1>2. /\ x <= y /\ y <= p /\ Len(mid) = y - x /\ Len(wire) = p - y
      /\ rcv = Bytes(0, x) /\ mid = Bytes(x, y) /\ wire = Bytes(y, p)
      /\ 0 \in Nat /\ 0 <= x
  BY <1>1, PassingIn
<1>3. Passing(rcv, mid, wire \o Bytes(p, p + n), p + n)
  <2>1. p + n \in Nat /\ p <= p + n /\ y <= p + n
    BY <1>2
  <2>2. wire \o Bytes(p, p + n) = Bytes(y, p + n)
    BY <1>2, <2>1, BytesJoin
  <2>3. QED
    BY <1>2, <2>1, <2>2, PassingBy
<1>4. ASSUME n <= Len(wire)
      PROVE  Passing(rcv, mid \o SubSeq(wire, 1, n), SubSeq(wire, n + 1, Len(wire)), p)
  <2>1. /\ mid \o SubSeq(wire, 1, n) = Bytes(x, y + n)
        /\ SubSeq(wire, n + 1, Len(wire)) = Bytes(y + n, p)
    <3>1. y + n \in Nat /\ y <= y + n /\ n <= p - y
      BY <1>2, <1>4
    <3>2. /\ SubSeq(Bytes(y, p), 1, n) = Bytes(y, y + n)
          /\ SubSeq(Bytes(y, p), n + 1, Len(Bytes(y, p))) = Bytes(y + n, p)
      BY <1>2, <3>1, BytesSplit
    <3>3. Bytes(x, y) \o Bytes(y, y + n) = Bytes(x, y + n)
      BY <1>2, <3>1, BytesJoin
    <3>4. QED
      BY <1>2, <3>2, <3>3
  <2>2. y + n \in Nat /\ x <= y + n /\ y + n <= p
    BY <1>2, <1>4
  <2>3. QED
    BY <1>2, <2>1, <2>2, PassingBy
<1>5. ASSUME n <= Len(mid)
      PROVE  Passing(rcv \o SubSeq(mid, 1, n), SubSeq(mid, n + 1, Len(mid)), wire, p)
  <2>1. /\ rcv \o SubSeq(mid, 1, n) = Bytes(0, x + n)
        /\ SubSeq(mid, n + 1, Len(mid)) = Bytes(x + n, y)
    <3>1. x + n \in Nat /\ x <= x + n /\ n <= y - x
      BY <1>2, <1>5
    <3>2. /\ SubSeq(Bytes(x, y), 1, n) = Bytes(x, x + n)
          /\ SubSeq(Bytes(x, y), n + 1, Len(Bytes(x, y))) = Bytes(x + n, y)
      BY <1>2, <3>1, BytesSplit
    <3>3. Bytes(0, x) \o Bytes(x, x + n) = Bytes(0, x + n)
      BY <1>2, <3>1, BytesJoin
    <3>4. QED
      BY <1>2, <3>2, <3>3
  <2>2. x + n \in Nat /\ x + n <= y
    BY <1>2, <1>5
  <2>3. QED
    BY <1>2, <2>1, <2>2, PassingBy
<1>6. ASSUME mid = <<>>, n <= Len(wire)
      PROVE  Passing(rcv \o SubSeq(wire, 1, n), mid, SubSeq(wire, n + 1, Len(wire)), p)
  <2>1. Len(mid) = 0
    BY <1>6, EmptySeq
  <2>2. y = x
    BY <2>1, <1>2
  <2>3. /\ rcv \o SubSeq(wire, 1, n) = Bytes(0, x + n)
        /\ SubSeq(wire, n + 1, Len(wire)) = Bytes(x + n, p)
    <3>1. x + n \in Nat /\ x <= x + n /\ n <= p - x /\ x <= p
      BY <1>2, <1>6, <2>2
    <3>2. /\ SubSeq(Bytes(x, p), 1, n) = Bytes(x, x + n)
          /\ SubSeq(Bytes(x, p), n + 1, Len(Bytes(x, p))) = Bytes(x + n, p)
      BY <1>2, <3>1, BytesSplit
    <3>3. Bytes(0, x) \o Bytes(x, x + n) = Bytes(0, x + n)
      BY <1>2, <3>1, BytesJoin
    <3>4. QED
      BY <1>2, <2>2, <3>2, <3>3
  <2>4. x + n \in Nat /\ x + n <= x + n /\ x + n <= p
    BY <1>2, <1>6, <2>2
  <2>5. mid = Bytes(x + n, x + n)
    BY <1>6, <2>4, BytesOfNothing
  <2>6. Passing(Bytes(0, x + n), Bytes(x + n, x + n), Bytes(x + n, p), p)
    BY <2>4, PassingBy
  <2>7. QED
    BY <2>3, <2>5, <2>6
<1>7. QED
  BY <1>3, <1>4, <1>5, <1>6

-----------------------------------------------------------------------------
(* The steps and the bytes on their way.                                   *)

\* How many bytes a read takes of a pipe that is not empty.
LEMMA ReadWithin ==
    ASSUME NEW s \in Seq(Nat), s # <<>>
    PROVE  Min({CHUNK, Len(s)}) \in Nat \ {0} /\ Min({CHUNK, Len(s)}) <= Len(s)
<1>1. Len(s) \in Nat \ {0} /\ CHUNK \in Nat \ {0}
  BY EmptySeq, StreamsAssumption
<1>2. Min({CHUNK, Len(s)}) = IF CHUNK <= Len(s) THEN CHUNK ELSE Len(s)
  BY <1>1, MinOfTwo
<1>3. QED
  BY <1>1, <1>2

\* What is written goes to the end of the pipe, and all that is read is kept.
LEMMA PassingStep ==
    ASSUME StreamsIInv, StreamsNext
    PROVE  PassingInv' /\ pos' \in Nat
<1> USE DEF StreamsIInv
<1>1. pos \in Nat /\ src \in Seq(Nat) /\ dst \in Seq(Nat)
  BY DEF DataInv
<1>2. route # "ingest" => Passing(received, dst, src, pos)
  BY DEF PassingInv
<1>3. CASE route # "ingest" /\ Write
  <2>1. /\ wpc = "write" /\ route' = route /\ received' = received /\ dst' = dst
    BY <1>3 DEF Write, setup, reader
  <2>2. /\ Left \in Nat /\ Capacity - Len(src) \in Nat
    BY <2>1, NumbersOf
  <2>3. PICK n \in Moves(Left, Left, Capacity - Len(src)) :
            /\ src' = src \o SubSeq(Current(out), pos + 1, pos + n)
            /\ pos' = pos + n
    BY <1>3 DEF Write
  <2>4. n \in Nat /\ n <= Left
    BY <2>2, MovesWithin
  <2>5. SubSeq(Current(out), pos + 1, pos + n) = Bytes(pos, pos + n)
    BY <2>1, <2>4, NextBytes
  <2>6. Passing(received, dst, src \o Bytes(pos, pos + n), pos + n)
    BY <1>1, <1>2, <1>3, <2>4, PassingMoves
  <2>7. Passing(received', dst', src', pos')
    BY <2>1, <2>3, <2>5, <2>6
  <2>8. QED
    BY <1>1, <2>3, <2>4, <2>7 DEF PassingInv
<1>4. CASE Forked /\ Receive
  <2>1. /\ src # <<>> /\ dst = <<>> /\ dst' = dst /\ pos' = pos /\ route # "ingest"
        /\ received' = received \o SubSeq(src, 1, Min({CHUNK, Len(src)}))
        /\ src' = SubSeq(src, Min({CHUNK, Len(src)}) + 1, Len(src))
    BY <1>4 DEF Receive, PlaceInv, Forked, writer
  <2>2. PICK n \in Nat : n = Min({CHUNK, Len(src)}) /\ n <= Len(src)
    BY <1>1, <2>1, ReadWithin
  <2>3. Passing(received \o SubSeq(src, 1, n), dst, SubSeq(src, n + 1, Len(src)), pos)
    BY <1>1, <1>2, <2>1, <2>2, PassingMoves
  <2>4. Passing(received', dst', src', pos')
    BY <2>1, <2>2, <2>3
  <2>5. QED
    BY <1>1, <2>1, <2>4 DEF PassingInv
<1>5. CASE Spliced /\ Drain /\ dst # <<>>
  <2>1. /\ src' = src /\ pos' = pos /\ route # "ingest"
        /\ received' = received \o SubSeq(dst, 1, Min({CHUNK, Len(dst)}))
        /\ dst' = SubSeq(dst, Min({CHUNK, Len(dst)}) + 1, Len(dst))
    BY <1>5 DEF Drain, Spliced, writer
  <2>2. PICK n \in Nat : n = Min({CHUNK, Len(dst)}) /\ n <= Len(dst)
    BY <1>1, <1>5, ReadWithin
  <2>3. Passing(received \o SubSeq(dst, 1, n), SubSeq(dst, n + 1, Len(dst)), src, pos)
    BY <1>1, <1>2, <2>1, <2>2, PassingMoves
  <2>4. Passing(received', dst', src', pos')
    BY <2>1, <2>2, <2>3
  <2>5. QED
    BY <1>1, <2>1, <2>4 DEF PassingInv
<1>6. CASE Spliced /\ Splice
  <2>1. received' = received /\ pos' = pos /\ route # "ingest"
    BY <1>6 DEF Splice, Spliced, writer, reader
  <2>2. PICK n \in Moves(remaining, Len(src), Capacity - Len(dst)) :
            /\ dst' = dst \o SubSeq(src, 1, n)
            /\ src' = SubSeq(src, n + 1, Len(src))
    BY <1>6 DEF Splice
  <2>3. remaining \in Nat /\ Len(src) \in Nat /\ Capacity - Len(dst) \in Nat
    BY NumbersOf
  <2>4. n \in Nat /\ n <= Len(src)
    BY <2>3, MovesWithin
  <2>5. Passing(received, dst \o SubSeq(src, 1, n), SubSeq(src, n + 1, Len(src)), pos)
    BY <1>1, <1>2, <2>1, <2>4, PassingMoves
  <2>6. Passing(received', dst', src', pos')
    BY <2>1, <2>2, <2>5
  <2>7. QED
    BY <1>1, <2>1, <2>6 DEF PassingInv
<1>7. CASE UNCHANGED <<route, received, dst, src, pos>>
  BY <1>1, <1>2, <1>7 DEF PassingInv
<1>8. CASE route = "ingest" /\ (PackChunk \/ PackEmpty \/ PackEnds \/ stream_chunk \/ StreamEnds)
  <2>1. route' = "ingest"
    BY <1>8 DEF PackChunk, PackEmpty, PackEnds, stream_chunk, StreamEnds, Kept
  <2>2. pos' = pos \/ PackChunk
    BY <1>8 DEF PackEmpty, PackEnds, stream_chunk, StreamEnds
  <2>3. ASSUME PackChunk PROVE pos' \in Nat
    <3>1. PICK n : n = Min({CHUNK, BLOCK - (pos % BLOCK), Left}) /\ pos' = pos + n
      BY <2>3 DEF PackChunk
    <3>2. n \in Nat
      <4>1. BLOCK \in Nat \ {0} /\ CHUNK \in Nat
        BY StreamsAssumption
      <4>2. pos % BLOCK \in 0 .. BLOCK - 1
        BY <1>1, <4>1
      <4>3. Left \in Nat
        BY <1>8, NumbersOf DEF Forked
      <4>4. {CHUNK, BLOCK - (pos % BLOCK), Left} \in SUBSET Nat
        BY <4>1, <4>2, <4>3
      <4>5. QED
        BY <3>1, <4>4, MinOfNats
    <3>3. QED
      BY <1>1, <3>1, <3>2
  <2>4. QED
    BY <1>1, <2>1, <2>2, <2>3 DEF PassingInv
<1>9. CASE \/ WriterHop \/ WriterCloses \/ WriterPuts \/ FeederCloses \/ WriterDies \/ ReaderDies
            \/ ReceiveEnds \/ ReaderFalls \/ ReaderEnds \/ (Drain /\ dst = <<>>)
  BY <1>7, <1>9 DEF WriterHop, WriterCloses, WriterPuts, FeederCloses, WriterDies, ReaderDies,
                   ReceiveEnds, ReaderFalls, ReaderEnds, Drain, setup, writer, reader
<1>10. CASE \/ CallerForked \/ CallerJoinsWriter \/ CallerGets \/ CallerJoinsReader
             \/ SpliceEnds \/ SpliceRaises \/ MoverJoinsWriter \/ MoverJoinsReader
             \/ MoverJoinsSampler \/ SamplerEnds
  BY <1>7, <1>10 DEF CallerForked, CallerJoinsWriter, CallerGets, CallerJoinsReader, SpliceEnds,
                    SpliceRaises, MoverJoinsWriter, MoverJoinsReader, MoverJoinsSampler,
                    SamplerEnds, setup, writer, reader
<1> HIDE DEF StreamsIInv
<1>11. StreamsTypeOK /\ PlaceInv
  BY DEF StreamsIInv
<1>12. QED
  BY <1>3, <1>4, <1>5, <1>6, <1>8, <1>9, <1>10, <1>11, StepOfARoute, Zenon

-----------------------------------------------------------------------------
(* A chunk gets its slot.                                                  *)

APool  == [size : Nat, cursor : Nat]
AChunk == [plain : Seq(Nat), from : Nat, pool : Nat, offset : Nat, length : Nat]

\* The new slot is taken from the room the pool has left, or it is the first one of
\* a pool of its own.
LEMMA SlotOfANewChunk ==
    ASSUME NEW plain \in Seq(Nat), NEW length \in Lengths,
           StreamsIInv, new_chunk(plain, length)
    PROVE  /\ \E c \in AChunk : /\ chunks' = Append(chunks, c)
                                /\ c.plain = plain /\ c.from = pos
           /\ chunks' \in Seq(AChunk) /\ pools' \in Seq(APool)
           /\ \A i \in DOMAIN pools' : pools'[i].cursor <= pools'[i].size
           /\ SlotsInv'
<1> DEFINE fits == LastPool > 0 /\ Fits(pools[LastPool], length)
           at   == IF fits THEN LastPool ELSE LastPool + 1
           pool == IF fits THEN pools[LastPool] ELSE NewPool(length)
           c    == [plain |-> plain, from |-> pos, pool |-> at,
                    offset |-> pool.cursor, length |-> length]
<1>1. /\ pools' = [i \in 1 .. at |-> IF i = at THEN try_allocate(pool, length) ELSE pools[i]]
      /\ chunks' = Append(chunks, c)
  BY DEF new_chunk
<1>2. /\ pools \in Seq(APool) /\ chunks \in Seq(AChunk) /\ pos \in Nat
      /\ \A i \in DOMAIN pools : pools[i].cursor <= pools[i].size
  BY DEF StreamsIInv, DataInv, StreamsTypeOK, APool, AChunk
<1>3. length \in Nat /\ POOL \in Nat
  BY StreamsAssumption
<1>4. LastPool \in Nat /\ LastPool = Len(pools) /\ \A i \in 1 .. LastPool : pools[i] \in APool
  BY <1>2 DEF LastPool
<1>5. at \in Nat \ {0} /\ LastPool <= at /\ at <= LastPool + 1
  BY <1>4
<1>6. pool \in APool /\ pool.cursor + length <= pool.size
  <2>1. CASE fits
    <3>1. pools[LastPool] \in APool /\ pools[LastPool].cursor + length <= pools[LastPool].size
      BY <2>1, <1>4 DEF Fits
    <3>2. QED
      BY <2>1, <3>1
  <2>2. CASE ~fits
    <3>1. Max({POOL, length}) \in Nat /\ length <= Max({POOL, length})
      BY <1>3, MaxOfTwo
    <3>2. NewPool(length) \in APool /\ NewPool(length).cursor + length <= NewPool(length).size
      BY <1>3, <3>1 DEF NewPool, APool
    <3>3. QED
      BY <2>2, <3>2
  <2>3. QED
    BY <2>1, <2>2
<1>7. fits => pool = pools[at] /\ at = LastPool
  OBVIOUS
<1>8. ~fits => at = LastPool + 1
  OBVIOUS
<1> HIDE DEF fits, at, pool
<1>9. /\ c \in AChunk /\ c.plain = plain /\ c.from = pos
      /\ c.pool = at /\ c.offset = pool.cursor /\ c.length = length
  BY <1>2, <1>3, <1>5, <1>6 DEF AChunk, APool
<1> HIDE DEF c
<1>10. /\ try_allocate(pool, length) \in APool
       /\ try_allocate(pool, length).cursor = pool.cursor + length
       /\ try_allocate(pool, length).size = pool.size
  BY <1>3, <1>6 DEF APool, try_allocate
<1>11. /\ pools' \in Seq(APool) /\ Len(pools') = at /\ DOMAIN pools' = 1 .. at
       /\ pools'[at] = try_allocate(pool, length)
       /\ \A i \in 1 .. at : i # at => pools'[i] = pools[i] /\ i \in 1 .. LastPool
  <2>1. ASSUME NEW i \in 1 .. at
        PROVE  /\ pools'[i] \in APool
               /\ i # at => pools'[i] = pools[i] /\ i \in 1 .. LastPool
               /\ i = at => pools'[i] = try_allocate(pool, length)
    <3>1. pools'[i] = IF i = at THEN try_allocate(pool, length) ELSE pools[i]
      BY <1>1
    <3>2. i # at => i \in 1 .. LastPool
      BY <1>4, <1>5
    <3>3. QED
      BY <3>1, <3>2, <1>4, <1>10
  <2>2. pools' \in [1 .. at -> APool]
    BY <1>1, <2>1
  <2>3. pools' \in Seq(APool)
    BY <2>2, <1>5, SeqDef
  <2>4. Len(pools') = at /\ DOMAIN pools' = 1 .. at
    BY <2>2, <2>3, <1>5, LenProperties
  <2>5. at \in 1 .. at
    BY <1>5
  <2>6. QED
    BY <2>1, <2>3, <2>4, <2>5
<1>12. \A i \in DOMAIN pools' : pools'[i].cursor <= pools'[i].size
  <2>1. ASSUME NEW i \in 1 .. at PROVE pools'[i].cursor <= pools'[i].size
    <3>1. CASE i = at
      BY <3>1, <1>6, <1>10, <1>11
    <3>2. CASE i # at
      <4>1. pools'[i] = pools[i] /\ i \in 1 .. LastPool
        BY <3>2, <1>11
      <4>2. i \in DOMAIN pools
        BY <4>1, <1>2, <1>4
      <4>3. QED
        BY <4>1, <4>2, <1>2
    <3>3. QED
      BY <3>1, <3>2
  <2>2. QED
    BY <2>1, <1>11
<1>13. /\ chunks' \in Seq(AChunk) /\ DOMAIN chunks' = 1 .. Len(chunks) + 1
       /\ Len(chunks) \in Nat /\ DOMAIN chunks = 1 .. Len(chunks)
       /\ \A i \in 1 .. Len(chunks) : chunks'[i] = chunks[i] /\ chunks[i] \in AChunk
       /\ chunks'[Len(chunks) + 1] = c
  BY <1>1, <1>2, <1>9, AppendProperties
<1>14. \A i \in 1 .. Len(chunks) :
          /\ chunks[i].pool \in 1 .. LastPool
          /\ chunks[i].offset + chunks[i].length <= pools[chunks[i].pool].cursor
          /\ \A j \in 1 .. i - 1 : chunks[j].pool = chunks[i].pool =>
                 chunks[j].offset + chunks[j].length <= chunks[i].offset
  <2>1. DOMAIN pools = 1 .. LastPool
    BY <1>2, <1>4
  <2>2. SlotsInv
    BY DEF StreamsIInv
  <2>3. QED
    BY <2>1, <2>2, <1>13 DEF SlotsInv
<1>15. ASSUME NEW i \in 1 .. Len(chunks) + 1
       PROVE  /\ chunks'[i].pool \in 1 .. at
              /\ chunks'[i].offset + chunks'[i].length <= pools'[chunks'[i].pool].cursor
              /\ \A j \in 1 .. i - 1 : chunks'[j].pool = chunks'[i].pool =>
                     chunks'[j].offset + chunks'[j].length <= chunks'[i].offset
  <2>1. CASE i = Len(chunks) + 1
    <3>1. /\ chunks'[i].pool = at /\ chunks'[i].offset = pool.cursor /\ chunks'[i].length = length
      BY <2>1, <1>9, <1>13
    <3>2. pools'[at].cursor = pool.cursor + length
      BY <1>10, <1>11
    <3>3. ASSUME NEW j \in 1 .. i - 1, chunks'[j].pool = at
          PROVE  chunks'[j].offset + chunks'[j].length <= pool.cursor
      <4>1. j \in 1 .. Len(chunks) /\ chunks'[j] = chunks[j]
        BY <2>1, <1>13
      <4>2. at \in 1 .. LastPool
        BY <3>3, <4>1, <1>14
      <4>3. fits
        BY <4>2, <1>4, <1>8
      <4>4. pool = pools[chunks[j].pool]
        BY <3>3, <4>1, <4>3, <1>7
      <4>5. QED
        BY <4>1, <4>4, <1>14
    <3>4. pool.cursor \in Nat /\ pool.cursor + length <= pool.cursor + length
      BY <1>6, <1>3 DEF APool
    <3>5. at \in 1 .. at
      BY <1>5
    <3>6. QED
      BY <3>1, <3>2, <3>3, <3>4, <3>5
  <2>2. CASE i \in 1 .. Len(chunks)
    <3>1. /\ chunks'[i] = chunks[i] /\ chunks[i] \in AChunk
          /\ \A j \in 1 .. i - 1 : chunks'[j] = chunks[j]
      BY <2>2, <1>13
    <3>2. chunks[i].pool \in 1 .. at
      BY <2>2, <1>14, <1>4, <1>5
    <3>3. pools[chunks[i].pool].cursor <= pools'[chunks[i].pool].cursor
      <4>1. chunks[i].pool \in 1 .. LastPool /\ pools[chunks[i].pool] \in APool
        BY <2>2, <1>14, <1>4
      <4>2. CASE chunks[i].pool # at
        <5>1. pools'[chunks[i].pool] = pools[chunks[i].pool]
          BY <4>2, <3>2, <1>11
        <5>2. QED
          BY <4>1, <5>1 DEF APool
      <4>3. CASE chunks[i].pool = at
        <5>1. fits
          BY <4>1, <4>3, <1>4, <1>8
        <5>2. pools'[at].cursor = pools[at].cursor + length
          BY <5>1, <1>7, <1>10, <1>11
        <5>3. pools[at].cursor \in Nat
          BY <4>1, <4>3 DEF APool
        <5>4. QED
          BY <4>3, <5>2, <5>3, <1>3
      <4>4. QED
        BY <4>2, <4>3
    <3>4. /\ chunks[i].offset + chunks[i].length \in Nat
          /\ pools[chunks[i].pool].cursor \in Nat /\ pools'[chunks[i].pool].cursor \in Nat
      <4>1. chunks[i].pool \in 1 .. LastPool
        BY <2>2, <1>14
      <4>2. pools[chunks[i].pool] \in APool
        BY <4>1, <1>4
      <4>3. pools'[chunks[i].pool] \in APool
        BY <3>2, <1>11, ElementOfSeq
      <4>4. chunks[i].offset \in Nat /\ chunks[i].length \in Nat
        BY <3>1 DEF AChunk
      <4>5. pools[chunks[i].pool].cursor \in Nat /\ pools'[chunks[i].pool].cursor \in Nat
        BY <4>2, <4>3 DEF APool
      <4>6. QED
        BY <4>4, <4>5
    <3>5. chunks[i].offset + chunks[i].length <= pools'[chunks[i].pool].cursor
      BY <2>2, <3>3, <3>4, <1>14
    <3>6. QED
      BY <2>2, <3>1, <3>2, <3>5, <1>14
  <2>3. QED
    BY <2>1, <2>2, <1>13
<1>16. SlotsInv'
  BY <1>11, <1>13, <1>15 DEF SlotsInv
<1>17. QED
  BY <1>1, <1>9, <1>11, <1>12, <1>13, <1>16

-----------------------------------------------------------------------------
(* The data.                                                               *)

\* No step changes its route, or what is expected of it.
LEMMA SetupStays ==
    ASSUME StreamsTypeOK, PlaceInv, StreamsNext
    PROVE  route' = route /\ expected' = expected
<1>1. CASE \/ WriterHop \/ Write \/ WriterCloses \/ WriterPuts \/ FeederCloses \/ WriterDies
           \/ Receive \/ ReceiveEnds \/ ReaderFalls \/ ReaderEnds \/ Drain \/ ReaderDies
  BY <1>1 DEF WriterHop, Write, WriterCloses, WriterPuts, FeederCloses, WriterDies, Receive,
              ReceiveEnds, ReaderFalls, ReaderEnds, Drain, ReaderDies, setup
<1>2. CASE \/ CallerForked \/ CallerJoinsWriter \/ CallerGets \/ CallerJoinsReader
           \/ Splice \/ SpliceEnds \/ SpliceRaises \/ MoverJoinsWriter \/ MoverJoinsReader
           \/ MoverJoinsSampler \/ SamplerEnds
  BY <1>2 DEF CallerForked, CallerJoinsWriter, CallerGets, CallerJoinsReader, Splice, SpliceEnds,
              SpliceRaises, MoverJoinsWriter, MoverJoinsReader, MoverJoinsSampler, SamplerEnds, setup
<1>3. CASE PackChunk \/ PackEmpty \/ PackEnds \/ stream_chunk \/ StreamEnds
  BY <1>3 DEF PackChunk, PackEmpty, PackEnds, stream_chunk, StreamEnds, Kept
<1>4. QED
  BY <1>1, <1>2, <1>3, StepOfARoute, Zenon

\* from_file() packs the next bytes of the file, or none into the one chunk of an
\* empty file.
LEMMA PackedBytes ==
    ASSUME StreamsIInv, route = "ingest", PackChunk \/ PackEmpty
    PROVE  \E n \in Nat : \E length \in Lengths :
              /\ n <= Left /\ pos' = pos + n /\ pos + n \in Nat /\ pos + n <= Length
              /\ Bytes(pos, pos + n) \in Seq(Nat)
              /\ new_chunk(Bytes(pos, pos + n), length)
              /\ chunks = <<>> \/ n > 0
<1>1. /\ ~Forked /\ pos \in Nat /\ Left \in Nat
  BY NumbersOf DEF Forked
<1>2. CASE PackChunk
  <2>1. PICK n : /\ n = Min({CHUNK, BLOCK - (pos % BLOCK), Left}) /\ pos' = pos + n /\ Left > 0
                 /\ \E length \in Lengths :
                        new_chunk(SubSeq(Current(out), pos + 1, pos + n), length)
    BY <1>2 DEF PackChunk
  <2>2. PICK length \in Lengths : new_chunk(SubSeq(Current(out), pos + 1, pos + n), length)
    BY <2>1
  <2>3. n \in Nat \ {0} /\ n <= Left
    <3>1. BLOCK \in Nat \ {0} /\ CHUNK \in Nat \ {0}
      BY StreamsAssumption
    <3>2. pos % BLOCK \in 0 .. BLOCK - 1
      BY <1>1, <3>1
    <3>3. {CHUNK, BLOCK - (pos % BLOCK), Left} \in SUBSET (Nat \ {0})
      BY <3>1, <3>2, <1>1, <2>1
    <3>4. QED
      BY <2>1, <3>3, MinOfNats
  <2>4. /\ SubSeq(Current(out), pos + 1, pos + n) = Bytes(pos, pos + n)
        /\ pos + n \in Nat /\ pos + n <= Length
    BY <1>1, <2>3, NextBytes
  <2>5. Bytes(pos, pos + n) \in Seq(Nat)
    <3>1. pos <= pos + n
      BY <1>1, <2>3
    <3>2. QED
      BY <3>1, <2>4, <1>1, BytesAre
  <2>6. n \in Nat /\ n > 0
    BY <2>3
  <2>7. QED
    BY <2>1, <2>2, <2>3, <2>4, <2>5, <2>6
<1>3. CASE PackEmpty
  <2>1. PICK length \in Lengths : new_chunk(<<>>, length)
    BY <1>3 DEF PackEmpty
  <2>2. pos' = pos /\ chunks = <<>>
    BY <1>3 DEF PackEmpty
  <2>3. Bytes(pos, pos + 0) = <<>> /\ <<>> \in Seq(Nat) /\ pos + 0 = pos
    BY <1>1, BytesOfNothing, EmptySeq
  <2>4. pos <= Length
    BY NumbersOf
  <2>5. 0 \in Nat /\ 0 <= Left
    BY <1>1
  <2>6. QED
    BY <1>1, <2>1, <2>2, <2>3, <2>4, <2>5
<1>4. QED
  BY <1>2, <1>3

\* What is put into the queue and taken from it.
LEMMA QueueStep ==
    ASSUME StreamsIInv, StreamsNext
    PROVE  /\ queue' \in Seq({ReportA, ReportB(expected)})
           /\ final' \in {<<>>, ReportB(expected)}
<1> DEFINE R == {ReportA, ReportB(expected)}
<1>1. queue \in Seq(R) /\ final \in {<<>>, ReportB(expected)}
  BY DEF StreamsIInv, DataInv
<1>2. ReportA \in R /\ ReportB(expected) \in R
  OBVIOUS
<1>3. \A r \in R : r[1] = "B" => r = ReportB(expected)
  BY DEF ReportA
<1> HIDE DEF R
<1>4. CASE Forked /\ WriterPuts
  <2>1. queue' = Append(queue, ReportA) /\ final' = final
    BY <1>4 DEF WriterPuts, ReportA, caller
  <2>2. QED
    BY <1>1, <1>2, <2>1, AppendProperties DEF R
<1>5. CASE Forked /\ ReaderFalls
  <2>1. PICK box \in {kept, bounce_once(kept), bounce_once(bounce_once(kept))} :
            queue' = Append(queue, <<"B", Current(box)>>)
    BY <1>5 DEF ReaderFalls
  <2>2. kept \in Boxes /\ Current(kept) = Piece(expected) /\ final' = final
    BY <1>5 DEF ReaderFalls, StreamsIInv, DataInv, ReportsInv, caller
  <2>3. Current(box) = Current(kept)
    <3>1. bounce_once(kept) \in Boxes /\ Current(bounce_once(kept)) = Current(kept)
      BY <2>2, BounceKeeps
    <3>2. Current(bounce_once(bounce_once(kept))) = Current(bounce_once(kept))
      BY <3>1, BounceKeeps
    <3>3. QED
      BY <3>1, <3>2, <2>1
  <2>4. queue' = Append(queue, ReportB(expected))
    BY <2>1, <2>2, <2>3 DEF ReportB
  <2>5. QED
    BY <1>1, <1>2, <2>2, <2>4, AppendProperties DEF R
<1>6. CASE CallerGets
  <2>1. /\ queue # <<>> /\ queue' = Tail(queue)
        /\ final' = IF Head(queue)[1] = "B" THEN Head(queue) ELSE final
    BY <1>6 DEF CallerGets
  <2>2. Head(queue) \in R /\ Tail(queue) \in Seq(R)
    BY <1>1, <2>1, HeadTailProperties
  <2>3. QED
    BY <1>1, <1>3, <2>1, <2>2 DEF R
<1>7. CASE UNCHANGED <<queue, final>>
  BY <1>1, <1>7 DEF R
<1>8. CASE \/ WriterHop \/ Write \/ WriterCloses \/ FeederCloses \/ WriterDies
           \/ Receive \/ ReceiveEnds \/ ReaderEnds \/ Drain \/ ReaderDies
  BY <1>7, <1>8 DEF WriterHop, Write, WriterCloses, FeederCloses, WriterDies, Receive,
                    ReceiveEnds, ReaderEnds, Drain, ReaderDies, caller
<1>9. CASE \/ CallerForked \/ CallerJoinsWriter \/ CallerJoinsReader
           \/ Splice \/ SpliceEnds \/ SpliceRaises \/ MoverJoinsWriter \/ MoverJoinsReader
           \/ MoverJoinsSampler \/ SamplerEnds
  BY <1>7, <1>9 DEF CallerForked, CallerJoinsWriter, CallerJoinsReader, Splice, SpliceEnds,
              SpliceRaises, MoverJoinsWriter, MoverJoinsReader, MoverJoinsSampler, SamplerEnds, caller
<1>10. CASE PackChunk \/ PackEmpty \/ PackEnds \/ stream_chunk \/ StreamEnds
  <2>1. UNCHANGED <<queue, final>>
    BY <1>10 DEF PackChunk, PackEmpty, PackEnds, stream_chunk, StreamEnds, Kept
  <2>2. QED
    BY <2>1, <1>7
<1>11. StreamsTypeOK /\ PlaceInv
  BY DEF StreamsIInv
<1>12. route = "tracked" => Forked
  BY DEF Forked
<1>13. QED
  BY <1>4, <1>5, <1>6, <1>8, <1>9, <1>10, <1>11, <1>12, StepOfARoute, Zenon DEF R

-----------------------------------------------------------------------------
(* Where everybody is, and what the writer has.                            *)

LEMMA PlaceStep ==
    ASSUME StreamsIInv, StreamsNext
    PROVE  PlaceInv'
<1>1. StreamsTypeOK /\ PlaceInv /\ route \in {"handoff", "tracked", "splice", "stealth", "ingest"}
  BY DEF StreamsIInv, StreamsTypeOK
<1>2. route' = route
  BY <1>1, SetupStays
<1> USE DEF PlaceInv, Forked, Spliced
<1>3. CASE route # "ingest" /\ (WriterHop \/ Write)
  <2>1. /\ wpc \in {"fall", "write"} /\ wpc' \in {"fall", "write"} /\ (hops = 0 => hops' = 0)
        /\ UNCHANGED <<cpc, rpc, chunks, pools, dst>>
    BY <1>3 DEF WriterHop, Write, setup, ingest, writer, reader, caller
  <2>2. QED
    BY <1>1, <1>2, <1>3, <2>1
<1>4. CASE Forked /\ (WriterCloses \/ Receive \/ ReceiveEnds \/ ReaderFalls \/ ReaderEnds)
  BY <1>1, <1>2, <1>4 DEF WriterCloses, Receive, ReceiveEnds, ReaderFalls, ReaderEnds,
                          setup, ingest, writer, reader, caller
<1>5. CASE Forked /\ (CallerForked \/ CallerJoinsWriter \/ CallerGets \/ CallerJoinsReader)
  BY <1>1, <1>2, <1>5 DEF CallerForked, CallerJoinsWriter, CallerGets, CallerJoinsReader, AfterWriter,
                          setup, ingest, writer, reader, caller
<1>6. CASE Forked /\ (WriterDies \/ ReaderDies)
  BY <1>1, <1>2, <1>6 DEF WriterDies, ReaderDies, setup, ingest, writer, reader, caller
<1>7. CASE route = "tracked" /\ WriterPuts
  BY <1>1, <1>2, <1>7 DEF WriterPuts, setup, ingest, writer, reader, caller
<1>8. CASE Spliced /\ (FeederCloses \/ Drain)
  BY <1>1, <1>2, <1>8 DEF FeederCloses, Drain, setup, ingest, writer, reader, caller
<1>9. CASE Spliced /\ (Splice \/ SpliceEnds \/ SpliceRaises)
  BY <1>1, <1>2, <1>9 DEF Splice, SpliceEnds, SpliceRaises, setup, ingest, writer, reader, caller
<1>10. CASE Spliced /\ (MoverJoinsWriter \/ MoverJoinsReader)
  BY <1>1, <1>2, <1>10 DEF MoverJoinsWriter, MoverJoinsReader, Return,
                           setup, ingest, writer, reader, caller
<1>11. CASE route = "stealth" /\ MoverJoinsSampler
  BY <1>1, <1>2, <1>11 DEF MoverJoinsSampler, Return, setup, ingest, writer, reader, caller
<1>12. CASE SamplerEnds
  BY <1>1, <1>2, <1>12 DEF SamplerEnds, setup, ingest, writer, reader, caller
<1>13. CASE route = "ingest" /\ (PackChunk \/ PackEmpty \/ PackEnds)
  BY <1>1, <1>2, <1>13 DEF PackChunk, PackEmpty, PackEnds, Kept
<1>14. CASE route = "ingest" /\ (stream_chunk \/ StreamEnds)
  BY <1>1, <1>2, <1>14 DEF stream_chunk, StreamEnds, Kept
<1> HIDE DEF PlaceInv, Forked, Spliced
<1>15. QED
  BY <1>1, <1>3, <1>4, <1>5, <1>6, <1>7, <1>8, <1>9, <1>10, <1>11, <1>12, <1>13, <1>14,
     StepOfARoute, Zenon

\* The writer's bytes stay as they are until it clears its boxes, and it never counts
\* more than it has.
LEMMA OutStep ==
    ASSUME StreamsIInv, StreamsNext
    PROVE  OutInv' /\ out' \in Boxes
<1>1. StreamsTypeOK /\ PlaceInv /\ OutInv /\ out \in Boxes
  BY DEF StreamsIInv, DataInv
<1>2. route' = route /\ expected' = expected /\ (Forked' <=> Forked) /\ (Spliced' <=> Spliced)
  <2>1. route' = route /\ expected' = expected
    BY <1>1, SetupStays
  <2>2. QED
    BY <2>1 DEF Forked, Spliced
<1>3. pos \in Nat /\ pos <= Length /\ Length \in Nat
  BY NumbersOf
<1>4. ASSUME out' = out
      PROVE  Length' = Length /\ Current(out') = Current(out)
  BY <1>2, <1>4 DEF Length
<1>5. CASE route # "ingest" /\ WriterHop
  <2>1. /\ Current(out') = Current(out) /\ out' \in Boxes
    BY <1>1, <1>5, BounceKeeps DEF WriterHop
  <2>2. Length' = Length
    BY <1>2, <2>1 DEF Length
  <2>3. wpc = "fall" /\ wpc' \in {"fall", "write"} /\ pos' = pos /\ error' = error
    BY <1>5 DEF WriterHop
  <2>4. QED
    BY <1>1, <1>2, <2>1, <2>2, <2>3 DEF OutInv
<1>6. CASE route # "ingest" /\ Write
  <2>1. wpc = "write" /\ wpc' = wpc /\ error' = error /\ out' = out
    BY <1>6 DEF Write
  <2>2. Left \in Nat /\ Capacity - Len(src) \in Nat
    BY <2>1, NumbersOf
  <2>3. PICK n \in Moves(Left, Left, Capacity - Len(src)) : pos' = pos + n
    BY <1>6 DEF Write
  <2>4. n \in Nat /\ n <= Left
    BY <2>2, MovesWithin
  <2>5. pos + n <= Length
    BY <2>1, <2>4, NextBytes
  <2>6. QED
    BY <1>1, <1>2, <1>4, <2>1, <2>3, <2>5 DEF OutInv
<1>7. CASE Forked /\ WriterCloses
  <2>1. wpc = "write" /\ Left = 0 /\ wpc' \in {"put", "ended"} /\ pos' = pos /\ error' = error
        /\ out' = Box(<<>>)
    BY <1>7 DEF WriterCloses
  <2>2. out' \in Boxes
    <3>1. <<>> \in Seq(Nat)
      BY EmptySeq
    <3>2. QED
      BY <2>1, <3>1, BoxHolds
  <2>3. Left = Length - pos
    BY <2>1, NumbersOf
  <2>4. pos = Length /\ Length' = Length
    BY <1>2, <1>3, <1>7, <2>1, <2>3 DEF Length
  <2>5. QED
    BY <1>1, <1>2, <1>7, <2>1, <2>2, <2>4 DEF OutInv
<1>8. CASE Spliced /\ FeederCloses
  <2>1. wpc = "write" /\ wpc' = "ended" /\ pos' = pos /\ out' = out /\ error' = (Left > 0)
    BY <1>8 DEF FeederCloses
  <2>2. Left = Length - pos
    BY <2>1, NumbersOf
  <2>3. pos = Length \/ error'
    <3>1. CASE Left > 0
      BY <2>1, <3>1, Zenon
    <3>2. CASE ~(Left > 0)
      BY <1>3, <2>2, <3>2
    <3>3. QED
      BY <3>1, <3>2
  <2>4. ~Forked
    BY <1>8 DEF Forked, Spliced
  <2>5. QED
    BY <1>1, <1>2, <1>4, <1>8, <2>1, <2>3, <2>4 DEF OutInv
<1>9. CASE route = "tracked" /\ WriterPuts
  <2>1. wpc = "put" /\ wpc' = "ended" /\ UNCHANGED <<out, pos, error>>
    BY <1>9 DEF WriterPuts
  <2>2. QED
    BY <1>1, <1>2, <1>4, <2>1 DEF OutInv
<1>10. CASE Forked /\ WriterDies
  <2>1. wpc # "ended" /\ wpc' = "dead" /\ UNCHANGED <<out, pos, error>>
    BY <1>10 DEF WriterDies
  <2>2. QED
    BY <1>1, <1>2, <1>4, <1>10, <2>1 DEF OutInv
<1>11. CASE route = "ingest" /\ (PackChunk \/ PackEmpty)
  <2>1. PICK n \in Nat : pos' = pos + n /\ pos + n <= Length
    BY <1>11, PackedBytes
  <2>2. UNCHANGED <<out, wpc, error>>
    BY <1>11 DEF PackChunk, PackEmpty, Kept
  <2>3. ~Forked /\ wpc \notin {"put", "ended"}
    BY <1>1, <1>11 DEF PlaceInv, Forked
  <2>4. QED
    BY <1>1, <1>2, <1>4, <1>11, <2>1, <2>2, <2>3 DEF OutInv
<1>12. CASE UNCHANGED <<out, wpc, error, pos>>
  BY <1>1, <1>2, <1>4, <1>12 DEF OutInv
<1>13. CASE Receive \/ ReceiveEnds \/ ReaderFalls \/ ReaderEnds \/ Drain \/ ReaderDies
  BY <1>12, <1>13 DEF Receive, ReceiveEnds, ReaderFalls, ReaderEnds, Drain, ReaderDies, writer
<1>14. CASE \/ CallerForked \/ CallerJoinsWriter \/ CallerGets \/ CallerJoinsReader
            \/ Splice \/ SpliceEnds \/ SpliceRaises \/ MoverJoinsWriter \/ MoverJoinsReader
            \/ MoverJoinsSampler \/ SamplerEnds
  BY <1>12, <1>14 DEF CallerForked, CallerJoinsWriter, CallerGets, CallerJoinsReader, Splice,
     SpliceEnds, SpliceRaises, MoverJoinsWriter, MoverJoinsReader, MoverJoinsSampler, SamplerEnds, writer
<1>15. CASE PackEnds \/ stream_chunk \/ StreamEnds
  BY <1>12, <1>15 DEF PackEnds, stream_chunk, StreamEnds, Kept
<1>16. QED
  BY <1>1, <1>5, <1>6, <1>7, <1>8, <1>9, <1>10, <1>11, <1>13, <1>14, <1>15, StepOfARoute, Zenon

-----------------------------------------------------------------------------
(* The reports of a hand-off.                                              *)

\* B stops reading when it has the piece: as it holds the pipe open itself, it does
\* not see an end of the file, and there is no more than the piece to read.
LEMMA ReceivedWhole ==
    ASSUME StreamsIInv, Forked, ReceiveEnds
    PROVE  received = Piece(expected)
<1>1. /\ expected \in Nat /\ pos \in Nat /\ pos <= Length
  BY NumbersOf
<1>2. Length = expected /\ route # "ingest"
  BY DEF Length, Forked
<1>3. Passing(received, dst, src, pos)
  BY <1>2 DEF StreamsIInv, PassingInv
<1>4. /\ Len(received) \in Nat /\ Len(dst) \in Nat /\ Len(src) \in Nat
      /\ Len(received) + Len(dst) + Len(src) = pos /\ received = Bytes(0, Len(received))
  BY <1>1, <1>3, PassingIn
<1>5. Open("src_w")
  <2>1. <<"reader", "src_w">> \in ends
    BY DEF ReceiveEnds, StreamsIInv, EndsInv
  <2>2. QED
    BY <2>1 DEF Open, Processes
<1>6. Len(received) >= expected
  BY <1>5 DEF ReceiveEnds
<1>7. Len(received) = expected
  BY <1>1, <1>2, <1>4, <1>6
<1>8. QED
  BY <1>1, <1>4, <1>7, PieceIsBytes

\* A report more, and a report less.
LEMMA ReportMore ==
    ASSUME NEW S, NEW q \in Seq(S), NEW e \in S
    PROVE  \A i \in DOMAIN Append(q, e) :
               \/ i \in DOMAIN q /\ Append(q, e)[i] = q[i]
               \/ i = Len(q) + 1 /\ Append(q, e)[i] = e
<1>1. /\ DOMAIN Append(q, e) = 1 .. Len(q) + 1 /\ Append(q, e)[Len(q) + 1] = e
      /\ \A i \in 1 .. Len(q) : Append(q, e)[i] = q[i]
      /\ Len(q) \in Nat /\ DOMAIN q = 1 .. Len(q)
  BY AppendProperties
<1>2. QED
  BY <1>1

LEMMA ReportLess ==
    ASSUME NEW S, NEW q \in Seq(S), q # <<>>
    PROVE  /\ Head(q) \in S /\ Head(q) = q[1] /\ 1 \in DOMAIN q
           /\ \A i \in DOMAIN Tail(q) : i \in Nat \ {0} /\ i + 1 \in DOMAIN q /\ Tail(q)[i] = q[i + 1]
<1>1. /\ Head(q) \in S /\ Tail(q) \in Seq(S) /\ Len(Tail(q)) = Len(q) - 1
      /\ \A i \in 1 .. Len(Tail(q)) : Tail(q)[i] = q[i + 1]
  BY HeadTailProperties
<1>2. Len(q) \in Nat \ {0} /\ DOMAIN q = 1 .. Len(q) /\ DOMAIN Tail(q) = 1 .. Len(Tail(q))
  BY <1>1, EmptySeq
<1>3. Head(q) = q[1]
  BY <1>2
<1>4. QED
  BY <1>1, <1>2, <1>3

LEMMA KeptStep ==
    ASSUME StreamsIInv, StreamsNext
    PROVE  /\ kept' \in Boxes
           /\ Forked /\ rpc' \in {"fall", "flush", "ended"} => Current(kept') = Piece(expected)
<1>1. /\ StreamsTypeOK /\ PlaceInv /\ kept \in Boxes
      /\ Forked /\ rpc \in {"fall", "flush", "ended"} => Current(kept) = Piece(expected)
  BY DEF StreamsIInv, DataInv, ReportsInv
<1>2. CASE Forked /\ ReceiveEnds
  <2>1. received \in Seq(Nat) /\ received = Piece(expected) /\ kept' = Box(received)
    BY <1>2, ReceivedWhole DEF StreamsIInv, DataInv, ReceiveEnds
  <2>2. QED
    BY <2>1, BoxHolds
<1>3. CASE Forked /\ ReaderFalls
  <2>1. kept' \in {kept, bounce_once(kept), bounce_once(bounce_once(kept))} /\ rpc = "fall"
    BY <1>3 DEF ReaderFalls
  <2>2. bounce_once(kept) \in Boxes /\ Current(bounce_once(kept)) = Current(kept)
    BY <1>1, BounceKeeps
  <2>3. /\ bounce_once(bounce_once(kept)) \in Boxes
        /\ Current(bounce_once(bounce_once(kept))) = Current(bounce_once(kept))
    BY <2>2, BounceKeeps
  <2>4. QED
    BY <1>1, <1>3, <2>1, <2>2, <2>3
<1>4. CASE kept' = kept /\ (~Forked \/ rpc' = rpc)
  BY <1>1, <1>4
<1>5. CASE Forked /\ (ReaderEnds \/ ReaderDies)
  <2>1. kept' = kept /\ (rpc' = "dead" \/ rpc = "flush")
    BY <1>5 DEF ReaderEnds, ReaderDies
  <2>2. QED
    BY <1>1, <1>5, <2>1
<1>6. CASE Spliced /\ Drain
  <2>1. kept' = kept /\ ~Forked
    BY <1>6 DEF Drain, Spliced, Forked
  <2>2. QED
    BY <1>4, <2>1
<1>7. CASE WriterHop \/ Write \/ WriterCloses \/ WriterPuts \/ FeederCloses \/ WriterDies \/ Receive
  BY <1>4, <1>7 DEF WriterHop, Write, WriterCloses, WriterPuts, FeederCloses, WriterDies, Receive,
                    reader
<1>8. CASE \/ CallerForked \/ CallerJoinsWriter \/ CallerGets \/ CallerJoinsReader
           \/ Splice \/ SpliceEnds \/ SpliceRaises \/ MoverJoinsWriter \/ MoverJoinsReader
           \/ MoverJoinsSampler \/ SamplerEnds
  BY <1>4, <1>8 DEF CallerForked, CallerJoinsWriter, CallerGets, CallerJoinsReader, Splice,
     SpliceEnds, SpliceRaises, MoverJoinsWriter, MoverJoinsReader, MoverJoinsSampler, SamplerEnds, reader
<1>9. CASE PackChunk \/ PackEmpty \/ PackEnds \/ stream_chunk \/ StreamEnds
  <2>1. kept' = kept /\ rpc' = rpc
    BY <1>9 DEF PackChunk, PackEmpty, PackEnds, stream_chunk, StreamEnds, Kept
  <2>2. QED
    BY <1>4, <2>1
<1>10. QED
  BY <1>1, <1>2, <1>3, <1>5, <1>6, <1>7, <1>8, <1>9, StepOfARoute, Zenon

LEMMA ReportsStep ==
    ASSUME StreamsIInv, StreamsNext
    PROVE  ReportsInv'
<1> DEFINE R == {ReportA, ReportB(expected)}
<1>1. /\ StreamsTypeOK /\ PlaceInv /\ queue \in Seq(R) /\ final \in {<<>>, ReportB(expected)}
      /\ route \in {"handoff", "tracked", "splice", "stealth", "ingest"}
  BY DEF StreamsIInv, DataInv, StreamsTypeOK
<1>2. route' = route /\ expected' = expected /\ (Forked' <=> Forked)
  <2>1. route' = route /\ expected' = expected
    BY <1>1, SetupStays
  <2>2. QED
    BY <2>1 DEF Forked
<1>3. CASE ~Forked
  BY <1>2, <1>3 DEF ReportsInv
<1>4. SUFFICES ASSUME Forked PROVE ReportsInv'
  BY <1>3
<1> DEFINE Places == cpc \in {"join_reader", "done"} \/ (route = "tracked" /\ cpc = "join_writer")
           Once   == \A i, j \in DOMAIN queue : queue[i] = ReportA /\ queue[j] = ReportA => i = j
<1>5. /\ wpc # "ended" \/ route = "handoff" => NoReportA
      /\ Once
      /\ cpc = "get again" /\ final = <<>> => NoReportA /\ wpc = "ended"
      /\ Places => final = ReportB(expected)
  BY <1>4 DEF StreamsIInv, ReportsInv
<1>6. rpc' \in {"fall", "flush", "ended"} => Current(kept') = Piece(expected)
  BY <1>4, KeptStep
<1>7. SUFFICES /\ wpc' # "ended" \/ route = "handoff" => NoReportA'
               /\ Once'
               /\ cpc' = "get again" /\ final' = <<>> => NoReportA' /\ wpc' = "ended"
               /\ Places' => final' = ReportB(expected)
  BY <1>2, <1>6 DEF ReportsInv
<1>8. /\ ReportA # ReportB(expected) /\ ReportA[1] # "B"
      /\ ReportB(expected)[1] = "B" /\ ReportB(expected) # <<>>
  BY DEF ReportA, ReportB
<1>9. ASSUME queue' = queue PROVE (NoReportA' <=> NoReportA) /\ (Once' <=> Once)
  BY <1>9 DEF NoReportA
<1> HIDE DEF R, Once
<1>10. CASE route = "tracked" /\ WriterPuts
  <2>1. /\ queue' = Append(queue, ReportA) /\ wpc = "put" /\ wpc' = "ended"
        /\ UNCHANGED <<cpc, final>>
    BY <1>10 DEF WriterPuts, ReportA, caller
  <2>2. NoReportA
    BY <1>5, <2>1
  <2>3. \A i \in DOMAIN queue' : queue'[i] = ReportA => i = Len(queue) + 1
    BY <1>1, <2>1, <2>2, ReportMore DEF NoReportA, R
  <2>4. Once'
    BY <2>3 DEF Once
  <2>5. QED
    BY <1>2, <1>5, <1>10, <2>1, <2>4
<1>11. CASE ReaderFalls
  <2>1. UNCHANGED <<cpc, final, wpc>>
    BY <1>11 DEF ReaderFalls, writer, caller
  <2>2. queue' = Append(queue, ReportB(expected))
    <3>1. PICK box \in {kept, bounce_once(kept), bounce_once(bounce_once(kept))} :
              kept' = box /\ queue' = Append(queue, <<"B", Current(box)>>)
      BY <1>11 DEF ReaderFalls
    <3>2. rpc' = "flush"
      BY <1>11 DEF ReaderFalls
    <3>3. Current(box) = Piece(expected)
      BY <3>1, <3>2, <1>6
    <3>4. QED
      BY <3>1, <3>3 DEF ReportB
  <2>3. \A i \in DOMAIN queue' : queue'[i] = ReportA => i \in DOMAIN queue /\ queue[i] = ReportA
    BY <1>1, <1>8, <2>2, ReportMore DEF R
  <2>4. (NoReportA => NoReportA') /\ Once'
    BY <1>5, <2>3 DEF NoReportA, Once
  <2>5. QED
    BY <1>2, <1>5, <2>1, <2>4
<1>12. CASE CallerGets
  <2>1. /\ cpc \in {"get", "get again"} /\ queue # <<>> /\ queue' = Tail(queue) /\ wpc' = wpc
        /\ final' = IF Head(queue)[1] = "B" THEN Head(queue) ELSE final
        /\ cpc' = IF route = "handoff" THEN "join_reader"
                  ELSE IF cpc = "get" THEN "get again" ELSE "join_writer"
    BY <1>12 DEF CallerGets, writer
  <2>2. /\ Head(queue) \in R /\ Head(queue) = queue[1] /\ 1 \in DOMAIN queue
        /\ \A i \in DOMAIN queue' :
              i \in Nat \ {0} /\ i + 1 \in DOMAIN queue /\ queue'[i] = queue[i + 1]
    <3>1. /\ Head(queue) \in R /\ Head(queue) = queue[1] /\ 1 \in DOMAIN queue
          /\ \A i \in DOMAIN Tail(queue) :
                i \in Nat \ {0} /\ i + 1 \in DOMAIN queue /\ Tail(queue)[i] = queue[i + 1]
      BY <1>1, <2>1, ReportLess, Zenon
    <3>2. QED
      BY <2>1, <3>1, Zenon
  <2>3. (NoReportA => NoReportA') /\ Once'
    <3>1. NoReportA => NoReportA'
      BY <2>2 DEF NoReportA
    <3>2. ASSUME NEW i \in DOMAIN queue', NEW j \in DOMAIN queue',
                 queue'[i] = ReportA, queue'[j] = ReportA
          PROVE  i = j
      <4>1. i + 1 = j + 1
        BY <1>5, <2>2, <3>2 DEF Once
      <4>2. QED
        BY <4>1, <2>2
    <3>3. QED
      BY <3>1, <3>2 DEF Once
  <2>4. CASE Head(queue) = ReportA
    <3>1. final' = final /\ ~NoReportA
      BY <1>8, <2>1, <2>2, <2>4 DEF NoReportA
    <3>2. wpc = "ended" /\ route = "tracked"
      BY <1>4, <1>5, <3>1 DEF Forked
    <3>3. NoReportA'
      <4>1. ASSUME NEW i \in DOMAIN queue', queue'[i] = ReportA PROVE FALSE
        <5>1. i + 1 = 1
          BY <1>5, <2>2, <2>4, <4>1 DEF Once
        <5>2. QED
          BY <5>1, <2>2
      <4>2. QED
        BY <4>1 DEF NoReportA
    <3>4. cpc = "get again" => final' = ReportB(expected)
      BY <1>1, <1>5, <3>1
    <3>5. QED
      BY <1>2, <2>1, <2>3, <3>1, <3>2, <3>3, <3>4
  <2>5. CASE Head(queue) = ReportB(expected)
    <3>1. final' = ReportB(expected)
      BY <1>8, <2>1, <2>5
    <3>2. QED
      BY <1>2, <1>5, <1>8, <2>1, <2>3, <3>1
  <2>6. QED
    BY <2>2, <2>4, <2>5 DEF R
<1>13. CASE /\ UNCHANGED <<queue, final, cpc>>
            /\ wpc' = wpc \/ (wpc # "ended" /\ wpc' # "ended")
  BY <1>2, <1>5, <1>9, <1>13
<1>14. CASE \/ WriterHop \/ Write \/ WriterDies
            \/ Receive \/ ReceiveEnds \/ ReaderEnds \/ ReaderDies
  BY <1>13, <1>14 DEF WriterHop, Write, WriterDies, Receive, ReceiveEnds, ReaderEnds, ReaderDies,
                      writer, caller
<1>15. CASE WriterCloses
  <2>1. UNCHANGED <<queue, final, cpc>> /\ wpc = "write" /\ (route = "tracked" => wpc' = "put")
    BY <1>15 DEF WriterCloses, caller
  <2>2. route \in {"handoff", "tracked"}
    BY <1>4 DEF Forked
  <2>3. cpc # "get again" \/ final # <<>>
    BY <1>5, <2>1
  <2>4. QED
    BY <1>2, <1>5, <1>9, <2>1, <2>2, <2>3
<1>16. CASE CallerForked \/ CallerJoinsWriter \/ CallerJoinsReader
  <2>1. UNCHANGED <<queue, final, wpc>>
    BY <1>16 DEF CallerForked, CallerJoinsWriter, CallerJoinsReader, writer
  <2>2. cpc' # "get again" /\ (Places' => Places)
    BY <1>2, <1>4, <1>16 DEF CallerForked, CallerJoinsWriter, CallerJoinsReader, AfterWriter, Forked
  <2>3. QED
    BY <1>2, <1>5, <1>9, <2>1, <2>2
<1>17. SamplerEnds => UNCHANGED <<queue, final, cpc, wpc>>
  BY DEF SamplerEnds, writer, caller
<1>18. ~Spliced /\ route # "stealth" /\ route # "ingest"
  BY <1>4 DEF Forked, Spliced
<1> HIDE DEF Places
<1>19. QED
  BY <1>1, <1>10, <1>11, <1>12, <1>13, <1>14, <1>15, <1>16, <1>17, <1>18, StepOfARoute, Zenon

-----------------------------------------------------------------------------
(* The ends of the pipes, and the mover of splice().                       *)

LEMMA EndsStep ==
    ASSUME StreamsIInv, StreamsNext
    PROVE  EndsInv'
<1>1. StreamsTypeOK /\ PlaceInv /\ EndsInv
  BY DEF StreamsIInv
<1>2. (Forked' <=> Forked) /\ (Spliced' <=> Spliced) /\ ~(Forked /\ Spliced)
  BY <1>1, SetupStays DEF Forked, Spliced
<1>3. route = "ingest" => ~Forked /\ ~Spliced /\ cpc \notin {"fork", "splice"}
  BY <1>1 DEF PlaceInv, Forked, Spliced
<1>4. CASE ends' = ends /\ cpc' = cpc /\ rpc' = rpc /\ (wpc' = wpc \/ (wpc # "ended" /\ wpc' # "ended"))
  BY <1>1, <1>2, <1>4 DEF EndsInv
<1>5. CASE WriterHop \/ Write \/ Receive \/ SamplerEnds \/ Splice
  BY <1>4, <1>5 DEF WriterHop, Write, Receive, SamplerEnds, Splice, writer, reader, caller
<1>6. CASE \/ Forked /\ (WriterCloses \/ WriterDies)
           \/ Forked /\ WriterPuts
           \/ Spliced /\ FeederCloses
  <2>1. /\ cpc' = cpc /\ rpc' = rpc /\ (wpc' = "ended" \/ Forked)
        /\ \E names \in SUBSET {"src_r", "src_w"} : ends' = ends \ ({"writer"} \X names)
    BY <1>6 DEF WriterCloses, WriterDies, WriterPuts, FeederCloses, Close, Forked, reader, caller
  <2>2. \A p, e : p # "writer" => (<<p, e>> \in ends' <=> <<p, e>> \in ends)
    BY <2>1
  <2>3. QED
    BY <1>1, <1>2, <2>1, <2>2 DEF EndsInv
<1>7. CASE Forked /\ (ReceiveEnds \/ ReaderFalls \/ ReaderEnds \/ ReaderDies)
  <2>1. /\ cpc' = cpc /\ wpc' = wpc /\ rpc' # "read"
        /\ \E names \in SUBSET {"src_r", "src_w"} : ends' = ends \ ({"reader"} \X names)
    <3>1. CASE ReaderFalls
      <4>1. ends' = ends \ ({"reader"} \X {})
        BY <3>1 DEF ReaderFalls
      <4>2. QED
        BY <3>1, <4>1 DEF ReaderFalls, writer, caller
    <3>2. CASE ReceiveEnds \/ ReaderEnds \/ ReaderDies
      BY <3>2 DEF ReceiveEnds, ReaderEnds, ReaderDies, Close, writer, caller
    <3>3. QED
      BY <1>7, <3>1, <3>2
  <2>2. \A p, e : p # "reader" => (<<p, e>> \in ends' <=> <<p, e>> \in ends)
    BY <2>1
  <2>3. QED
    BY <1>1, <1>2, <1>7, <2>1, <2>2 DEF EndsInv
<1>8. CASE Spliced /\ Drain
  BY <1>1, <1>2, <1>8 DEF Drain, EndsInv, writer, caller
<1>9. CASE Forked /\ CallerForked
  <2>1. /\ wpc' = wpc /\ rpc' = rpc /\ cpc = "fork"
        /\ ends' = ends \ ({"caller"} \X {"src_r", "src_w"})
    BY <1>9 DEF CallerForked, Close, writer, reader
  <2>2. /\ <<"caller", "src_r">> \notin ends' /\ <<"caller", "src_w">> \notin ends'
        /\ <<"caller", "dst_w">> \notin ends' /\ <<"caller", "dst_r">> \notin ends'
        /\ \A e : <<"reader", e>> \in ends' <=> <<"reader", e>> \in ends
    BY <1>1, <1>2, <1>9, <2>1 DEF EndsInv
  <2>3. QED
    BY <1>1, <1>2, <1>9, <2>1, <2>2 DEF EndsInv
<1>10. CASE Forked /\ (CallerJoinsWriter \/ CallerGets \/ CallerJoinsReader)
  <2>1. UNCHANGED <<ends, wpc, rpc>> /\ cpc \notin {"fork", "splice"}
    BY <1>10 DEF CallerJoinsWriter, CallerGets, CallerJoinsReader, writer, reader
  <2>2. QED
    BY <1>1, <1>2, <1>10, <2>1 DEF EndsInv
<1>11. CASE Spliced /\ (SpliceEnds \/ SpliceRaises)
  <2>1. /\ wpc' = wpc /\ rpc' = rpc /\ cpc = "splice" /\ cpc' \in {"join_writer", "failed"}
        /\ ends' = ends \ ({"caller"} \X {"src_r", "dst_w"})
    BY <1>11 DEF SpliceEnds, SpliceRaises, Close, writer, reader
  <2>2. /\ <<"caller", "src_r">> \notin ends' /\ <<"caller", "dst_w">> \notin ends'
        /\ <<"caller", "src_w">> \notin ends'
        /\ <<"writer", "src_w">> \in ends' <=> <<"writer", "src_w">> \in ends
    BY <1>1, <1>2, <1>11, <2>1 DEF EndsInv
  <2>3. QED
    BY <1>1, <1>2, <1>11, <2>1, <2>2 DEF EndsInv
<1>12. CASE Spliced /\ (MoverJoinsWriter \/ MoverJoinsSampler)
  <2>1. /\ UNCHANGED <<ends, wpc, rpc>>
        /\ cpc \in {"join_writer", "join_sampler"} /\ cpc' \in {"join_reader", "raised", "done"}
        /\ cpc' = "join_reader" \/ cpc = "join_sampler"
    BY <1>12 DEF MoverJoinsWriter, MoverJoinsSampler, Return, writer, reader
  <2>2. QED
    BY <1>1, <1>2, <1>12, <2>1 DEF EndsInv
<1>13. CASE Spliced /\ MoverJoinsReader
  <2>1. /\ wpc' = wpc /\ rpc' = rpc /\ cpc = "join_reader" /\ cpc' \in {"join_sampler", "raised", "done"}
        /\ ends' = ends \ ({"caller"} \X {"dst_r"})
    BY <1>13 DEF MoverJoinsReader, Return, Close, writer, reader
  <2>2. /\ <<"caller", "dst_r">> \notin ends'
        /\ \A p, e : e # "dst_r" => (<<p, e>> \in ends' <=> <<p, e>> \in ends)
    BY <2>1
  <2>3. QED
    BY <1>1, <1>2, <1>13, <2>1, <2>2 DEF EndsInv
<1>14. CASE route = "ingest" /\ (PackChunk \/ PackEmpty \/ PackEnds \/ stream_chunk \/ StreamEnds)
  <2>1. ends' = ends
    BY <1>14 DEF PackChunk, PackEmpty, PackEnds, stream_chunk, StreamEnds, Kept
  <2>2. QED
    BY <1>1, <1>2, <1>3, <1>14, <2>1 DEF EndsInv
<1>15. (route = "stealth" => Spliced) /\ (route = "tracked" => Forked)
  BY DEF Forked, Spliced
<1>16. QED
  BY <1>1, <1>5, <1>6, <1>7, <1>8, <1>9, <1>10, <1>11, <1>12, <1>13, <1>14, <1>15,
     StepOfARoute, Zenon

LEMMA MovedStep ==
    ASSUME StreamsIInv, StreamsNext
    PROVE  MovedInv'
<1>1. StreamsTypeOK /\ PlaceInv
  BY DEF StreamsIInv
<1>2. route' = route /\ (Spliced' <=> Spliced) /\ (Forked => ~Spliced) /\ (route = "ingest" => ~Spliced)
  BY <1>1, SetupStays DEF Forked, Spliced
<1>3. CASE ~Spliced
  BY <1>2, <1>3 DEF MovedInv
<1>4. SUFFICES ASSUME Spliced PROVE MovedInv'
  BY <1>3
<1>5. /\ cpc \notin {"splice", "failed"} => remaining = 0 \/ (src = <<>> /\ wpc = "ended")
      /\ rpc = "ended" => dst = <<>> /\ cpc # "splice"
      /\ cpc \in {"join_reader", "join_sampler", "done", "raised"} => wpc = "ended"
      /\ cpc \in {"join_sampler", "done", "raised"} => rpc = "ended"
      /\ cpc = "done" => ~error
  BY <1>4 DEF StreamsIInv, MovedInv
<1>6. SUFFICES /\ cpc' \notin {"splice", "failed"} => remaining' = 0 \/ (src' = <<>> /\ wpc' = "ended")
               /\ rpc' = "ended" => dst' = <<>> /\ cpc' # "splice"
               /\ cpc' \in {"join_reader", "join_sampler", "done", "raised"} => wpc' = "ended"
               /\ cpc' \in {"join_sampler", "done", "raised"} => rpc' = "ended"
               /\ cpc' = "done" => ~error'
  BY DEF MovedInv
<1>7. CASE WriterHop \/ Write
  <2>1. /\ wpc # "ended" /\ wpc' # "ended"
        /\ UNCHANGED <<cpc, remaining, rpc, dst, error>>
    BY <1>7 DEF WriterHop, Write, reader, caller
  <2>2. QED
    BY <1>5, <2>1
<1>8. CASE FeederCloses
  <2>1. wpc # "ended" /\ wpc' = "ended" /\ UNCHANGED <<cpc, remaining, rpc, dst, src>>
    BY <1>8 DEF FeederCloses, reader, caller
  <2>2. QED
    BY <1>5, <2>1
<1>9. CASE Drain
  <2>1. UNCHANGED <<cpc, remaining, src, wpc, error>> /\ rpc = "read"
    BY <1>9 DEF Drain, writer, caller
  <2>2. ASSUME rpc' = "ended" PROVE dst' = <<>> /\ cpc # "splice"
    <3>1. dst = <<>> /\ dst' = dst /\ ~Open("dst_w")
      BY <1>9, <2>1, <2>2 DEF Drain
    <3>2. <<"caller", "dst_w">> \notin ends
      BY <3>1 DEF Open, Processes
    <3>3. cpc # "splice"
      BY <1>4, <3>2 DEF StreamsIInv, EndsInv
    <3>4. QED
      BY <3>1, <3>3
  <2>3. rpc' = "ended" \/ rpc' = rpc
    BY <1>9 DEF Drain
  <2>4. QED
    BY <1>5, <2>1, <2>2, <2>3
<1>10. CASE Splice
  <2>1. cpc = "splice" /\ UNCHANGED <<cpc, rpc, wpc, error>>
    BY <1>10 DEF Splice, writer, reader
  <2>2. QED
    BY <1>5, <2>1
<1>11. CASE SpliceEnds
  <2>1. /\ cpc = "splice" /\ cpc' = "join_writer" /\ UNCHANGED <<rpc, wpc, error, src, dst, remaining>>
        /\ remaining = 0 \/ (src = <<>> /\ ~Open("src_w"))
    BY <1>11 DEF SpliceEnds, writer, reader
  <2>2. ~Open("src_w") => wpc = "ended"
    <3>1. wpc # "ended" => <<"writer", "src_w">> \in ends
      BY <1>4 DEF StreamsIInv, EndsInv
    <3>2. QED
      BY <3>1 DEF Open, Processes
  <2>3. QED
    BY <1>5, <2>1, <2>2
<1>12. CASE SpliceRaises
  <2>1. cpc = "splice" /\ cpc' = "failed" /\ UNCHANGED <<rpc, wpc, error, src, dst, remaining>>
    BY <1>12 DEF SpliceRaises, writer, reader
  <2>2. QED
    BY <1>5, <2>1
<1>13. CASE MoverJoinsWriter
  <2>1. /\ cpc = "join_writer" /\ wpc = "ended" /\ cpc' = "join_reader"
        /\ UNCHANGED <<rpc, wpc, error, src, dst, remaining>>
    BY <1>13 DEF MoverJoinsWriter, writer, reader
  <2>2. QED
    BY <1>5, <2>1
<1>14. CASE MoverJoinsReader
  <2>1. /\ cpc = "join_reader" /\ rpc = "ended" /\ UNCHANGED <<rpc, wpc, error, src, dst, remaining>>
        /\ cpc' = "join_sampler" \/ (cpc' = "raised" /\ error) \/ (cpc' = "done" /\ ~error)
    BY <1>14 DEF MoverJoinsReader, Return, writer, reader
  <2>2. QED
    BY <1>5, <2>1
<1>15. CASE MoverJoinsSampler
  <2>1. /\ cpc = "join_sampler" /\ UNCHANGED <<rpc, wpc, error, src, dst, remaining>>
        /\ (cpc' = "raised" /\ error) \/ (cpc' = "done" /\ ~error)
    BY <1>15 DEF MoverJoinsSampler, Return, writer, reader
  <2>2. QED
    BY <1>5, <2>1
<1>16. CASE SamplerEnds
  <2>1. UNCHANGED <<cpc, rpc, wpc, error, src, dst, remaining>>
    BY <1>16 DEF SamplerEnds, writer, reader, caller
  <2>2. QED
    BY <1>5, <2>1
<1>17. route # "tracked"
  BY <1>4 DEF Spliced
<1>18. QED
  BY <1>1, <1>2, <1>4, <1>7, <1>8, <1>9, <1>10, <1>11, <1>12, <1>13, <1>14, <1>15, <1>16, <1>17,
     StepOfARoute, Zenon

\* A read takes as much from a pipe as it leaves less in it.
LEMMA PipeLess ==
    ASSUME NEW s \in Seq(Nat), NEW n \in Nat, n <= Len(s)
    PROVE  Len(SubSeq(s, n + 1, Len(s))) = Len(s) - n
<1>1. Len(s) \in Nat /\ \A i \in n + 1 .. Len(s) : s[i] \in Nat
  BY ElementOfSeq
<1>2. Len(SubSeq(s, n + 1, Len(s))) = IF n + 1 <= Len(s) THEN Len(s) - (n + 1) + 1 ELSE 0
  BY <1>1, SubSeqProperties
<1>3. QED
  BY <1>1, <1>2

LEMMA CountStep ==
    ASSUME StreamsIInv, StreamsNext
    PROVE  CountInv'
<1>1. StreamsTypeOK /\ PlaceInv /\ src \in Seq(Nat)
  BY DEF StreamsIInv, DataInv
<1>2. /\ route' = route /\ expected' = expected /\ (Spliced' <=> Spliced)
      /\ (Forked => ~Spliced) /\ (Spliced => route # "ingest" /\ route # "tracked")
  BY <1>1, SetupStays DEF Forked, Spliced
<1>3. CASE ~Spliced
  BY <1>2, <1>3 DEF CountInv
<1>4. SUFFICES ASSUME Spliced PROVE remaining' + Len(received') + Len(dst') = expected
  BY <1>2, <1>3 DEF CountInv
<1>5. remaining + Len(received) + Len(dst) = expected
  BY <1>4 DEF StreamsIInv, CountInv
<1>6. remaining \in Nat /\ pos \in Nat
  BY NumbersOf
<1>7. Passing(received, dst, src, pos)
  BY <1>2, <1>4 DEF StreamsIInv, PassingInv
<1>8. /\ Len(received) \in Nat /\ Len(dst) \in Nat /\ Len(src) \in Nat
      /\ Len(received) + Len(dst) + Len(src) = pos
  BY <1>6, <1>7, PassingIn
<1>9. pos' \in Nat /\ Passing(received', dst', src', pos')
  BY <1>2, <1>4, PassingStep DEF PassingInv
<1>10. /\ Len(received') \in Nat /\ Len(dst') \in Nat /\ Len(src') \in Nat
       /\ Len(received') + Len(dst') + Len(src') = pos'
  BY <1>9, PassingIn
<1>11. CASE UNCHANGED <<remaining, received, dst>>
  BY <1>5, <1>11
<1>12. CASE Drain
  <2>1. UNCHANGED <<remaining, src, pos>>
    BY <1>12 DEF Drain, writer, caller
  <2>2. QED
    BY <1>5, <1>6, <1>8, <1>10, <2>1
<1>13. CASE Splice
  <2>1. UNCHANGED <<received, pos>>
    BY <1>13 DEF Splice, writer, reader
  <2>2. PICK n \in Moves(remaining, Len(src), Capacity - Len(dst)) :
            src' = SubSeq(src, n + 1, Len(src)) /\ remaining' = remaining - n
    BY <1>13 DEF Splice
  <2>3. remaining \in Nat /\ Len(src) \in Nat /\ Capacity - Len(dst) \in Nat
    BY NumbersOf
  <2>4. n \in Nat /\ n <= Len(src)
    BY <2>3, MovesWithin
  <2>5. Len(src') = Len(src) - n
    BY <1>1, <2>2, <2>4, PipeLess
  <2>6. Len(received') = Len(received) /\ pos' = pos
    BY <2>1
  <2>7. Len(dst') = Len(dst) + n
    BY <1>6, <1>8, <1>10, <2>4, <2>5, <2>6
  <2>8. remaining' = remaining - n
    BY <2>2
  <2>9. QED
    BY <1>5, <1>6, <1>8, <2>4, <2>6, <2>7, <2>8
<1>14. CASE WriterHop \/ Write \/ FeederCloses \/ SpliceEnds \/ SpliceRaises \/ MoverJoinsWriter
            \/ MoverJoinsReader \/ MoverJoinsSampler \/ SamplerEnds
  BY <1>11, <1>14 DEF WriterHop, Write, FeederCloses, SpliceEnds, SpliceRaises, MoverJoinsWriter,
     MoverJoinsReader, MoverJoinsSampler, SamplerEnds, reader, caller
<1>15. QED
  BY <1>1, <1>2, <1>4, <1>12, <1>13, <1>14, StepOfARoute, Zenon

-----------------------------------------------------------------------------
(* The chunks of a box.                                                    *)

\* Only from_file() makes pools and chunks.
LEMMA BoxKept ==
    ASSUME StreamsTypeOK, PlaceInv, StreamsNext, ~(route = "ingest" /\ (PackChunk \/ PackEmpty))
    PROVE  UNCHANGED <<pools, chunks>>
<1>1. CASE \/ WriterHop \/ Write \/ WriterCloses \/ WriterPuts \/ FeederCloses \/ WriterDies
           \/ Receive \/ ReceiveEnds \/ ReaderFalls \/ ReaderEnds \/ Drain \/ ReaderDies
  BY <1>1 DEF WriterHop, Write, WriterCloses, WriterPuts, FeederCloses, WriterDies, Receive,
              ReceiveEnds, ReaderFalls, ReaderEnds, Drain, ReaderDies, setup, ingest
<1>2. CASE \/ CallerForked \/ CallerJoinsWriter \/ CallerGets \/ CallerJoinsReader
           \/ Splice \/ SpliceEnds \/ SpliceRaises \/ MoverJoinsWriter \/ MoverJoinsReader
           \/ MoverJoinsSampler \/ SamplerEnds
  BY <1>2 DEF CallerForked, CallerJoinsWriter, CallerGets, CallerJoinsReader, Splice, SpliceEnds,
              SpliceRaises, MoverJoinsWriter, MoverJoinsReader, MoverJoinsSampler, SamplerEnds,
              setup, ingest
<1>3. CASE PackEnds \/ stream_chunk \/ StreamEnds
  BY <1>3 DEF PackEnds, stream_chunk, StreamEnds, ingest
<1>4. QED
  BY <1>1, <1>2, <1>3, StepOfARoute, Zenon

LEMMA SlotsStep ==
    ASSUME StreamsIInv, StreamsNext
    PROVE  /\ pools' \in Seq(APool) /\ chunks' \in Seq(AChunk)
           /\ \A i \in DOMAIN pools' : pools'[i].cursor <= pools'[i].size
           /\ SlotsInv'
<1>1. CASE route = "ingest" /\ (PackChunk \/ PackEmpty)
  <2>1. PICK n \in Nat, length \in Lengths :
            Bytes(pos, pos + n) \in Seq(Nat) /\ new_chunk(Bytes(pos, pos + n), length)
    BY <1>1, PackedBytes, Zenon
  <2>2. PICK plain : plain = Bytes(pos, pos + n)
    OBVIOUS
  <2>3. plain \in Seq(Nat) /\ new_chunk(plain, length)
    BY <2>1, <2>2
  <2>4. QED
    BY <2>3, SlotOfANewChunk
<1>2. CASE ~(route = "ingest" /\ (PackChunk \/ PackEmpty))
  <2>1. UNCHANGED <<pools, chunks>>
    BY <1>2, BoxKept DEF StreamsIInv
  <2>2. QED
    BY <2>1 DEF StreamsIInv, StreamsTypeOK, DataInv, SlotsInv, APool, AChunk
<1>3. QED
  BY <1>1, <1>2

\* End() with the chunks as a parameter, before and after a step.
EndIn(cs, i) == IF i = 0 THEN 0 ELSE cs[i].from + Len(cs[i].plain)

FileIs(cs, p) ==
    /\ p = EndIn(cs, Len(cs))
    /\ \A i \in DOMAIN cs :
         /\ cs[i].from = EndIn(cs, i - 1) /\ EndIn(cs, i) <= p
         /\ cs[i].plain = Bytes(cs[i].from, EndIn(cs, i))

\* The next bytes make the next chunk.
LEMMA FileGrows ==
    ASSUME NEW cs \in Seq(AChunk), NEW p \in Nat, NEW n \in Nat, NEW c \in AChunk,
           FileIs(cs, p), c.plain = Bytes(p, p + n), c.from = p
    PROVE  FileIs(Append(cs, c), p + n)
<1> DEFINE ds == Append(cs, c)
<1>1. /\ DOMAIN ds = 1 .. Len(cs) + 1 /\ Len(ds) = Len(cs) + 1
      /\ Len(cs) \in Nat /\ DOMAIN cs = 1 .. Len(cs)
      /\ \A i \in 1 .. Len(cs) : ds[i] = cs[i]
      /\ ds[Len(cs) + 1] = c
  BY AppendProperties
<1> HIDE DEF ds
<1>2. p + n \in Nat /\ p <= p + n /\ (p + n) - p = n
  OBVIOUS
<1>3. Len(c.plain) = n
  <2>1. Len(Bytes(p, p + n)) = (p + n) - p
    BY <1>2, BytesAre, Zenon
  <2>2. QED
    BY <1>2, <2>1
<1>4. EndIn(ds, Len(cs) + 1) = p + n
  BY <1>1, <1>3 DEF EndIn
<1>5. \A i \in 0 .. Len(cs) : EndIn(ds, i) = EndIn(cs, i)
  BY <1>1 DEF EndIn
<1>6. EndIn(cs, Len(cs)) = p
  BY DEF FileIs
<1>7. ASSUME NEW i \in DOMAIN ds
      PROVE  /\ ds[i].from = EndIn(ds, i - 1) /\ EndIn(ds, i) <= p + n
             /\ ds[i].plain = Bytes(ds[i].from, EndIn(ds, i))
  <2>1. CASE i = Len(cs) + 1
    <3>1. i - 1 = Len(cs) /\ Len(cs) \in 0 .. Len(cs) /\ ds[i] = c
      BY <1>1, <2>1
    <3>2. EndIn(ds, i - 1) = p /\ EndIn(ds, i) = p + n
      BY <1>4, <1>5, <1>6, <2>1, <3>1
    <3>3. QED
      BY <1>2, <3>1, <3>2
  <2>2. CASE i \in 1 .. Len(cs)
    <3>1. i - 1 \in 0 .. Len(cs) /\ i \in 0 .. Len(cs) /\ ds[i] = cs[i] /\ i \in DOMAIN cs
      BY <1>1, <2>2
    <3>2. /\ cs[i].from = EndIn(cs, i - 1) /\ EndIn(cs, i) <= p
          /\ cs[i].plain = Bytes(cs[i].from, EndIn(cs, i))
      BY <3>1 DEF FileIs
    <3>3. cs[i] \in AChunk
      BY <3>1, <1>1, ElementOfSeq
    <3>4. EndIn(cs, i) \in Nat
      <4>1. cs[i].from \in Nat /\ Len(cs[i].plain) \in Nat
        <5>1. cs[i].from \in Nat /\ cs[i].plain \in Seq(Nat)
          BY <3>3 DEF AChunk
        <5>2. QED
          BY <5>1, LenProperties
      <4>2. QED
        BY <4>1, <3>1 DEF EndIn
    <3>5. EndIn(cs, i) <= p + n
      BY <3>2, <3>4
    <3>6. QED
      BY <1>5, <3>1, <3>2, <3>5
  <2>3. QED
    BY <1>1, <2>1, <2>2
<1>8. FileIs(ds, p + n)
  BY <1>1, <1>4, <1>7 DEF FileIs
<1>9. QED
  BY <1>8 DEF ds

LEMMA FileStep ==
    ASSUME StreamsIInv, StreamsNext
    PROVE  FileInv'
<1>1. StreamsTypeOK /\ PlaceInv /\ chunks \in Seq(AChunk)
  BY DEF StreamsIInv, DataInv, AChunk
<1>2. route' = route
  BY <1>1, SetupStays
<1>3. CASE route # "ingest"
  BY <1>2, <1>3 DEF FileInv
<1>4. CASE route = "ingest" /\ (PackChunk \/ PackEmpty)
  <2>1. pos \in Nat
    BY NumbersOf
  <2>2. PICK n \in Nat, length \in Lengths :
            /\ pos' = pos + n /\ pos + n \in Nat
            /\ Bytes(pos, pos + n) \in Seq(Nat) /\ new_chunk(Bytes(pos, pos + n), length)
    BY <1>4, PackedBytes, Zenon
  <2>3. PICK plain : plain = Bytes(pos, pos + n)
    OBVIOUS
  <2>4. PICK c \in AChunk : chunks' = Append(chunks, c) /\ c.plain = plain /\ c.from = pos
    <3>1. plain \in Seq(Nat) /\ new_chunk(plain, length)
      BY <2>2, <2>3
    <3>2. QED
      BY <3>1, SlotOfANewChunk
  <2>5. FileIs(chunks, pos)
    BY <1>4 DEF StreamsIInv, FileInv, FileIs, End, EndIn
  <2>6. \A p \in Nat, cs \in Seq(AChunk) : FileIs(cs, p) /\ c.plain = Bytes(p, p + n) /\ c.from = p
            => FileIs(Append(cs, c), p + n)
    BY FileGrows
  <2>7. FileIs(chunks', pos')
    BY <1>1, <2>1, <2>2, <2>3, <2>4, <2>5, <2>6
  <2>8. QED
    BY <2>7 DEF FileInv, FileIs, End, EndIn
<1>5. CASE route = "ingest" /\ ~(PackChunk \/ PackEmpty)
  <2>1. UNCHANGED <<pools, chunks>>
    BY <1>1, <1>5, BoxKept
  <2>2. pos' = pos
    <3>1. CASE PackEnds \/ stream_chunk \/ StreamEnds
      BY <3>1 DEF PackEnds, stream_chunk, StreamEnds
    <3>2. CASE SamplerEnds
      BY <3>2 DEF SamplerEnds, writer
    <3>3. ~Forked /\ ~Spliced
      BY <1>5 DEF Forked, Spliced
    <3>4. QED
      BY <1>1, <1>5, <3>1, <3>2, <3>3, StepOfARoute
  <2>3. FileIs(chunks, pos)
    BY <1>5 DEF StreamsIInv, FileInv, FileIs, End, EndIn
  <2>4. FileIs(chunks', pos')
    BY <2>1, <2>2, <2>3
  <2>5. QED
    BY <2>4 DEF FileInv, FileIs, End, EndIn
<1>6. QED
  BY <1>3, <1>4, <1>5

-----------------------------------------------------------------------------
(* What has been streamed of a box.                                        *)

LEMMA BytesStart ==
    ASSUME NEW e \in Nat, NEW l \in Nat, NEW n \in Nat, n <= l
    PROVE  SubSeq(Bytes(e, e + l), 1, n) = Bytes(e, e + n)
<1>1. e + l \in Nat /\ e <= e + l /\ n <= (e + l) - e
  OBVIOUS
<1>2. QED
  BY <1>1, BytesSplit

\* One more chunk, or what of it is left to write.
LEMMA StreamedMore ==
    ASSUME StreamsIInv, route = "ingest", stream_chunk
    PROVE  /\ sent' \in 0 .. Len(chunks) /\ sent' = sent + 1 /\ End(sent + 1) \in Nat
           /\ remaining' \in Nat /\ remaining' + Len(received') = expected
           /\ received' \in Seq(Nat) /\ received' = Piece(Len(received'))
           /\ Len(received') = IF End(sent + 1) < expected THEN End(sent + 1) ELSE expected
<1>1. /\ sent \in 0 .. Len(chunks) /\ chunks \in Seq(AChunk) /\ received \in Seq(Nat)
  BY DEF StreamsIInv, DataInv, AChunk
<1>2. /\ remaining + Len(received) = expected
      /\ received = Piece(Len(received))
      /\ Len(received) = IF End(sent) < expected THEN End(sent) ELSE expected
  BY DEF StreamsIInv, SentInv
<1>3. expected \in Nat /\ remaining \in Nat
  BY NumbersOf
<1>4. sent < Len(chunks) /\ remaining > 0 /\ sent' = sent + 1
  BY DEF stream_chunk
<1>5. PICK k \in Nat : k = sent + 1 /\ k \in DOMAIN chunks /\ k - 1 = sent /\ k # 0
  BY <1>1, <1>4
<1>6. chunks[k] \in AChunk
  BY <1>1, <1>5, ElementOfSeq
<1>7. chunks[k].from \in Nat /\ chunks[k].plain \in Seq(Nat) /\ Len(chunks[k].plain) \in Nat
  <2>1. chunks[k].from \in Nat /\ chunks[k].plain \in Seq(Nat)
    BY <1>6 DEF AChunk
  <2>2. QED
    BY <2>1, LenProperties
<1>8. chunks[k].from = End(sent) /\ chunks[k].plain = Bytes(chunks[k].from, End(k))
  BY <1>5 DEF StreamsIInv, FileInv
<1>9. End(k) = chunks[k].from + Len(chunks[k].plain)
  BY <1>5 DEF End
<1>10. PICK e \in Nat, l \in Nat : e = End(sent) /\ l = Len(chunks[k].plain)
  BY <1>7, <1>8
<1>11. End(k) = e + l /\ chunks[k].plain = Bytes(e, e + l)
  BY <1>8, <1>9, <1>10
<1>12. e < expected /\ Len(received) = e /\ received = Bytes(0, e) /\ remaining = expected - e
  <2>1. Len(received) \in Nat
    BY <1>1, LenProperties
  <2>2. e < expected /\ Len(received) = e /\ remaining = expected - e
    BY <2>1, <1>2, <1>3, <1>4, <1>10
  <2>3. QED
    BY <2>2, <1>2, PieceIsBytes
<1>13. PICK n \in Nat : n = Min({l, remaining}) /\ n = IF l <= remaining THEN l ELSE remaining
  BY <1>3, MinOfTwo
<1>14. n <= l
  BY <1>3, <1>13
<1>15. /\ received' = received \o SubSeq(chunks[k].plain, 1, n) /\ remaining' = remaining - n
  BY <1>5, <1>10, <1>13 DEF stream_chunk
<1>16. SubSeq(Bytes(e, e + l), 1, n) = Bytes(e, e + n)
  BY <1>14, BytesStart
<1>17. received' = Bytes(0, e + n)
  <2>1. 0 \in Nat /\ 0 <= e /\ e + n \in Nat /\ e <= e + n
    OBVIOUS
  <2>2. Bytes(0, e) \o Bytes(e, e + n) = Bytes(0, e + n)
    BY <2>1, BytesJoin
  <2>3. QED
    BY <2>2, <1>11, <1>12, <1>15, <1>16
<1>18. /\ received' \in Seq(Nat) /\ Len(received') = e + n /\ received' = Piece(Len(received'))
  <2>1. e + n \in Nat
    OBVIOUS
  <2>2. Piece(e + n) = Bytes(0, e + n) /\ Piece(e + n) \in Seq(Nat) /\ Len(Piece(e + n)) = e + n
    BY <2>1, PieceIsBytes
  <2>3. QED
    BY <2>2, <1>17
<1>19. remaining' \in Nat /\ remaining' + Len(received') = expected
  <2>1. n <= remaining /\ remaining' = remaining - n /\ Len(received') = e + n
    BY <1>3, <1>13, <1>15, <1>18
  <2>2. remaining = expected - e
    BY <1>12
  <2>3. QED
    BY <1>3, <2>1, <2>2
<1>20. End(sent + 1) = e + l /\ e + l \in Nat
  BY <1>5, <1>11
<1>21. Len(received') = IF e + l < expected THEN e + l ELSE expected
  BY <1>3, <1>12, <1>13, <1>18
<1>22. sent' \in 0 .. Len(chunks)
  <2>1. Len(chunks) \in Nat
    BY <1>1, LenProperties
  <2>2. QED
    BY <2>1, <1>1, <1>4
<1>23. Len(received') = IF End(sent + 1) < expected THEN End(sent + 1) ELSE expected
  BY <1>20, <1>21
<1>24. QED
  BY <1>4, <1>18, <1>19, <1>20, <1>22, <1>23

LEMMA SentStep ==
    ASSUME StreamsIInv, StreamsNext
    PROVE  SentInv' /\ sent' \in 0 .. Len(chunks') /\ (route = "ingest" => received' \in Seq(Nat))
<1>1. /\ StreamsTypeOK /\ PlaceInv /\ sent \in 0 .. Len(chunks) /\ chunks \in Seq(AChunk)
      /\ received \in Seq(Nat) /\ Len(chunks) \in Nat
  BY DEF StreamsIInv, DataInv, AChunk
<1>2. route' = route /\ expected' = expected
  BY <1>1, SetupStays
<1>3. CASE route # "ingest"
  <2>1. UNCHANGED <<pools, chunks>>
    BY <1>1, <1>3, BoxKept
  <2>2. sent' = sent
    <3>1. CASE \/ WriterHop \/ Write \/ WriterCloses \/ WriterPuts \/ FeederCloses \/ WriterDies
               \/ Receive \/ ReceiveEnds \/ ReaderFalls \/ ReaderEnds \/ Drain \/ ReaderDies
      BY <3>1 DEF WriterHop, Write, WriterCloses, WriterPuts, FeederCloses, WriterDies, Receive,
                  ReceiveEnds, ReaderFalls, ReaderEnds, Drain, ReaderDies, setup, ingest
    <3>2. CASE \/ CallerForked \/ CallerJoinsWriter \/ CallerGets \/ CallerJoinsReader
               \/ Splice \/ SpliceEnds \/ SpliceRaises \/ MoverJoinsWriter \/ MoverJoinsReader
               \/ MoverJoinsSampler \/ SamplerEnds
      BY <3>2 DEF CallerForked, CallerJoinsWriter, CallerGets, CallerJoinsReader, Splice, SpliceEnds,
                  SpliceRaises, MoverJoinsWriter, MoverJoinsReader, MoverJoinsSampler, SamplerEnds,
                  setup, ingest
    <3>3. QED
      BY <1>1, <1>3, <3>1, <3>2, StepOfARoute, Zenon
  <2>3. QED
    BY <1>1, <1>2, <1>3, <2>1, <2>2 DEF SentInv
<1>4. SUFFICES ASSUME route = "ingest"
               PROVE  SentInv' /\ sent' \in 0 .. Len(chunks') /\ received' \in Seq(Nat)
  BY <1>3
<1>5. /\ remaining + Len(received) = expected
      /\ received = Piece(Len(received))
      /\ Len(received) = IF End(sent) < expected THEN End(sent) ELSE expected
      /\ cpc = "pack" => sent = 0
      /\ cpc \in {"stream", "done"} => pos = Length
      /\ cpc = "done" => sent = Len(chunks) \/ remaining = 0
  BY <1>4 DEF StreamsIInv, SentInv
<1>6. ASSUME out' = out PROVE Length' = Length
  BY <1>2, <1>4, <1>6 DEF Length, Forked
<1>7. CASE PackChunk \/ PackEmpty
  <2>1. /\ cpc = "pack" /\ cpc' = cpc /\ UNCHANGED <<received, remaining, sent>>
    BY <1>7 DEF PackChunk, PackEmpty
  <2>2. sent = 0 /\ End(sent) = 0 /\ End(sent)' = 0
    BY <1>5, <2>1 DEF End
  <2>3. Len(chunks') \in Nat
    BY SlotsStep, LenProperties
  <2>4. QED
    BY <1>1, <1>2, <1>5, <2>1, <2>2, <2>3 DEF SentInv
<1>8. CASE PackEnds
  <2>1. /\ cpc = "pack" /\ cpc' = "stream" /\ Left = 0
        /\ UNCHANGED <<received, remaining, sent, chunks, pos, out>>
    BY <1>8 DEF PackEnds, ingest, Kept
  <2>2. pos = Length /\ Length' = Length
    <3>1. Left = Length - pos /\ Length \in Nat /\ pos \in Nat
      BY <1>4, NumbersOf DEF Forked
    <3>2. QED
      BY <2>1, <3>1, <1>6
  <2>3. End(sent)' = End(sent)
    BY <2>1 DEF End
  <2>4. QED
    BY <1>1, <1>2, <1>5, <2>1, <2>2, <2>3 DEF SentInv
<1>9. CASE stream_chunk
  <2>1. /\ cpc = "stream" /\ cpc' = cpc /\ UNCHANGED <<chunks, pos, out>>
    BY <1>9 DEF stream_chunk, Kept
  <2>2. /\ sent' \in 0 .. Len(chunks) /\ sent' = sent + 1
        /\ remaining' + Len(received') = expected
        /\ received' \in Seq(Nat) /\ received' = Piece(Len(received'))
        /\ Len(received') = IF End(sent + 1) < expected THEN End(sent + 1) ELSE expected
    BY <1>4, <1>9, StreamedMore
  <2>3. End(sent)' = End(sent + 1)
    BY <2>1, <2>2 DEF End
  <2>4. pos' = Length'
    BY <1>5, <1>6, <2>1
  <2>5. QED
    BY <1>2, <2>1, <2>2, <2>3, <2>4 DEF SentInv
<1>10. CASE StreamEnds
  <2>1. /\ cpc = "stream" /\ cpc' = "done" /\ (sent = Len(chunks) \/ remaining = 0)
        /\ UNCHANGED <<received, remaining, sent, chunks, pos, out>>
    BY <1>10 DEF StreamEnds, ingest, Kept
  <2>2. End(sent)' = End(sent) /\ pos' = Length'
    BY <1>5, <1>6, <2>1 DEF End
  <2>3. QED
    BY <1>1, <1>2, <1>5, <2>1, <2>2 DEF SentInv
<1>11. CASE SamplerEnds
  <2>1. UNCHANGED <<received, remaining, sent, chunks, pos, out, cpc>>
    BY <1>11 DEF SamplerEnds, setup, ingest, writer, reader, caller
  <2>2. End(sent)' = End(sent) /\ (cpc \in {"stream", "done"} => pos' = Length')
    BY <1>5, <1>6, <2>1 DEF End
  <2>3. QED
    BY <1>1, <1>2, <1>5, <2>1, <2>2 DEF SentInv
<1>12. ~Forked /\ ~Spliced /\ route \notin {"tracked", "stealth"}
  BY <1>4 DEF Forked, Spliced
<1>13. QED
  BY <1>1, <1>4, <1>7, <1>8, <1>9, <1>10, <1>11, <1>12, StepOfARoute

-----------------------------------------------------------------------------
(* The invariant.                                                          *)

\* No pipe holds more than its capacity.
LEMMA CapacityStep ==
    ASSUME StreamsIInv, StreamsNext
    PROVE  Len(src') <= Capacity /\ Len(dst') <= Capacity
<1>1. /\ StreamsTypeOK /\ PlaceInv /\ src \in Seq(Nat) /\ dst \in Seq(Nat)
      /\ Capacity \in Nat \ {0} /\ CHUNK \in Nat \ {0}
  BY StreamsAssumption DEF StreamsIInv, DataInv
<1>2. route' = route
  BY <1>1, SetupStays
<1>3. /\ Len(src) \in Nat /\ Len(src) <= Capacity /\ Capacity - Len(src) \in Nat
      /\ Len(dst) \in Nat /\ Len(dst) <= Capacity /\ Capacity - Len(dst) \in Nat
      /\ remaining \in Nat /\ pos \in Nat
  BY NumbersOf
<1>4. CASE route = "ingest"
  <2>1. src' = <<>> /\ dst' = <<>>
    BY <1>2, <1>4, PlaceStep DEF PlaceInv
  <2>2. QED
    BY <1>1, <2>1, EmptySeq
<1>5. CASE route # "ingest" /\ Write
  <2>1. /\ wpc = "write" /\ received' = received /\ dst' = dst
    BY <1>5 DEF Write, reader
  <2>2. Left \in Nat
    BY <2>1, NumbersOf
  <2>3. PICK n \in Moves(Left, Left, Capacity - Len(src)) : pos' = pos + n
    BY <1>5 DEF Write
  <2>4. n \in Nat /\ n <= Capacity - Len(src)
    BY <1>3, <2>2, MovesWithin
  <2>5. /\ Len(received) \in Nat /\ Len(received) + Len(dst) + Len(src) = pos
    BY <1>3, <1>5, PassingIn DEF StreamsIInv, PassingInv
  <2>6. pos' \in Nat /\ Passing(received', dst', src', pos')
    BY <1>2, <1>5, PassingStep DEF PassingInv
  <2>7. Len(src') \in Nat /\ Len(received') + Len(dst') + Len(src') = pos'
    BY <2>6, PassingIn
  <2>8. Len(src') = Len(src) + n
    <3>1. Len(received') = Len(received) /\ Len(dst') = Len(dst)
      BY <2>1
    <3>2. QED
      BY <1>3, <2>3, <2>4, <2>5, <2>7, <3>1
  <2>9. QED
    BY <1>1, <1>3, <2>1, <2>4, <2>8
<1>6. CASE Receive
  <2>1. /\ src # <<>> /\ dst' = dst
        /\ src' = SubSeq(src, Min({CHUNK, Len(src)}) + 1, Len(src))
    BY <1>6 DEF Receive
  <2>2. PICK n \in Nat : n = Min({CHUNK, Len(src)}) /\ n <= Len(src)
    BY <1>1, <2>1, ReadWithin
  <2>3. Len(src') = Len(src) - n
    BY <1>1, <2>1, <2>2, PipeLess
  <2>4. QED
    BY <1>1, <1>3, <2>1, <2>2, <2>3
<1>7. CASE Drain
  <2>1. src' = src
    BY <1>7 DEF Drain
  <2>2. CASE dst = <<>>
    BY <1>3, <1>7, <2>1, <2>2 DEF Drain
  <2>3. CASE dst # <<>>
    <3>1. dst' = SubSeq(dst, Min({CHUNK, Len(dst)}) + 1, Len(dst))
      BY <1>7, <2>3 DEF Drain
    <3>2. PICK n \in Nat : n = Min({CHUNK, Len(dst)}) /\ n <= Len(dst)
      BY <1>1, <2>3, ReadWithin
    <3>3. Len(dst') = Len(dst) - n
      BY <1>1, <3>1, <3>2, PipeLess
    <3>4. QED
      BY <1>1, <1>3, <2>1, <3>2, <3>3
  <2>4. QED
    BY <2>2, <2>3
<1>8. CASE Splice
  <2>1. PICK n \in Moves(remaining, Len(src), Capacity - Len(dst)) :
            dst' = dst \o SubSeq(src, 1, n) /\ src' = SubSeq(src, n + 1, Len(src))
    BY <1>8 DEF Splice
  <2>2. n \in Nat /\ n <= Len(src) /\ n <= Capacity - Len(dst)
    BY <1>3, MovesWithin
  <2>3. Len(src') = Len(src) - n
    BY <1>1, <2>1, <2>2, PipeLess
  <2>4. Len(dst') = Len(dst) + n
    <3>1. \A i \in 1 .. n : src[i] \in Nat
      BY <1>1, <1>3, <2>2, ElementOfSeq
    <3>2. SubSeq(src, 1, n) \in Seq(Nat) /\ Len(SubSeq(src, 1, n)) = IF 1 <= n THEN n - 1 + 1 ELSE 0
      BY <2>2, <3>1, SubSeqProperties
    <3>3. Len(SubSeq(src, 1, n)) = n
      BY <2>2, <3>2
    <3>4. QED
      BY <1>1, <2>1, <3>2, <3>3, ConcatProperties
  <2>5. QED
    BY <1>1, <1>3, <2>2, <2>3, <2>4
<1>9. CASE UNCHANGED <<src, dst>>
  BY <1>3, <1>9
<1>10. CASE \/ WriterHop \/ WriterCloses \/ WriterPuts \/ FeederCloses \/ WriterDies
            \/ ReceiveEnds \/ ReaderFalls \/ ReaderEnds \/ ReaderDies
  BY <1>9, <1>10 DEF WriterHop, WriterCloses, WriterPuts, FeederCloses, WriterDies, ReceiveEnds,
                     ReaderFalls, ReaderEnds, ReaderDies
<1>11. CASE \/ CallerForked \/ CallerJoinsWriter \/ CallerGets \/ CallerJoinsReader
            \/ SpliceEnds \/ SpliceRaises \/ MoverJoinsWriter \/ MoverJoinsReader
            \/ MoverJoinsSampler \/ SamplerEnds
  BY <1>9, <1>11 DEF CallerForked, CallerJoinsWriter, CallerGets, CallerJoinsReader, SpliceEnds,
       SpliceRaises, MoverJoinsWriter, MoverJoinsReader, MoverJoinsSampler, SamplerEnds
<1>12. QED
  BY <1>1, <1>4, <1>5, <1>6, <1>7, <1>8, <1>10, <1>11, StepOfARoute, Zenon

\* The counters stay within their bounds.
LEMMA CountersStep ==
    ASSUME StreamsIInv, StreamsNext
    PROVE  hops' \in 0 .. MaxHops /\ remaining' \in 0 .. expected
<1>1. /\ StreamsTypeOK /\ PlaceInv /\ hops \in 0 .. MaxHops /\ remaining \in 0 .. expected
      /\ MaxHops \in Nat
  BY StreamsAssumption DEF StreamsIInv, StreamsTypeOK
<1>2. /\ expected \in Nat /\ remaining \in Nat /\ Len(src) \in Nat /\ Capacity - Len(dst) \in Nat
  BY NumbersOf
<1>3. CASE UNCHANGED <<hops, remaining>>
  BY <1>1, <1>3
<1>4. CASE WriterHop
  <2>1. remaining' = remaining /\ (hops' = hops \/ (hops > 0 /\ hops' = hops - 1))
    BY <1>4 DEF WriterHop, caller
  <2>2. QED
    BY <1>1, <2>1
<1>5. CASE Splice
  <2>1. PICK n \in Moves(remaining, Len(src), Capacity - Len(dst)) : remaining' = remaining - n
    BY <1>5 DEF Splice
  <2>2. n \in Nat /\ n <= remaining
    BY <1>2, MovesWithin
  <2>3. hops' = hops
    BY <1>5 DEF Splice, writer
  <2>4. QED
    BY <1>1, <1>2, <2>1, <2>2, <2>3
<1>6. CASE route = "ingest" /\ stream_chunk
  <2>1. /\ remaining' \in Nat /\ remaining' + Len(received') = expected
        /\ received' \in Seq(Nat)
    BY <1>6, StreamedMore
  <2>2. Len(received') \in Nat
    BY <2>1, LenProperties
  <2>3. hops' = hops
    BY <1>6 DEF stream_chunk, Kept
  <2>4. QED
    BY <1>1, <1>2, <2>1, <2>2, <2>3
<1>7. CASE \/ Write \/ WriterCloses \/ WriterPuts \/ FeederCloses \/ WriterDies
           \/ Receive \/ ReceiveEnds \/ ReaderFalls \/ ReaderEnds \/ Drain \/ ReaderDies
  BY <1>3, <1>7 DEF Write, WriterCloses, WriterPuts, FeederCloses, WriterDies, Receive, ReceiveEnds,
                    ReaderFalls, ReaderEnds, Drain, ReaderDies, writer, caller
<1>8. CASE \/ CallerForked \/ CallerJoinsWriter \/ CallerGets \/ CallerJoinsReader
           \/ SpliceEnds \/ SpliceRaises \/ MoverJoinsWriter \/ MoverJoinsReader
           \/ MoverJoinsSampler \/ SamplerEnds
  BY <1>3, <1>8 DEF CallerForked, CallerJoinsWriter, CallerGets, CallerJoinsReader, SpliceEnds,
       SpliceRaises, MoverJoinsWriter, MoverJoinsReader, MoverJoinsSampler, SamplerEnds, writer, caller
<1>9. CASE PackChunk \/ PackEmpty \/ PackEnds \/ StreamEnds
  BY <1>3, <1>9 DEF PackChunk, PackEmpty, PackEnds, StreamEnds, Kept
<1>10. QED
  BY <1>1, <1>4, <1>5, <1>6, <1>7, <1>8, <1>9, StepOfARoute, Zenon

\* The labels, the flags and the ends of the pipes.
Labels ==
    /\ ends \subseteq Processes \X {"src_r", "src_w", "dst_r", "dst_w"}
    /\ wpc \in {"fall", "write", "put", "ended", "dead"}
    /\ rpc \in {"read", "fall", "flush", "ended", "dead"}
    /\ cpc \in {"fork", "join_writer", "get", "get again", "join_reader", "join_sampler",
                "splice", "pack", "stream", "done", "raised", "failed"}
    /\ error \in BOOLEAN /\ sampler \in {"on", "told", "off"}

LEMMA LabelsStep ==
    ASSUME StreamsIInv, StreamsNext
    PROVE  Labels'
<1>1. StreamsTypeOK /\ PlaceInv /\ Labels
  BY DEF StreamsIInv, StreamsTypeOK, Labels
<1>2. CASE WriterHop \/ Write \/ WriterCloses \/ WriterPuts \/ WriterDies
  BY <1>1, <1>2 DEF WriterHop, Write, WriterCloses, WriterPuts, WriterDies, Close, Labels,
                    reader, caller
<1>3. CASE FeederCloses
  <2>1. error' \in BOOLEAN
    BY <1>3 DEF FeederCloses
  <2>2. /\ ends' \subseteq ends /\ wpc' = "ended" /\ UNCHANGED <<rpc, cpc, sampler>>
    BY <1>3 DEF FeederCloses, Close, reader, caller
  <2>3. QED
    BY <1>1, <2>1, <2>2 DEF Labels
<1>4. CASE Receive \/ ReceiveEnds \/ ReaderFalls \/ ReaderEnds \/ Drain \/ ReaderDies
  BY <1>1, <1>4 DEF Receive, ReceiveEnds, ReaderFalls, ReaderEnds, Drain, ReaderDies, Close, Labels,
                    writer, caller
<1>5. CASE \/ CallerForked \/ CallerJoinsWriter \/ CallerGets \/ CallerJoinsReader
  BY <1>1, <1>5 DEF CallerForked, CallerJoinsWriter, CallerGets, CallerJoinsReader, AfterWriter,
                    Close, Labels, writer, reader
<1>6. CASE \/ Splice \/ SpliceEnds \/ SpliceRaises \/ MoverJoinsWriter \/ MoverJoinsReader
           \/ MoverJoinsSampler \/ SamplerEnds
  BY <1>1, <1>6 DEF Splice, SpliceEnds, SpliceRaises, MoverJoinsWriter, MoverJoinsReader,
       MoverJoinsSampler, SamplerEnds, Return, Close, Labels, writer, reader, caller
<1>7. CASE PackChunk \/ PackEmpty \/ PackEnds \/ stream_chunk \/ StreamEnds
  BY <1>1, <1>7 DEF PackChunk, PackEmpty, PackEnds, stream_chunk, StreamEnds, Kept, Labels
<1>8. QED
  BY <1>1, <1>2, <1>3, <1>4, <1>5, <1>6, <1>7, StepOfARoute, Zenon

LEMMA StreamsTypeStep ==
    ASSUME StreamsIInv, StreamsNext
    PROVE  StreamsTypeOK'
<1>1. StreamsTypeOK /\ PlaceInv
  BY DEF StreamsIInv
<1>2. /\ route' = route /\ expected' = expected
      /\ route \in {"handoff", "tracked", "splice", "stealth", "ingest"} /\ expected \in Sizes
  BY <1>1, SetupStays DEF StreamsTypeOK
<1>3. pos' <= Len(Current(out')) \/ wpc' \notin {"fall", "write"}
  <2>1. OutInv' /\ out' \in Boxes /\ pos' \in Nat
    BY OutStep, PassingStep
  <2>2. Current(out') \in Seq(Nat)
    BY <2>1, BounceKeeps
  <2>3. Length' \in Nat
    <3>1. expected' \in Nat
      BY <1>2, StreamsAssumption
    <3>2. Len(Current(out')) \in Nat
      BY <2>2, LenProperties
    <3>3. QED
      BY <3>1, <3>2 DEF Length
  <2>4. wpc' \in {"fall", "write"} => Current(out') = Piece(Length')
    BY <2>1 DEF OutInv
  <2>5. wpc' \in {"fall", "write"} => Len(Current(out')) = Length'
    BY <2>3, <2>4, PieceIsBytes
  <2>6. pos' <= Length'
    BY <2>1 DEF OutInv
  <2>7. QED
    BY <2>5, <2>6
<1>4. \A i \in DOMAIN pools' : pools'[i].cursor <= pools'[i].size
  BY SlotsStep
<1>5. QED
  BY <1>2, <1>3, <1>4, CapacityStep, CountersStep, LabelsStep DEF StreamsTypeOK, Labels

LEMMA DataStep ==
    ASSUME StreamsIInv, StreamsNext
    PROVE  DataInv'
<1>1. StreamsTypeOK /\ PlaceInv
  BY DEF StreamsIInv
<1>2. route' = route /\ expected' = expected
  BY <1>1, SetupStays
<1>3. pos' \in Nat /\ PassingInv'
  BY PassingStep
<1>4. received' \in Seq(Nat) /\ src' \in Seq(Nat) /\ dst' \in Seq(Nat)
  <2>1. CASE route = "ingest"
    <3>1. src' = <<>> /\ dst' = <<>>
      BY <1>2, <2>1, PlaceStep DEF PlaceInv
    <3>2. QED
      BY <2>1, <3>1, SentStep, EmptySeq
  <2>2. CASE route # "ingest"
    <3>1. Passing(received', dst', src', pos')
      BY <1>2, <1>3, <2>2 DEF PassingInv
    <3>2. QED
      BY <1>3, <3>1, PassingIn
  <2>3. QED
    BY <2>1, <2>2
<1>5. sent' \in 0 .. Len(chunks') /\ out' \in Boxes /\ kept' \in Boxes
  BY SentStep, OutStep, KeptStep
<1>6. queue' \in Seq({ReportA, ReportB(expected')}) /\ final' \in {<<>>, ReportB(expected')}
  BY <1>2, QueueStep
<1>7. pools' \in Seq(APool) /\ chunks' \in Seq(AChunk)
  BY SlotsStep
<1>8. QED
  BY <1>3, <1>4, <1>5, <1>6, <1>7 DEF DataInv, APool, AChunk, ReportA, ReportB

LEMMA StepKeepsStreams ==
    ASSUME StreamsIInv, StreamsNext
    PROVE  StreamsIInv'
BY StreamsTypeStep, DataStep, PlaceStep, OutStep, PassingStep, CountStep, EndsStep, MovedStep, ReportsStep,
   FileStep, SlotsStep, SentStep DEF StreamsIInv

LEMMA StutterKeepsStreams ==
    ASSUME StreamsIInv, UNCHANGED streamVars
    PROVE  StreamsIInv'
<1>1. /\ route' = route /\ expected' = expected /\ pools' = pools /\ chunks' = chunks /\ sent' = sent
      /\ out' = out /\ hops' = hops /\ pos' = pos /\ wpc' = wpc /\ error' = error
      /\ received' = received /\ kept' = kept /\ rpc' = rpc
      /\ cpc' = cpc /\ final' = final /\ remaining' = remaining
      /\ src' = src /\ dst' = dst /\ ends' = ends /\ queue' = queue /\ sampler' = sampler
  BY DEF streamVars, setup, ingest, writer, reader, caller
<1>2. StreamsTypeOK'
  <2>1. StreamsTypeOK
    BY DEF StreamsIInv
  <2>2. \A i \in DOMAIN pools' : pools'[i].cursor <= pools'[i].size
    BY <1>1, <2>1 DEF StreamsTypeOK
  <2>3. pos' <= Len(Current(out')) \/ wpc' \notin {"fall", "write"}
    BY <1>1, <2>1 DEF StreamsTypeOK
  <2>4. Labels'
    BY <1>1, <2>1 DEF StreamsTypeOK, Labels
  <2>5. /\ route' \in {"handoff", "tracked", "splice", "stealth", "ingest"} /\ expected' \in Sizes
        /\ Len(src') <= Capacity /\ Len(dst') <= Capacity
        /\ hops' \in 0 .. MaxHops /\ remaining' \in 0 .. expected'
    BY <1>1, <2>1 DEF StreamsTypeOK
  <2>6. QED
    BY <2>2, <2>3, <2>4, <2>5 DEF StreamsTypeOK, Labels
<1>3. DataInv'
  BY <1>1 DEF StreamsIInv, DataInv
<1>4. PlaceInv'
  BY <1>1 DEF StreamsIInv, PlaceInv, Forked, Spliced
<1>5. OutInv'
  BY <1>1 DEF StreamsIInv, OutInv, Length, Forked, Spliced
<1>6. PassingInv' /\ CountInv' /\ EndsInv' /\ MovedInv'
  BY <1>1 DEF StreamsIInv, PassingInv, CountInv, EndsInv, MovedInv, Forked, Spliced
<1>7. ReportsInv'
  BY <1>1 DEF StreamsIInv, ReportsInv, NoReportA, Forked
<1>8. FileInv' /\ SlotsInv' /\ SentInv'
  BY <1>1 DEF StreamsIInv, FileInv, SlotsInv, SentInv, End, Length, Forked
<1>9. QED
  BY <1>2, <1>3, <1>4, <1>5, <1>6, <1>7, <1>8 DEF StreamsIInv

LEMMA StreamsStart ==
    ASSUME StreamsInit
    PROVE  StreamsIInv
<1>1. /\ expected \in Sizes /\ pools = <<>> /\ chunks = <<>> /\ sent = 0
      /\ pos = 0 /\ src = <<>> /\ dst = <<>>
      /\ wpc = "fall" /\ rpc = "read" /\ received = <<>> /\ kept = Box(<<>>)
      /\ queue = <<>> /\ final = <<>> /\ error = FALSE
  BY DEF StreamsInit
<1>2. expected \in Nat /\ MaxHops \in Nat /\ Capacity \in Nat
  BY <1>1, StreamsAssumption
<1>3. <<>> \in Seq(Nat) /\ Len(<<>>) = 0 /\ Piece(0) = <<>>
  <2>1. 0 \in Nat
    OBVIOUS
  <2>2. QED
    BY <2>1, EmptySeq, PieceIsBytes, BytesOfNothing
<1>4. kept \in Boxes
  BY <1>1, <1>3, BoxHolds
<1>5. Passing(received, dst, src, pos)
  <2>1. 0 \in Nat /\ 0 <= 0
    OBVIOUS
  <2>2. Passing(Bytes(0, 0), Bytes(0, 0), Bytes(0, 0), 0) /\ Bytes(0, 0) = <<>>
    BY <2>1, PassingBy, BytesOfNothing
  <2>3. QED
    BY <1>1, <2>2
<1>6. PICK n \in Nat : out = Box(Piece(n)) /\ (InitForked => n = expected)
  BY <1>1, <1>2 DEF StreamsInit, InitForked, InitSplice, InitIngest, FileOf
<1>7. out \in Boxes /\ Current(out) = Piece(n) /\ Len(Current(out)) = n
  BY <1>6, PieceIsBytes, BoxHolds
<1>8. /\ Forked <=> InitForked
      /\ Spliced <=> InitSplice
      /\ route = "ingest" <=> InitIngest
      /\ route \in {"handoff", "tracked", "splice", "stealth", "ingest"}
  BY DEF StreamsInit, InitForked, InitSplice, InitIngest, Forked, Spliced
<1>9. Length = n
  BY <1>6, <1>7, <1>8 DEF Length
<1>10. OutInv
  BY <1>1, <1>7, <1>9 DEF OutInv
<1>11. /\ ends \subseteq Processes \X {"src_r", "src_w", "dst_r", "dst_w"}
       /\ cpc \in {"fork", "splice", "pack"} /\ hops \in 0 .. MaxHops /\ remaining \in 0 .. expected
       /\ sampler \in {"on", "off"}
  BY <1>2 DEF StreamsInit, InitForked, InitSplice, InitIngest, Processes
<1>12. StreamsTypeOK
  <2>1. pos <= Len(Current(out)) /\ Len(src) <= Capacity /\ Len(dst) <= Capacity
    BY <1>1, <1>2, <1>3, <1>7
  <2>2. \A i \in DOMAIN pools : pools[i].cursor <= pools[i].size
    BY <1>1
  <2>3. /\ wpc \in {"fall", "write", "put", "ended", "dead"}
        /\ rpc \in {"read", "fall", "flush", "ended", "dead"} /\ error \in BOOLEAN
    BY <1>1
  <2>4. /\ cpc \in {"fork", "join_writer", "get", "get again", "join_reader", "join_sampler",
                    "splice", "pack", "stream", "done", "raised", "failed"}
        /\ sampler \in {"on", "told", "off"}
    BY <1>11
  <2>5. QED
    BY <1>1, <1>8, <1>11, <2>1, <2>2, <2>3, <2>4 DEF StreamsTypeOK
<1>13. DataInv
  BY <1>1, <1>3, <1>4, <1>7, EmptySeq DEF DataInv
<1>14. PlaceInv
  <2>1. CASE InitForked
    BY <1>1, <1>8, <2>1 DEF PlaceInv, InitForked, Forked, Spliced
  <2>2. CASE InitSplice
    BY <1>1, <1>8, <2>2 DEF PlaceInv, InitSplice, Forked, Spliced
  <2>3. CASE InitIngest
    BY <1>1, <1>8, <2>3 DEF PlaceInv, InitIngest, Forked, Spliced
  <2>4. QED
    BY <2>1, <2>2, <2>3 DEF StreamsInit
<1>15. PassingInv
  BY <1>5 DEF PassingInv
<1>16. CountInv
  BY <1>1, <1>2, <1>3, <1>8 DEF CountInv, InitSplice
<1>17. EndsInv
  <2>1. CASE InitForked
    BY <1>1, <2>1 DEF EndsInv, InitForked, Processes, Forked, Spliced
  <2>2. CASE InitSplice
    BY <1>1, <2>2 DEF EndsInv, InitSplice, Forked, Spliced
  <2>3. CASE InitIngest
    BY <1>1, <2>3 DEF EndsInv, InitIngest, Forked, Spliced
  <2>4. QED
    BY <2>1, <2>2, <2>3 DEF StreamsInit
<1>18. MovedInv
  BY <1>1, <1>8 DEF MovedInv, InitSplice
<1>19. ReportsInv
  BY <1>1, <1>8 DEF ReportsInv, NoReportA, InitForked
<1>20. FileInv /\ SlotsInv
  BY <1>1, <1>3 DEF FileInv, SlotsInv, End
<1>21. SentInv
  BY <1>1, <1>2, <1>3, <1>8 DEF SentInv, End, InitIngest
<1>22. QED
  BY <1>10, <1>12, <1>13, <1>14, <1>15, <1>16, <1>17, <1>18, <1>19, <1>20, <1>21 DEF StreamsIInv

\* In every reachable state of every route, whatever the sizes, the capacities, the
\* lengths of chunks, and whoever dies, the bytes and the ends of the pipes are where
\* writer, reader and caller take them to be.
THEOREM StreamsInvariance == StreamsSpec => []StreamsIInv
<1>1. StreamsInit => StreamsIInv
  BY StreamsStart
<1>2. StreamsIInv /\ [StreamsNext]_streamVars => StreamsIInv'
  BY StepKeepsStreams, StutterKeepsStreams
<1>3. QED
  BY <1>1, <1>2, PTL DEF StreamsSpec

-----------------------------------------------------------------------------
(* What the invariant says of the three properties.                        *)

LEMMA ChunksAreInOrder ==
    ASSUME StreamsIInv, route = "ingest"
    PROVE  ChunksInOrder
<1>1. pos \in Nat /\ chunks \in Seq(AChunk)
  BY DEF StreamsIInv, DataInv, AChunk
<1>2. pos = End(Len(chunks))
  BY DEF StreamsIInv, FileInv
<1>3. ASSUME NEW i \in DOMAIN chunks
      PROVE  /\ chunks[i].from = End(i - 1)
             /\ chunks[i].plain = SubSeq(Piece(pos), chunks[i].from + 1, End(i))
  <2>1. /\ chunks[i].from = End(i - 1) /\ End(i) <= pos
        /\ chunks[i].plain = Bytes(chunks[i].from, End(i))
    BY DEF StreamsIInv, FileInv
  <2>2. chunks[i].from \in Nat /\ chunks[i].plain \in Seq(Nat)
    <3>1. chunks[i] \in AChunk
      BY <1>1, ElementOfSeq
    <3>2. QED
      BY <3>1 DEF AChunk
  <2>3. Len(chunks[i].plain) \in Nat /\ i # 0
    BY <1>1, <2>2, LenProperties
  <2>4. End(i) \in Nat /\ chunks[i].from <= End(i)
    BY <2>2, <2>3 DEF End
  <2>5. Piece(pos) = Bytes(0, pos)
    BY <1>1, PieceIsBytes
  <2>6. SubSeq(Bytes(0, pos), chunks[i].from + 1, End(i)) = Bytes(chunks[i].from, End(i))
    BY <1>1, <2>1, <2>2, <2>4, BytesWithin
  <2>7. QED
    BY <2>1, <2>5, <2>6
<1>4. QED
  BY <1>2, <1>3 DEF ChunksInOrder

LEMMA BytesAreInTransit ==
    ASSUME StreamsIInv
    PROVE  InTransit
<1>1. CASE route = "ingest"
  BY <1>1, ChunksAreInOrder DEF StreamsIInv, InTransit
<1>2. CASE route # "ingest"
  <2>1. pos \in Nat /\ Passing(received, dst, src, pos)
    BY <1>2 DEF StreamsIInv, DataInv, PassingInv
  <2>2. received \o dst \o src = Bytes(0, pos)
    <3>1. \A p \in Nat : \A rcv, mid, wire :
              Passing(rcv, mid, wire, p) => rcv \o mid \o wire = Bytes(0, p)
      BY PassingIn
    <3>2. QED
      BY <2>1, <3>1
  <2>3. Piece(pos) = Bytes(0, pos)
    BY <2>1, PieceIsBytes
  <2>4. QED
    BY <1>2, <2>2, <2>3 DEF StreamsIInv, InTransit
<1>3. QED
  BY <1>1, <1>2

\* Up to the length that was measured, or that the file has.
LEMMA ArrivedWhole ==
    ASSUME StreamsIInv, ~Forked, cpc = "done"
    PROVE  received = Piece(Min({expected, Len(Current(out))}))
<1>1. /\ expected \in Nat /\ remaining \in Nat /\ pos \in Nat
      /\ Length \in Nat /\ Len(Current(out)) = Length /\ Len(received) \in Nat
  <2>1. Len(received) \in Nat
    BY LenProperties DEF StreamsIInv, DataInv
  <2>2. QED
    BY <2>1, NumbersOf
<1>2. CASE route = "ingest"
  <2>1. /\ remaining + Len(received) = expected /\ received = Piece(Len(received))
        /\ Len(received) = IF End(sent) < expected THEN End(sent) ELSE expected
        /\ pos = Length /\ (sent = Len(chunks) \/ remaining = 0)
    BY <1>2 DEF StreamsIInv, SentInv
  <2>2. pos = End(Len(chunks)) /\ End(sent) \in Nat /\ End(sent) <= pos
    <3>1. /\ pos = End(Len(chunks)) /\ \A i \in DOMAIN chunks : End(i) <= pos
          /\ sent \in 0 .. Len(chunks) /\ chunks \in Seq(AChunk)
      BY <1>2 DEF StreamsIInv, DataInv, FileInv, AChunk
    <3>2. CASE sent = 0
      BY <1>1, <3>1, <3>2 DEF End
    <3>3. CASE sent # 0
      <4>1. sent \in DOMAIN chunks
        BY <3>1, <3>3
      <4>2. chunks[sent] \in AChunk
        BY <3>1, <4>1, ElementOfSeq
      <4>3. chunks[sent].from \in Nat /\ chunks[sent].plain \in Seq(Nat)
        BY <4>2 DEF AChunk
      <4>4. Len(chunks[sent].plain) \in Nat
        BY <4>3, LenProperties
      <4>5. QED
        BY <3>1, <3>3, <4>1, <4>3, <4>4 DEF End
    <3>4. QED
      BY <3>2, <3>3
  <2>3. Len(received) = IF expected <= Length THEN expected ELSE Length
    BY <1>1, <2>1, <2>2
  <2>4. QED
    BY <1>1, <2>1, <2>3, MinOfTwo
<1>3. CASE Spliced
  <2>1. /\ remaining = 0 \/ src = <<>>
        /\ dst = <<>> /\ wpc = "ended" /\ ~error
    BY <1>3 DEF StreamsIInv, MovedInv
  <2>2. pos = Length
    BY <2>1 DEF StreamsIInv, OutInv
  <2>3. route # "ingest"
    BY <1>3 DEF Spliced
  <2>4. Passing(received, dst, src, pos)
    BY <2>3 DEF StreamsIInv, PassingInv
  <2>5. /\ Len(dst) \in Nat /\ Len(src) \in Nat /\ Len(received) + Len(dst) + Len(src) = pos
        /\ received = Bytes(0, Len(received))
    BY <1>1, <2>4, PassingIn
  <2>6. Len(dst) = 0 /\ (src = <<>> => Len(src) = 0)
    BY <2>1, EmptySeq
  <2>7. remaining + Len(received) + Len(dst) = expected
    BY <1>3 DEF StreamsIInv, CountInv
  <2>8. Len(received) = IF expected <= Length THEN expected ELSE Length
    <3>1. remaining + Len(received) = expected /\ Len(received) + Len(src) = Length
      BY <1>1, <2>2, <2>5, <2>6, <2>7
    <3>2. remaining = 0 \/ Len(src) = 0
      BY <2>1, <2>6
    <3>3. QED
      BY <1>1, <2>5, <3>1, <3>2
  <2>9. received = Piece(Len(received))
    BY <1>1, <2>5, PieceIsBytes
  <2>10. QED
    BY <1>1, <2>8, <2>9, MinOfTwo
<1>4. QED
  BY <1>2, <1>3 DEF StreamsIInv, StreamsTypeOK, Forked, Spliced

LEMMA PieceDelivered ==
    ASSUME StreamsIInv
    PROVE  Delivered
<1>1. BytePerfect
  <2>1. ASSUME cpc = "done", Forked PROVE final = <<"B", Piece(expected)>>
    BY <2>1 DEF StreamsIInv, ReportsInv, ReportB
  <2>2. QED
    BY <2>1, ArrivedWhole DEF BytePerfect
<1>2. EndsClosed
  BY DEF StreamsIInv, EndsInv, EndsClosed
<1>3. QED
  BY <1>1, <1>2 DEF Delivered

LEMMA SlotsKeptApart ==
    ASSUME StreamsIInv
    PROVE  SlotsApart
<1>1. ASSUME NEW i \in DOMAIN chunks
      PROVE  /\ chunks[i].offset + chunks[i].length <= pools[chunks[i].pool].size
             /\ \A j \in 1 .. i - 1 : chunks[j].pool = chunks[i].pool =>
                    chunks[j].offset + chunks[j].length <= chunks[i].offset
  <2>1. /\ chunks[i].pool \in DOMAIN pools
        /\ chunks[i].offset + chunks[i].length <= pools[chunks[i].pool].cursor
        /\ \A j \in 1 .. i - 1 : chunks[j].pool = chunks[i].pool =>
               chunks[j].offset + chunks[j].length <= chunks[i].offset
    BY DEF StreamsIInv, SlotsInv
  <2>2. pools \in Seq(APool) /\ chunks \in Seq(AChunk)
    BY DEF StreamsIInv, DataInv, APool, AChunk
  <2>3. pools[chunks[i].pool] \in APool /\ chunks[i] \in AChunk
    BY <2>1, <2>2, ElementOfSeq
  <2>4. /\ pools[chunks[i].pool].cursor \in Nat /\ pools[chunks[i].pool].size \in Nat
        /\ chunks[i].offset \in Nat /\ chunks[i].length \in Nat
    BY <2>3 DEF APool, AChunk
  <2>5. pools[chunks[i].pool].cursor <= pools[chunks[i].pool].size
    BY <2>1 DEF StreamsIInv, StreamsTypeOK
  <2>6. QED
    BY <2>1, <2>4, <2>5
<1>2. QED
  BY <1>1 DEF SlotsApart

\* However the calls cut the bytes up, what the reader has and what is in the pipes is
\* what was written, in order; the chunks of a box are what was read of its file.
THEOREM BytesCrossWhole == StreamsSpec => []InTransit
BY StreamsInvariance, BytesAreInTransit, PTL

\* A call of a hand-off, of a splice, or of stream_to() that returns has delivered the
\* piece, or the file up to the length that was measured, and closed its pipes.
THEOREM CallsDeliver == StreamsSpec => []Delivered
BY StreamsInvariance, PieceDelivered, PTL

\* The slots of a box's pools never overlap, nor leave their pool.
THEOREM SlotsNeverOverlap == StreamsSpec => []SlotsApart
BY StreamsInvariance, SlotsKeptApart, PTL
=============================================================================
