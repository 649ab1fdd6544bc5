----------------------- MODULE NetworkTrustGroupProofs -----------------------
(***************************************************************************)
(* Proofs about NetworkTrustGroup, for every number of holders, shares and *)
(* callers of fetch(), whoever dies or is late, and any sharing of the     *)
(* secret that K shares undo.                                              *)
(***************************************************************************)
EXTENDS NetworkTrustGroup, FiniteSetTheorems, SequenceTheorems, WellFoundedInduction, TLAPS

Answers == {Pong} \cup {Shares[h] : h \in Holder}

\* The queues and lists that TypeOK says less about.
ShapeInv ==
    /\ resp \in [Holder -> Seq(Answers)]
    /\ collected \in [Fetchers -> Seq(Answers)]

\* Nothing is accused, asked or stopped before the constructor has returned.
BuiltInv == ~Built => compromised = {} /\ \A f \in Fetchers : fpc[f] = "idle"

\* self._lock belongs to the heartbeat that waits for a pong, or to the fetch() inside it.
LockInv ==
    /\ lock = "monitor" <=> mpc = "recv"
    /\ \A f \in Fetchers : lock = f <=> fpc[f] \in {"send", "recv", "judge"}

\* _kill_triggered is set in the step that kills the process.
KillInv == killed <=> ~main

\* What a holder may be accused for.
Failed(h) == h \notin up \/ h \in Slow \/ h \in closed

\* Whoever is accused has failed.
AccusedHaveFailed == \A h \in compromised : Failed(h)

CauseInv == AccusedHaveFailed /\ KilledAtThreshold

\* Only stop() closes connections.
ClosedInv == ~stopping => closed = {} /\ spc = "idle"

\* The heartbeat accuses who has failed, or is accused already.
AccuseInv == mpc = "accuse" => mi \in compromised \/ Failed(mi)

\* A question q under way on a connection, its answer a, or neither once it is closed.
Pending(rq, rs, q, a) ==
    \/ rq = <<q>> /\ rs = <<>>
    \/ rq = <<>> /\ rs = <<a>>
    \/ rq = <<>> /\ rs = <<>>

\* The connection of a holder that nobody has given up, nor is about to, carries at most
\* what the owner of the lock has asked and waits for.
WireAt(h) ==
    h \notin compromised /\ ~(mpc = "accuse" /\ mi = h) =>
        /\ mpc = "recv" /\ mi = h => Pending(req[h], resp[h], "ping", Pong)
        /\ \A f \in Fetchers : fpc[f] = "recv" /\ Asked(f) = h =>
               Pending(req[h], resp[h], "get_share", Shares[h])
        /\ ~(mpc = "recv" /\ mi = h) /\ (\A f \in Fetchers : ~(fpc[f] = "recv" /\ Asked(f) = h)) =>
               req[h] = <<>> /\ resp[h] = <<>>

WireInv == \A h \in Holder : WireAt(h)

\* The shares in the list cs are of different holders, none of whom is in left.
FromOthers(cs, left) ==
    \E hs \in [1 .. Len(cs) -> Holder \ left] :
        /\ \A i, j \in 1 .. Len(cs) : i # j => hs[i] # hs[j]
        /\ \A i \in 1 .. Len(cs) : cs[i] = Shares[hs[i]]

\* A fetch() has one share of each holder it has asked, and K with those it has yet to ask.
SharesAt(f) ==
    /\ fpc[f] \in {"lock", "send", "recv"} =>
           todo[f] # {} /\ Len(collected[f]) + Cardinality(todo[f]) = K
    /\ fpc[f] = "done" => Len(collected[f]) = K
    /\ fpc[f] # "judge" => FromOthers(collected[f], todo[f])

SharesInv == \A f \in Fetchers : SharesAt(f)

IInv ==
    /\ TypeOK /\ ShapeInv /\ BuiltInv /\ LockInv /\ KillInv /\ AccuseInv /\ WireInv /\ SharesInv
    /\ ClosedInv /\ CauseInv

-----------------------------------------------------------------------------
(* The operators.                                                          *)

\* A nonempty set of naturals has a minimum, and Min returns it.
LEMMA MinOfNats ==
    ASSUME NEW S \in SUBSET Nat, S # {}
    PROVE  Min(S) \in S /\ \A y \in S : Min(S) <= y
<1> DEFINE R == {ss \in Nat \X Nat : ss[1] < ss[2]}
<1>1. IsWellFoundedOn(R, Nat)
  BY NatLessThanWellFounded, Zenon DEF OpToRel
<1>2. \E x \in S : \A y \in S : ~(<<y, x>> \in R)
  <2> HIDE DEF R
  <2> QED BY <1>1, WFMin, Zenon
<1>3. \E x \in S : \A y \in S : x =< y
  <2>1. PICK x \in S : \A y \in S : ~(<<y, x>> \in R)
    BY <1>2
  <2>2. ASSUME NEW y \in S PROVE x =< y
    <3>1. y < x => <<y, x>> \in R
      OBVIOUS
    <3>2. QED
      BY <2>1, <3>1
  <2>3. QED
    BY <2>2
<1>4. QED
  BY <1>3, Zenon DEF Min

\* alive_indices[:self.k] has K elements if there are as many: the rank of an index
\* in the list is a bijection from the list to 0 .. its length - 1.
LEMMA FirstKHasK ==
    ASSUME NEW S \in SUBSET Nat, IsFiniteSet(S), Cardinality(S) >= K
    PROVE  FirstK(S) \subseteq S /\ Cardinality(FirstK(S)) = K
<1> DEFINE Below(i) == {j \in S : j < i}
           T        == 0 .. (Cardinality(S) - 1)
           r        == [i \in S |-> Cardinality(Below(i))]
           F        == FirstK(S)
           g        == [i \in F |-> r[i]]
<1>1. Cardinality(S) \in Nat /\ K \in Nat /\ K > 0
  BY FS_CardinalityType, GroupAssumption
<1>2. ASSUME NEW i \in S
      PROVE  /\ IsFiniteSet(Below(i)) /\ Cardinality(Below(i)) \in Nat
             /\ IsFiniteSet(Below(i) \cup {i})
             /\ Cardinality(Below(i) \cup {i}) = Cardinality(Below(i)) + 1
  <2>1. Below(i) \in SUBSET S /\ i \notin Below(i)
    OBVIOUS
  <2> HIDE DEF Below
  <2>2. QED
    BY <2>1, FS_Subset, FS_CardinalityType, FS_AddElement
<1>3. ASSUME NEW i \in S
      PROVE  r[i] \in T
  <2>1. Below(i) \cup {i} \in SUBSET S
    OBVIOUS
  <2> HIDE DEF Below
  <2>2. Cardinality(Below(i) \cup {i}) <= Cardinality(S)
    BY <2>1, <1>2, FS_Subset
  <2>3. Cardinality(Below(i)) \in Nat /\ Cardinality(Below(i)) + 1 <= Cardinality(S)
    BY <2>2, <1>2
  <2>4. r[i] = Cardinality(Below(i))
    OBVIOUS
  <2> HIDE DEF r
  <2>5. QED
    BY <2>3, <2>4, <1>1
<1>4. ASSUME NEW i \in S, NEW j \in S, i < j
      PROVE  r[i] < r[j]
  <2>1. \A x \in Below(i) \cup {i} : x \in Below(j)
    BY <1>4
  <2> HIDE DEF Below
  <2>2. Cardinality(Below(i) \cup {i}) <= Cardinality(Below(j))
    BY <2>1, <1>2, FS_Subset
  <2>3. Cardinality(Below(i)) \in Nat /\ Cardinality(Below(j)) \in Nat
        /\ Cardinality(Below(i)) + 1 <= Cardinality(Below(j))
    BY <2>2, <1>2
  <2>4. r[i] = Cardinality(Below(i)) /\ r[j] = Cardinality(Below(j))
    OBVIOUS
  <2> HIDE DEF r
  <2>5. QED
    BY <2>3, <2>4
<1>5. r \in [S -> T]
  <2>1. \A i \in S : r[i] \in T
    BY <1>3
  <2> HIDE DEF Below
  <2>2. QED
    BY <2>1
<1>6. \A i \in F : i \in S /\ r[i] < K
  BY DEF FirstK
<1>7. \A i \in S : r[i] < K => i \in F
  BY DEF FirstK
<1> HIDE DEF r, F, T
<1>8. r \in Injection(S, T)
  <2>1. ASSUME NEW i \in S, NEW j \in S, i # j PROVE r[i] # r[j]
    <3>1. i \in Nat /\ j \in Nat /\ r[i] \in T /\ r[j] \in T
      BY <1>3
    <3>2. i < j \/ j < i
      BY <3>1, <2>1
    <3>3. QED
      BY <3>1, <3>2, <1>4 DEF T
  <2>2. QED
    BY <2>1, <1>5 DEF Injection, IsInjective
<1>9. IsFiniteSet(T) /\ Cardinality(T) = Cardinality(S)
  <2>1. 0 \in Int /\ Cardinality(S) - 1 \in Int
    BY <1>1
  <2>2. IsFiniteSet(T) /\ Cardinality(T) = IF 0 > Cardinality(S) - 1 THEN 0
                                           ELSE Cardinality(S) - 1 - 0 + 1
    BY <2>1, FS_Interval, Zenon DEF T
  <2>3. QED
    BY <2>2, <1>1
<1>10. r \in Surjection(S, T)
  BY <1>8, <1>9, FS_Injection
<1>11. g \in [F -> 0 .. (K - 1)]
  <2>1. ASSUME NEW i \in F PROVE r[i] \in 0 .. (K - 1)
    <3>1. i \in S /\ r[i] < K
      BY <1>6
    <3>2. r[i] \in T
      BY <3>1, <1>3
    <3>3. QED
      BY <3>1, <3>2, <1>1 DEF T
  <2>2. QED
    BY <2>1
<1>12. \A x \in F, y \in F : x # y => g[x] # g[y]
  BY <1>6, <1>8 DEF Injection, IsInjective
<1>13. \A n \in 0 .. (K - 1) : \E x \in F : g[x] = n
  <2> SUFFICES ASSUME NEW n \in 0 .. (K - 1) PROVE \E x \in F : g[x] = n
    OBVIOUS
  <2>1. n \in T
    BY <1>1 DEF T
  <2>2. PICK x \in S : r[x] = n
    BY <2>1, <1>10 DEF Surjection
  <2>3. QED
    BY <2>2, <1>1, <1>7
<1> HIDE DEF g
<1>14. g \in Bijection(F, 0 .. (K - 1))
  BY <1>11, <1>12, <1>13, Zenon DEF Bijection, Injection, Surjection, IsInjective
<1>15. F \subseteq S /\ IsFiniteSet(F)
  BY <1>6, FS_Subset
<1>16. Cardinality(0 .. (K - 1)) = Cardinality(F)
  BY <1>14, <1>15, FS_Bijection DEF ExistsBijection
<1>17. QED
  BY <1>1, <1>15, <1>16, FS_Interval DEF F

\* The holders are finitely many naturals.
LEMMA Holders ==
    /\ Holder \subseteq Nat /\ IsFiniteSet(Holder) /\ Cardinality(Holder) = N
    /\ \A h \in Holder : (h % N) + 1 \in Holder
    /\ 1 \in Holder
<1>1. N \in Nat /\ N > 0 /\ 1 \in Int /\ N \in Int
  BY GroupAssumption
<1>2. IsFiniteSet(Holder) /\ Cardinality(Holder) = IF 1 > N THEN 0 ELSE N - 1 + 1
  BY <1>1, FS_Interval, Zenon DEF Holder
<1>3. QED
  BY <1>1, <1>2 DEF Holder

\* A connection with one line.
LEMMA OneLine ==
    ASSUME NEW a
    PROVE  <<a>> # <<>> /\ Head(<<a>>) = a /\ Tail(<<a>>) = <<>> /\ Append(<<>>, a) = <<a>>
OBVIOUS

\* A fetch() with holders to ask asks one of them.
LEMMA AsksOne ==
    ASSUME TypeOK, NEW f \in Fetchers, todo[f] # {}
    PROVE  Asked(f) \in todo[f] /\ Asked(f) \in Holder
<1>1. todo[f] \subseteq Holder
  BY DEF TypeOK
<1>2. QED
  BY <1>1, Holders, MinOfNats DEF Asked

\* No share is of nobody, and one share more is of one more holder.
LEMMA NoShares ==
    ASSUME NEW left
    PROVE  FromOthers(<<>>, left)
<1>1. [i \in 1 .. 0 |-> 0] \in [1 .. 0 -> Holder \ left]
  OBVIOUS
<1>2. PICK hs \in [1 .. 0 -> Holder \ left] : TRUE
  BY <1>1
<1>3. Len(<<>>) = 0 /\ 1 .. 0 = {}
  OBVIOUS
<1>4. QED
  BY <1>2, <1>3 DEF FromOthers

LEMMA OneShareMore ==
    ASSUME NEW cs \in Seq(Answers), NEW left \in SUBSET Holder, FromOthers(cs, left), NEW h \in left
    PROVE  FromOthers(Append(cs, Shares[h]), left \ {h})
<1>1. PICK hs \in [1 .. Len(cs) -> Holder \ left] :
        /\ \A i, j \in 1 .. Len(cs) : i # j => hs[i] # hs[j]
        /\ \A i \in 1 .. Len(cs) : cs[i] = Shares[hs[i]]
  BY DEF FromOthers
<1>2. Len(cs) \in Nat
  OBVIOUS
<1> DEFINE n  == Len(cs)
           ds == Append(cs, Shares[h])
           gs == [i \in 1 .. n + 1 |-> IF i = n + 1 THEN h ELSE hs[i]]
<1>3. Shares[h] \in Answers
  BY DEF Answers
<1>4. Len(ds) = n + 1 /\ ds[n + 1] = Shares[h] /\ \A i \in 1 .. n : ds[i] = cs[i]
  BY <1>3
<1>5. \A i \in 1 .. n + 1 : i # n + 1 => i \in 1 .. n
  BY <1>2
<1>6. \A i \in 1 .. n : hs[i] \in Holder \ left
  BY <1>1
<1>7. gs \in [1 .. n + 1 -> Holder \ (left \ {h})]
  <2>1. ASSUME NEW i \in 1 .. n + 1 PROVE (IF i = n + 1 THEN h ELSE hs[i]) \in Holder \ (left \ {h})
    BY <1>5, <1>6
  <2>2. QED
    BY <2>1
<1>8. \A i \in 1 .. n + 1 : gs[i] = IF i = n + 1 THEN h ELSE hs[i]
  OBVIOUS
<1> HIDE DEF gs, ds, n
<1>9. \A i, j \in 1 .. n + 1 : i # j => gs[i] # gs[j]
  <2>1. ASSUME NEW i \in 1 .. n + 1, NEW j \in 1 .. n + 1, i # j PROVE gs[i] # gs[j]
    <3>1. \A k \in 1 .. n : hs[k] # h
      BY <1>6
    <3>2. CASE i = n + 1
      BY <1>5, <1>8, <2>1, <3>1, <3>2
    <3>3. CASE j = n + 1
      BY <1>5, <1>8, <2>1, <3>1, <3>3
    <3>4. CASE i # n + 1 /\ j # n + 1
      BY <1>1, <1>5, <1>8, <2>1, <3>4 DEF n
    <3>5. QED
      BY <3>2, <3>3, <3>4
  <2>2. QED
    BY <2>1
<1>10. \A i \in 1 .. n + 1 : ds[i] = Shares[gs[i]]
  BY <1>1, <1>4, <1>5, <1>8 DEF n
<1>11. FromOthers(ds, left \ {h})
  BY <1>4, <1>7, <1>9, <1>10 DEF FromOthers
<1>12. QED
  BY <1>11 DEF ds

\* K shares of different holders give the secret.
LEMMA KShares ==
    ASSUME NEW cs \in Seq(Answers), NEW left, FromOthers(cs, left), Len(cs) = K
    PROVE  Combine(cs) = Secret
<1>1. PICK hs \in [1 .. K -> Holder \ left] :
        /\ \A i, j \in 1 .. K : i # j => hs[i] # hs[j]
        /\ \A i \in 1 .. K : cs[i] = Shares[hs[i]]
  BY DEF FromOthers
<1>2. hs \in [1 .. K -> Holder]
  BY <1>1
<1>3. cs = [i \in 1 .. K |-> Shares[hs[i]]]
  BY <1>1
<1>4. Combine([i \in 1 .. K |-> Shares[hs[i]]]) = Secret
  BY <1>1, <1>2, SharingAssumption
<1>5. QED
  BY <1>3, <1>4

-----------------------------------------------------------------------------
(* Steps.                                                                  *)

\* Where the callers of fetch() are, and what a step of one changes.
Labels == {"idle", "lock", "send", "recv", "judge", "done"}

LEMMA Moving ==
    ASSUME TypeOK, NEW f \in Fetchers, NEW l \in Labels, At(f, l)
    PROVE  fpc' \in [Fetchers -> Labels] /\ fpc'[f] = l /\ \A g \in Fetchers : g # f => fpc'[g] = fpc[g]
BY DEF TypeOK, Labels, At

\* Whoever fetches asks a holder.
LEMMA Asking ==
    ASSUME TypeOK, SharesInv, NEW f \in Fetchers, fpc[f] \in {"send", "recv"}
    PROVE  todo[f] # {} /\ Asked(f) \in todo[f] /\ Asked(f) \in Holder
BY AsksOne DEF SharesInv, SharesAt

\* Every step keeps the types.
LEMMA TypeStep ==
    ASSUME TypeOK, ShapeInv, SharesInv, Next
    PROVE  TypeOK' /\ ShapeInv'
<1> USE DEF TypeOK, ShapeInv, wire, verdict, monitor, fetches, stopper
<1>0. \A h \in Holder : (h % N) + 1 \in Holder
  BY Holders
<1>1. CASE HolderStarts \/ Connect \/ ConnectRaises
  BY <1>0, <1>1 DEF HolderStarts, Connect, ConnectRaises
<1>2. ASSUME NEW h \in Holder, Serve(h) PROVE TypeOK' /\ ShapeInv'
  <2>1. req' \in [Holder -> Seq({"ping", "get_share"})]
    BY <1>2 DEF Serve
  <2>2. PICK a \in {Pong, Shares[h]} : resp' = [resp EXCEPT ![h] = Append(@, a)]
    BY <1>2 DEF Serve
  <2>3. a \in Answers
    BY DEF Answers
  <2>4. resp' \in [Holder -> Seq(Answers)]
    BY <2>2, <2>3
  <2>5. \A g \in Holder : \A i \in DOMAIN resp'[g] : resp'[g][i] \in {Pong, Shares[g]}
    <3>1. resp[h] \in Seq(Answers) /\ resp'[h] = Append(resp[h], a)
      BY <2>2
    <3>2. \A i \in DOMAIN resp'[h] : resp'[h][i] = a \/ (i \in DOMAIN resp[h] /\ resp'[h][i] = resp[h][i])
      BY <2>3, <3>1
    <3>3. \A g \in Holder : g # h => resp'[g] = resp[g]
      BY <2>2
    <3>4. QED
      BY <3>2, <3>3
  <2>6. QED
    BY <1>2, <2>1, <2>4, <2>5 DEF Serve
<1>3. ASSUME NEW h \in Holder, HolderDies(h) \/ OnTerm(h) PROVE TypeOK' /\ ShapeInv'
  BY <1>3 DEF HolderDies, OnTerm
<1>4. ASSUME NEW h \in Holder, Receive(h)
      PROVE  /\ resp' \in [Holder -> Seq(Answers)] /\ up' \subseteq Holder
             /\ req' \in [Holder -> Seq({"ping", "get_share"})]
             /\ \A g \in Holder : \A i \in DOMAIN resp'[g] : resp'[g][i] \in {Pong, Shares[g]}
             /\ Head(resp[h]) \in {Pong, Shares[h]} /\ Head(resp[h]) \in Answers
  <2>1. resp[h] \in Seq(Answers) /\ resp[h] # <<>> /\ resp' = [resp EXCEPT ![h] = Tail(@)]
    BY <1>4 DEF Receive
  <2>2. Tail(resp[h]) \in Seq(Answers) /\ Head(resp[h]) = resp[h][1] /\ 1 \in DOMAIN resp[h]
        /\ \A i \in DOMAIN Tail(resp[h]) : i + 1 \in DOMAIN resp[h] /\ Tail(resp[h])[i] = resp[h][i + 1]
    BY <2>1
  <2>3. \A g \in Holder : g # h => resp'[g] = resp[g]
    BY <2>1
  <2>4. resp'[h] = Tail(resp[h])
    BY <2>1
  <2>5. Head(resp[h]) \in {Pong, Shares[h]} /\ Head(resp[h]) \in Answers
    BY <2>2 DEF Answers
  <2>6. resp' \in [Holder -> Seq(Answers)]
    BY <2>1, <2>2
  <2>7. \A g \in Holder : \A i \in DOMAIN resp'[g] : resp'[g][i] \in {Pong, Shares[g]}
    <3>1. \A i \in DOMAIN resp'[h] : resp'[h][i] \in {Pong, Shares[h]}
      BY <2>2, <2>4
    <3>2. QED
      BY <2>3, <3>1
  <2>8. QED
    BY <1>4, <2>5, <2>6, <2>7 DEF Receive
<1>5. ASSUME NEW h \in Holder, NEW o \in {"ping", "get_share"}, Send(h, o)
      PROVE  req' \in [Holder -> Seq({"ping", "get_share"})] /\ up' = up /\ resp' = resp
  BY <1>5 DEF Send
<1>6. CASE MonitorCheck
  BY <1>0, <1>6 DEF MonitorCheck, NextHolder
<1>7. CASE PingLock
  <2>1. CASE Send(mi, "ping")
    BY <1>5, <1>7, <2>1 DEF PingLock
  <2>2. CASE UNCHANGED wire
    BY <1>7, <2>2 DEF PingLock
  <2>3. QED
    BY <1>7, <2>1, <2>2 DEF PingLock
<1>8. CASE PingRecv
  <2>1. CASE Receive(mi)
    BY <1>0, <1>4, <1>8, <2>1 DEF PingRecv, NextHolder
  <2>2. CASE UNCHANGED wire
    BY <1>0, <1>8, <2>2 DEF PingRecv, NextHolder
  <2>3. QED
    BY <1>8, <2>1, <2>2 DEF PingRecv, ReceiveRaises
<1>9. CASE MonitorAccuse
  BY <1>0, <1>9 DEF MonitorAccuse, NextHolder
<1>10. CASE MonitorJudge
  BY <1>0, <1>10 DEF MonitorJudge, Judge, NextHolder
<1>11. ASSUME NEW f \in Fetchers, FetchBegin(f) PROVE TypeOK' /\ ShapeInv'
  <2>1. PICK l \in {"idle", "lock"} : At(f, l)
    BY <1>11 DEF FetchBegin
  <2>2. fpc' \in [Fetchers -> Labels]
    BY <2>1, Moving DEF Labels
  <2>3. todo' \in [Fetchers -> SUBSET Holder]
    <3>1. FirstK(Holder \ compromised) \subseteq Holder
      BY DEF FirstK
    <3>2. QED
      BY <1>11, <3>1 DEF FetchBegin
  <2>4. collected' \in [Fetchers -> Seq(Answers)] /\ \A g \in Fetchers : Len(collected'[g]) <= K
    <3>1. collected' = [collected EXCEPT ![f] = <<>>] /\ <<>> \in Seq(Answers) /\ Len(<<>>) = 0 /\ K \in Nat
      BY <1>11, GroupAssumption DEF FetchBegin
    <3>2. QED
      BY <3>1
  <2>5. QED
    BY <1>11, <2>2, <2>3, <2>4 DEF FetchBegin, Labels
<1>12. ASSUME NEW f \in Fetchers, FetchLock(f) PROVE TypeOK' /\ ShapeInv'
  BY <1>12 DEF FetchLock, At
<1>13. ASSUME NEW f \in Fetchers, FetchSend(f) PROVE TypeOK' /\ ShapeInv'
  <2>1. Asked(f) \in Holder
    BY <1>13, Asking DEF FetchSend
  <2>2. QED
    BY <1>5, <1>13, <2>1 DEF FetchSend, At
<1>14. ASSUME NEW f \in Fetchers, FetchRecv(f) PROVE TypeOK' /\ ShapeInv'
  <2>1. Asked(f) \in Holder /\ Asked(f) \in todo[f] /\ Len(collected[f]) + Cardinality(todo[f]) = K
    BY <1>14, Asking DEF FetchRecv, SharesInv, SharesAt
  <2>2. PICK a \in Answers : collected' = [collected EXCEPT ![f] = Append(@, a)]
    BY <1>4, <1>14, <2>1 DEF FetchRecv
  <2>3. Len(collected[f]) \in Nat /\ Cardinality(todo[f]) \in Nat /\ Cardinality(todo[f]) > 0 /\ K \in Nat
    <3>1. IsFiniteSet(todo[f]) /\ todo[f] # {}
      BY <2>1, Holders, FS_Subset
    <3>2. QED
      BY <3>1, FS_CardinalityType, FS_EmptySet, GroupAssumption
  <2>4. collected' \in [Fetchers -> Seq(Answers)] /\ \A g \in Fetchers : Len(collected'[g]) <= K
    <3>1. Len(Append(collected[f], a)) = Len(collected[f]) + 1
      BY <2>2
    <3>2. QED
      BY <2>1, <2>2, <2>3, <3>1
  <2>5. todo' \in [Fetchers -> SUBSET Holder]
    BY <1>14 DEF FetchRecv
  <2>6. PICK l \in {"done", "send"} : At(f, l)
    BY <1>14 DEF FetchRecv
  <2>7. fpc' \in [Fetchers -> Labels]
    BY <2>6, Moving DEF Labels
  <2>8. lock' \in Fetchers \cup {"free", "monitor"}
    BY <1>14 DEF FetchRecv
  <2>9. QED
    BY <1>4, <1>14, <2>1, <2>4, <2>5, <2>7, <2>8 DEF FetchRecv, Labels
<1>15. ASSUME NEW f \in Fetchers, Raise(f)
       PROVE  /\ fpc' \in [Fetchers -> Labels] /\ todo' \in [Fetchers -> SUBSET Holder]
              /\ collected' \in [Fetchers -> Seq(Answers)] /\ \A g \in Fetchers : Len(collected'[g]) <= K
              /\ lock' = "free"
  <2>1. fpc' \in [Fetchers -> Labels]
    BY <1>15, Moving DEF Raise, Labels
  <2>2. collected' = [collected EXCEPT ![f] = <<>>] /\ <<>> \in Seq(Answers) /\ Len(<<>>) = 0 /\ K \in Nat
    BY <1>15, GroupAssumption DEF Raise
  <2>3. collected' \in [Fetchers -> Seq(Answers)] /\ \A g \in Fetchers : Len(collected'[g]) <= K
    <3>1. 0 <= K
      BY <2>2
    <3>2. QED
      BY <2>2, <3>1
  <2>4. todo' \in [Fetchers -> SUBSET Holder] /\ lock' = "free"
    BY <1>15 DEF Raise
  <2>5. QED
    BY <2>1, <2>3, <2>4
<1>16. ASSUME NEW f \in Fetchers, FetchFails(f) PROVE TypeOK' /\ ShapeInv'
  <2>1. Asked(f) \in Holder
    BY <1>16, Asking DEF FetchFails, FetchCatches
  <2>2. /\ resp' \in [Holder -> Seq(Answers)] /\ up' \subseteq Holder
        /\ req' \in [Holder -> Seq({"ping", "get_share"})]
        /\ \A g \in Holder : \A i \in DOMAIN resp'[g] : resp'[g][i] \in {Pong, Shares[g]}
    <3>1. CASE UNCHANGED wire
      BY <3>1
    <3>2. CASE Receive(Asked(f))
      BY <1>4, <2>1, <3>2
    <3>3. QED
      BY <1>16, <3>1, <3>2 DEF FetchFails, FetchCatches, ReceiveRaises
  <2>3. compromised' \subseteq Holder
    BY <1>16, <2>1 DEF FetchFails
  <2>4. CASE Raise(f)
    BY <1>15, <1>16, <2>2, <2>3, <2>4 DEF FetchFails, Labels
  <2>5. CASE At(f, "judge") /\ UNCHANGED <<lock, todo, collected>>
    BY <1>16, <2>2, <2>3, <2>5 DEF FetchFails, At
  <2>6. QED
    BY <1>16, <2>4, <2>5 DEF FetchFails
<1>17. ASSUME NEW f \in Fetchers, FetchJudge(f) PROVE TypeOK' /\ ShapeInv'
  BY <1>15, <1>17 DEF FetchJudge, Judge, Labels
<1>18. CASE StopBegin \/ StopTerminate \/ StopWait
  BY <1>0, <1>18 DEF StopBegin, StopTerminate, StopWait, Loop
<1>19. CASE StopClose
  <2>1. req' \in [Holder -> Seq({"ping", "get_share"})] /\ resp' \in [Holder -> Seq(Answers)]
    BY <1>19 DEF StopClose
  <2>2. \A g \in Holder : resp'[g] = resp[g] \/ resp'[g] = <<>>
    BY <1>19 DEF StopClose
  <2>3. QED
    BY <1>0, <1>19, <2>1, <2>2 DEF StopClose, Loop
<1>20. QED
  BY <1>1, <1>2, <1>3, <1>6, <1>7, <1>8, <1>9, <1>10, <1>11, <1>12, <1>13, <1>14, <1>16, <1>17, <1>18, <1>19
     DEF Next, Monitor, FetchStep, Stop

\* What is accused or closed stays so, and servers start only in the constructor.
LEMMA Monotone ==
    ASSUME TypeOK, Next
    PROVE  compromised \subseteq compromised' /\ closed \subseteq closed' /\ (Built => up' \subseteq up)
<1> USE DEF wire, verdict, monitor, fetches, stopper
<1>1. CASE HolderStarts \/ Connect \/ ConnectRaises
  BY <1>1 DEF HolderStarts, Connect, ConnectRaises, Built
<1>2. ASSUME NEW h \in Holder, Serve(h) \/ HolderDies(h) \/ OnTerm(h)
      PROVE  compromised \subseteq compromised' /\ closed \subseteq closed' /\ up' \subseteq up
  BY <1>2 DEF Serve, HolderDies, OnTerm
<1>3. CASE MonitorCheck \/ MonitorAccuse \/ MonitorJudge
  BY <1>3 DEF MonitorCheck, MonitorAccuse, MonitorJudge, Judge
<1>4. CASE PingLock \/ PingRecv
  BY <1>4 DEF PingLock, PingRecv, Send, Receive, ReceiveRaises
<1>5. ASSUME NEW f \in Fetchers, FetchBegin(f) \/ FetchLock(f) \/ FetchSend(f) \/ FetchRecv(f) \/ FetchJudge(f)
      PROVE  compromised \subseteq compromised' /\ closed \subseteq closed' /\ up' \subseteq up
  BY <1>5 DEF FetchBegin, FetchLock, FetchSend, FetchRecv, FetchJudge, Judge, Send, Receive
<1>6. ASSUME NEW f \in Fetchers, FetchFails(f)
      PROVE  compromised \subseteq compromised' /\ closed \subseteq closed' /\ up' \subseteq up
  BY <1>6 DEF FetchFails, FetchCatches, Receive, ReceiveRaises
<1>7. CASE StopBegin \/ Stop
  BY <1>7 DEF StopBegin, Stop, StopClose, StopTerminate, StopWait
<1>8. QED
  BY <1>1, <1>2, <1>3, <1>4, <1>5, <1>6, <1>7 DEF Next, Monitor, FetchStep

\* Nothing is accused before the constructor has returned.
LEMMA BuiltStep ==
    ASSUME TypeOK, BuiltInv, LockInv, Next
    PROVE  BuiltInv'
<1> USE DEF BuiltInv, Built, wire, verdict, monitor, fetches, stopper
<1>1. CASE HolderStarts \/ Connect \/ ConnectRaises
  BY <1>1 DEF HolderStarts, Connect, ConnectRaises
<1>2. ASSUME NEW h \in Holder, Serve(h) \/ HolderDies(h) \/ OnTerm(h) PROVE BuiltInv'
  BY <1>2 DEF Serve, HolderDies, OnTerm
<1>3. CASE Monitor
  BY <1>3 DEF Monitor, MonitorCheck, PingRecv, MonitorAccuse, MonitorJudge
<1>4. CASE PingLock
  BY <1>4 DEF PingLock
<1>5. ASSUME NEW f \in Fetchers, FetchBegin(f) PROVE BuiltInv'
  BY <1>5 DEF FetchBegin
<1>6. ASSUME NEW f \in Fetchers, FetchLock(f) \/ FetchStep(f) PROVE BuiltInv'
  <2>1. fpc[f] # "idle" /\ UNCHANGED mpc
    BY <1>6 DEF FetchLock, FetchStep, FetchSend, FetchRecv, FetchFails, FetchCatches, FetchJudge
  <2>2. QED
    BY <2>1
<1>7. CASE StopBegin \/ Stop
  BY <1>7 DEF StopBegin, Stop, StopClose, StopTerminate, StopWait
<1>8. QED
  BY <1>1, <1>2, <1>3, <1>4, <1>5, <1>6, <1>7 DEF Next

\* The lock has one owner, which is where the lock is needed.
LEMMA LockStep ==
    ASSUME TypeOK, LockInv, Next
    PROVE  LockInv'
<1> USE DEF LockInv, wire, verdict, monitor, fetches, stopper
<1>0. "free" \notin Fetchers /\ "monitor" \notin Fetchers
  BY GroupAssumption
<1>1. CASE HolderStarts \/ Connect \/ ConnectRaises
  BY <1>1 DEF HolderStarts, Connect, ConnectRaises
<1>2. ASSUME NEW h \in Holder, Serve(h) \/ HolderDies(h) \/ OnTerm(h) PROVE LockInv'
  BY <1>2 DEF Serve, HolderDies, OnTerm
<1>3. CASE MonitorCheck \/ MonitorAccuse \/ MonitorJudge
  BY <1>3 DEF MonitorCheck, MonitorAccuse, MonitorJudge
<1>4. CASE PingLock
  BY <1>0, <1>4 DEF PingLock
<1>5. CASE PingRecv
  BY <1>0, <1>5 DEF PingRecv
<1>6. ASSUME NEW f \in Fetchers, NEW l \in Labels, At(f, l), mpc' = mpc,
             \/ lock = f /\ lock' = f /\ l \in {"send", "recv", "judge"}
             \/ lock \in {f, "free"} /\ lock' = "free" /\ l \in {"idle", "lock", "done"}
             \/ lock = "free" /\ lock' = f /\ l \in {"send", "recv", "judge"}
             \/ lock # f /\ lock' = lock /\ l \in {"idle", "lock", "done"}
      PROVE  LockInv'
  <2>1. fpc'[f] = l /\ \A g \in Fetchers : g # f => fpc'[g] = fpc[g]
    BY <1>6, Moving
  <2>2. lock' = "monitor" <=> lock = "monitor"
    BY <1>0, <1>6
  <2>3. \A g \in Fetchers : g # f => (lock' = g <=> lock = g)
    BY <1>0, <1>6
  <2>4. lock' = f <=> l \in {"send", "recv", "judge"}
    BY <1>0, <1>6
  <2>5. QED
    BY <1>6, <2>1, <2>2, <2>3, <2>4
<1>7. ASSUME NEW f \in Fetchers, FetchBegin(f) PROVE LockInv'
  BY <1>6, <1>7 DEF FetchBegin, Labels
<1>8. ASSUME NEW f \in Fetchers, FetchLock(f) PROVE LockInv'
  BY <1>6, <1>8 DEF FetchLock, Labels
<1>9. ASSUME NEW f \in Fetchers, FetchSend(f) PROVE LockInv'
  BY <1>6, <1>9 DEF FetchSend, Labels
<1>10. ASSUME NEW f \in Fetchers, FetchRecv(f) PROVE LockInv'
  BY <1>6, <1>10 DEF FetchRecv, Labels
<1>11. ASSUME NEW f \in Fetchers, FetchFails(f) PROVE LockInv'
  <2>1. lock = f /\ mpc' = mpc
    BY <1>11 DEF FetchFails, FetchCatches
  <2>2. (At(f, "idle") /\ lock' = "free") \/ (At(f, "judge") /\ lock' = lock)
    BY <1>11 DEF FetchFails, Raise
  <2>3. QED
    BY <1>6, <2>1, <2>2 DEF Labels
<1>12. ASSUME NEW f \in Fetchers, FetchJudge(f) PROVE LockInv'
  BY <1>6, <1>12 DEF FetchJudge, Raise, Labels
<1>13. CASE StopBegin \/ Stop
  BY <1>13 DEF StopBegin, Stop, StopClose, StopTerminate, StopWait
<1>14. QED
  BY <1>1, <1>2, <1>3, <1>4, <1>5, <1>7, <1>8, <1>9, <1>10, <1>11, <1>12, <1>13 DEF Next, Monitor, FetchStep

\* _kill_triggered and the kill are one step.
LEMMA KillStep ==
    ASSUME TypeOK, KillInv, Next
    PROVE  KillInv'
<1> USE DEF KillInv, wire, verdict, monitor, fetches, stopper
<1>1. CASE HolderStarts \/ Connect \/ ConnectRaises
  BY <1>1 DEF HolderStarts, Connect, ConnectRaises
<1>2. ASSUME NEW h \in Holder, Serve(h) \/ HolderDies(h) \/ OnTerm(h) PROVE KillInv'
  BY <1>2 DEF Serve, HolderDies, OnTerm
<1>3. CASE MonitorCheck \/ MonitorAccuse \/ PingLock \/ PingRecv
  BY <1>3 DEF MonitorCheck, MonitorAccuse, PingLock, PingRecv
<1>4. CASE Judge
  BY <1>4 DEF Judge, TypeOK
<1>5. ASSUME NEW f \in Fetchers, FetchBegin(f) \/ FetchLock(f) \/ FetchSend(f) \/ FetchRecv(f) \/ FetchFails(f)
      PROVE  KillInv'
  BY <1>5 DEF FetchBegin, FetchLock, FetchSend, FetchRecv, FetchFails
<1>6. CASE StopBegin \/ Stop
  BY <1>6 DEF StopBegin, Stop, StopClose, StopTerminate, StopWait
<1>7. QED
  BY <1>1, <1>2, <1>3, <1>4, <1>5, <1>6 DEF Next, Monitor, FetchStep, MonitorJudge, FetchJudge

\* A pong that does not come, or a line that is not one, is the holder's fault.
LEMMA AccuseStep ==
    ASSUME TypeOK, ShapeInv, BuiltInv, WireInv, AccuseInv, Next
    PROVE  AccuseInv'
<1> USE DEF AccuseInv, wire, verdict, monitor, fetches, stopper
<1>0. compromised \subseteq compromised' /\ closed \subseteq closed' /\ (Built => up' \subseteq up)
  BY Monotone
<1>1. ASSUME mpc' = mpc, mi' = mi PROVE AccuseInv'
  <2>1. mpc' = "accuse" => Built
    BY <1>1 DEF Built
  <2>2. ASSUME mpc' = "accuse", Failed(mi) PROVE Failed(mi)'
    BY <1>0, <1>1, <2>1, <2>2 DEF Failed
  <2>3. QED
    BY <1>0, <1>1, <2>2 DEF Failed
<1>2. CASE mpc' # "accuse"
  BY <1>2
<1>3. CASE PingLock
  BY <1>3, <1>2, <1>0 DEF PingLock, Failed
<1>4. CASE PingRecv
  <2>1. CASE ReceiveRaises(mi)
    BY <1>4, <2>1 DEF PingRecv, ReceiveRaises, Failed, Receive
  <2>2. CASE Receive(mi) /\ Head(resp[mi]) # Pong /\ mi \notin compromised
    <3>1. mi \in Holder /\ mpc = "recv" /\ resp[mi] # <<>>
      BY <1>4, <2>2 DEF PingRecv, TypeOK, Receive
    <3>2. Pending(req[mi], resp[mi], "ping", Pong)
      BY <2>2, <3>1 DEF WireInv, WireAt
    <3>3. resp[mi] = <<Pong>>
      BY <3>1, <3>2 DEF Pending
    <3>4. QED
      BY <2>2, <3>3, OneLine
  <2>3. CASE Receive(mi) /\ Head(resp[mi]) = Pong
    BY <1>4, <2>1, <2>3 DEF PingRecv
  <2>4. CASE mi \in compromised
    BY <1>4, <2>4 DEF PingRecv
  <2>5. QED
    BY <1>4, <2>1, <2>2, <2>3, <2>4 DEF PingRecv
<1>5. CASE HolderStarts \/ Connect \/ ConnectRaises
  BY <1>5 DEF HolderStarts, Connect, ConnectRaises
<1>6. ASSUME NEW h \in Holder, Serve(h) \/ HolderDies(h) \/ OnTerm(h) PROVE mpc' = mpc /\ mi' = mi
  BY <1>6 DEF Serve, HolderDies, OnTerm
<1>7. CASE MonitorCheck \/ MonitorAccuse \/ MonitorJudge
  BY <1>1, <1>2, <1>7 DEF MonitorCheck, MonitorAccuse, MonitorJudge
<1>8. ASSUME NEW f \in Fetchers, FetchBegin(f) \/ FetchLock(f) \/ FetchStep(f) PROVE mpc' = mpc /\ mi' = mi
  BY <1>8 DEF FetchBegin, FetchLock, FetchStep, FetchSend, FetchRecv, FetchFails, FetchJudge
<1>9. CASE StopBegin \/ Stop
  BY <1>1, <1>9 DEF StopBegin, Stop, StopClose, StopTerminate, StopWait
<1>10. QED
  BY <1>1, <1>3, <1>4, <1>5, <1>6, <1>7, <1>8, <1>9 DEF Next, Monitor

\* One caller at a time has the lock.
LEMMA OneOwner ==
    ASSUME LockInv
    PROVE  /\ lock = "free" => mpc # "recv" /\ \A f \in Fetchers : fpc[f] # "recv"
           /\ mpc = "recv" => \A f \in Fetchers : fpc[f] # "recv"
           /\ \A f \in Fetchers : fpc[f] \in {"send", "recv", "judge"} =>
                mpc # "recv" /\ \A g \in Fetchers : g # f => fpc[g] # "recv"
BY GroupAssumption DEF LockInv

\* What nobody but f, whose connection is another, waits for, is not there.
LEMMA NotWaitedFor ==
    ASSUME WireInv, NEW h \in Holder, h \notin compromised, ~(mpc = "accuse" /\ mi = h),
           ~(mpc = "recv" /\ mi = h), \A f \in Fetchers : ~(fpc[f] = "recv" /\ Asked(f) = h)
    PROVE  req[h] = <<>> /\ resp[h] = <<>>
BY DEF WireInv, WireAt

\* Every line is the answer to the question that its reader has asked last.
LEMMA WireStep ==
    ASSUME TypeOK, ShapeInv, LockInv, SharesInv, WireInv, Next
    PROVE  WireInv'
<1> SUFFICES ASSUME NEW h \in Holder
             PROVE  WireAt(h)'
  BY DEF WireInv
<1>a. WireAt(h)
  BY DEF WireInv
<1> USE DEF wire, verdict, monitor, fetches, stopper
<1>1. ASSUME UNCHANGED <<fpc, todo>>, req'[h] = req[h], resp'[h] = resp[h],
             compromised \subseteq compromised',
             \/ UNCHANGED <<mpc, mi>>
             \/ {mpc, mpc'} \cap {"accuse", "recv"} = {}
             \/ mpc = "accuse" /\ mi \in compromised' /\ mpc' \notin {"accuse", "recv"}
      PROVE  WireAt(h)'
  <2> SUFFICES ASSUME h \notin compromised', ~(mpc' = "accuse" /\ mi' = h)
               PROVE  /\ mpc' = "recv" /\ mi' = h => Pending(req'[h], resp'[h], "ping", Pong)
                      /\ \A f \in Fetchers : fpc'[f] = "recv" /\ Min(todo'[f]) = h =>
                             Pending(req'[h], resp'[h], "get_share", Shares[h])
                      /\ ~(mpc' = "recv" /\ mi' = h) /\ (\A f \in Fetchers : ~(fpc'[f] = "recv" /\ Min(todo'[f]) = h)) =>
                             req'[h] = <<>> /\ resp'[h] = <<>>
    BY DEF WireAt, Asked
  <2>1. h \notin compromised /\ ~(mpc = "accuse" /\ mi = h)
    BY <1>1
  <2>2. (mpc' = "recv" /\ mi' = h) <=> (mpc = "recv" /\ mi = h)
    BY <1>1
  <2>3. QED
    BY <1>1, <1>a, <2>1, <2>2 DEF WireAt, Asked
<1>2. ASSUME h \notin compromised' => req'[h] = <<>> /\ resp'[h] = <<>>
      PROVE  WireAt(h)'
  BY <1>2 DEF WireAt, Pending
<1>3. ASSUME mpc' = "accuse", mi' = h
      PROVE  WireAt(h)'
  BY <1>3 DEF WireAt
<1>4. CASE HolderStarts \/ Connect \/ ConnectRaises
  BY <1>1, <1>4 DEF HolderStarts, Connect, ConnectRaises
<1>5. ASSUME NEW g \in Holder, Serve(g) PROVE WireAt(h)'
  <2>1. CASE g # h
    <3>1. req'[h] = req[h] /\ resp'[h] = resp[h]
      BY <1>5, <2>1 DEF Serve, TypeOK, ShapeInv
    <3>2. QED
      BY <1>1, <1>5, <3>1 DEF Serve
  <2>2. CASE g = h
    <3>1. /\ req[h] # <<>> /\ req'[h] = Tail(req[h])
          /\ resp'[h] = Append(resp[h], IF Head(req[h]) = "ping" THEN Pong ELSE Shares[h])
          /\ UNCHANGED <<fpc, todo, mpc, mi, compromised>>
      BY <1>5, <2>2 DEF Serve, TypeOK, ShapeInv
    <3>2. ASSUME Pending(req[h], resp[h], "ping", Pong)
          PROVE  Pending(req'[h], resp'[h], "ping", Pong)
      BY <3>1, <3>2, OneLine DEF Pending
    <3>3. ASSUME Pending(req[h], resp[h], "get_share", Shares[h])
          PROVE  Pending(req'[h], resp'[h], "get_share", Shares[h])
      BY <3>1, <3>3, OneLine DEF Pending
    <3>4. QED
      BY <1>a, <3>1, <3>2, <3>3 DEF WireAt, Asked
  <2>3. QED
    BY <2>1, <2>2
<1>6. ASSUME NEW g \in Holder, HolderDies(g) \/ OnTerm(g) PROVE WireAt(h)'
  BY <1>1, <1>6 DEF HolderDies, OnTerm
<1>7. CASE MonitorCheck \/ MonitorAccuse \/ MonitorJudge
  <2>1. UNCHANGED <<fpc, todo, req, resp>> /\ compromised \subseteq compromised'
    BY <1>7 DEF MonitorCheck, MonitorAccuse, MonitorJudge, Judge
  <2>2. \/ {mpc, mpc'} \cap {"accuse", "recv"} = {}
        \/ mpc = "accuse" /\ mi \in compromised' /\ mpc' \notin {"accuse", "recv"}
    BY <1>7 DEF MonitorCheck, MonitorAccuse, MonitorJudge
  <2>3. QED
    BY <1>1, <2>1, <2>2
<1>8. CASE PingLock
  <2>1. /\ mpc = "lock" /\ lock = "free" /\ mi' = mi /\ UNCHANGED <<fpc, todo, compromised>>
        /\ \A f \in Fetchers : fpc[f] # "recv"
    BY <1>8, OneOwner DEF PingLock
  <2>2. h \notin compromised => req[h] = <<>> /\ resp[h] = <<>>
    BY <2>1, NotWaitedFor
  <2>3. CASE mi # h
    <3>1. req'[h] = req[h] /\ resp'[h] = resp[h]
      BY <1>8, <2>3 DEF PingLock, Send, TypeOK
    <3>2. QED
      BY <1>2, <2>1, <2>2, <3>1
  <2>4. CASE mi = h /\ mpc' = "accuse"
    BY <1>3, <2>1, <2>4
  <2>5. CASE mi = h /\ Send(mi, "ping") /\ mpc' = "recv"
    <3>1. req'[h] = Append(req[h], "ping") /\ resp'[h] = resp[h]
      BY <2>5 DEF Send, TypeOK
    <3>2. h \notin compromised' => Pending(req'[h], resp'[h], "ping", Pong)
      BY <2>1, <2>2, <3>1, OneLine DEF Pending
    <3>3. QED
      BY <2>1, <2>5, <3>2 DEF WireAt
  <2>6. QED
    BY <1>8, <2>3, <2>4, <2>5 DEF PingLock
<1>9. CASE PingRecv
  <2>1. /\ mpc = "recv" /\ UNCHANGED <<fpc, todo, compromised>>
        /\ \A f \in Fetchers : fpc[f] # "recv"
    BY <1>9, OneOwner DEF PingRecv
  <2>2. CASE mi # h
    <3>1. req'[h] = req[h] /\ resp'[h] = resp[h]
      BY <1>9, <2>2 DEF PingRecv, Receive, ReceiveRaises, TypeOK, ShapeInv
    <3>2. h \notin compromised => req[h] = <<>> /\ resp[h] = <<>>
      BY <2>1, <2>2, NotWaitedFor
    <3>3. QED
      BY <1>2, <2>1, <3>1, <3>2
  <2>3. CASE mi = h /\ mpc' = "accuse" /\ mi' = mi
    BY <1>3, <2>3
  <2>4. CASE mi = h /\ Receive(mi) /\ mpc' = "check"
    <3>1. req'[h] = req[h] /\ resp[h] # <<>> /\ resp'[h] = Tail(resp[h])
      BY <2>4 DEF Receive, ShapeInv
    <3>2. h \notin compromised => Pending(req[h], resp[h], "ping", Pong)
      BY <1>a, <2>1, <2>4 DEF WireAt
    <3>3. h \notin compromised' => req'[h] = <<>> /\ resp'[h] = <<>>
      BY <2>1, <3>1, <3>2, OneLine DEF Pending
    <3>4. QED
      BY <1>2, <3>3
  <2>5. QED
    BY <1>9, <2>2, <2>3, <2>4 DEF PingRecv
<1>10. ASSUME NEW f \in Fetchers, NEW l \in Labels \ {"recv"}, At(f, l), fpc[f] # "recv",
              \A g \in Fetchers : g # f => todo'[g] = todo[g],
              UNCHANGED <<req, resp, mpc, mi>>, compromised' = compromised
       PROVE  WireAt(h)'
  <2>1. \A g \in Fetchers : fpc'[g] = "recv" <=> fpc[g] = "recv"
    BY <1>10, Moving
  <2>2. \A g \in Fetchers : fpc[g] = "recv" => todo'[g] = todo[g]
    BY <1>10
  <2>3. QED
    BY <1>10, <1>a, <2>1, <2>2 DEF WireAt, Asked
<1>11. ASSUME NEW f \in Fetchers, FetchBegin(f) \/ FetchLock(f) PROVE WireAt(h)'
  <2>1. PICK l \in Labels \ {"recv"} : At(f, l)
    BY <1>11 DEF FetchBegin, FetchLock, Labels
  <2>2. \A g \in Fetchers : g # f => todo'[g] = todo[g]
    BY <1>11 DEF FetchBegin, FetchLock, TypeOK
  <2>3. QED
    BY <1>10, <1>11, <2>1, <2>2 DEF FetchBegin, FetchLock
<1>12. ASSUME NEW f \in Fetchers, FetchJudge(f) PROVE WireAt(h)'
  <2>1. \A g \in Fetchers : g # f => todo'[g] = todo[g]
    BY <1>12 DEF FetchJudge, Raise, TypeOK
  <2>2. QED
    BY <1>10, <1>12, <2>1 DEF FetchJudge, Judge, Raise, Labels
<1>13. ASSUME NEW f \in Fetchers, FetchSend(f) PROVE WireAt(h)'
  <2>1. /\ fpc[f] = "send" /\ mpc # "recv" /\ UNCHANGED <<mpc, mi, todo, compromised>> /\ Asked(f) \in Holder
        /\ \A g \in Fetchers : fpc[g] # "recv"
    BY <1>13, OneOwner, Asking DEF FetchSend
  <2>2. \A g \in Fetchers : g # f => fpc'[g] # "recv"
    BY <1>13, <2>1, Moving DEF FetchSend, Labels
  <2>3. h \notin compromised /\ ~(mpc = "accuse" /\ mi = h) => req[h] = <<>> /\ resp[h] = <<>>
    BY <2>1, NotWaitedFor
  <2>4. CASE Asked(f) # h
    <3>1. req'[h] = req[h] /\ resp'[h] = resp[h]
      BY <1>13, <2>4 DEF FetchSend, Send, TypeOK
    <3>2. QED
      BY <2>1, <2>3, <3>1 DEF WireAt, Pending
  <2>5. CASE Asked(f) = h
    <3>1. req'[h] = Append(req[h], "get_share") /\ resp'[h] = resp[h]
      BY <1>13, <2>5 DEF FetchSend, Send, TypeOK
    <3>2. h \notin compromised' /\ ~(mpc' = "accuse" /\ mi' = h) =>
             Pending(req'[h], resp'[h], "get_share", Shares[h])
      BY <2>1, <2>3, <3>1, OneLine DEF Pending
    <3>3. Asked(f)' = h /\ fpc'[f] = "recv"
      BY <1>13, <2>1, <2>5, Moving DEF FetchSend, Asked, Labels
    <3>4. QED
      BY <2>1, <2>2, <3>2, <3>3 DEF WireAt
  <2>6. QED
    BY <2>4, <2>5
<1>14. ASSUME NEW f \in Fetchers, FetchRecv(f) PROVE WireAt(h)'
  <2>1. /\ fpc[f] = "recv" /\ mpc # "recv" /\ UNCHANGED <<mpc, mi, compromised>> /\ Asked(f) \in Holder
        /\ \A g \in Fetchers : g # f => fpc[g] # "recv"
    BY <1>14, OneOwner, Asking DEF FetchRecv
  <2>2. PICK l \in {"done", "send"} : At(f, l)
    BY <1>14 DEF FetchRecv
  <2>3. \A g \in Fetchers : fpc'[g] # "recv"
    BY <2>1, <2>2, Moving DEF Labels
  <2>4. h \notin compromised /\ ~(mpc = "accuse" /\ mi = h) => req'[h] = <<>> /\ resp'[h] = <<>>
    <3>1. CASE Asked(f) # h
      <4>1. req'[h] = req[h] /\ resp'[h] = resp[h]
        BY <1>14, <3>1 DEF FetchRecv, Receive, ShapeInv
      <4>2. QED
        BY <2>1, <3>1, <4>1, NotWaitedFor
    <3>2. CASE Asked(f) = h
      <4>1. req'[h] = req[h] /\ resp[h] # <<>> /\ resp'[h] = Tail(resp[h])
        BY <1>14, <3>2 DEF FetchRecv, Receive, ShapeInv
      <4>2. h \notin compromised /\ ~(mpc = "accuse" /\ mi = h) =>
               Pending(req[h], resp[h], "get_share", Shares[h])
        BY <1>a, <2>1, <3>2 DEF WireAt
      <4>3. QED
        BY <4>1, <4>2, OneLine DEF Pending
    <3>3. QED
      BY <3>1, <3>2
  <2>5. QED
    BY <2>1, <2>3, <2>4 DEF WireAt
<1>15. ASSUME NEW f \in Fetchers, FetchFails(f) PROVE WireAt(h)'
  <2>1. /\ fpc[f] \in {"send", "recv"} /\ mpc # "recv" /\ UNCHANGED <<mpc, mi>> /\ Asked(f) \in Holder
        /\ compromised' = compromised \cup {Asked(f)}
        /\ \A g \in Fetchers : g # f => fpc[g] # "recv"
    BY <1>15, OneOwner, Asking DEF FetchFails, FetchCatches
  <2>2. CASE Asked(f) = h
    BY <2>1, <2>2 DEF WireAt
  <2>3. CASE Asked(f) # h
    <3>1. req'[h] = req[h] /\ resp'[h] = resp[h]
      BY <1>15, <2>3 DEF FetchFails, FetchCatches, Receive, ReceiveRaises, ShapeInv
    <3>2. h \notin compromised /\ ~(mpc = "accuse" /\ mi = h) => req'[h] = <<>> /\ resp'[h] = <<>>
      BY <2>1, <2>3, <3>1, NotWaitedFor
    <3>3. PICK l \in {"idle", "judge"} : At(f, l)
      BY <1>15 DEF FetchFails, Raise
    <3>4. \A g \in Fetchers : fpc'[g] # "recv"
      BY <2>1, <3>3, Moving DEF Labels
    <3>5. QED
      BY <2>1, <3>2, <3>4 DEF WireAt
  <2>4. QED
    BY <2>2, <2>3
<1>16. CASE StopBegin \/ StopTerminate \/ StopWait
  BY <1>1, <1>16 DEF StopBegin, StopTerminate, StopWait
<1>17. CASE StopClose
  <2>1. CASE si = h
    BY <1>2, <1>17, <2>1 DEF StopClose, TypeOK, ShapeInv
  <2>2. CASE si # h
    <3>1. req'[h] = req[h] /\ resp'[h] = resp[h]
      BY <1>17, <2>2 DEF StopClose, TypeOK, ShapeInv
    <3>2. QED
      BY <1>1, <1>17, <3>1 DEF StopClose
  <2>3. QED
    BY <2>1, <2>2
<1>18. QED
  BY <1>4, <1>5, <1>6, <1>7, <1>8, <1>9, <1>11, <1>12, <1>13, <1>14, <1>15, <1>16, <1>17
     DEF Next, Monitor, FetchStep, Stop

\* What a fetch() has and has yet to ask always makes K shares of different holders.
LEMMA SharesStep ==
    ASSUME TypeOK, ShapeInv, SharesInv, Next
    PROVE  SharesInv'
<1> SUFFICES ASSUME NEW g \in Fetchers
             PROVE  SharesAt(g)'
  BY DEF SharesInv
<1>a. SharesAt(g)
  BY DEF SharesInv
<1> USE DEF wire, verdict, monitor, fetches, stopper
<1>1. ASSUME todo'[g] = todo[g], collected'[g] = collected[g],
             \/ fpc'[g] = fpc[g]
             \/ {fpc[g], fpc'[g]} \subseteq {"lock", "send", "recv"}
             \/ fpc'[g] = "judge"
      PROVE  SharesAt(g)'
  BY <1>1, <1>a DEF SharesAt
<1>2. ASSUME fpc'[g] = "idle", collected'[g] = <<>>
      PROVE  SharesAt(g)'
  BY <1>2, NoShares DEF SharesAt
<1>3. ASSUME UNCHANGED fetches
      PROVE  SharesAt(g)'
  BY <1>1, <1>3
<1>4. CASE HolderStarts \/ Connect \/ ConnectRaises
  BY <1>3, <1>4 DEF HolderStarts, Connect, ConnectRaises
<1>5. ASSUME NEW h \in Holder, Serve(h) \/ HolderDies(h) \/ OnTerm(h) PROVE SharesAt(g)'
  BY <1>3, <1>5 DEF Serve, HolderDies, OnTerm
<1>6. CASE Monitor \/ PingLock
  BY <1>3, <1>6 DEF Monitor, MonitorCheck, PingLock, PingRecv, MonitorAccuse, MonitorJudge
<1>7. ASSUME NEW f \in Fetchers, f # g, FetchBegin(f) \/ FetchLock(f) \/ FetchStep(f)
      PROVE  SharesAt(g)'
  <2>1. fpc'[g] = fpc[g]
    BY <1>7 DEF FetchBegin, FetchLock, FetchStep, FetchSend, FetchRecv, FetchFails, FetchJudge, Raise, At, TypeOK
  <2>2. todo'[g] = todo[g]
    BY <1>7 DEF FetchBegin, FetchLock, FetchStep, FetchSend, FetchRecv, FetchFails, FetchJudge, Raise, TypeOK
  <2>3. collected'[g] = collected[g]
    BY <1>7 DEF FetchBegin, FetchLock, FetchStep, FetchSend, FetchRecv, FetchFails, FetchJudge, Raise, ShapeInv
  <2>4. QED
    BY <1>1, <2>1, <2>2, <2>3
<1>8. CASE FetchBegin(g)
  <2>1. collected'[g] = <<>>
    BY <1>8 DEF FetchBegin, ShapeInv
  <2>2. CASE At(g, "idle")
    BY <1>2, <2>1, <2>2, Moving DEF Labels
  <2>3. CASE ~(Cardinality(Holder \ compromised) < K) /\ At(g, "lock")
                /\ todo' = [todo EXCEPT ![g] = FirstK(Holder \ compromised)]
    <3>1. Holder \ compromised \in SUBSET Nat /\ IsFiniteSet(Holder \ compromised)
      BY Holders, FS_Subset
    <3>2. Cardinality(Holder \ compromised) \in Nat /\ K \in Nat /\ K > 0
      BY <3>1, FS_CardinalityType, GroupAssumption
    <3>3. Cardinality(FirstK(Holder \ compromised)) = K
      BY <2>3, <3>1, <3>2, FirstKHasK
    <3>4. todo'[g] = FirstK(Holder \ compromised) /\ fpc'[g] = "lock"
      BY <2>3, Moving DEF TypeOK, Labels
    <3>5. todo'[g] # {}
      BY <3>2, <3>3, <3>4, FS_EmptySet
    <3>6. Len(collected'[g]) + Cardinality(todo'[g]) = K
      BY <2>1, <3>2, <3>3, <3>4
    <3>7. FromOthers(collected'[g], todo'[g])
      BY <2>1, NoShares
    <3>8. QED
      BY <3>4, <3>5, <3>6, <3>7 DEF SharesAt
  <2>4. QED
    BY <1>8, <2>2, <2>3 DEF FetchBegin
<1>9. CASE FetchLock(g) \/ FetchSend(g)
  <2>1. fpc[g] \in {"lock", "send"} /\ fpc'[g] \in {"send", "recv"}
    BY <1>9, Moving DEF FetchLock, FetchSend, Labels
  <2>2. QED
    BY <1>1, <1>9, <2>1 DEF FetchLock, FetchSend
<1>10. CASE FetchRecv(g)
  <2>1. PICK a \in todo[g] : a = Asked(g) /\ a \in Holder
    BY <1>10, Asking DEF FetchRecv
  <2>2. /\ fpc[g] = "recv" /\ resp[a] # <<>> /\ Head(resp[a]) # Pong
        /\ collected'[g] = Append(collected[g], Head(resp[a]))
        /\ todo'[g] = todo[g] \ {a}
    BY <1>10, <2>1 DEF FetchRecv, Receive, TypeOK, ShapeInv
  <2>3. Head(resp[a]) = Shares[a]
    <3>1. resp[a] \in Seq(Answers)
      BY <2>1 DEF ShapeInv
    <3>2. 1 \in DOMAIN resp[a] /\ Head(resp[a]) = resp[a][1]
      BY <2>2, <3>1
    <3>3. QED
      BY <2>1, <2>2, <3>2 DEF TypeOK
  <2>4. collected[g] \in Seq(Answers) /\ todo[g] \in SUBSET Holder /\ IsFiniteSet(todo[g])
    BY Holders, FS_Subset DEF ShapeInv, TypeOK
  <2>5. FromOthers(collected'[g], todo'[g])
    <3>1. FromOthers(collected[g], todo[g])
      BY <1>a, <2>2 DEF SharesAt
    <3>2. FromOthers(Append(collected[g], Shares[a]), todo[g] \ {a})
      BY <2>1, <2>4, <3>1, OneShareMore
    <3>3. QED
      BY <2>2, <2>3, <3>2
  <2>6. /\ Len(collected[g]) \in Nat /\ Cardinality(todo[g]) \in Nat
        /\ Len(collected[g]) + Cardinality(todo[g]) = K /\ K \in Nat
    BY <1>a, <2>2, <2>4, FS_CardinalityType, GroupAssumption DEF SharesAt
  <2>7. Cardinality(todo'[g]) = Cardinality(todo[g]) - 1
    <3>1. Cardinality(todo[g] \ {a}) = Cardinality(todo[g]) - 1
      BY <2>1, <2>4, FS_RemoveElement
    <3>2. QED
      BY <2>2, <3>1
  <2>8. Len(collected'[g]) = Len(collected[g]) + 1
    BY <2>2, <2>3, <2>4, <2>1 DEF Answers
  <2>9. Len(collected'[g]) + Cardinality(todo'[g]) = K
    BY <2>6, <2>7, <2>8
  <2>10. CASE todo[g] = {a}
    <3>1. fpc'[g] = "done"
      BY <1>10, <2>1, <2>10, Moving DEF FetchRecv, Labels
    <3>2. Cardinality(todo'[g]) = 0
      BY <2>2, <2>10, FS_EmptySet
    <3>3. Len(collected'[g]) = K
      BY <2>6, <2>8, <2>9, <3>2
    <3>4. QED
      BY <2>5, <3>1, <3>3 DEF SharesAt
  <2>11. CASE todo[g] # {a}
    <3>1. fpc'[g] = "send"
      BY <1>10, <2>1, <2>11, Moving DEF FetchRecv, Labels
    <3>2. todo'[g] # {}
      BY <2>1, <2>2, <2>11
    <3>3. QED
      BY <2>5, <2>9, <3>1, <3>2 DEF SharesAt
  <2>12. QED
    BY <2>10, <2>11
<1>11. CASE Raise(g)
  <2>1. fpc'[g] = "idle" /\ collected'[g] = <<>>
    BY <1>11, Moving DEF Raise, Labels, ShapeInv
  <2>2. QED
    BY <1>2, <2>1
<1>12. CASE FetchFails(g)
  <2>1. CASE At(g, "judge") /\ UNCHANGED <<lock, todo, collected>>
    <3>1. fpc'[g] = "judge"
      BY <2>1, Moving DEF Labels
    <3>2. QED
      BY <1>1, <2>1, <3>1
  <2>2. QED
    BY <1>11, <1>12, <2>1 DEF FetchFails
<1>13. CASE FetchJudge(g)
  BY <1>11, <1>13 DEF FetchJudge
<1>14. CASE StopBegin \/ Stop
  BY <1>3, <1>14 DEF StopBegin, Stop, StopClose, StopTerminate, StopWait
<1>15. QED
  BY <1>4, <1>5, <1>6, <1>7, <1>8, <1>9, <1>10, <1>12, <1>13, <1>14 DEF Next, FetchStep

\* Who is accused first has failed.
LEMMA FailedStep ==
    ASSUME TypeOK, ShapeInv, BuiltInv, LockInv, AccuseInv, WireInv, SharesInv, AccusedHaveFailed, Next
    PROVE  AccusedHaveFailed'
<1> USE DEF wire, verdict, monitor, fetches, stopper
<1>0. compromised \subseteq compromised' /\ closed \subseteq closed' /\ (Built => up' \subseteq up)
  BY Monotone
<1>1. \A h \in compromised : h \in Holder /\ Built /\ Failed(h)
  BY DEF BuiltInv, AccusedHaveFailed, TypeOK
<1>2. ASSUME NEW h \in Holder, Failed(h), Built
      PROVE  Failed(h)'
  BY <1>0, <1>2 DEF Failed
<1>3. ASSUME NEW h \in Holder, Failed(h), Built, compromised' = compromised \cup {h}
      PROVE  AccusedHaveFailed'
  BY <1>1, <1>2, <1>3 DEF AccusedHaveFailed
<1>4. ASSUME compromised' = compromised
      PROVE  AccusedHaveFailed'
  BY <1>1, <1>2, <1>4 DEF AccusedHaveFailed
<1>5. CASE HolderStarts \/ Connect \/ ConnectRaises
  BY <1>4, <1>5 DEF HolderStarts, Connect, ConnectRaises
<1>6. ASSUME NEW h \in Holder, Serve(h) \/ HolderDies(h) \/ OnTerm(h) PROVE AccusedHaveFailed'
  BY <1>4, <1>6 DEF Serve, HolderDies, OnTerm
<1>7. CASE MonitorCheck \/ PingLock \/ PingRecv \/ MonitorJudge
  BY <1>4, <1>7 DEF MonitorCheck, PingLock, PingRecv, MonitorJudge, Judge
<1>8. CASE MonitorAccuse
  <2>1. mi \in Holder /\ mpc = "accuse" /\ compromised' = compromised \cup {mi}
    BY <1>8 DEF MonitorAccuse, TypeOK
  <2>2. CASE mi \in compromised
    BY <1>4, <2>1, <2>2
  <2>3. CASE Failed(mi)
    BY <1>3, <2>1, <2>3 DEF Built
  <2>4. QED
    BY <2>1, <2>2, <2>3 DEF AccuseInv
<1>9. ASSUME NEW f \in Fetchers, FetchBegin(f) \/ FetchLock(f) \/ FetchSend(f) \/ FetchRecv(f) \/ FetchJudge(f)
      PROVE  AccusedHaveFailed'
  BY <1>4, <1>9 DEF FetchBegin, FetchLock, FetchSend, FetchRecv, FetchJudge, Judge
<1>10. ASSUME NEW f \in Fetchers, FetchFails(f) PROVE AccusedHaveFailed'
  <2>1. PICK a \in todo[f] : a = Asked(f) /\ a \in Holder
    BY <1>10, Asking DEF FetchFails, FetchCatches
  <2>2. compromised' = compromised \cup {a} /\ fpc[f] \in {"send", "recv"}
    BY <1>10, <2>1 DEF FetchFails, FetchCatches
  <2>3. Built
    BY <2>2 DEF BuiltInv
  <2>4. a \in compromised \/ Failed(a)
    <3>1. CASE a \in closed \/ ReceiveRaises(a)
      BY <3>1 DEF ReceiveRaises, Failed
    <3>2. CASE fpc[f] = "recv" /\ Receive(a) /\ Head(resp[a]) = Pong
      <4> SUFFICES ASSUME a \notin compromised PROVE Failed(a)
        OBVIOUS
      <4>1. CASE mpc = "accuse" /\ mi = a
        BY <4>1 DEF AccuseInv
      <4>2. CASE ~(mpc = "accuse" /\ mi = a)
        <5>1. Pending(req[a], resp[a], "get_share", Shares[a])
          BY <2>1, <3>2, <4>2 DEF WireInv, WireAt
        <5>2. resp[a] = <<Shares[a]>>
          BY <3>2, <5>1 DEF Pending, Receive
        <5>3. QED
          BY <2>1, <3>2, <5>2, OneLine, SharingAssumption
      <4>3. QED
        BY <4>1, <4>2
    <3>3. QED
      BY <1>10, <2>1, <3>1, <3>2 DEF FetchFails, FetchCatches
  <2>5. QED
    BY <1>3, <1>4, <2>1, <2>2, <2>3, <2>4
<1>11. CASE StopBegin \/ Stop
  BY <1>4, <1>11 DEF StopBegin, Stop, StopClose, StopTerminate, StopWait
<1>12. QED
  BY <1>5, <1>6, <1>7, <1>8, <1>9, <1>10, <1>11 DEF Next, Monitor, FetchStep

\* stop() sets the flag before it closes the first connection.
LEMMA ClosedStep ==
    ASSUME ClosedInv, Next
    PROVE  ClosedInv'
<1> USE DEF ClosedInv, wire, verdict, monitor, fetches, stopper
<1>1. CASE HolderStarts \/ Connect \/ ConnectRaises
  BY <1>1 DEF HolderStarts, Connect, ConnectRaises
<1>2. ASSUME NEW h \in Holder, Serve(h) \/ HolderDies(h) \/ OnTerm(h) PROVE ClosedInv'
  BY <1>2 DEF Serve, HolderDies, OnTerm
<1>3. CASE Monitor \/ PingLock
  BY <1>3 DEF Monitor, MonitorCheck, PingRecv, MonitorAccuse, MonitorJudge, PingLock
<1>4. ASSUME NEW f \in Fetchers, FetchBegin(f) \/ FetchLock(f) \/ FetchStep(f) PROVE ClosedInv'
  BY <1>4 DEF FetchBegin, FetchLock, FetchStep, FetchSend, FetchRecv, FetchFails, FetchJudge
<1>5. CASE StopBegin \/ Stop
  BY <1>5 DEF StopBegin, Stop, StopClose, StopTerminate, StopWait
<1>6. QED
  BY <1>1, <1>2, <1>3, <1>4, <1>5 DEF Next

\* Whoever adds a holder counts afterwards; the count that reaches the threshold kills.
LEMMA ThresholdStep ==
    ASSUME TypeOK, TypeOK', KillInv, KilledAtThreshold, Next
    PROVE  KilledAtThreshold'
<1> USE DEF wire, verdict, monitor, fetches, stopper
<1>0. /\ Cardinality(compromised) \in Nat /\ Cardinality(compromised') \in Nat
      /\ Cardinality(compromised) <= Cardinality(compromised') /\ KillThreshold \in Nat
  <2>1. compromised \subseteq compromised' /\ compromised' \subseteq Holder
    BY Monotone DEF TypeOK
  <2>2. QED
    BY <2>1, Holders, FS_Subset, FS_CardinalityType, GroupAssumption
<1>1. ASSUME main' = main, compromised' = compromised, mpc' # "judge" => mpc # "judge",
             \A f \in Fetchers : fpc[f] = "judge" => fpc'[f] = "judge"
      PROVE  KilledAtThreshold'
  BY <1>1, Zenon DEF KilledAtThreshold
<1>2. ASSUME main, Judge
      PROVE  KilledAtThreshold'
  <2>1. compromised' = compromised /\ ~killed
    BY <1>2 DEF Judge, KillInv
  <2>2. main' <=> ~(KillThreshold > 0 /\ Cardinality(compromised) >= KillThreshold)
    BY <1>2, <2>1 DEF Judge
  <2>3. QED
    BY <1>0, <2>1, <2>2 DEF KilledAtThreshold
<1>3. ASSUME main, main' = main, mpc' = "judge" \/ \E f \in Fetchers : fpc'[f] = "judge"
      PROVE  KilledAtThreshold'
  BY <1>3 DEF KilledAtThreshold
<1>4. CASE HolderStarts \/ Connect \/ ConnectRaises
  BY <1>1, <1>4 DEF HolderStarts, Connect, ConnectRaises
<1>5. ASSUME NEW h \in Holder, Serve(h) \/ HolderDies(h) \/ OnTerm(h) PROVE KilledAtThreshold'
  BY <1>1, <1>5 DEF Serve, HolderDies, OnTerm
<1>6. CASE MonitorCheck \/ PingLock \/ PingRecv
  BY <1>1, <1>6 DEF MonitorCheck, PingLock, PingRecv
<1>7. CASE MonitorAccuse
  <2>1. CASE mi \in compromised
    BY <1>1, <1>7, <2>1 DEF MonitorAccuse
  <2>2. CASE mi \notin compromised
    BY <1>3, <1>7, <2>2 DEF MonitorAccuse
  <2>3. QED
    BY <2>1, <2>2
<1>8. CASE MonitorJudge
  BY <1>2, <1>8 DEF MonitorJudge
<1>9. ASSUME NEW f \in Fetchers, NEW l \in Labels, At(f, l), main' = main, compromised' = compromised, mpc' = mpc,
             fpc[f] # "judge"
      PROVE  KilledAtThreshold'
  <2>1. \A g \in Fetchers : fpc[g] = "judge" => fpc'[g] = "judge"
    BY <1>9, Moving
  <2>2. QED
    BY <1>1, <1>9, <2>1
<1>10. ASSUME NEW f \in Fetchers, FetchBegin(f) \/ FetchLock(f) \/ FetchSend(f) \/ FetchRecv(f)
       PROVE  KilledAtThreshold'
  <2>1. PICK l \in Labels : At(f, l)
    BY <1>10 DEF FetchBegin, FetchLock, FetchSend, FetchRecv, Labels
  <2>2. fpc[f] # "judge" /\ UNCHANGED <<verdict, mpc>>
    BY <1>10 DEF FetchBegin, FetchLock, FetchSend, FetchRecv
  <2>3. QED
    BY <1>9, <2>1, <2>2
<1>11. ASSUME NEW f \in Fetchers, FetchFails(f) PROVE KilledAtThreshold'
  <2>1. /\ main /\ main' = main /\ mpc' = mpc /\ fpc[f] # "judge"
        /\ compromised' = compromised \cup {Asked(f)}
    BY <1>11 DEF FetchFails, FetchCatches
  <2>2. CASE Asked(f) \in compromised /\ At(f, "idle")
    BY <1>9, <2>1, <2>2 DEF Labels
  <2>3. CASE At(f, "judge")
    <3>1. fpc'[f] = "judge"
      BY <2>3, Moving DEF Labels
    <3>2. QED
      BY <1>3, <2>1, <3>1
  <2>4. QED
    BY <1>11, <2>2, <2>3 DEF FetchFails, Raise
<1>12. ASSUME NEW f \in Fetchers, FetchJudge(f) PROVE KilledAtThreshold'
  BY <1>2, <1>12 DEF FetchJudge
<1>13. CASE StopBegin \/ Stop
  BY <1>1, <1>13 DEF StopBegin, Stop, StopClose, StopTerminate, StopWait
<1>14. QED
  BY <1>4, <1>5, <1>6, <1>7, <1>8, <1>10, <1>11, <1>12, <1>13 DEF Next, Monitor, FetchStep

-----------------------------------------------------------------------------
(* The theorems.                                                           *)

\* The start is a state the invariant holds in.
LEMMA InitIInv ==
    ASSUME Init
    PROVE  IInv
<1>0. 1 \in Holder /\ K \in Nat /\ KillThreshold \in Nat /\ "monitor" \notin Fetchers /\ "free" \notin Fetchers
      /\ Len(<<>>) <= K
  <2>1. 1 \in Holder
    BY Holders
  <2>2. "monitor" \notin Fetchers /\ "free" \notin Fetchers
    BY GroupAssumption
  <2>3. K \in Nat /\ KillThreshold \in Nat /\ Len(<<>>) <= K
    BY GroupAssumption
  <2>4. QED
    BY <2>1, <2>2, <2>3
<1> USE DEF Init
<1>1. TypeOK
  <2>1. req \in [Holder -> Seq({"ping", "get_share"})] /\ \A h \in Holder : resp[h] = <<>>
    OBVIOUS
  <2>2. \A h \in Holder : \A i \in DOMAIN resp[h] : resp[h][i] \in {Pong, Shares[h]}
    BY <2>1
  <2>3. \A f \in Fetchers : Len(collected[f]) <= K
    BY <1>0
  <2>4. QED
    BY <1>0, <2>1, <2>2, <2>3 DEF TypeOK
<1>2. ShapeInv /\ BuiltInv /\ LockInv /\ KillInv /\ AccuseInv
  BY <1>0 DEF ShapeInv, BuiltInv, LockInv, KillInv, AccuseInv
<1>3. WireInv
  BY DEF WireInv, WireAt
<1>4. SharesInv
  BY NoShares DEF SharesInv, SharesAt
<1>7. ClosedInv
  BY DEF ClosedInv
<1>5. CauseInv
  <2>1. Cardinality(compromised) = 0
    BY FS_EmptySet
  <2>2. QED
    BY <1>0, <2>1 DEF CauseInv, AccusedHaveFailed, KilledAtThreshold
<1>6. QED
  BY <1>1, <1>2, <1>3, <1>4, <1>5, <1>7 DEF IInv

\* Every step keeps it, and so does one that changes nothing.
LEMMA StepIInv ==
    ASSUME IInv, [Next]_vars
    PROVE  IInv'
<1>1. CASE Next
  <2>1. TypeOK' /\ ShapeInv'
    BY <1>1, TypeStep DEF IInv
  <2>2. BuiltInv' /\ LockInv' /\ KillInv'
    BY <1>1, BuiltStep, LockStep, KillStep DEF IInv
  <2>3. AccuseInv' /\ WireInv' /\ SharesInv'
    BY <1>1, AccuseStep, WireStep, SharesStep DEF IInv
  <2>6. ClosedInv'
    BY <1>1, ClosedStep DEF IInv
  <2>4. CauseInv'
    BY <1>1, <2>1, FailedStep, ThresholdStep DEF IInv, CauseInv
  <2>5. QED
    BY <2>1, <2>2, <2>3, <2>4, <2>6 DEF IInv
<1>2. CASE UNCHANGED vars
  <2> USE <1>2 DEF IInv, vars, wire, verdict, monitor, fetches, stopper
  <2>1. TypeOK' /\ ShapeInv' /\ BuiltInv' /\ LockInv' /\ KillInv'
    BY DEF TypeOK, ShapeInv, BuiltInv, Built, LockInv, KillInv
  <2>2. AccuseInv' /\ WireInv' /\ SharesInv'
    BY DEF AccuseInv, Failed, WireInv, WireAt, Asked, SharesInv, SharesAt
  <2>3. ClosedInv' /\ CauseInv'
    BY DEF ClosedInv, CauseInv, AccusedHaveFailed, Failed, KilledAtThreshold
  <2>4. QED
    BY <2>1, <2>2, <2>3
<1>3. QED
  BY <1>1, <1>2

\* The inductive invariant of network_trust.py and holder_server.py: one question under way
\* on a connection, its answer the next line its reader takes, one share per holder asked.
THEOREM Invariance == Spec => []IInv
<1>1. Init => IInv
  BY InitIInv
<1>2. IInv /\ [Next]_vars => IInv'
  BY StepIInv
<1>3. QED
  BY <1>1, <1>2, PTL DEF Spec

\* "One request/response in flight per socket", and a fetch() that returns has the root
\* secret: no late answer, lost holder or closed connection makes it combine the wrong shares.
THEOREM AnswersAreRight == Spec => []RightAnswers
<1>1. ASSUME IInv PROVE RightAnswers
  <2>1. InStep
    <3>1. ASSUME lock = "free" PROVE mpc # "recv" /\ \A f \in Fetchers : fpc[f] # "recv"
      BY <1>1, <3>1, OneOwner DEF IInv
    <3>2. QED
      BY <1>1, <3>1 DEF IInv, InStep, WireInv, WireAt
  <2>2. RightSecret
    <3>1. ASSUME NEW f \in Fetchers, fpc[f] = "done" PROVE Combine(collected[f]) = Secret
      BY <1>1, <3>1, KShares DEF IInv, ShapeInv, SharesInv, SharesAt
    <3>2. QED
      BY <3>1 DEF RightSecret
  <2>3. QED
    BY <1>1, <2>1, <2>2 DEF IInv, RightAnswers
<1>2. QED
  BY <1>1, Invariance, PTL

\* Until stop() is called, whoever is accused died or may have been late, and the process
\* is killed at the threshold of accused holders and never before it, whichever thread
\* counts the last one.
THEOREM KillsForCause == Spec => []KilledForCause
<1>1. ASSUME IInv PROVE KilledForCause
  <2>1. ASSUME ~stopping PROVE closed = {}
    BY <1>1, <2>1 DEF IInv, ClosedInv
  <2>2. OnlyFailedAreAccused
    BY <1>1, <2>1 DEF IInv, CauseInv, AccusedHaveFailed, Failed, OnlyFailedAreAccused, TypeOK
  <2>3. QED
    BY <1>1, <2>2 DEF IInv, CauseInv, KilledForCause
<1>2. QED
  BY <1>1, Invariance, PTL
==============================================================================
