--------------------------- MODULE StorePool_proofs ---------------------------
(***************************************************************************)
(* Proofs about StorePool, for any number of instances and connections,    *)
(* any limit of the pool and any number of lost sessions.                  *)
(***************************************************************************)
EXTENDS StorePool, FiniteSetTheorems, SequenceTheorems, TLAPS

(* The inductive invariant. *)

\* What the place of a thread says of its connection and its transaction.  A
\* transaction whose abort has failed holds only what is abandoned; one that
\* wrote keeps its connection until it is left.
ThreadInv ==
    \A i \in Instance :
        /\ pc[i] \in {"idle", "cleaners", "raised"} => held[i] \notin Conn
        /\ pc[i] = "commit" => phase[i] = "out"
        /\ pc[i] \in {"abort", "failing", "cleaners", "raised"} => phase[i] = "in"
        /\ pc[i] \in {"append", "failing"} /\ ~closed => work[held[i]] = "none"
        /\ phase[i] = "stuck" =>
              pc[i] \in {"idle", "busy"} /\ (held[i] \in Conn => held[i] \in abandoned)
        /\ wrote[i] => phase[i] = "in" /\ pc[i] # "idle"

\* Until the pool is closed it knows how many instances there are and keeps no
\* more connections than that allows; then it has none.
CountInv ==
    IF closed THEN connections = <<>>
    ELSE count = Cardinality(Open) /\ Len(connections) <= KeepConnections(count)

PoolInv ==
    /\ TypeOK
    /\ ThreadInv
    /\ CountInv
    /\ OnePlace
    /\ PooledAreClean
    /\ NoSessionLeaked
    /\ WritesStayTogether

-----------------------------------------------------------------------------
(* Sequences and cardinalities. *)

\* A part of a sequence has elements of the sequence, each no more often.
LEMMA PartOfSeq ==
    ASSUME NEW s \in Seq(Conn), IsInjective(s),
           NEW m \in 1..(Len(s) + 1), NEW n \in 0..Len(s), m <= n + 1
    PROVE  LET t == SubSeq(s, m, n)
           IN  /\ t \in Seq(Conn) /\ Len(t) = n - m + 1
               /\ IsInjective(t)
               /\ Range(t) = {s[k] : k \in m..n}
<1> DEFINE t == SubSeq(s, m, n)
<1>1. Len(s) \in Nat /\ DOMAIN s = 1..Len(s) /\ \A k \in 1..Len(s) : s[k] \in Conn
  BY LenProperties, ElementOfSeq
<1>2. /\ t \in Seq(Conn) /\ Len(t) = n - m + 1
      /\ \A k \in 1..(n - m + 1) : t[k] = s[m + k - 1]
  BY SMTT(30), <1>1, SubSeqProperties
<1>3. DOMAIN t = 1..(n - m + 1)
  BY <1>2, LenProperties
<1>4. IsInjective(t)
  BY <1>1, <1>2, <1>3 DEF IsInjective
<1>5. ASSUME NEW c \in Range(t) PROVE c \in {s[k] : k \in m..n}
  <2>1. PICK k \in 1..(n - m + 1) : c = t[k]
    BY <1>3, <1>5 DEF Range
  <2>2. m + k - 1 \in m..n /\ c = s[m + k - 1]
    BY <1>1, <1>2, <2>1
  <2> QED BY <2>2
<1>6. ASSUME NEW k \in m..n PROVE s[k] \in Range(t)
  <2>1. k - m + 1 \in 1..(n - m + 1) /\ t[k - m + 1] = s[k]
    BY <1>1, <1>2
  <2> QED BY <1>3, <2>1 DEF Range
<1> QED BY <1>2, <1>4, <1>5, <1>6

\* The least and the greatest of two numbers.
LEMMA MaxMinOfTwo ==
    ASSUME NEW a \in Int, NEW b \in Int, a <= b
    PROVE  Max({a, b}) = b /\ Max({b, a}) = b /\ Min({a, b}) = a
<1>1. {a, b} = {b, a}
  OBVIOUS
<1>2. Max({a, b}) = b
  <2>1. b \in {a, b} /\ \A y \in {a, b} : b >= y
    OBVIOUS
  <2>2. \A x \in {a, b} : (\A y \in {a, b} : x >= y) => x = b
    OBVIOUS
  <2> QED BY <2>1, <2>2 DEF Max
<1>3. Min({a, b}) = a
  <2>1. a \in {a, b} /\ \A y \in {a, b} : a <= y
    OBVIOUS
  <2>2. \A x \in {a, b} : (\A y \in {a, b} : x <= y) => x = a
    OBVIOUS
  <2> QED BY <2>1, <2>2 DEF Min
<1> QED BY <1>1, <1>2, <1>3

\* _shrink splits the connections into those it drops and those that stay,
\* which are not too many.
LEMMA ShrinkSplits ==
    ASSUME NEW conns \in Seq(Conn), IsInjective(conns), NEW n \in Int, Shrink(conns, n)
    PROVE  /\ connections' \in Seq(Conn) /\ IsInjective(connections)'
           /\ Len(connections') <= Len(conns)
           /\ n \in Nat => Len(connections') <= KeepConnections(n)
           /\ \E gone \in SUBSET Range(conns) :
                 /\ Drop(gone)
                 /\ gone \cap Range(connections') = {}
                 /\ gone \cup Range(connections') = Range(conns)
<1> DEFINE excess == Len(conns) - KeepConnections(n)
           least == IF excess <= Len(conns) THEN excess ELSE Len(conns)
           g == IF least > 0 THEN least ELSE 0
<1>1. Len(conns) \in Nat /\ DOMAIN conns = 1..Len(conns)
  BY LenProperties
<1>2. KeepConnections(n) \in Int /\ (n \in Nat => KeepConnections(n) \in Nat)
  BY StorePoolAssumption DEF KeepConnections
<1>3. Max({0, Min({excess, Len(conns)})}) = g
  <2>1. excess \in Int /\ Len(conns) \in Int /\ 0 \in Int
    BY <1>1, <1>2
  <2> HIDE DEF excess
  <2>2. Min({excess, Len(conns)}) = least /\ least \in Int
    <3>1. {excess, Len(conns)} = {Len(conns), excess}
      OBVIOUS
    <3>2. CASE excess <= Len(conns)
      <4>1. Min({excess, Len(conns)}) = excess
        BY <2>1, <3>2, MaxMinOfTwo, Zenon
      <4> QED BY <2>1, <3>2, <4>1
    <3>3. CASE ~(excess <= Len(conns))
      <4>1. Len(conns) <= excess
        BY <2>1, <3>3
      <4>2. Min({Len(conns), excess}) = Len(conns)
        BY <2>1, <4>1, MaxMinOfTwo, Zenon
      <4> QED BY <2>1, <3>1, <3>3, <4>2
    <3> QED BY <3>2, <3>3
  <2> HIDE DEF least
  <2>3. CASE least > 0
    <3>1. 0 <= least
      BY <2>2, <2>3
    <3>2. Max({0, least}) = least
      BY <2>1, <2>2, <3>1, MaxMinOfTwo, Zenon
    <3> QED BY <2>2, <2>3, <3>2
  <2>4. CASE ~(least > 0)
    <3>1. least <= 0
      BY <2>2, <2>4
    <3>2. Max({0, least}) = 0
      BY <2>1, <2>2, <3>1, MaxMinOfTwo, Zenon
    <3> QED BY <2>2, <2>4, <3>2
  <2> QED BY <2>3, <2>4
<1>4. g \in 0..Len(conns) /\ g + 1 \in 1..(Len(conns) + 1) /\ Len(conns) \in 0..Len(conns)
  BY <1>1, <1>2
<1>5. /\ connections' = SubSeq(conns, g + 1, Len(conns))
      /\ Drop(Range(SubSeq(conns, 1, g)))
  BY <1>3 DEF Shrink
<1> HIDE DEF g
<1>6. /\ connections' \in Seq(Conn) /\ Len(connections') = Len(conns) - g
      /\ IsInjective(connections')
      /\ Range(connections') = {conns[k] : k \in (g + 1)..Len(conns)}
  <2> DEFINE t == SubSeq(conns, g + 1, Len(conns))
  <2>1. /\ t \in Seq(Conn) /\ Len(t) = Len(conns) - (g + 1) + 1 /\ IsInjective(t)
        /\ Range(t) = {conns[k] : k \in (g + 1)..Len(conns)}
    <3>1. g + 1 <= Len(conns) + 1
      BY <1>1, <1>4
    <3> QED BY <1>4, <3>1, PartOfSeq
  <2>2. Len(conns) - (g + 1) + 1 = Len(conns) - g
    BY <1>1, <1>4
  <2> QED BY <1>5, <2>1, <2>2
<1>7. Range(SubSeq(conns, 1, g)) = {conns[k] : k \in 1..g}
  <2>1. 1 \in 1..(Len(conns) + 1) /\ 1 <= g + 1
    BY <1>1, <1>4
  <2> QED BY <1>4, <2>1, PartOfSeq
<1>8. Len(connections') <= Len(conns) /\ (n \in Nat => Len(connections') <= KeepConnections(n))
  BY <1>1, <1>2, <1>4, <1>6 DEF g
<1>9. Range(conns) = {conns[k] : k \in 1..Len(conns)}
  BY <1>1 DEF Range
<1>10. {conns[k] : k \in 1..g} \cap {conns[k] : k \in (g + 1)..Len(conns)} = {}
  BY <1>1, <1>4 DEF IsInjective
<1>11. {conns[k] : k \in 1..g} \cup {conns[k] : k \in (g + 1)..Len(conns)} = Range(conns)
  <2>1. 1..Len(conns) = (1..g) \cup ((g + 1)..Len(conns))
    BY <1>1, <1>4
  <2> QED BY <1>9, <2>1
<1> QED BY <1>5, <1>6, <1>7, <1>8, <1>10, <1>11

\* Putting back a connection that is not in the pool.
LEMMA AppendToPool ==
    ASSUME NEW s \in Seq(Conn), IsInjective(s), NEW c \in Conn, c \notin Range(s)
    PROVE  /\ Append(s, c) \in Seq(Conn) /\ IsInjective(Append(s, c))
           /\ Range(Append(s, c)) = Range(s) \cup {c}
<1> DEFINE t == Append(s, c)
<1>1. Len(s) \in Nat /\ DOMAIN s = 1..Len(s)
  BY LenProperties
<1>2. /\ t \in Seq(Conn) /\ Len(t) = Len(s) + 1
      /\ \A k \in 1..Len(s) : t[k] = s[k]
      /\ t[Len(s) + 1] = c
  BY AppendProperties
<1>3. DOMAIN t = 1..(Len(s) + 1)
  BY <1>2, LenProperties
<1>4. \A k \in 1..Len(s) : s[k] # c
  BY <1>1 DEF Range
<1> HIDE DEF t
<1>5. IsInjective(t)
  BY <1>1, <1>2, <1>3, <1>4 DEF IsInjective
<1>6. Range(t) = Range(s) \cup {c}
  BY <1>1, <1>2, <1>3 DEF Range
<1> QED BY <1>2, <1>5, <1>6 DEF t

\* What borrow takes leaves the pool, if it was there, and nobody holds it.
LEMMA TakenAlone ==
    ASSUME PoolInv, NEW c \in Taken, TakeFromPool
    PROVE  /\ c \in Conn
           /\ connections' \in Seq(Conn) /\ IsInjective(connections)'
           /\ Range(connections)' = Range(connections) \ {c}
           /\ Len(connections') <= Len(connections)
           /\ closed => connections' = <<>>
           /\ \A i \in Instance : held[i] # c
<1> USE DEF PoolInv, TypeOK
<1>1. Len(connections) \in Nat /\ DOMAIN connections = 1..Len(connections)
  BY LenProperties
<1>2. CASE connections # <<>>
  <2> DEFINE n == Len(connections)
  <2>1. n \in 1..n /\ 1 \in 1..(n + 1) /\ n - 1 \in 0..n /\ 1 <= (n - 1) + 1
    BY <1>1, <1>2, EmptySeq
  <2>2. c = connections[n] /\ connections' = SubSeq(connections, 1, n - 1) /\ ~closed
    BY <1>2 DEF Taken, TakeFromPool, Pop, Front, Last, CountInv
  <2>3. /\ connections' \in Seq(Conn) /\ Len(connections') = n - 1 - 1 + 1
        /\ IsInjective(connections')
        /\ Range(connections') = {connections[k] : k \in 1..(n - 1)}
    <3> DEFINE t == SubSeq(connections, 1, n - 1)
    <3>1. IsInjective(connections) /\ connections \in Seq(Conn)
      BY DEF OnePlace
    <3> HIDE DEF PoolInv, TypeOK
    <3>2. /\ t \in Seq(Conn) /\ Len(t) = n - 1 - 1 + 1 /\ IsInjective(t)
          /\ Range(t) = {connections[k] : k \in 1..(n - 1)}
      BY <2>1, <3>1, PartOfSeq
    <3> QED BY <2>2, <3>2
  <2>4. c \in Range(connections) /\ c \in Conn
    BY <1>1, <2>1, <2>2, ElementOfSeq DEF Range
  <2>5. {connections[k] : k \in 1..(n - 1)} = Range(connections) \ {c}
    <3>1. \A k \in 1..n : connections[k] = c => k = n
      BY <1>1, <2>1, <2>2 DEF IsInjective, OnePlace
    <3>2. Range(connections) = {connections[k] : k \in 1..n}
      BY <1>1 DEF Range
    <3> HIDE DEF n, PoolInv, TypeOK
    <3>3. \A m \in Nat : \A k \in 1..m : k \in 1..(m - 1) <=> k # m
      OBVIOUS
    <3>4. \A m \in Nat : \A k \in 1..(m - 1) : k \in 1..m
      OBVIOUS
    <3>5. n \in Nat
      BY <1>1 DEF n
    <3> QED BY <2>2, <3>1, <3>2, <3>3, <3>4, <3>5
  <2>6. Len(connections') <= Len(connections)
    BY <1>1, <2>3
  <2> QED BY <2>2, <2>3, <2>4, <2>5, <2>6 DEF OnePlace
<1>3. CASE connections = <<>>
  <2>1. connections' = connections /\ c \in Conn /\ \A i \in Instance : held[i] # c
    BY <1>3 DEF Taken, TakeFromPool
  <2>2. Range(connections) = {}
    BY <1>3, <1>1, EmptySeq DEF Range
  <2> QED BY <1>1, <1>3, <2>1, <2>2 DEF OnePlace
<1> QED BY <1>2, <1>3

\* An instance that is in a call of the pool is not released, nor is one made:
\* a step that leaves the pool and the instances alone leaves the counts alone.
LEMMA CountStays ==
    ASSUME PoolInv, UNCHANGED <<count, closed, instance>>,
           connections' \in Seq(Conn), Len(connections') <= Len(connections),
           closed => connections' = <<>>
    PROVE  CountInv'
<1>1. Open' = Open
  BY DEF Open
<1>2. Len(connections) \in Nat /\ Len(connections') \in Nat /\ count \in Int
  BY LenProperties DEF PoolInv, TypeOK
<1>3. ~closed => KeepConnections(count)' = KeepConnections(count) /\ KeepConnections(count) \in Int
  BY <1>2, StorePoolAssumption DEF KeepConnections
<1> QED BY <1>1, <1>2, <1>3 DEF PoolInv, CountInv

-----------------------------------------------------------------------------
(* The steps. *)

\* The main instance is open, the pool is empty.
LEMMA InitInv ==
    Init => PoolInv
<1> SUFFICES ASSUME Init PROVE PoolInv
  OBVIOUS
<1> USE StorePoolAssumption DEF Init
<1>1. connections \in Seq(Conn) /\ Len(connections) = 0 /\ DOMAIN connections = {}
  BY EmptySeq, LenProperties
<1>2. Range(connections) = {} /\ IsInjective(connections)
  BY <1>1 DEF Range, IsInjective
<1>3. TypeOK /\ ThreadInv
  <2>1. connections \in Seq(Conn) /\ count \in Int /\ lost \in 0..MaxLost
    BY <1>1
  <2>2. ThreadInv
    BY DEF ThreadInv
  <2>3. \A i \in Instance : pc[i] = "idle"
    OBVIOUS
  <2> QED BY <2>1, <2>2, <2>3 DEF TypeOK
<1>4. CountInv
  <2>1. Open = {First}
    BY DEF Open
  <2>2. Cardinality(Open) = 1
    BY <2>1, FS_Singleton
  <2>3. KeepConnections(1) \in Nat
    BY DEF KeepConnections
  <2> QED BY <1>1, <2>2, <2>3 DEF CountInv
<1>5. OnePlace /\ PooledAreClean
  BY <1>2 DEF OnePlace, PooledAreClean
<1>6. NoSessionLeaked /\ WritesStayTogether
  BY DEF NoSessionLeaked, WritesStayTogether
<1> QED BY <1>3, <1>4, <1>5, <1>6 DEF PoolInv

\* borrow that succeeds: what the instance has then is new to everybody.
LEMMA BorrowInv ==
    ASSUME PoolInv, NEW i \in Instance, Borrow(i)
    PROVE  PoolInv'
<1>1. PICK c \in Taken :
         /\ TakeFromPool
         /\ Fresh(c)
         /\ held' = [held EXCEPT ![i] = c]
         /\ abandoned' = IF phase[i] = "stuck" THEN abandoned \cup {c} ELSE abandoned
  BY DEF Borrow
<1>2. /\ c \in Conn
      /\ connections' \in Seq(Conn) /\ IsInjective(connections)'
      /\ Range(connections)' = Range(connections) \ {c}
      /\ Len(connections') <= Len(connections)
      /\ closed => connections' = <<>>
      /\ \A j \in Instance : held[j] # c
  BY <1>1, TakenAlone
<1>3. /\ pc[i] = "idle" /\ held[i] \notin Conn
      /\ pc' = [pc EXCEPT ![i] = "busy"]
      /\ UNCHANGED <<count, closed, instance, phase, wrote, force>>
  BY StorePoolAssumption DEF Borrow, MayBorrow, Goto
<1> USE StorePoolAssumption DEF PoolInv, TypeOK
<1>4. TypeOK'
  BY <1>1, <1>2, <1>3 DEF Fresh
<1>5. ThreadInv'
  BY <1>1, <1>2, <1>3 DEF Fresh, ThreadInv
<1>6. CountInv'
  BY <1>2, <1>3, CountStays
<1>7. OnePlace'
  BY <1>1, <1>2 DEF OnePlace
<1>8. PooledAreClean'
  BY <1>1, <1>2 DEF Fresh, PooledAreClean
<1>9. NoSessionLeaked'
  BY <1>1, <1>2, <1>3 DEF Fresh, NoSessionLeaked, GivesBack
<1>10. WritesStayTogether'
  BY <1>1, <1>2, <1>3 DEF Fresh, WritesStayTogether, ThreadInv
<1> QED BY <1>4, <1>5, <1>6, <1>7, <1>8, <1>9, <1>10

\* What is in the pool is a connection.
LEMMA PoolRange ==
    ASSUME PoolInv PROVE Range(connections) \subseteq Conn
BY RangeOfSeq DEF PoolInv, TypeOK

\* A step that leaves the pool and the instances alone.
LEMMA SamePoolCount ==
    ASSUME PoolInv, UNCHANGED <<pool, instance>>
    PROVE  CountInv'
BY DEF PoolInv, CountInv, Open, pool

\* A session ends with its transaction.
LEMMA LoseSessionInv ==
    ASSUME PoolInv, NEW c \in Conn, LoseSession(c)
    PROVE  PoolInv'
<1> USE StorePoolAssumption DEF PoolInv, TypeOK, pool, database, thread, Goto, LoseSession
<1>1. TypeOK'
  OBVIOUS
<1>2. ThreadInv'
  BY DEF ThreadInv, OnePlace
<1>3. CountInv'
  BY SamePoolCount
<1>4. OnePlace'
  BY PoolRange DEF OnePlace
<1>7. PooledAreClean'
  BY PoolRange DEF OnePlace, PooledAreClean
<1>5. NoSessionLeaked'
  BY DEF NoSessionLeaked, GivesBack, ThreadInv, OnePlace
<1>6. WritesStayTogether'
  BY DEF WritesStayTogether, ThreadInv, OnePlace
<1> QED BY <1>1, <1>2, <1>3, <1>4, <1>5, <1>6, <1>7

\* An error leaves the thread where it was, or on its way to a forced abort.
LEMMA RaiseTypes ==
    ASSUME TypeOK, NEW i \in Instance, pc[i] = "idle", Raise(i), UNCHANGED held
    PROVE  /\ pc' \in [Instance -> {"idle", "busy", "abort", "commit", "replace",
                                   "append", "failing", "cleaners", "raised"}]
           /\ force' \in [Instance -> BOOLEAN]
           /\ \A j \in Instance : pc'[j] \notin {"idle", "cleaners", "raised"} => held'[j] \in Conn
<1>1. CASE Goto(i, "idle") /\ UNCHANGED force
  BY <1>1 DEF Goto, TypeOK
<1>2. CASE Goto(i, "cleaners") /\ force' = [force EXCEPT ![i] = TRUE]
  BY <1>2 DEF Goto, TypeOK
<1> QED BY <1>1, <1>2 DEF Raise

\* A closed pool has nothing to lend.
LEMMA BorrowClosedInv ==
    ASSUME PoolInv, NEW i \in Instance, BorrowClosed(i)
    PROVE  PoolInv'
<1> USE StorePoolAssumption
    DEF PoolInv, TypeOK, pool, database, thread, Goto, BorrowClosed, MayBorrow, Raise, Open
<1>1. TypeOK'
  <2> HIDE DEF Raise
  <2> QED BY RaiseTypes
<1>2. ThreadInv'
  BY DEF ThreadInv, OnePlace
<1>3. CountInv'
  BY SamePoolCount
<1>4. OnePlace'
  BY PoolRange DEF OnePlace
<1>7. PooledAreClean'
  BY PoolRange DEF OnePlace, PooledAreClean
<1>5. NoSessionLeaked'
  BY DEF NoSessionLeaked, GivesBack, ThreadInv, OnePlace
<1>6. WritesStayTogether'
  BY DEF WritesStayTogether, ThreadInv, OnePlace
<1> QED BY <1>1, <1>2, <1>3, <1>4, <1>5, <1>6, <1>7

\* _replace of a connection that is rolled back, or dropped and given up.
LEMMA ReplaceThenInv ==
    ASSUME PoolInv, NEW i \in Instance, held[i] \in Conn, ~wrote[i] \/ phase[i] = "in",
           phase[i] # "stuck",
           NEW label \in {"append", "failing"}, NEW next \in {"cleaners", "raised"},
           label = "failing" => phase[i] = "in",
           pc[i] \in {"replace", "abort"}, ReplaceThen(i, label, next),
           UNCHANGED <<pool, instance, phase, wrote, force, abandoned>>
    PROVE  PoolInv'
<1>1. \/ /\ session[held[i]] = "lost" /\ GiveUp(i, next)
         /\ Drop({held[i]})
      \/ /\ Goto(i, label) /\ UNCHANGED held
         /\ Fresh(held[i]) \/ Drop({held[i]}) \/ (closed /\ UNCHANGED database)
  BY DEF ReplaceThen, ReplaceRollback, ReplaceDoesNothing, RollbackQuietly
<1>2. CASE /\ session[held[i]] = "lost" /\ GiveUp(i, next) /\ Drop({held[i]})
  <2> USE StorePoolAssumption, <1>2
      DEF PoolInv, TypeOK, pool, Goto, GiveUp, Drop
  <2>1. TypeOK'
    OBVIOUS
  <2>2. ThreadInv'
    BY DEF ThreadInv, OnePlace
  <2>3. CountInv'
    BY SamePoolCount
  <2>4. OnePlace'
    BY PoolRange DEF OnePlace
  <2>5. PooledAreClean'
    BY PoolRange DEF OnePlace, PooledAreClean
  <2>6. NoSessionLeaked'
    BY DEF NoSessionLeaked, GivesBack, ThreadInv, OnePlace
  <2>7. WritesStayTogether'
    BY DEF WritesStayTogether, ThreadInv, OnePlace
  <2> QED BY <2>1, <2>2, <2>3, <2>4, <2>5, <2>6, <2>7
<1>3. CASE /\ Goto(i, label) /\ UNCHANGED held
           /\ Fresh(held[i]) \/ Drop({held[i]}) \/ (closed /\ UNCHANGED database)
  <2> USE StorePoolAssumption, <1>3
      DEF PoolInv, TypeOK, pool, database, Goto, Fresh, Drop
  <2>1. TypeOK'
    BY SMTT(30)
  <2>2. ThreadInv'
    BY DEF ThreadInv, OnePlace
  <2>3. CountInv'
    BY SamePoolCount
  <2>4. OnePlace'
    BY PoolRange DEF OnePlace
  <2>5. PooledAreClean'
    BY PoolRange DEF OnePlace, PooledAreClean
  <2>6. NoSessionLeaked'
    BY DEF NoSessionLeaked, GivesBack, ThreadInv, OnePlace
  <2>7. WritesStayTogether'
    BY DEF WritesStayTogether, ThreadInv, OnePlace
  <2> QED BY <2>1, <2>2, <2>3, <2>4, <2>5, <2>6, <2>7
<1> QED BY <1>1, <1>2, <1>3

\* _replace at the end of tpc_finish, and of borrowing().
LEMMA ReplaceInv ==
    ASSUME PoolInv, NEW i \in Instance, Replace(i)
    PROVE  PoolInv'
<1>1. held[i] \in Conn /\ phase[i] # "stuck" /\ (~wrote[i] \/ phase[i] = "in")
  BY DEF Replace, PoolInv, TypeOK, ThreadInv
<1> QED BY <1>1, ReplaceThenInv DEF Replace

\* The aborter replaces its connection when it raises, too.
LEMMA AbortStoreRaisesInv ==
    ASSUME PoolInv, NEW i \in Instance, AbortStoreRaises(i)
    PROVE  PoolInv'
<1>1. held[i] \in Conn /\ phase[i] = "in"
  BY DEF AbortStoreRaises, PoolInv, TypeOK, ThreadInv
<1> QED BY <1>1, ReplaceThenInv DEF AbortStoreRaises

\* Nothing goes back into a closed pool; what still has a session is abandoned.
LEMMA PutBackRaisesInv ==
    ASSUME PoolInv, NEW i \in Instance, PutBackRaises(i)
    PROVE  PoolInv'
<1> USE StorePoolAssumption DEF PoolInv, TypeOK, pool, database, thread, Goto, PutBackRaises, GiveUp
<1>1. TypeOK'
  BY SMTT(30)
<1>2. ThreadInv'
  BY DEF ThreadInv, OnePlace
<1>3. CountInv'
  BY SamePoolCount
<1>4. OnePlace'
  BY SMTT(30), PoolRange DEF OnePlace
<1>7. PooledAreClean'
  BY PoolRange DEF OnePlace, PooledAreClean
<1>5. NoSessionLeaked'
  BY DEF NoSessionLeaked, GivesBack, ThreadInv, OnePlace
<1>6. WritesStayTogether'
  <2>1. /\ pc'[i] \in {"idle", "cleaners", "raised"}
        /\ \A j \in Instance \ {i} : pc'[j] = pc[j] /\ held'[j] = held[j]
    BY DEF ThreadInv
  <2> QED BY <2>1 DEF WritesStayTogether
<1> QED BY <1>1, <1>2, <1>3, <1>4, <1>5, <1>6, <1>7

\* new_oid continues in a new session only outside of a transaction.
LEMMA NewOidInv ==
    ASSUME PoolInv, NEW i \in Instance, NewOid(i)
    PROVE  PoolInv'
<1> USE StorePoolAssumption DEF PoolInv, TypeOK, pool, database, thread, Goto, NewOid, CanReconnect
<1>1. TypeOK'
  BY SMTT(30)
<1>2. ThreadInv'
  BY DEF ThreadInv, OnePlace
<1>3. CountInv'
  BY SamePoolCount
<1>4. OnePlace'
  BY PoolRange DEF OnePlace
<1>7. PooledAreClean'
  BY PoolRange DEF OnePlace, PooledAreClean
<1>5. NoSessionLeaked'
  BY DEF NoSessionLeaked, GivesBack, ThreadInv, OnePlace
<1>6. WritesStayTogether'
  BY DEF WritesStayTogether, ThreadInv, OnePlace
<1> QED BY <1>1, <1>2, <1>3, <1>4, <1>5, <1>6, <1>7

\* new_oid meets a lost session.
LEMMA NewOidFailsInv ==
    ASSUME PoolInv, NEW i \in Instance, NewOidFails(i)
    PROVE  PoolInv'
<1> USE StorePoolAssumption DEF PoolInv, TypeOK, pool, database, thread, Goto, NewOidFails, Drop
<1>1. TypeOK'
  OBVIOUS
<1>2. ThreadInv'
  BY DEF ThreadInv, OnePlace
<1>3. CountInv'
  BY SamePoolCount
<1>4. OnePlace'
  BY PoolRange DEF OnePlace
<1>7. PooledAreClean'
  BY PoolRange DEF OnePlace, PooledAreClean
<1>5. NoSessionLeaked'
  BY DEF NoSessionLeaked, GivesBack, ThreadInv, OnePlace
<1>6. WritesStayTogether'
  BY DEF WritesStayTogether, ThreadInv, OnePlace
<1> QED BY <1>1, <1>2, <1>3, <1>4, <1>5, <1>6, <1>7

\* The oids are committed, or not.
LEMMA CommitOidInv ==
    ASSUME PoolInv, NEW i \in Instance, CommitOid(i) \/ CommitOidFails(i)
    PROVE  PoolInv'
<1> USE StorePoolAssumption DEF PoolInv, TypeOK, pool, database, thread, Goto, CommitOid, CommitOidFails
<1>1. TypeOK'
  BY SMTT(30)
<1>2. ThreadInv'
  BY DEF ThreadInv, OnePlace
<1>3. CountInv'
  BY SamePoolCount
<1>4. OnePlace'
  BY PoolRange DEF OnePlace
<1>7. PooledAreClean'
  BY PoolRange DEF OnePlace, PooledAreClean
<1>5. NoSessionLeaked'
  BY DEF NoSessionLeaked, GivesBack, ThreadInv, OnePlace
<1>6. WritesStayTogether'
  BY DEF WritesStayTogether, ThreadInv, OnePlace
<1> QED BY <1>1, <1>2, <1>3, <1>4, <1>5, <1>6, <1>7

\* A transaction starts without a connection.
LEMMA TpcBeginInv ==
    ASSUME PoolInv, NEW i \in Instance, TpcBegin(i)
    PROVE  PoolInv'
<1> USE StorePoolAssumption DEF PoolInv, TypeOK, pool, database, thread, Goto, TpcBegin
<1>1. TypeOK'
  OBVIOUS
<1>2. ThreadInv'
  BY DEF ThreadInv, OnePlace
<1>3. CountInv'
  BY SamePoolCount
<1>4. OnePlace'
  BY PoolRange DEF OnePlace
<1>7. PooledAreClean'
  BY PoolRange DEF OnePlace, PooledAreClean
<1>5. NoSessionLeaked'
  BY DEF NoSessionLeaked, GivesBack, ThreadInv, OnePlace
<1>6. WritesStayTogether'
  BY DEF WritesStayTogether, ThreadInv, OnePlace
<1> QED BY <1>1, <1>2, <1>3, <1>4, <1>5, <1>6, <1>7

\* A transaction writes to its own session.
LEMMA WriteInv ==
    ASSUME PoolInv, NEW i \in Instance, Write(i)
    PROVE  PoolInv'
<1> USE StorePoolAssumption DEF PoolInv, TypeOK, pool, database, thread, Goto, Write, InTransaction
<1>1. TypeOK'
  OBVIOUS
<1>2. ThreadInv'
  BY DEF ThreadInv, OnePlace
<1>3. CountInv'
  BY SamePoolCount
<1>4. OnePlace'
  BY PoolRange DEF OnePlace
<1>7. PooledAreClean'
  BY PoolRange DEF OnePlace, PooledAreClean
<1>5. NoSessionLeaked'
  BY DEF NoSessionLeaked, GivesBack, ThreadInv, OnePlace
<1>6. WritesStayTogether'
  BY DEF WritesStayTogether, ThreadInv, OnePlace
<1> QED BY <1>1, <1>2, <1>3, <1>4, <1>5, <1>6, <1>7

\* tpc_abort starts with the store connection, if there is one.
LEMMA TpcAbortInv ==
    ASSUME PoolInv, NEW i \in Instance, TpcAbort(i)
    PROVE  PoolInv'
<1> USE StorePoolAssumption DEF PoolInv, TypeOK, pool, database, thread, Goto, TpcAbort, StartAbort
<1>1. TypeOK'
  OBVIOUS
<1>2. ThreadInv'
  BY DEF ThreadInv, OnePlace
<1>3. CountInv'
  BY SamePoolCount
<1>4. OnePlace'
  BY PoolRange DEF OnePlace
<1>7. PooledAreClean'
  BY PoolRange DEF OnePlace, PooledAreClean
<1>5. NoSessionLeaked'
  BY DEF NoSessionLeaked, GivesBack, ThreadInv, OnePlace
<1>6. WritesStayTogether'
  BY DEF WritesStayTogether, ThreadInv, OnePlace
<1> QED BY <1>1, <1>2, <1>3, <1>4, <1>5, <1>6, <1>7

\* So does the abort that an error in tpc_vote forces.
LEMMA VoteFailsInv ==
    ASSUME PoolInv, NEW i \in Instance, VoteFails(i)
    PROVE  PoolInv'
<1> USE StorePoolAssumption
    DEF PoolInv, TypeOK, pool, database, thread, Goto, VoteFails, StartAbort, InTransaction
<1>1. TypeOK'
  OBVIOUS
<1>2. ThreadInv'
  BY DEF ThreadInv, OnePlace
<1>3. CountInv'
  BY SamePoolCount
<1>4. OnePlace'
  BY PoolRange DEF OnePlace
<1>7. PooledAreClean'
  BY PoolRange DEF OnePlace, PooledAreClean
<1>5. NoSessionLeaked'
  BY DEF NoSessionLeaked, GivesBack, ThreadInv, OnePlace
<1>6. WritesStayTogether'
  BY DEF WritesStayTogether, ThreadInv, OnePlace
<1> QED BY <1>1, <1>2, <1>3, <1>4, <1>5, <1>6, <1>7

\* tpc_finish gives its connection back, committed or not.
LEMMA TpcFinishInv ==
    ASSUME PoolInv, NEW i \in Instance, TpcFinish(i)
    PROVE  PoolInv'
<1> USE StorePoolAssumption DEF PoolInv, TypeOK, pool, database, thread, Goto, TpcFinish, InTransaction
<1>1. TypeOK'
  OBVIOUS
<1>2. ThreadInv'
  BY DEF ThreadInv, OnePlace
<1>3. CountInv'
  BY SamePoolCount
<1>4. OnePlace'
  BY PoolRange DEF OnePlace
<1>7. PooledAreClean'
  BY PoolRange DEF OnePlace, PooledAreClean
<1>5. NoSessionLeaked'
  BY DEF NoSessionLeaked, GivesBack, ThreadInv, OnePlace
<1>6. WritesStayTogether'
  BY DEF WritesStayTogether, ThreadInv, OnePlace
<1> QED BY <1>1, <1>2, <1>3, <1>4, <1>5, <1>6, <1>7

\* The aborter of the store connection rolls back or drops it.
LEMMA AbortStoreInv ==
    ASSUME PoolInv, NEW i \in Instance, AbortStore(i)
    PROVE  PoolInv'
<1> USE StorePoolAssumption
    DEF PoolInv, TypeOK, pool, database, thread, Goto, AbortStore, RollbackQuietly, Fresh, Drop
<1>1. TypeOK'
  OBVIOUS
<1>2. ThreadInv'
  BY DEF ThreadInv, OnePlace
<1>3. CountInv'
  BY SamePoolCount
<1>4. OnePlace'
  BY PoolRange DEF OnePlace
<1>7. PooledAreClean'
  BY PoolRange DEF OnePlace, PooledAreClean
<1>5. NoSessionLeaked'
  BY DEF NoSessionLeaked, GivesBack, ThreadInv, OnePlace
<1>6. WritesStayTogether'
  BY DEF WritesStayTogether, ThreadInv, OnePlace
<1> QED BY <1>1, <1>2, <1>3, <1>4, <1>5, <1>6, <1>7

\* borrow that fails: the connection is gone.
LEMMA BorrowFailsInv ==
    ASSUME PoolInv, NEW i \in Instance, BorrowFails(i)
    PROVE  PoolInv'
<1>1. PICK c \in Taken : TakeFromPool /\ Drop({c})
  BY DEF BorrowFails, DropFailed
<1>2. /\ c \in Conn
      /\ connections' \in Seq(Conn) /\ IsInjective(connections)'
      /\ Range(connections)' = Range(connections) \ {c}
      /\ Len(connections') <= Len(connections)
      /\ closed => connections' = <<>>
      /\ \A j \in Instance : held[j] # c
  BY <1>1, TakenAlone
<1>3. /\ pc[i] = "idle" /\ held[i] = NoConn
      /\ \/ pc' = [pc EXCEPT ![i] = "idle"] /\ UNCHANGED force
         \/ /\ phase[i] = "in" /\ pc' = [pc EXCEPT ![i] = "cleaners"]
            /\ force' = [force EXCEPT ![i] = TRUE]
      /\ UNCHANGED <<count, closed, instance, phase, wrote, held, abandoned>>
  BY DEF BorrowFails, MayBorrow, Raise, Goto
<1> USE StorePoolAssumption DEF PoolInv, TypeOK
<1>4. TypeOK'
  <2>1. /\ session' \in [Conn -> {"none", "live", "lost"}]
        /\ work' \in [Conn -> {"none", "oids", "rows"}] /\ lost' \in 0..MaxLost
    BY <1>1 DEF Drop
  <2>2. /\ pc' \in [Instance -> {"idle", "busy", "abort", "commit", "replace",
                                 "append", "failing", "cleaners", "raised"}]
        /\ force' \in [Instance -> BOOLEAN]
        /\ \A j \in Instance : pc'[j] \notin {"idle", "cleaners", "raised"} => held[j] \in Conn
    BY <1>3, RaiseTypes DEF BorrowFails
  <2> QED BY <1>2, <1>3, <2>1, <2>2
<1>5. ThreadInv'
  BY <1>1, <1>2, <1>3 DEF Drop, ThreadInv
<1>6. CountInv'
  BY <1>2, <1>3, CountStays
<1>7. OnePlace'
  BY <1>2, <1>3 DEF OnePlace
<1>8. PooledAreClean'
  BY <1>1, <1>2, PoolRange DEF Drop, PooledAreClean
<1>9. NoSessionLeaked'
  BY <1>1, <1>2, <1>3 DEF Drop, NoSessionLeaked, GivesBack
<1>10. WritesStayTogether'
  BY <1>1, <1>2, <1>3 DEF Drop, WritesStayTogether, ThreadInv
<1> QED BY <1>4, <1>5, <1>6, <1>7, <1>8, <1>9, <1>10

\* _replace, under the lock: what comes back is not in the pool, and what
\* does not stay there has no session any more.
LEMMA PutBackInv ==
    ASSUME PoolInv, NEW i \in Instance, PutBack(i)
    PROVE  PoolInv'
<1> DEFINE conns == IF session[held[i]] = "none" THEN connections
                    ELSE Append(connections, held[i])
<1>1. /\ pc[i] \in {"append", "failing"} /\ ~closed /\ Shrink(conns, count) /\ held[i] \in Conn
      /\ work[held[i]] = "none"
      /\ held' = [held EXCEPT ![i] = IF phase[i] = "in" THEN ClosedConnection ELSE NoConn]
      /\ \E next \in {"cleaners", "raised"} :
            pc' = [pc EXCEPT ![i] = IF phase[i] = "in" THEN next ELSE "idle"]
      /\ UNCHANGED <<count, closed, instance, phase, wrote, force, abandoned>>
  BY DEF PutBack, GiveUp, Goto, PoolInv, TypeOK, ThreadInv
<1>2. count = Cardinality(Open) /\ count \in Nat
  <2>1. IsFiniteSet(Open)
    BY FS_Subset, StorePoolAssumption DEF Open
  <2> QED BY <1>1, <2>1, FS_CardinalityType DEF PoolInv, CountInv
<1>3. /\ conns \in Seq(Conn) /\ IsInjective(conns)
      /\ Range(conns) = IF session[held[i]] = "none" THEN Range(connections)
                        ELSE Range(connections) \cup {held[i]}
  BY <1>1, AppendToPool DEF PoolInv, TypeOK, OnePlace
<1> HIDE DEF conns
<1>4. /\ connections' \in Seq(Conn) /\ IsInjective(connections)'
      /\ Len(connections') <= KeepConnections(count)
  BY <1>1, <1>2, <1>3, ShrinkSplits
<1>5. PICK gone \in SUBSET Range(conns) :
         /\ Drop(gone)
         /\ gone \cap Range(connections') = {}
         /\ gone \cup Range(connections') = Range(conns)
  BY <1>1, <1>2, <1>3, ShrinkSplits
<1>6. Range(connections) \subseteq Conn
  BY PoolRange
<1>7. \A c \in Range(conns) : c \in Conn /\ \A j \in Instance \ {i} : held[j] # c
  BY <1>1, <1>3, <1>6 DEF PoolInv, OnePlace
<1>8. held'[i] \notin Conn /\ \A j \in Instance \ {i} : held'[j] = held[j] /\ pc'[j] = pc[j]
  BY <1>1, StorePoolAssumption DEF PoolInv, TypeOK
<1> USE DEF PoolInv, TypeOK
<1>9. TypeOK'
  BY <1>1, <1>4, <1>5 DEF Drop
<1>10. ThreadInv'
  BY <1>1, <1>5, <1>7, <1>8 DEF Drop, ThreadInv
<1>11. CountInv'
  BY <1>1, <1>2, <1>4 DEF CountInv, Open, KeepConnections
<1>12. OnePlace'
  BY <1>4, <1>5, <1>7, <1>8 DEF OnePlace
<1>13. PooledAreClean'
  BY <1>1, <1>3, <1>5, <1>7 DEF Drop, PooledAreClean
<1>14. NoSessionLeaked'
  <2> SUFFICES ASSUME NEW c \in Conn \ abandoned, session'[c] # "none"
               PROVE  c \in Range(connections') \/ \E j \in Instance : GivesBack(j, c)'
    BY <1>1 DEF NoSessionLeaked
  <2>1. c \notin gone /\ session[c] # "none"
    BY <1>5 DEF Drop
  <2>2. CASE c \in Range(conns)
    BY <1>5, <2>1, <2>2
  <2>3. CASE c \notin Range(conns)
    <3>1. c # held[i] /\ c \notin Range(connections)
      BY <1>3, <2>1, <2>3
    <3>2. PICK j \in Instance : GivesBack(j, c)
      BY <2>1, <3>1 DEF NoSessionLeaked
    <3> QED BY <1>1, <1>8, <3>1, <3>2 DEF GivesBack
  <2> QED BY <2>2, <2>3
<1>15. WritesStayTogether'
  BY <1>1, <1>5, <1>7, <1>8 DEF Drop, WritesStayTogether, ThreadInv
<1> QED BY <1>9, <1>10, <1>11, <1>12, <1>13, <1>14, <1>15

\* A transaction is left: nothing that it held is forgotten.
LEMMA LeaveInv ==
    ASSUME PoolInv, NEW i \in Instance, NEW p \in {"out", "stuck"}, Leave(i, p),
           \/ pc[i] \in {"cleaners", "raised"}
           \/ phase[i] = "stuck" /\ p = "out"
    PROVE  PoolInv'
<1> USE StorePoolAssumption DEF PoolInv, TypeOK, pool, database, Goto, Leave
<1>1. TypeOK'
  OBVIOUS
<1>2. ThreadInv'
  BY DEF ThreadInv
<1>3. CountInv'
  <2>1. Open' = Open
    BY DEF Open
  <2> QED BY <2>1 DEF CountInv
<1>4. OnePlace'
  BY PoolRange DEF OnePlace
<1>5. PooledAreClean'
  BY DEF PooledAreClean
<1>6. NoSessionLeaked'
  BY DEF NoSessionLeaked, GivesBack, ThreadInv
<1>7. WritesStayTogether'
  BY DEF WritesStayTogether
<1> QED BY <1>1, <1>2, <1>3, <1>4, <1>5, <1>6, <1>7

\* A new instance: the pool may keep one connection more.
LEMMA NewInstanceInv ==
    ASSUME PoolInv, NEW i \in Instance, NewInstance(i)
    PROVE  PoolInv'
<1> USE StorePoolAssumption DEF PoolInv, TypeOK, database, thread, NewInstance
<1>1. TypeOK'
  OBVIOUS
<1>2. ThreadInv'
  BY DEF ThreadInv
<1>3. CountInv'
  <2>1. IsFiniteSet(Open)
    BY FS_Subset DEF Open
  <2>2. Open' = Open \cup {i} /\ i \notin Open
    BY DEF Open
  <2>3. Cardinality(Open') = Cardinality(Open) + 1 /\ Cardinality(Open) \in Nat
    BY <2>1, <2>2, FS_AddElement, FS_CardinalityType
  <2>4. Len(connections) \in Nat
    BY LenProperties
  <2>5. ~closed => /\ KeepConnections(count) \in Nat /\ KeepConnections(count + 1) \in Nat
                   /\ KeepConnections(count) <= KeepConnections(count + 1)
    BY <2>3 DEF CountInv, KeepConnections
  <2>6. CASE ~closed
    BY <2>3, <2>4, <2>5, <2>6 DEF CountInv
  <2> QED BY <2>6 DEF CountInv
<1>4. OnePlace' /\ PooledAreClean'
  BY DEF OnePlace, PooledAreClean
<1>5. NoSessionLeaked'
  BY DEF NoSessionLeaked, GivesBack
<1>6. WritesStayTogether'
  BY DEF WritesStayTogether
<1> QED BY <1>1, <1>2, <1>3, <1>4, <1>5, <1>6

\* release: an instance less, and the pool shrinks with it.
LEMMA ReleaseInv ==
    ASSUME PoolInv, NEW i \in Instance, Release(i)
    PROVE  PoolInv'
<1>1. /\ i \in Open /\ AtRest(i) /\ count' = count - 1 /\ Shrink(connections, count - 1)
      /\ UNCHANGED <<closed, wrote, abandoned>>
  BY DEF Release, ShrinkForRelease
<1>2. /\ connections' \in Seq(Conn) /\ IsInjective(connections)'
      /\ Len(connections') <= Len(connections)
      /\ count - 1 \in Nat => Len(connections') <= KeepConnections(count - 1)
      /\ \E gone \in SUBSET Range(connections) :
            /\ Drop(gone)
            /\ gone \cap Range(connections') = {}
            /\ gone \cup Range(connections') = Range(connections)
  <2>1. count - 1 \in Int /\ connections \in Seq(Conn) /\ IsInjective(connections)
    BY DEF PoolInv, TypeOK, OnePlace
  <2> QED BY <1>1, <2>1, ShrinkSplits
<1>3. PICK gone \in SUBSET Range(connections) :
         /\ Drop(gone)
         /\ gone \cap Range(connections') = {}
         /\ gone \cup Range(connections') = Range(connections)
  BY <1>2
<1>4. \A c \in Range(connections) : c \in Conn /\ \A j \in Instance : held[j] # c
  BY PoolRange DEF PoolInv, OnePlace
<1> DEFINE Others == \A j \in Instance \ {i} :
                        pc'[j] = pc[j] /\ phase'[j] = phase[j] /\ held'[j] = held[j]
<1>5. /\ Others
      /\ \/ /\ phase[i] = "in" /\ phase'[i] = "in" /\ held'[i] = held[i]
            /\ pc'[i] = (IF held[i] \in Conn THEN "abort" ELSE "cleaners")
         \/ /\ phase[i] # "in" /\ phase'[i] = "out" /\ held'[i] = NoConn /\ pc'[i] = "idle"
            /\ held[i] \in Conn => held[i] \in abandoned
  BY <1>1 DEF Release, StartAbort, Goto, PoolInv, TypeOK, ThreadInv, AtRest
<1> USE DEF PoolInv
<1>6. TypeOK'
  <2>1. /\ session' \in [Conn -> {"none", "live", "lost"}]
        /\ work' \in [Conn -> {"none", "oids", "rows"}] /\ lost' \in 0..MaxLost
    BY <1>3 DEF Drop, TypeOK
  <2>2. /\ instance' \in [Instance -> {"none", "open", "releasing", "released", "closed"}]
        /\ phase' \in [Instance -> {"out", "in", "stuck"}]
        /\ held' \in [Instance -> Conn \cup {NoConn, ClosedConnection}]
        /\ force' \in [Instance -> BOOLEAN]
        /\ pc' \in [Instance -> {"idle", "busy", "abort", "commit", "replace",
                                 "append", "failing", "cleaners", "raised"}]
    <3>1. CASE phase[i] = "in"
      BY ZenonT(30), <3>1 DEF Release, StartAbort, Goto, TypeOK
    <3>2. CASE phase[i] # "in"
      BY SMTT(30), <3>2 DEF Release, Goto, TypeOK
    <3> QED BY <3>1, <3>2
  <2>3. \A j \in Instance : pc'[j] \notin {"idle", "cleaners", "raised"} => held'[j] \in Conn
    BY <1>5 DEF TypeOK
  <2> QED BY <1>1, <1>2, <2>1, <2>2, <2>3 DEF TypeOK
<1>7. ThreadInv'
  BY <1>1, <1>3, <1>4, <1>5, StorePoolAssumption DEF Drop, TypeOK, ThreadInv
<1>8. CountInv'
  <2>1. IsFiniteSet(Open)
    BY FS_Subset, StorePoolAssumption DEF Open
  <2>2. Open' = Open \ {i}
    BY <1>1 DEF Release, Open, TypeOK
  <2>3. /\ Cardinality(Open) \in Nat /\ Cardinality(Open') \in Nat
        /\ Cardinality(Open') = Cardinality(Open) - 1
    BY <1>1, <2>1, <2>2, FS_RemoveElement, FS_CardinalityType
  <2>4. CASE ~closed
    BY <1>1, <1>2, <2>3, <2>4 DEF CountInv
  <2>5. CASE closed
    <3>1. Len(connections) = 0 /\ Len(connections') \in Nat
      BY <1>2, <2>5, EmptySeq, LenProperties DEF CountInv
    <3>2. connections' = <<>>
      BY <1>2, <3>1, EmptySeq
    <3> QED BY <1>1, <2>5, <3>2 DEF CountInv
  <2> QED BY <2>4, <2>5
<1>9. OnePlace'
  BY <1>2, <1>3, <1>4, <1>5, StorePoolAssumption DEF OnePlace
<1>10. PooledAreClean'
  BY <1>3, <1>4 DEF Drop, PooledAreClean
<1>11. NoSessionLeaked'
  <2> SUFFICES ASSUME NEW c \in Conn \ abandoned, session'[c] # "none"
               PROVE  c \in Range(connections') \/ \E j \in Instance : GivesBack(j, c)'
    BY <1>1 DEF NoSessionLeaked
  <2>1. c \notin gone /\ session[c] # "none"
    BY <1>3 DEF Drop
  <2>2. CASE c \in Range(connections)
    BY <1>3, <2>1, <2>2
  <2>3. CASE c \notin Range(connections)
    <3>1. PICK j \in Instance : GivesBack(j, c)
      BY <2>1, <2>3 DEF NoSessionLeaked
    <3> QED BY <1>1, <1>5, <3>1 DEF GivesBack, AtRest, ThreadInv
  <2> QED BY <2>2, <2>3
<1>12. WritesStayTogether'
  BY <1>1, <1>3, <1>4, <1>5 DEF Drop, WritesStayTogether, ThreadInv, TypeOK
<1> QED BY <1>6, <1>7, <1>8, <1>9, <1>10, <1>11, <1>12

\* zap_all empties the pool.
LEMMA ZapAllInv ==
    ASSUME PoolInv, NEW i \in Instance, ZapAll(i)
    PROVE  PoolInv'
<1> USE DEF PoolInv, ZapAll, thread
<1>1. connections' \in Seq(Conn) /\ Len(connections') = 0
  BY EmptySeq
<1>2. Range(connections)' = {} /\ IsInjective(connections)'
  BY <1>1, LenProperties DEF Range, IsInjective
<1>3. \A c \in Range(connections) : c \in Conn /\ \A j \in Instance : held[j] # c
  BY PoolRange DEF OnePlace
<1>4. TypeOK'
  BY <1>1 DEF TypeOK, Drop
<1>5. ThreadInv'
  BY <1>3 DEF ThreadInv, TypeOK, Drop
<1>6. CountInv'
  BY <1>1, CountStays, LenProperties DEF TypeOK
<1>7. OnePlace' /\ PooledAreClean'
  BY <1>2 DEF OnePlace, PooledAreClean
<1>8. NoSessionLeaked'
  BY DEF NoSessionLeaked, GivesBack, Drop
<1>9. WritesStayTogether'
  BY <1>3 DEF WritesStayTogether, TypeOK, Drop
<1> QED BY <1>4, <1>5, <1>6, <1>7, <1>8, <1>9

\* close: the connections of the pool and of the instances it gets to are
\* dropped; the others keep theirs.
LEMMA CloseInv ==
    ASSUME PoolInv, Close
    PROVE  PoolInv'
<1>1. /\ \A i \in Instance : AtRest(i)
      /\ closed' = TRUE /\ count' = 0 /\ connections' = <<>>
      /\ UNCHANGED <<force, abandoned>>
  BY DEF Close
<1>2. PICK S \in SUBSET Open :
         /\ instance' = [i \in Instance |-> IF i \in S THEN "closed" ELSE instance[i]]
         /\ phase' = [i \in Instance |-> IF i \in S THEN "out" ELSE phase[i]]
         /\ wrote' = [i \in Instance |-> wrote[i] /\ i \notin S]
         /\ held' = [i \in Instance |-> IF i \in S THEN NoConn ELSE held[i]]
         /\ pc' = [i \in Instance |-> IF i \in S THEN "idle" ELSE pc[i]]
         /\ Drop(Range(connections) \cup {held[i] : i \in {j \in S : phase[j] = "in"}})
  BY DEF Close
<1> DEFINE gone == Range(connections) \cup {held[i] : i \in {j \in S : phase[j] = "in"}}
<1>3. connections' \in Seq(Conn) /\ Len(connections') = 0
  BY <1>1, EmptySeq
<1>4. Range(connections)' = {} /\ IsInjective(connections)'
  BY <1>3, LenProperties DEF Range, IsInjective
<1>5. \A i \in Instance \ S : held[i] \in Conn => held[i] \notin gone
  BY DEF PoolInv, OnePlace, Open
<1> HIDE DEF gone
<1>6. /\ session' = [c \in Conn |-> IF c \in gone THEN "none" ELSE session[c]]
      /\ work' = [c \in Conn |-> IF c \in gone THEN "none" ELSE work[c]]
      /\ UNCHANGED lost
  BY <1>2 DEF Drop, gone
<1> USE StorePoolAssumption DEF PoolInv
<1>7. TypeOK'
  BY <1>1, <1>2, <1>3, <1>6 DEF TypeOK
<1>8. ThreadInv'
  BY <1>1, <1>2, <1>5, <1>6 DEF ThreadInv, TypeOK
<1>9. CountInv'
  BY <1>1 DEF CountInv
<1>10. OnePlace' /\ PooledAreClean'
  BY <1>2, <1>4 DEF OnePlace, PooledAreClean
<1>11. NoSessionLeaked'
  <2> SUFFICES ASSUME NEW c \in Conn \ abandoned, session'[c] # "none"
               PROVE  \E j \in Instance : GivesBack(j, c)'
    BY <1>1 DEF NoSessionLeaked
  <2>1. c \notin gone /\ session[c] # "none"
    BY <1>6
  <2>2. c \notin Range(connections)
    BY <2>1 DEF gone
  <2>3. PICK j \in Instance : GivesBack(j, c)
    BY <2>1, <2>2 DEF NoSessionLeaked
  <2>4. phase[j] = "in" /\ held[j] = c
    BY <1>1, <2>3 DEF GivesBack, AtRest
  <2>5. j \notin S
    BY <2>1, <2>4 DEF gone
  <2> QED BY <1>2, <2>4, <2>5 DEF GivesBack
<1>12. WritesStayTogether'
  BY <1>2, <1>5, <1>6 DEF WritesStayTogether, ThreadInv, TypeOK
<1> QED BY <1>7, <1>8, <1>9, <1>10, <1>11, <1>12

-----------------------------------------------------------------------------
(* The theorems. *)

\* Every step of a thread keeps the invariant.
LEMMA ThreadStepInv ==
    ASSUME PoolInv, NEW i \in Instance, Thread(i)
    PROVE  PoolInv'
<1>1. CASE Cleaned(i) \/ CleanerFails(i) \/ AbortAgain(i)
  BY <1>1, LeaveInv DEF Cleaned, CleanerFails, AbortAgain
<1> QED BY <1>1, BorrowInv, BorrowFailsInv, BorrowClosedInv, ReplaceInv, PutBackInv,
           PutBackRaisesInv, NewOidInv, NewOidFailsInv, CommitOidInv, TpcBeginInv, WriteInv,
           VoteFailsInv, TpcAbortInv, TpcFinishInv, AbortStoreInv, AbortStoreRaisesInv,
           NewInstanceInv, ReleaseInv, ZapAllInv
        DEF Thread

\* Every step of every thread keeps the invariant.
LEMMA PoolNextInv ==
    PoolInv /\ [Next]_vars => PoolInv'
<1> SUFFICES ASSUME PoolInv, [Next]_vars PROVE PoolInv'
  OBVIOUS
<1>1. ASSUME NEW i \in Instance, Thread(i) PROVE PoolInv'
  BY <1>1, ThreadStepInv
<1>2. ASSUME NEW c \in Conn, LoseSession(c) PROVE PoolInv'
  BY <1>2, LoseSessionInv
<1>3. CASE Close
  BY <1>3, CloseInv
<1>4. CASE UNCHANGED vars
  BY <1>4 DEF vars, pool, database, thread, PoolInv, TypeOK, ThreadInv, CountInv, OnePlace,
     PooledAreClean, NoSessionLeaked, WritesStayTogether, GivesBack, Open, IsInjective, Range,
     KeepConnections
<1> QED BY <1>1, <1>2, <1>3, <1>4 DEF Next

\* The invariant holds in every behaviour.
LEMMA PoolInvariant ==
    Spec => []PoolInv
BY InitInv, PoolNextInv, PTL DEF Spec

\* Every variable keeps its type, and a thread that does something with a
\* connection has one.
THEOREM PoolTypes == Spec => []TypeOK
<1>1. PoolInv => TypeOK
  BY DEF PoolInv
<1> QED BY <1>1, PoolInvariant, PTL

\* No two instances ever use the same connection, and what is in the pool is
\* used by none.
THEOREM ConnectionsHaveOnePlace == Spec => []OnePlace
<1>1. PoolInv => OnePlace
  BY DEF PoolInv
<1> QED BY <1>1, PoolInvariant, PTL

\* A connection goes back to the pool only after its transaction has ended:
\* nobody borrows the locks or the rows of another.
THEOREM PoolIsClean == Spec => []PooledAreClean
<1>1. PoolInv => PooledAreClean
  BY DEF PoolInv
<1> QED BY <1>1, PoolInvariant, PTL

\* Whatever fails, every session that is open is in the pool or with an
\* instance that gives it back, but for those that are counted as abandoned.
THEOREM SessionsAreGivenBack == Spec => []NoSessionLeaked
<1>1. PoolInv => NoSessionLeaked
  BY DEF PoolInv
<1> QED BY <1>1, PoolInvariant, PTL

\* A transaction that wrote never goes on in a session without its rows.
THEOREM TransactionsKeepTheirSession == Spec => []WritesStayTogether
<1>1. PoolInv => WritesStayTogether
  BY DEF PoolInv
<1> QED BY <1>1, PoolInvariant, PTL

\* The pool never holds more connections than there are open instances, nor
\* more than the limit.
THEOREM PoolIsBounded == Spec => []PoolWithinLimit
<1>1. ASSUME PoolInv PROVE PoolWithinLimit
  <2>1. Len(connections) \in Nat /\ IsFiniteSet(Open) /\ Cardinality(Open) \in Nat
    BY <1>1, LenProperties, FS_Subset, FS_CardinalityType, StorePoolAssumption
       DEF PoolInv, TypeOK, Open
  <2>2. CASE closed
    BY <1>1, <2>1, <2>2, EmptySeq, StorePoolAssumption DEF PoolInv, CountInv, PoolWithinLimit
  <2>3. CASE ~closed
    <3>1. Len(connections) <= KeepConnections(Cardinality(Open))
      BY <1>1, <2>3 DEF PoolInv, CountInv
    <3> QED BY <2>1, <3>1, StorePoolAssumption DEF KeepConnections, PoolWithinLimit
  <2> QED BY <2>2, <2>3
<1> QED BY <1>1, PoolInvariant, PTL

=============================================================================
