-------------------------- MODULE SweepBatchProofs --------------------------
(***************************************************************************)
(* Proofs about SweepBatch, for any number of reviews, any size of the     *)
(* batches and any number of faults and of actions of others.              *)
(***************************************************************************)
EXTENDS SweepBatch, SequenceTheorems, WellFoundedInduction, TLAPS

---------------------------------------------------------------------------
(* Counting up *)

\* Induction, for a set of numbers: else there were a least one that is missing.
LEMMA Counting ==
    ASSUME NEW T, T \subseteq Nat, 0 \in T, \A n \in T : n + 1 \in T
    PROVE  T = Nat
<1> SUFFICES ASSUME Nat \ T # {} PROVE FALSE
  OBVIOUS
<1>1. PICK R : /\ \A m, n \in Nat : m < n => <<m, n>> \in R
               /\ IsWellFoundedOn(R, Nat)
  <2>1. \A m, n \in Nat : m < n => <<m, n>> \in OpToRel(<, Nat)
    BY DEF OpToRel
  <2>2. IsWellFoundedOn(OpToRel(<, Nat), Nat)
    BY NatLessThanWellFounded
  <2> QED
    BY <2>1, <2>2, Zenon
<1>3. PICK n \in Nat \ T : \A m \in Nat \ T : <<m, n>> \notin R
  BY <1>1, WFMin
<1>4. n \in Nat \ {0} /\ n - 1 \in Nat /\ n - 1 < n
  OBVIOUS
<1>5. <<n - 1, n>> \in R
  BY <1>1, <1>4
<1>6. n - 1 \in T
  BY <1>3, <1>4, <1>5
<1>7. n = (n - 1) + 1
  BY <1>4
<1> QED
  BY <1>6, <1>7

---------------------------------------------------------------------------
(* Among *)

\* The recursion of Among.
upTo(s, S, f, n) ==
    IF n = 0 THEN <<>>
    ELSE IF s[n] \in S THEN Append(f[n - 1], s[n])
    ELSE f[n - 1]

\* There is a function as Among defines it.
LEMMA AmongIsDefined ==
    ASSUME NEW s, NEW S, NEW N \in Nat
    PROVE  \E f : f = [n \in 0..N |-> upTo(s, S, f, n)]
<1> DEFINE Defined(k) == \E f : f = [n \in 0..k |-> upTo(s, S, f, n)]
           T == {k \in Nat : Defined(k)}
<1>1. Defined(0)
  <2> DEFINE f == [n \in 0..0 |-> <<>>]
  <2>1. f = [n \in 0..0 |-> upTo(s, S, f, n)]
    BY DEF upTo
  <2> QED
    BY <2>1
<1>2. ASSUME NEW k \in Nat, Defined(k) PROVE Defined(k + 1)
  <2>1. PICK f : f = [n \in 0..k |-> upTo(s, S, f, n)]
    BY <1>2
  <2> DEFINE g == [n \in 0..(k + 1) |-> IF n = k + 1 THEN upTo(s, S, f, n) ELSE f[n]]
  <2>2. \A n \in 0..k : g[n] = f[n]
    OBVIOUS
  <2>3. \A n \in 0..k : f[n] = upTo(s, S, f, n)
    BY <2>1
  <2>4. \A n \in 0..(k + 1) : upTo(s, S, f, n) = upTo(s, S, g, n)
    <3> SUFFICES ASSUME NEW n \in 0..(k + 1), n # 0
                 PROVE  upTo(s, S, f, n) = upTo(s, S, g, n)
      BY DEF upTo
    <3>1. n - 1 \in 0..k
      OBVIOUS
    <3>2. g[n - 1] = f[n - 1]
      BY <2>2, <3>1
    <3> HIDE DEF g
    <3> QED
      BY <3>2 DEF upTo
  <2>5. \A n \in 0..(k + 1) : g[n] = upTo(s, S, g, n)
    <3> SUFFICES ASSUME NEW n \in 0..(k + 1) PROVE g[n] = upTo(s, S, f, n)
      BY <2>4
    <3> HIDE DEF upTo
    <3> QED
      BY <2>3
  <2>6. g = [n \in 0..(k + 1) |-> upTo(s, S, g, n)]
    <3>1. g = [n \in 0..(k + 1) |-> g[n]]
      OBVIOUS
    <3> HIDE DEF g
    <3> QED
      BY <2>5, <3>1
  <2> QED
    BY <2>6
<1>3. T = Nat
  <2> HIDE DEF Defined
  <2>1. 0 \in T /\ T \subseteq Nat /\ \A k \in T : k + 1 \in T
    BY <1>1, <1>2
  <2> HIDE DEF T
  <2> QED
    BY <2>1, Counting
<1> QED
  BY <1>3
\* So the recursion holds.
LEMMA AmongUpTo ==
    ASSUME NEW s, NEW S, Len(s) \in Nat
    PROVE  \E f :
              /\ DOMAIN f = 0..Len(s)
              /\ f[0] = <<>>
              /\ \A n \in 1..Len(s) :
                    f[n] = IF s[n] \in S THEN Append(f[n - 1], s[n]) ELSE f[n - 1]
              /\ Among(s, S) = f[Len(s)]
<1> DEFINE f == CHOOSE f : f = [n \in 0..Len(s) |-> upTo(s, S, f, n)]
<1>1. f = [n \in 0..Len(s) |-> upTo(s, S, f, n)]
  BY AmongIsDefined
<1>2. Among(s, S) = f[Len(s)]
  BY DEF Among, upTo
<1> HIDE DEF f
<1>3. DOMAIN f = 0..Len(s)
  BY <1>1
<1>4. \A n \in 0..Len(s) : f[n] = upTo(s, S, f, n)
  BY <1>1
<1>5. f[0] = <<>>
  BY <1>4 DEF upTo
<1>6. \A n \in 1..Len(s) :
         f[n] = IF s[n] \in S THEN Append(f[n - 1], s[n]) ELSE f[n - 1]
  BY <1>4 DEF upTo
<1> QED
  BY <1>2, <1>3, <1>5, <1>6

LEMMA AppendGrows ==
    ASSUME NEW R, NEW p \in Seq(R), NEW e \in R
    PROVE  /\ Range(Append(p, e)) = Range(p) \cup {e}
           /\ IsInjective(p) /\ e \notin Range(p) => IsInjective(Append(p, e))
<1> DEFINE q == Append(p, e)
<1>1. /\ DOMAIN q = 1..(Len(p) + 1) /\ DOMAIN p = 1..Len(p) /\ Len(p) \in Nat
      /\ q[Len(p) + 1] = e
      /\ \A i \in 1..Len(p) : q[i] = p[i]
  OBVIOUS
<1> HIDE DEF q
<1>2. DOMAIN q = DOMAIN p \cup {Len(p) + 1} /\ Len(p) + 1 \notin DOMAIN p
  BY <1>1
<1>3. Range(q) = Range(p) \cup {e}
  BY <1>1, <1>2 DEF Range
<1>4. IsInjective(p) /\ e \notin Range(p) => IsInjective(q)
  BY <1>1, <1>2 DEF Range, IsInjective
<1> QED
  BY <1>3, <1>4 DEF q

\* What is in S, each as often as in s.
LEMMA AmongProperties ==
    ASSUME NEW R, NEW s \in Seq(R), NEW S
    PROVE  /\ Among(s, S) \in Seq(R)
           /\ Range(Among(s, S)) = Range(s) \cap S
           /\ IsInjective(s) => IsInjective(Among(s, S))
<1>1. PICK f : /\ DOMAIN f = 0..Len(s)
               /\ f[0] = <<>>
               /\ \A n \in 1..Len(s) :
                     f[n] = IF s[n] \in S THEN Append(f[n - 1], s[n]) ELSE f[n - 1]
               /\ Among(s, S) = f[Len(s)]
  BY AmongUpTo
<1> DEFINE Right(n) == /\ f[n] \in Seq(R)
                       /\ Range(f[n]) = {s[i] : i \in 1..n} \cap S
                       /\ IsInjective(s) => IsInjective(f[n])
           T == {n \in Nat : n \in 0..Len(s) => Right(n)}
<1>2. Right(0)
  BY <1>1 DEF Range, IsInjective
<1>3. ASSUME NEW n \in 1..Len(s), Right(n - 1) PROVE Right(n)
  <2>1. {s[i] : i \in 1..n} = {s[i] : i \in 1..(n - 1)} \cup {s[n]}
    OBVIOUS
  <2>2. CASE s[n] \notin S
    BY <1>1, <1>3, <2>1, <2>2
  <2>3. CASE s[n] \in S
    <3>1. f[n - 1] \in Seq(R) /\ f[n] = Append(f[n - 1], s[n]) /\ s[n] \in R
      <4>1. f[n - 1] \in Seq(R)
        BY <1>3
      <4>2. f[n] = Append(f[n - 1], s[n])
        BY <1>1, <2>3
      <4> QED
        BY <4>1, <4>2
    <3>2. Range(f[n - 1]) = {s[i] : i \in 1..(n - 1)} \cap S
      BY <1>3
    <3>3. IsInjective(s) => s[n] \notin Range(f[n - 1])
      BY <3>2 DEF IsInjective
    <3>4. f[n] \in Seq(R)
      BY <3>1
    <3>5. Range(f[n]) = Range(f[n - 1]) \cup {s[n]}
      BY <3>1, AppendGrows
    <3>6. IsInjective(s) => IsInjective(f[n])
      BY <1>3, <3>1, <3>3, AppendGrows
    <3> QED
      BY <2>1, <2>3, <3>2, <3>4, <3>5, <3>6
  <2> QED
    BY <2>2, <2>3
<1>4. T = Nat
  <2> HIDE DEF Right
  <2>1. \A n \in T : n + 1 \in T
    BY <1>3
  <2> QED
    BY <1>2, <2>1, Counting
<1>5. Right(Len(s))
  <2> HIDE DEF Right
  <2> QED
    BY <1>4
<1>6. Range(s) = {s[i] : i \in 1..Len(s)}
  BY DEF Range
<1> QED
  BY <1>1, <1>5, <1>6
InOrderOf(t, s) ==
    \A i, j \in 1..Len(t) :
        i < j => \E a, b \in 1..Len(s) : a < b /\ t[i] = s[a] /\ t[j] = s[b]

\* ... and in the order of s.
LEMMA AmongInOrder ==
    ASSUME NEW R, NEW s \in Seq(R), NEW S
    PROVE  InOrderOf(Among(s, S), s)
<1>1. PICK f : /\ DOMAIN f = 0..Len(s)
               /\ f[0] = <<>>
               /\ \A n \in 1..Len(s) :
                     f[n] = IF s[n] \in S THEN Append(f[n - 1], s[n]) ELSE f[n - 1]
               /\ Among(s, S) = f[Len(s)]
  BY AmongUpTo
<1> DEFINE Ordered(n) ==
              /\ f[n] \in Seq(R)
              /\ \A i \in 1..Len(f[n]) : \E a \in 1..n : f[n][i] = s[a]
              /\ \A i, j \in 1..Len(f[n]) :
                    i < j => \E a, b \in 1..n : a < b /\ f[n][i] = s[a] /\ f[n][j] = s[b]
           T == {n \in Nat : n \in 0..Len(s) => Ordered(n)}
<1>2. Ordered(0)
  BY <1>1
<1>3. ASSUME NEW n \in 1..Len(s), Ordered(n - 1) PROVE Ordered(n)
  <2> DEFINE p == f[n - 1]
             q == f[n]
  <2>1. p \in Seq(R)
    BY <1>3
  <2>2. \A i \in 1..Len(p) : \E a \in 1..(n - 1) : p[i] = s[a]
    BY <1>3
  <2>3. \A i, j \in 1..Len(p) :
           i < j => \E a, b \in 1..(n - 1) : a < b /\ p[i] = s[a] /\ p[j] = s[b]
    BY <1>3
  <2>4. q = p \/ q = Append(p, s[n])
    BY <1>1
  <2>5. 1..(n - 1) \subseteq 1..n
    OBVIOUS
  <2> HIDE DEF p, q
  <2>6. CASE q = p
    <3>1. \A i \in 1..Len(q) : \E a \in 1..n : q[i] = s[a]
      BY <2>2, <2>5, <2>6
    <3>2. ASSUME NEW i \in 1..Len(q), NEW j \in 1..Len(q), i < j
          PROVE  \E a, b \in 1..n : a < b /\ q[i] = s[a] /\ q[j] = s[b]
      <4>1. PICK a, b \in 1..(n - 1) : a < b /\ p[i] = s[a] /\ p[j] = s[b]
        BY <2>3, <2>6, <3>2
      <4> QED
        BY <2>5, <2>6, <4>1
    <3> QED
      BY <2>1, <2>6, <3>1, <3>2 DEF q
  <2>7. CASE q = Append(p, s[n])
    <3>1. /\ q \in Seq(R) /\ Len(q) = Len(p) + 1 /\ Len(p) \in Nat
          /\ q[Len(p) + 1] = s[n]
          /\ \A i \in 1..Len(p) : q[i] = p[i]
      BY <2>1, <2>7
    <3>2. \A i \in 1..Len(q) : \E a \in 1..n : q[i] = s[a]
      BY <2>2, <3>1
    <3>3. ASSUME NEW i \in 1..Len(q), NEW j \in 1..Len(q), i < j
          PROVE  \E a, b \in 1..n : a < b /\ q[i] = s[a] /\ q[j] = s[b]
      <4>1. i \in 1..Len(p) /\ q[i] = p[i]
        BY <3>1, <3>3
      <4>2. CASE j \in 1..Len(p)
        <5>1. PICK a, b \in 1..(n - 1) : a < b /\ p[i] = s[a] /\ p[j] = s[b]
          BY <2>3, <3>3, <4>1, <4>2
        <5> QED
          BY <2>5, <3>1, <4>1, <4>2, <5>1
      <4>3. CASE j = Len(p) + 1
        <5>1. PICK a \in 1..(n - 1) : p[i] = s[a]
          BY <2>2, <4>1
        <5>2. a < n /\ a \in 1..n /\ n \in 1..n
          OBVIOUS
        <5>3. q[i] = s[a] /\ q[j] = s[n]
          BY <3>1, <4>1, <4>3, <5>1
        <5> QED
          BY <5>2, <5>3
      <4>4. j \in 1..Len(p) \/ j = Len(p) + 1
        BY <3>1
      <4> QED
        BY <4>2, <4>3, <4>4
    <3> QED
      BY <3>1, <3>2, <3>3 DEF q
  <2> QED
    BY <2>4, <2>6, <2>7
<1>4. T = Nat
  <2> HIDE DEF Ordered
  <2>1. 0 \in T /\ T \subseteq Nat /\ \A n \in T : n + 1 \in T
    BY <1>2, <1>3
  <2> HIDE DEF T
  <2> QED
    BY <2>1, Counting
<1>5. Ordered(Len(s))
  <2> HIDE DEF Ordered
  <2> QED
    BY <1>4
<1> QED
  BY <1>1, <1>5 DEF InOrderOf

---------------------------------------------------------------------------
(* Listings *)

LEMMA LimitedProperties ==
    ASSUME NEW R, NEW ids \in Seq(R)
    PROVE  /\ Limited(ids) \in Seq(R)
           /\ Len(Limited(ids)) <= BatchLimit
           /\ Len(Limited(ids)) = BatchLimit \/ Limited(ids) = ids
           /\ Len(Limited(ids)) <= Len(ids)
           /\ \A i \in 1..Len(Limited(ids)) : Limited(ids)[i] = ids[i]
<1>1. Len(ids) \in Nat /\ BatchLimit \in Nat
  BY SweepAssumption
<1> DEFINE n == IF Len(ids) < BatchLimit THEN Len(ids) ELSE BatchLimit
<1>2. n \in 0..Len(ids) /\ n <= BatchLimit /\ (n = BatchLimit \/ n = Len(ids))
  BY <1>1
<1>3. Limited(ids) = SubSeq(ids, 1, n)
  BY DEF Limited
<1> HIDE DEF n
<1>4. \A i \in 1..n : ids[i] \in R
  BY <1>2
<1>5. /\ SubSeq(ids, 1, n) \in Seq(R)
      /\ Len(SubSeq(ids, 1, n)) = n
      /\ \A i \in 1..n : SubSeq(ids, 1, n)[i] = ids[i]
  BY <1>1, <1>2, <1>4, SubSeqProperties
<1>6. n = Len(ids) => SubSeq(ids, 1, n) = ids
  BY <1>5, SeqEqual
<1> QED
  BY <1>2, <1>3, <1>5, <1>6
\* Whatever is left out of a listing comes after everything in it, and the
\* listing is full.
LEMMA ListingProperties ==
    ASSUME NEW R, NEW s \in Seq(R), IsInjective(s), NEW S,
           NEW L, L = Limited(Among(s, S))
    PROVE  /\ L \in Seq(R)
           /\ Len(L) <= BatchLimit
           /\ Range(L) \subseteq Range(s) \cap S
           /\ \A k \in 1..Len(s) :
                 s[k] \in S \ Range(L) =>
                    /\ Len(L) = BatchLimit
                    /\ \A i \in 1..Len(L) : \E a \in 1..(k - 1) : L[i] = s[a]
<1>0. PICK A : A = Among(s, S)
  OBVIOUS
<1>1. A \in Seq(R) /\ Range(A) = Range(s) \cap S
  BY <1>0, AmongProperties
<1>2. InOrderOf(A, s)
  BY <1>0, AmongInOrder
<1>3. /\ L \in Seq(R) /\ Len(L) <= BatchLimit
      /\ Len(L) = BatchLimit \/ L = A
      /\ Len(L) <= Len(A)
      /\ \A i \in 1..Len(L) : L[i] = A[i]
  BY <1>0, <1>1, LimitedProperties
<1>4. Len(L) \in Nat /\ Len(A) \in Nat /\ DOMAIN L = 1..Len(L) /\ DOMAIN A = 1..Len(A)
      /\ DOMAIN s = 1..Len(s) /\ Len(s) \in Nat
  BY <1>1, <1>3
<1>5. \A i \in 1..Len(L) : i \in 1..Len(A)
  BY <1>3, <1>4
<1>6. Range(L) \subseteq Range(A)
  BY <1>3, <1>4, <1>5 DEF Range
<1>7. ASSUME NEW k \in 1..Len(s), s[k] \in S \ Range(L)
      PROVE  /\ Len(L) = BatchLimit
             /\ \A i \in 1..Len(L) : \E a \in 1..(k - 1) : L[i] = s[a]
  <2>1. s[k] \in Range(A)
    BY <1>1, <1>4, <1>7 DEF Range
  <2>2. Len(L) = BatchLimit
    BY <1>3, <1>7, <2>1
  <2>3. PICK m \in 1..Len(A) : A[m] = s[k]
    BY <1>4, <2>1 DEF Range
  <2>4. m > Len(L)
    <3>1. m \notin 1..Len(L)
      BY <1>3, <1>4, <1>7, <2>3 DEF Range
    <3> QED
      BY <1>4, <3>1
  <2>5. ASSUME NEW i \in 1..Len(L) PROVE \E a \in 1..(k - 1) : L[i] = s[a]
    <3>1. i \in 1..Len(A) /\ i < m
      BY <1>4, <1>5, <2>4
    <3>2. PICK a, b \in 1..Len(s) : a < b /\ A[i] = s[a] /\ A[m] = s[b]
      BY <1>2, <3>1 DEF InOrderOf
    <3>3. b = k
      BY <1>4, <2>3, <3>2 DEF IsInjective
    <3>4. a \in 1..(k - 1) /\ L[i] = s[a]
      BY <1>3, <3>2, <3>3
    <3> QED
      BY <3>4
  <2> QED
    BY <2>2, <2>5
<1> QED
  BY <1>1, <1>3, <1>6, <1>7

---------------------------------------------------------------------------
(* Types *)

Statuses == {"RECEIVED", "GENERATED", "APPROVED", "PENDING_APPROVAL", "PUBLISHED"}

Replies == PUBLISH_CLAIMABLE_REPLY_STATES
              \cup {"PUBLISH_PENDING", "PUBLISHED", "EXISTING_REPLY_FOUND"}

RowsInv ==
    /\ row \in [Reviews -> [status : Statuses, reply : Replies]]
    /\ pending \in Seq(Reviews)
    /\ IsInjective(pending)
    /\ Range(pending) = {r \in Reviews : row[r].reply = "PUBLISH_PENDING"}
    /\ stale \subseteq Range(pending)

\* A claim is held only of a candidate, and between ticks there are none.
SweeperInv ==
    /\ sweeper \in [pass : {"idle", "recover", "publish"}, batch : Seq(Reviews),
                    holds : BOOLEAN]
    /\ Len(sweeper.batch) <= BatchLimit
    /\ sweeper.holds => sweeper.batch # <<>>
    /\ sweeper.pass = "idle" => sweeper.batch = <<>>

SweepInv ==
    /\ RowsInv
    /\ SweeperInv
    /\ requireApproval \in BOOLEAN
    /\ deleted \subseteq Reviews
    /\ others \subseteq Reviews
    /\ events \in 0..MaxEvents
    /\ faults \in 0..MaxFaults

LEMMA SweepInvTypes == SweepInv => SweepTypeOK
<1> SUFFICES ASSUME SweepInv PROVE SweepTypeOK
  OBVIOUS
<1>1. Range(sweeper.batch) \subseteq Reviews
  BY DEF SweepInv, SweeperInv, Range
<1> QED
  BY <1>1 DEF SweepInv, SweeperInv, RowsInv, Statuses, Replies, SweepTypeOK

LEMMA SweepTypesInit == SweepInit => SweepInv
<1> SUFFICES ASSUME SweepInit PROVE SweepInv
  OBVIOUS
<1>1. <<>> \in Seq(Reviews) /\ IsInjective(<<>>) /\ Range(<<>>) = {} /\ Len(<<>>) = 0
  BY DEF IsInjective, Range
<1> QED
  BY <1>1, SweepAssumption
  DEF SweepInit, SweepInv, SweeperInv, RowsInv, Statuses, Replies,
      PUBLISH_CLAIMABLE_REPLY_STATES

\* A statement leaves the claimed rows in order.
LEMMA UpdateTyped ==
    ASSUME RowsInv, NEW r \in Reviews, NEW status \in Statuses, NEW reply \in Replies,
           Update(r, status, reply)
    PROVE  RowsInv'
<1> DEFINE rest == Among(pending, Reviews \ {r})
<1>1. /\ row' = [row EXCEPT ![r] = [status |-> status, reply |-> reply]]
      /\ pending' = IF reply = "PUBLISH_PENDING" THEN Append(rest, r) ELSE rest
      /\ stale' = stale \ {r}
  BY DEF Update
<1>2. /\ rest \in Seq(Reviews)
      /\ Range(rest) = Range(pending) \cap (Reviews \ {r})
      /\ IsInjective(rest)
  BY AmongProperties DEF RowsInv
<1> HIDE DEF rest
<1>3. /\ row' \in [Reviews -> [status : Statuses, reply : Replies]]
      /\ row'[r].reply = reply
      /\ \A q \in Reviews \ {r} : row'[q] = row[q]
  BY <1>1 DEF RowsInv
<1>4. r \notin Range(rest)
  BY <1>2
<1>5. pending' \in Seq(Reviews) /\ IsInjective(pending')
  BY <1>1, <1>2, <1>4, AppendGrows
<1>6. Range(pending') = Range(rest) \cup {q \in {r} : reply = "PUBLISH_PENDING"}
  BY <1>1, <1>2, AppendGrows
<1>7. Range(pending') = {q \in Reviews : row'[q].reply = "PUBLISH_PENDING"}
  BY <1>2, <1>3, <1>6 DEF RowsInv
<1>8. stale' \subseteq Range(pending')
  BY <1>1, <1>2, <1>6 DEF RowsInv
<1> QED
  BY <1>3, <1>5, <1>7, <1>8 DEF RowsInv, IsInjective, Range
LEMMA RowsStay == ASSUME RowsInv, UNCHANGED rows PROVE RowsInv'
  BY DEF RowsInv, rows, IsInjective, Range

LEMMA GotoTyped ==
    ASSUME NEW pass \in {"idle", "recover", "publish"}, NEW batch \in Seq(Reviews),
           NEW holds \in BOOLEAN, Len(batch) <= BatchLimit, holds => batch # <<>>,
           pass = "idle" => batch = <<>>, Goto(pass, batch, holds)
    PROVE  SweeperInv'
  BY DEF Goto, SweeperInv

LEMMA ToNowhereTyped ==
    ASSUME NEW pass \in {"idle", "recover", "publish"}, Goto(pass, <<>>, FALSE)
    PROVE  SweeperInv'
<1>1. <<>> \in Seq(Reviews) /\ Len(<<>>) <= BatchLimit
  BY SweepAssumption
<1> QED
  BY <1>1, GotoTyped

LEMMA SweeperStays == ASSUME SweeperInv, UNCHANGED sweeper PROVE SweeperInv'
  BY DEF SweeperInv

LEMMA ProceedTyped ==
    ASSUME SweeperInv, sweeper.batch # <<>>, Proceed
    PROVE  SweeperInv'
<1>1. /\ sweeper.pass \in {"recover", "publish"}
      /\ Tail(sweeper.batch) \in Seq(Reviews)
      /\ Len(Tail(sweeper.batch)) <= BatchLimit
  <2>1. sweeper.batch \in Seq(Reviews)
    BY DEF SweeperInv
  <2>2. /\ Tail(sweeper.batch) \in Seq(Reviews)
        /\ Len(Tail(sweeper.batch)) = Len(sweeper.batch) - 1
    BY <2>1, HeadTailProperties
  <2>3. Len(sweeper.batch) \in Nat /\ BatchLimit \in Nat
    BY <2>1, SweepAssumption
  <2> QED
    BY <2>2, <2>3 DEF SweeperInv
<1> QED
  BY <1>1, GotoTyped DEF Proceed

LEMMA ListingsTyped ==
    ASSUME RowsInv
    PROVE  /\ findStalePublishPendingReviewIds \in Seq(Reviews)
           /\ Len(findStalePublishPendingReviewIds) <= BatchLimit
           /\ findAutoPublishEligibleReviewIds \in Seq(Reviews)
           /\ Len(findAutoPublishEligibleReviewIds) <= BatchLimit
<1>1. created \in Seq(Reviews)
  BY SweepAssumption DEF created, Reviews
<1>2. /\ Among(pending, stale) \in Seq(Reviews)
      /\ Among(created, Eligible) \in Seq(Reviews)
  BY <1>1, AmongProperties DEF RowsInv
<1> QED
  BY <1>2, LimitedProperties
  DEF findStalePublishPendingReviewIds, findAutoPublishEligibleReviewIds

LEMMA ResolveTyped ==
    ASSUME RowsInv, faults \in 0..MaxFaults, NEW r \in Reviews, Resolve(r)
    PROVE  RowsInv' /\ faults' \in 0..MaxFaults
<1>1. row[r].status \in Statuses
  BY DEF RowsInv
<1>2. ASSUME NoFault \/ Fault PROVE faults' \in 0..MaxFaults
  BY <1>2, SweepAssumption DEF NoFault, Fault
<1>3. {"PUBLISHED", "EXISTING_REPLY_FOUND", "PUBLISH_FAILED"} \subseteq Replies
      /\ {"PUBLISHED", "PENDING_APPROVAL"} \subseteq Statuses
  BY DEF Replies, Statuses, PUBLISH_CLAIMABLE_REPLY_STATES
<1>4. ASSUME Update(r, "PUBLISHED", "PUBLISHED") PROVE RowsInv'
  BY <1>3, <1>4, UpdateTyped
<1>5. ASSUME Update(r, "PENDING_APPROVAL", "EXISTING_REPLY_FOUND") PROVE RowsInv'
  BY <1>3, <1>5, UpdateTyped
<1>6. ASSUME Update(r, row[r].status, "PUBLISH_FAILED") PROVE RowsInv'
  BY <1>1, <1>3, <1>6, UpdateTyped
<1> QED
  BY <1>2, <1>4, <1>5, <1>6, RowsStay DEF Resolve

LEMMA TickTyped ==
    ASSUME SweepInv, Tick \/ TickAborted
    PROVE  SweepInv'
<1>0. RowsInv /\ SweeperInv /\ faults \in 0..MaxFaults
  BY DEF SweepInv
<1>1. ASSUME NoFault \/ Fault PROVE faults' \in 0..MaxFaults
  BY <1>0, <1>1, SweepAssumption DEF NoFault, Fault
<1>2. ASSUME UNCHANGED <<requireApproval, deleted, others, events>>,
             RowsInv', SweeperInv', faults' \in 0..MaxFaults
      PROVE  SweepInv'
  BY <1>2 DEF SweepInv
<1>3. ASSUME sweeper.batch # <<>>
      PROVE  /\ current \in Reviews /\ row[current].status \in Statuses
             /\ "PUBLISH_PENDING" \in Replies
  BY <1>0, <1>3, HeadTailProperties DEF SweeperInv, RowsInv, current, Replies
<1>4. ASSUME sweeper.batch # <<>>, NEW pass \in {"recover", "publish"},
             Goto(pass, sweeper.batch, TRUE)
      PROVE  SweeperInv'
  BY <1>0, <1>4, GotoTyped DEF SweeperInv
<1>5. CASE runBackgroundSweep
  BY <1>0, <1>1, <1>2, <1>5, ListingsTyped, GotoTyped, RowsStay DEF runBackgroundSweep
<1>6. CASE claimStalePublishPendingReview
  <2>1. sweeper.batch # <<>> /\ UNCHANGED <<requireApproval, deleted, others, events>>
        /\ faults' \in 0..MaxFaults
    BY <1>1, <1>6 DEF claimStalePublishPendingReview, Turn
  <2>2. CASE Update(current, row[current].status, "PUBLISH_PENDING")
             /\ Goto("recover", sweeper.batch, TRUE)
    BY <1>0, <1>2, <1>3, <1>4, <2>1, <2>2, UpdateTyped
  <2>3. CASE Proceed /\ UNCHANGED rows
    BY <1>0, <1>2, <2>1, <2>3, ProceedTyped, RowsStay
  <2> QED
    BY <1>6, <2>2, <2>3 DEF claimStalePublishPendingReview
<1>7. CASE publishEligibleGeneratedReviews
  BY <1>0, <1>1, <1>2, <1>7, ListingsTyped, GotoTyped, ToNowhereTyped, RowsStay
  DEF publishEligibleGeneratedReviews
<1>8. CASE ClaimEligible
  <2>1. sweeper.batch # <<>> /\ UNCHANGED <<requireApproval, deleted, others, events>>
        /\ faults' \in 0..MaxFaults
    BY <1>1, <1>8 DEF ClaimEligible, Turn
  <2>2. CASE Update(current, row[current].status, "PUBLISH_PENDING")
             /\ Goto("publish", sweeper.batch, TRUE)
    BY <1>0, <1>2, <1>3, <1>4, <2>1, <2>2, UpdateTyped
  <2>3. CASE Proceed /\ UNCHANGED rows
    BY <1>0, <1>2, <2>1, <2>3, ProceedTyped, RowsStay
  <2> QED
    BY <1>8, <2>2, <2>3 DEF ClaimEligible
<1>9. CASE finalizeClaimedPublish
  <2>1. sweeper.batch # <<>> /\ UNCHANGED <<requireApproval, deleted, others, events>>
    BY <1>0, <1>9 DEF finalizeClaimedPublish, SweeperInv
  <2> QED
    BY <1>0, <1>2, <1>3, <1>9, <2>1, ResolveTyped, ProceedTyped DEF finalizeClaimedPublish
<1>10. CASE EndOfTick \/ TickAborted
  BY <1>0, <1>1, <1>2, <1>10, ToNowhereTyped, RowsStay DEF EndOfTick, TickAborted
<1> QED
  BY <1>5, <1>6, <1>7, <1>8, <1>9, <1>10 DEF Tick

LEMMA OthersTyped ==
    ASSUME SweepInv,
           \/ \E r \in Reviews : Generate(r) \/ AdminTakes(r) \/ OtherClaims(r)
                                   \/ OtherEnds(r) \/ DeletedAtGoogle(r)
           \/ RequireApproval
           \/ Age
    PROVE  SweepInv'
<1>0. RowsInv /\ SweeperInv /\ faults \in 0..MaxFaults /\ events \in 0..MaxEvents
  BY DEF SweepInv
<1>1. ASSUME Event PROVE events' \in 0..MaxEvents
  BY <1>0, <1>1, SweepAssumption DEF Event
<1>2. ASSUME NEW r \in Reviews
      PROVE  /\ row[r].status \in Statuses /\ row[r].reply \in Replies
             /\ "PUBLISH_PENDING" \in Replies
             /\ {"GENERATED", "APPROVED", "PENDING_APPROVAL"} \subseteq Statuses
  BY <1>0 DEF RowsInv, Statuses, Replies
<1>3. ASSUME NEW r \in Reviews, Generate(r) PROVE SweepInv'
  <2>1. RowsInv'
    BY <1>0, <1>2, <1>3, UpdateTyped DEF Generate
  <2> QED
    BY <1>3, <2>1, SweeperStays DEF Generate, SweepInv
<1>4. ASSUME NEW r \in Reviews, AdminTakes(r) PROVE SweepInv'
  <2>1. RowsInv'
    BY <1>0, <1>2, <1>4, UpdateTyped DEF AdminTakes
  <2> QED
    BY <1>1, <1>4, <2>1, SweeperStays DEF AdminTakes, SweepInv
<1>5. ASSUME NEW r \in Reviews, OtherClaims(r) PROVE SweepInv'
  <2>1. RowsInv'
    BY <1>0, <1>2, <1>5, UpdateTyped DEF OtherClaims
  <2> QED
    BY <1>1, <1>5, <2>1, SweeperStays DEF OtherClaims, SweepInv
<1>6. ASSUME NEW r \in Reviews, OtherEnds(r) PROVE SweepInv'
  <2>1. RowsInv' /\ faults' \in 0..MaxFaults
    BY <1>0, <1>6, ResolveTyped DEF OtherEnds
  <2> QED
    BY <1>6, <2>1, SweeperStays DEF OtherEnds, SweepInv
<1>7. ASSUME NEW r \in Reviews, DeletedAtGoogle(r) PROVE SweepInv'
  BY <1>0, <1>1, <1>7, RowsStay, SweeperStays DEF DeletedAtGoogle, SweepInv
<1>8. CASE RequireApproval
  BY <1>0, <1>8, RowsStay, SweeperStays DEF RequireApproval, SweepInv
<1>9. CASE Age
  <2>1. RowsInv'
    BY <1>0, <1>9 DEF Age, RowsInv, IsInjective, Range
  <2> QED
    BY <1>0, <1>9, <2>1, SweeperStays DEF Age, SweepInv
<1> QED
  BY <1>3, <1>4, <1>5, <1>6, <1>7, <1>8, <1>9

LEMMA SweepInvStep ==
    ASSUME SweepInv, [SweepNext]_vars
    PROVE  SweepInv'
<1>1. CASE UNCHANGED vars
  BY <1>1, RowsStay, SweeperStays DEF vars, rows, SweepInv
<1> QED
  BY <1>1, TickTyped, OthersTyped DEF SweepNext

(***************************************************************************)
(* The claimed rows are those whose reply state says so, in whatever order *)
(* they are touched, and no batch is longer than the limit                 *)
(* (DEFAULT_BATCH_LIMIT), however many reviews there are.                  *)
(***************************************************************************)
THEOREM SweepTypes == SweepSpec => []SweepTypeOK
  BY SweepTypesInit, SweepInvStep, SweepInvTypes, PTL DEF SweepSpec

---------------------------------------------------------------------------
(* A batch *)

(***************************************************************************)
(* One review that somebody else has claimed, resolved or taken in hand    *)
(* does not cost the rest of the batch its turn: only a process that dies  *)
(* or a database that fails does (runBackgroundSweep: must not abort the   *)
(* rest of the batch).                                                     *)
(***************************************************************************)
THEOREM RestKeepsItsTurnCorrect == SweepSpec => RestKeepsItsTurn
<1> DEFINE Kept == sweeper.batch # <<>>
                      => \/ sweeper'.batch \in {sweeper.batch, Tail(sweeper.batch)}
                         \/ faults' > faults
<1>1. ASSUME SweepInv, [SweepNext]_vars PROVE [Kept]_<<sweeper, faults>>
  <2> SUFFICES ASSUME sweeper.batch # <<>>, <<sweeper, faults>>' # <<sweeper, faults>>
               PROVE  Kept
    OBVIOUS
  <2>1. SweepNext /\ sweeper.pass # "idle" /\ faults \in Nat
    BY <1>1 DEF SweepInv, SweeperInv, vars
  <2>2. ASSUME Fault PROVE Kept
    BY <2>1, <2>2 DEF Fault
  <2>3. ASSUME Proceed \/ sweeper' = sweeper PROVE Kept
    BY <2>3 DEF Proceed, Goto
  <2>4. ASSUME NEW pass, NEW holds, Goto(pass, sweeper.batch, holds) PROVE Kept
    BY <2>4 DEF Goto
  <2>5. CASE Tick
    BY <2>1, <2>3, <2>4, <2>5
    DEF Tick, runBackgroundSweep, claimStalePublishPendingReview,
        publishEligibleGeneratedReviews, ClaimEligible, finalizeClaimedPublish, EndOfTick
  <2>6. CASE TickAborted
    BY <2>2, <2>6 DEF TickAborted
  <2> QED
    BY <2>1, <2>3, <2>5, <2>6
    DEF SweepNext, Generate, AdminTakes, OtherClaims, OtherEnds, DeletedAtGoogle,
        RequireApproval, Age
<1> QED
  BY <1>1, SweepTypesInit, SweepInvStep, PTL DEF SweepSpec, RestKeepsItsTurn

---------------------------------------------------------------------------
(* What a listing leaves out *)

\* The eligible reviews are listed by age, the stale claims by the time they
\* were last touched.
OldestFirst ==
    /\ LET listed == findAutoPublishEligibleReviewIds IN
       \A r \in Eligible \ Range(listed) :
           Len(listed) = BatchLimit /\ \A i \in 1..Len(listed) : listed[i] < r
    /\ LET listed == findStalePublishPendingReviewIds IN
       \A k \in 1..Len(pending) :
           pending[k] \in stale \ Range(listed) =>
               /\ Len(listed) = BatchLimit
               /\ \A i \in 1..Len(listed) : \E a \in 1..(k - 1) : listed[i] = pending[a]

(***************************************************************************)
(* Whatever a tick does not list is not overlooked: the batch is full of   *)
(* reviews that have waited longer (sweep.service.ts and the order by of   *)
(* the two listings in review.repository.ts).                              *)
(***************************************************************************)
THEOREM ListingsTakeTheOldest == SweepSpec => []OldestFirst
<1>1. ASSUME SweepInv PROVE OldestFirst
  <2>1. /\ created \in Seq(Reviews) /\ IsInjective(created) /\ Len(created) = NumReviews
        /\ \A r \in Reviews : created[r] = r
    BY SweepAssumption DEF created, Reviews, IsInjective
  <2>2. ASSUME NEW listed, listed = findAutoPublishEligibleReviewIds,
               NEW r \in Eligible \ Range(listed)
        PROVE  Len(listed) = BatchLimit /\ \A i \in 1..Len(listed) : listed[i] < r
    <3>1. listed = Limited(Among(created, Eligible))
      BY <2>2 DEF findAutoPublishEligibleReviewIds
    <3>2. r \in Reviews /\ r \in 1..Len(created) /\ created[r] = r
      BY <2>1, <2>2 DEF Eligible, Reviews
    <3>3. /\ Len(listed) = BatchLimit
          /\ \A i \in 1..Len(listed) : \E a \in 1..(r - 1) : listed[i] = created[a]
      <4>1. created[r] \in Eligible \ Range(listed)
        BY <2>2, <3>2
      <4>2. \A k \in 1..Len(created) :
               created[k] \in Eligible \ Range(listed) =>
                  /\ Len(listed) = BatchLimit
                  /\ \A i \in 1..Len(listed) : \E a \in 1..(k - 1) : listed[i] = created[a]
        BY <2>1, <3>1, ListingProperties
      <4> QED
        BY <3>2, <4>1, <4>2
    <3>4. ASSUME NEW a \in 1..(r - 1) PROVE created[a] < r
      BY <2>1, <3>2, <3>4, SweepAssumption DEF Reviews
    <3> QED
      BY <3>3, <3>4
  <2>3. ASSUME NEW listed, listed = findStalePublishPendingReviewIds,
               NEW k \in 1..Len(pending), pending[k] \in stale \ Range(listed)
        PROVE  /\ Len(listed) = BatchLimit
               /\ \A i \in 1..Len(listed) : \E a \in 1..(k - 1) : listed[i] = pending[a]
    BY <1>1, <2>3, ListingProperties DEF findStalePublishPendingReviewIds, SweepInv, RowsInv
  <2> QED
    BY <2>2, <2>3 DEF OldestFirst
<1> QED
  BY <1>1, SweepTypesInit, SweepInvStep, PTL DEF SweepSpec
=============================================================================
