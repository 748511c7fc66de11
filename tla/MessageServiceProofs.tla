------------------------ MODULE MessageServiceProofs ------------------------
(***************************************************************************)
(* What MessageService keeps invariant for every set of users, devices,    *)
(* ids, goroutines and subscriptions and every channel capacity; before    *)
(* that, lemmas about the lists the service is made of, with the induction *)
(* they need, which the modules that build on the service use as well.     *)
(***************************************************************************)
EXTENDS MessageService, SequenceTheorems, WellFoundedInduction, TLAPS

\* Induction over a set of numbers: the least number outside it would be neither 0
\* nor the successor of one inside.
LEMMA Induction ==
    ASSUME NEW T, 0 \in T, \A n \in Nat : n \in T => n + 1 \in T
    PROVE  \A n \in Nat : n \in T
<1> DEFINE less == OpToRel(<, Nat)
           outside == Nat \ T
<1> SUFFICES ASSUME outside # {} PROVE FALSE
  OBVIOUS
<1>1. IsWellFoundedOn(less, Nat)
  BY NatLessThanWellFounded
<1>2. \A x, y \in Nat : y < x => <<y, x>> \in less
  BY DEF OpToRel
<1> HIDE DEF less
<1>3. PICK x \in outside : \A y \in outside : <<y, x>> \notin less
  BY <1>1, WFMin
<1>4. x # 0 /\ x - 1 \in Nat /\ x - 1 < x
  BY <1>3
<1>5. x - 1 \in T
  BY <1>2, <1>3, <1>4
<1> QED
  BY <1>3, <1>4, <1>5

-----------------------------------------------------------------------------
(* The ids of a list. *)

\* Appending an id to a list lists it, and nothing else that was not listed.
LEMMA ListedAppend ==
    ASSUME NEW S, NEW q \in Seq(S), NEW x \in S
    PROVE  /\ Append(q, x) \in Seq(S)
           /\ Listed(Append(q, x)) = Listed(q) \cup {x}
<1>1. /\ Append(q, x) \in Seq(S)
      /\ Len(Append(q, x)) = Len(q) + 1
      /\ \A i \in 1..Len(q) : Append(q, x)[i] = q[i]
      /\ Append(q, x)[Len(q) + 1] = x
  OBVIOUS
<1>2. /\ DOMAIN q = 1..Len(q)
      /\ DOMAIN Append(q, x) = 1..(Len(q) + 1)
      /\ Len(q) \in Nat
  BY <1>1
<1>3. Listed(q) \cup {x} \subseteq Listed(Append(q, x))
  BY <1>1, <1>2 DEF Listed
<1>4. Listed(Append(q, x)) \subseteq Listed(q) \cup {x}
  <2> SUFFICES ASSUME NEW i \in 1..(Len(q) + 1)
               PROVE  Append(q, x)[i] \in Listed(q) \cup {x}
    BY <1>2 DEF Listed
  <2>1. CASE i = Len(q) + 1
    BY <2>1, <1>1
  <2>2. CASE i \in 1..Len(q)
    BY <2>2, <1>1, <1>2 DEF Listed
  <2> QED
    BY <2>1, <2>2, <1>2
<1> QED
  BY <1>1, <1>3, <1>4

\* Appending an id that is not listed keeps a list free of repetitions.
LEMMA AppendOnce ==
    ASSUME NEW S, NEW q \in Seq(S), NEW x \in S, x \notin Listed(q),
           \A i, j \in DOMAIN q : q[i] = q[j] => i = j
    PROVE  \A i, j \in DOMAIN Append(q, x) : Append(q, x)[i] = Append(q, x)[j] => i = j
<1> DEFINE r == Append(q, x)
<1>1. /\ DOMAIN q = 1..Len(q) /\ DOMAIN r = 1..(Len(q) + 1) /\ Len(q) \in Nat
      /\ \A i \in 1..Len(q) : r[i] = q[i]
      /\ r[Len(q) + 1] = x
  OBVIOUS
<1>2. \A i \in 1..Len(q) : q[i] # x
  BY <1>1 DEF Listed
<1> HIDE DEF r
<1> SUFFICES ASSUME NEW i \in 1..(Len(q) + 1), NEW j \in 1..(Len(q) + 1), r[i] = r[j]
             PROVE  i = j
  BY <1>1 DEF r
<1>3. i \in 1..Len(q) \/ i = Len(q) + 1
  BY <1>1
<1>4. j \in 1..Len(q) \/ j = Len(q) + 1
  BY <1>1
<1> QED
  BY <1>1, <1>2, <1>3, <1>4

\* What is appended to the second of two lists is appended to both.
LEMMA ConcatAppend ==
    ASSUME NEW S, NEW p \in Seq(S), NEW q \in Seq(S), NEW x \in S
    PROVE  p \o Append(q, x) = Append(p \o q, x)
<1>1. /\ Append(q, x) \in Seq(S) /\ Len(Append(q, x)) = Len(q) + 1
      /\ \A i \in 1..Len(q) : Append(q, x)[i] = q[i]
      /\ Append(q, x)[Len(q) + 1] = x
      /\ Len(p) \in Nat /\ Len(q) \in Nat
  OBVIOUS
<1>2. /\ p \o q \in Seq(S) /\ Len(p \o q) = Len(p) + Len(q)
      /\ \A i \in 1..(Len(p) + Len(q)) :
            (p \o q)[i] = IF i <= Len(p) THEN p[i] ELSE q[i - Len(p)]
  BY ConcatProperties
<1> DEFINE left == p \o Append(q, x)
           right == Append(p \o q, x)
<1>3. /\ left \in Seq(S) /\ Len(left) = Len(p) + Len(q) + 1
      /\ \A i \in 1..(Len(p) + Len(q) + 1) :
            left[i] = IF i <= Len(p) THEN p[i] ELSE Append(q, x)[i - Len(p)]
  BY <1>1, ConcatProperties
<1>4. /\ right \in Seq(S) /\ Len(right) = Len(p) + Len(q) + 1
      /\ \A i \in 1..(Len(p) + Len(q)) : right[i] = (p \o q)[i]
      /\ right[Len(p) + Len(q) + 1] = x
  BY <1>1, <1>2, AppendProperties
<1> HIDE DEF left, right
<1>5. ASSUME NEW i \in 1..(Len(p) + Len(q) + 1) PROVE left[i] = right[i]
  <2>1. CASE i <= Len(p)
    <3>1. i \in 1..(Len(p) + Len(q))
      BY <1>1, <2>1
    <3>2. left[i] = p[i] /\ (p \o q)[i] = p[i] /\ right[i] = (p \o q)[i]
      BY <1>2, <1>3, <1>4, <2>1, <3>1
    <3> QED
      BY <3>2
  <2>2. CASE i = Len(p) + Len(q) + 1
    BY <1>1, <1>3, <1>4, <2>2
  <2>3. CASE i > Len(p) /\ i <= Len(p) + Len(q)
    <3>1. i - Len(p) \in 1..Len(q) /\ i \in 1..(Len(p) + Len(q))
      BY <1>1, <2>3
    <3>2. Append(q, x)[i - Len(p)] = q[i - Len(p)]
      BY <1>1, <3>1
    <3> QED
      BY <1>1, <1>2, <1>3, <1>4, <2>3, <3>1, <3>2
  <2> QED
    BY <1>1, <2>1, <2>2, <2>3
<1>6. left = right
  BY <1>3, <1>4, <1>5, SeqEqual
<1> QED
  BY <1>6 DEF left, right

\* Moving the head of one list to the end of another leaves both together the same.
LEMMA ConcatHead ==
    ASSUME NEW S, NEW p \in Seq(S), NEW q \in Seq(S), q # <<>>
    PROVE  Append(p, Head(q)) \o Tail(q) = p \o q
<1>1. /\ Len(p) \in Nat /\ Len(q) \in Nat /\ Len(q) > 0
      /\ Head(q) = q[1] /\ q[1] \in S
      /\ Tail(q) \in Seq(S) /\ Len(Tail(q)) = Len(q) - 1
      /\ \A i \in 1..(Len(q) - 1) : Tail(q)[i] = q[i + 1]
  OBVIOUS
<1>2. /\ p \o q \in Seq(S) /\ Len(p \o q) = Len(p) + Len(q)
      /\ \A i \in 1..(Len(p) + Len(q)) :
            (p \o q)[i] = IF i <= Len(p) THEN p[i] ELSE q[i - Len(p)]
  BY ConcatProperties
<1> DEFINE more == Append(p, q[1])
           left == more \o Tail(q)
<1>3. /\ more \in Seq(S) /\ Len(more) = Len(p) + 1
      /\ \A i \in 1..Len(p) : more[i] = p[i]
      /\ more[Len(p) + 1] = q[1]
  BY <1>1
<1> HIDE DEF more
<1>4. /\ left \in Seq(S) /\ Len(left) = Len(p) + Len(q)
      /\ \A i \in 1..(Len(p) + Len(q)) :
            left[i] = IF i <= Len(p) + 1 THEN more[i] ELSE Tail(q)[i - (Len(p) + 1)]
  <2>1. /\ left \in Seq(S) /\ Len(left) = Len(more) + Len(Tail(q))
        /\ \A i \in 1..(Len(more) + Len(Tail(q))) :
              left[i] = IF i <= Len(more) THEN more[i] ELSE Tail(q)[i - Len(more)]
    BY <1>1, <1>3, ConcatProperties
  <2>2. Len(more) + Len(Tail(q)) = Len(p) + Len(q)
    BY <1>1, <1>3
  <2> HIDE DEF left
  <2> QED
    BY <1>3, <2>1, <2>2
<1> HIDE DEF left
<1>5. ASSUME NEW i \in 1..(Len(p) + Len(q)) PROVE left[i] = (p \o q)[i]
  <2>1. CASE i <= Len(p)
    BY <1>1, <1>2, <1>3, <1>4, <2>1
  <2>2. CASE i = Len(p) + 1
    BY <1>1, <1>2, <1>3, <1>4, <2>2
  <2>3. CASE i > Len(p) + 1
    <3>1. i - (Len(p) + 1) \in 1..(Len(q) - 1) /\ i - (Len(p) + 1) + 1 = i - Len(p)
      BY <1>1, <2>3
    <3>2. Tail(q)[i - (Len(p) + 1)] = q[i - Len(p)]
      BY <1>1, <3>1
    <3> QED
      BY <1>1, <1>2, <1>4, <2>3, <3>2
  <2> QED
    BY <1>1, <2>1, <2>2, <2>3
<1>6. left = p \o q
  BY <1>2, <1>4, <1>5, SeqEqual
<1> QED
  BY <1>1, <1>6 DEF left, more

\* r is q with x inserted as its k-th element.
Inserted(q, k, x, r) ==
    /\ k \in 1..(Len(q) + 1)
    /\ Len(r) = Len(q) + 1
    /\ \A i \in 1..(Len(q) + 1) :
          r[i] = IF i < k THEN q[i] ELSE IF i = k THEN x ELSE q[i - 1]

\* An element at the end of one list is inserted between that list and the next.
LEMMA InsertBetween ==
    ASSUME NEW S, NEW p \in Seq(S), NEW q \in Seq(S), NEW x \in S
    PROVE  Inserted(p \o q, Len(p) + 1, x, Append(p, x) \o q)
<1>1. Len(p) \in Nat /\ Len(q) \in Nat
  OBVIOUS
<1>2. /\ Len(p \o q) = Len(p) + Len(q)
      /\ \A i \in 1..(Len(p) + Len(q)) :
            (p \o q)[i] = IF i <= Len(p) THEN p[i] ELSE q[i - Len(p)]
  BY ConcatProperties
<1> DEFINE more == Append(p, x)
           r == more \o q
<1>3. /\ more \in Seq(S) /\ Len(more) = Len(p) + 1
      /\ \A i \in 1..Len(p) : more[i] = p[i]
      /\ more[Len(p) + 1] = x
  OBVIOUS
<1> HIDE DEF more
<1>4. /\ Len(r) = Len(more) + Len(q)
      /\ \A i \in 1..(Len(more) + Len(q)) :
            r[i] = IF i <= Len(more) THEN more[i] ELSE q[i - Len(more)]
  BY <1>3, ConcatProperties
<1>5. /\ Len(r) = Len(p) + Len(q) + 1
      /\ \A i \in 1..(Len(p) + Len(q) + 1) :
            r[i] = IF i <= Len(p) + 1 THEN more[i] ELSE q[i - (Len(p) + 1)]
  BY <1>1, <1>3, <1>4
<1> DEFINE pq == p \o q
<1> HIDE DEF r, pq
<1>6. /\ Len(pq) = Len(p) + Len(q)
      /\ \A i \in 1..(Len(p) + Len(q)) :
            pq[i] = IF i <= Len(p) THEN p[i] ELSE q[i - Len(p)]
  BY <1>2 DEF pq
<1>7. ASSUME NEW i \in 1..(Len(p) + Len(q) + 1)
      PROVE  r[i] = IF i < Len(p) + 1 THEN pq[i] ELSE IF i = Len(p) + 1 THEN x ELSE pq[i - 1]
  <2>1. CASE i < Len(p) + 1
    <3>1. i \in 1..Len(p) /\ i \in 1..(Len(p) + Len(q)) /\ i <= Len(p) + 1
      BY <1>1, <2>1
    <3>2. r[i] = more[i] /\ pq[i] = p[i]
      BY <1>5, <1>6, <3>1
    <3> QED
      BY <1>3, <2>1, <3>1, <3>2
  <2>2. CASE i = Len(p) + 1
    BY <1>1, <1>3, <1>5, <2>2
  <2>3. CASE i > Len(p) + 1
    <3>1. i - 1 \in 1..(Len(p) + Len(q)) /\ i - 1 > Len(p)
          /\ (i - 1) - Len(p) = i - (Len(p) + 1)
      BY <1>1, <2>3
    <3>2. pq[i - 1] = q[(i - 1) - Len(p)] /\ r[i] = q[i - (Len(p) + 1)]
      BY <1>1, <1>5, <1>6, <2>3, <3>1
    <3> QED
      BY <1>1, <2>3, <3>1, <3>2
  <2> QED
    BY <1>1, <2>1, <2>2, <2>3
<1>8. Inserted(pq, Len(p) + 1, x, r)
  BY <1>1, <1>5, <1>6, <1>7 DEF Inserted
<1> QED
  BY <1>8 DEF pq, r, more

\* So is an element added to a list that ends there.
LEMMA InsertLast ==
    ASSUME NEW S, NEW p \in Seq(S), NEW x \in S
    PROVE  Inserted(p \o <<>>, Len(p) + 1, x, p \o <<x>>)
<1>1. <<x>> \in Seq(S) /\ Len(<<x>>) = 1 /\ <<x>>[1] = x /\ Len(p) \in Nat
  OBVIOUS
<1>2. p \o <<>> = p
  OBVIOUS
<1>3. /\ Len(p \o <<x>>) = Len(p) + 1
      /\ \A i \in 1..(Len(p) + 1) :
            (p \o <<x>>)[i] = IF i <= Len(p) THEN p[i] ELSE <<x>>[i - Len(p)]
  BY <1>1, ConcatProperties
<1> DEFINE r == p \o <<x>>
<1> HIDE DEF r
<1>4. ASSUME NEW i \in 1..(Len(p) + 1)
      PROVE  r[i] = IF i < Len(p) + 1 THEN p[i] ELSE IF i = Len(p) + 1 THEN x ELSE p[i - 1]
  <2>1. CASE i < Len(p) + 1
    BY <1>1, <1>3, <2>1 DEF r
  <2>2. CASE i = Len(p) + 1
    BY <1>1, <1>3, <2>2 DEF r
  <2> QED
    BY <1>1, <2>1, <2>2
<1>5. Inserted(p, Len(p) + 1, x, r)
  BY <1>1, <1>3, <1>4 DEF Inserted, r
<1> QED
  BY <1>2, <1>5 DEF r

\* Taking the head of the middle one of three lists removes one element: putting it
\* back gives all three again.
LEMMA RemoveBetween ==
    ASSUME NEW S, NEW p \in Seq(S), NEW q \in Seq(S), NEW o \in Seq(S), q # <<>>
    PROVE  \E x \in S : Inserted((p \o Tail(q)) \o o, Len(p) + 1, x, (p \o q) \o o)
<1>1. Head(q) \in S /\ Tail(q) \in Seq(S) /\ Append(p, Head(q)) \in Seq(S)
  OBVIOUS
<1> DEFINE t == Tail(q)
           h == Head(q)
<1>2. p \o q = Append(p, h) \o t
  BY ConcatHead
<1> HIDE DEF t, h
<1>3. h \in S /\ t \in Seq(S) /\ Append(p, h) \in Seq(S) /\ t \o o \in Seq(S)
  BY <1>1 DEF t, h
<1> DEFINE Same(a) == (a \o t) \o o = a \o (t \o o)
<1>4. ASSUME NEW a \in Seq(S) PROVE Same(a)
  BY <1>3, ConcatAssociative, SMTT(30)
<1>5. Same(p) /\ Same(Append(p, h))
  <2> HIDE DEF Same
  <2> QED
    BY <1>3, <1>4
<1>6. Inserted(p \o (t \o o), Len(p) + 1, h, Append(p, h) \o (t \o o))
  BY <1>3, InsertBetween
<1>7. Inserted((p \o t) \o o, Len(p) + 1, h, (p \o q) \o o)
  BY <1>2, <1>5, <1>6, Zenon
<1> QED
  BY <1>3, <1>7 DEF t

\* Inserting an element adds it to what a list names.
LEMMA InsertedListed ==
    ASSUME NEW S, NEW q \in Seq(S), NEW r \in Seq(S), NEW k, NEW x, Inserted(q, k, x, r)
    PROVE  Listed(r) = Listed(q) \cup {x}
<1>1. /\ DOMAIN q = 1..Len(q) /\ DOMAIN r = 1..(Len(q) + 1) /\ Len(q) \in Nat
      /\ k \in 1..(Len(q) + 1)
      /\ \A i \in 1..(Len(q) + 1) :
            r[i] = IF i < k THEN q[i] ELSE IF i = k THEN x ELSE q[i - 1]
  BY DEF Inserted
<1>2. ASSUME NEW i \in 1..(Len(q) + 1) PROVE r[i] \in Listed(q) \cup {x}
  <2>1. CASE i < k
    BY <1>1, <2>1 DEF Listed
  <2>2. CASE i = k
    BY <1>1, <2>2
  <2>3. CASE i > k
    <3>1. i - 1 \in 1..Len(q) /\ r[i] = q[i - 1]
      BY <1>1, <2>3
    <3> QED
      BY <1>1, <3>1 DEF Listed
  <2> QED
    BY <1>1, <2>1, <2>2, <2>3
<1>3. ASSUME NEW i \in 1..Len(q) PROVE q[i] \in Listed(r)
  <2>1. CASE i < k
    BY <1>1, <2>1 DEF Listed
  <2>2. CASE i >= k
    <3>1. i + 1 \in 1..(Len(q) + 1) /\ r[i + 1] = q[(i + 1) - 1] /\ (i + 1) - 1 = i
      BY <1>1, <2>2
    <3> QED
      BY <1>1, <3>1 DEF Listed
  <2> QED
    BY <1>1, <2>1, <2>2
<1>4. x \in Listed(r)
  BY <1>1 DEF Listed
<1> QED
  BY <1>1, <1>2, <1>3, <1>4 DEF Listed

\* At most one element of q is in A.
AtMostOne(q, A) == \A i, j \in DOMAIN q : q[i] \in A /\ q[j] \in A => i = j

\* Inserting an element that is not in A, or is the first in A, keeps that.
LEMMA InsertedOne ==
    ASSUME NEW S, NEW q \in Seq(S), NEW r \in Seq(S), NEW k, NEW x, Inserted(q, k, x, r),
           NEW A, AtMostOne(q, A), x \in A => Listed(q) \cap A = {}
    PROVE  AtMostOne(r, A)
<1>1. /\ DOMAIN q = 1..Len(q) /\ DOMAIN r = 1..(Len(q) + 1) /\ Len(q) \in Nat
      /\ k \in 1..(Len(q) + 1)
      /\ \A i \in 1..(Len(q) + 1) :
            r[i] = IF i < k THEN q[i] ELSE IF i = k THEN x ELSE q[i - 1]
  BY DEF Inserted
<1> SUFFICES ASSUME NEW i \in 1..(Len(q) + 1), NEW j \in 1..(Len(q) + 1),
                    r[i] \in A, r[j] \in A, i # j
             PROVE  FALSE
  BY <1>1 DEF AtMostOne
<1> DEFINE Was(n) == IF n < k THEN n ELSE n - 1
<1>2. \A n \in 1..(Len(q) + 1) : n # k => Was(n) \in 1..Len(q) /\ r[n] = q[Was(n)]
  BY <1>1
<1>3. i # k /\ j # k => Was(i) # Was(j)
  BY <1>1
<1> HIDE DEF Was
<1>4. CASE i # k /\ j # k
  BY <1>1, <1>2, <1>3, <1>4 DEF AtMostOne
<1>5. ASSUME NEW n \in 1..(Len(q) + 1), n # k, r[n] \in A, r[k] \in A PROVE FALSE
  <2>1. q[Was(n)] \in Listed(q) \cap A /\ r[k] = x
    BY <1>1, <1>2, <1>5 DEF Listed
  <2> QED
    BY <1>5, <2>1
<1> QED
  BY <1>1, <1>4, <1>5

\* Removing an element keeps that too.
LEMMA RemovedOne ==
    ASSUME NEW S, NEW q \in Seq(S), NEW r \in Seq(S), NEW k, NEW x, Inserted(q, k, x, r),
           NEW A, AtMostOne(r, A)
    PROVE  AtMostOne(q, A)
<1>1. /\ DOMAIN q = 1..Len(q) /\ DOMAIN r = 1..(Len(q) + 1) /\ Len(q) \in Nat
      /\ k \in 1..(Len(q) + 1)
      /\ \A i \in 1..(Len(q) + 1) :
            r[i] = IF i < k THEN q[i] ELSE IF i = k THEN x ELSE q[i - 1]
  BY DEF Inserted
<1> SUFFICES ASSUME NEW i \in 1..Len(q), NEW j \in 1..Len(q), q[i] \in A, q[j] \in A, i # j
             PROVE  FALSE
  BY <1>1 DEF AtMostOne
<1> DEFINE Goes(n) == IF n < k THEN n ELSE n + 1
<1>2. ASSUME NEW n \in 1..Len(q) PROVE Goes(n) \in 1..(Len(q) + 1) /\ r[Goes(n)] = q[n]
  <2>1. CASE n < k
    BY <1>1, <2>1
  <2>2. CASE n >= k
    <3>1. n + 1 \in 1..(Len(q) + 1) /\ (n + 1) - 1 = n /\ n + 1 > k
      BY <1>1, <2>2
    <3> QED
      BY <1>1, <2>2, <3>1
  <2> QED
    BY <1>1, <2>1, <2>2
<1>3. Goes(i) # Goes(j)
  BY <1>1
<1> HIDE DEF Goes
<1> QED
  BY <1>1, <1>2, <1>3 DEF AtMostOne

-----------------------------------------------------------------------------
(* Selected. *)

\* One element of the recursion.
Chosen(q, P, upTo, n) ==
    IF n = 0 THEN <<>>
    ELSE IF q[n] \in P THEN Append(upTo[n - 1], q[n]) ELSE upTo[n - 1]

\* The recursive function of Selected exists: if it does up to k, one more element
\* gives it up to k + 1.
LEMMA SelectionExists ==
    ASSUME NEW q, NEW P, NEW m \in Nat
    PROVE  \E f : f = [n \in 0..m |-> Chosen(q, P, f, n)]
<1> DEFINE T == {k \in Nat : \E f : f = [n \in 0..k |-> Chosen(q, P, f, n)]}
<1>1. 0 \in T
  <2> DEFINE f == [n \in 0..0 |-> <<>>]
  <2>1. f = [n \in 0..0 |-> Chosen(q, P, f, n)]
    BY DEF Chosen
  <2>2. \E g : g = [n \in 0..0 |-> Chosen(q, P, g, n)]
    BY <2>1
  <2> QED
    BY <2>2
<1>2. ASSUME NEW k \in Nat, k \in T PROVE k + 1 \in T
  <2>1. PICK f : f = [n \in 0..k |-> Chosen(q, P, f, n)]
    BY <1>2
  <2> DEFINE g == [n \in 0..(k + 1) |-> IF n = k + 1 THEN Chosen(q, P, f, n) ELSE f[n]]
  <2>2. ASSUME NEW n \in 0..(k + 1)
        PROVE  g[n] = Chosen(q, P, g, n)
    <3>1. CASE n = k + 1
      <4>1. g[n - 1] = f[n - 1]
        BY <3>1
      <4> QED
        BY <3>1, <4>1 DEF Chosen
    <3>2. CASE n \in 0..k
      <4>1. g[n] = f[n] /\ (n # 0 => g[n - 1] = f[n - 1])
        BY <3>2
      <4>2. f[n] = Chosen(q, P, f, n)
        BY <2>1, <3>2
      <4> QED
        BY <4>1, <4>2 DEF Chosen
    <3> QED
      BY <3>1, <3>2
  <2>3. g = [n \in 0..(k + 1) |-> g[n]]
    OBVIOUS
  <2> HIDE DEF g
  <2>4. g = [n \in 0..(k + 1) |-> Chosen(q, P, g, n)]
    BY <2>2, <2>3
  <2>5. (\E h : h = [n \in 0..(k + 1) |-> Chosen(q, P, h, n)]) /\ k + 1 \in Nat
    BY <2>4
  <2> QED
    BY <2>5, Zenon
<1> HIDE DEF T
<1>3. m \in T
  BY <1>1, <1>2, Induction
<1> QED
  BY <1>3 DEF T

\* Selected is the last value of its recursive function.
LEMMA SelectedSteps ==
    ASSUME NEW q, NEW P, Len(q) \in Nat
    PROVE  \E f : /\ f = [n \in 0..Len(q) |-> Chosen(q, P, f, n)]
                  /\ Selected(q, P) = f[Len(q)]
<1> DEFINE upTo[n \in 0..Len(q)] ==
              IF n = 0 THEN <<>>
              ELSE IF q[n] \in P THEN Append(upTo[n - 1], q[n]) ELSE upTo[n - 1]
<1>1. \E f : f = [n \in 0..Len(q) |-> Chosen(q, P, f, n)]
  BY SelectionExists
<1>2. \E f : f = [n \in 0..Len(q) |->
                     IF n = 0 THEN <<>>
                     ELSE IF q[n] \in P THEN Append(f[n - 1], q[n]) ELSE f[n - 1]]
  BY <1>1 DEF Chosen
<1>3. upTo = [n \in 0..Len(q) |->
                 IF n = 0 THEN <<>>
                 ELSE IF q[n] \in P THEN Append(upTo[n - 1], q[n]) ELSE upTo[n - 1]]
  BY <1>2, Zenon
<1>4. Selected(q, P) = upTo[Len(q)]
  BY Zenon DEF Selected
<1> HIDE DEF upTo
<1>5. upTo = [n \in 0..Len(q) |-> Chosen(q, P, upTo, n)]
  BY <1>3 DEF Chosen
<1> QED
  BY <1>4, <1>5

\* What is selected from a list is a list of those of its elements that are in P.
LEMMA SelectedList ==
    ASSUME NEW S, NEW q \in Seq(S), NEW P
    PROVE  /\ Selected(q, P) \in Seq(S)
           /\ Listed(Selected(q, P)) = Listed(q) \cap P
<1>1. Len(q) \in Nat /\ DOMAIN q = 1..Len(q) /\ \A n \in 1..Len(q) : q[n] \in S
  OBVIOUS
<1>2. PICK f : /\ f = [n \in 0..Len(q) |-> Chosen(q, P, f, n)]
               /\ Selected(q, P) = f[Len(q)]
  BY <1>1, SelectedSteps
<1> DEFINE First(n) == {q[i] : i \in 1..n}
           T == {n \in Nat : n <= Len(q) =>
                    f[n] \in Seq(S) /\ Listed(f[n]) = First(n) \cap P}
<1>3. 0 \in T
  <2>1. f[0] = <<>>
    BY <1>1, <1>2 DEF Chosen
  <2>2. f[0] \in Seq(S) /\ Listed(f[0]) = {} /\ First(0) = {}
    BY <2>1 DEF Listed
  <2> QED
    BY <2>2
<1>4. ASSUME NEW n \in Nat, n \in T PROVE n + 1 \in T
  <2> SUFFICES ASSUME n + 1 <= Len(q)
               PROVE  f[n + 1] \in Seq(S) /\ Listed(f[n + 1]) = First(n + 1) \cap P
    OBVIOUS
  <2>1. f[n] \in Seq(S) /\ Listed(f[n]) = First(n) \cap P
    BY <1>1, <1>4
  <2>2. /\ n + 1 \in 0..Len(q) /\ n + 1 # 0 /\ (n + 1) - 1 = n
        /\ q[n + 1] \in S
    BY <1>1
  <2>3. f[n + 1] = IF q[n + 1] \in P THEN Append(f[n], q[n + 1]) ELSE f[n]
    BY <1>2, <2>2 DEF Chosen
  <2>4. First(n + 1) = First(n) \cup {q[n + 1]}
    <3>1. \A i : i \in 1..(n + 1) <=> i \in 1..n \/ i = n + 1
      OBVIOUS
    <3> QED
      BY <3>1
  <2> HIDE DEF First
  <2>5. Listed(Append(f[n], q[n + 1])) = Listed(f[n]) \cup {q[n + 1]}
        /\ Append(f[n], q[n + 1]) \in Seq(S)
    BY <2>1, <2>2, ListedAppend
  <2> QED
    BY <2>1, <2>3, <2>4, <2>5
<1> HIDE DEF T
<1>5. Len(q) \in T
  BY <1>1, <1>3, <1>4, Induction
<1>6. Listed(q) = First(Len(q))
  BY <1>1 DEF Listed
<1> QED
  BY <1>1, <1>2, <1>5, <1>6 DEF T

\* It is no longer than the list it is selected from.
LEMMA SelectedLength ==
    ASSUME NEW S, NEW q \in Seq(S), NEW P
    PROVE  Len(Selected(q, P)) <= Len(q)
<1>1. Len(q) \in Nat /\ DOMAIN q = 1..Len(q) /\ \A n \in 1..Len(q) : q[n] \in S
  OBVIOUS
<1>2. PICK f : /\ f = [n \in 0..Len(q) |-> Chosen(q, P, f, n)]
               /\ Selected(q, P) = f[Len(q)]
  BY <1>1, SelectedSteps
<1> DEFINE T == {n \in Nat : n <= Len(q) => f[n] \in Seq(S) /\ Len(f[n]) <= n}
<1>3. 0 \in T
  <2>1. f[0] = <<>>
    BY <1>1, <1>2 DEF Chosen
  <2>2. f[0] \in Seq(S) /\ Len(f[0]) = 0
    BY <2>1
  <2> QED
    BY <2>2
<1>4. ASSUME NEW n \in Nat, n \in T PROVE n + 1 \in T
  <2> SUFFICES ASSUME n + 1 <= Len(q)
               PROVE  f[n + 1] \in Seq(S) /\ Len(f[n + 1]) <= n + 1
    OBVIOUS
  <2>1. f[n] \in Seq(S) /\ Len(f[n]) <= n /\ Len(f[n]) \in Nat
    BY <1>1, <1>4
  <2>2. n + 1 \in 0..Len(q) /\ n + 1 # 0 /\ (n + 1) - 1 = n /\ q[n + 1] \in S
    BY <1>1
  <2>3. f[n + 1] = IF q[n + 1] \in P THEN Append(f[n], q[n + 1]) ELSE f[n]
    BY <1>2, <2>2 DEF Chosen
  <2>4. Append(f[n], q[n + 1]) \in Seq(S) /\ Len(Append(f[n], q[n + 1])) = Len(f[n]) + 1
    BY <2>1, <2>2
  <2> QED
    BY <2>1, <2>3, <2>4
<1> HIDE DEF T
<1>5. Len(q) \in T
  BY <1>1, <1>3, <1>4, Induction
<1> QED
  BY <1>1, <1>2, <1>5 DEF T

\* From a list free of repetitions it is one free of repetitions.
LEMMA SelectedOnce ==
    ASSUME NEW S, NEW q \in Seq(S), NEW P,
           \A i, j \in DOMAIN q : q[i] = q[j] => i = j
    PROVE  \A i, j \in DOMAIN Selected(q, P) : Selected(q, P)[i] = Selected(q, P)[j] => i = j
<1>1. Len(q) \in Nat /\ DOMAIN q = 1..Len(q) /\ \A n \in 1..Len(q) : q[n] \in S
  OBVIOUS
<1>2. PICK f : /\ f = [n \in 0..Len(q) |-> Chosen(q, P, f, n)]
               /\ Selected(q, P) = f[Len(q)]
  BY <1>1, SelectedSteps
<1> DEFINE First(n) == {q[i] : i \in 1..n}
           Once(r) == \A i, j \in DOMAIN r : r[i] = r[j] => i = j
           T == {n \in Nat : n <= Len(q) =>
                    f[n] \in Seq(S) /\ Listed(f[n]) \subseteq First(n) /\ Once(f[n])}
<1>3. 0 \in T
  <2>1. f[0] = <<>>
    BY <1>1, <1>2 DEF Chosen
  <2>2. f[0] \in Seq(S) /\ Listed(f[0]) = {} /\ Once(f[0])
    BY <2>1 DEF Listed
  <2> QED
    BY <2>2
<1>4. ASSUME NEW n \in Nat, n \in T PROVE n + 1 \in T
  <2> SUFFICES ASSUME n + 1 <= Len(q)
               PROVE  f[n + 1] \in Seq(S) /\ Listed(f[n + 1]) \subseteq First(n + 1) /\ Once(f[n + 1])
    OBVIOUS
  <2> DEFINE r == f[n]
  <2>1. r \in Seq(S) /\ Listed(r) \subseteq First(n) /\ Once(r)
    BY <1>1, <1>4
  <2>2. /\ n + 1 \in 0..Len(q) /\ n + 1 # 0 /\ (n + 1) - 1 = n
        /\ q[n + 1] \in S
    BY <1>1
  <2>3. f[n + 1] = IF q[n + 1] \in P THEN Append(r, q[n + 1]) ELSE r
    BY <1>2, <2>2 DEF Chosen
  <2>4. First(n + 1) = First(n) \cup {q[n + 1]}
    <3>1. \A i : i \in 1..(n + 1) <=> i \in 1..n \/ i = n + 1
      OBVIOUS
    <3> QED
      BY <3>1
  <2>5. q[n + 1] \notin First(n)
    BY <1>1, <2>2
  <2> DEFINE x == q[n + 1]
             s == Append(r, x)
  <2> HIDE DEF r, x, First
  <2>6. Listed(s) = Listed(r) \cup {x} /\ s \in Seq(S)
    BY <2>1, <2>2, ListedAppend DEF x
  <2>7. x \in S /\ x \notin Listed(r)
    BY <2>1, <2>2, <2>5 DEF x
  <2>8. Once(s)
    BY <2>1, <2>7, AppendOnce
  <2> HIDE DEF s, Once
  <2>9. f[n + 1] = s \/ f[n + 1] = r
    BY <2>3 DEF s, x
  <2> QED
    BY <2>1, <2>4, <2>6, <2>8, <2>9 DEF x
<1> HIDE DEF T
<1>5. Len(q) \in T
  BY <1>1, <1>3, <1>4, Induction
<1> QED
  BY <1>1, <1>2, <1>5 DEF T

-----------------------------------------------------------------------------
(* Types. *)

\* The record Send builds has the type of a message.
LEMMA NewMessageType ==
    ASSUME NEW id \in MessageIDs, NEW from \in Users, NEW to \in Users,
           NEW d \in DeviceRefs, NEW online \in BOOLEAN
    PROVE  NewMessage(id, from, to, d, online) \in Message
BY DEF NewMessage, Message, Statuses

\* An acknowledgement keeps the type of the record, its id and its users.
LEMMA AckedType ==
    ASSUME NEW m \in Message, NEW d \in DeviceRefs, NEW st \in Statuses
    PROVE  /\ Acked(m, d, st) \in Message
           /\ Acked(m, d, st).id = m.id
           /\ Acked(m, d, st).sender = m.sender
           /\ Acked(m, d, st).recipient = m.recipient
           /\ Acked(m, d, st).device = IF d = NoDevice THEN m.device ELSE d
           /\ m.deliveredAt => Acked(m, d, st).deliveredAt
           /\ m.readAt => Acked(m, d, st).readAt
<1>1. Acked(m, d, st).deliveredAt \in BOOLEAN /\ Acked(m, d, st).readAt \in BOOLEAN
  BY DEF Acked, Message
<1>2. /\ m.deliveredAt => Acked(m, d, st).deliveredAt
      /\ m.readAt => Acked(m, d, st).readAt
  BY DEF Acked, Message
<1> QED
  BY <1>1, <1>2 DEF Acked, Message, DeviceRefs

-----------------------------------------------------------------------------
(* Type correctness. *)

\* The section of Send under the mutex keeps the types.
LEMMA StoreTypes ==
    ASSUME ServiceTypeOK, NEW t \in Callers, NEW m \in Message, Store(t, m)
    PROVE  ServiceTypeOK'
<1>1. m.id \in MessageIDs /\ m.recipient \in Users
  BY DEF Message
<1>2. Stored' = Stored \cup {m.id} /\ messageByID' \in [Stored' -> Message]
  BY <1>1 DEF Store, Indexed, Inboxes, Parties, Stored, ServiceTypeOK
<1>3. inboxIDs' \in [Users -> Seq(MessageIDs)]
  BY <1>1, ListedAppend DEF Store, Indexed, Inboxes, Parties, ServiceTypeOK
<1>4. messageIDs' \in [Users -> Seq(MessageIDs)]
  BY <1>1, ListedAppend DEF Store, Indexed, Inboxes, Parties, ServiceTypeOK
<1>5. /\ DOMAIN sends' = DOMAIN sends \cup {t}
      /\ sends' \in [DOMAIN sends' -> [msg : Message, todo : SUBSET Subscribers]]
  BY <1>1 DEF Store, Indexed, Inboxes, Parties, ServiceTypeOK
<1> QED
  BY <1>1, <1>2, <1>3, <1>4, <1>5
  DEF Store, ServiceTypeOK, streamVars

\* So does every round of the fan-out, the channel's capacity included.
LEMMA FanOutTypes ==
    ASSUME ServiceTypeOK, NEW t \in Callers, NEW s \in Subscribers, FanOut(t, s)
    PROVE  ServiceTypeOK'
<1> USE DEF ServiceTypeOK, Offering, Running, Offered, storeVars, streamVars, Stored
<1>1. CASE FanOutSkip(t, s)
  BY <1>1 DEF FanOutSkip
<1>2. CASE FanOutDeliver(t, s)
  <2>1. /\ sends[t].msg \in Message
        /\ sends' \in [DOMAIN sends -> [msg : Message, todo : SUBSET Subscribers]]
        /\ DOMAIN sends' = DOMAIN sends
    BY <1>2 DEF FanOutDeliver, Deliverable
  <2>2. DOMAIN subscriber' = DOMAIN subscriber
    BY <1>2 DEF FanOutDeliver
  <2>3. ASSUME NEW x \in DOMAIN subscriber
        PROVE  /\ subscriber'[x] \in [user : Users, device : DeviceRefs,
                                      open : BOOLEAN, buf : Seq(Message)]
               /\ Len(subscriber'[x].buf) <= StreamCap
    <3>1. CASE x = s
      <4>1. /\ Append(subscriber[s].buf, sends[t].msg) \in Seq(Message)
            /\ Len(Append(subscriber[s].buf, sends[t].msg)) = Len(subscriber[s].buf) + 1
            /\ Len(subscriber[s].buf) \in Nat
        BY <2>1, <3>1
      <4>2. Len(subscriber[s].buf) + 1 <= StreamCap
        BY <1>2, <4>1, ServiceAssumption DEF FanOutDeliver, HasRoom
      <4>3. subscriber'[s] = [subscriber[s] EXCEPT !.buf =
                                 Append(subscriber[s].buf, sends[t].msg)]
        BY <1>2, <3>1 DEF FanOutDeliver, Queued
      <4> QED
        BY <3>1, <4>1, <4>2, <4>3
    <3>2. CASE x # s
      BY <3>2, <1>2 DEF FanOutDeliver
    <3> QED
      BY <3>1, <3>2
  <2>4. subscriber' \in [DOMAIN subscriber' ->
                            [user : Users, device : DeviceRefs, open : BOOLEAN,
                             buf : Seq(Message)]]
    <3>1. subscriber' = [x \in DOMAIN subscriber |-> subscriber'[x]]
      BY <1>2 DEF FanOutDeliver
    <3> QED
      BY <2>2, <2>3, <3>1
  <2> QED
    BY <1>2, <2>1, <2>2, <2>3, <2>4 DEF FanOutDeliver
<1>3. CASE FanOutDrop(t, s)
  BY <1>3 DEF FanOutDrop, Deliverable
<1>4. CASE FanOutPanic(t, s)
  BY <1>4 DEF FanOutPanic
<1> QED
  BY <1>1, <1>2, <1>3, <1>4 DEF FanOut

\* So does the end of Send.
LEMMA ReturnTypes ==
    ASSUME ServiceTypeOK, NEW t \in Callers, Return(t)
    PROVE  ServiceTypeOK'
BY DEF Return, Running, ServiceTypeOK, storeVars, streamVars, Stored

\* So does an acknowledgement.
LEMMA AcknowledgeTypes ==
    ASSUME ServiceTypeOK, NEW id \in MessageIDs, NEW u \in Users,
           NEW d \in DeviceRefs, NEW st \in Statuses, Acknowledge(id, u, d, st)
    PROVE  ServiceTypeOK'
<1>1. id \in Stored /\ messageByID[id] \in Message
  BY DEF Acknowledge, CanAcknowledge, ServiceTypeOK
<1>2. Acked(messageByID[id], d, st) \in Message
  BY <1>1, AckedType
<1> QED
  BY <1>1, <1>2 DEF Acknowledge, ServiceTypeOK, streamVars, callVars, Stored

\* So does a new subscription.
LEMMA SubscribeTypes ==
    ASSUME ServiceTypeOK, NEW s \in Subscribers, NEW u \in Users,
           NEW d \in DeviceRefs, Subscribe(s, u, d)
    PROVE  ServiceTypeOK'
<1>1. /\ DOMAIN subscriber' = DOMAIN subscriber \cup {s}
      /\ subscriber'[s] = [user |-> u, device |-> d, open |-> TRUE, buf |-> <<>>]
      /\ \A x \in DOMAIN subscriber : subscriber'[x] = subscriber[x]
  BY DEF Subscribe
<1>2. <<>> \in Seq(Message) /\ Len(<<>>) <= StreamCap
  BY ServiceAssumption
<1>3. subscriber' \in [DOMAIN subscriber' ->
                          [user : Users, device : DeviceRefs, open : BOOLEAN,
                           buf : Seq(Message)]]
  BY <1>1, <1>2 DEF Subscribe, ServiceTypeOK
<1>4. \A x \in DOMAIN subscriber' : Len(subscriber'[x].buf) <= StreamCap
  BY <1>1, <1>2 DEF ServiceTypeOK
<1> QED
  BY <1>1, <1>3, <1>4 DEF Subscribe, ServiceTypeOK, storeVars, callVars, Stored

\* So does its cancel.
LEMMA CancelTypes ==
    ASSUME ServiceTypeOK, NEW s \in Subscribers, Cancel(s)
    PROVE  ServiceTypeOK'
<1> DEFINE Record == [user : Users, device : DeviceRefs, open : BOOLEAN, buf : Seq(Message)]
<1>1. subscriber' = [subscriber EXCEPT ![s].open = FALSE] /\ s \in DOMAIN subscriber
  BY DEF Cancel, Remaining
<1>2. subscriber \in [DOMAIN subscriber -> Record]
  BY DEF ServiceTypeOK
<1>3. /\ DOMAIN subscriber' = DOMAIN subscriber
      /\ subscriber' \in [DOMAIN subscriber' -> Record]
      /\ \A x \in DOMAIN subscriber' : subscriber'[x].buf = subscriber[x].buf
  BY <1>1, <1>2
<1>4. \A x \in DOMAIN subscriber' : Len(subscriber'[x].buf) <= StreamCap
  BY <1>3 DEF ServiceTypeOK
<1>5. subscribersByUser' \in [Users -> SUBSET Subscribers]
  BY DEF Cancel, Remaining, ServiceTypeOK
<1>6. UNCHANGED storeVars /\ UNCHANGED callVars
  BY DEF Cancel, Remaining
<1> QED
  BY <1>3, <1>4, <1>5, <1>6 DEF ServiceTypeOK, storeVars, callVars, Stored

\* So does a reader that takes an item.
LEMMA ReceiveTypes ==
    ASSUME ServiceTypeOK, NEW s \in Subscribers, Receive(s)
    PROVE  ServiceTypeOK'
<1>1. /\ s \in DOMAIN subscriber
      /\ subscriber[s].buf \in Seq(Message)
      /\ subscriber[s].buf # <<>>
  BY DEF Receive, ServiceTypeOK
<1>2. /\ Tail(subscriber[s].buf) \in Seq(Message)
      /\ Len(Tail(subscriber[s].buf)) = Len(subscriber[s].buf) - 1
      /\ Len(subscriber[s].buf) \in Nat
  BY <1>1
<1>3. Len(Tail(subscriber[s].buf)) <= StreamCap
  BY <1>1, <1>2, ServiceAssumption DEF ServiceTypeOK
<1>4. subscriber' = [subscriber EXCEPT ![s].buf = Tail(@)]
  BY DEF Receive
<1>5. /\ DOMAIN subscriber' = DOMAIN subscriber
      /\ subscriber' \in [DOMAIN subscriber' ->
                              [user : Users, device : DeviceRefs, open : BOOLEAN,
                               buf : Seq(Message)]]
  BY <1>2, <1>4 DEF ServiceTypeOK
<1>6. \A x \in DOMAIN subscriber' : Len(subscriber'[x].buf) <= StreamCap
  BY <1>1, <1>3, <1>4, <1>5 DEF ServiceTypeOK
<1>7. UNCHANGED storeVars /\ UNCHANGED callVars /\ UNCHANGED subscribersByUser
  BY DEF Receive
<1> QED
  BY <1>5, <1>6, <1>7 DEF ServiceTypeOK, storeVars, callVars, Stored

\* So does every step.
LEMMA TypeStep ==
    ASSUME ServiceTypeOK, [ServiceNext]_serviceVars
    PROVE  ServiceTypeOK'
<1>1. ASSUME NEW t \in Callers, NEW id \in MessageIDs, NEW from \in Users,
             NEW to \in Users, NEW d \in DeviceRefs, NEW online \in BOOLEAN,
             Store(t, NewMessage(id, from, to, d, online))
      PROVE  ServiceTypeOK'
  BY <1>1, NewMessageType, StoreTypes
<1>2. ASSUME NEW t \in Callers, NEW s \in Subscribers, FanOut(t, s)
      PROVE  ServiceTypeOK'
  BY <1>2, FanOutTypes
<1>3. ASSUME NEW t \in Callers, Return(t)
      PROVE  ServiceTypeOK'
  BY <1>3, ReturnTypes
<1>4. ASSUME NEW id \in MessageIDs, NEW u \in Users, NEW d \in DeviceRefs,
             NEW st \in AckStatuses, Acknowledge(id, u, d, st)
      PROVE  ServiceTypeOK'
  BY <1>4, AcknowledgeTypes, ServiceAssumption
<1>5. ASSUME NEW s \in Subscribers, NEW u \in Users, NEW d \in DeviceRefs,
             Subscribe(s, u, d)
      PROVE  ServiceTypeOK'
  BY <1>5, SubscribeTypes
<1>6. ASSUME NEW s \in Subscribers, Cancel(s)
      PROVE  ServiceTypeOK'
  BY <1>6, CancelTypes
<1>7. ASSUME NEW s \in Subscribers, Receive(s)
      PROVE  ServiceTypeOK'
  BY <1>7, ReceiveTypes
<1>8. CASE UNCHANGED serviceVars
  BY <1>8 DEF serviceVars, storeVars, streamVars, callVars, ServiceTypeOK, Stored
<1> QED
  BY <1>1, <1>2, <1>3, <1>4, <1>5, <1>6, <1>7, <1>8 DEF ServiceNext

\* Every variable keeps its type and no channel exceeds its capacity.
THEOREM TypeCorrect == ServiceSpec => []ServiceTypeOK
<1>1. ServiceInit => ServiceTypeOK
  BY DEF ServiceInit, ServiceTypeOK, Stored
<1>2. ServiceTypeOK /\ [ServiceNext]_serviceVars => ServiceTypeOK'
  BY TypeStep
<1> QED
  BY <1>1, <1>2, PTL DEF ServiceSpec

-----------------------------------------------------------------------------
(* The store and its indexes.  Only Store and Acknowledge touch them. *)

\* A step stores a message, acknowledges one, or leaves the store alone.
LEMMA StoreChanges ==
    ASSUME [ServiceNext]_serviceVars
    PROVE  \/ \E t \in Callers, m \in Message : Store(t, m)
           \/ \E id \in MessageIDs, u \in Users, d \in DeviceRefs,
                 st \in Statuses : Acknowledge(id, u, d, st)
           \/ UNCHANGED storeVars
<1>1. ASSUME NEW t \in Callers, NEW id \in MessageIDs, NEW from \in Users,
             NEW to \in Users, NEW d \in DeviceRefs, NEW online \in BOOLEAN,
             Store(t, NewMessage(id, from, to, d, online))
      PROVE  \E x \in Callers, m \in Message : Store(x, m)
  BY <1>1, NewMessageType
<1>2. ASSUME NEW t \in Callers, NEW s \in Subscribers, FanOut(t, s)
      PROVE  UNCHANGED storeVars
  BY <1>2 DEF FanOut, FanOutSkip, FanOutDeliver, Deliverable, FanOutDrop, FanOutPanic, storeVars
<1>3. ASSUME NEW t \in Callers, Return(t) PROVE UNCHANGED storeVars
  BY <1>3 DEF Return, storeVars
<1>4. ASSUME NEW id \in MessageIDs, NEW u \in Users, NEW d \in DeviceRefs,
             NEW st \in AckStatuses, Acknowledge(id, u, d, st)
      PROVE  st \in Statuses
  BY ServiceAssumption
<1>5. ASSUME NEW s \in Subscribers, NEW u \in Users, NEW d \in DeviceRefs,
             Subscribe(s, u, d)
      PROVE  UNCHANGED storeVars
  BY <1>5 DEF Subscribe, storeVars
<1>6. ASSUME NEW s \in Subscribers, Cancel(s) \/ Receive(s)
      PROVE  UNCHANGED storeVars
  BY <1>6 DEF Cancel, Remaining, Receive, storeVars
<1>7. CASE UNCHANGED serviceVars
  BY <1>7 DEF serviceVars, storeVars
<1> QED
  BY <1>1, <1>2, <1>3, <1>4, <1>5, <1>6, <1>7 DEF ServiceNext

\* What Store does to the three variables, list by list.
LEMMA StoreEffect ==
    ASSUME ServiceTypeOK, NEW t \in Callers, NEW m \in Message, Store(t, m)
    PROVE  /\ m.id \in MessageIDs /\ m.sender \in Users /\ m.recipient \in Users
           /\ Stored' = Stored \cup {m.id}
           /\ \A id \in Stored' :
                 messageByID'[id] = IF id = m.id THEN m ELSE messageByID[id]
           /\ \A u \in Users :
                 /\ inboxIDs'[u] = IF u = m.recipient
                                   THEN Append(inboxIDs[u], m.id) ELSE inboxIDs[u]
                 /\ Listed(inboxIDs'[u]) =
                       Listed(inboxIDs[u]) \cup IF u = m.recipient THEN {m.id} ELSE {}
                 /\ Listed(messageIDs'[u]) =
                       Listed(messageIDs[u]) \cup
                          IF u \in {m.sender, m.recipient} THEN {m.id} ELSE {}
<1>1. m.id \in MessageIDs /\ m.sender \in Users /\ m.recipient \in Users
  BY DEF Message
<1>2. /\ Stored' = Stored \cup {m.id}
      /\ \A id \in Stored' :
            messageByID'[id] = IF id = m.id THEN m ELSE messageByID[id]
  BY DEF Store, Indexed, Inboxes, Parties, Stored
<1>3. ASSUME NEW u \in Users
      PROVE  /\ inboxIDs'[u] = IF u = m.recipient
                               THEN Append(inboxIDs[u], m.id) ELSE inboxIDs[u]
             /\ messageIDs'[u] = IF u \in {m.sender, m.recipient}
                                 THEN Append(messageIDs[u], m.id) ELSE messageIDs[u]
             /\ inboxIDs[u] \in Seq(MessageIDs)
             /\ messageIDs[u] \in Seq(MessageIDs)
  BY DEF Store, Indexed, Inboxes, Parties, ServiceTypeOK
<1>4. ASSUME NEW u \in Users
      PROVE  /\ Listed(inboxIDs'[u]) =
                   Listed(inboxIDs[u]) \cup IF u = m.recipient THEN {m.id} ELSE {}
             /\ Listed(messageIDs'[u]) =
                   Listed(messageIDs[u]) \cup
                      IF u \in {m.sender, m.recipient} THEN {m.id} ELSE {}
  <2>1. Listed(Append(inboxIDs[u], m.id)) = Listed(inboxIDs[u]) \cup {m.id}
    BY <1>1, <1>3, ListedAppend
  <2>2. Listed(Append(messageIDs[u], m.id)) = Listed(messageIDs[u]) \cup {m.id}
    BY <1>1, <1>3, ListedAppend
  <2> QED
    BY <1>3, <2>1, <2>2
<1> QED
  BY <1>1, <1>2, <1>3, <1>4

\* Acknowledge keeps a message's id and users, and lists nothing anew.
LEMMA AcknowledgeEffect ==
    ASSUME ServiceTypeOK, NEW id \in MessageIDs, NEW u \in Users,
           NEW d \in DeviceRefs, NEW st \in Statuses, Acknowledge(id, u, d, st)
    PROVE  /\ Stored' = Stored
           /\ inboxIDs' = inboxIDs /\ messageIDs' = messageIDs
           /\ \A x \in Stored :
                 /\ messageByID'[x].id = messageByID[x].id
                 /\ messageByID'[x].sender = messageByID[x].sender
                 /\ messageByID'[x].recipient = messageByID[x].recipient
                 /\ messageByID[x].device # NoDevice
                       => messageByID'[x].device = messageByID[x].device
                 /\ messageByID[x].deliveredAt => messageByID'[x].deliveredAt
                 /\ messageByID[x].readAt => messageByID'[x].readAt
<1>1. /\ id \in Stored /\ messageByID[id] \in Message
      /\ messageByID' = [messageByID EXCEPT ![id] = Acked(messageByID[id], d, st)]
      /\ d = NoDevice \/ messageByID[id].device \in {NoDevice, d}
  BY DEF Acknowledge, CanAcknowledge, ServiceTypeOK
<1>2. Stored' = Stored
  BY <1>1 DEF Stored, ServiceTypeOK
<1>3. ASSUME NEW x \in Stored
      PROVE  messageByID'[x] = IF x = id THEN Acked(messageByID[id], d, st)
                               ELSE messageByID[x]
  BY <1>1 DEF Stored
<1> QED
  BY <1>1, <1>2, <1>3, AckedType DEF Acknowledge

\* Every step keeps the store and its indexes in agreement.
LEMMA IndexStep ==
    ASSUME ServiceTypeOK, IndexesAgree, [ServiceNext]_serviceVars
    PROVE  IndexesAgree'
<1>1. ASSUME NEW t \in Callers, NEW m \in Message, Store(t, m)
      PROVE  IndexesAgree'
  <2>1. \A u \in Users : /\ Listed(inboxIDs'[u]) \subseteq Stored'
                         /\ Listed(inboxIDs'[u]) \subseteq Listed(messageIDs'[u])
                         /\ Listed(messageIDs'[u]) \subseteq Stored'
    BY <1>1, StoreEffect DEF IndexesAgree
  <2>2. ASSUME NEW id \in Stored'
        PROVE  /\ messageByID'[id].id = id
               /\ id \in Listed(inboxIDs'[messageByID'[id].recipient])
               /\ id \in Listed(messageIDs'[messageByID'[id].sender])
    <3>1. CASE id = m.id
      <4>1. /\ messageByID'[id] = m
            /\ m.recipient \in Users /\ m.sender \in Users
            /\ m.id \in Listed(inboxIDs'[m.recipient])
            /\ m.id \in Listed(messageIDs'[m.sender])
        BY <1>1, <3>1, StoreEffect
      <4> QED
        BY <3>1, <4>1
    <3>2. CASE id # m.id
      <4>1. id \in Stored /\ messageByID'[id] = messageByID[id]
        BY <1>1, <3>2, StoreEffect
      <4>2. messageByID[id].recipient \in Users /\ messageByID[id].sender \in Users
        BY <4>1 DEF ServiceTypeOK, Message
      <4>3. /\ messageByID[id].id = id
            /\ id \in Listed(inboxIDs[messageByID[id].recipient])
            /\ id \in Listed(messageIDs[messageByID[id].sender])
        BY <4>1 DEF IndexesAgree
      <4>4. \A u \in Users : /\ Listed(inboxIDs[u]) \subseteq Listed(inboxIDs'[u])
                             /\ Listed(messageIDs[u]) \subseteq Listed(messageIDs'[u])
        BY <1>1, StoreEffect
      <4> QED
        BY <4>1, <4>2, <4>3, <4>4
    <3> QED
      BY <3>1, <3>2
  <2> QED
    BY <2>1, <2>2 DEF IndexesAgree
<1>2. ASSUME NEW id \in MessageIDs, NEW u \in Users, NEW d \in DeviceRefs,
             NEW st \in Statuses, Acknowledge(id, u, d, st)
      PROVE  IndexesAgree'
  BY <1>2, AcknowledgeEffect DEF IndexesAgree
<1>3. CASE UNCHANGED storeVars
  BY <1>3 DEF IndexesAgree, storeVars, Stored
<1> QED
  BY <1>1, <1>2, <1>3, StoreChanges

\* The store and its indexes agree, whatever ids clients choose.
THEOREM IndexSafety == ServiceSpec => []IndexesAgree
<1>1. ServiceInit => IndexesAgree
  BY DEF ServiceInit, IndexesAgree, Stored, Listed
<1>2. ServiceTypeOK /\ IndexesAgree /\ [ServiceNext]_serviceVars => IndexesAgree'
  BY IndexStep
<1> QED
  BY <1>1, <1>2, TypeCorrect, PTL DEF ServiceSpec

-----------------------------------------------------------------------------
(* What inboxes list, and what becomes of a record. *)

\* An appended id that was not stored keeps an addressed inbox addressed.
LEMMA InboxStored ==
    ASSUME ServiceTypeOK, IndexesAgree, InboxAddressed,
           NEW t \in Callers, NEW m \in Message, Store(t, m), m.id \notin Stored
    PROVE  InboxAddressed'
<1> SUFFICES ASSUME NEW u \in Users,
                    NEW i \in DOMAIN inboxIDs'[u], NEW j \in DOMAIN inboxIDs'[u]
             PROVE  /\ messageByID'[inboxIDs'[u][i]].recipient = u
                    /\ inboxIDs'[u][i] = inboxIDs'[u][j] => i = j
  BY DEF InboxAddressed
<1> DEFINE q == inboxIDs[u]
<1>1. \A k \in DOMAIN q : q[k] \in Stored
  BY DEF IndexesAgree, Listed
<1>2. \A k \in DOMAIN q : q[k] # m.id /\ messageByID'[q[k]].recipient = u
  BY <1>1, StoreEffect DEF InboxAddressed
<1>3. CASE u = m.recipient
  <2>1. /\ inboxIDs'[u] = Append(q, m.id)
        /\ q \in Seq(MessageIDs) /\ m.id \in MessageIDs
    BY <1>3, StoreEffect DEF ServiceTypeOK
  <2>2. /\ DOMAIN inboxIDs'[u] = 1..(Len(q) + 1)
        /\ \A k \in 1..Len(q) : inboxIDs'[u][k] = q[k]
        /\ inboxIDs'[u][Len(q) + 1] = m.id
        /\ DOMAIN q = 1..Len(q)
        /\ Len(q) \in Nat
    BY <2>1
  <2>3. messageByID'[m.id].recipient = u
    BY <1>3, StoreEffect
  <2>4. messageByID'[inboxIDs'[u][i]].recipient = u
    BY <1>2, <2>2, <2>3
  <2>5. inboxIDs'[u][i] = inboxIDs'[u][j] => i = j
    <3>1. m.id \notin Listed(q) /\ \A k, l \in DOMAIN q : q[k] = q[l] => k = l
      BY <1>2 DEF Listed, InboxAddressed
    <3> QED
      BY <2>1, <3>1, AppendOnce
  <2> QED
    BY <2>4, <2>5
<1>4. CASE u # m.recipient
  BY <1>2, <1>4, StoreEffect DEF InboxAddressed
<1> QED
  BY <1>3, <1>4

\* So does an acknowledgement, whatever it changes.
LEMMA InboxAcked ==
    ASSUME ServiceTypeOK, IndexesAgree, InboxAddressed,
           NEW id \in MessageIDs, NEW u \in Users, NEW d \in DeviceRefs, NEW st \in Statuses,
           Acknowledge(id, u, d, st)
    PROVE  InboxAddressed'
BY AcknowledgeEffect DEF InboxAddressed, IndexesAgree, Listed

\* So does every step while no id is sent twice.
LEMMA InboxStep ==
    ASSUME ~AllowReuse, ServiceTypeOK, IndexesAgree, InboxAddressed,
           [ServiceNext]_serviceVars
    PROVE  InboxAddressed'
<1>1. ASSUME NEW t \in Callers, NEW m \in Message, Store(t, m)
      PROVE  InboxAddressed'
  <2>1. m.id \notin Stored
    BY <1>1 DEF Store
  <2> QED
    BY <1>1, <2>1, InboxStored
<1>2. CASE UNCHANGED storeVars
  BY <1>2 DEF InboxAddressed, storeVars
<1> QED
  BY <1>1, <1>2, InboxAcked, StoreChanges

\* While no id is reused, an inbox lists only its user's messages, each once.
THEOREM InboxSafety == ~AllowReuse => (ServiceSpec => []InboxAddressed)
<1> SUFFICES ASSUME ~AllowReuse PROVE ServiceSpec => []InboxAddressed
  OBVIOUS
<1>1. ServiceInit => InboxAddressed
  BY DEF ServiceInit, InboxAddressed
<1>2. ServiceTypeOK /\ IndexesAgree /\ InboxAddressed /\ [ServiceNext]_serviceVars
         => InboxAddressed'
  BY InboxStep
<1> QED
  BY <1>1, <1>2, TypeCorrect, IndexSafety, PTL DEF ServiceSpec

\* Unless its id is sent again, a message keeps its users, its device once known
\* and its receipts.
THEOREM HandsKept == ServiceSpec => RecordKeepsHands
<1> DEFINE Keeps == \A id \in Stored :
                       LET m == messageByID[id]
                           n == messageByID'[id]
                       IN  \/ \E u \in Users : inboxIDs'[u] = Append(inboxIDs[u], id)
                           \/ /\ n.sender = m.sender
                              /\ n.recipient = m.recipient
                              /\ m.device # NoDevice => n.device = m.device
                              /\ m.deliveredAt => n.deliveredAt
                              /\ m.readAt => n.readAt
<1>1. ServiceTypeOK /\ [ServiceNext]_serviceVars => [Keeps]_serviceVars
  <2> SUFFICES ASSUME ServiceTypeOK, [ServiceNext]_serviceVars PROVE Keeps
    OBVIOUS
  <2>1. ASSUME NEW t \in Callers, NEW m \in Message, Store(t, m)
        PROVE  Keeps
    <3>1. m.recipient \in Users
      BY DEF Message
    <3>2. inboxIDs'[m.recipient] = Append(inboxIDs[m.recipient], m.id)
      BY <2>1, <3>1, StoreEffect
    <3>3. ASSUME NEW id \in Stored, id # m.id
          PROVE  messageByID'[id] = messageByID[id]
      BY <2>1, <3>3, StoreEffect
    <3> QED
      BY <3>1, <3>2, <3>3
  <2>2. ASSUME NEW id \in MessageIDs, NEW u \in Users, NEW d \in DeviceRefs,
               NEW st \in Statuses, Acknowledge(id, u, d, st)
        PROVE  Keeps
    BY <2>2, AcknowledgeEffect
  <2>3. CASE UNCHANGED storeVars
    BY <2>3 DEF storeVars
  <2> QED
    BY <2>1, <2>2, <2>3, StoreChanges
<1> QED
  BY <1>1, TypeCorrect, PTL DEF ServiceSpec, RecordKeepsHands

-----------------------------------------------------------------------------
(* Subscriptions and streams. *)

\* The type of a subscription's record.
Subscription == [user : Users, device : DeviceRefs, open : BOOLEAN, buf : Seq(Message)]

\* A subscription keeps its user, device and, unless it is cancelled, its channel.
LEMMA SubscriptionsKeep ==
    ASSUME ServiceTypeOK, [ServiceNext]_serviceVars
    PROVE  /\ DOMAIN subscriber \subseteq DOMAIN subscriber'
           /\ \A x \in DOMAIN subscriber :
                 /\ subscriber'[x].user = subscriber[x].user
                 /\ subscriber'[x].device = subscriber[x].device
                 /\ subscriber'[x].open => subscriber[x].open
<1> DEFINE Kept == /\ DOMAIN subscriber \subseteq DOMAIN subscriber'
                   /\ \A x \in DOMAIN subscriber :
                         /\ subscriber'[x].user = subscriber[x].user
                         /\ subscriber'[x].device = subscriber[x].device
                         /\ subscriber'[x].open => subscriber[x].open
<1>1. \A x \in DOMAIN subscriber : subscriber[x] \in Subscription
  BY DEF ServiceTypeOK, Subscription
<1>2. ASSUME NEW t \in Callers, NEW s \in Subscribers, FanOutDeliver(t, s)
      PROVE  Kept
  <2>1. subscriber' = [subscriber EXCEPT ![s].buf = Queued(s, sends[t].msg)]
    BY <1>2 DEF FanOutDeliver
  <2> QED
    BY <1>1, <2>1 DEF Subscription
<1>3. ASSUME NEW s \in Subscribers, NEW u \in Users, NEW d \in DeviceRefs, Subscribe(s, u, d)
      PROVE  Kept
  BY <1>3 DEF Subscribe
<1>4. ASSUME NEW s \in Subscribers, Cancel(s) PROVE Kept
  <2>1. subscriber' = [subscriber EXCEPT ![s].open = FALSE] /\ s \in DOMAIN subscriber
    BY <1>4 DEF Cancel
  <2>2. /\ DOMAIN subscriber' = DOMAIN subscriber
        /\ ~subscriber'[s].open
        /\ subscriber'[s].user = subscriber[s].user
        /\ subscriber'[s].device = subscriber[s].device
        /\ \A x \in DOMAIN subscriber : x # s => subscriber'[x] = subscriber[x]
    BY <1>1, <2>1 DEF Subscription
  <2> QED
    BY <2>2
<1>5. ASSUME NEW s \in Subscribers, Receive(s) PROVE Kept
  <2>1. subscriber' = [subscriber EXCEPT ![s].buf = Tail(@)]
    BY <1>5 DEF Receive
  <2> QED
    BY <1>1, <2>1 DEF Subscription
<1>6. ASSUME subscriber' = subscriber PROVE Kept
  BY <1>6
<1>7. ASSUME NEW t \in Callers, NEW m \in Message, Store(t, m) PROVE subscriber' = subscriber
  BY <1>7 DEF Store, streamVars
<1>8. ASSUME NEW t \in Callers, NEW s \in Subscribers,
             FanOutSkip(t, s) \/ FanOutDrop(t, s) \/ FanOutPanic(t, s)
      PROVE  subscriber' = subscriber
  BY <1>8 DEF FanOutSkip, FanOutDrop, FanOutPanic, streamVars
<1>9. ASSUME NEW t \in Callers, Return(t) PROVE subscriber' = subscriber
  BY <1>9 DEF Return, streamVars
<1>10. ASSUME NEW id \in MessageIDs, NEW u \in Users, NEW d \in DeviceRefs,
              NEW st \in AckStatuses, Acknowledge(id, u, d, st)
       PROVE  subscriber' = subscriber
  BY <1>10 DEF Acknowledge, streamVars
<1>11. ASSUME UNCHANGED serviceVars PROVE subscriber' = subscriber
  BY <1>11 DEF serviceVars, streamVars
<1> HIDE DEF Kept
<1>12. ASSUME NEW t \in Callers, NEW s \in Subscribers, FanOut(t, s) PROVE Kept
  BY <1>2, <1>6, <1>8, <1>12 DEF FanOut
<1>13. ASSUME NEW t \in Callers, NEW id \in MessageIDs, NEW from \in Users,
              NEW to \in Users, NEW d \in DeviceRefs, NEW online \in BOOLEAN,
              Store(t, NewMessage(id, from, to, d, online))
       PROVE  Kept
  BY <1>6, <1>7, <1>13, NewMessageType
<1>14. Kept
  BY <1>3, <1>4, <1>5, <1>6, <1>9, <1>10, <1>11, <1>12, <1>13 DEF ServiceNext
<1> QED
  BY <1>14 DEF Kept

\* The steps that touch subscriptions, channels or fan-outs in progress.
LEMMA SubscriptionStep ==
    ASSUME ServiceTypeOK, SubscriptionsAgree, [ServiceNext]_serviceVars
    PROVE  SubscriptionsAgree'
<1> USE DEF SubscriptionsAgree
<1>1. ASSUME NEW t \in Callers, NEW m \in Message, Store(t, m)
      PROVE  SubscriptionsAgree'
  BY <1>1 DEF Store, Indexed, Inboxes, Parties, streamVars
<1>2. ASSUME NEW t \in Callers, NEW s \in Subscribers, FanOut(t, s)
      PROVE  SubscriptionsAgree'
  <2>1. CASE FanOutDeliver(t, s)
    <3>1. /\ DOMAIN subscriber' = DOMAIN subscriber
          /\ \A x \in DOMAIN subscriber :
                /\ subscriber'[x].user = subscriber[x].user
                /\ subscriber'[x].open = subscriber[x].open
          /\ subscribersByUser' = subscribersByUser
      BY <2>1 DEF FanOutDeliver, Deliverable, HasRoom, Queued, ServiceTypeOK
    <3> QED
      BY <3>1
  <2>2. CASE UNCHANGED streamVars
    BY <2>2 DEF streamVars
  <2> QED
    BY <1>2, <2>1, <2>2 DEF FanOut, FanOutSkip, FanOutDrop, Deliverable, FanOutPanic
<1>3. ASSUME NEW t \in Callers, Return(t) PROVE SubscriptionsAgree'
  BY <1>3 DEF Return, streamVars
<1>4. ASSUME NEW id \in MessageIDs, NEW u \in Users, NEW d \in DeviceRefs,
             NEW st \in AckStatuses, Acknowledge(id, u, d, st)
      PROVE  SubscriptionsAgree'
  BY <1>4 DEF Acknowledge, streamVars
<1>5. ASSUME NEW s \in Subscribers, NEW u \in Users, NEW d \in DeviceRefs,
             Subscribe(s, u, d)
      PROVE  SubscriptionsAgree'
  <2>1. /\ s \notin DOMAIN subscriber
        /\ DOMAIN subscriber' = DOMAIN subscriber \cup {s}
        /\ subscriber'[s].user = u /\ subscriber'[s].open
        /\ \A x \in DOMAIN subscriber : subscriber'[x] = subscriber[x]
        /\ \A v \in Users : subscribersByUser'[v] =
              IF v = u THEN subscribersByUser[v] \cup {s} ELSE subscribersByUser[v]
    BY <1>5 DEF Subscribe, ServiceTypeOK
  <2>2. ASSUME NEW v \in Users, NEW x
        PROVE  x \in subscribersByUser'[v] <=>
                  x \in DOMAIN subscriber' /\ subscriber'[x].user = v /\ subscriber'[x].open
    <3>1. x \in subscribersByUser[v] <=>
             x \in DOMAIN subscriber /\ subscriber[x].user = v /\ subscriber[x].open
      OBVIOUS
    <3>2. CASE x = s
      BY <2>1, <3>1, <3>2
    <3>3. CASE x # s
      <4>1. x \in subscribersByUser'[v] <=> x \in subscribersByUser[v]
        <5>1. subscribersByUser'[v] = subscribersByUser[v] \cup {s}
              \/ subscribersByUser'[v] = subscribersByUser[v]
          BY <2>1
        <5> QED
          BY <3>3, <5>1, Zenon
      <4>2. x \in DOMAIN subscriber' <=> x \in DOMAIN subscriber
        BY <2>1, <3>3
      <4>3. x \in DOMAIN subscriber => subscriber'[x] = subscriber[x]
        BY <2>1
      <4> QED
        BY <3>1, <4>1, <4>2, <4>3, Zenon
    <3> QED
      BY <3>2, <3>3
  <2> QED
    BY <2>2
<1>6. ASSUME NEW s \in Subscribers, Cancel(s) PROVE SubscriptionsAgree'
  <2>1. /\ s \in DOMAIN subscriber
        /\ subscriber' = [subscriber EXCEPT ![s].open = FALSE]
        /\ subscribersByUser' = [subscribersByUser EXCEPT ![subscriber[s].user] =
                                    subscribersByUser[subscriber[s].user] \ {s}]
        /\ subscriber[s] \in [user : Users, device : DeviceRefs, open : BOOLEAN,
                              buf : Seq(Message)]
    BY <1>6 DEF Cancel, Remaining, ServiceTypeOK
  <2>2. /\ DOMAIN subscriber' = DOMAIN subscriber
        /\ subscriber'[s].user = subscriber[s].user
        /\ ~subscriber'[s].open
        /\ \A x \in DOMAIN subscriber : x # s => subscriber'[x] = subscriber[x]
    BY <2>1
  <2>3. \A v \in Users : subscribersByUser'[v] =
              IF v = subscriber[s].user THEN subscribersByUser[v] \ {s}
              ELSE subscribersByUser[v]
    BY <2>1 DEF ServiceTypeOK
  <2>4. ASSUME NEW v \in Users, NEW x
        PROVE  x \in subscribersByUser'[v] <=>
                  x \in DOMAIN subscriber' /\ subscriber'[x].user = v /\ subscriber'[x].open
    <3>1. x \in subscribersByUser[v] <=>
             x \in DOMAIN subscriber /\ subscriber[x].user = v /\ subscriber[x].open
      OBVIOUS
    <3>2. CASE x = s
      <4>1. ~subscriber'[x].open
        BY <2>2, <3>2
      <4>2. x \notin subscribersByUser'[v]
        BY <2>3, <3>1, <3>2
      <4> QED
        BY <4>1, <4>2, Zenon
    <3>3. CASE x # s
      <4>1. x \in subscribersByUser'[v] <=> x \in subscribersByUser[v]
        BY <2>3, <3>3
      <4>2. x \in DOMAIN subscriber => subscriber'[x] = subscriber[x]
        BY <2>2, <3>3
      <4> QED
        BY <2>2, <3>1, <4>1, <4>2, Zenon
    <3> QED
      BY <3>2, <3>3
  <2> QED
    BY <2>4
<1>7. ASSUME NEW s \in Subscribers, Receive(s) PROVE SubscriptionsAgree'
  <2>1. /\ DOMAIN subscriber' = DOMAIN subscriber
        /\ \A x \in DOMAIN subscriber :
              /\ subscriber'[x].user = subscriber[x].user
              /\ subscriber'[x].open = subscriber[x].open
        /\ subscribersByUser' = subscribersByUser
    BY <1>7 DEF Receive, ServiceTypeOK
  <2> QED
    BY <2>1
<1>8. CASE UNCHANGED serviceVars
  BY <1>8 DEF serviceVars, streamVars
<1> QED
  BY <1>1, <1>2, <1>3, <1>4, <1>5, <1>6, <1>7, <1>8, NewMessageType DEF ServiceNext

\* The subscriber map and the open channels agree.
THEOREM SubscriptionSafety == ServiceSpec => []SubscriptionsAgree
<1>1. ServiceInit => SubscriptionsAgree
  BY DEF ServiceInit, SubscriptionsAgree
<1>2. ServiceTypeOK /\ SubscriptionsAgree /\ [ServiceNext]_serviceVars
         => SubscriptionsAgree'
  BY SubscriptionStep
<1> QED
  BY <1>1, <1>2, TypeCorrect, PTL DEF ServiceSpec

\* A fan-out in progress goes to subscriptions of the recipient, and a stream
\* holds what is for it.
LEMMA StreamStep ==
    ASSUME ServiceTypeOK, SubscriptionsAgree, StreamsAddressed,
           [ServiceNext]_serviceVars
    PROVE  StreamsAddressed'
<1>1. ASSUME NEW t \in Callers, NEW m \in Message, Store(t, m)
      PROVE  StreamsAddressed'
  <2>1. /\ DOMAIN sends' = DOMAIN sends \cup {t}
        /\ sends'[t].msg = m
        /\ sends'[t].todo = subscribersByUser[m.recipient]
        /\ \A x \in DOMAIN sends : sends'[x] = sends[x]
        /\ subscriber' = subscriber
    BY <1>1 DEF Store, Indexed, Inboxes, Parties, streamVars
  <2>2. m.recipient \in Users
    BY DEF Message
  <2>3. \A s \in sends'[t].todo :
           s \in DOMAIN subscriber /\ subscriber[s].user = m.recipient
    BY <2>1, <2>2 DEF SubscriptionsAgree
  <2> QED
    BY <2>1, <2>3 DEF StreamsAddressed, ShouldDeliver
<1>2. ASSUME NEW t \in Callers, NEW s \in Subscribers, FanOut(t, s)
      PROVE  StreamsAddressed'
  <2>1. Offering(t, s) /\ t \in DOMAIN sends /\ s \in sends[t].todo
    BY <1>2 DEF FanOut, FanOutSkip, FanOutDeliver, Deliverable, FanOutDrop, FanOutPanic,
                Offering, Running
  <2>2. s \in DOMAIN subscriber /\ subscriber[s].user = sends[t].msg.recipient
    BY <2>1 DEF StreamsAddressed
  <2>3. /\ DOMAIN sends' = DOMAIN sends
        /\ \A x \in DOMAIN sends : /\ sends'[x].msg = sends[x].msg
                                   /\ sends'[x].todo \subseteq sends[x].todo
    <3>1. sends' = sends \/ Offered(t, s)
      BY <1>2 DEF FanOut, FanOutSkip, FanOutDeliver, FanOutDrop, FanOutPanic
    <3>2. sends \in [DOMAIN sends -> [msg : Message, todo : SUBSET Subscribers]]
      BY DEF ServiceTypeOK
    <3>3. CASE Offered(t, s)
      <4>1. sends[t] \in [msg : Message, todo : SUBSET Subscribers]
        BY <2>1, <3>2
      <4> QED
        BY <2>1, <3>2, <3>3, <4>1 DEF Offered
    <3> QED
      BY <3>1, <3>3
  <2>4. CASE FanOutDeliver(t, s)
    <3> DEFINE m == sends[t].msg
               b == subscriber[s].buf
    <3>1. m \in Message /\ b \in Seq(Message) /\ subscriber[s] \in Subscription
      BY <2>1, <2>2 DEF ServiceTypeOK, Subscription
    <3>2. subscriber' = [subscriber EXCEPT ![s].buf = Append(b, m)]
      BY <2>4 DEF FanOutDeliver, Queued
    <3>3. /\ DOMAIN subscriber' = DOMAIN subscriber
          /\ subscriber'[s].user = subscriber[s].user
          /\ subscriber'[s].device = subscriber[s].device
          /\ subscriber'[s].buf = Append(b, m)
          /\ \A x \in DOMAIN subscriber : x # s => subscriber'[x] = subscriber[x]
      BY <2>2, <3>1, <3>2 DEF Subscription
    <3>4. m.recipient = subscriber[s].user /\ ShouldDeliver(m, subscriber[s].device)
      BY <2>2, <2>4 DEF FanOutDeliver, Deliverable, Wanted
    <3>5. ASSUME NEW i \in DOMAIN subscriber'[s].buf
          PROVE  /\ subscriber'[s].buf[i].recipient = subscriber'[s].user
                 /\ ShouldDeliver(subscriber'[s].buf[i], subscriber'[s].device)
      <4>1. /\ DOMAIN Append(b, m) = 1..(Len(b) + 1)
            /\ Len(b) \in Nat
            /\ DOMAIN b = 1..Len(b)
            /\ \A k \in 1..Len(b) : Append(b, m)[k] = b[k]
            /\ Append(b, m)[Len(b) + 1] = m
        BY <3>1
      <4>2. CASE i = Len(b) + 1
        BY <3>3, <3>4, <4>1, <4>2
      <4>3. CASE i \in 1..Len(b)
        <5>1. /\ b[i].recipient = subscriber[s].user
              /\ ShouldDeliver(b[i], subscriber[s].device)
          BY <2>2, <4>1, <4>3 DEF StreamsAddressed
        <5> QED
          BY <3>3, <4>1, <4>3, <5>1
      <4> QED
        BY <3>3, <4>1, <4>2, <4>3
    <3>6. \A x \in DOMAIN subscriber' : \A i \in DOMAIN subscriber'[x].buf :
             /\ subscriber'[x].buf[i].recipient = subscriber'[x].user
             /\ ShouldDeliver(subscriber'[x].buf[i], subscriber'[x].device)
      BY <3>3, <3>5 DEF StreamsAddressed
    <3>7. \A x \in DOMAIN sends' : \A y \in sends'[x].todo :
             y \in DOMAIN subscriber' /\ subscriber'[y].user = sends'[x].msg.recipient
      BY <2>3, <3>3 DEF StreamsAddressed
    <3> QED
      BY <3>6, <3>7 DEF StreamsAddressed, ShouldDeliver
  <2>5. CASE UNCHANGED streamVars
    BY <2>3, <2>5 DEF StreamsAddressed, ShouldDeliver, streamVars
  <2> QED
    BY <1>2, <2>4, <2>5 DEF FanOut, FanOutSkip, FanOutDrop, Deliverable, FanOutPanic
<1>3. ASSUME NEW t \in Callers, Return(t) PROVE StreamsAddressed'
  BY <1>3 DEF Return, StreamsAddressed, ShouldDeliver, streamVars
<1>4. ASSUME NEW id \in MessageIDs, NEW u \in Users, NEW d \in DeviceRefs,
             NEW st \in AckStatuses, Acknowledge(id, u, d, st)
      PROVE  StreamsAddressed'
  BY <1>4 DEF Acknowledge, StreamsAddressed, ShouldDeliver, streamVars, callVars
<1>5. ASSUME NEW s \in Subscribers, NEW u \in Users, NEW d \in DeviceRefs,
             Subscribe(s, u, d)
      PROVE  StreamsAddressed'
  <2>1. /\ s \notin DOMAIN subscriber
        /\ DOMAIN subscriber' = DOMAIN subscriber \cup {s}
        /\ DOMAIN subscriber'[s].buf = {}
        /\ \A x \in DOMAIN subscriber : subscriber'[x] = subscriber[x]
        /\ sends' = sends
    BY <1>5 DEF Subscribe, callVars
  <2> QED
    BY <2>1 DEF StreamsAddressed, ShouldDeliver
<1>6. ASSUME NEW s \in Subscribers, Cancel(s) PROVE StreamsAddressed'
  <2>1. /\ DOMAIN subscriber' = DOMAIN subscriber
        /\ \A x \in DOMAIN subscriber : /\ subscriber'[x].user = subscriber[x].user
                                        /\ subscriber'[x].device = subscriber[x].device
                                        /\ subscriber'[x].buf = subscriber[x].buf
        /\ sends' = sends
    BY <1>6 DEF Cancel, Remaining, ServiceTypeOK, callVars
  <2> QED
    BY <2>1 DEF StreamsAddressed, ShouldDeliver
<1>7. ASSUME NEW s \in Subscribers, Receive(s) PROVE StreamsAddressed'
  <2> DEFINE b == subscriber[s].buf
  <2>1. /\ s \in DOMAIN subscriber /\ b \in Seq(Message) /\ b # <<>>
        /\ DOMAIN subscriber' = DOMAIN subscriber
        /\ subscriber'[s].buf = Tail(b)
        /\ \A x \in DOMAIN subscriber :
              /\ subscriber'[x].user = subscriber[x].user
              /\ subscriber'[x].device = subscriber[x].device
              /\ x # s => subscriber'[x].buf = subscriber[x].buf
        /\ sends' = sends
    BY <1>7 DEF Receive, ServiceTypeOK, callVars
  <2>2. \A i \in DOMAIN Tail(b) : Tail(b)[i] = b[i + 1] /\ i + 1 \in DOMAIN b
    BY <2>1
  <2>3. ASSUME NEW x \in DOMAIN subscriber', NEW i \in DOMAIN subscriber'[x].buf
        PROVE  /\ subscriber'[x].buf[i].recipient = subscriber'[x].user
               /\ ShouldDeliver(subscriber'[x].buf[i], subscriber'[x].device)
    <3>1. CASE x = s
      <4>1. /\ b[i + 1].recipient = subscriber[s].user
            /\ ShouldDeliver(b[i + 1], subscriber[s].device)
        BY <2>1, <2>2, <3>1 DEF StreamsAddressed
      <4> QED
        BY <2>1, <2>2, <3>1, <4>1
    <3>2. CASE x # s
      <4>1. /\ x \in DOMAIN subscriber /\ i \in DOMAIN subscriber[x].buf
            /\ subscriber'[x].buf[i] = subscriber[x].buf[i]
        BY <2>1, <3>2
      <4> QED
        BY <2>1, <4>1 DEF StreamsAddressed
    <3> QED
      BY <3>1, <3>2
  <2>4. \A x \in DOMAIN sends' : \A y \in sends'[x].todo :
           y \in DOMAIN subscriber' /\ subscriber'[y].user = sends'[x].msg.recipient
    BY <2>1 DEF StreamsAddressed
  <2> QED
    BY <2>3, <2>4 DEF StreamsAddressed, ShouldDeliver
<1>8. CASE UNCHANGED serviceVars
  BY <1>8 DEF serviceVars, streamVars, callVars, StreamsAddressed, ShouldDeliver
<1> QED
  BY <1>1, <1>2, <1>3, <1>4, <1>5, <1>6, <1>7, <1>8, NewMessageType DEF ServiceNext

\* Streams hold, and fan-outs offer, only messages for the stream's user.
THEOREM StreamSafety == ServiceSpec => []StreamsAddressed
<1>1. ServiceInit => StreamsAddressed
  BY DEF ServiceInit, StreamsAddressed
<1>2. ServiceTypeOK /\ SubscriptionsAgree /\ StreamsAddressed
      /\ [ServiceNext]_serviceVars => StreamsAddressed'
  BY StreamStep
<1> QED
  BY <1>1, <1>2, TypeCorrect, SubscriptionSafety, PTL DEF ServiceSpec

-----------------------------------------------------------------------------
(* Why a call of Send dies. *)

\* A call of Send that panicked stands before a stream that wants its message and
\* was cancelled after Send copied the subscribers (all of which were open then).
PanickedAtCancelled ==
    \A t \in panicked : \E s \in sends[t].todo :
        s \in DOMAIN subscriber /\ Wanted(t, s) /\ ~subscriber[s].open

\* What the panicked calls stood before stays: they go no further, and a closed
\* stream stays closed.
LEMMA PanickedKept ==
    ASSUME ServiceTypeOK, PanickedAtCancelled,
           \A t \in panicked : sends'[t] = sends[t],
           \A s \in DOMAIN subscriber : /\ s \in DOMAIN subscriber'
                                        /\ subscriber'[s].device = subscriber[s].device
                                        /\ subscriber'[s].open => subscriber[s].open
    PROVE  \A t \in panicked : \E s \in sends'[t].todo :
              s \in DOMAIN subscriber' /\ Wanted(t, s)' /\ ~subscriber'[s].open
<1>1. ASSUME NEW t \in panicked
      PROVE  \E s \in sends'[t].todo :
                s \in DOMAIN subscriber' /\ Wanted(t, s)' /\ ~subscriber'[s].open
  <2>1. PICK s \in sends[t].todo :
           s \in DOMAIN subscriber /\ Wanted(t, s) /\ ~subscriber[s].open
    BY DEF PanickedAtCancelled
  <2>2. sends'[t] = sends[t] /\ s \in DOMAIN subscriber'
        /\ subscriber'[s].device = subscriber[s].device /\ ~subscriber'[s].open
    BY <2>1
  <2>3. Wanted(t, s)'
    BY <2>1, <2>2 DEF Wanted, ShouldDeliver
  <2> QED
    BY <2>1, <2>2, <2>3
<1> QED
  BY <1>1

LEMMA PanickedStep ==
    ASSUME ServiceTypeOK, StreamsAddressed, PanickedAtCancelled, [ServiceNext]_serviceVars
    PROVE  PanickedAtCancelled'
<1> DEFINE Same == \A t \in panicked : sends'[t] = sends[t]
           Live == \A s \in DOMAIN subscriber :
                      /\ s \in DOMAIN subscriber'
                      /\ subscriber'[s].device = subscriber[s].device
                      /\ subscriber'[s].open => subscriber[s].open
<1>1. panicked' = panicked /\ Same /\ Live => PanickedAtCancelled'
  <2> SUFFICES ASSUME panicked' = panicked, Same, Live PROVE PanickedAtCancelled'
    OBVIOUS
  <2> QED
    BY PanickedKept DEF PanickedAtCancelled
<1>2. sends \in [DOMAIN sends -> [msg : Message, todo : SUBSET Subscribers]]
      /\ panicked \subseteq DOMAIN sends
      /\ \A s \in DOMAIN subscriber : subscriber[s] \in Subscription
  BY DEF ServiceTypeOK, Subscription
<1>3. ASSUME NEW t \in Callers, NEW m \in Message, Store(t, m)
      PROVE  PanickedAtCancelled'
  <2>1. panicked' = panicked /\ Same /\ Live
    BY <1>2, <1>3 DEF Store, streamVars
  <2> QED
    BY <1>1, <2>1
<1>4. ASSUME NEW t \in Callers, NEW s \in Subscribers, FanOut(t, s)
      PROVE  PanickedAtCancelled'
  <2>1. Offering(t, s) /\ t \notin panicked /\ s \in DOMAIN subscriber
    BY <1>4 DEF FanOut, FanOutSkip, FanOutDeliver, Deliverable, FanOutDrop, FanOutPanic,
                Offering, Running, StreamsAddressed
  <2>2. Same
    <3>1. sends' = sends \/ Offered(t, s)
      BY <1>4 DEF FanOut, FanOutSkip, FanOutDeliver, FanOutDrop, FanOutPanic
    <3> QED
      BY <1>2, <2>1, <3>1 DEF Offered
  <2>3. Live
    <3>1. CASE FanOutDeliver(t, s)
      BY <1>2, <2>1, <3>1 DEF FanOutDeliver, Subscription
    <3> QED
      BY <1>4, <3>1 DEF FanOut, FanOutSkip, FanOutDrop, FanOutPanic, streamVars
  <2>4. CASE FanOutPanic(t, s)
    <3>1. /\ panicked' = panicked \cup {t} /\ sends' = sends /\ subscriber' = subscriber
          /\ s \in sends[t].todo /\ Wanted(t, s) /\ ~subscriber[s].open
      BY <2>1, <2>4 DEF FanOutPanic, Offering, streamVars
    <3>2. Wanted(t, s)' /\ s \in sends'[t].todo /\ s \in DOMAIN subscriber' /\ ~subscriber'[s].open
      BY <2>1, <3>1 DEF Wanted
    <3>3. \A x \in panicked : \E y \in sends'[x].todo :
              y \in DOMAIN subscriber' /\ Wanted(x, y)' /\ ~subscriber'[y].open
      BY <2>2, <2>3, PanickedKept
    <3> QED
      BY <3>1, <3>2, <3>3 DEF PanickedAtCancelled
  <2>5. CASE panicked' = panicked
    BY <1>1, <2>2, <2>3, <2>5
  <2> QED
    BY <1>4, <2>4, <2>5 DEF FanOut, FanOutSkip, FanOutDeliver, FanOutDrop
<1>5. ASSUME NEW t \in Callers, Return(t) PROVE PanickedAtCancelled'
  <2>1. panicked' = panicked /\ Same /\ Live
    BY <1>2, <1>5 DEF Return, Running, streamVars
  <2> QED
    BY <1>1, <2>1
<1>6. ASSUME NEW id \in MessageIDs, NEW u \in Users, NEW d \in DeviceRefs,
             NEW st \in AckStatuses, Acknowledge(id, u, d, st)
      PROVE  PanickedAtCancelled'
  BY <1>1, <1>6 DEF Acknowledge, streamVars, callVars
<1>7. ASSUME NEW s \in Subscribers, NEW u \in Users, NEW d \in DeviceRefs,
             Subscribe(s, u, d)
      PROVE  PanickedAtCancelled'
  BY <1>1, <1>7 DEF Subscribe, callVars
<1>8. ASSUME NEW s \in Subscribers, Cancel(s) \/ Receive(s) PROVE PanickedAtCancelled'
  <2>1. /\ s \in DOMAIN subscriber
        /\ \/ subscriber' = [subscriber EXCEPT ![s].open = FALSE]
           \/ subscriber' = [subscriber EXCEPT ![s].buf = Tail(@)]
        /\ panicked' = panicked /\ sends' = sends
    BY <1>8 DEF Cancel, Receive, callVars
  <2>2. DOMAIN subscriber' = DOMAIN subscriber
    BY <2>1
  <2>3. \A x \in DOMAIN subscriber : x # s => subscriber'[x] = subscriber[x]
    BY <2>1
  <2>4. /\ subscriber'[s].device = subscriber[s].device
        /\ subscriber'[s].open => subscriber[s].open
    BY <1>2, <2>1 DEF Subscription
  <2>5. Live
    BY <2>2, <2>3, <2>4
  <2> QED
    BY <1>1, <2>1, <2>5
<1>9. CASE UNCHANGED serviceVars
  BY <1>1, <1>9 DEF serviceVars, streamVars, callVars
<1> QED
  BY <1>3, <1>4, <1>5, <1>6, <1>7, <1>8, <1>9, NewMessageType DEF ServiceNext

\* So the race the run SendOnClosed shows is the only way a call of Send dies: no
\* overflow of a stream and no cancel before the copy can do it.
THEOREM PanicNeedsCancel == ServiceSpec => []PanickedAtCancelled
<1>1. ServiceInit => PanickedAtCancelled
  BY DEF ServiceInit, PanickedAtCancelled
<1>2. ServiceTypeOK /\ StreamsAddressed /\ PanickedAtCancelled
      /\ [ServiceNext]_serviceVars => PanickedAtCancelled'
  BY PanickedStep
<1> QED
  BY <1>1, <1>2, TypeCorrect, StreamSafety, PTL DEF ServiceSpec

=============================================================================
