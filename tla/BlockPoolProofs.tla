--------------------------- MODULE BlockPoolProofs ---------------------------
(***************************************************************************)
(* Proofs about the block pool, for any threads and sizes: that one thread *)
(* at a time maps memory, that no block is lost and that none is in two    *)
(* places, up to the first pop with a stale successor; and that up to then *)
(* the pool is the set of free blocks that Pool describes.                 *)
(***************************************************************************)
EXTENDS BlockPool, LinkProofs

(***************************************************************************)
(* Sequences and the lists that their elements are linked into.            *)
(***************************************************************************)
\* What is in two sequences one after the other, and that they share no element when each
\* holds its elements once.
LEMMA ConcatElements ==
  ASSUME NEW S, NEW s \in Seq(S), NEW u \in Seq(S)
  PROVE  /\ s \o u \in Seq(S) /\ ToSet(s \o u) = ToSet(s) \union ToSet(u)
         /\ IsInjective(s) /\ IsInjective(u) /\ ToSet(s) \intersect ToSet(u) = {} => IsInjective(s \o u)
<1> DEFINE c == s \o u
<1>1. /\ c \in Seq(S) /\ Len(c) = Len(s) + Len(u)
      /\ \A i \in 1 .. Len(s) : c[i] = s[i]
      /\ \A i \in 1 .. Len(u) : c[Len(s) + i] = u[i]
      /\ \A i \in 1 .. Len(c) : (i \in 1 .. Len(s) /\ c[i] = s[i])
                                 \/ (i - Len(s) \in 1 .. Len(u) /\ c[i] = u[i - Len(s)])
  OBVIOUS
<1>2. DOMAIN c = 1 .. Len(c) /\ DOMAIN s = 1 .. Len(s) /\ DOMAIN u = 1 .. Len(u)
  OBVIOUS
<1>3. Len(s) \in Nat /\ Len(u) \in Nat
  OBVIOUS
<1> HIDE DEF c
<1>4. ToSet(c) = ToSet(s) \union ToSet(u)
  <2>1. \A i \in 1 .. Len(u) : Len(s) + i \in 1 .. Len(c)
    BY <1>1, <1>3
  <2>2. \A i \in 1 .. Len(s) : i \in 1 .. Len(c)
    BY <1>1, <1>3
  <2>3. ToSet(s) \subseteq ToSet(c)
    BY <1>1, <1>2, <2>2 DEF ToSet
  <2>4. ASSUME NEW x \in ToSet(u) PROVE x \in ToSet(c)
    <3>1. PICK i \in 1 .. Len(u) : x = u[i]
      BY <1>2 DEF ToSet
    <3>2. c[Len(s) + i] = x /\ Len(s) + i \in 1 .. Len(c)
      BY <1>1, <2>1, <3>1
    <3> QED
      BY <1>2, <3>2 DEF ToSet
  <2>5. ASSUME NEW x \in ToSet(c) PROVE x \in ToSet(s) \union ToSet(u)
    <3>1. PICK i \in 1 .. Len(c) : x = c[i]
      BY <1>2 DEF ToSet
    <3>2. \/ i \in 1 .. Len(s) /\ x = s[i]
          \/ i - Len(s) \in 1 .. Len(u) /\ x = u[i - Len(s)]
      BY <1>1, <3>1
    <3> QED
      BY <1>2, <3>2 DEF ToSet
  <2> QED
    BY <2>3, <2>4, <2>5
<1>5. ASSUME IsInjective(s), IsInjective(u), ToSet(s) \intersect ToSet(u) = {} PROVE IsInjective(c)
  <2>1. \A i \in 1 .. Len(s), j \in 1 .. Len(u) : s[i] # u[j]
    BY <1>2, <1>5 DEF ToSet
  <2>2. /\ \A i, j \in 1 .. Len(s) : s[i] = s[j] => i = j
        /\ \A i, j \in 1 .. Len(u) : u[i] = u[j] => i = j
    BY <1>2, <1>5 DEF IsInjective
  <2>3. ASSUME NEW i \in 1 .. Len(c), NEW j \in 1 .. Len(c), c[i] = c[j] PROVE i = j
    <3>1. /\ (i \in 1 .. Len(s) /\ c[i] = s[i]) \/ (i - Len(s) \in 1 .. Len(u) /\ c[i] = u[i - Len(s)])
          /\ (j \in 1 .. Len(s) /\ c[j] = s[j]) \/ (j - Len(s) \in 1 .. Len(u) /\ c[j] = u[j - Len(s)])
      BY <1>1
    <3>2. i - Len(s) \in 1 .. Len(u) /\ j - Len(s) \in 1 .. Len(u) /\ i - Len(s) = j - Len(s) => i = j
      BY <1>1, <1>3
    <3> QED
      BY <2>1, <2>2, <2>3, <3>1, <3>2
  <2> QED
    BY <1>2, <2>3 DEF IsInjective
<1> QED
  BY <1>1, <1>4, <1>5 DEF c

\* A sequence's head, and what follows it.
LEMMA TailElements ==
  ASSUME NEW S, NEW s \in Seq(S), s # <<>>
  PROVE  /\ Head(s) \in S /\ Tail(s) \in Seq(S) /\ ToSet(s) = {Head(s)} \union ToSet(Tail(s))
         /\ IsInjective(s) => IsInjective(Tail(s)) /\ Head(s) \notin ToSet(Tail(s))
<1> DEFINE r == Tail(s)
<1>1. /\ Len(s) \in Nat \ {0} /\ r \in Seq(S) /\ Len(r) = Len(s) - 1 /\ Head(s) = s[1] /\ s[1] \in S
      /\ \A i \in 1 .. Len(r) : r[i] = s[i + 1]
      /\ DOMAIN s = 1 .. Len(s) /\ DOMAIN r = 1 .. Len(r)
  OBVIOUS
<1> HIDE DEF r
<1>2. ToSet(s) = {s[1]} \union ToSet(r)
  <2>1. \A i \in 1 .. Len(s) : i = 1 \/ (i - 1 \in 1 .. Len(r) /\ r[i - 1] = s[i])
    BY <1>1
  <2>2. \A i \in 1 .. Len(r) : i + 1 \in 1 .. Len(s)
    BY <1>1
  <2>3. 1 \in 1 .. Len(s)
    BY <1>1
  <2>4. ToSet(r) \subseteq ToSet(s) /\ s[1] \in ToSet(s)
    BY <1>1, <2>2, <2>3 DEF ToSet
  <2>5. ASSUME NEW x \in ToSet(s), x # s[1] PROVE x \in ToSet(r)
    <3>1. PICK i \in 1 .. Len(s) : x = s[i]
      BY <1>1 DEF ToSet
    <3>2. i - 1 \in 1 .. Len(r) /\ x = r[i - 1]
      BY <2>1, <2>5, <3>1
    <3> QED
      BY <1>1, <3>2 DEF ToSet
  <2> QED
    BY <2>4, <2>5
<1>3. ASSUME IsInjective(s) PROVE IsInjective(r) /\ s[1] \notin ToSet(r)
  <2>1. \A i, j \in 1 .. Len(s) : s[i] = s[j] => i = j
    BY <1>1, <1>3 DEF IsInjective
  <2>2. \A i, j \in 1 .. Len(r) : r[i] = r[j] => i = j
    BY <1>1, <2>1
  <2>3. \A i \in 1 .. Len(r) : r[i] # s[1]
    BY <1>1, <2>1
  <2> QED
    BY <1>1, <2>2, <2>3 DEF IsInjective, ToSet
<1> QED
  BY <1>1, <1>2, <1>3 DEF r

\* The sequence of one element.
LEMMA OneElement ==
  ASSUME NEW S, NEW x \in S
  PROVE  <<x>> \in Seq(S) /\ ToSet(<<x>>) = {x} /\ IsInjective(<<x>>)
<1>1. <<x>> \in Seq(S) /\ Len(<<x>>) = 1 /\ DOMAIN <<x>> = {1} /\ <<x>>[1] = x
  OBVIOUS
<1> QED
  BY <1>1 DEF ToSet, IsInjective

\* s is what is linked from p on, up to its last element, which is linked to q.
Within(f, s) == \A i \in 1 .. Len(s) - 1 : f[s[i]] = s[i + 1]
Linked(f, s, p, q) ==
  /\ Within(f, s)
  /\ s = <<>> => p = q
  /\ s # <<>> => p = Head(s) /\ f[Last(s)] = q

\* Links of other nodes do not matter.
LEMMA LinkedAgree ==
  ASSUME NEW N, NEW s \in Seq(N), NEW f, NEW g, \A x \in ToSet(s) : g[x] = f[x]
  PROVE  /\ Within(f, s) => Within(g, s)
         /\ \A p, q : Linked(f, s, p, q) => Linked(g, s, p, q)
<1>1. DOMAIN s = 1 .. Len(s) /\ Len(s) \in Nat
  OBVIOUS
<1>2. \A i \in 1 .. Len(s) : g[s[i]] = f[s[i]]
  BY <1>1 DEF ToSet
<1>3. Within(f, s) => Within(g, s)
  BY <1>1, <1>2 DEF Within
<1>4. s # <<>> => Len(s) \in 1 .. Len(s) /\ g[Last(s)] = f[Last(s)]
  <2>1. s # <<>> => Len(s) \in 1 .. Len(s)
    OBVIOUS
  <2> QED
    BY <1>2, <2>1 DEF Last
<1> QED
  BY <1>3, <1>4 DEF Linked

\* Of a list, what follows its head is linked from where the head is linked to.
LEMMA LinkedTail ==
  ASSUME NEW N, NEW s \in Seq(N), s # <<>>, NEW f, NEW p, NEW q, Linked(f, s, p, q)
  PROVE  p = Head(s) /\ Linked(f, Tail(s), f[p], q)
<1> DEFINE r == Tail(s)
<1>1. /\ Len(s) \in Nat \ {0} /\ r \in Seq(N) /\ Len(r) = Len(s) - 1 /\ Head(s) = s[1]
      /\ \A i \in 1 .. Len(r) : r[i] = s[i + 1]
      /\ (r = <<>> <=> Len(r) = 0) /\ (r # <<>> => Head(r) = r[1] /\ r[Len(r)] = s[Len(s)])
      /\ Last(s) = s[Len(s)] /\ Last(r) = r[Len(r)]
  <2>1. /\ Len(s) \in Nat \ {0} /\ r \in Seq(N) /\ Len(r) = Len(s) - 1 /\ Head(s) = s[1]
        /\ \A i \in 1 .. Len(r) : r[i] = s[i + 1]
    OBVIOUS
  <2>4. r \in Seq(N) => (r = <<>> <=> Len(r) = 0)
    <3> HIDE DEF r
    <3> QED
      OBVIOUS
  <2>3. r # <<>> => Head(r) = r[1]
    OBVIOUS
  <2>2. r # <<>> => Len(r) \in 1 .. Len(r) /\ Len(r) + 1 = Len(s)
    BY <2>1
  <2> QED
    BY <2>1, <2>2, <2>3, <2>4 DEF Last
<1>2. p = s[1] /\ f[s[Len(s)]] = q /\ \A i \in 1 .. Len(s) - 1 : f[s[i]] = s[i + 1]
  BY <1>1 DEF Linked, Within
<1> HIDE DEF r
<1>3. Within(f, r)
  BY <1>1, <1>2 DEF Within
<1>4. CASE Len(s) = 1
  BY <1>1, <1>2, <1>3, <1>4 DEF Linked, r
<1>5. CASE Len(s) > 1
  <2>1. Last(r) = s[Len(s)] /\ Head(r) = s[2] /\ r # <<>> /\ f[s[1]] = s[2]
    BY <1>1, <1>2, <1>5
  <2> QED
    BY <1>1, <1>2, <1>3, <2>1 DEF Linked, r
<1> QED
  BY <1>1, <1>4, <1>5

\* A list whose end is linked to another list is one list with it.
LEMMA LinkedConcat ==
  ASSUME NEW N, NEW s \in Seq(N), NEW u \in Seq(N), NEW f, NEW p, NEW m, NEW q,
         Linked(f, s, p, m), Linked(f, u, m, q)
  PROVE  Linked(f, s \o u, p, q)
<1> DEFINE c == s \o u
<1>1. /\ c \in Seq(N) /\ Len(c) = Len(s) + Len(u) /\ Len(s) \in Nat /\ Len(u) \in Nat
      /\ \A i \in 1 .. Len(s) : c[i] = s[i]
      /\ \A i \in 1 .. Len(u) : c[Len(s) + i] = u[i]
      /\ \A i \in 1 .. Len(c) : (i \in 1 .. Len(s) /\ c[i] = s[i])
                                 \/ (i - Len(s) \in 1 .. Len(u) /\ c[i] = u[i - Len(s)])
  OBVIOUS
<1>2. /\ s # <<>> => Len(s) \in 1 .. Len(s) /\ Head(s) = s[1] /\ Last(s) = s[Len(s)]
      /\ u # <<>> => Len(u) \in 1 .. Len(u) /\ Head(u) = u[1] /\ Last(u) = u[Len(u)]
      /\ c # <<>> => Len(c) \in 1 .. Len(c) /\ Head(c) = c[1] /\ Last(c) = c[Len(c)]
      /\ (s = <<>> => c = u) /\ (u = <<>> => c = s)
  BY DEF Last
<1>3. CASE s = <<>> \/ u = <<>>
  <2>1. CASE s = <<>>
    <3>1. p = m /\ c = u
      BY <1>2, <2>1 DEF Linked
    <3> QED
      BY <3>1
  <2>2. CASE u = <<>>
    <3>1. m = q /\ c = s
      BY <1>2, <2>2 DEF Linked
    <3> QED
      BY <3>1
  <2> QED
    BY <1>3, <2>1, <2>2
<1>4. CASE s # <<>> /\ u # <<>>
  <2> HIDE DEF c
  <2>1. f[s[Len(s)]] = u[1] /\ p = s[1] /\ f[u[Len(u)]] = q
    BY <1>2, <1>4 DEF Linked
  <2>2. /\ \A i \in 1 .. Len(s) - 1 : f[s[i]] = s[i + 1]
        /\ \A i \in 1 .. Len(u) - 1 : f[u[i]] = u[i + 1]
    BY DEF Linked, Within
  <2>3. ASSUME NEW i \in 1 .. Len(c) - 1 PROVE f[c[i]] = c[i + 1]
    <3>1. CASE i < Len(s)
      <4>1. i \in 1 .. Len(s) - 1 /\ i \in 1 .. Len(s) /\ i + 1 \in 1 .. Len(s)
        BY <1>1, <2>3, <3>1
      <4> QED
        BY <1>1, <2>2, <4>1
    <3>2. CASE i = Len(s)
      BY <1>1, <1>2, <1>4, <2>1, <2>3, <3>2
    <3>3. CASE i > Len(s)
      <4> DEFINE j == i - Len(s)
      <4>1. j \in 1 .. Len(u) - 1 /\ c[i] = u[j] /\ c[i + 1] = u[j + 1]
        <5>1. j \in 1 .. Len(u) - 1 /\ j + 1 \in 1 .. Len(u) /\ j \in 1 .. Len(u)
              /\ Len(s) + j = i /\ Len(s) + (j + 1) = i + 1
          BY <1>1, <2>3, <3>3
        <5> HIDE DEF j
        <5> QED
          BY <1>1, <5>1
      <4> QED
        BY <2>2, <4>1
    <3> QED
      BY <1>1, <2>3, <3>1, <3>2, <3>3
  <2>4. c # <<>> /\ Head(c) = s[1] /\ Last(c) = u[Len(u)]
    BY <1>1, <1>2, <1>4
  <2> QED
    BY <2>1, <2>3, <2>4 DEF Linked, Within, c
<1> QED
  BY <1>3, <1>4

\* A walk along a list that ends meets its elements, and no other.
LEMMA LinkedReach ==
  ASSUME NEW N, NEW null, null \notin N, NEW f \in [N -> N \union {null}], NEW p \in N \union {null},
         NEW s \in Seq(N), Linked(f, s, p, null)
  PROVE  /\ Reach(f, p) = ToSet(s)
         /\ Reach(f, p) = {} \/ \E x \in Reach(f, p) : f[x] = null
<1>1. CASE s = <<>>
  <2>1. p = null /\ ToSet(s) = {}
    BY <1>1 DEF Linked, ToSet
  <2> QED
    BY <2>1, ReachFacts
<1>2. CASE s # <<>>
  <2>1. /\ Len(s) \in Nat \ {0} /\ DOMAIN s = 1 .. Len(s) /\ Head(s) = s[1] /\ Last(s) = s[Len(s)]
        /\ \A i \in 1 .. Len(s) : s[i] \in N
    BY <1>2 DEF Last
  <2>2. p = s[1] /\ f[s[Len(s)]] = null /\ \A i \in 1 .. Len(s) - 1 : f[s[i]] = s[i + 1]
    BY <1>2, <2>1 DEF Linked, Within
  <2>3. ToSet(s) \in SUBSET N /\ p \in ToSet(s) /\ s[Len(s)] \in ToSet(s)
    BY <2>1, <2>2 DEF ToSet
  <2>4. ASSUME NEW x \in ToSet(s) PROVE f[x] = null \/ f[x] \in ToSet(s)
    <3>1. PICK i \in 1 .. Len(s) : x = s[i]
      BY <2>1 DEF ToSet
    <3>2. CASE i = Len(s)
      BY <2>2, <3>1, <3>2
    <3>3. CASE i # Len(s)
      <4>1. i \in 1 .. Len(s) - 1 /\ i + 1 \in DOMAIN s
        <5>1. Len(s) \in Nat
          BY <2>1
        <5>2. i \in 1 .. Len(s) - 1 /\ i + 1 \in 1 .. Len(s)
          BY <3>3, <5>1
        <5> QED
          BY <2>1, <5>2
      <4>2. f[x] = s[i + 1]
        BY <2>2, <3>1, <4>1
      <4> QED
        BY <4>1, <4>2 DEF ToSet
    <3> QED
      BY <3>2, <3>3
  <2>5. Reach(f, p) \subseteq ToSet(s)
    BY <2>3, <2>4, ReachLeast
  <2>6. ToSet(s) \subseteq Reach(f, p)
    <3> DEFINE missed == {i \in 1 .. Len(s) : s[i] \notin Reach(f, p)}
    <3>1. SUFFICES ASSUME missed # {} PROVE FALSE
      BY <2>1 DEF ToSet
    <3>2. missed \in SUBSET Nat
      BY <2>1
    <3>3. PICK n \in missed : \A m \in missed : n <= m
      <4> HIDE DEF missed
      <4> QED
        BY <3>1, <3>2, Smallest
    <3>4. p \in N /\ p \in Reach(f, p)
      BY <2>1, <2>2, <2>3, ReachFacts
    <3>5. n \in 1 .. Len(s) /\ n # 1 /\ s[n] \notin Reach(f, p)
      BY <2>2, <3>4
    <3>6. n - 1 \in 1 .. Len(s) - 1 /\ n - 1 \notin missed /\ n - 1 + 1 = n
      <4>1. n - 1 \in 1 .. Len(s) - 1 /\ n - 1 + 1 = n /\ ~ (n <= n - 1)
        BY <2>1, <3>5
      <4> QED
        BY <3>3, <4>1
    <3>7. s[n - 1] \in Reach(f, p) /\ f[s[n - 1]] = s[n] /\ s[n] \in N
      BY <2>1, <2>2, <3>5, <3>6
    <3> QED
      BY <3>5, <3>7, ReachFacts
  <2> QED
    BY <2>2, <2>3, <2>5, <2>6
<1> QED
  BY <1>1, <1>2

(***************************************************************************)
(* Where blocks are: on the free list (F), on the list the worker gives    *)
(* back (R), in a thread's chain (C) or taken by one (I).                  *)
(***************************************************************************)
\* No block is in two places.
Separate(F, R, C, I) ==
  /\ \A b \in F : b \notin R
  /\ \A t \in Threads : \A b \in C[t] : b \notin F /\ b \notin R /\ b \notin I[t]
  /\ \A t \in Threads : \A b \in I[t] : b \notin F /\ b \notin R
  /\ \A t, u \in Threads : t # u => \A b \in C[t] : b \notin C[u] /\ b \notin I[u]
  /\ \A t, u \in Threads : t # u => \A b \in I[t] : b \notin I[u]

\* And A is all the blocks.
Placed(F, R, C, I, A) ==
  Separate(F, R, C, I) /\ A = F \union R \union UNION {C[t] \union I[t] : t \in Threads}

\* A thread takes a block from the free list.
LEMMA PlaceTaken ==
  ASSUME NEW F, NEW R, NEW C, NEW I, NEW A, Placed(F, R, C, I, A), NEW t \in Threads,
         NEW b, NEW F1, NEW I1, I[t] = {}, F = F1 \union {b}, b \notin F1,
         I1[t] = {b}, \A u \in Threads : u # t => I1[u] = I[u]
  PROVE  Placed(F1, R, C, I1, A)
<1>1. b \in F /\ (\A x \in F1 : x \in F) /\ (\A u \in Threads : u # t => I1[u] = I[u])
  OBVIOUS
<1>2. Separate(F1, R, C, I1)
  BY <1>1 DEF Placed, Separate
<1>3. \A x : x \in A <=> x \in F \/ x \in R \/ \E u \in Threads : x \in C[u] \/ x \in I[u]
  BY DEF Placed
<1>4. \A x : x \in A <=> x \in F1 \/ x \in R \/ \E u \in Threads : x \in C[u] \/ x \in I1[u]
  BY <1>3
<1> QED
  BY <1>2, <1>4 DEF Placed

\* A thread maps a page.
LEMMA PlaceMapped ==
  ASSUME NEW F, NEW R, NEW C, NEW I, NEW A, Placed(F, R, C, I, A), NEW t \in Threads,
         NEW X, NEW I1, I[t] = {}, X \intersect A = {},
         I1[t] = X, \A u \in Threads : u # t => I1[u] = I[u]
  PROVE  Placed(F, R, C, I1, A \union X)
<1>1. \A x : x \in A <=> x \in F \/ x \in R \/ \E u \in Threads : x \in C[u] \/ x \in I[u]
  BY DEF Placed
<1>2. \A x \in X : x \notin F /\ x \notin R /\ \A u \in Threads : x \notin C[u] /\ x \notin I[u]
  BY <1>1
<1>3. Separate(F, R, C, I1)
  BY <1>2 DEF Placed, Separate
<1>4. \A x : x \in A \union X <=> x \in F \/ x \in R \/ \E u \in Threads : x \in C[u] \/ x \in I1[u]
  BY <1>1
<1> QED
  BY <1>3, <1>4 DEF Placed

\* A thread adds a page it has mapped, but for one block, to the free list.
LEMMA PlacePushed ==
  ASSUME NEW F, NEW R, NEW C, NEW I, NEW A, Placed(F, R, C, I, A), NEW t \in Threads,
         NEW X, NEW o, NEW F1, NEW I1, I[t] = {o} \union X, o \notin X, F1 = X \union F,
         I1[t] = {o}, \A u \in Threads : u # t => I1[u] = I[u]
  PROVE  Placed(F1, R, C, I1, A)
<1>1. \A x : x \in A <=> x \in F \/ x \in R \/ \E u \in Threads : x \in C[u] \/ x \in I[u]
  BY DEF Placed
<1>2. Separate(F1, R, C, I1)
  BY DEF Placed, Separate
<1>3. \A x : x \in A <=> x \in F1 \/ x \in R \/ \E u \in Threads : x \in C[u] \/ x \in I1[u]
  BY <1>1
<1> QED
  BY <1>2, <1>3 DEF Placed

\* A thread appends the block it has taken to its chain.
LEMMA PlaceUsed ==
  ASSUME NEW F, NEW R, NEW C, NEW I, NEW A, Placed(F, R, C, I, A), NEW t \in Threads,
         NEW C1, NEW I1, I1[t] = {}, C1[t] = C[t] \union I[t],
         \A u \in Threads : u # t => I1[u] = I[u] /\ C1[u] = C[u]
  PROVE  Placed(F, R, C1, I1, A)
<1>1. \A x : x \in A <=> x \in F \/ x \in R \/ \E u \in Threads : x \in C[u] \/ x \in I[u]
  BY DEF Placed
<1>2. Separate(F, R, C1, I1)
  BY DEF Placed, Separate
<1>3. \A x : x \in A <=> x \in F \/ x \in R \/ \E u \in Threads : x \in C1[u] \/ x \in I1[u]
  BY <1>1
<1> QED
  BY <1>2, <1>3 DEF Placed

\* The worker collects the head of a thread's chain.
LEMMA PlaceRetired ==
  ASSUME NEW F, NEW R, NEW C, NEW I, NEW A, Placed(F, R, C, I, A), NEW t \in Threads,
         NEW h, NEW R1, NEW C1, C[t] = {h} \union C1[t], h \notin C1[t], R1 = {h} \union R,
         \A u \in Threads : u # t => C1[u] = C[u]
  PROVE  Placed(F, R1, C1, I, A)
<1>1. \A x : x \in A <=> x \in F \/ x \in R \/ \E u \in Threads : x \in C[u] \/ x \in I[u]
  BY DEF Placed
<1>2. Separate(F, R1, C1, I)
  BY DEF Placed, Separate
<1>3. \A x : x \in A <=> x \in F \/ x \in R1 \/ \E u \in Threads : x \in C1[u] \/ x \in I[u]
  BY <1>1
<1> QED
  BY <1>2, <1>3 DEF Placed

\* The worker gives its list back.
LEMMA PlaceGiven ==
  ASSUME NEW F, NEW R, NEW C, NEW I, NEW A, Placed(F, R, C, I, A), NEW F1, F1 = R \union F
  PROVE  Placed(F1, {}, C, I, A)
BY DEF Placed, Separate

(***************************************************************************)
(* Pages.                                                                  *)
(***************************************************************************)
\* The blocks of the n-th page, in order of address, and as a set.
Page(n) == [i \in 1 .. PageBlocks |-> PageHead(n) + i - 1]
Span(n) == PageHead(n) .. PageTail(n)

\* A page's blocks come after those of the pages before it, and it is the page of its head.
LEMMA PageFacts ==
  ASSUME NEW n \in Nat
  PROVE  /\ PageHead(n + 1) = n * PageBlocks + 1 /\ PageTail(n + 1) = n * PageBlocks + PageBlocks
         /\ n * PageBlocks \in Nat /\ PageBlocks \in Nat \ {0}
         /\ PageOf(PageHead(n + 1)) = n + 1
         /\ n < MaxPages => Span(n + 1) \subseteq Blocks
         /\ n <= MaxPages => 1 .. n * PageBlocks \subseteq Blocks
<1>1. PageBlocks \in Nat \ {0} /\ MaxPages \in Nat
  BY PoolAssumption
<1>2. n * PageBlocks \in Nat /\ MaxPages * PageBlocks \in Nat
  BY <1>1
<1>3. PageHead(n + 1) = n * PageBlocks + 1
  BY <1>1 DEF PageHead
<1>4. PageTail(n + 1) = n * PageBlocks + PageBlocks
  BY <1>1 DEF PageTail
<1>5. PageOf(PageHead(n + 1)) = n + 1
  <2>1. (n * PageBlocks) \div PageBlocks = n
    BY <1>1
  <2>2. PageHead(n + 1) - 1 = n * PageBlocks
    BY <1>2, <1>3
  <2>3. (PageHead(n + 1) - 1) \div PageBlocks = n
    BY <2>1, <2>2
  <2> QED
    BY <2>3 DEF PageOf
<1>6. ASSUME NEW m \in Nat, m <= MaxPages PROVE m * PageBlocks <= MaxPages * PageBlocks
  <2>1. MaxPages - m \in Nat /\ MaxPages * PageBlocks = m * PageBlocks + (MaxPages - m) * PageBlocks
    BY <1>1, <1>6
  <2>2. (MaxPages - m) * PageBlocks \in Nat /\ m * PageBlocks \in Nat
    BY <1>1, <2>1
  <2> QED
    BY <2>1, <2>2
<1>7. n <= MaxPages => 1 .. n * PageBlocks \subseteq Blocks
  BY <1>2, <1>6 DEF Blocks
<1>8. n < MaxPages => Span(n + 1) \subseteq Blocks
  <2>1. n < MaxPages => (n + 1) * PageBlocks <= MaxPages * PageBlocks
    BY <1>1, <1>6
  <2>2. (n + 1) * PageBlocks = n * PageBlocks + PageBlocks
    BY <1>1
  <2> QED
    BY <1>1, <1>2, <1>3, <1>4, <2>1, <2>2 DEF Blocks, Span
<1> QED
  BY <1>1, <1>2, <1>3, <1>4, <1>5, <1>7, <1>8

\* A page is the sequence of its blocks.
LEMMA PageElements ==
  ASSUME NEW n \in Nat, n < MaxPages
  PROVE  /\ Page(n + 1) \in Seq(Blocks) /\ Page(n + 1) # <<>> /\ Head(Page(n + 1)) = PageHead(n + 1)
         /\ Last(Page(n + 1)) = PageTail(n + 1) /\ Len(Page(n + 1)) = PageBlocks
         /\ ToSet(Page(n + 1)) = Span(n + 1) /\ IsInjective(Page(n + 1))
<1> DEFINE h == PageHead(n + 1)
           P == Page(n + 1)
<1>1. /\ PageBlocks \in Nat \ {0} /\ h \in Nat /\ PageTail(n + 1) = h + PageBlocks - 1
      /\ h .. PageTail(n + 1) \subseteq Blocks
  <2>1. PageBlocks \in Nat \ {0} /\ n * PageBlocks \in Nat /\ h = n * PageBlocks + 1
        /\ PageTail(n + 1) = n * PageBlocks + PageBlocks
    BY PageFacts
  <2>2. h .. PageTail(n + 1) \subseteq Blocks
    BY PageFacts DEF Span
  <2> QED
    BY <2>1, <2>2
<1>2. P = [i \in 1 .. PageBlocks |-> h + i - 1]
  BY DEF Page
<1> HIDE DEF h, P
<1>3. \A i \in 1 .. PageBlocks : h + i - 1 \in h .. PageTail(n + 1)
  BY <1>1
<1>4. P \in Seq(Blocks) /\ Len(P) = PageBlocks /\ DOMAIN P = 1 .. PageBlocks
      /\ \A i \in 1 .. PageBlocks : P[i] = h + i - 1
  BY <1>1, <1>2, <1>3
<1>5. P # <<>> /\ Head(P) = h /\ Last(P) = PageTail(n + 1)
  <2>1. 1 \in 1 .. PageBlocks /\ PageBlocks \in 1 .. PageBlocks /\ h + 1 - 1 = h
    BY <1>1
  <2>2. P # <<>> /\ Head(P) = P[1]
    BY <1>1, <1>4
  <2> QED
    BY <1>1, <1>4, <2>1, <2>2 DEF Last
<1>6. ToSet(P) = h .. PageTail(n + 1)
  <2>1. \A b \in h .. PageTail(n + 1) : b - h + 1 \in 1 .. PageBlocks /\ h + (b - h + 1) - 1 = b
    BY <1>1
  <2> QED
    BY <1>3, <1>4, <2>1 DEF ToSet
<1>7. IsInjective(P)
  BY <1>1, <1>4 DEF IsInjective
<1> QED
  BY <1>4, <1>5, <1>6, <1>7 DEF h, P, Span

\* The blocks a thread has in flight, by its control state.
LEMMA FlightFacts ==
  ASSUME NEW t \in Threads
  PROVE  /\ pc[t] \in {"unlock", "use"} => InFlight(t) = {owned[t]}
         /\ pc[t] \in {"link", "push"} =>
              \A n \in Nat : owned[t] = PageHead(n + 1) => InFlight(t) = Span(n + 1)
         /\ pc[t] \notin {"unlock", "use", "link", "push"} => InFlight(t) = {}
<1>1. \A n \in Nat : PageOf(PageHead(n + 1)) = n + 1
  BY PageFacts
<1> QED
  BY <1>1 DEF InFlight, Span

(***************************************************************************)
(* The inductive invariant.                                                *)
(***************************************************************************)
\* What control states say: a thread that goes on with a block has one, the page that is
\* being added is the last, and the worker gives back no empty list, nor one too many.
StateInv ==
  /\ \A t \in Threads :
       /\ pc[t] \in {"next", "pop", "link", "push", "unlock", "use"} => owned[t] # NoBlock
       /\ pc[t] \in {"link", "push"} => pages # 0 /\ owned[t] = PageHead(pages)
  /\ wpc \in {"link", "push"} => retired # <<>>
  /\ wpc = "idle" /\ retired # <<>> => frees < MaxFrees

\* free is the free list; the lists that are about to be pushed are linked, and once they
\* are pushed, they are linked to the head that the push expects.
ListInv(free) ==
  /\ Linked(next, free, freeList, NoBlock)
  /\ Within(next, retired)
  /\ wpc = "push" => Linked(next, retired, Head(retired), wseen)
  /\ \A t \in Threads :
       /\ pc[t] \in {"link", "push"} => Within(next, Page(pages))
       /\ pc[t] = "push" => Linked(next, Page(pages), owned[t], seen[t])

\* Every mapped block is in one place.
PlaceInv(free) ==
  /\ IsInjective(free) /\ IsInjective(retired) /\ \A t \in Threads : IsInjective(chain[t])
  /\ Placed(ToSet(free), ToSet(retired), [t \in Threads |-> ToSet(chain[t])],
            [t \in Threads |-> InFlight(t)], 1 .. pages * PageBlocks)

FreeInv == stale \/ \E free \in Seq(Blocks) : ListInv(free) /\ PlaceInv(free)

PoolIInv == TypeOK /\ OneMapper /\ StateInv /\ FreeInv

\* Only a thread that maps has its control state and its block changed by steps that map.
LEMMA ControlStep ==
  ASSUME PoolIInv, [Next]_vars
  PROVE  TypeOK' /\ OneMapper' /\ StateInv'
<1> USE DEF NoBlock
<1>0. TypeOK /\ OneMapper /\ StateInv /\ Blocks \subseteq Nat \ {0} /\ PageBlocks \in Nat \ {0} /\ MaxPages \in Nat
  BY PoolAssumption DEF PoolIInv, Blocks
<1>a. /\ freeList \in Blocks \union {0} /\ futex \in {0, 1} /\ pages \in Nat /\ pages <= MaxPages
      /\ next \in [Blocks -> Blocks \union {0}]
      /\ pc \in [Threads -> {"idle", "load", "next", "pop", "futex", "map", "link", "push",
                             "unlock", "use"}]
      /\ owned \in [Threads -> Blocks \union {0}] /\ seen \in [Threads -> Blocks \union {0}]
      /\ chain \in [Threads -> Seq(Blocks)]
  BY <1>0 DEF TypeOK
<1>1. CASE UNCHANGED vars
  BY <1>0, <1>1 DEF vars, threadVars, workerVars, TypeOK, OneMapper, StateInv
<1>2. ASSUME NEW t \in Threads, Allocate(t) PROVE TypeOK' /\ OneMapper' /\ StateInv'
  <2>1. TypeOK'
    BY <1>0, <1>2, PoolAssumption DEF Allocate, TypeOK, workerVars
  <2>2. OneMapper' /\ StateInv'
    BY <1>0, <1>a, <1>2 DEF Allocate, OneMapper, StateInv, workerVars
  <2> QED
    BY <2>1, <2>2
<1>3. ASSUME NEW t \in Threads, LoadHead(t) PROVE TypeOK' /\ OneMapper' /\ StateInv'
  <2>1. TypeOK'
    BY <1>0, <1>3 DEF LoadHead, TypeOK, workerVars
  <2>2. OneMapper' /\ StateInv'
    BY <1>0, <1>a, <1>3 DEF LoadHead, OneMapper, StateInv, workerVars
  <2> QED
    BY <2>1, <2>2
<1>4. ASSUME NEW t \in Threads, ReadNext(t) PROVE TypeOK' /\ OneMapper' /\ StateInv'
  <2>1. owned[t] \in Blocks
    BY <1>0, <1>a, <1>4 DEF ReadNext, StateInv
  <2>2. TypeOK'
    BY <1>0, <1>4, <2>1 DEF ReadNext, TypeOK, workerVars
  <2>3. OneMapper' /\ StateInv'
    BY <1>0, <1>a, <1>4, <2>1 DEF ReadNext, OneMapper, StateInv, workerVars
  <2> QED
    BY <2>2, <2>3
<1>5. ASSUME NEW t \in Threads, Pop(t) PROVE TypeOK' /\ OneMapper' /\ StateInv'
  <2>1. TypeOK'
    BY <1>0, <1>5 DEF Pop, TypeOK, workerVars
  <2>2. OneMapper' /\ StateInv'
    BY <1>0, <1>a, <1>5 DEF Pop, OneMapper, StateInv, workerVars
  <2> QED
    BY <2>1, <2>2
<1>6. ASSUME NEW t \in Threads, AcquireFutex(t) PROVE TypeOK' /\ OneMapper' /\ StateInv'
  <2>1. TypeOK'
    BY <1>0, <1>6 DEF AcquireFutex, TypeOK, workerVars
  <2>2. OneMapper'
    BY <1>0, <1>a, <1>6 DEF AcquireFutex, OneMapper
  <2>3. StateInv'
    BY <1>0, <1>a, <1>6 DEF AcquireFutex, StateInv, workerVars
  <2> QED
    BY <2>1, <2>2, <2>3
<1>7. ASSUME NEW t \in Threads, AddPageToPool(t) PROVE TypeOK' /\ OneMapper' /\ StateInv'
  <2>1. pages \in Nat /\ PageHead(pages + 1) \in Blocks /\ PageTail(pages + 1) \in Blocks
        /\ \A b \in PageHead(pages + 1) .. PageTail(pages + 1) - 1 : b + 1 \in Blocks
    <3>1. pages \in Nat /\ pages < MaxPages
      BY <1>a, <1>7 DEF AddPageToPool
    <3>2. Span(pages + 1) \subseteq Blocks
      BY <3>1, PageFacts
    <3>3. /\ PageHead(pages + 1) \in Nat /\ PageTail(pages + 1) \in Nat
          /\ PageHead(pages + 1) <= PageTail(pages + 1)
      <4>1. /\ PageHead(pages + 1) = pages * PageBlocks + 1
            /\ PageTail(pages + 1) = pages * PageBlocks + PageBlocks
            /\ pages * PageBlocks \in Nat
        BY <3>1, PageFacts
      <4> QED
        BY <1>0, <4>1
    <3>4. PageHead(pages + 1) \in Span(pages + 1) /\ PageTail(pages + 1) \in Span(pages + 1)
      BY <3>3 DEF Span
    <3>5. \A b \in PageHead(pages + 1) .. PageTail(pages + 1) - 1 : b + 1 \in Span(pages + 1)
      BY <3>3 DEF Span
    <3> QED
      BY <3>1, <3>2, <3>4, <3>5
  <2>3. next' \in [Blocks -> Blocks \union {0}]
    BY <1>a, <1>7, <2>1 DEF AddPageToPool
  <2>4. TypeOK'
    <3>1. pages' \in 0 .. MaxPages
      BY <1>0, <1>a, <1>7 DEF AddPageToPool
    <3> QED
      BY <1>0, <1>7, <2>1, <2>3, <3>1 DEF AddPageToPool, TypeOK, workerVars
  <2>5. OneMapper'
    BY <1>0, <1>a, <1>7 DEF AddPageToPool, OneMapper
  <2>6. StateInv'
    <3>1. \A u \in Threads : pc[u] \in {"link", "push"} => u = t
      BY <1>0, <1>7 DEF AddPageToPool, OneMapper
    <3>2. /\ pc' = [pc EXCEPT ![t] = "link"] /\ owned' = [owned EXCEPT ![t] = PageHead(pages + 1)]
          /\ pages' = pages + 1 /\ pages' # 0 /\ pc[t] = "map"
          /\ UNCHANGED <<wpc, retired, frees>>
      BY <1>a, <1>7 DEF AddPageToPool, workerVars
    <3>3. PageHead(pages + 1) # 0 /\ owned'[t] = PageHead(pages')
      BY <1>0, <1>a, <2>1, <3>2
    <3>4. ASSUME NEW u \in Threads
          PROVE  /\ pc'[u] \in {"next", "pop", "link", "push", "unlock", "use"} => owned'[u] # 0
                 /\ pc'[u] \in {"link", "push"} => pages' # 0 /\ owned'[u] = PageHead(pages')
      BY <1>0, <1>a, <3>1, <3>2, <3>3 DEF StateInv
    <3> QED
      BY <1>0, <3>2, <3>4 DEF StateInv
  <2> QED
    BY <2>4, <2>5, <2>6
<1>8. ASSUME NEW t \in Threads, LinkPage(t) PROVE TypeOK' /\ OneMapper' /\ StateInv'
  <2>1. TypeOK'
    <3>1. next' \in [Blocks -> Blocks \union {0}]
      BY <1>a, <1>8 DEF LinkPage
    <3> QED
      BY <1>0, <1>8, <3>1 DEF LinkPage, TypeOK, workerVars
  <2>2. OneMapper'
    BY <1>0, <1>a, <1>8 DEF LinkPage, OneMapper
  <2>3. StateInv'
    BY <1>0, <1>a, <1>8 DEF LinkPage, StateInv, workerVars
  <2> QED
    BY <2>1, <2>2, <2>3
<1>9. ASSUME NEW t \in Threads, PushPage(t) PROVE TypeOK' /\ OneMapper' /\ StateInv'
  <2>1. owned[t] \in Blocks
    BY <1>0, <1>a, <1>9 DEF PushPage, StateInv
  <2>2. TypeOK'
    <3>1. freeList' \in Blocks \union {0}
      BY <1>a, <1>9, <2>1 DEF PushPage
    <3> QED
      BY <1>0, <1>9, <3>1 DEF PushPage, TypeOK, workerVars
  <2>3. OneMapper'
    BY <1>0, <1>a, <1>9 DEF PushPage, OneMapper
  <2>4. StateInv'
    BY <1>0, <1>a, <1>9 DEF PushPage, StateInv, workerVars
  <2> QED
    BY <2>2, <2>3, <2>4
<1>10. ASSUME NEW t \in Threads, ReleaseFutex(t) PROVE TypeOK' /\ OneMapper' /\ StateInv'
  <2>1. TypeOK'
    BY <1>0, <1>10 DEF ReleaseFutex, TypeOK, workerVars
  <2>2. OneMapper' /\ StateInv'
    BY <1>0, <1>a, <1>10 DEF ReleaseFutex, OneMapper, StateInv, workerVars
  <2> QED
    BY <2>1, <2>2
<1>11. ASSUME NEW t \in Threads, UseBlock(t) PROVE TypeOK' /\ OneMapper' /\ StateInv'
  <2>1. owned[t] \in Blocks
    BY <1>0, <1>a, <1>11 DEF UseBlock, StateInv
  <2>2. TypeOK'
    <3>1. next' \in [Blocks -> Blocks \union {0}]
      BY <1>a, <1>11, <2>1 DEF UseBlock
    <3>2. chain' \in [Threads -> Seq(Blocks)]
      <4>1. Append(chain[t], owned[t]) \in Seq(Blocks)
        BY <1>a, <2>1
      <4> QED
        BY <1>a, <1>11, <4>1 DEF UseBlock
    <3> QED
      BY <1>0, <1>11, <3>1, <3>2 DEF UseBlock, TypeOK, workerVars
  <2>3. OneMapper' /\ StateInv'
    BY <1>0, <1>a, <1>11 DEF UseBlock, OneMapper, StateInv, workerVars
  <2> QED
    BY <2>2, <2>3
<1>12. ASSUME NEW t \in Threads, RetireBlock(t) PROVE TypeOK' /\ OneMapper' /\ StateInv'
  <2>1. chain[t] \in Seq(Blocks) /\ chain[t] # <<>> /\ retired \in Seq(Blocks)
    BY <1>0, <1>a, <1>12 DEF RetireBlock, TypeOK
  <2>2. Head(chain[t]) \in Blocks /\ Tail(chain[t]) \in Seq(Blocks)
    BY <2>1, TailElements
  <2>3. retired' \in Seq(Blocks)
    BY <1>12, <2>1, <2>2 DEF RetireBlock
  <2>4. retired # <<>> => Head(retired) \in Blocks
    BY <2>1, TailElements
  <2>5. next' \in [Blocks -> Blocks \union {0}] /\ chain' \in [Threads -> Seq(Blocks)]
    BY <1>a, <1>12, <2>2, <2>4 DEF RetireBlock
  <2>6. TypeOK'
    BY <1>0, <1>12, <2>3, <2>5 DEF RetireBlock, TypeOK
  <2>7. OneMapper' /\ StateInv'
    BY <1>0, <1>12 DEF RetireBlock, OneMapper, StateInv
  <2> QED
    BY <2>6, <2>7
<1>13. ASSUME LinkRetired PROVE TypeOK' /\ OneMapper' /\ StateInv'
  <2>1. next' \in [Blocks -> Blocks \union {0}]
    BY <1>a, <1>13 DEF LinkRetired
  <2>3. TypeOK'
    <3>1. frees' \in 0 .. MaxFrees
      BY <1>0, <1>13, PoolAssumption DEF LinkRetired, TypeOK, StateInv
    <3> QED
      BY <1>0, <1>13, <2>1, <3>1 DEF LinkRetired, TypeOK, threadVars
  <2>4. OneMapper' /\ StateInv'
    BY <1>0, <1>13 DEF LinkRetired, OneMapper, StateInv, threadVars
  <2> QED
    BY <2>3, <2>4
<1>14. ASSUME PushRetired PROVE TypeOK' /\ OneMapper' /\ StateInv'
  <2>1. retired \in Seq(Blocks) /\ retired # <<>>
    BY <1>0, <1>14 DEF PushRetired, TypeOK, StateInv
  <2>2. Head(retired) \in Blocks /\ <<>> \in Seq(Blocks)
    BY <2>1, TailElements
  <2>3. TypeOK'
    BY <1>0, <1>14, <2>1, <2>2 DEF PushRetired, TypeOK, threadVars
  <2>4. OneMapper' /\ StateInv'
    BY <1>0, <1>14 DEF PushRetired, OneMapper, StateInv, threadVars
  <2> QED
    BY <2>3, <2>4
<1> QED
  BY <1>1, <1>2, <1>3, <1>4, <1>5, <1>6, <1>7, <1>8, <1>9, <1>10, <1>11, <1>12, <1>13, <1>14
     DEF Next, Allocating

\* A list whose elements are linked is linked to what its end is linked to.
LEMMA LinkedEnd ==
  ASSUME NEW N, NEW s \in Seq(N), s # <<>>, IsInjective(s), NEW f, NEW g, NEW q, Within(f, s),
         g[Last(s)] = q, \A x \in ToSet(s) : x # Last(s) => g[x] = f[x]
  PROVE  Linked(g, s, Head(s), q)
<1>1. Len(s) \in Nat \ {0} /\ DOMAIN s = 1 .. Len(s) /\ Last(s) = s[Len(s)]
  BY DEF Last
<1>2. ASSUME NEW i \in 1 .. Len(s) - 1 PROVE g[s[i]] = s[i + 1]
  <2>1. i \in 1 .. Len(s) /\ Len(s) \in 1 .. Len(s) /\ i # Len(s)
    <3>1. Len(s) \in Nat \ {0}
      BY <1>1
    <3> QED
      BY <1>2, <3>1
  <2>2. s[i] # Last(s) /\ s[i] \in ToSet(s)
    BY <1>1, <2>1 DEF IsInjective, ToSet
  <2> QED
    BY <1>2, <2>2 DEF Within
<1> QED
  BY <1>2 DEF Linked, Within

\* The page that a thread is adding.
LEMMA PageBeingAdded ==
  ASSUME TypeOK, StateInv, NEW t \in Threads, pc[t] \in {"link", "push"}
  PROVE  /\ Page(pages) \in Seq(Blocks) /\ Page(pages) # <<>> /\ Head(Page(pages)) = owned[t]
         /\ Last(Page(pages)) = PageTail(PageOf(owned[t])) /\ IsInjective(Page(pages))
         /\ ToSet(Page(pages)) = InFlight(t) /\ owned[t] \in InFlight(t)
<1>1. pages \in Nat /\ pages # 0 /\ pages <= MaxPages /\ MaxPages \in Nat /\ owned[t] = PageHead(pages)
  BY PoolAssumption DEF TypeOK, StateInv
<1>2. PICK n \in Nat : pages = n + 1 /\ n < MaxPages
  <2>1. pages - 1 \in Nat /\ pages = pages - 1 + 1 /\ pages - 1 < MaxPages
    BY <1>1
  <2> QED
    BY <2>1
<1>3. PageOf(owned[t]) = pages /\ InFlight(t) = Span(pages)
  BY <1>1, <1>2, FlightFacts, PageFacts
<1>4. /\ Page(pages) \in Seq(Blocks) /\ Page(pages) # <<>> /\ Head(Page(pages)) = PageHead(pages)
      /\ Last(Page(pages)) = PageTail(pages) /\ ToSet(Page(pages)) = Span(pages)
      /\ IsInjective(Page(pages))
  BY <1>2, PageElements
<1>5. PageHead(pages) \in Span(pages)
  BY <1>4, TailElements
<1> QED
  BY <1>1, <1>3, <1>4, <1>5

\* Lists keep their links when the links that change are of blocks in none of them.
LEMMA ListsKept ==
  ASSUME TypeOK, StateInv, NEW free \in Seq(Blocks), ListInv(free), NEW D,
         \A b \in Blocks : b \notin D => next'[b] = next[b], pages' = pages, freeList' = freeList,
         \A b \in ToSet(free) : b \notin D,
         \A u \in Threads :
           /\ pc'[u] \in {"link", "push"} => pc[u] \in {"link", "push"} /\ (\A b \in InFlight(u) : b \notin D)
           /\ pc'[u] = "push" => pc[u] = "push" /\ owned'[u] = owned[u] /\ seen'[u] = seen[u]
  PROVE  /\ Linked(next', free, freeList', NoBlock)
         /\ \A u \in Threads :
              /\ pc'[u] \in {"link", "push"} => Within(next', Page(pages'))
              /\ pc'[u] = "push" => Linked(next', Page(pages'), owned'[u], seen'[u])
         /\ (\A b \in ToSet(retired) : b \notin D) =>
              /\ Within(next', retired)
              /\ wpc = "push" => Linked(next', retired, Head(retired), wseen)
<1>1. \A s \in Seq(Blocks) : ToSet(s) \subseteq Blocks
  BY DEF ToSet
<1>2. retired \in Seq(Blocks)
  BY DEF TypeOK
<1>3. Linked(next', free, freeList', NoBlock)
  <2>1. \A x \in ToSet(free) : next'[x] = next[x]
    BY <1>1
  <2> QED
    BY <2>1, LinkedAgree DEF ListInv
<1>4. ASSUME \A b \in ToSet(retired) : b \notin D
      PROVE  /\ Within(next', retired)
             /\ wpc = "push" => Linked(next', retired, Head(retired), wseen)
  <2>1. \A x \in ToSet(retired) : next'[x] = next[x]
    BY <1>1, <1>2, <1>4
  <2> QED
    BY <1>2, <2>1, LinkedAgree DEF ListInv
<1>5. ASSUME NEW u \in Threads, pc'[u] \in {"link", "push"}
      PROVE  /\ Within(next', Page(pages'))
             /\ pc'[u] = "push" => Linked(next', Page(pages'), owned'[u], seen'[u])
  <2>1. pc[u] \in {"link", "push"} /\ \A b \in InFlight(u) : b \notin D
    BY <1>5
  <2>2. Page(pages) \in Seq(Blocks) /\ ToSet(Page(pages)) = InFlight(u)
    BY <2>1, PageBeingAdded
  <2>3. \A x \in ToSet(Page(pages)) : next'[x] = next[x]
    BY <1>1, <2>1, <2>2
  <2>4. Within(next, Page(pages)) /\ (pc[u] = "push" => Linked(next, Page(pages), owned[u], seen[u]))
    BY <2>1 DEF ListInv
  <2>5. Page(pages') = Page(pages)
    OBVIOUS
  <2>6. Within(next', Page(pages))
    BY <2>2, <2>3, <2>4, LinkedAgree
  <2>7. pc[u] = "push" => Linked(next', Page(pages), owned[u], seen[u])
    BY <2>2, <2>3, <2>4, LinkedAgree
  <2> QED
    BY <2>5, <2>6, <2>7
<1> QED
  BY <1>3, <1>4, <1>5

\* A step that moves no block and links none keeps the lists and the places.
LEMMA QuietStep ==
  ASSUME TypeOK, StateInv, NEW free \in Seq(Blocks), ListInv(free), PlaceInv(free),
         UNCHANGED <<freeList, next, pages, chain, retired>>,
         \A u \in Threads :
           /\ InFlight(u)' = InFlight(u)
           /\ pc'[u] \in {"link", "push"} => pc[u] \in {"link", "push"}
           /\ pc'[u] = "push" => pc[u] = "push" /\ owned'[u] = owned[u] /\ seen'[u] = seen[u],
         wpc' = "push" => wpc = "push" /\ wseen' = wseen
  PROVE  ListInv(free)' /\ PlaceInv(free)'
<1>1. /\ Linked(next', free, freeList', NoBlock)
      /\ \A u \in Threads :
           /\ pc'[u] \in {"link", "push"} => Within(next', Page(pages'))
           /\ pc'[u] = "push" => Linked(next', Page(pages'), owned'[u], seen'[u])
      /\ Within(next', retired)
      /\ wpc = "push" => Linked(next', retired, Head(retired), wseen)
  <2> DEFINE D == {}
  <2>1. /\ \A b \in Blocks : b \notin D => next'[b] = next[b]
        /\ \A b \in ToSet(free) : b \notin D
        /\ \A b \in ToSet(retired) : b \notin D
        /\ \A u \in Threads : \A b \in InFlight(u) : b \notin D
    OBVIOUS
  <2> HIDE DEF D
  <2> QED
    BY <2>1, ListsKept
<1>2. ListInv(free)'
  BY <1>1 DEF ListInv
<1>3. [u \in Threads |-> InFlight(u)'] = [u \in Threads |-> InFlight(u)]
  OBVIOUS
<1>4. PlaceInv(free)'
  BY <1>3 DEF PlaceInv
<1> QED
  BY <1>2, <1>4

\* Steps of a thread that neither link nor move blocks, and a pop.
LEMMA PopSteps ==
  ASSUME PoolIInv, NEW free \in Seq(Blocks), ListInv(free), PlaceInv(free), stale' = FALSE,
         NEW t \in Threads,
         Allocate(t) \/ LoadHead(t) \/ ReadNext(t) \/ Pop(t) \/ AcquireFutex(t) \/ ReleaseFutex(t)
  PROVE  \E g \in Seq(Blocks) : ListInv(g)' /\ PlaceInv(g)'
<1> USE DEF NoBlock
<1>0. TypeOK /\ StateInv
  BY DEF PoolIInv
<1>a. /\ pc \in [Threads -> {"idle", "load", "next", "pop", "futex", "map", "link", "push",
                             "unlock", "use"}]
      /\ owned \in [Threads -> Blocks \union {0}] /\ seen \in [Threads -> Blocks \union {0}]
      /\ freeList \in Blocks \union {0}
  BY <1>0 DEF TypeOK
<1>b. \A u \in Threads : pc'[u] = pc[u] /\ owned'[u] = owned[u] => InFlight(u)' = InFlight(u)
  BY DEF InFlight
<1> DEFINE Quiet ==
      /\ UNCHANGED <<freeList, next, pages, chain, retired, wpc, wseen>>
      /\ \A u \in Threads : u # t => pc'[u] = pc[u] /\ owned'[u] = owned[u] /\ seen'[u] = seen[u]
      /\ pc'[t] \notin {"link", "push"} /\ InFlight(t)' = InFlight(t)
<1>1. ASSUME Quiet PROVE ListInv(free)' /\ PlaceInv(free)'
  <2>1. \A u \in Threads :
           /\ InFlight(u)' = InFlight(u)
           /\ pc'[u] \in {"link", "push"} => pc[u] \in {"link", "push"}
           /\ pc'[u] = "push" => pc[u] = "push" /\ owned'[u] = owned[u] /\ seen'[u] = seen[u]
    <3>1. ASSUME NEW u \in Threads, u # t
          PROVE  /\ InFlight(u)' = InFlight(u)
                 /\ pc'[u] \in {"link", "push"} => pc[u] \in {"link", "push"}
                 /\ pc'[u] = "push" => pc[u] = "push" /\ owned'[u] = owned[u] /\ seen'[u] = seen[u]
      BY <1>b, <1>1, <3>1
    <3> QED
      BY <1>1, <3>1
  <2> QED
    BY <1>0, <1>1, <2>1, QuietStep
<1>2. ASSUME Allocate(t) \/ LoadHead(t) \/ ReadNext(t) \/ AcquireFutex(t) PROVE Quiet
  <2>1. /\ pc[t] \in {"idle", "load", "next", "futex"}
        /\ pc'[t] \in {"load", "next", "futex", "pop", "map"}
    BY <1>a, <1>2 DEF Allocate, LoadHead, ReadNext, AcquireFutex
  <2>2. InFlight(t) = {} /\ InFlight(t)' = {}
    BY <2>1 DEF InFlight
  <2>3. UNCHANGED <<freeList, next, pages, chain, retired, wpc, wseen>>
    BY <1>2 DEF Allocate, LoadHead, ReadNext, AcquireFutex, workerVars
  <2>4. \A u \in Threads : u # t => pc'[u] = pc[u] /\ owned'[u] = owned[u] /\ seen'[u] = seen[u]
    BY <1>a, <1>2 DEF Allocate, LoadHead, ReadNext, AcquireFutex
  <2> QED
    BY <2>1, <2>2, <2>3, <2>4
<1>3. ASSUME ReleaseFutex(t) PROVE Quiet
  <2>1. /\ pc[t] = "unlock" /\ pc'[t] = "use" /\ owned'[t] = owned[t]
        /\ \A u \in Threads : u # t => pc'[u] = pc[u] /\ owned'[u] = owned[u] /\ seen'[u] = seen[u]
    BY <1>a, <1>3 DEF ReleaseFutex
  <2>2. InFlight(t)' = InFlight(t)
    BY <2>1 DEF InFlight
  <2>3. UNCHANGED <<freeList, next, pages, chain, retired, wpc, wseen>>
    BY <1>3 DEF ReleaseFutex, workerVars
  <2> QED
    BY <2>1, <2>2, <2>3
<1>4. ASSUME Pop(t) PROVE Quiet \/ \E g \in Seq(Blocks) : ListInv(g)' /\ PlaceInv(g)'
  <2>1. /\ pc[t] = "pop" /\ UNCHANGED <<next, pages, chain, retired, wpc, wseen, owned, seen>>
        /\ \A u \in Threads : u # t => pc'[u] = pc[u] /\ owned'[u] = owned[u] /\ seen'[u] = seen[u]
    BY <1>a, <1>4 DEF Pop, workerVars
  <2>2. CASE freeList # owned[t]
    <3>1. pc'[t] = "load" /\ freeList' = freeList
      BY <1>a, <1>4, <2>2 DEF Pop
    <3>2. InFlight(t)' = {} /\ InFlight(t) = {}
      BY <2>1, <3>1 DEF InFlight
    <3> QED
      BY <2>1, <3>1, <3>2
  <2>3. CASE freeList = owned[t]
    <3>1. pc'[t] = "use" /\ freeList' = seen[t] /\ seen[t] = next[owned[t]] /\ owned[t] # 0
      BY <1>0, <1>a, <1>4, <2>3 DEF Pop, StateInv
    <3>2. InFlight(t) = {} /\ InFlight(t)' = {owned[t]}
      BY <2>1, <3>1 DEF InFlight
    <3>3. Linked(next, free, freeList, 0)
      BY DEF ListInv
    <3>4. free # <<>>
      BY <2>3, <3>1, <3>3 DEF Linked
    <3>5. owned[t] = Head(free) /\ Linked(next, Tail(free), freeList', 0)
      BY <2>3, <3>1, <3>3, <3>4, LinkedTail
    <3> DEFINE g == Tail(free)
               F == ToSet(free)
               F1 == ToSet(g)
               R == ToSet(retired)
               C == [u \in Threads |-> ToSet(chain[u])]
               I == [u \in Threads |-> InFlight(u)]
               I1 == [u \in Threads |-> InFlight(u)']
               A == 1 .. pages * PageBlocks
    <3>6. /\ g \in Seq(Blocks) /\ IsInjective(g)
          /\ F = F1 \union {owned[t]} /\ owned[t] \notin F1
      <4>1. IsInjective(free)
        BY DEF PlaceInv
      <4> QED
        BY <3>4, <3>5, <4>1, TailElements
    <3>7. I[t] = {} /\ I1[t] = {owned[t]} /\ \A u \in Threads : u # t => I1[u] = I[u]
      BY <1>b, <2>1, <3>2
    <3>8. Placed(F, R, C, I, A)
      BY DEF PlaceInv
    <3>9. Placed(F1, R, C, I1, A)
      <4> HIDE DEF F, F1, R, C, I, I1, A
      <4> QED
        BY <3>6, <3>7, <3>8, PlaceTaken
    <3>10. /\ \A u \in Threads : chain'[u] = chain[u] /\ IsInjective(chain[u])
           /\ IsInjective(retired) /\ retired' = retired /\ pages' = pages
      BY <2>1 DEF PlaceInv
    <3>11. [u \in Threads |-> ToSet(chain'[u])] = C
      BY <3>10
    <3>12. PlaceInv(g)'
      <4>1. /\ IsInjective(g) /\ IsInjective(retired') /\ \A u \in Threads : IsInjective(chain'[u])
        BY <3>6, <3>10
      <4>2. Placed(ToSet(g), ToSet(retired'), [u \in Threads |-> ToSet(chain'[u])], I1,
                   1 .. pages' * PageBlocks)
        BY <3>9, <3>10, <3>11
      <4> QED
        BY <4>1, <4>2 DEF PlaceInv
    <3>13. ListInv(g)'
      <4>1. \A u \in Threads : pc'[u] \in {"link", "push"} =>
               u # t /\ pc'[u] = pc[u] /\ owned'[u] = owned[u] /\ seen'[u] = seen[u]
        BY <2>1, <3>1
      <4>2. \A u \in Threads :
              /\ pc'[u] \in {"link", "push"} => Within(next', Page(pages'))
              /\ pc'[u] = "push" => Linked(next', Page(pages'), owned'[u], seen'[u])
        BY <2>1, <4>1 DEF ListInv
      <4>3. Within(next', retired') /\ (wpc' = "push" => Linked(next', retired', Head(retired'), wseen'))
        BY <2>1 DEF ListInv
      <4>4. Linked(next', g, freeList', 0)
        BY <2>1, <3>5
      <4> QED
        BY <4>2, <4>3, <4>4 DEF ListInv
    <3> QED
      BY <3>6, <3>12, <3>13
  <2> QED
    BY <2>2, <2>3
<1> QED
  BY <1>1, <1>2, <1>3, <1>4

\* A thread maps a page: its blocks come after all others.
LEMMA AddPageStep ==
  ASSUME PoolIInv, NEW free \in Seq(Blocks), ListInv(free), PlaceInv(free), NEW t \in Threads,
         AddPageToPool(t)
  PROVE  ListInv(free)' /\ PlaceInv(free)'
<1> USE DEF NoBlock
<1>0. TypeOK /\ OneMapper /\ PageBlocks \in Nat \ {0}
  BY PoolAssumption DEF PoolIInv
<1>a. /\ pc \in [Threads -> {"idle", "load", "next", "pop", "futex", "map", "link", "push",
                             "unlock", "use"}]
      /\ owned \in [Threads -> Blocks \union {0}] /\ pages \in Nat /\ retired \in Seq(Blocks)
      /\ next \in [Blocks -> Blocks \union {0}]
  BY <1>0, PoolAssumption DEF TypeOK
<1>1. /\ pc[t] = "map" /\ pages < MaxPages /\ pages' = pages + 1
      /\ pc'[t] = "link" /\ owned'[t] = PageHead(pages + 1)
      /\ \A u \in Threads : u # t => pc'[u] = pc[u] /\ owned'[u] = owned[u]
      /\ UNCHANGED <<freeList, chain, retired, wpc, wseen>>
      /\ \A b \in Blocks : next'[b] = IF b \in PageHead(pages + 1) .. PageTail(pages + 1) - 1
                                       THEN b + 1 ELSE next[b]
  BY <1>a DEF AddPageToPool, workerVars
<1>2. PICK n \in Nat : n = pages /\ n < MaxPages
  BY <1>a, <1>1
<1>3. PICK k \in Nat : /\ k = n * PageBlocks /\ PageHead(n + 1) = k + 1 /\ PageTail(n + 1) = k + PageBlocks
                       /\ PageOf(PageHead(n + 1)) = n + 1 /\ Span(n + 1) \subseteq Blocks
                       /\ Span(n + 1) = k + 1 .. k + PageBlocks /\ 1 .. k \subseteq Blocks
  <2>1. n < MaxPages => n <= MaxPages
    BY PoolAssumption
  <2> QED
    BY <1>2, <2>1, PageFacts DEF Span
<1>4. (n + 1) * PageBlocks = k + PageBlocks
  BY <1>0, <1>3
<1> DEFINE F == ToSet(free)
           R == ToSet(retired)
           C == [u \in Threads |-> ToSet(chain[u])]
           I == [u \in Threads |-> InFlight(u)]
           I1 == [u \in Threads |-> InFlight(u)']
           A == 1 .. k
           X == k + 1 .. k + PageBlocks
<1>5. Placed(F, R, C, I, A)
  BY <1>2, <1>3 DEF PlaceInv
<1>6. I[t] = {} /\ I1[t] = X /\ \A u \in Threads : u # t => I1[u] = I[u]
  <2>1. InFlight(t) = {}
    BY <1>1 DEF InFlight
  <2>2. InFlight(t)' = X
    <3>1. InFlight(t)' = owned'[t] .. PageTail(PageOf(owned'[t]))
      BY <1>1 DEF InFlight
    <3> QED
      BY <1>1, <1>2, <1>3, <3>1
  <2>3. \A u \in Threads : u # t => InFlight(u)' = InFlight(u)
    BY <1>1 DEF InFlight
  <2> QED
    BY <2>1, <2>2, <2>3
<1>7. X \intersect A = {} /\ A \union X = 1 .. k + PageBlocks
  BY <1>0
<1>8. Placed(F, R, C, I1, A \union X)
  <2> HIDE DEF F, R, C, I, I1, A, X
  <2> QED
    BY <1>5, <1>6, <1>7, PlaceMapped
<1>9. PlaceInv(free)'
  <2>1. IsInjective(free) /\ IsInjective(retired') /\ \A u \in Threads : IsInjective(chain'[u])
    BY <1>1 DEF PlaceInv
  <2>2. Placed(F, ToSet(retired'), [u \in Threads |-> ToSet(chain'[u])], I1, 1 .. pages' * PageBlocks)
    BY <1>1, <1>2, <1>4, <1>7, <1>8
  <2> QED
    BY <2>1, <2>2 DEF PlaceInv
<1>10. \A x \in F \union R : next'[x] = next[x]
  <2>1. \A x \in F \union R : x \in 1 .. k /\ x \in Blocks
    BY <1>3, <1>5 DEF Placed
  <2>2. \A x \in 1 .. k : x \notin PageHead(pages + 1) .. PageTail(pages + 1) - 1
    BY <1>0, <1>2, <1>3
  <2> QED
    BY <1>1, <2>1, <2>2
<1>11. Linked(next', free, freeList', 0)
  BY <1>1, <1>10, LinkedAgree DEF ListInv
<1>12. Within(next', retired') /\ (wpc' = "push" => Linked(next', retired', Head(retired'), wseen'))
  <2>1. Within(next', retired) /\ (wpc = "push" => Linked(next', retired, Head(retired), wseen))
    BY <1>a, <1>10, LinkedAgree DEF ListInv
  <2> QED
    BY <1>1, <2>1
<1>13. \A u \in Threads : pc'[u] \in {"link", "push"} => u = t
  BY <1>0, <1>1 DEF OneMapper
<1>14. Within(next', Page(n + 1))
  <2>1. Len(Page(n + 1)) = PageBlocks
    BY <1>2, PageElements
  <2>2. ASSUME NEW i \in 1 .. PageBlocks - 1 PROVE next'[Page(n + 1)[i]] = Page(n + 1)[i + 1]
    <3>1. i \in 1 .. PageBlocks /\ i + 1 \in 1 .. PageBlocks
      BY <1>0, <2>2
    <3>2. Page(n + 1)[i] = k + 1 + i - 1 /\ Page(n + 1)[i + 1] = k + 1 + (i + 1) - 1
      BY <1>3, <3>1 DEF Page
    <3>3. k + 1 + i - 1 = k + i /\ k + 1 + (i + 1) - 1 = k + i + 1
          /\ k + i \in k + 1 .. k + PageBlocks - 1 /\ k + i \in k + 1 .. k + PageBlocks
      BY <1>0, <2>2
    <3>4. k + i \in Blocks /\ k + i \in PageHead(pages + 1) .. PageTail(pages + 1) - 1
      <4>1. Span(n + 1) = k + 1 .. k + PageBlocks /\ Span(n + 1) \subseteq Blocks
        BY <1>3
      <4>2. PageHead(pages + 1) = k + 1 /\ PageTail(pages + 1) = k + PageBlocks
        BY <1>2, <1>3
      <4>3. k + i \in Blocks
        BY <3>3, <4>1
      <4>4. PageHead(pages + 1) .. PageTail(pages + 1) - 1 = k + 1 .. k + PageBlocks - 1
        BY <1>0, <1>a, <4>2
      <4> QED
        BY <3>3, <4>3, <4>4
    <3>5. next'[k + i] = k + i + 1
      BY <1>1, <3>4
    <3> QED
      BY <3>2, <3>3, <3>5
  <2> QED
    BY <2>1, <2>2 DEF Within
<1>15. ListInv(free)'
  <2>1. \A u \in Threads :
              /\ pc'[u] \in {"link", "push"} => Within(next', Page(pages'))
              /\ pc'[u] = "push" => Linked(next', Page(pages'), owned'[u], seen'[u])
    BY <1>1, <1>2, <1>13, <1>14
  <2> QED
    BY <1>11, <1>12, <2>1 DEF ListInv
<1> QED
  BY <1>9, <1>15

\* It links the last block of the page to the head of the free list.
LEMMA LinkPageStep ==
  ASSUME PoolIInv, NEW free \in Seq(Blocks), ListInv(free), PlaceInv(free), NEW t \in Threads,
         LinkPage(t)
  PROVE  ListInv(free)' /\ PlaceInv(free)'
<1> USE DEF NoBlock
<1>0. TypeOK /\ OneMapper /\ StateInv
  BY DEF PoolIInv
<1>a. /\ pc \in [Threads -> {"idle", "load", "next", "pop", "futex", "map", "link", "push",
                             "unlock", "use"}]
      /\ seen \in [Threads -> Blocks \union {0}] /\ retired \in Seq(Blocks)
      /\ next \in [Blocks -> Blocks \union {0}]
  BY <1>0 DEF TypeOK
<1>1. /\ pc[t] = "link" /\ pc'[t] = "push" /\ seen'[t] = freeList
      /\ \A u \in Threads : u # t => pc'[u] = pc[u]
      /\ UNCHANGED <<freeList, owned, pages, chain, retired, wpc, wseen>>
      /\ next' = [next EXCEPT ![PageTail(PageOf(owned[t]))] = freeList]
  BY <1>a DEF LinkPage, workerVars
<1> DEFINE P == Page(pages)
<1>2. /\ P \in Seq(Blocks) /\ P # <<>> /\ Head(P) = owned[t] /\ Last(P) = PageTail(PageOf(owned[t]))
      /\ ToSet(P) = InFlight(t) /\ IsInjective(P)
  BY <1>0, <1>1, PageBeingAdded
<1> HIDE DEF P
<1>3. Last(P) \in ToSet(P) /\ Last(P) \in Blocks
  <2>1. Len(P) \in DOMAIN P /\ P[Len(P)] \in Blocks
    BY <1>2
  <2> QED
    BY <2>1 DEF Last, ToSet
<1>4. next'[Last(P)] = freeList /\ \A b \in Blocks : b # Last(P) => next'[b] = next[b]
  BY <1>a, <1>1, <1>2, <1>3
<1>5. \A b \in ToSet(free) \union ToSet(retired) : b # Last(P)
  BY <1>2, <1>3 DEF PlaceInv, Placed, Separate
<1>6. \A s \in Seq(Blocks) : ToSet(s) \subseteq Blocks
  BY DEF ToSet
<1>7. Linked(next', free, freeList', 0)
  <2>1. \A x \in ToSet(free) : next'[x] = next[x]
    BY <1>4, <1>5, <1>6
  <2>2. Linked(next, free, freeList, 0) /\ freeList' = freeList
    BY <1>1 DEF ListInv
  <2>3. Linked(next', free, freeList, 0)
    BY <2>1, <2>2, LinkedAgree
  <2> QED
    BY <2>2, <2>3
<1>8. Within(next', retired') /\ (wpc' = "push" => Linked(next', retired', Head(retired'), wseen'))
  <2>1. \A x \in ToSet(retired) : next'[x] = next[x]
    BY <1>a, <1>4, <1>5, <1>6
  <2>2. Within(next', retired) /\ (wpc = "push" => Linked(next', retired, Head(retired), wseen))
    BY <1>a, <2>1, LinkedAgree DEF ListInv
  <2> QED
    BY <1>1, <2>2
<1>9. Linked(next', P, owned'[t], seen'[t])
  <2>1. Within(next, P)
    BY <1>1 DEF ListInv, P
  <2>2. \A x \in ToSet(P) : x # Last(P) => next'[x] = next[x]
    BY <1>2, <1>4, <1>6
  <2>3. Linked(next', P, Head(P), freeList)
    BY <1>2, <1>4, <2>1, <2>2, LinkedEnd
  <2> QED
    BY <1>1, <1>2, <2>3
<1>10. \A u \in Threads : pc'[u] \in {"link", "push"} => u = t
  BY <1>0, <1>1 DEF OneMapper
<1>11. ListInv(free)'
  <2>1. Within(next', P) /\ Page(pages') = P
    BY <1>1, <1>9 DEF Linked, P
  <2>2. \A u \in Threads :
              /\ pc'[u] \in {"link", "push"} => Within(next', Page(pages'))
              /\ pc'[u] = "push" => Linked(next', Page(pages'), owned'[u], seen'[u])
    BY <1>9, <1>10, <2>1
  <2> QED
    BY <1>7, <1>8, <2>2 DEF ListInv
<1>12. PlaceInv(free)'
  <2>1. \A u \in Threads : InFlight(u)' = InFlight(u)
    <3>1. InFlight(t)' = InFlight(t)
      BY <1>1 DEF InFlight
    <3>2. \A u \in Threads : u # t => InFlight(u)' = InFlight(u)
      BY <1>1 DEF InFlight
    <3> QED
      BY <3>1, <3>2
  <2>2. [u \in Threads |-> InFlight(u)'] = [u \in Threads |-> InFlight(u)]
    BY <2>1
  <2> QED
    BY <1>1, <2>2 DEF PlaceInv
<1> QED
  BY <1>11, <1>12

\* It pushes the page, but for its first block.
LEMMA PushPageStep ==
  ASSUME PoolIInv, NEW free \in Seq(Blocks), ListInv(free), PlaceInv(free), NEW t \in Threads,
         PushPage(t)
  PROVE  \E g \in Seq(Blocks) : ListInv(g)' /\ PlaceInv(g)'
<1> USE DEF NoBlock
<1>0. TypeOK /\ OneMapper /\ StateInv
  BY DEF PoolIInv
<1>a. /\ pc \in [Threads -> {"idle", "load", "next", "pop", "futex", "map", "link", "push",
                             "unlock", "use"}]
      /\ freeList \in Blocks \union {0}
  BY <1>0 DEF TypeOK
<1>1. /\ pc[t] = "push" /\ \A u \in Threads : u # t => pc'[u] = pc[u]
      /\ UNCHANGED <<next, owned, seen, pages, chain, retired, wpc, wseen>>
  BY <1>a DEF PushPage, workerVars
<1>2. CASE freeList # seen[t]
  <2>1. pc'[t] = "link" /\ freeList' = freeList
    BY <1>a, <1>2 DEF PushPage
  <2>2. \A u \in Threads : InFlight(u)' = InFlight(u)
    <3>1. InFlight(t)' = InFlight(t)
      BY <1>1, <2>1 DEF InFlight
    <3>2. \A u \in Threads : u # t => InFlight(u)' = InFlight(u)
      BY <1>1 DEF InFlight
    <3> QED
      BY <3>1, <3>2
  <2>3. \A u \in Threads :
           /\ InFlight(u)' = InFlight(u)
           /\ pc'[u] \in {"link", "push"} => pc[u] \in {"link", "push"}
           /\ pc'[u] = "push" => pc[u] = "push" /\ owned'[u] = owned[u] /\ seen'[u] = seen[u]
    BY <1>1, <2>1, <2>2
  <2>4. ListInv(free)' /\ PlaceInv(free)'
    BY <1>0, <1>1, <2>1, <2>3, QuietStep
  <2> QED
    BY <2>4
<1>3. CASE freeList = seen[t]
  <2>1. pc'[t] = "unlock" /\ freeList' = next[owned[t]]
    BY <1>a, <1>1, <1>3 DEF PushPage
  <2>c. PICK c : c = Page(pages) \o free
    OBVIOUS
  <2> DEFINE P == Page(pages)
             o == owned[t]
             g == Tail(c)
             F == ToSet(free)
             F1 == ToSet(g)
             R == ToSet(retired)
             C == [u \in Threads |-> ToSet(chain[u])]
             I == [u \in Threads |-> InFlight(u)]
             I1 == [u \in Threads |-> InFlight(u)']
             A == 1 .. pages * PageBlocks
             X == InFlight(t) \ {o}
  <2>2. /\ P \in Seq(Blocks) /\ P # <<>> /\ Head(P) = o /\ ToSet(P) = InFlight(t) /\ o \in InFlight(t)
        /\ IsInjective(P)
    BY <1>0, <1>1, PageBeingAdded
  <2>3. Linked(next, P, o, freeList) /\ Linked(next, free, freeList, 0)
    BY <1>1, <1>3 DEF ListInv
  <2>4. Placed(F, R, C, I, A) /\ IsInjective(free)
    BY DEF PlaceInv
  <2>5. InFlight(t) \intersect F = {}
    BY <2>4 DEF Placed, Separate
  <2> HIDE DEF P
  <2>6. /\ c \in Seq(Blocks) /\ ToSet(c) = InFlight(t) \union F /\ IsInjective(c)
        /\ Linked(next, c, o, 0)
    <3>0. c = P \o free
      BY <2>c DEF P
    <3>1. c \in Seq(Blocks) /\ ToSet(c) = ToSet(P) \union F
      BY <2>2, <3>0, ConcatElements
    <3>2. ToSet(P) \intersect F = {}
      BY <2>2, <2>5
    <3>3. IsInjective(c)
      BY <2>2, <2>4, <3>0, <3>2, ConcatElements
    <3>4. Linked(next, c, o, 0)
      BY <2>2, <2>3, <3>0, LinkedConcat
    <3> QED
      BY <2>2, <3>1, <3>3, <3>4
  <2>7. c # <<>>
    <3>1. o \in ToSet(c)
      BY <2>2, <2>6
    <3> QED
      BY <3>1 DEF ToSet
  <2>8. /\ o = Head(c) /\ Linked(next, g, next[o], 0)
        /\ g \in Seq(Blocks) /\ ToSet(c) = {o} \union F1 /\ IsInjective(g) /\ o \notin F1
    <3>1. o = Head(c) /\ Linked(next, g, next[o], 0)
      BY <2>6, <2>7, LinkedTail
    <3>2. /\ g \in Seq(Blocks) /\ ToSet(c) = {Head(c)} \union F1 /\ IsInjective(g) /\ Head(c) \notin F1
      BY <2>6, <2>7, TailElements
    <3> QED
      BY <3>1, <3>2
  <2>9. F1 = X \union F /\ o \notin X /\ I[t] = {o} \union X
    BY <2>2, <2>5, <2>6, <2>8
  <2>10. I1[t] = {o} /\ \A u \in Threads : u # t => I1[u] = I[u]
    <3>1. InFlight(t)' = {o}
      BY <1>1, <2>1 DEF InFlight
    <3>2. \A u \in Threads : u # t => InFlight(u)' = InFlight(u)
      BY <1>1 DEF InFlight
    <3> QED
      BY <3>1, <3>2
  <2>11. Placed(F1, R, C, I1, A)
    <3> HIDE DEF F, F1, R, C, I, I1, A, X, o
    <3> QED
      BY <2>4, <2>9, <2>10, PlacePushed
  <2>12. PlaceInv(g)'
    <3>1. IsInjective(g) /\ IsInjective(retired') /\ \A u \in Threads : IsInjective(chain'[u])
      BY <1>1, <2>8 DEF PlaceInv
    <3>2. Placed(F1, ToSet(retired'), [u \in Threads |-> ToSet(chain'[u])], I1, 1 .. pages' * PageBlocks)
      BY <1>1, <2>11
    <3> QED
      BY <3>1, <3>2 DEF PlaceInv
  <2>13. ListInv(g)'
    <3>1. \A u \in Threads : pc'[u] \in {"link", "push"} =>
             u # t /\ pc'[u] = pc[u] /\ owned'[u] = owned[u] /\ seen'[u] = seen[u]
      BY <1>1, <2>1
    <3>2. \A u \in Threads :
            /\ pc'[u] \in {"link", "push"} => Within(next', Page(pages'))
            /\ pc'[u] = "push" => Linked(next', Page(pages'), owned'[u], seen'[u])
      BY <1>1, <3>1 DEF ListInv
    <3>3. Within(next', retired') /\ (wpc' = "push" => Linked(next', retired', Head(retired'), wseen'))
      BY <1>1 DEF ListInv
    <3>4. Linked(next', g, freeList', 0)
      BY <1>1, <2>1, <2>8
    <3> QED
      BY <3>2, <3>3, <3>4 DEF ListInv
  <2> QED
    BY <2>8, <2>12, <2>13
<1> QED
  BY <1>2, <1>3

\* A thread appends the block it has taken to its chain.
LEMMA UseBlockStep ==
  ASSUME PoolIInv, NEW free \in Seq(Blocks), ListInv(free), PlaceInv(free), NEW t \in Threads,
         UseBlock(t)
  PROVE  ListInv(free)' /\ PlaceInv(free)'
<1> USE DEF NoBlock
<1>0. TypeOK /\ StateInv
  BY DEF PoolIInv
<1>a. /\ pc \in [Threads -> {"idle", "load", "next", "pop", "futex", "map", "link", "push",
                             "unlock", "use"}]
      /\ owned \in [Threads -> Blocks \union {0}] /\ seen \in [Threads -> Blocks \union {0}]
      /\ retired \in Seq(Blocks) /\ chain \in [Threads -> Seq(Blocks)]
  BY <1>0 DEF TypeOK
<1> DEFINE o == owned[t]
           D == {o} \union (IF chain[t] = <<>> THEN {} ELSE {Last(chain[t])})
<1>1. /\ pc[t] = "use" /\ pc'[t] = "idle" /\ chain'[t] = Append(chain[t], o) /\ o \in Blocks
      /\ \A u \in Threads : u # t => pc'[u] = pc[u] /\ owned'[u] = owned[u] /\ seen'[u] = seen[u]
                                      /\ chain'[u] = chain[u]
      /\ UNCHANGED <<freeList, pages, retired, wpc, wseen>>
  BY <1>0, <1>a DEF UseBlock, workerVars, StateInv
<1>2. \A b \in Blocks : b \notin D => next'[b] = next[b]
  BY <1>a DEF UseBlock
<1> DEFINE F == ToSet(free)
           R == ToSet(retired)
           C == [u \in Threads |-> ToSet(chain[u])]
           I == [u \in Threads |-> InFlight(u)]
           C1 == [u \in Threads |-> ToSet(chain'[u])]
           I1 == [u \in Threads |-> InFlight(u)']
           A == 1 .. pages * PageBlocks
<1>3. Placed(F, R, C, I, A) /\ IsInjective(chain[t])
  BY DEF PlaceInv
<1>4. I[t] = {o} /\ I1[t] = {} /\ \A u \in Threads : u # t => I1[u] = I[u] /\ C1[u] = C[u]
  <2>1. InFlight(t) = {o} /\ InFlight(t)' = {}
    BY <1>1 DEF InFlight
  <2>2. \A u \in Threads : u # t => InFlight(u)' = InFlight(u)
    BY <1>1 DEF InFlight
  <2> QED
    BY <1>1, <2>1, <2>2
<1>5. C1[t] = C[t] \union {o} /\ IsInjective(chain'[t])
  <2>1. chain[t] \in Seq(Blocks) /\ chain'[t] = chain[t] \o <<o>>
    <3>1. chain[t] \in Seq(Blocks)
      BY <1>a
    <3>2. Append(chain[t], o) = chain[t] \o <<o>>
      BY <1>1, <3>1
    <3> QED
      BY <1>1, <3>1, <3>2
  <2>2. <<o>> \in Seq(Blocks) /\ ToSet(<<o>>) = {o} /\ IsInjective(<<o>>)
    BY <1>1, OneElement
  <2>3. ToSet(chain[t]) \intersect {o} = {}
    BY <1>3, <1>4 DEF Placed, Separate
  <2>4. /\ ToSet(chain[t] \o <<o>>) = ToSet(chain[t]) \union ToSet(<<o>>)
        /\ IsInjective(chain[t] \o <<o>>)
    <3> HIDE DEF o
    <3>1. chain[t] \in Seq(Blocks) /\ <<o>> \in Seq(Blocks) /\ IsInjective(chain[t]) /\ IsInjective(<<o>>)
          /\ ToSet(chain[t]) \intersect ToSet(<<o>>) = {}
      BY <1>3, <2>1, <2>2, <2>3
    <3> QED
      BY <3>1, ConcatElements
  <2> QED
    BY <2>1, <2>2, <2>4
<1>6. Placed(F, R, C1, I1, A)
  <2>1. Placed(F, R, C, I, A) /\ C1[t] = C[t] \union I[t]
    BY <1>3, <1>4, <1>5
  <2> HIDE DEF F, R, C, I, C1, I1, A, o, D
  <2> QED
    BY <1>4, <2>1, PlaceUsed
<1>7. PlaceInv(free)'
  <2>1. IsInjective(free) /\ IsInjective(retired') /\ \A u \in Threads : IsInjective(chain'[u])
    BY <1>1, <1>5 DEF PlaceInv
  <2>2. Placed(F, ToSet(retired'), C1, I1, 1 .. pages' * PageBlocks)
    BY <1>1, <1>6
  <2> QED
    BY <2>1, <2>2 DEF PlaceInv
<1>8. D \subseteq {o} \union ToSet(chain[t])
  <2>1. chain[t] # <<>> => Last(chain[t]) \in ToSet(chain[t])
    <3>1. chain[t] \in Seq(Blocks)
      BY <1>a
    <3>2. chain[t] # <<>> => Len(chain[t]) \in DOMAIN chain[t]
      BY <3>1
    <3> QED
      BY <3>2 DEF Last, ToSet
  <2> QED
    BY <2>1
<1>9. /\ \A b \in F \union R : b \notin D
      /\ \A u \in Threads : u # t => \A b \in InFlight(u) : b \notin D
  <2>1. \A b \in F \union R : b \notin {o} /\ b \notin ToSet(chain[t])
    BY <1>3, <1>4 DEF Placed, Separate
  <2>2. \A u \in Threads : u # t => \A b \in InFlight(u) : b \notin {o} /\ b \notin ToSet(chain[t])
    BY <1>3, <1>4 DEF Placed, Separate
  <2> HIDE DEF D
  <2> QED
    BY <1>8, <2>1, <2>2
<1>10. ListInv(free)'
  <2> HIDE DEF D
  <2>1. \A u \in Threads :
           /\ pc'[u] \in {"link", "push"} => pc[u] \in {"link", "push"} /\ (\A b \in InFlight(u) : b \notin D)
           /\ pc'[u] = "push" => pc[u] = "push" /\ owned'[u] = owned[u] /\ seen'[u] = seen[u]
    BY <1>1, <1>9
  <2>2. /\ Linked(next', free, freeList', 0)
        /\ \A u \in Threads :
              /\ pc'[u] \in {"link", "push"} => Within(next', Page(pages'))
              /\ pc'[u] = "push" => Linked(next', Page(pages'), owned'[u], seen'[u])
        /\ Within(next', retired)
        /\ wpc = "push" => Linked(next', retired, Head(retired), wseen)
    BY <1>0, <1>1, <1>2, <1>9, <2>1, ListsKept
  <2> QED
    BY <1>1, <2>2 DEF ListInv
<1> QED
  BY <1>7, <1>10

\* The worker collects the head of a thread's chain.
LEMMA RetireBlockStep ==
  ASSUME PoolIInv, NEW free \in Seq(Blocks), ListInv(free), PlaceInv(free), NEW t \in Threads,
         RetireBlock(t)
  PROVE  ListInv(free)' /\ PlaceInv(free)'
<1> USE DEF NoBlock
<1>0. TypeOK /\ StateInv
  BY DEF PoolIInv
<1>a. /\ next \in [Blocks -> Blocks \union {0}]
      /\ retired \in Seq(Blocks) /\ chain \in [Threads -> Seq(Blocks)]
  BY <1>0 DEF TypeOK
<1> DEFINE h == Head(chain[t])
           D == {h}
<1>1. /\ wpc = "idle" /\ chain[t] \in Seq(Blocks) /\ chain[t] # <<>> /\ chain'[t] = Tail(chain[t])
      /\ \A u \in Threads : u # t => chain'[u] = chain[u]
      /\ retired' = <<h>> \o retired
      /\ UNCHANGED <<freeList, pages, pc, owned, seen, wpc, wseen>>
      /\ next' = [next EXCEPT ![h] = IF retired = <<>> THEN 0 ELSE Head(retired)]
  BY <1>a DEF RetireBlock
<1>2. IsInjective(chain[t]) /\ IsInjective(retired)
  BY DEF PlaceInv
<1>3. /\ h \in Blocks /\ ToSet(chain[t]) = {h} \union ToSet(chain'[t])
      /\ IsInjective(chain'[t]) /\ h \notin ToSet(chain'[t])
  BY <1>1, <1>2, TailElements
<1>4. \A b \in Blocks : b \notin D => next'[b] = next[b]
  BY <1>a, <1>1
<1> DEFINE F == ToSet(free)
           R == ToSet(retired)
           R1 == ToSet(retired')
           C == [u \in Threads |-> ToSet(chain[u])]
           I == [u \in Threads |-> InFlight(u)]
           C1 == [u \in Threads |-> ToSet(chain'[u])]
           A == 1 .. pages * PageBlocks
<1>5. Placed(F, R, C, I, A)
  BY DEF PlaceInv
<1>6. \A b \in F \union R : b # h
  BY <1>3, <1>5 DEF Placed, Separate
<1>7. <<h>> \in Seq(Blocks) /\ ToSet(<<h>>) = {h} /\ IsInjective(<<h>>)
  BY <1>3, OneElement
<1>8. R1 = {h} \union R /\ IsInjective(retired')
  <2>1. {h} \intersect R = {}
    BY <1>6
  <2>2. /\ ToSet(<<h>> \o retired) = ToSet(<<h>>) \union ToSet(retired)
        /\ IsInjective(<<h>> \o retired)
    <3>1. <<h>> \in Seq(Blocks) /\ retired \in Seq(Blocks) /\ IsInjective(<<h>>) /\ IsInjective(retired)
          /\ ToSet(<<h>>) \intersect ToSet(retired) = {}
      BY <1>a, <1>2, <1>7, <2>1
    <3> HIDE DEF h
    <3> QED
      BY <3>1, ConcatElements
  <2> QED
    BY <1>1, <1>7, <2>2
<1>9. Placed(F, R1, C1, I, A)
  <2>1. C[t] = {h} \union C1[t] /\ h \notin C1[t] /\ \A u \in Threads : u # t => C1[u] = C[u]
    BY <1>1, <1>3
  <2> HIDE DEF F, R, R1, C, I, C1, A, h
  <2> QED
    BY <1>5, <1>8, <2>1, PlaceRetired
<1>10. PlaceInv(free)'
  <2>1. IsInjective(free) /\ IsInjective(retired') /\ \A u \in Threads : IsInjective(chain'[u])
    BY <1>1, <1>3, <1>8 DEF PlaceInv
  <2>2. [u \in Threads |-> InFlight(u)'] = I
    <3>1. \A u \in Threads : InFlight(u)' = InFlight(u)
      BY <1>1 DEF InFlight
    <3> QED
      BY <3>1
  <2>3. Placed(F, R1, C1, [u \in Threads |-> InFlight(u)'], 1 .. pages' * PageBlocks)
    BY <1>1, <1>9, <2>2
  <2> QED
    BY <2>1, <2>3 DEF PlaceInv
<1>11. \A u \in Threads : \A b \in InFlight(u) : b # h
  <2>1. h \in C[t]
    BY <1>3
  <2> QED
    BY <1>5, <2>1 DEF Placed, Separate
<1>12. /\ Linked(next', free, freeList', 0)
       /\ \A u \in Threads :
              /\ pc'[u] \in {"link", "push"} => Within(next', Page(pages'))
              /\ pc'[u] = "push" => Linked(next', Page(pages'), owned'[u], seen'[u])
       /\ Within(next', retired)
  <2>1. \A b \in F \union R : b \notin D
    BY <1>6
  <2>2. \A u \in Threads :
           /\ pc'[u] \in {"link", "push"} => pc[u] \in {"link", "push"} /\ (\A b \in InFlight(u) : b \notin D)
           /\ pc'[u] = "push" => pc[u] = "push" /\ owned'[u] = owned[u] /\ seen'[u] = seen[u]
    BY <1>1, <1>11
  <2> HIDE DEF D
  <2> QED
    BY <1>0, <1>1, <1>4, <2>1, <2>2, ListsKept
<1>13. Within(next', retired')
  <2>1. CASE retired = <<>>
    <3>1. retired' = <<h>> /\ Len(<<h>>) - 1 = 0
      BY <1>1, <1>7, <2>1
    <3> QED
      BY <3>1 DEF Within
  <2>2. CASE retired # <<>>
    <3>1. Linked(next', <<h>>, h, Head(retired))
      <4>1. next'[h] = Head(retired)
        BY <1>a, <1>1, <1>3, <2>2
      <4>2. Len(<<h>>) - 1 = 0 /\ Head(<<h>>) = h /\ Last(<<h>>) = h
        BY <1>7 DEF Last
      <4> QED
        BY <4>1, <4>2 DEF Linked, Within
    <3>2. Linked(next', retired, Head(retired), next'[Last(retired)])
      BY <1>12, <2>2 DEF Linked
    <3>3. Linked(next', <<h>> \o retired, h, next'[Last(retired)])
      BY <1>a, <1>7, <3>1, <3>2, LinkedConcat
    <3> QED
      BY <1>1, <3>3 DEF Linked
  <2> QED
    BY <2>1, <2>2
<1>14. ListInv(free)'
  BY <1>1, <1>12, <1>13 DEF ListInv
<1> QED
  BY <1>10, <1>14

\* It links the last block of its list to the head of the free list.
LEMMA LinkRetiredStep ==
  ASSUME PoolIInv, NEW free \in Seq(Blocks), ListInv(free), PlaceInv(free), LinkRetired
  PROVE  ListInv(free)' /\ PlaceInv(free)'
<1> USE DEF NoBlock
<1>0. TypeOK /\ StateInv
  BY DEF PoolIInv
<1>a. next \in [Blocks -> Blocks \union {0}] /\ retired \in Seq(Blocks)
  BY <1>0 DEF TypeOK
<1> DEFINE l == Last(retired)
           D == {l}
<1>1. /\ retired # <<>> /\ wpc' = "push" /\ wseen' = freeList
      /\ UNCHANGED <<freeList, pages, pc, owned, seen, chain, retired>>
      /\ next' = [next EXCEPT ![l] = freeList]
  BY <1>0 DEF LinkRetired, threadVars, StateInv
<1>2. l \in ToSet(retired) /\ l \in Blocks
  <2>1. Len(retired) \in DOMAIN retired /\ retired[Len(retired)] \in Blocks
    BY <1>a, <1>1
  <2> QED
    BY <2>1 DEF Last, ToSet
<1>3. next'[l] = freeList /\ \A b \in Blocks : b \notin D => next'[b] = next[b]
  BY <1>a, <1>1, <1>2
<1>4. /\ \A b \in ToSet(free) : b # l
      /\ \A u \in Threads : \A b \in InFlight(u) : b # l
  BY <1>2 DEF PlaceInv, Placed, Separate
<1>5. /\ Linked(next', free, freeList', 0)
      /\ \A u \in Threads :
              /\ pc'[u] \in {"link", "push"} => Within(next', Page(pages'))
              /\ pc'[u] = "push" => Linked(next', Page(pages'), owned'[u], seen'[u])
  <2>1. \A b \in ToSet(free) : b \notin D
    BY <1>4
  <2>2. \A u \in Threads :
           /\ pc'[u] \in {"link", "push"} => pc[u] \in {"link", "push"} /\ (\A b \in InFlight(u) : b \notin D)
           /\ pc'[u] = "push" => pc[u] = "push" /\ owned'[u] = owned[u] /\ seen'[u] = seen[u]
    BY <1>1, <1>4
  <2> HIDE DEF D
  <2> QED
    BY <1>0, <1>1, <1>3, <2>1, <2>2, ListsKept
<1>6. Linked(next', retired, Head(retired), freeList)
  <2>1. IsInjective(retired) /\ Within(next, retired)
    BY DEF PlaceInv, ListInv
  <2>2. \A x \in ToSet(retired) : x # l => next'[x] = next[x]
    BY <1>a, <1>3 DEF ToSet
  <2> HIDE DEF l
  <2> QED
    BY <1>a, <1>1, <1>3, <2>1, <2>2, LinkedEnd DEF l
<1>7. ListInv(free)'
  BY <1>1, <1>5, <1>6 DEF ListInv, Linked
<1>8. PlaceInv(free)'
  <2>1. \A u \in Threads : InFlight(u)' = InFlight(u)
    BY <1>1 DEF InFlight
  <2>2. [u \in Threads |-> InFlight(u)'] = [u \in Threads |-> InFlight(u)]
    BY <2>1
  <2> QED
    BY <1>1, <2>2 DEF PlaceInv
<1> QED
  BY <1>7, <1>8

\* It pushes its list.
LEMMA PushRetiredStep ==
  ASSUME PoolIInv, NEW free \in Seq(Blocks), ListInv(free), PlaceInv(free), PushRetired
  PROVE  \E g \in Seq(Blocks) : ListInv(g)' /\ PlaceInv(g)'
<1> USE DEF NoBlock
<1>0. TypeOK /\ StateInv
  BY DEF PoolIInv
<1>a. retired \in Seq(Blocks)
  BY <1>0 DEF TypeOK
<1>1. /\ wpc = "push" /\ retired # <<>>
      /\ UNCHANGED <<next, pages, pc, owned, seen, chain>>
  BY <1>0 DEF PushRetired, threadVars, StateInv
<1>2. \A u \in Threads : InFlight(u)' = InFlight(u)
  BY <1>1 DEF InFlight
<1>3. CASE freeList # wseen
  <2>1. wpc' = "link" /\ UNCHANGED <<freeList, retired>>
    BY <1>3 DEF PushRetired
  <2>2. ListInv(free)' /\ PlaceInv(free)'
    BY <1>0, <1>1, <1>2, <2>1, QuietStep
  <2> QED
    BY <2>2
<1>4. CASE freeList = wseen
  <2>1. freeList' = Head(retired) /\ retired' = <<>> /\ wpc' = "idle"
    BY <1>4 DEF PushRetired
  <2>2. PICK g : g = retired \o free
    OBVIOUS
  <2> DEFINE F == ToSet(free)
             F1 == ToSet(g)
             R == ToSet(retired)
             C == [u \in Threads |-> ToSet(chain[u])]
             I == [u \in Threads |-> InFlight(u)]
             A == 1 .. pages * PageBlocks
  <2>3. Placed(F, R, C, I, A) /\ IsInjective(free) /\ IsInjective(retired)
    BY DEF PlaceInv
  <2>4. g \in Seq(Blocks) /\ F1 = R \union F /\ IsInjective(g)
    <3>1. R \intersect F = {}
      BY <2>3 DEF Placed, Separate
    <3> QED
      BY <1>a, <2>2, <2>3, <3>1, ConcatElements
  <2>5. Linked(next', g, freeList', 0)
    <3>1. Linked(next, retired, Head(retired), freeList) /\ Linked(next, free, freeList, 0)
      BY <1>1, <1>4 DEF ListInv
    <3>2. Linked(next, retired \o free, Head(retired), 0)
      BY <1>a, <3>1, LinkedConcat
    <3> QED
      BY <1>1, <2>1, <2>2, <3>2
  <2>6. Placed(F1, {}, C, I, A)
    <3> HIDE DEF F, F1, R, C, I, A
    <3> QED
      BY <2>3, <2>4, PlaceGiven
  <2>7. Len(<<>>) = 0 /\ IsInjective(<<>>) /\ ToSet(<<>>) = {}
    BY DEF IsInjective, ToSet
  <2>8. PlaceInv(g)'
    <3>1. IsInjective(g) /\ IsInjective(retired') /\ \A u \in Threads : IsInjective(chain'[u])
      BY <1>1, <2>1, <2>4, <2>7 DEF PlaceInv
    <3>2. [u \in Threads |-> InFlight(u)'] = I
      BY <1>2
    <3>3. Placed(F1, ToSet(retired'), [u \in Threads |-> ToSet(chain'[u])],
                 [u \in Threads |-> InFlight(u)'], 1 .. pages' * PageBlocks)
      BY <1>1, <2>1, <2>6, <2>7, <3>2
    <3> QED
      BY <3>1, <3>3 DEF PlaceInv
  <2>9. ListInv(g)'
    <3>1. Within(next', retired')
      BY <2>1, <2>7 DEF Within
    <3>2. \A u \in Threads :
            /\ pc'[u] \in {"link", "push"} => Within(next', Page(pages'))
            /\ pc'[u] = "push" => Linked(next', Page(pages'), owned'[u], seen'[u])
      BY <1>1 DEF ListInv
    <3> QED
      BY <2>1, <2>5, <3>1, <3>2 DEF ListInv
  <2> QED
    BY <2>4, <2>8, <2>9
<1> QED
  BY <1>3, <1>4

\* Every step keeps the free list, unless it is a pop with a stale successor.
LEMMA FreeStep ==
  ASSUME PoolIInv, [Next]_vars
  PROVE  FreeInv'
<1>1. stale => stale'
  BY DEF Next, Allocating, Allocate, LoadHead, ReadNext, Pop, AcquireFutex, AddPageToPool, LinkPage,
         PushPage, ReleaseFutex, UseBlock, RetireBlock, LinkRetired, PushRetired, vars
<1>2. stale' \in BOOLEAN
  BY ControlStep DEF TypeOK
<1>3. SUFFICES ASSUME stale' = FALSE PROVE \E g \in Seq(Blocks) : ListInv(g)' /\ PlaceInv(g)'
  BY <1>2 DEF FreeInv
<1>4. PICK free \in Seq(Blocks) : ListInv(free) /\ PlaceInv(free)
  BY <1>1, <1>3 DEF PoolIInv, FreeInv
<1>5. ASSUME ListInv(free)' /\ PlaceInv(free)' PROVE \E g \in Seq(Blocks) : ListInv(g)' /\ PlaceInv(g)'
  BY <1>5
<1>6. CASE UNCHANGED vars
  <2>1. UNCHANGED <<freeList, next, pages, chain, retired, pc, owned, seen, wpc, wseen>>
    BY <1>6 DEF vars, threadVars, workerVars
  <2>2. \A u \in Threads :
           /\ InFlight(u)' = InFlight(u)
           /\ pc'[u] \in {"link", "push"} => pc[u] \in {"link", "push"}
           /\ pc'[u] = "push" => pc[u] = "push" /\ owned'[u] = owned[u] /\ seen'[u] = seen[u]
    BY <2>1 DEF InFlight
  <2> QED
    BY <1>4, <1>5, <2>1, <2>2, QuietStep DEF PoolIInv
<1>7. ASSUME NEW t \in Threads,
             Allocate(t) \/ LoadHead(t) \/ ReadNext(t) \/ Pop(t) \/ AcquireFutex(t) \/ ReleaseFutex(t)
      PROVE  \E g \in Seq(Blocks) : ListInv(g)' /\ PlaceInv(g)'
  BY <1>3, <1>4, <1>7, PopSteps
<1>8. ASSUME NEW t \in Threads, AddPageToPool(t)
      PROVE  \E g \in Seq(Blocks) : ListInv(g)' /\ PlaceInv(g)'
  BY <1>4, <1>5, <1>8, AddPageStep
<1>9. ASSUME NEW t \in Threads, LinkPage(t)
      PROVE  \E g \in Seq(Blocks) : ListInv(g)' /\ PlaceInv(g)'
  BY <1>4, <1>5, <1>9, LinkPageStep
<1>10. ASSUME NEW t \in Threads, PushPage(t)
       PROVE  \E g \in Seq(Blocks) : ListInv(g)' /\ PlaceInv(g)'
  BY <1>4, <1>10, PushPageStep
<1>11. ASSUME NEW t \in Threads, UseBlock(t)
       PROVE  \E g \in Seq(Blocks) : ListInv(g)' /\ PlaceInv(g)'
  BY <1>4, <1>5, <1>11, UseBlockStep
<1>12. ASSUME NEW t \in Threads, RetireBlock(t)
       PROVE  \E g \in Seq(Blocks) : ListInv(g)' /\ PlaceInv(g)'
  BY <1>4, <1>5, <1>12, RetireBlockStep
<1>13. CASE LinkRetired
  BY <1>4, <1>5, <1>13, LinkRetiredStep
<1>14. CASE PushRetired
  BY <1>4, <1>14, PushRetiredStep
<1> QED
  BY <1>6, <1>7, <1>8, <1>9, <1>10, <1>11, <1>12, <1>13, <1>14 DEF Next, Allocating

\* The inductive invariant holds in every state of the block pool.
THEOREM PoolInvariant == Spec => []PoolIInv
<1>1. Init => PoolIInv
  <2> SUFFICES ASSUME Init PROVE PoolIInv
    OBVIOUS
  <2> USE DEF NoBlock
  <2>1. TypeOK
    <3>1. /\ 0 \in 0 .. MaxPages /\ 0 \in 0 .. MaxAllocs /\ 0 \in 0 .. MaxFrees
          /\ <<>> \in Seq(Blocks)
      BY PoolAssumption
    <3> HIDE DEF NoBlock
    <3> QED
      BY <3>1 DEF Init, TypeOK
  <2>2. OneMapper /\ StateInv
    BY DEF Init, OneMapper, StateInv
  <2>3. <<>> \in Seq(Blocks) /\ Len(<<>>) = 0 /\ IsInjective(<<>>) /\ ToSet(<<>>) = {}
    BY DEF IsInjective, ToSet
  <2>4. ListInv(<<>>)
    BY <2>3 DEF Init, ListInv, Linked, Within
  <2>5. PlaceInv(<<>>)
    <3>1. [t \in Threads |-> ToSet(chain[t])] = [t \in Threads |-> {}]
      BY <2>3 DEF Init
    <3>2. [t \in Threads |-> InFlight(t)] = [t \in Threads |-> {}]
      BY DEF Init, InFlight
    <3>3. 1 .. pages * PageBlocks = {}
      BY PoolAssumption DEF Init
    <3>4. Placed({}, {}, [t \in Threads |-> {}], [t \in Threads |-> {}], {})
      BY DEF Placed, Separate
    <3>5. IsInjective(retired) /\ \A t \in Threads : IsInjective(chain[t])
      BY <2>3 DEF Init
    <3>6. ToSet(retired) = {}
      BY <2>3 DEF Init
    <3> QED
      BY <2>3, <3>1, <3>2, <3>3, <3>4, <3>5, <3>6 DEF PlaceInv
  <2> QED
    BY <2>1, <2>2, <2>3, <2>4, <2>5 DEF PoolIInv, FreeInv
<1>2. PoolIInv /\ [Next]_vars => PoolIInv'
  BY ControlStep, FreeStep DEF PoolIInv
<1> QED
  BY <1>1, <1>2, PTL DEF Spec

\* Where blocks are, as the properties say it.
LEMMA PoolProperties ==
  ASSUME PoolIInv
  PROVE  PoolInv
<1>1. SUFFICES ASSUME ~ stale PROVE NoneLost /\ Exclusive
  BY DEF PoolIInv, PoolInv, ExclusiveUnlessStale, NoneLost
<1>2. PICK free \in Seq(Blocks) : ListInv(free) /\ PlaceInv(free)
  BY <1>1 DEF PoolIInv, FreeInv
<1>3. /\ FreeBlocks = ToSet(free)
      /\ FreeBlocks = {} \/ \E b \in FreeBlocks : next[b] = NoBlock
  <2>1. /\ NoBlock \notin Blocks /\ next \in [Blocks -> Blocks \union {NoBlock}]
        /\ freeList \in Blocks \union {NoBlock}
    BY DEF PoolIInv, TypeOK, Blocks, NoBlock
  <2>2. Linked(next, free, freeList, NoBlock)
    BY <1>2 DEF ListInv
  <2> QED
    BY <2>1, <2>2, LinkedReach DEF FreeBlocks
<1> DEFINE F == ToSet(free)
           R == ToSet(retired)
           C == [t \in Threads |-> ToSet(chain[t])]
           I == [t \in Threads |-> InFlight(t)]
<1>4. /\ \A t \in Threads : IsInjective(chain[t])
      /\ Separate(F, R, C, I) /\ 1 .. pages * PageBlocks = F \union R \union UNION {C[t] \union I[t] : t \in Threads}
  BY <1>2 DEF PlaceInv, Placed
<1>5. NoneLost
  <2>1. {C[t] \union I[t] : t \in Threads} = {ToSet(chain[t]) \union InFlight(t) : t \in Threads}
    OBVIOUS
  <2> QED
    BY <1>3, <1>4, <2>1 DEF NoneLost
<1>6. Exclusive
  <2>1. \A b \in F : b \notin R
    BY <1>4 DEF Separate
  <2>2. ASSUME NEW t \in Threads
        PROVE  /\ \A b \in ToSet(chain[t]) : b \notin F /\ b \notin R /\ b \notin InFlight(t)
               /\ \A b \in InFlight(t) : b \notin F /\ b \notin R
               /\ \A u \in Threads : u # t =>
                    /\ \A b \in ToSet(chain[t]) : b \notin ToSet(chain[u]) /\ b \notin InFlight(u)
                    /\ \A b \in InFlight(t) : b \notin ToSet(chain[u]) /\ b \notin InFlight(u)
    BY <1>4 DEF Separate
  <2> HIDE DEF F, R
  <2> QED
    BY <1>3, <1>4, <2>1, <2>2 DEF Exclusive, F, R
<1> QED
  BY <1>5, <1>6

\* Up to the first pop with a stale successor, the free list ends and every mapped block is
\* in just one place: free, retired, in a thread's chain or in flight; and at all times one
\* thread maps memory.
THEOREM EachBlockInOnePlace == Spec => []PoolInv
<1>1. PoolIInv => PoolInv
  BY PoolProperties
<1> QED
  BY <1>1, PoolInvariant, PTL

(***************************************************************************)
(* The pool as a set of free blocks.                                       *)
(***************************************************************************)
Mapped   == 1 .. pages * PageBlocks
PoolStep == [AsPool!Next]_<<Asking, Hands, chain, Given, FreeBlocks, stale>>

\* Each block is in one place, and those in no other are free.
OnePlace ==
  /\ \A b : b \in FreeBlocks <=>
       /\ b \in Mapped /\ b \notin ToSet(retired)
       /\ \A t \in Threads : b \notin ToSet(chain[t]) /\ b \notin InFlight(t)
  /\ \A b \in ToSet(retired) : b \in Mapped
  /\ \A t \in Threads : \A b \in ToSet(chain[t]) :
       /\ b \in Mapped /\ b \notin ToSet(retired)
       /\ \A u \in Threads : b \notin InFlight(u) /\ (u # t => b \notin ToSet(chain[u]))
  /\ \A t \in Threads : \A b \in InFlight(t) :
       /\ b \in Mapped /\ b \notin ToSet(retired)
       /\ \A u \in Threads : u # t => b \notin InFlight(u)

PlacesInv == TypeOK /\ StateInv /\ (stale \/ OnePlace)

\* Where blocks are, in that form, from what is lost and what is exclusive.
LEMMA PoolPlaces == PoolIInv => PlacesInv
<1> SUFFICES ASSUME PoolIInv PROVE PlacesInv
  OBVIOUS
<1>1. TypeOK /\ StateInv
  BY DEF PoolIInv
<1>2. SUFFICES ASSUME ~ stale PROVE OnePlace
  BY <1>1 DEF PlacesInv
<1>3. NoneLost /\ Exclusive
  BY <1>2, PoolProperties DEF PoolInv, ExclusiveUnlessStale
<1>4. Mapped = FreeBlocks \union ToSet(retired)
                 \union UNION {ToSet(chain[t]) \union InFlight(t) : t \in Threads}
  BY <1>2, <1>3 DEF NoneLost, Mapped
<1>5. \A t \in Threads :
        /\ ToSet(chain[t]) \intersect InFlight(t) = {}
        /\ (ToSet(chain[t]) \union InFlight(t)) \intersect FreeBlocks = {}
        /\ (ToSet(chain[t]) \union InFlight(t)) \intersect ToSet(retired) = {}
        /\ \A u \in Threads \ {t} :
             (ToSet(chain[t]) \union InFlight(t)) \intersect (ToSet(chain[u]) \union InFlight(u)) = {}
  BY <1>3 DEF Exclusive
<1>6. ToSet(retired) \intersect FreeBlocks = {}
  BY <1>3 DEF Exclusive
<1>7. \A b : b \in FreeBlocks <=>
        /\ b \in Mapped /\ b \notin ToSet(retired)
        /\ \A t \in Threads : b \notin ToSet(chain[t]) /\ b \notin InFlight(t)
  BY <1>4, <1>5, <1>6
<1>8. \A b \in ToSet(retired) : b \in Mapped
  BY <1>4
<1>9. ASSUME NEW t \in Threads, NEW b \in ToSet(chain[t])
      PROVE  /\ b \in Mapped /\ b \notin ToSet(retired)
             /\ \A u \in Threads : b \notin InFlight(u) /\ (u # t => b \notin ToSet(chain[u]))
  BY <1>4, <1>5
<1>10. ASSUME NEW t \in Threads, NEW b \in InFlight(t)
       PROVE  /\ b \in Mapped /\ b \notin ToSet(retired)
              /\ \A u \in Threads : u # t => b \notin InFlight(u)
  BY <1>4, <1>5
<1> QED
  BY <1>7, <1>8, <1>9, <1>10 DEF OnePlace

\* A step that moves no block, of a thread that asked before and asks after it.
LEMMA NoBlockMoves ==
  ASSUME OnePlace, OnePlace', UNCHANGED <<pages, chain, retired, stale>>,
         \A u \in Threads : InFlight(u)' = InFlight(u) /\ (pc'[u] # "idle" <=> pc[u] # "idle")
  PROVE  PoolStep
<1>1. Mapped' = Mapped
  BY DEF Mapped
<1>2. \A b : b \in FreeBlocks' <=> b \in FreeBlocks
  BY <1>1 DEF OnePlace
<1>3. FreeBlocks' = FreeBlocks
  BY <1>2
<1>4. Asking' = Asking /\ Hands' = Hands
  BY DEF Asking, Hands
<1> QED
  BY <1>3, <1>4 DEF PoolStep, Given

\* What a step of one thread does to what the threads have in hand.
LEMMA OneHand ==
  ASSUME NEW t \in Threads, \A u \in Threads : u # t => pc'[u] = pc[u] /\ owned'[u] = owned[u]
  PROVE  /\ \A u \in Threads : u # t => InFlight(u)' = InFlight(u)
         /\ Hands' = [Hands EXCEPT ![t] = InFlight(t)'] /\ Hands[t] = InFlight(t)
         /\ (pc[t] # "idle" /\ pc'[t] # "idle") => Asking' = Asking /\ t \in Asking
<1>1. \A u \in Threads : u # t => InFlight(u)' = InFlight(u)
  BY DEF InFlight
<1>2. Hands' = [Hands EXCEPT ![t] = InFlight(t)'] /\ Hands[t] = InFlight(t)
  BY <1>1 DEF Hands
<1>3. (pc[t] # "idle" /\ pc'[t] # "idle") => Asking' = Asking /\ t \in Asking
  BY DEF Asking
<1> QED
  BY <1>1, <1>2, <1>3

LEMMA AllocateMoves ==
  ASSUME TypeOK, OnePlace, OnePlace', ~stale, NEW t \in Threads, Allocate(t)
  PROVE  PoolStep
<1>1. /\ pc[t] = "idle" /\ pc'[t] = "load" /\ UNCHANGED <<pages, chain, retired, stale, owned>>
      /\ \A u \in Threads : u # t => pc'[u] = pc[u]
  BY DEF Allocate, workerVars, TypeOK
<1>2. \A u \in Threads : InFlight(u)' = InFlight(u)
  <2>1. InFlight(t) = {} /\ InFlight(t)' = {}
    BY <1>1 DEF InFlight
  <2> QED
    BY <1>1, <2>1, OneHand
<1>3. Hands' = Hands
  BY <1>2 DEF Hands
<1>4. FreeBlocks' = FreeBlocks
  <2>1. Mapped' = Mapped
    BY <1>1 DEF Mapped
  <2>2. \A b : b \in FreeBlocks' <=> b \in FreeBlocks
    BY <1>1, <1>2, <2>1 DEF OnePlace
  <2> QED
    BY <2>2
<1>5. t \notin Asking /\ Asking' = Asking \union {t}
  BY <1>1 DEF Asking
<1>6. AsPool!Ask(t)
  BY <1>1, <1>3, <1>4, <1>5 DEF AsPool!Ask, Given
<1> QED
  BY <1>1, <1>6 DEF PoolStep, AsPool!Next

\* The compare-exchange of a pop takes the block.
LEMMA PopMoves ==
  ASSUME TypeOK, StateInv, OnePlace, OnePlace', ~stale, ~stale', NEW t \in Threads, Pop(t)
  PROVE  PoolStep
<1>1. /\ pc[t] = "pop" /\ UNCHANGED <<next, pages, chain, retired, owned>>
      /\ \A u \in Threads : u # t => pc'[u] = pc[u]
      /\ owned[t] # NoBlock /\ stale' = stale
  BY DEF Pop, workerVars, TypeOK, StateInv
<1>2. CASE freeList # owned[t]
  <2>1. pc'[t] = "load"
    BY <1>2 DEF Pop, TypeOK
  <2>2. InFlight(t) = {} /\ InFlight(t)' = {}
    BY <1>1, <2>1 DEF InFlight
  <2> QED
    BY <1>1, <2>1, <2>2, OneHand, NoBlockMoves
<1>3. CASE freeList = owned[t]
  <2> DEFINE o == owned[t]
  <2>1. pc'[t] = "use"
    BY <1>3 DEF Pop, TypeOK
  <2>2. InFlight(t) = {} /\ InFlight(t)' = {o}
    BY <1>1, <2>1 DEF InFlight
  <2>3. o \in FreeBlocks
    <3>1. /\ NoBlock \notin Blocks /\ next \in [Blocks -> Blocks \union {NoBlock}]
          /\ freeList \in Blocks \union {NoBlock}
      BY DEF TypeOK, Blocks, NoBlock
    <3>2. freeList # NoBlock => freeList \in Reach(next, freeList)
      BY <3>1, ReachFacts
    <3> QED
      BY <1>1, <1>3, <3>2 DEF FreeBlocks
  <2>4. /\ \A u \in Threads : u # t => InFlight(u)' = InFlight(u)
        /\ Hands' = [Hands EXCEPT ![t] = {o}] /\ Hands[t] = {}
        /\ Asking' = Asking /\ t \in Asking
    BY <1>1, <2>1, <2>2, OneHand
  <2>5. FreeBlocks' = FreeBlocks \ {o}
    <3>1. Mapped' = Mapped
      BY <1>1 DEF Mapped
    <3>2. \A b : b \in FreeBlocks' <=> b \in FreeBlocks /\ b # o
      BY <1>1, <2>2, <2>4, <3>1 DEF OnePlace
    <3> QED
      BY <3>2
  <2>6. AsPool!Take(t)
    BY <1>1, <2>3, <2>4, <2>5 DEF AsPool!Take, Given
  <2> QED
    BY <1>1, <2>6 DEF PoolStep, AsPool!Next
<1> QED
  BY <1>2, <1>3

\* A page is new.
LEMMA AddPageMoves ==
  ASSUME TypeOK, OnePlace, OnePlace', ~stale, NEW t \in Threads, AddPageToPool(t)
  PROVE  PoolStep
<1>1. /\ pc[t] = "map" /\ pages < MaxPages /\ pages' = pages + 1
      /\ pc'[t] = "link" /\ owned'[t] = PageHead(pages + 1)
      /\ \A u \in Threads : u # t => pc'[u] = pc[u] /\ owned'[u] = owned[u]
      /\ UNCHANGED <<chain, retired, stale>>
  BY DEF AddPageToPool, workerVars, TypeOK
<1>2. /\ pages \in Nat /\ PageOf(PageHead(pages + 1)) = pages + 1
      /\ PageHead(pages + 1) = pages * PageBlocks + 1
      /\ PageTail(pages + 1) = pages * PageBlocks + PageBlocks
      /\ pages * PageBlocks \in Nat /\ PageBlocks \in Nat \ {0}
  <2>1. pages \in Nat
    BY PoolAssumption DEF TypeOK
  <2> QED
    BY <2>1, PageFacts
<1> DEFINE P == PageHead(pages + 1) .. PageTail(pages + 1)
<1>3. InFlight(t) = {} /\ InFlight(t)' = P
  BY <1>1, <1>2 DEF InFlight
<1>4. /\ \A u \in Threads : u # t => InFlight(u)' = InFlight(u)
      /\ Hands' = [Hands EXCEPT ![t] = P] /\ Hands[t] = {}
      /\ Asking' = Asking /\ t \in Asking
  BY <1>1, <1>3, OneHand
<1>5. P # {} /\ \A b \in P : b \notin Mapped
  BY <1>2 DEF Mapped
<1>6. Mapped' = Mapped \union P
  <2>1. (pages + 1) * PageBlocks = pages * PageBlocks + PageBlocks
    BY <1>2
  <2>2. Mapped' = 1 .. pages * PageBlocks + PageBlocks
    BY <1>1, <2>1 DEF Mapped
  <2>3. P = pages * PageBlocks + 1 .. pages * PageBlocks + PageBlocks
    BY <1>2
  <2>4. \A k, m \in Nat : 1 .. k + m = (1 .. k) \union (k + 1 .. k + m)
    OBVIOUS
  <2> QED
    BY <1>2, <2>2, <2>3, <2>4 DEF Mapped
<1> HIDE DEF P
<1>7. FreeBlocks' = FreeBlocks
  <2>1. \A b : b \in FreeBlocks' <=> b \in FreeBlocks
    BY <1>1, <1>3, <1>4, <1>5, <1>6 DEF OnePlace
  <2> QED
    BY <2>1
<1>8. P \intersect AsPool!Known = {}
  <2>1. /\ \A b \in FreeBlocks \union ToSet(retired) : b \in Mapped
        /\ \A u \in Threads : \A b \in ToSet(chain[u]) \union InFlight(u) : b \in Mapped
    BY DEF OnePlace
  <2>2. \A u \in Threads : Hands[u] = InFlight(u)
    BY DEF Hands
  <2>3. AsPool!Known = FreeBlocks \union Given \union UNION {Hands[u] \union ToSet(chain[u]) : u \in Threads}
    BY DEF AsPool!Known, AsPool!ToSet, ToSet
  <2>4. \A b \in UNION {Hands[u] \union ToSet(chain[u]) : u \in Threads} :
          \E u \in Threads : b \in ToSet(chain[u]) \union InFlight(u)
    BY <2>2
  <2> QED
    BY <1>5, <2>1, <2>3, <2>4 DEF Given
<1>9. AsPool!Add(t)
  <2>1. Hands'[t] = P
    BY <1>3 DEF Hands
  <2>2. Hands' = [Hands EXCEPT ![t] = Hands'[t]]
    BY <1>4, <2>1
  <2>3. UNCHANGED <<Asking, chain, Given, FreeBlocks>>
    BY <1>1, <1>4, <1>7 DEF Given
  <2> QED
    BY <1>4, <1>5, <1>8, <2>1, <2>2, <2>3 DEF AsPool!Add
<1> QED
  BY <1>1, <1>9 DEF PoolStep, AsPool!Next

\* The compare-exchange that pushes a page shares all of its blocks but one.
LEMMA PushPageMoves ==
  ASSUME TypeOK, StateInv, OnePlace, OnePlace', ~stale, NEW t \in Threads, PushPage(t)
  PROVE  PoolStep
<1> DEFINE o == owned[t]
<1>1. /\ pc[t] = "push" /\ UNCHANGED <<pages, chain, retired, owned, stale>>
      /\ \A u \in Threads : u # t => pc'[u] = pc[u]
      /\ o \in InFlight(t)
  BY PageBeingAdded DEF PushPage, workerVars, TypeOK
<1>2. CASE freeList # seen[t]
  <2>1. pc'[t] = "link"
    BY <1>2 DEF PushPage, TypeOK
  <2>2. InFlight(t)' = InFlight(t)
    BY <1>1, <2>1 DEF InFlight
  <2> QED
    BY <1>1, <2>1, <2>2, OneHand, NoBlockMoves
<1>3. CASE freeList = seen[t]
  <2>1. pc'[t] = "unlock"
    BY <1>3 DEF PushPage, TypeOK
  <2>2. InFlight(t)' = {o}
    BY <1>1, <2>1 DEF InFlight
  <2>3. /\ \A u \in Threads : u # t => InFlight(u)' = InFlight(u)
        /\ Hands' = [Hands EXCEPT ![t] = {o}] /\ Hands[t] = InFlight(t)
        /\ Asking' = Asking
    BY <1>1, <2>1, <2>2, OneHand
  <2>4. FreeBlocks' = FreeBlocks \union (InFlight(t) \ {o})
    <3>1. Mapped' = Mapped
      BY <1>1 DEF Mapped
    <3>2. \A b : b \in FreeBlocks' <=> b \in FreeBlocks \/ (b \in InFlight(t) /\ b # o)
      BY <1>1, <2>2, <2>3, <3>1 DEF OnePlace
    <3> QED
      BY <3>2
  <2>5. AsPool!Share(t)
    BY <1>1, <2>3, <2>4 DEF AsPool!Share, Given
  <2> QED
    BY <1>1, <2>5 DEF PoolStep, AsPool!Next
<1> QED
  BY <1>2, <1>3

\* A thread appends to its chain the one block that it has in hand.
LEMMA UseBlockMoves ==
  ASSUME TypeOK, StateInv, OnePlace, OnePlace', ~stale, NEW t \in Threads, UseBlock(t)
  PROVE  PoolStep
<1> DEFINE o == owned[t]
<1>1. /\ pc[t] = "use" /\ pc'[t] = "idle" /\ UNCHANGED <<pages, retired, stale>>
      /\ chain' = [chain EXCEPT ![t] = Append(@, o)] /\ chain \in [Threads -> Seq(Blocks)]
      /\ \A u \in Threads : u # t => pc'[u] = pc[u] /\ owned'[u] = owned[u]
      /\ o \in Blocks
  BY DEF UseBlock, workerVars, TypeOK, StateInv
<1>2. InFlight(t) = {o} /\ InFlight(t)' = {}
  BY <1>1 DEF InFlight
<1>3. /\ \A u \in Threads : u # t => InFlight(u)' = InFlight(u)
      /\ Hands' = [Hands EXCEPT ![t] = {}] /\ Hands[t] = {o}
  BY <1>1, <1>2, OneHand
<1>4. t \in Asking /\ Asking' = Asking \ {t}
  BY <1>1 DEF Asking
<1>5. ToSet(chain'[t]) = ToSet(chain[t]) \union {o}
  <2>1. chain[t] \in Seq(Blocks) /\ chain'[t] = Append(chain[t], o)
    BY <1>1
  <2> HIDE DEF o
  <2>2. chain'[t] = chain[t] \o <<o>>
    BY <1>1, <2>1
  <2>3. <<o>> \in Seq(Blocks)
    BY <1>1, OneElement
  <2>4. ToSet(<<o>>) = {o}
    BY <1>1, OneElement
  <2>5. chain[t] \in Seq(Blocks)
    BY <2>1
  <2>6. ToSet(chain[t] \o <<o>>) = ToSet(chain[t]) \union ToSet(<<o>>)
    BY <2>3, <2>5, ConcatElements
  <2> QED
    BY <2>2, <2>4, <2>6
<1>6. \A u \in Threads : u # t => chain'[u] = chain[u]
  BY <1>1
<1> HIDE DEF o
<1>7. FreeBlocks' = FreeBlocks
  <2>1. Mapped' = Mapped
    BY <1>1 DEF Mapped
  <2>2. \A u \in Threads : ToSet(chain'[u]) \union InFlight(u)' = ToSet(chain[u]) \union InFlight(u)
    BY <1>2, <1>3, <1>5, <1>6
  <2>3. \A b : b \in FreeBlocks <=>
          /\ b \in Mapped /\ b \notin ToSet(retired)
          /\ \A u \in Threads : b \notin ToSet(chain[u]) \union InFlight(u)
    BY DEF OnePlace
  <2>4. \A b : b \in FreeBlocks' <=>
          /\ b \in Mapped' /\ b \notin ToSet(retired')
          /\ \A u \in Threads : b \notin ToSet(chain'[u]) \union InFlight(u)'
    BY DEF OnePlace
  <2>5. \A b : b \in FreeBlocks' <=> b \in FreeBlocks
    BY <1>1, <2>1, <2>2, <2>3, <2>4
  <2> QED
    BY <2>5
<1>8. AsPool!Use(t)
  BY <1>1, <1>3, <1>4, <1>7 DEF AsPool!Use, Given
<1> QED
  BY <1>1, <1>8 DEF PoolStep, AsPool!Next

\* The worker takes the oldest block of a chain.
LEMMA RetireBlockMoves ==
  ASSUME TypeOK, OnePlace, OnePlace', ~stale, NEW t \in Threads, RetireBlock(t)
  PROVE  PoolStep
<1> DEFINE h == Head(chain[t])
<1>1. /\ UNCHANGED <<pages, pc, owned, stale>> /\ chain \in [Threads -> Seq(Blocks)]
      /\ chain' = [chain EXCEPT ![t] = Tail(@)] /\ retired' = <<h>> \o retired
      /\ chain[t] \in Seq(Blocks) /\ Len(chain[t]) > 1 /\ retired \in Seq(Blocks)
  BY DEF RetireBlock, TypeOK
<1>2. chain[t] # <<>>
  BY <1>1
<1>3. h \in Blocks /\ ToSet(chain[t]) = {h} \union ToSet(chain'[t])
  BY <1>1, <1>2, TailElements
<1>4. \A u \in Threads : u # t => chain'[u] = chain[u]
  BY <1>1
<1>5. Given' = Given \union {h}
  <2>1. <<h>> \in Seq(Blocks) /\ ToSet(<<h>>) = {h}
    BY <1>3, OneElement
  <2> HIDE DEF h
  <2>2. ToSet(<<h>> \o retired) = ToSet(<<h>>) \union ToSet(retired)
    BY <1>1, <2>1, ConcatElements
  <2> QED
    BY <1>1, <2>1, <2>2 DEF Given
<1>6. /\ \A u \in Threads : InFlight(u)' = InFlight(u)
      /\ Hands' = Hands /\ Asking' = Asking
  <2>1. \A u \in Threads : InFlight(u)' = InFlight(u)
    BY <1>1 DEF InFlight
  <2> QED
    BY <1>1, <2>1 DEF Hands, Asking
<1> HIDE DEF h
<1>7. FreeBlocks' = FreeBlocks
  <2>1. Mapped' = Mapped
    BY <1>1 DEF Mapped
  <2>2. \A b : b \in FreeBlocks' <=> b \in FreeBlocks
    BY <1>3, <1>4, <1>5, <1>6, <2>1 DEF OnePlace, Given
  <2> QED
    BY <2>2
<1>8. AsPool!Retire(t)
  BY <1>1, <1>5, <1>6, <1>7 DEF AsPool!Retire, h
<1> QED
  BY <1>1, <1>8 DEF PoolStep, AsPool!Next

\* The compare-exchange that pushes what was retired gives all of it back.
LEMMA PushRetiredMoves ==
  ASSUME TypeOK, StateInv, OnePlace, OnePlace', ~stale, PushRetired
  PROVE  PoolStep
<1>1. /\ retired # <<>> /\ retired \in Seq(Blocks)
      /\ UNCHANGED <<pages, pc, owned, chain, stale>>
  BY DEF PushRetired, threadVars, StateInv, TypeOK
<1>2. /\ \A u \in Threads : InFlight(u)' = InFlight(u)
      /\ Hands' = Hands /\ Asking' = Asking
  <2>1. \A u \in Threads : InFlight(u)' = InFlight(u)
    BY <1>1 DEF InFlight
  <2> QED
    BY <1>1, <2>1 DEF Hands, Asking
<1>3. CASE freeList # wseen
  <2>1. retired' = retired
    BY <1>3 DEF PushRetired
  <2> QED
    BY <1>1, <1>2, <2>1, NoBlockMoves
<1>4. CASE freeList = wseen
  <2>1. retired' = <<>>
    BY <1>4 DEF PushRetired
  <2>2. Given' = {} /\ Given # {}
    <3>1. ToSet(<<>>) = {}
      BY DEF ToSet
    <3>2. Head(retired) \in ToSet(retired)
      BY <1>1, TailElements
    <3> QED
      BY <2>1, <3>1, <3>2 DEF Given
  <2>3. FreeBlocks' = FreeBlocks \union Given
    <3>1. Mapped' = Mapped
      BY <1>1 DEF Mapped
    <3>2. \A b : b \in FreeBlocks' <=> b \in FreeBlocks \/ b \in Given
      BY <1>1, <1>2, <2>2, <3>1 DEF OnePlace, Given
    <3> QED
      BY <3>2
  <2>4. AsPool!GiveBack
    BY <1>1, <1>2, <2>2, <2>3 DEF AsPool!GiveBack
  <2> QED
    BY <1>1, <2>4 DEF PoolStep, AsPool!Next
<1> QED
  BY <1>3, <1>4

\* Every other step of an allocation moves no block.
LEMMA QuietMoves ==
  ASSUME TypeOK, OnePlace, OnePlace', NEW t \in Threads,
         LoadHead(t) \/ ReadNext(t) \/ AcquireFutex(t) \/ LinkPage(t) \/ ReleaseFutex(t)
  PROVE  PoolStep
<1>1. UNCHANGED <<pages, chain, retired, stale>>
  BY DEF LoadHead, ReadNext, AcquireFutex, LinkPage, ReleaseFutex, workerVars
<1>2. /\ pc[t] # "idle" /\ pc'[t] # "idle" /\ InFlight(t)' = InFlight(t)
      /\ \A u \in Threads : u # t => pc'[u] = pc[u] /\ owned'[u] = owned[u]
  <2>1. CASE LoadHead(t)
    BY <2>1 DEF LoadHead, TypeOK, InFlight
  <2>2. CASE ReadNext(t)
    BY <2>2 DEF ReadNext, TypeOK, InFlight
  <2>3. CASE AcquireFutex(t)
    BY <2>3 DEF AcquireFutex, TypeOK, InFlight
  <2>4. CASE LinkPage(t)
    BY <2>4 DEF LinkPage, TypeOK, InFlight
  <2>5. CASE ReleaseFutex(t)
    BY <2>5 DEF ReleaseFutex, TypeOK, InFlight
  <2> QED
    BY <2>1, <2>2, <2>3, <2>4, <2>5
<1>3. \A u \in Threads : u # t => InFlight(u)' = InFlight(u)
  BY <1>2, OneHand
<1> QED
  BY <1>1, <1>2, <1>3, NoBlockMoves

\* Every step of the pool is one of the set of free blocks, or none.
LEMMA MovesRefine ==
  ASSUME PlacesInv, PlacesInv', [Next]_vars
  PROVE  PoolStep
<1>1. stale => stale'
  BY DEF Next, Allocating, Allocate, LoadHead, ReadNext, Pop, AcquireFutex, AddPageToPool, LinkPage,
         PushPage, ReleaseFutex, UseBlock, RetireBlock, LinkRetired, PushRetired, vars
<1>2. CASE stale'
  BY <1>2 DEF PoolStep, AsPool!Next
<1>3. CASE ~stale'
  <2>1. TypeOK /\ StateInv /\ OnePlace /\ OnePlace' /\ ~stale
    BY <1>1, <1>3 DEF PlacesInv
  <2>2. CASE UNCHANGED vars
    <3>1. UNCHANGED <<pages, chain, retired, stale, pc, owned>>
      BY <2>2 DEF vars, threadVars, workerVars
    <3>2. \A u \in Threads : InFlight(u)' = InFlight(u)
      BY <3>1 DEF InFlight
    <3> QED
      BY <2>1, <3>1, <3>2, NoBlockMoves
  <2>3. ASSUME NEW t \in Threads, Allocate(t) \/ Allocating(t) \/ RetireBlock(t) PROVE PoolStep
    BY <1>3, <2>1, <2>3, AllocateMoves, PopMoves, AddPageMoves, PushPageMoves, UseBlockMoves,
       RetireBlockMoves, QuietMoves DEF Allocating
  <2>4. CASE LinkRetired
    <3>1. UNCHANGED <<pages, chain, retired, stale, pc, owned>>
      BY <2>4 DEF LinkRetired, threadVars
    <3>2. \A u \in Threads : InFlight(u)' = InFlight(u)
      BY <3>1 DEF InFlight
    <3> QED
      BY <2>1, <3>1, <3>2, NoBlockMoves
  <2>5. CASE PushRetired
    BY <2>1, <2>5, PushRetiredMoves
  <2> QED
    BY <2>2, <2>3, <2>4, <2>5 DEF Next
<1> QED
  BY <1>2, <1>3

\* Up to the first pop with a stale successor, the lock-free list is a set of free blocks:
\* whatever pops, pushes and new pages race, each compare-exchange moves at once the blocks
\* that the caller is told of, and no other step moves one.
THEOREM PoolImplementsSet == Spec => ImplementsPool
<1>1. Init => AsPool!Init
  <2> SUFFICES ASSUME Init PROVE AsPool!Init
    OBVIOUS
  <2>1. Asking = {} /\ Hands = [t \in Threads |-> {}] /\ Given = {}
    BY DEF Init, Asking, Hands, InFlight, Given, ToSet
  <2>2. FreeBlocks = {}
    <3>1. /\ NoBlock \notin Blocks /\ next \in [Blocks -> Blocks \union {NoBlock}]
          /\ freeList = NoBlock
      BY DEF Init, Blocks, NoBlock
    <3> QED
      BY <3>1, ReachFacts DEF FreeBlocks
  <2> QED
    BY <2>1, <2>2 DEF Init, AsPool!Init
<1>2. PlacesInv /\ PlacesInv' /\ [Next]_vars => PoolStep
  BY MovesRefine
<1>3. PoolIInv => PlacesInv
  BY PoolPlaces
<1> QED
  BY <1>1, <1>2, <1>3, PoolInvariant, PTL DEF Spec, ImplementsPool, AsPool!Spec, AsPool!poolVars, PoolStep
==============================================================================
