----------------------------- MODULE LinkProofs -----------------------------
(***************************************************************************)
(* What walks along the links of a list meet, for any nodes and links: the *)
(* facts that the proofs about channels, events and free blocks rest on.   *)
(* And the least number of a set, for what a loop finds first.             *)
(***************************************************************************)
EXTENDS Links, Naturals, WellFoundedInduction, TLAPS

\* A walk meets where it begins and whatever follows what it meets; from the null pointer
\* it meets nothing.
LEMMA ReachFacts ==
  ASSUME NEW N, NEW null, null \notin N, NEW f \in [N -> N \union {null}], NEW p \in N \union {null}
  PROVE  /\ Reach(f, p) \subseteq N
         /\ p # null => p \in Reach(f, p)
         /\ p = null => Reach(f, p) = {}
         /\ \A d \in Reach(f, p) : f[d] = null \/ f[d] \in Reach(f, p)
<1>1. DOMAIN f = N /\ \A d \in N : f[d] \in N <=> f[d] # null
  OBVIOUS
<1>2. Reach(f, p) \subseteq N /\ (p # null => p \in Reach(f, p))
  BY <1>1 DEF Reach, Closed
<1>3. p = null => Reach(f, p) = {}
  <2>1. p = null => {} \in Closed(f, p)
    BY <1>1 DEF Closed
  <2> QED
    BY <1>1, <2>1 DEF Reach
<1>4. ASSUME NEW d \in Reach(f, p), f[d] # null PROVE f[d] \in Reach(f, p)
  <2>1. d \in N /\ f[d] \in N
    BY <1>1, <1>2, <1>4
  <2>2. ASSUME NEW S \in SUBSET N, p \in N => p \in S, \A e \in S : f[e] \in N => f[e] \in S
        PROVE  f[d] \in S
    <3>1. d \in S
      BY <1>1, <2>2 DEF Reach, Closed
    <3> QED
      BY <2>1, <2>2, <3>1
  <2> QED
    BY <1>1, <2>1, <2>2 DEF Reach, Closed
<1> QED
  BY <1>2, <1>3, <1>4

\* It meets no more than any set that links do not leave.
LEMMA ReachLeast ==
  ASSUME NEW N, NEW null, null \notin N, NEW f \in [N -> N \union {null}], NEW p \in N \union {null},
         NEW S \in SUBSET N, p = null \/ p \in S, \A d \in S : f[d] = null \/ f[d] \in S
  PROVE  Reach(f, p) \subseteq S
<1>1. DOMAIN f = N /\ (p \in N => p \in S) /\ \A d \in S : f[d] \in N => f[d] \in S
  OBVIOUS
<1> QED
  BY <1>1 DEF Reach, Closed

\* A walk meets where it begins, and then what a walk from the next node meets.
LEMMA ReachStep ==
  ASSUME NEW N, NEW null, null \notin N, NEW f \in [N -> N \union {null}], NEW p \in N
  PROVE  Reach(f, p) = {p} \union Reach(f, f[p])
<1>1. f[p] \in N \union {null}
  OBVIOUS
<1> DEFINE both == {p} \union Reach(f, f[p])
<1>2. /\ both \in SUBSET N /\ p \in both
      /\ \A d \in both : f[d] = null \/ f[d] \in both
  BY <1>1, ReachFacts
<1>3. Reach(f, p) \subseteq both
  <2> HIDE DEF both
  <2> QED
    BY <1>2, ReachLeast
<1>4. Reach(f, f[p]) \subseteq Reach(f, p)
  <2>1. Reach(f, p) \in SUBSET N /\ p \in Reach(f, p)
        /\ \A d \in Reach(f, p) : f[d] = null \/ f[d] \in Reach(f, p)
    BY ReachFacts
  <2> QED
    BY <1>1, <2>1, ReachLeast
<1> QED
  BY <1>3, <1>4, ReachFacts

\* A walk from a node that a walk meets meets no other nodes.
LEMMA ReachInside ==
  ASSUME NEW N, NEW null, null \notin N, NEW f \in [N -> N \union {null}], NEW p \in N \union {null},
         NEW q \in Reach(f, p)
  PROVE  Reach(f, q) \subseteq Reach(f, p)
<1>1. /\ Reach(f, p) \in SUBSET N /\ q \in N \union {null}
      /\ \A d \in Reach(f, p) : f[d] = null \/ f[d] \in Reach(f, p)
  BY ReachFacts
<1> QED
  BY <1>1, ReachLeast

\* Links that a walk does not meet do not matter to it.
LEMMA ReachAgree ==
  ASSUME NEW N, NEW null, null \notin N, NEW f \in [N -> N \union {null}],
         NEW g \in [N -> N \union {null}], NEW p \in N \union {null},
         \A d \in Reach(f, p) : g[d] = f[d]
  PROVE  Reach(g, p) = Reach(f, p)
<1>1. /\ Reach(f, p) \in SUBSET N /\ Reach(g, p) \in SUBSET N
      /\ p # null => p \in Reach(f, p) /\ p \in Reach(g, p)
      /\ \A d \in Reach(f, p) : f[d] = null \/ f[d] \in Reach(f, p)
      /\ \A d \in Reach(g, p) : g[d] = null \/ g[d] \in Reach(g, p)
  BY ReachFacts
<1>2. Reach(g, p) \subseteq Reach(f, p)
  BY <1>1, ReachLeast
<1>3. \A d \in Reach(g, p) : f[d] = null \/ f[d] \in Reach(g, p)
  BY <1>1, <1>2
<1>4. Reach(f, p) \subseteq Reach(g, p)
  BY <1>1, <1>3, ReachLeast
<1> QED
  BY <1>2, <1>4

\* When ends of lists are linked to more nodes, a walk meets no fewer.
LEMMA ReachGrows ==
  ASSUME NEW N, NEW null, null \notin N, NEW f \in [N -> N \union {null}],
         NEW g \in [N -> N \union {null}], NEW p \in N \union {null},
         \A d \in N : f[d] = null \/ g[d] = f[d]
  PROVE  Reach(f, p) \subseteq Reach(g, p)
<1>1. /\ Reach(g, p) \in SUBSET N /\ (p # null => p \in Reach(g, p))
      /\ \A d \in Reach(g, p) : g[d] = null \/ g[d] \in Reach(g, p)
  BY ReachFacts
<1>2. \A d \in Reach(g, p) : f[d] = null \/ f[d] \in Reach(g, p)
  BY <1>1
<1> QED
  BY <1>1, <1>2, ReachLeast

\* When the end of a list is linked to another list, walks that met that end meet that list
\* as well, and others meet what they met.
LEMMA ReachAppended ==
  ASSUME NEW N, NEW null, null \notin N, NEW f \in [N -> N \union {null}], NEW l \in N, f[l] = null,
         NEW q \in N \union {null}, l \notin Reach(f, q), NEW p \in N \union {null},
         NEW g \in [N -> N \union {null}], g[l] = q, \A d \in N : d # l => g[d] = f[d]
  PROVE  /\ l \notin Reach(f, p) => Reach(g, p) = Reach(f, p)
         /\ l \in Reach(f, p) => Reach(g, p) = Reach(f, p) \union Reach(f, q)
<1>1. g \in [N -> N \union {null}] /\ g[l] = q /\ \A d \in N : d # l => g[d] = f[d]
  OBVIOUS
<1>2. Reach(f, p) \subseteq N /\ Reach(f, q) \subseteq N
  BY ReachFacts
<1>3. Reach(g, q) = Reach(f, q)
  <2>1. \A d \in Reach(f, q) : g[d] = f[d]
    BY <1>1, <1>2
  <2> QED
    BY <1>1, <2>1, ReachAgree
<1>4. CASE l \notin Reach(f, p)
  <2>1. \A d \in Reach(f, p) : g[d] = f[d]
    BY <1>1, <1>2, <1>4
  <2>2. Reach(g, p) = Reach(f, p)
    BY <1>1, <2>1, ReachAgree
  <2> QED
    BY <1>4, <2>2
<1>5. CASE l \in Reach(f, p)
  <2> DEFINE both == Reach(f, p) \union Reach(f, q)
  <2>1. /\ (p = null \/ p \in Reach(f, p)) /\ (q = null \/ q \in Reach(f, q))
        /\ \A d \in Reach(f, p) : f[d] = null \/ f[d] \in Reach(f, p)
        /\ \A d \in Reach(f, q) : f[d] = null \/ f[d] \in Reach(f, q)
    BY ReachFacts
  <2>3. /\ both \in SUBSET N /\ (p = null \/ p \in both)
        /\ \A d \in both : g[d] = null \/ g[d] \in both
    BY <1>1, <1>2, <2>1
  <2>4. Reach(g, p) \subseteq both
    <3> HIDE DEF both
    <3> QED
      BY <1>1, <2>3, ReachLeast
  <2>5. Reach(f, p) \subseteq Reach(g, p)
    <3>1. \A d \in N : f[d] = null \/ g[d] = f[d]
      BY <1>1
    <3> QED
      BY <1>1, <3>1, ReachGrows
  <2>6. Reach(f, q) \subseteq Reach(g, p)
    <3>1. Reach(g, l) \subseteq Reach(g, p)
      BY <1>1, <1>5, <2>5, ReachInside
    <3>2. Reach(g, l) = {l} \union Reach(g, q)
      BY <1>1, ReachStep
    <3> QED
      BY <1>3, <3>1, <3>2
  <2> QED
    BY <1>5, <2>4, <2>5, <2>6
<1> QED
  BY <1>4, <1>5

\* A set of naturals that is not empty has a least element.
LEMMA Smallest ==
  ASSUME NEW T \in SUBSET Nat, T # {}
  PROVE  \E n \in T : \A m \in T : n <= m
<1>1. PICK less : IsWellFoundedOn(less, Nat) /\ \A x, y \in Nat : x < y => <<x, y>> \in less
  <2>1. \A x, y \in Nat : x < y => <<x, y>> \in OpToRel(<, Nat)
    BY DEF OpToRel
  <2> QED
    BY <2>1, NatLessThanWellFounded
<1>2. IsWellFoundedOn(less, Nat)
  BY <1>1
<1>3. PICK n \in T : \A m \in T : ~ (<<m, n>> \in less)
  BY <1>2, WFMin
<1>4. \A m \in T : ~ (m < n)
  BY <1>1, <1>3
<1> QED
  BY <1>4
==============================================================================
