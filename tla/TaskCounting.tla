---------------------------- MODULE TaskCounting ----------------------------
(***************************************************************************)
(* Counting the tasks of a pool: how often a task occurs in a list, and on *)
(* how many workers it runs, when the list grows at its tail or shrinks at *)
(* its head and when one worker changes what it runs.  The proofs about    *)
(* the pipelines rest on these lemmas.                                     *)
(***************************************************************************)
EXTENDS Integers, Sequences, FiniteSetTheorems, TLAPS

\* The places of t in the list q, and how many there are.
Places(q, t)  == {i \in DOMAIN q : q[i] = t}
CountIn(q, t) == Cardinality(Places(q, t))

\* The workers of ws that r says run t, and how many there are.
Runners(r, ws, t) == {w \in ws : r[w] = t}
CountOn(r, ws, t) == Cardinality(Runners(r, ws, t))

Same(a, b) == IF a = b THEN 1 ELSE 0

-----------------------------------------------------------------------------
\* A list has finitely many places.
LEMMA CountInType ==
  ASSUME NEW S, NEW q \in Seq(S), NEW t
  PROVE  IsFiniteSet(Places(q, t)) /\ CountIn(q, t) \in Nat
  <1>1. IsFiniteSet(DOMAIN q)
    BY FS_Interval
  <1> QED
    BY <1>1, FS_Subset, FS_CardinalityType DEF Places, CountIn

\* An empty list has none.
LEMMA CountInEmpty ==
  ASSUME NEW t
  PROVE  CountIn(<< >>, t) = 0
  <1>1. Places(<< >>, t) = {}
    BY DEF Places
  <1> QED
    BY <1>1, FS_EmptySet DEF CountIn

\* Appending u adds one place of u.
LEMMA CountInAppend ==
  ASSUME NEW S, NEW q \in Seq(S), NEW u \in S, NEW t
  PROVE  CountIn(Append(q, u), t) = CountIn(q, t) + Same(u, t)
  <1> DEFINE n == Len(q) + 1
  <1>1. n \notin Places(q, t)
    BY DEF Places
  <1>2. CASE u = t
    <2>1. Places(Append(q, u), t) = Places(q, t) \cup {n}
      BY <1>2 DEF Places
    <2> QED
      BY <1>1, <1>2, <2>1, CountInType, FS_AddElement DEF CountIn, Same
  <1>3. CASE u # t
    <2>1. Places(Append(q, u), t) = Places(q, t)
      BY <1>3 DEF Places
    <2> QED
      BY <1>3, <2>1, CountInType DEF CountIn, Same
  <1> QED
    BY <1>2, <1>3

\* Taking the head away removes one place of it; the others move by one.
LEMMA CountInTail ==
  ASSUME NEW S, NEW q \in Seq(S), q # << >>, NEW t
  PROVE  CountIn(Tail(q), t) = CountIn(q, t) - Same(Head(q), t)
  <1> DEFINE A == Places(q, t) \ {1}
             B == Places(Tail(q), t)
             f == [i \in A |-> i - 1]
  <1>1. IsFiniteSet(A) /\ Cardinality(A) = CountIn(q, t) - Same(Head(q), t)
    <2>1. 1 \in Places(q, t) <=> Head(q) = t
      BY DEF Places
    <2> QED
      BY <2>1, CountInType, FS_RemoveElement DEF CountIn, Same
  <1>2. f \in Bijection(A, B)
    <2>1. A \subseteq 2 .. Len(q) /\ B \subseteq 1 .. Len(q) - 1
      BY DEF Places
    <2>2. \A i \in 1 .. Len(q) - 1 : Tail(q)[i] = q[i + 1]
      OBVIOUS
    <2>3. f \in [A -> B]
      BY <2>1, <2>2 DEF Places
    <2>4. \A i, j \in A : f[i] = f[j] => i = j
      BY <2>1
    <2>5. ASSUME NEW k \in B PROVE \E i \in A : f[i] = k
      <3>1. k + 1 \in A /\ k \in Int
        BY <2>1, <2>2, <2>5 DEF Places
      <3> QED
        BY <3>1
    <2> QED
      BY <2>3, <2>4, <2>5 DEF Bijection, Injection, Surjection, IsInjective
  <1>3. Cardinality(B) = Cardinality(A)
    BY <1>1, <1>2, FS_Bijection DEF ExistsBijection
  <1> QED
    BY <1>1, <1>3 DEF CountIn

-----------------------------------------------------------------------------
LEMMA CountOnType ==
  ASSUME NEW ws, IsFiniteSet(ws), NEW r, NEW t
  PROVE  IsFiniteSet(Runners(r, ws, t)) /\ CountOn(r, ws, t) \in Nat
  BY FS_Subset, FS_CardinalityType DEF Runners, CountOn

\* Nobody runs t when every worker is idle.
LEMMA CountOnIdle ==
  ASSUME NEW ws, NEW idle, NEW t, t # idle
  PROVE  CountOn([w \in ws |-> idle], ws, t) = 0
  <1>1. Runners([w \in ws |-> idle], ws, t) = {}
    BY DEF Runners
  <1> QED
    BY <1>1, FS_EmptySet DEF CountOn

\* Worker w runs v instead of what it ran.
LEMMA CountOnExcept ==
  ASSUME NEW ws, IsFiniteSet(ws), NEW w \in ws, NEW r, NEW s,
         \A x \in ws : x # w => s[x] = r[x], NEW v, s[w] = v, NEW t
  PROVE  CountOn(s, ws, t) = CountOn(r, ws, t) - Same(r[w], t) + Same(v, t)
  <1> DEFINE rest == Runners(r, ws, t) \ {w}
  <1>1. /\ IsFiniteSet(rest)
        /\ Cardinality(rest) = CountOn(r, ws, t) - Same(r[w], t)
    <2>1. w \in Runners(r, ws, t) <=> r[w] = t
      BY DEF Runners
    <2> QED
      BY <2>1, CountOnType, FS_RemoveElement DEF CountOn, Same
  <1>2. CountOn(r, ws, t) \in Nat
    BY CountOnType
  <1>3. CASE v = t
    <2>1. Runners(s, ws, t) = rest \cup {w} /\ w \notin rest
      BY <1>3 DEF Runners
    <2>2. CountOn(s, ws, t) = Cardinality(rest) + 1
      BY <1>1, <2>1, FS_AddElement DEF CountOn
    <2>3. Same(v, t) = 1 /\ Same(r[w], t) \in {0, 1}
      BY <1>3 DEF Same
    <2> QED
      BY <1>1, <1>2, <2>2, <2>3
  <1>4. CASE v # t
    <2>1. Runners(s, ws, t) = rest
      BY <1>4 DEF Runners
    <2>2. CountOn(s, ws, t) = Cardinality(rest)
      BY <2>1 DEF CountOn
    <2>3. Same(v, t) = 0 /\ Same(r[w], t) \in {0, 1}
      BY <1>4 DEF Same
    <2> QED
      BY <1>1, <1>2, <2>2, <2>3
  <1> QED
    BY <1>3, <1>4

-----------------------------------------------------------------------------
\* The load of a pool: how often t is listed in q or run by a worker of ws.
Load(q, r, ws, t) == CountIn(q, t) + CountOn(r, ws, t)

LEMMA LoadType ==
  ASSUME NEW S, NEW q \in Seq(S), NEW ws, IsFiniteSet(ws), NEW r, NEW t
  PROVE  Load(q, r, ws, t) \in Nat
  BY CountInType, CountOnType DEF Load

\* No load on a pool whose list is empty and whose workers are idle.
LEMMA LoadIdle ==
  ASSUME NEW ws, NEW idle, NEW t, t # idle
  PROVE  Load(<< >>, [w \in ws |-> idle], ws, t) = 0
  <1>1. CountIn(<< >>, t) = 0 /\ CountOn([w \in ws |-> idle], ws, t) = 0
    BY CountInEmpty, CountOnIdle
  <1> QED
    BY <1>1 DEF Load

\* A task added to the list is one more.
LEMMA LoadAppend ==
  ASSUME NEW S, NEW q \in Seq(S), NEW u \in S, NEW ws, IsFiniteSet(ws), NEW r, NEW t
  PROVE  Load(Append(q, u), r, ws, t) = Load(q, r, ws, t) + Same(u, t)
  <1>1. CountIn(Append(q, u), t) = CountIn(q, t) + Same(u, t)
    BY CountInAppend
  <1>2. CountIn(q, t) \in Nat /\ CountOn(r, ws, t) \in Nat /\ Same(u, t) \in Nat
    BY CountInType, CountOnType DEF Same
  <1> QED
    BY <1>1, <1>2 DEF Load

\* A task that an idle worker takes off the list is as much a load as before.
LEMMA LoadStart ==
  ASSUME NEW S, NEW q \in Seq(S), q # << >>, NEW ws, IsFiniteSet(ws), NEW w \in ws,
         NEW r, NEW s, \A x \in ws : x # w => s[x] = r[x], s[w] = Head(q),
         NEW t, r[w] # t
  PROVE  Load(Tail(q), s, ws, t) = Load(q, r, ws, t)
  <1> DEFINE one == Same(Head(q), t)
  <1>1. CountIn(Tail(q), t) = CountIn(q, t) - one
    BY CountInTail
  <1>2. CountOn(s, ws, t) = CountOn(r, ws, t) - Same(r[w], t) + one
    BY CountOnExcept
  <1>3. Same(r[w], t) = 0 /\ one \in Nat
    BY DEF Same
  <1>4. CountIn(q, t) \in Nat /\ CountOn(r, ws, t) \in Nat
    BY CountInType, CountOnType
  <1> HIDE DEF one
  <1> QED
    BY <1>1, <1>2, <1>3, <1>4 DEF Load

\* A task whose worker becomes idle is one less.
LEMMA LoadFinish ==
  ASSUME NEW S, NEW q \in Seq(S), NEW ws, IsFiniteSet(ws), NEW w \in ws,
         NEW r, NEW s, \A x \in ws : x # w => s[x] = r[x],
         NEW t, s[w] # t
  PROVE  Load(q, s, ws, t) = Load(q, r, ws, t) - Same(r[w], t)
  <1> DEFINE one == Same(r[w], t)
  <1>1. CountOn(s, ws, t) = CountOn(r, ws, t) - one + Same(s[w], t)
    BY CountOnExcept
  <1>2. Same(s[w], t) = 0 /\ one \in Nat
    BY DEF Same
  <1>3. CountIn(q, t) \in Nat /\ CountOn(r, ws, t) \in Nat
    BY CountInType, CountOnType
  <1>4. Load(q, s, ws, t) = CountIn(q, t) + CountOn(s, ws, t)
    BY DEF Load
  <1>5. Load(q, r, ws, t) = CountIn(q, t) + CountOn(r, ws, t)
    BY DEF Load
  <1> QED
    BY <1>1, <1>2, <1>3, <1>4, <1>5

\* A load is listed or run.
LEMMA LoadSomewhere ==
  ASSUME NEW S, NEW q \in Seq(S), NEW ws, IsFiniteSet(ws), NEW r, NEW t,
         Load(q, r, ws, t) # 0
  PROVE  (\E k \in DOMAIN q : q[k] = t) \/ (\E w \in ws : r[w] = t)
  <1> SUFFICES ASSUME \A k \in DOMAIN q : q[k] # t, \A w \in ws : r[w] # t
               PROVE  FALSE
    OBVIOUS
  <1>1. Places(q, t) = {} /\ Runners(r, ws, t) = {}
    BY DEF Places, Runners
  <1> QED
    BY <1>1, FS_EmptySet DEF Load, CountIn, CountOn

\* What is listed or run is a load.
LEMMA LoadPositive ==
  ASSUME NEW S, NEW q \in Seq(S), NEW ws, IsFiniteSet(ws), NEW r, NEW t,
         (\E k \in DOMAIN q : q[k] = t) \/ (\E w \in ws : r[w] = t)
  PROVE  Load(q, r, ws, t) # 0
  <1>1. /\ IsFiniteSet(Places(q, t)) /\ IsFiniteSet(Runners(r, ws, t))
        /\ CountIn(q, t) \in Nat /\ CountOn(r, ws, t) \in Nat
    BY CountInType, CountOnType
  <1>2. Places(q, t) # {} \/ Runners(r, ws, t) # {}
    BY DEF Places, Runners
  <1>3. CountIn(q, t) # 0 \/ CountOn(r, ws, t) # 0
    BY <1>1, <1>2, FS_EmptySet DEF CountIn, CountOn
  <1> QED
    BY <1>1, <1>3 DEF Load

=============================================================================
