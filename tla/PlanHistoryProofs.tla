------------------------- MODULE PlanHistoryProofs -------------------------
(***************************************************************************)
(* Proofs about PlanHistory: every reachable manifest is well typed;       *)
(* retention spares damaged fulls; once there is a complete cycle, one is  *)
(* kept; no set is moved to another full; and, where archives are not      *)
(* split, the chain of incrementals misses no change.                      *)
(*                                                                         *)
(* Started(m, g), a CHOOSE, is worked with through StartedFacts, and the   *)
(* structure of cycles through one fact: two heads are never in one cycle  *)
(* (HeadsApart).  A set is based on the latest opener up to it, so that    *)
(* what is begun later does not move it (LaterBased), and neither does the *)
(* removal of fulls together with all that is based on them (CutBased).    *)
(* What a window does not reach back to is in a backup between, or behind  *)
(* a later full: that survives the removal of cycles (CutReaches).         *)
(***************************************************************************)
EXTENDS PlanHistory, TLAPS, WellFoundedInduction

LEMMA LeastNat ==
    ASSUME NEW S, S \subseteq Nat, S # {}
    PROVE  \E x \in S : \A y \in S : x <= y
<1>1. \E x \in S : \A y \in S : ~ (<<y, x>> \in OpToRel(<, Nat))
  BY WFMin, NatLessThanWellFounded, Zenon
<1>2. \A x, y \in Nat : ~ (<<y, x>> \in OpToRel(<, Nat)) => ~(y < x)
  BY Zenon DEF OpToRel
<1>3. PICK x \in S : \A y \in S : ~ (<<y, x>> \in OpToRel(<, Nat))
  BY <1>1, Zenon
<1>4. \A y \in S : ~(y < x)
  BY <1>2, <1>3, Zenon
<1> QED
  BY <1>4

LEMMA GreatestInt ==
    ASSUME NEW S, S \subseteq Int, S # {}, NEW b \in Int, \A x \in S : x <= b
    PROVE  \E x \in S : \A y \in S : y <= x
<1> DEFINE D == {b - x : x \in S}
<1>1. D \subseteq Nat
  OBVIOUS
<1>2. PICK d \in D : \A e \in D : d <= e
  BY <1>1, LeastNat
<1>3. PICK x \in S : d = b - x
  BY <1>2
<1>4. ASSUME NEW y \in S PROVE y <= x
  <2>1. b - y \in D /\ d <= b - y
    BY <1>2
  <2> QED
    BY <2>1, <1>3
<1> QED
  BY <1>4

-----------------------------------------------------------------------------
(* Manifests *)

\* The rows of m were written up to time t, and rows started at one time
\* belong to one set.
WellFormed(m, t) ==
    /\ t \in Nat
    /\ \A e \in m : /\ e.started \in Nat /\ e.started <= t
                    /\ e.shard \in Nat /\ e.cycle \in Int
    /\ \A e, f \in m : e.started = f.started => GroupId(e) = GroupId(f)
    /\ \E b \in Int : \A e \in m : e.cycle <= b

\* What no change of a row's outcome touches.
SameKey(f, e) ==
    /\ GroupId(f) = GroupId(e) /\ f.started = e.started
    /\ f.shard = e.shard /\ f.cycle = e.cycle

LEMMA KeptForm ==
    ASSUME NEW m, NEW n, NEW t, NEW u \in Nat, WellFormed(m, t), t <= u,
           \A f \in n : \E e \in m : SameKey(f, e)
    PROVE  WellFormed(n, u)
<1>1. \A f \in n : /\ f.started \in Nat /\ f.started <= u
                  /\ f.shard \in Nat /\ f.cycle \in Int
  BY DEF WellFormed, SameKey
<1>2. \A f, g \in n : f.started = g.started => GroupId(f) = GroupId(g)
  BY DEF WellFormed, SameKey
<1>3. \E b \in Int : \A f \in n : f.cycle <= b
  BY DEF WellFormed, SameKey
<1> QED
  BY <1>1, <1>2, <1>3 DEF WellFormed

LEMMA JoinedForm ==
    ASSUME NEW m, NEW n, NEW t, NEW u \in Nat, NEW g, NEW c \in Int,
           WellFormed(m, t), t < u,
           \A e \in n : /\ e.started = u /\ GroupId(e) = g /\ e.cycle = c
                       /\ e.shard \in Nat
    PROVE  WellFormed(m \cup n, u)
<1>1. \A e \in m \cup n : /\ e.started \in Nat /\ e.started <= u
                         /\ e.shard \in Nat /\ e.cycle \in Int
  BY DEF WellFormed
<1>2. \A e, f \in m \cup n : e.started = f.started => GroupId(e) = GroupId(f)
  <2>1. \A e \in m, f \in n : e.started # f.started
    BY DEF WellFormed
  <2> QED
    BY <2>1 DEF WellFormed
<1>3. PICK b \in Int : \A e \in m : e.cycle <= b
  BY DEF WellFormed
<1>4. \E d \in Int : \A e \in m \cup n : e.cycle <= d
  <2>1. CASE b <= c
    <3>1. \A e \in m \cup n : e.cycle <= c
      BY <1>3, <2>1, <1>1
    <3> QED
      BY <3>1
  <2>2. CASE c <= b
    <3>1. \A e \in m \cup n : e.cycle <= b
      BY <1>3, <2>2, <1>1
    <3> QED
      BY <3>1
  <2> QED
    BY <1>3, <2>1, <2>2
<1> QED
  BY <1>1, <1>2, <1>4 DEF WellFormed

LEMMA StartedFacts ==
    ASSUME NEW m, NEW t, WellFormed(m, t), NEW g \in Groups(m)
    PROVE  /\ Started(m, g) \in Nat /\ Started(m, g) <= t
           /\ \E e \in Members(m, g) : Started(m, g) = e.started
           /\ \A e \in Members(m, g) : Started(m, g) <= e.started
<1> DEFINE S == {e.started : e \in Members(m, g)}
<1>1. S # {} /\ S \subseteq Nat
  BY DEF Groups, Members, WellFormed
<1>2. PICK x \in S : \A y \in S : x <= y
  BY <1>1, LeastNat
<1>3. Started(m, g) \in S /\ \A y \in S : Started(m, g) <= y
  BY <1>2 DEF Started, Min
<1>4. \A y \in S : y <= t
  BY DEF Members, WellFormed
<1> QED
  BY <1>1, <1>3, <1>4

LEMMA StartedApart ==
    ASSUME NEW m, NEW t, WellFormed(m, t), NEW g \in Groups(m),
           NEW h \in Groups(m), Started(m, g) = Started(m, h)
    PROVE  g = h
<1>1. PICK e \in Members(m, g) : Started(m, g) = e.started
  BY StartedFacts
<1>2. PICK f \in Members(m, h) : Started(m, h) = f.started
  BY StartedFacts
<1> QED
  BY <1>1, <1>2 DEF Members, WellFormed

LEMMA SameMembers ==
    ASSUME NEW m, NEW n, NEW g, Members(m, g) = Members(n, g)
    PROVE  /\ Started(m, g) = Started(n, g) /\ CycleId(m, g) = CycleId(n, g)
           /\ Opens(m, g) = Opens(n, g) /\ IsComplete(m, g) = IsComplete(n, g)
           /\ g \in Groups(m) <=> g \in Groups(n)
<1>1. \A x : x \in Groups(m) <=> \E e \in Members(m, x) : TRUE
  BY DEF Groups, Members
<1>2. \A x : x \in Groups(n) <=> \E e \in Members(n, x) : TRUE
  BY DEF Groups, Members
<1>3. g \in Groups(m) <=> g \in Groups(n)
  BY <1>1, <1>2
<1>4. Started(m, g) = Started(n, g) /\ CycleId(m, g) = CycleId(n, g)
  BY DEF Started, CycleId, Representative
<1>5. IsRestorable(m, g) = IsRestorable(n, g) /\ IsComplete(m, g) = IsComplete(n, g)
  BY DEF IsRestorable, IsComplete
<1>6. Opens(m, g) = Opens(n, g)
  BY <1>5 DEF Opens
<1> QED
  BY <1>3, <1>4, <1>5, <1>6

\* Which full a set's cycle starts with, without the stub cycle: the latest
\* one that opens a cycle.
LEMMA CycleFacts ==
    ASSUME NEW m, NEW t, WellFormed(m, t), NEW h \in Groups(m), NEW g \in Groups(m),
           Opens(m, h)
    PROVE  /\ g \in CycleSets(m, h) <=>
                /\ Started(m, h) <= Started(m, g)
                /\ \A k \in Groups(m) : Opens(m, k) =>
                       Started(m, k) <= Started(m, h) \/ Started(m, g) < Started(m, k)
           /\ h \in Heads(m)
<1>1. \A k \in Groups(m) : Opens(m, k) => k \in Heads(m)
  BY DEF Heads
<1>2. \A k \in Heads(m) : k \in Groups(m) /\ (Opens(m, k) \/ Started(m, k) <= Started(m, h))
  BY DEF Heads
<1>3. g \in CycleSets(m, h) <=>
        /\ Started(m, h) <= Started(m, g)
        /\ \A k \in Heads(m) :
               Started(m, k) <= Started(m, h) \/ Started(m, g) < Started(m, k)
  BY DEF CycleSets
<1> QED
  BY <1>1, <1>2, <1>3

LEMMA BasedFacts ==
    ASSUME NEW m, NEW t, WellFormed(m, t)
    PROVE  /\ \A g, h : <<g, h>> \in BasedOn(m) <=>
                /\ g \in Groups(m) /\ h \in Groups(m) /\ Opens(m, h)
                /\ g \in CycleSets(m, h)
           /\ \A p \in BasedOn(m) : p = <<p[1], p[2]>>
<1>1. \A h \in Groups(m) : Opens(m, h) => h \in Heads(m)
  BY DEF Heads
<1>2. \A h \in Heads(m) : h \in Groups(m)
  BY DEF Heads
<1>3. \A h : \A g \in CycleSets(m, h) : g \in Groups(m)
  BY DEF CycleSets
<1>4. \A p : p \in BasedOn(m) <=>
        \E h \in Heads(m) : Opens(m, h) /\ \E g \in CycleSets(m, h) : p = <<g, h>>
  BY DEF BasedOn
<1> QED
  BY <1>1, <1>2, <1>3, <1>4

LEMMA RepresentativeFacts ==
    ASSUME NEW m, NEW t, WellFormed(m, t), NEW g \in Groups(m)
    PROVE  Representative(m, g) \in Members(m, g) /\ CycleId(m, g) \in Int
<1> DEFINE M == Members(m, g)
<1>1. \A e \in M : e \in m /\ e.shard \in Nat /\ e.started \in Nat /\ e.cycle \in Int
  BY DEF Members, WellFormed
<1>2. M # {}
  BY DEF Groups, Members
<1>3. PICK i \in {e.shard : e \in M} : \A j \in {e.shard : e \in M} : i <= j
  <2>1. {e.shard : e \in M} # {} /\ {e.shard : e \in M} \subseteq Nat
    BY <1>1, <1>2
  <2> QED
    BY <2>1, LeastNat
<1> DEFINE L == {e \in M : e.shard = i}
<1>4. PICK s \in {e.started : e \in L} : \A r \in {e.started : e \in L} : s <= r
  <2>1. {e.started : e \in L} # {} /\ {e.started : e \in L} \subseteq Nat
    BY <1>1, <1>3
  <2> QED
    BY <2>1, LeastNat
<1>5. PICK e \in L : e.started = s
  BY <1>4
<1>6. ASSUME NEW f \in M
      PROVE  e.shard < f.shard \/ (e.shard = f.shard /\ e.started <= f.started)
  <2>1. e.shard = i /\ i <= f.shard /\ e.shard \in Nat /\ f.shard \in Nat
    BY <1>1, <1>3
  <2>2. f.shard = i => e.started <= f.started
    BY <1>4, <1>5
  <2> QED
    BY <2>1, <2>2
<1>7. \E r \in M : \A f \in M :
        r.shard < f.shard \/ (r.shard = f.shard /\ r.started <= f.started)
  BY <1>6
<1>8. Representative(m, g) \in M
  BY <1>7, Zenon DEF Representative
<1> QED
  BY <1>1, <1>8 DEF CycleId

\* Two heads are never in one cycle.
LEMMA HeadsApart ==
    ASSUME NEW m, NEW t, WellFormed(m, t), NEW h \in Heads(m), NEW k \in Heads(m),
           k \in CycleSets(m, h)
    PROVE  k = h
<1>1. h \in Groups(m) /\ k \in Groups(m)
  BY DEF Heads
<1>2. Started(m, h) \in Nat /\ Started(m, k) \in Nat
  BY <1>1, StartedFacts
<1>3. /\ Started(m, h) <= Started(m, k)
      /\ Started(m, k) <= Started(m, h) \/ Started(m, k) < Started(m, k)
  BY DEF CycleSets
<1>4. Started(m, h) = Started(m, k)
  BY <1>2, <1>3
<1> QED
  BY <1>1, <1>4, StartedApart

\* A restorable full of n with the same rows in m is complete in one if it is
\* in the other.
LEMMA SameComplete ==
    ASSUME NEW m, NEW n, NEW h \in Complete(m), Members(m, h) = Members(n, h)
    PROVE  h \in Complete(n)
<1>1. h \in Groups(m) /\ Opens(m, h) /\ IsComplete(m, h)
  BY DEF Complete, Heads
<1>2. h \in Groups(n) /\ Opens(n, h) /\ IsComplete(n, h)
  BY <1>1, SameMembers
<1> QED
  BY <1>2 DEF Complete, Heads

LEMMA SomeNewest ==
    ASSUME NEW m, NEW t, WellFormed(m, t), Complete(m) # {}
    PROVE  NewestComplete(m) # {}
<1>1. \A h \in Complete(m) : h \in Groups(m)
  BY DEF Complete, Heads
<1>2. \A h \in Complete(m) : /\ CycleId(m, h) \in Int
                             /\ Started(m, h) \in Nat /\ Started(m, h) <= t
  BY <1>1, StartedFacts, RepresentativeFacts
<1> DEFINE C == {CycleId(m, h) : h \in Complete(m)}
<1>3. PICK b \in Int : \A e \in m : e.cycle <= b
  BY DEF WellFormed
<1>4. \A h \in Complete(m) : CycleId(m, h) <= b
  BY <1>1, <1>3, RepresentativeFacts DEF CycleId, Members
<1>5. PICK c \in C : \A d \in C : d <= c
  <2>1. C # {} /\ C \subseteq Int /\ \A d \in C : d <= b
    BY <1>2, <1>4
  <2> QED
    BY <2>1, GreatestInt
<1> DEFINE S == {Started(m, h) : h \in {k \in Complete(m) : CycleId(m, k) = c}}
<1>6. PICK s \in S : \A r \in S : r <= s
  <2>1. S # {} /\ S \subseteq Int /\ \A r \in S : r <= t
    BY <1>2, <1>5
  <2>2. t \in Int
    BY DEF WellFormed
  <2> QED
    BY <2>1, <2>2, GreatestInt
<1>7. PICK h \in Complete(m) : CycleId(m, h) = c /\ Started(m, h) = s
  BY <1>6
<1>8. ASSUME NEW k \in Complete(m)
      PROVE  ~SortsAfter(m, k, h)
  <2>1. CycleId(m, k) <= c /\ CycleId(m, k) \in Int /\ c \in Int
    BY <1>2, <1>5
  <2>2. CycleId(m, k) = c => Started(m, k) <= s
    BY <1>6
  <2>3. Started(m, k) \in Nat /\ s \in Nat
    BY <1>2, <1>7
  <2> QED
    BY <1>7, <2>1, <2>2, <2>3 DEF SortsAfter
<1> QED
  BY <1>7, <1>8 DEF NewestComplete

-----------------------------------------------------------------------------
(* What is removed, and what that leaves alone *)

\* m without the rows of the sets in gone.
Cut(m, gone) == {e \in m : GroupId(e) \notin gone}

LEMMA CutFacts ==
    ASSUME NEW m, NEW gone
    PROVE  /\ \A g : g \notin gone => Members(Cut(m, gone), g) = Members(m, g)
           /\ Groups(Cut(m, gone)) = Groups(m) \ gone
<1>1. \A g : g \notin gone => Members(Cut(m, gone), g) = Members(m, g)
  BY DEF Members, Cut
<1>2. Groups(Cut(m, gone)) = Groups(m) \ gone
  BY DEF Groups, Cut
<1> QED
  BY <1>1, <1>2

Gone(m, t, policy, limit) ==
    UNION {CycleSets(m, h) : h \in Doomed(m, t, policy, limit)}

LEMMA PrunedIsCut ==
    ASSUME NEW m, NEW t, NEW policy, NEW limit
    PROVE  Pruned(m, t, policy, limit) = Cut(m, Gone(m, t, policy, limit))
BY DEF Pruned, Cut, Gone

\* retention.apply selects complete cycles, and never the newest.
LEMMA DoomedFacts ==
    ASSUME NEW m, NEW t, NEW policy \in Policies, NEW limit
    PROVE  /\ Doomed(m, t, policy, limit) \subseteq Complete(m)
           /\ Doomed(m, t, policy, limit) \cap NewestComplete(m) = {}
<1>1. Excess(m, t, policy, limit) \subseteq Complete(m)
  <2>1. CASE policy = "keep_all"
    BY <2>1 DEF Excess
  <2>2. CASE policy = "max_cycles"
    BY <2>2 DEF Excess
  <2>3. CASE policy = "max_age_days"
    BY <2>3 DEF Excess
  <2>4. CASE policy = "max_size_gb"
    BY <2>4 DEF Excess
  <2> QED
    BY <2>1, <2>2, <2>3, <2>4 DEF Policies
<1> QED
  BY <1>1 DEF Doomed

\* A set heading a cycle goes with its own cycle only.
LEMMA PruneSpares ==
    ASSUME NEW m, NEW t, NEW u, NEW policy \in Policies, NEW limit,
           WellFormed(m, t), NEW k \in Heads(m),
           k \notin Doomed(m, u, policy, limit)
    PROVE  k \notin Gone(m, u, policy, limit)
<1>1. \A h \in Doomed(m, u, policy, limit) : h \in Heads(m)
  BY DoomedFacts DEF Complete
<1>2. \A h \in Doomed(m, u, policy, limit) : k \notin CycleSets(m, h)
  BY <1>1, HeadsApart
<1> QED
  BY <1>2 DEF Gone

LEMMA PruneSparesDamaged ==
    ASSUME NEW m, NEW t, NEW u, NEW policy \in Policies, NEW limit,
           WellFormed(m, t)
    PROVE  Damaged(m) \subseteq Groups(Pruned(m, u, policy, limit))
<1> SUFFICES ASSUME NEW g \in Damaged(m)
             PROVE  g \in Groups(Pruned(m, u, policy, limit))
  OBVIOUS
<1>1. g \in Groups(m) /\ Opens(m, g) /\ ~IsComplete(m, g)
  BY DEF Damaged, Opens, IsComplete
<1>2. g \in Heads(m)
  BY <1>1 DEF Heads
<1>3. g \notin Doomed(m, u, policy, limit)
  BY <1>1, DoomedFacts DEF Complete
<1> QED
  BY <1>1, <1>2, <1>3, PruneSpares, PrunedIsCut, CutFacts

LEMMA PruneKeepsNewest ==
    ASSUME NEW m, NEW t, NEW u, NEW policy \in Policies, NEW limit,
           WellFormed(m, t), Complete(m) # {}
    PROVE  Complete(Pruned(m, u, policy, limit)) # {}
<1>1. PICK h \in NewestComplete(m) : TRUE
  BY SomeNewest
<1>2. h \in Complete(m) /\ h \in Heads(m) /\ h \notin Doomed(m, u, policy, limit)
  BY <1>1, DoomedFacts DEF NewestComplete, Complete
<1>3. Members(m, h) = Members(Pruned(m, u, policy, limit), h)
  BY <1>2, PruneSpares, PrunedIsCut, CutFacts
<1> QED
  BY <1>2, <1>3, SameComplete

\* The full a set is based on is the latest opener up to it.
LEMMA LatestOpener ==
    ASSUME NEW m, NEW t, WellFormed(m, t), NEW g \in Groups(m), NEW k \in Groups(m),
           Opens(m, k), Started(m, k) <= Started(m, g)
    PROVE  \E h \in Groups(m) : /\ <<g, h>> \in BasedOn(m)
                               /\ Started(m, k) <= Started(m, h)
<1> DEFINE O == {h \in Groups(m) : Opens(m, h) /\ Started(m, h) <= Started(m, g)}
           S == {Started(m, h) : h \in O}
<1>1. Started(m, g) \in Nat /\ \A h \in O : Started(m, h) \in Nat
  BY StartedFacts
<1>2. PICK s \in S : \A r \in S : r <= s
  <2>1. S # {} /\ S \subseteq Int /\ \A r \in S : r <= Started(m, g)
    BY <1>1
  <2>2. Started(m, g) \in Int
    BY <1>1
  <2> QED
    BY <2>1, <2>2, GreatestInt
<1>3. PICK h \in O : Started(m, h) = s
  BY <1>2
<1>4. \A j \in O : Started(m, j) <= Started(m, h)
  BY <1>2, <1>3
<1>5. ASSUME NEW j \in Groups(m), Opens(m, j)
      PROVE  Started(m, j) <= Started(m, h) \/ Started(m, g) < Started(m, j)
  <2>1. Started(m, j) \in Nat
    BY StartedFacts
  <2> QED
    BY <1>1, <1>4, <1>5, <2>1
<1>6. g \in CycleSets(m, h)
  BY <1>3, <1>5, CycleFacts
<1> QED
  BY <1>3, <1>4, <1>6, BasedFacts

\* A set keeps its full when no full goes without all that is based on it.
LEMMA CutBased ==
    ASSUME NEW m, NEW t, WellFormed(m, t), NEW gone,
           \A g, h : <<g, h>> \in BasedOn(m) /\ h \in gone => g \in gone,
           NEW g \in Groups(m) \ gone, NEW h
    PROVE  <<g, h>> \in BasedOn(m) <=> <<g, h>> \in BasedOn(Cut(m, gone))
<1> DEFINE n == Cut(m, gone)
<1>1. WellFormed(n, t)
  <2>1. t \in Nat /\ t <= t /\ \A f \in n : f \in m /\ SameKey(f, f)
    BY DEF Cut, SameKey, WellFormed
  <2> QED
    BY <2>1, KeptForm
<1>2. \A k : k \in Groups(n) <=> k \in Groups(m) /\ k \notin gone
  BY CutFacts
<1>3. \A k \in Groups(n) : Started(m, k) = Started(n, k) /\ Opens(m, k) = Opens(n, k)
  BY <1>2, CutFacts, SameMembers
<1>4. \A k \in Groups(m) : Started(m, k) \in Nat
  BY StartedFacts
<1>5. ASSUME <<g, h>> \in BasedOn(m)
      PROVE  <<g, h>> \in BasedOn(n)
  <2>1. h \in Groups(m) /\ Opens(m, h) /\ g \in CycleSets(m, h) /\ h \notin gone
    BY <1>5, BasedFacts
  <2>2. /\ Started(m, h) <= Started(m, g)
        /\ \A k \in Groups(m) : Opens(m, k) =>
               Started(m, k) <= Started(m, h) \/ Started(m, g) < Started(m, k)
    BY <2>1, CycleFacts
  <2>3. g \in Groups(n) /\ h \in Groups(n) /\ Opens(n, h)
    BY <2>1, <1>2, <1>3
  <2>4. g \in CycleSets(n, h)
    BY <2>2, <2>3, <1>1, <1>2, <1>3, CycleFacts
  <2> QED
    BY <2>3, <2>4, <1>1, BasedFacts
<1>6. ASSUME <<g, h>> \in BasedOn(n)
      PROVE  <<g, h>> \in BasedOn(m)
  <2>1. h \in Groups(n) /\ g \in Groups(n) /\ Opens(n, h) /\ g \in CycleSets(n, h)
    BY <1>6, <1>1, BasedFacts
  <2>2. /\ Started(n, h) <= Started(n, g)
        /\ \A k \in Groups(n) : Opens(n, k) =>
               Started(n, k) <= Started(n, h) \/ Started(n, g) < Started(n, k)
    BY <2>1, <1>1, CycleFacts
  <2>3. h \in Groups(m) /\ Opens(m, h) /\ Started(m, h) <= Started(m, g)
    BY <2>1, <2>2, <1>2, <1>3
  <2>4. PICK k \in Groups(m) : <<g, k>> \in BasedOn(m) /\ Started(m, h) <= Started(m, k)
    BY <2>3, LatestOpener
  <2>5. Opens(m, k) /\ k \notin gone /\ Started(m, k) <= Started(m, g)
    BY <2>4, BasedFacts, CycleFacts
  <2>6. Started(m, k) <= Started(m, h)
    <3>1. k \in Groups(n) /\ Opens(n, k)
      BY <2>5, <1>2, <1>3
    <3>2. Started(n, k) <= Started(n, h) \/ Started(n, g) < Started(n, k)
      BY <2>2, <3>1
    <3>3. Started(n, k) = Started(m, k) /\ Started(n, h) = Started(m, h)
          /\ Started(n, g) = Started(m, g)
      BY <3>1, <2>1, <1>3
    <3> QED
      BY <3>2, <3>3, <2>5, <1>4
  <2>7. Started(m, k) = Started(m, h)
    BY <2>3, <2>4, <2>6, <1>4
  <2> QED
    BY <2>3, <2>4, <2>7, StartedApart
<1> QED
  BY <1>5, <1>6

LEMMA PruneBased ==
    ASSUME NEW m, NEW t, NEW u, NEW policy \in Policies, NEW limit,
           WellFormed(m, t), NEW g, NEW h,
           g \in Groups(Pruned(m, u, policy, limit))
    PROVE  <<g, h>> \in BasedOn(m) <=> <<g, h>> \in BasedOn(Pruned(m, u, policy, limit))
<1> DEFINE gone == Gone(m, u, policy, limit)
<1>1. ASSUME NEW j, NEW k, <<j, k>> \in BasedOn(m), k \in gone
      PROVE  j \in gone
  <2>1. k \in Heads(m) /\ j \in CycleSets(m, k)
    BY <1>1, BasedFacts, CycleFacts
  <2>2. k \in Doomed(m, u, policy, limit)
    BY <1>1, <2>1, PruneSpares
  <2> QED
    BY <2>1, <2>2 DEF Gone
<1>2. g \in Groups(m) \ gone
  BY PrunedIsCut, CutFacts
<1> QED
  BY <1>1, <1>2, CutBased, PrunedIsCut

\* A set keeps its full when all that changes was started after it.
LEMMA LaterBased ==
    ASSUME NEW m, NEW t, WellFormed(m, t), NEW n, NEW u, WellFormed(n, u), NEW b \in Nat,
           \A g : \/ Members(m, g) = Members(n, g)
                 \/ /\ g \in Groups(m) => b <= Started(m, g)
                    /\ g \in Groups(n) => b <= Started(n, g),
           NEW g \in Groups(m), Started(m, g) < b, NEW h
    PROVE  /\ g \in Groups(n)
           /\ <<g, h>> \in BasedOn(m) <=> <<g, h>> \in BasedOn(n)
<1>1. /\ \A k \in Groups(m) : Started(m, k) \in Nat
      /\ \A k \in Groups(n) : Started(n, k) \in Nat
  BY StartedFacts
<1>2. ASSUME NEW k, \/ k \in Groups(m) /\ Started(m, k) < b
                    \/ k \in Groups(n) /\ Started(n, k) < b
      PROVE  /\ Started(m, k) = Started(n, k) /\ Opens(m, k) = Opens(n, k)
             /\ k \in Groups(m) /\ k \in Groups(n)
  <2>1. Members(m, k) = Members(n, k)
    BY <1>1, <1>2
  <2> QED
    BY <1>2, <2>1, SameMembers
<1>3. g \in Groups(n) /\ Started(n, g) = Started(m, g) /\ Started(m, g) \in Nat
  BY <1>1, <1>2
<1>4. ASSUME <<g, h>> \in BasedOn(m)
      PROVE  <<g, h>> \in BasedOn(n)
  <2>1. h \in Groups(m) /\ Opens(m, h) /\ g \in CycleSets(m, h)
    BY <1>4, BasedFacts
  <2>2. /\ Started(m, h) <= Started(m, g)
        /\ \A k \in Groups(m) : Opens(m, k) =>
               Started(m, k) <= Started(m, h) \/ Started(m, g) < Started(m, k)
    BY <2>1, CycleFacts
  <2>3. h \in Groups(n) /\ Opens(n, h) /\ Started(n, h) = Started(m, h)
    BY <1>1, <1>2, <2>1, <2>2
  <2>4. ASSUME NEW k \in Groups(n), Opens(n, k)
        PROVE  Started(n, k) <= Started(n, h) \/ Started(n, g) < Started(n, k)
    <3>1. CASE Started(n, k) < b
      BY <3>1, <2>2, <2>3, <2>4, <1>2, <1>3
    <3>2. CASE b <= Started(n, k)
      BY <3>2, <1>3, <1>1
    <3> QED
      BY <3>1, <3>2, <1>1
  <2>5. g \in CycleSets(n, h)
    BY <1>3, <2>2, <2>3, <2>4, CycleFacts
  <2> QED
    BY <1>3, <2>3, <2>5, BasedFacts
<1>5. ASSUME <<g, h>> \in BasedOn(n)
      PROVE  <<g, h>> \in BasedOn(m)
  <2>1. h \in Groups(n) /\ Opens(n, h) /\ g \in CycleSets(n, h)
    BY <1>5, BasedFacts
  <2>2. /\ Started(n, h) <= Started(n, g)
        /\ \A k \in Groups(n) : Opens(n, k) =>
               Started(n, k) <= Started(n, h) \/ Started(n, g) < Started(n, k)
    BY <1>3, <2>1, CycleFacts
  <2>3. h \in Groups(m) /\ Opens(m, h) /\ Started(n, h) = Started(m, h)
    BY <1>1, <1>2, <1>3, <2>1, <2>2
  <2>4. ASSUME NEW k \in Groups(m), Opens(m, k)
        PROVE  Started(m, k) <= Started(m, h) \/ Started(m, g) < Started(m, k)
    <3>1. CASE Started(m, k) < b
      BY <3>1, <2>2, <2>3, <2>4, <1>2, <1>3
    <3>2. CASE b <= Started(m, k)
      BY <3>2, <1>3, <1>1
    <3> QED
      BY <3>1, <3>2, <1>1
  <2>5. g \in CycleSets(m, h)
    BY <1>3, <2>2, <2>3, <2>4, CycleFacts
  <2> QED
    BY <1>3, <2>3, <2>5, BasedFacts
<1> QED
  BY <1>3, <1>4, <1>5

-----------------------------------------------------------------------------
(* Rows *)

RowBy(e, t) ==
    /\ e = Marked(e, e.finished, e.status, e.flagged)
    /\ e.id \in Int /\ e.cycle \in Int /\ e.kind \in Kinds
    /\ e.count \in 1..MaxShards /\ e.shard \in 1..e.count
    /\ e.from \in Int
    /\ e.started \in 1..t /\ e.finished \in 0..t
    /\ e.status \in Statuses /\ e.flagged \in BOOLEAN

LEMMA RowFacts ==
    ASSUME NEW id \in Int, NEW kind \in Kinds, NEW n \in 1..MaxShards,
           NEW i \in 1..n, NEW cycle \in Int, NEW from \in Int, NEW t \in Nat,
           NEW started \in 1..t, NEW finished \in 0..t, NEW status \in Statuses,
           NEW flagged \in BOOLEAN
    PROVE  RowBy(Row(id, kind, i, n, cycle, from, started, finished, status, flagged), t)
<1> DEFINE e == Row(id, kind, i, n, cycle, from, started, finished, status, flagged)
<1>1. /\ e.id = id /\ e.kind = kind /\ e.shard = i /\ e.count = n
      /\ e.cycle = cycle /\ e.from = from /\ e.started = started
      /\ e.finished = finished /\ e.status = status /\ e.flagged = flagged
  BY DEF Row
<1>2. e = Marked(e, e.finished, e.status, e.flagged)
  BY <1>1 DEF Marked
<1> HIDE DEF e
<1>3. e.flagged \in BOOLEAN
  BY <1>1, Zenon
<1>4. RowBy(e, t)
  BY <1>1, <1>2, <1>3, Zenon DEF RowBy
<1> QED
  BY <1>4 DEF e

LEMMA MarkedFacts ==
    ASSUME NEW e, NEW finished, NEW status, NEW flagged
    PROVE  LET f == Marked(e, finished, status, flagged)
           IN  /\ SameKey(f, e) /\ Filename(f) = Filename(e)
               /\ f.finished = finished /\ f.status = status /\ f.flagged = flagged
               /\ f.id = e.id /\ f.kind = e.kind /\ f.count = e.count /\ f.from = e.from
BY DEF Marked, Row, SameKey, Filename, GroupId

LEMMA MarkedRow ==
    ASSUME NEW t \in Nat, NEW u \in Nat, t <= u, NEW e, RowBy(e, t),
           NEW finished \in 0..u, NEW status \in Statuses, NEW flagged \in BOOLEAN
    PROVE  RowBy(Marked(e, finished, status, flagged), u)
<1>1. /\ e.id \in Int /\ e.cycle \in Int /\ e.kind \in Kinds
      /\ e.count \in 1..MaxShards /\ e.shard \in 1..e.count
      /\ e.from \in Int /\ e.started \in 1..u
  BY DEF RowBy
<1> QED
  BY <1>1, RowFacts DEF Marked

LEMMA LaterRow ==
    ASSUME NEW t \in Nat, NEW u \in Nat, t <= u, NEW e, RowBy(e, t)
    PROVE  RowBy(e, u)
<1>1. /\ e = Marked(e, e.finished, e.status, e.flagged)
      /\ e.finished \in 0..u /\ e.status \in Statuses
  BY DEF RowBy
<1>2. e.flagged \in BOOLEAN
  BY Zenon DEF RowBy
<1> QED
  BY <1>1, <1>2, MarkedRow, Zenon

LEMMA StampType ==
    ASSUME NEW t \in Nat, NEW manual \in BOOLEAN
    PROVE  Stamp(t, manual) \in Int
BY PlanHistoryAssumption DEF Stamp

LEMMA WindowType ==
    ASSUME NEW m, NEW t \in Nat, NEW u \in Nat, \A e \in m : RowBy(e, t)
    PROVE  WindowStart(m, u) \in Int
<1> DEFINE ends == {e.finished : e \in {f \in m : f.status \in {"ok", "empty"}}} \ {0}
<1>1. CASE ends # {}
  <2>1. ends \subseteq Int /\ \A x \in ends : x <= t
    BY DEF RowBy
  <2>2. t \in Int
    OBVIOUS
  <2>3. \E x \in ends : \A y \in ends : y <= x
    BY <1>1, <2>1, <2>2, GreatestInt
  <2>4. \E x \in ends : \A y \in ends : x >= y
    BY <2>1, <2>3
  <2>5. Max(ends) \in ends
    BY <2>4 DEF Max
  <2> QED
    BY <1>1, <2>1, <2>5 DEF WindowStart
<1>2. CASE ends = {}
  BY <1>2, PlanHistoryAssumption DEF WindowStart
<1> QED
  BY <1>1, <1>2

-----------------------------------------------------------------------------
(* The inductive invariant *)

\* The running backup is the latest, and none of its rows is settled.
RunForm ==
    run # 0 => \A e \in archives :
                   /\ e.started <= run
                   /\ e.started = run => e.status = "in-progress"

PInv == TypeOK /\ WellFormed(archives, now) /\ RunForm

LEMMA TypeFacts ==
    ASSUME TypeOK
    PROVE  /\ now \in Nat /\ run \in Nat /\ MaxTime \in Nat /\ now <= MaxTime
           /\ \A e \in archives : RowBy(e, now)
BY PlanHistoryAssumption DEF TypeOK, IsRow, RowBy

\* Settled leaves the rows of the other sets as they are.
LEMMA SettledFacts ==
    ASSUME TypeOK, NEW result \in [1..MaxShards -> {"ok", "failed", "corrupt"}],
           NEW t \in Nat, now <= t
    PROVE  /\ \A f \in Settled(result, t) :
                \E e \in archives : SameKey(f, e) /\ RowBy(f, t)
           /\ \A g : g \notin {GroupId(e) : e \in {f \in archives : f.started = run}} =>
                Members(Settled(result, t), g) = Members(archives, g)
           /\ Groups(Settled(result, t)) = Groups(archives)
<1> DEFINE mine(e) ==
             /\ IsFirst(archives, e)
             /\ \E f \in archives : f.started = run /\ Filename(f) = Filename(e)
           new(e) == Marked(e, t, result[e.shard],
                            e.flagged \/ result[e.shard] = "corrupt")
<1>1. Settled(result, t) = {IF ~mine(e) THEN e ELSE new(e) : e \in archives}
  BY DEF Settled
<1>2. \A e \in archives : SameKey(e, e) /\ SameKey(new(e), e)
  BY MarkedFacts DEF SameKey
<1>3. ASSUME NEW e \in archives
      PROVE  RowBy(e, t) /\ RowBy(new(e), t)
  <2>1. RowBy(e, now) /\ now \in Nat
    BY TypeFacts
  <2>2. e.shard \in 1..MaxShards
    BY <2>1, PlanHistoryAssumption DEF RowBy
  <2>3. result[e.shard] \in Statuses /\ t \in 0..t
    BY <2>2 DEF Statuses
  <2>4. (e.flagged \/ result[e.shard] = "corrupt") \in BOOLEAN
    BY Zenon
  <2> QED
    BY <2>1, <2>3, <2>4, MarkedRow, LaterRow
<1>4. \A e, f \in archives : Filename(f) = Filename(e) => GroupId(f) = GroupId(e)
  BY DEF Filename, GroupId
<1>5. \A f \in Settled(result, t) : \E e \in archives :
        SameKey(f, e) /\ RowBy(f, t) /\ (f = e \/ mine(e))
  BY <1>1, <1>2, <1>3
<1>6. \A e \in archives : \E f \in Settled(result, t) :
        SameKey(f, e) /\ (f = e \/ mine(e))
  BY <1>1, <1>2
<1>7. Groups(Settled(result, t)) = Groups(archives)
  BY <1>5, <1>6 DEF Groups, SameKey
<1>8. ASSUME NEW g, g \notin {GroupId(e) : e \in {f \in archives : f.started = run}}
      PROVE  Members(Settled(result, t), g) = Members(archives, g)
  <2>1. \A e \in archives : GroupId(e) = g => ~mine(e)
    BY <1>4, <1>8
  <2>2. \A x \in Settled(result, t) : GroupId(x) = g => x \in archives
    BY <1>5, <2>1 DEF SameKey
  <2>3. \A x \in archives : GroupId(x) = g => x \in Settled(result, t)
    BY <1>6, <2>1
  <2> QED
    BY <2>2, <2>3 DEF Members
<1> QED
  BY <1>5, <1>7, <1>8

LEMMA InitPInv == Init => PInv
<1> SUFFICES ASSUME Init PROVE PInv
  OBVIOUS
<1>1. now = 0 /\ run = 0 /\ archives = {} /\ busy = {} /\ MaxTime \in Nat
  BY PlanHistoryAssumption DEF Init
<1>2. TypeOK
  BY <1>1 DEF TypeOK
<1>3. WellFormed(archives, now)
  BY <1>1 DEF WellFormed
<1> QED
  BY <1>1, <1>2, <1>3 DEF PInv, RunForm

LEMMA NewRowsFacts ==
    ASSUME NEW id \in Int, NEW kind \in Kinds, NEW n \in 1..MaxShards, NEW cycle \in Int,
           NEW from \in Int, NEW t \in Nat \ {0}
    PROVE  \A e \in NewRows(id, kind, n, cycle, from, t) :
             /\ e.started = t /\ GroupId(e) = <<id, kind>> /\ e.cycle = cycle
             /\ e.shard \in Nat /\ e.status = "in-progress" /\ RowBy(e, t)
<1> SUFFICES ASSUME NEW i \in 1..n
             PROVE  LET e == Row(id, kind, i, n, cycle, from, t, 0, "in-progress", FALSE)
                    IN  /\ e.started = t /\ GroupId(e) = <<id, kind>> /\ e.cycle = cycle
                        /\ e.shard \in Nat /\ e.status = "in-progress" /\ RowBy(e, t)
  BY DEF NewRows
<1>1. "in-progress" \in Statuses /\ t \in 1..t /\ 0 \in 0..t /\ t \in Nat /\ i \in Nat
  BY DEF Statuses
<1>2. FALSE \in BOOLEAN
  BY Zenon
<1>3. RowBy(Row(id, kind, i, n, cycle, from, t, 0, "in-progress", FALSE), t)
  BY <1>1, <1>2, RowFacts
<1> QED
  BY <1>1, <1>3 DEF Row, GroupId

LEMMA PrimedTypes ==
    ASSUME now' \in Nat, now' <= MaxTime, run' \in 0..now', busy' \subseteq 1..now',
           \A f \in archives' : RowBy(f, now')
    PROVE  TypeOK'
BY PlanHistoryAssumption DEF TypeOK, IsRow, RowBy

\* A step that settles, marks or drops rows keeps the invariant.
LEMMA KeptInv ==
    ASSUME PInv, now' \in Nat, now <= now', now' <= MaxTime, run' = 0,
           busy' \subseteq 1..now',
           \A f \in archives' : RowBy(f, now') /\ \E e \in archives : SameKey(f, e)
    PROVE  PInv'
<1>1. TypeOK'
  BY PrimedTypes
<1>2. WellFormed(archives', now')
  BY KeptForm DEF PInv
<1> QED
  BY <1>1, <1>2 DEF PInv, RunForm

LEMMA BeginInv ==
    ASSUME PInv, NEW id \in Int, NEW kind \in Kinds, NEW cycle \in Int, NEW from \in Int,
           Begin(id, kind, cycle, from)
    PROVE  PInv'
<1>1. TypeOK /\ now \in Nat /\ MaxTime \in Nat /\ WellFormed(archives, now)
  BY TypeFacts DEF PInv
<1>2. PICK n \in 1..MaxShards :
        archives' = archives \cup NewRows(id, kind, n, cycle, from, now + 1)
  BY DEF Begin
<1>3. now' = now + 1 /\ run' = now + 1 /\ busy' = busy /\ now < MaxTime
  BY DEF Begin
<1>4. \A e \in NewRows(id, kind, n, cycle, from, now + 1) :
        /\ e.started = now + 1 /\ GroupId(e) = <<id, kind>> /\ e.cycle = cycle
        /\ e.shard \in Nat /\ e.status = "in-progress" /\ RowBy(e, now + 1)
  BY <1>1, NewRowsFacts
<1>5. \A e \in archives : RowBy(e, now + 1) /\ e.started <= now /\ e.started \in Nat
  <2>1. \A e \in archives : RowBy(e, now)
    BY <1>1, TypeFacts
  <2>2. \A e \in archives : RowBy(e, now + 1)
    BY <2>1, <1>1, LaterRow
  <2> QED
    BY <2>2, <1>1 DEF WellFormed
<1>6. TypeOK'
  <2>1. now' \in Nat /\ now' <= MaxTime /\ run' \in 0..now' /\ busy' \subseteq 1..now'
    BY <1>1, <1>3 DEF TypeOK
  <2> QED
    BY <2>1, <1>2, <1>3, <1>4, <1>5, PrimedTypes
<1>7. WellFormed(archives', now')
  <2> DEFINE new == NewRows(id, kind, n, cycle, from, now + 1)
             g == <<id, kind>>
  <2>1. now + 1 \in Nat /\ now < now + 1
    BY <1>1
  <2>2. \A e \in new : /\ e.started = now + 1 /\ GroupId(e) = g /\ e.cycle = cycle
                      /\ e.shard \in Nat
    BY <1>4
  <2> HIDE DEF new, g
  <2>3. WellFormed(archives \cup new, now + 1)
    BY <2>1, <2>2, <1>1, JoinedForm
  <2> QED
    BY <2>3, <1>2, <1>3 DEF new
<1>8. RunForm'
  <2>1. \A e \in archives' : e.started <= now + 1 /\ (e.started = now + 1 => e.status = "in-progress")
    BY <1>1, <1>2, <1>4, <1>5
  <2> QED
    BY <2>1, <1>3 DEF RunForm
<1> QED
  BY <1>6, <1>7, <1>8 DEF PInv

LEMMA CommandInv ==
    ASSUME PInv, NEW m, Command(m),
           \A f \in m : RowBy(f, now + 1) /\ \E e \in archives : SameKey(f, e)
    PROVE  PInv'
<1>1. TypeOK /\ now \in Nat /\ MaxTime \in Nat
  BY TypeFacts DEF PInv
<1>2. /\ archives' = m /\ now' = now + 1 /\ run' = 0 /\ busy' = busy
      /\ now < MaxTime
  BY DEF Command
<1>3. now' \in Nat /\ now <= now' /\ now' <= MaxTime /\ busy' \subseteq 1..now'
  BY <1>1, <1>2 DEF TypeOK
<1> QED
  BY <1>2, <1>3, KeptInv

LEMMA PrunedFacts ==
    ASSUME NEW m, NEW t, NEW policy, NEW limit
    PROVE  \A f \in Pruned(m, t, policy, limit) : f \in m
BY DEF Pruned

\* The rows that a command may keep as they are.
LEMMA OldRows ==
    ASSUME PInv
    PROVE  /\ \A e \in archives : SameKey(e, e)
           /\ \A e \in archives, t \in Nat : now <= t => RowBy(e, t)
<1>1. now \in Nat /\ \A e \in archives : RowBy(e, now)
  BY TypeFacts DEF PInv
<1> QED
  BY <1>1, LaterRow DEF SameKey

LEMMA FullInv == PInv /\ StartFull => PInv'
<1> SUFFICES ASSUME PInv, NEW manual \in BOOLEAN,
                    Begin(Stamp(now + 1, manual), "full", Stamp(now + 1, manual), 0)
             PROVE  PInv'
  BY DEF StartFull
<1>1. now + 1 \in Nat
  BY TypeFacts DEF PInv
<1>2. Stamp(now + 1, manual) \in Int /\ "full" \in Kinds /\ 0 \in Int
  BY <1>1, StampType DEF Kinds
<1> QED
  BY <1>2, BeginInv

LEMMA CycleIdType ==
    ASSUME PInv, NEW h \in LatestComplete(archives)
    PROVE  CycleId(archives, h) \in Int
BY RepresentativeFacts DEF PInv, LatestComplete, Complete, Heads

LEMMA IncrementalInv == PInv /\ StartIncremental => PInv'
<1> SUFFICES ASSUME PInv, NEW manual \in BOOLEAN, NEW h \in LatestComplete(archives),
                    Begin(Stamp(now + 1, manual), "incr", CycleId(archives, h),
                          WindowStart(archives, now + 1))
             PROVE  PInv'
  BY DEF StartIncremental
<1>1. now \in Nat /\ now + 1 \in Nat /\ \A e \in archives : RowBy(e, now)
  BY TypeFacts DEF PInv
<1>2. /\ Stamp(now + 1, manual) \in Int /\ "incr" \in Kinds
      /\ CycleId(archives, h) \in Int /\ WindowStart(archives, now + 1) \in Int
  BY <1>1, StampType, CycleIdType, WindowType DEF Kinds
<1> QED
  BY <1>2, BeginInv

\* The manifest that an empty incremental saves before it prunes.
EmptyRow(id, cycle, from) ==
    Row(id, "incr", 1, 1, cycle, from, now + 1, now + 2, "empty", FALSE)

LEMMA EmptyFacts ==
    ASSUME PInv, EmptyIncremental
    PROVE  \E m, id :
             /\ NameIsFree(id, "incr")
             /\ \E policy \in Policies, limit \in Limits :
                   archives' = Pruned(m, now + 2, policy, limit)
             /\ WellFormed(m, now + 1)
             /\ \A e \in m : RowBy(e, now + 2)
             /\ \A g : g # <<id, "incr">> => Members(m, g) = Members(archives, g)
             /\ \A e \in Members(m, <<id, "incr">>) :
                   e \in archives \/ e.started = now + 1
             /\ \E cycle : m = archives \cup
                   {EmptyRow(id, cycle, WindowStart(archives, now + 1))}
             /\ LatestComplete(archives) # {}
<1>1. now \in Nat /\ \A e \in archives : RowBy(e, now)
  BY TypeFacts DEF PInv
<1>2. PICK manual \in BOOLEAN, h \in LatestComplete(archives), policy \in Policies,
           limit \in Limits :
        LET id == Stamp(now + 1, manual)
            empty == EmptyRow(id, CycleId(archives, h), WindowStart(archives, now + 1))
        IN  /\ NameIsFree(id, "incr")
            /\ archives' = Pruned(archives \cup {empty}, now + 2, policy, limit)
  BY DEF EmptyIncremental, EmptyRow
<1> DEFINE id == Stamp(now + 1, manual)
           cycle == CycleId(archives, h)
           from == WindowStart(archives, now + 1)
           e == EmptyRow(id, cycle, from)
           m == archives \cup {e}
<1>3. id \in Int /\ cycle \in Int /\ from \in Int
  BY <1>1, StampType, CycleIdType, WindowType
<1>4. /\ e.started = now + 1 /\ GroupId(e) = <<id, "incr">> /\ e.cycle = cycle
      /\ e.shard \in Nat
  BY DEF EmptyRow, Row, GroupId
<1>5. RowBy(e, now + 2)
  <2>1. /\ "incr" \in Kinds /\ "empty" \in Statuses /\ 1 \in 1..MaxShards /\ 1 \in 1..1
        /\ now + 2 \in Nat /\ now + 1 \in 1..(now + 2) /\ now + 2 \in 0..(now + 2)
    BY <1>1, PlanHistoryAssumption DEF Kinds, Statuses
  <2>2. FALSE \in BOOLEAN
    BY Zenon
  <2> QED
    BY <2>1, <2>2, <1>3, RowFacts DEF EmptyRow
<1> HIDE DEF id, cycle, from, e
<1>6. WellFormed(m, now + 1)
  <2>1. WellFormed(archives, now) /\ now + 1 \in Nat /\ now < now + 1
    BY <1>1 DEF PInv
  <2> QED
    BY <2>1, <1>3, <1>4, JoinedForm
<1>7. \A d \in m : RowBy(d, now + 2)
  <2>1. now + 2 \in Nat /\ now <= now + 2
    BY <1>1
  <2> QED
    BY <2>1, <1>1, <1>5, LaterRow
<1>8. \A g : g # <<id, "incr">> => Members(m, g) = Members(archives, g)
  BY <1>4 DEF Members
<1>9. /\ NameIsFree(id, "incr")
      /\ \E p \in Policies, l \in Limits : archives' = Pruned(m, now + 2, p, l)
  BY <1>2 DEF id, cycle, from, e
<1>10. \A d \in Members(m, <<id, "incr">>) : d \in archives \/ d.started = now + 1
  BY <1>4 DEF Members
<1>11. /\ \E c : m = archives \cup {EmptyRow(id, c, WindowStart(archives, now + 1))}
       /\ LatestComplete(archives) # {}
  BY DEF e, from
<1> HIDE DEF m
<1> QED
  BY <1>6, <1>7, <1>8, <1>9, <1>10, <1>11, Zenon

LEMMA EmptyInv == PInv /\ EmptyIncremental => PInv'
<1> SUFFICES ASSUME PInv, EmptyIncremental PROVE PInv'
  OBVIOUS
<1>1. PICK m :
        /\ \E policy \in Policies, limit \in Limits :
              archives' = Pruned(m, now + 2, policy, limit)
        /\ WellFormed(m, now + 1)
        /\ \A e \in m : RowBy(e, now + 2)
  BY EmptyFacts
<1>2. /\ now' = now + 2 /\ run' = 0 /\ busy' = busy \cup {now + 2}
      /\ now + 1 < MaxTime /\ now \in Nat /\ MaxTime \in Nat /\ busy \subseteq 1..now
  BY TypeFacts DEF EmptyIncremental, PInv, TypeOK
<1>3. \A f \in archives' : f \in m /\ SameKey(f, f)
  BY <1>1, PrunedFacts DEF SameKey
<1>4. TypeOK'
  <2>1. now' \in Nat /\ now' <= MaxTime /\ run' \in 0..now' /\ busy' \subseteq 1..now'
    BY <1>2
  <2> QED
    BY <2>1, <1>1, <1>2, <1>3, PrimedTypes
<1>5. WellFormed(archives', now')
  <2>1. now + 2 \in Nat /\ now + 1 <= now + 2
    BY <1>2
  <2> QED
    BY <2>1, <1>1, <1>2, <1>3, KeptForm
<1> QED
  BY <1>2, <1>4, <1>5 DEF PInv, RunForm

\* The manifest of a finished backup, and what retention may leave of it.
LEMMA FinishFacts ==
    ASSUME PInv, FinishBackup
    PROVE  \E m :
             /\ \/ archives' = m
                \/ \E policy \in Policies, limit \in Limits :
                       archives' = Pruned(m, now + 1, policy, limit)
             /\ WellFormed(m, now + 1)
             /\ \A f \in m : RowBy(f, now + 1) /\ \E e \in archives : SameKey(f, e)
             /\ \A g : g \notin {GroupId(e) : e \in {f \in archives : f.started = run}} =>
                   Members(m, g) = Members(archives, g)
             /\ Groups(m) = Groups(archives)
             /\ \E result \in [1..MaxShards -> {"ok", "failed", "corrupt"}] :
                   m = Settled(result, now + 1)
<1>1. TypeOK /\ now \in Nat /\ WellFormed(archives, now)
  BY TypeFacts DEF PInv
<1>2. PICK result \in [1..MaxShards -> {"ok", "failed", "corrupt"}] :
        \/ archives' = Settled(result, now + 1)
        \/ \E policy \in Policies, limit \in Limits :
              archives' = Pruned(Settled(result, now + 1), now + 1, policy, limit)
  BY DEF FinishBackup
<1> DEFINE m == Settled(result, now + 1)
<1>3. now + 1 \in Nat /\ now <= now + 1
  BY <1>1
<1>4. /\ \A f \in m : \E e \in archives : SameKey(f, e) /\ RowBy(f, now + 1)
      /\ \A g : g \notin {GroupId(e) : e \in {f \in archives : f.started = run}} =>
            Members(m, g) = Members(archives, g)
      /\ Groups(m) = Groups(archives)
  BY <1>1, <1>3, SettledFacts
<1>8. \E r \in [1..MaxShards -> {"ok", "failed", "corrupt"}] :
        m = Settled(r, now + 1)
  OBVIOUS
<1> HIDE DEF m
<1>5. WellFormed(m, now + 1)
  BY <1>1, <1>3, <1>4, KeptForm
<1>6. \/ archives' = m
      \/ \E policy \in Policies, limit \in Limits :
            archives' = Pruned(m, now + 1, policy, limit)
  BY <1>2 DEF m
<1>7. \A f \in m : RowBy(f, now + 1) /\ \E e \in archives : SameKey(f, e)
  BY <1>4
<1> QED
  BY <1>4, <1>5, <1>6, <1>7, <1>8, Zenon

LEMMA FinishInv == PInv /\ FinishBackup => PInv'
<1> SUFFICES ASSUME PInv, FinishBackup PROVE PInv'
  OBVIOUS
<1>1. PICK m :
        /\ \/ archives' = m
             \/ \E policy \in Policies, limit \in Limits :
                    archives' = Pruned(m, now + 1, policy, limit)
        /\ \A f \in m : RowBy(f, now + 1) /\ \E e \in archives : SameKey(f, e)
  BY FinishFacts
<1>2. \A f \in archives' : f \in m
  BY <1>1, PrunedFacts
<1>3. /\ now \in Nat /\ MaxTime \in Nat /\ run \in Nat /\ run <= now /\ busy \subseteq 1..now
      /\ now' = now + 1 /\ run' = 0 /\ now < MaxTime
      /\ busy' = busy \cup (run + 1)..(now + 1)
  BY TypeFacts DEF FinishBackup, PInv, TypeOK
<1>4. now' \in Nat /\ now <= now' /\ now' <= MaxTime /\ busy' \subseteq 1..now'
  BY <1>3
<1> QED
  BY <1>1, <1>2, <1>3, <1>4, KeptInv

LEMMA CrashInv == PInv /\ CrashBackup => PInv'
<1> SUFFICES ASSUME PInv, CrashBackup PROVE PInv'
  OBVIOUS
<1>1. /\ now \in Nat /\ MaxTime \in Nat /\ run \in Nat /\ run <= now /\ busy \subseteq 1..now
      /\ now' = now + 1 /\ run' = 0 /\ now < MaxTime /\ archives' = archives
      /\ busy' = busy \cup (run + 1)..(now + 1)
  BY TypeFacts DEF CrashBackup, PInv, TypeOK
<1>2. now' \in Nat /\ now <= now' /\ now' <= MaxTime /\ busy' \subseteq 1..now'
  BY <1>1
<1>3. \A f \in archives' : RowBy(f, now') /\ \E e \in archives : SameKey(f, e)
  BY <1>1, <1>2, OldRows
<1> QED
  BY <1>1, <1>2, <1>3, KeptInv

LEMMA PruneInv == PInv /\ Prune => PInv'
<1> SUFFICES ASSUME PInv, NEW policy \in Policies, NEW limit \in Limits,
                    Command(Pruned(archives, now + 1, policy, limit))
             PROVE  PInv'
  BY DEF Prune
<1>1. now + 1 \in Nat /\ now <= now + 1
  BY TypeFacts DEF PInv
<1> QED
  BY <1>1, PrunedFacts, OldRows, CommandInv

LEMMA WithoutInv ==
    ASSUME PInv, NEW gone, Command(Without(gone))
    PROVE  PInv'
<1>1. now + 1 \in Nat /\ now <= now + 1
  BY TypeFacts DEF PInv
<1>2. \A f \in Without(gone) : f \in archives
  BY DEF Without
<1> QED
  BY <1>1, <1>2, OldRows, CommandInv

\* --verify changes outcomes only.
LEMMA VerifyFacts ==
    ASSUME PInv, VerifySet
    PROVE  /\ Command(archives')
           /\ \A f \in archives' : RowBy(f, now + 1) /\ \E e \in archives : SameKey(f, e)
           /\ Groups(archives) \subseteq Groups(archives')
<1>1. PICK bad, clean :
        Command({IF Filename(e) \in clean
                 THEN Marked(e, e.finished,
                             IF e.status = "corrupt" THEN "ok" ELSE e.status, FALSE)
                 ELSE IF Filename(e) \in bad /\ ~e.flagged
                 THEN Marked(e, e.finished, "corrupt", FALSE)
                 ELSE e : e \in archives})
  BY DEF VerifySet
<1> DEFINE cleaned(e) == Marked(e, e.finished,
                                IF e.status = "corrupt" THEN "ok" ELSE e.status, FALSE)
           spoiled(e) == Marked(e, e.finished, "corrupt", FALSE)
           new(e) == IF Filename(e) \in clean THEN cleaned(e)
                     ELSE IF Filename(e) \in bad /\ ~e.flagged THEN spoiled(e) ELSE e
           m == {new(e) : e \in archives}
<1>2. Command(m)
  BY <1>1
<1>3. ASSUME NEW e \in archives
      PROVE  SameKey(new(e), e) /\ RowBy(new(e), now + 1)
  <2>1. /\ now \in Nat /\ now + 1 \in Nat /\ now <= now + 1 /\ RowBy(e, now)
        /\ RowBy(e, now + 1) /\ SameKey(e, e)
    BY TypeFacts, OldRows DEF PInv
  <2>2. /\ e.finished \in 0..(now + 1)
        /\ (IF e.status = "corrupt" THEN "ok" ELSE e.status) \in Statuses
        /\ "corrupt" \in Statuses
    BY <2>1 DEF RowBy, Statuses
  <2>3. FALSE \in BOOLEAN
    BY Zenon
  <2>4. RowBy(cleaned(e), now + 1) /\ RowBy(spoiled(e), now + 1)
    BY <2>1, <2>2, <2>3, MarkedRow
  <2>5. SameKey(cleaned(e), e) /\ SameKey(spoiled(e), e)
    BY MarkedFacts
  <2>6. new(e) = cleaned(e) \/ new(e) = spoiled(e) \/ new(e) = e
    OBVIOUS
  <2> HIDE DEF new, cleaned, spoiled
  <2> QED
    BY <2>1, <2>4, <2>5, <2>6
<1> HIDE DEF new
<1>4. /\ \A f \in m : RowBy(f, now + 1) /\ \E e \in archives : SameKey(f, e)
      /\ \A e \in archives : \E f \in m : SameKey(f, e)
  BY <1>3
<1> HIDE DEF m
<1>5. archives' = m
  BY <1>2 DEF Command
<1>6. Groups(archives) \subseteq Groups(m)
  BY <1>4 DEF Groups, SameKey
<1> QED
  BY <1>2, <1>4, <1>5, <1>6

\* --recover-failed and --finalize-archive change the outcome of one row.
LEMMA SettleOne ==
    ASSUME PInv, NEW e \in archives, NEW status \in Statuses
    PROVE  LET m == (archives \ {e}) \cup {Marked(e, now + 1, status, e.flagged)}
           IN  /\ \A f \in m : RowBy(f, now + 1) /\ \E d \in archives : SameKey(f, d)
               /\ \A d \in archives : \E f \in m : SameKey(f, d)
               /\ \A g : g # GroupId(e) => Members(m, g) = Members(archives, g)
<1> DEFINE f == Marked(e, now + 1, status, e.flagged)
<1>1. /\ now \in Nat /\ now + 1 \in Nat /\ now <= now + 1 /\ RowBy(e, now)
      /\ \A d \in archives : RowBy(d, now + 1) /\ SameKey(d, d)
  BY TypeFacts, OldRows DEF PInv
<1>2. e.flagged \in BOOLEAN
  BY <1>1, Zenon DEF RowBy
<1>3. now + 1 \in 0..(now + 1)
  BY <1>1
<1>4. RowBy(f, now + 1) /\ SameKey(f, e)
  BY <1>1, <1>2, <1>3, MarkedRow, MarkedFacts
<1> HIDE DEF f
<1>5. GroupId(f) = GroupId(e)
  BY <1>4 DEF SameKey
<1>6. \A g : g # GroupId(e) =>
        Members((archives \ {e}) \cup {f}, g) = Members(archives, g)
  BY <1>5 DEF Members
<1>7. /\ \A d \in (archives \ {e}) \cup {f} :
            RowBy(d, now + 1) /\ \E c \in archives : SameKey(d, c)
      /\ \A d \in archives : \E c \in (archives \ {e}) \cup {f} : SameKey(c, d)
  BY <1>1, <1>4
<1> QED
  BY <1>6, <1>7 DEF f

LEMMA SettleOneInv ==
    ASSUME PInv, NEW e \in archives, NEW status \in Statuses,
           Command((archives \ {e}) \cup {Marked(e, now + 1, status, e.flagged)})
    PROVE  PInv'
BY SettleOne, CommandInv

LEMMA NextInv == PInv /\ [Next]_vars => PInv'
<1> SUFFICES ASSUME PInv, [Next]_vars PROVE PInv'
  OBVIOUS
<1>1. CASE StartFull
  BY <1>1, FullInv
<1>2. CASE StartIncremental
  BY <1>2, IncrementalInv
<1>3. CASE EmptyIncremental
  BY <1>3, EmptyInv
<1>4. CASE FinishBackup
  BY <1>4, FinishInv
<1>5. CASE CrashBackup
  BY <1>5, CrashInv
<1>6. CASE Prune
  BY <1>6, PruneInv
<1>7. CASE DeleteCycle
  <2>1. PICK gone : Command(Without(gone))
    BY <1>7 DEF DeleteCycle
  <2> QED
    BY <2>1, WithoutInv
<1>8. CASE DeleteSet
  <2>1. PICK gone : Command(Without(gone))
    BY <1>8 DEF DeleteSet
  <2> QED
    BY <2>1, WithoutInv
<1>9. CASE VerifySet
  BY <1>9, VerifyFacts, CommandInv
<1>10. CASE RecoverFailed
  <2>1. "ok" \in Statuses
    BY DEF Statuses
  <2>2. PICK e \in archives :
          Command((archives \ {e}) \cup {Marked(e, now + 1, "ok", e.flagged)})
    BY <1>10 DEF RecoverFailed
  <2> QED
    BY <2>1, <2>2, SettleOneInv
<1>11. CASE FinalizeArchive
  <2>1. PICK e \in archives, status \in {"ok", "failed"} :
          Command((archives \ {e}) \cup {Marked(e, now + 1, status, e.flagged)})
    BY <1>11 DEF FinalizeArchive
  <2>2. status \in Statuses
    BY DEF Statuses
  <2> QED
    BY <2>1, <2>2, SettleOneInv
<1>12. CASE UNCHANGED vars
  <2>1. now' = now /\ archives' = archives /\ run' = run /\ busy' = busy
    BY <1>12 DEF vars
  <2>2. TypeOK'
    BY <2>1 DEF PInv, TypeOK, IsRow
  <2>3. WellFormed(archives', now') /\ RunForm'
    BY <2>1 DEF PInv, RunForm
  <2> QED
    BY <2>2, <2>3 DEF PInv
<1> QED
  BY <1>1, <1>2, <1>3, <1>4, <1>5, <1>6, <1>7, <1>8, <1>9, <1>10, <1>11, <1>12
  DEF Next, Backup, Deletion, Repair

\* Every reachable manifest is well formed: rows keep their shape, whatever is
\* settled, pruned, deleted or repaired, and the running backup is the latest.
THEOREM PlanInvariant == Spec => []PInv
BY InitPInv, NextInv, PTL DEF Spec

\* Every reachable manifest is well typed.
THEOREM PlanTypes == Spec => []TypeOK
<1>1. PInv => TypeOK
  BY DEF PInv
<1> QED
  BY <1>1, PlanInvariant, PTL

-----------------------------------------------------------------------------
(* What no step may do *)

\* The sets that the running backup is writing.
Running == {GroupId(e) : e \in {f \in archives : f.started = run}}

LEMMA GroupsKept ==
    ASSUME NEW m, \A e \in archives : \E f \in m : SameKey(f, e)
    PROVE  Groups(archives) \subseteq Groups(m)
BY DEF Groups, SameKey

LEMMA BeginFacts ==
    ASSUME NEW id, NEW kind, NEW cycle, NEW from, Begin(id, kind, cycle, from)
    PROVE  \E n : /\ archives' = archives \cup n /\ NameIsFree(id, kind) /\ run = 0
                 /\ \A e \in n : /\ GroupId(e) = <<id, kind>> /\ e.started = now + 1
                                 /\ e.status = "in-progress"
<1>1. PICK n \in 1..MaxShards :
        archives' = archives \cup NewRows(id, kind, n, cycle, from, now + 1)
  BY DEF Begin
<1>2. \A e \in NewRows(id, kind, n, cycle, from, now + 1) :
        /\ GroupId(e) = <<id, kind>> /\ e.started = now + 1
        /\ e.status = "in-progress"
  BY DEF NewRows, Row, GroupId
<1> QED
  BY <1>1, <1>2 DEF Begin

LEMMA AnyBegin ==
    ASSUME StartFull \/ StartIncremental
    PROVE  \E id, kind, cycle, from : Begin(id, kind, cycle, from)
BY DEF StartFull, StartIncremental

\* A set of which a row is not ok is not complete.
LEMMA RunningIncomplete ==
    ASSUME PInv, run # 0, NEW g \in Running
    PROVE  ~IsRestorable(archives, g) /\ ~IsComplete(archives, g)
<1>1. PICK e \in archives : e.started = run /\ GroupId(e) = g
  BY DEF Running
<1>2. e \in Members(archives, g) /\ e.status = "in-progress"
  BY <1>1 DEF PInv, RunForm, Members
<1> QED
  BY <1>2 DEF IsRestorable, IsComplete

LEMMA DamagedKept ==
    ASSUME NEW m, NEW n, NEW g \in Damaged(m), Members(m, g) = Members(n, g)
    PROVE  g \in Damaged(n)
<1>1. g \in Groups(n) /\ IsRestorable(n, g)
  BY SameMembers DEF Damaged, IsRestorable
<1> QED
  BY <1>1 DEF Damaged

LEMMA SparesStep ==
    ASSUME PInv, [Next]_vars
    PROVE  \/ Damaged(archives) \subseteq Groups(archives')
           \/ DeleteCycle \/ DeleteSet
<1> DEFINE Spared == Damaged(archives) \subseteq Groups(archives')
<1>1. Damaged(archives) \subseteq Groups(archives)
  BY DEF Damaged
<1>2. WellFormed(archives, now)
  BY DEF PInv
<1>3. ASSUME NEW id, NEW kind, NEW cycle, NEW from, Begin(id, kind, cycle, from)
      PROVE  Spared
  BY <1>1, <1>3, BeginFacts DEF Groups
<1>4. CASE StartFull \/ StartIncremental
  BY <1>3, <1>4, AnyBegin
<1>5. CASE EmptyIncremental
  <2>1. PICK m, id :
          /\ \E policy \in Policies, limit \in Limits :
                archives' = Pruned(m, now + 2, policy, limit)
          /\ WellFormed(m, now + 1)
          /\ \A g : g # <<id, "incr">> => Members(m, g) = Members(archives, g)
    BY <1>5, EmptyFacts
  <2>2. \A g \in Damaged(archives) : g # <<id, "incr">>
    BY DEF Damaged
  <2>3. Damaged(archives) \subseteq Damaged(m)
    BY <2>1, <2>2, DamagedKept
  <2> QED
    BY <2>1, <2>3, PruneSparesDamaged
<1>6. CASE FinishBackup
  <2>1. PICK m :
          /\ \/ archives' = m
             \/ \E policy \in Policies, limit \in Limits :
                    archives' = Pruned(m, now + 1, policy, limit)
          /\ WellFormed(m, now + 1)
          /\ \A g : g \notin Running => Members(m, g) = Members(archives, g)
          /\ Groups(m) = Groups(archives)
    BY <1>6, FinishFacts DEF Running
  <2>2. \A g \in Damaged(archives) : g \notin Running
    BY <1>6, RunningIncomplete DEF Damaged, FinishBackup
  <2>3. Damaged(archives) \subseteq Damaged(m)
    BY <2>1, <2>2, DamagedKept
  <2>4. Damaged(m) \subseteq Groups(m)
    BY DEF Damaged
  <2> QED
    BY <2>1, <2>3, <2>4, PruneSparesDamaged
<1>7. CASE CrashBackup
  BY <1>1, <1>7 DEF CrashBackup
<1>8. CASE Prune
  <2>1. PICK policy \in Policies, limit \in Limits : archives' = Pruned(archives, now + 1, policy, limit)
    BY <1>8 DEF Prune, Command
  <2> QED
    BY <2>1, <1>2, PruneSparesDamaged
<1>9. CASE VerifySet
  BY <1>1, <1>9, VerifyFacts
<1>10. ASSUME NEW e \in archives, NEW status \in Statuses,
              Command((archives \ {e}) \cup {Marked(e, now + 1, status, e.flagged)})
       PROVE  Spared
  BY <1>1, <1>10, SettleOne, GroupsKept DEF Command
<1>11. CASE RecoverFailed
  BY <1>10, <1>11 DEF RecoverFailed, Statuses
<1>12. CASE FinalizeArchive
  BY <1>10, <1>12 DEF FinalizeArchive, Statuses
<1>13. CASE UNCHANGED vars
  BY <1>1, <1>13 DEF vars
<1> QED
  BY <1>4, <1>5, <1>6, <1>7, <1>8, <1>9, <1>11, <1>12, <1>13
  DEF Next, Backup, Deletion, Repair

\* No backup, retention or repair removes a damaged full that can still be read
\* or healed, however its shards and those of the other fulls are damaged,
\* settled and re-verified.
THEOREM RetentionSparesTheorem == Spec => RetentionSparesDamaged
<1>1. PInv /\ [Next]_vars =>
        [Damaged(archives) \subseteq Groups(archives') \/ DeleteCycle \/ DeleteSet]_vars
  BY SparesStep
<1> QED
  BY <1>1, PlanInvariant, PTL DEF Spec, RetentionSparesDamaged

LEMMA KeepsStep ==
    ASSUME PInv, [Next]_vars, "rerun" \notin Commands,
           Complete(archives) # {}, Complete(archives') = {}
    PROVE  VerifySet
<1> DEFINE Keeps == Complete(archives') # {}
<1>1. WellFormed(archives, now)
  BY DEF PInv
<1>2. ASSUME NEW m, \A h \in Complete(archives) : Members(archives, h) = Members(m, h)
      PROVE  Complete(m) # {}
  BY <1>2, SameComplete
<1>3. \A h \in Complete(archives) :
        h \in Groups(archives) /\ h[2] = "full" /\ IsComplete(archives, h)
  BY DEF Complete, Heads, Opens
<1>4. ASSUME NEW id, NEW kind, NEW cycle, NEW from, Begin(id, kind, cycle, from)
      PROVE  Keeps
  <2>1. PICK n : /\ archives' = archives \cup n /\ <<id, kind>> \notin Groups(archives)
                 /\ \A e \in n : GroupId(e) = <<id, kind>>
    BY <1>4, BeginFacts DEF NameIsFree
  <2>2. \A h \in Complete(archives) : Members(archives, h) = Members(archives', h)
    BY <2>1, <1>3 DEF Members
  <2> QED
    BY <2>2, <1>2
<1>5. CASE StartFull \/ StartIncremental
  BY <1>4, <1>5, AnyBegin
<1>6. CASE EmptyIncremental
  <2>1. PICK m, id :
          /\ \E policy \in Policies, limit \in Limits :
                archives' = Pruned(m, now + 2, policy, limit)
          /\ WellFormed(m, now + 1)
          /\ \A g : g # <<id, "incr">> => Members(m, g) = Members(archives, g)
    BY <1>6, EmptyFacts
  <2>2. Complete(m) # {}
    BY <2>1, <1>2, <1>3
  <2> QED
    BY <2>1, <2>2, PruneKeepsNewest
<1>7. CASE FinishBackup
  <2>1. PICK m :
          /\ \/ archives' = m
             \/ \E policy \in Policies, limit \in Limits :
                    archives' = Pruned(m, now + 1, policy, limit)
          /\ WellFormed(m, now + 1)
          /\ \A g : g \notin Running => Members(m, g) = Members(archives, g)
    BY <1>7, FinishFacts DEF Running
  <2>2. \A h \in Complete(archives) : h \notin Running
    BY <1>3, <1>7, RunningIncomplete DEF FinishBackup
  <2>3. Complete(m) # {}
    BY <2>1, <2>2, <1>2
  <2> QED
    BY <2>1, <2>3, PruneKeepsNewest
<1>8. CASE CrashBackup
  BY <1>8 DEF CrashBackup
<1>9. CASE Prune
  <2>1. PICK policy \in Policies, limit \in Limits : archives' = Pruned(archives, now + 1, policy, limit)
    BY <1>9 DEF Prune, Command
  <2> QED
    BY <2>1, <1>1, PruneKeepsNewest
<1>10. PICK h \in NewestComplete(archives) : h \in Complete(archives) /\ h \in Heads(archives)
  BY <1>1, SomeNewest DEF NewestComplete, Complete
<1>11. ASSUME NEW gone, Command(Without(gone)), h \notin gone
       PROVE  Keeps
  <2>1. archives' = Cut(archives, gone)
    BY <1>11 DEF Command, Without, Cut
  <2>2. Members(archives, h) = Members(archives', h)
    BY <2>1, <1>11, CutFacts
  <2> QED
    BY <2>2, <1>10, SameComplete
<1>12. CASE DeleteCycle
  <2>1. PICK k \in Heads(archives) :
          /\ ~IsNewestCycle(archives, CycleId(archives, k))
          /\ Command(Without(CycleSets(archives, k)))
    BY <1>12 DEF DeleteCycle
  <2>2. k # h
    BY <2>1 DEF IsNewestCycle
  <2> QED
    BY <2>1, <2>2, <1>1, <1>10, <1>11, HeadsApart
<1>13. CASE DeleteSet
  <2>1. PICK g : /\ Opens(archives, g) => ~IsNewestCycle(archives, CycleId(archives, g))
                 /\ Command(Without({g}))
    BY <1>13 DEF DeleteSet
  <2>2. g # h
    BY <2>1, <1>10 DEF IsNewestCycle, Complete
  <2> QED
    BY <2>1, <2>2, <1>11
<1>14. ASSUME NEW e \in archives, NEW status \in Statuses,
              e.status # "ok",
              Command((archives \ {e}) \cup {Marked(e, now + 1, status, e.flagged)})
       PROVE  Keeps
  <2>1. \A k \in Complete(archives) : k # GroupId(e)
    BY <1>3, <1>14 DEF IsComplete, Members
  <2>2. \A k \in Complete(archives) : Members(archives, k) = Members(archives', k)
    BY <2>1, <1>14, SettleOne DEF Command
  <2> QED
    BY <2>2, <1>2
<1>15. CASE RecoverFailed
  BY <1>14, <1>15 DEF RecoverFailed, Statuses
<1>16. CASE FinalizeArchive
  BY <1>14, <1>16 DEF FinalizeArchive, Statuses
<1>17. CASE UNCHANGED vars
  BY <1>17 DEF vars
<1> QED
  BY <1>5, <1>6, <1>7, <1>8, <1>9, <1>12, <1>13, <1>15, <1>16, <1>17
  DEF Next, Backup, Deletion, Repair

\* Once a full has succeeded, no backup, retention policy, unforced delete or
\* repair leaves the plan without a complete cycle, as long as no two runs
\* share a file name.
THEOREM KeepsTheorem ==
    ASSUME "rerun" \notin Commands
    PROVE  Spec => KeepsACompleteCycle
<1>1. PInv /\ [Next]_vars =>
        [Complete(archives) # {} /\ Complete(archives') = {} => VerifySet]_vars
  BY KeepsStep
<1> QED
  BY <1>1, PlanInvariant, PTL DEF Spec, KeepsACompleteCycle

\* The rows of the running backup's sets are its own.
RunAlone ==
    run # 0 => \A e \in archives : GroupId(e) \in Running => e.started = run

LEMMA RunEnded ==
    ASSUME [Next]_vars, ~StartFull, ~StartIncremental
    PROVE  run' = 0 \/ UNCHANGED vars
BY DEF Next, Backup, Deletion, Repair, EmptyIncremental, FinishBackup, CrashBackup,
   Prune, DeleteCycle, DeleteSet, VerifySet, RecoverFailed, FinalizeArchive, Command

LEMMA AloneStep ==
    ASSUME PInv, RunAlone, [Next]_vars, "rerun" \notin Commands
    PROVE  RunAlone'
<1>1. ASSUME NEW id, NEW kind, NEW cycle, NEW from, Begin(id, kind, cycle, from)
      PROVE  RunAlone'
  <2>1. PICK n : /\ archives' = archives \cup n /\ <<id, kind>> \notin Groups(archives)
                 /\ \A e \in n : GroupId(e) = <<id, kind>> /\ e.started = now + 1
    BY <1>1, BeginFacts DEF NameIsFree
  <2>2. run' = now + 1
    BY <1>1 DEF Begin
  <2>3. now \in Nat /\ \A e \in archives : e.started \in Nat /\ e.started <= now
    BY DEF PInv, WellFormed
  <2>4. \A e \in archives' : e.started = now + 1 => e \in n
    BY <2>1, <2>3
  <2>5. Running' \subseteq {<<id, kind>>}
    BY <2>1, <2>2, <2>4 DEF Running
  <2>6. \A e \in archives' : GroupId(e) = <<id, kind>> => e \in n
    BY <2>1 DEF Groups
  <2> QED
    BY <2>1, <2>2, <2>5, <2>6 DEF RunAlone
<1>2. CASE StartFull \/ StartIncremental
  BY <1>1, <1>2, AnyBegin
<1>3. CASE UNCHANGED vars
  BY <1>3 DEF RunAlone, Running, vars
<1>4. CASE run' = 0
  BY <1>4 DEF RunAlone
<1> QED
  BY <1>2, <1>3, <1>4, RunEnded

LEMMA StandingFacts ==
    ASSUME NEW g \in Standing
    PROVE  g \in Groups(archives) /\ g \in Groups(archives') /\ g \notin Running
BY DEF Standing, Running

\* A new set, begun after all others, moves none of them.
LEMMA NewSetBased ==
    ASSUME PInv, NEW m, WellFormed(m, now + 1), NEW k, k \notin Groups(archives),
           \A g : g # k => Members(m, g) = Members(archives, g),
           \A e \in Members(m, k) : e.started = now + 1,
           NEW g \in Groups(archives), NEW h
    PROVE  <<g, h>> \in BasedOn(archives) <=> <<g, h>> \in BasedOn(m)
<1>1. WellFormed(archives, now) /\ now \in Nat /\ now + 1 \in Nat
  BY DEF PInv, WellFormed
<1>2. k \in Groups(m) => now + 1 <= Started(m, k)
  <2>1. SUFFICES ASSUME k \in Groups(m) PROVE now + 1 <= Started(m, k)
    OBVIOUS
  <2>2. \E e \in Members(m, k) : Started(m, k) = e.started
    BY <2>1, StartedFacts
  <2> QED
    BY <2>2, <1>1
<1>3. Started(archives, g) < now + 1
  BY <1>1, StartedFacts
<1>4. \A j : \/ Members(archives, j) = Members(m, j)
            \/ /\ j \in Groups(archives) => now + 1 <= Started(archives, j)
               /\ j \in Groups(m) => now + 1 <= Started(m, j)
  BY <1>2
<1> QED
  BY <1>1, <1>3, <1>4, LaterBased

LEMMA BasedStep ==
    ASSUME PInv, PInv', RunAlone, [Next]_vars, "rerun" \notin Commands, ~Repair,
           NEW g \in Standing, NEW h
    PROVE  <<g, h>> \in BasedOn(archives) <=> <<g, h>> \in BasedOn(archives')
<1> DEFINE Stays == <<g, h>> \in BasedOn(archives) <=> <<g, h>> \in BasedOn(archives')
<1>1. /\ WellFormed(archives, now) /\ WellFormed(archives', now') /\ now \in Nat
      /\ g \in Groups(archives) /\ g \in Groups(archives') /\ g \notin Running
  BY StandingFacts DEF PInv, WellFormed
<1>2. ASSUME NEW id, NEW kind, NEW cycle, NEW from, Begin(id, kind, cycle, from)
      PROVE  Stays
  <2>1. PICK n : /\ archives' = archives \cup n /\ <<id, kind>> \notin Groups(archives)
                 /\ \A e \in n : GroupId(e) = <<id, kind>> /\ e.started = now + 1
    BY <1>2, BeginFacts DEF NameIsFree
  <2>2. now' = now + 1
    BY <1>2 DEF Begin
  <2>3. \A j : j # <<id, kind>> => Members(archives', j) = Members(archives, j)
    BY <2>1 DEF Members
  <2>4. \A e \in Members(archives', <<id, kind>>) : e.started = now + 1
    BY <2>1 DEF Members, Groups
  <2> QED
    BY <1>1, <2>1, <2>2, <2>3, <2>4, NewSetBased
<1>3. CASE StartFull \/ StartIncremental
  BY <1>2, <1>3, AnyBegin
<1>4. CASE EmptyIncremental
  <2>1. PICK m, id :
          /\ NameIsFree(id, "incr")
          /\ \E policy \in Policies, limit \in Limits :
                archives' = Pruned(m, now + 2, policy, limit)
          /\ WellFormed(m, now + 1)
          /\ \A j : j # <<id, "incr">> => Members(m, j) = Members(archives, j)
          /\ \A e \in Members(m, <<id, "incr">>) : e \in archives \/ e.started = now + 1
    BY <1>4, EmptyFacts
  <2>2. <<id, "incr">> \notin Groups(archives)
    BY <2>1 DEF NameIsFree
  <2>3. \A e \in Members(m, <<id, "incr">>) : e.started = now + 1
    BY <2>1, <2>2 DEF Members, Groups
  <2>4. <<g, h>> \in BasedOn(archives) <=> <<g, h>> \in BasedOn(m)
    BY <1>1, <2>1, <2>2, <2>3, NewSetBased
  <2>5. <<g, h>> \in BasedOn(m) <=> <<g, h>> \in BasedOn(archives')
    BY <1>1, <2>1, PruneBased
  <2> QED
    BY <2>4, <2>5
<1>5. CASE FinishBackup
  <2>1. PICK m :
          /\ \/ archives' = m
             \/ \E policy \in Policies, limit \in Limits :
                    archives' = Pruned(m, now + 1, policy, limit)
          /\ WellFormed(m, now + 1)
          /\ \A f \in m : RowBy(f, now + 1) /\ \E e \in archives : SameKey(f, e)
          /\ \A j : j \notin Running => Members(m, j) = Members(archives, j)
          /\ Groups(m) = Groups(archives)
    BY <1>5, FinishFacts DEF Running
  <2>2. run # 0 /\ run \in Nat
    BY <1>5, TypeFacts DEF FinishBackup, PInv
  <2>3. \A e \in archives : GroupId(e) \in Running => e.started = run
    BY <2>2 DEF RunAlone
  <2>4. \A f \in m : GroupId(f) \in Running => f.started = run
    BY <2>1, <2>3 DEF SameKey
  <2>5. ASSUME NEW j \in Running
        PROVE  /\ j \in Groups(archives) => run <= Started(archives, j)
               /\ j \in Groups(m) => run <= Started(m, j)
    <3>1. j \in Groups(archives) => run = Started(archives, j)
      BY <1>1, <2>3, StartedFacts DEF Members
    <3>2. j \in Groups(m) => run = Started(m, j)
      BY <2>1, <2>4, StartedFacts DEF Members
    <3> QED
      BY <2>2, <3>1, <3>2
  <2>6. Started(archives, g) < run
    <3>1. PICK e \in Members(archives, g) : Started(archives, g) = e.started
      BY <1>1, StartedFacts
    <3>2. e \in archives /\ GroupId(e) = g /\ e.started <= run /\ e.started \in Nat
      BY <2>2 DEF Members, PInv, RunForm, WellFormed
    <3>3. e.started # run
      BY <1>1, <3>2 DEF Running
    <3> QED
      BY <2>2, <3>1, <3>2, <3>3
  <2>7. \A j : \/ Members(archives, j) = Members(m, j)
              \/ /\ j \in Groups(archives) => run <= Started(archives, j)
                 /\ j \in Groups(m) => run <= Started(m, j)
    BY <2>1, <2>5
  <2>8. <<g, h>> \in BasedOn(archives) <=> <<g, h>> \in BasedOn(m)
    BY <1>1, <2>1, <2>2, <2>6, <2>7, LaterBased
  <2>9. <<g, h>> \in BasedOn(m) <=> <<g, h>> \in BasedOn(archives')
    BY <1>1, <2>1, PruneBased
  <2> QED
    BY <2>8, <2>9
<1>6. CASE CrashBackup
  BY <1>6 DEF CrashBackup
<1>7. CASE Prune
  <2>1. PICK policy \in Policies, limit \in Limits : archives' = Pruned(archives, now + 1, policy, limit)
    BY <1>7 DEF Prune, Command
  <2> QED
    BY <1>1, <2>1, PruneBased
<1>8. ASSUME NEW gone, Command(Without(gone)),
             \A j, k : <<j, k>> \in BasedOn(archives) /\ k \in gone => j \in gone
      PROVE  Stays
  <2>1. archives' = Cut(archives, gone)
    BY <1>8 DEF Command, Without, Cut
  <2>2. g \in Groups(archives) \ gone
    BY <1>1, <2>1, CutFacts
  <2> QED
    BY <1>1, <1>8, <2>1, <2>2, CutBased
<1>9. CASE DeleteCycle
  <2>1. PICK k \in Heads(archives) : Command(Without(CycleSets(archives, k)))
    BY <1>9 DEF DeleteCycle
  <2>2. ASSUME NEW i, NEW j, <<i, j>> \in BasedOn(archives), j \in CycleSets(archives, k)
        PROVE  i \in CycleSets(archives, k)
    <3>1. j \in Heads(archives) /\ i \in CycleSets(archives, j)
      BY <1>1, <2>2, BasedFacts, CycleFacts
    <3>2. j = k
      BY <1>1, <2>2, <3>1, HeadsApart
    <3> QED
      BY <3>1, <3>2
  <2> QED
    BY <1>8, <2>1, <2>2
<1>10. CASE DeleteSet
  <2>1. PICK k : /\ Opens(archives, k) => CycleSets(archives, k) = {k}
                 /\ Command(Without({k}))
    BY <1>10 DEF DeleteSet
  <2>2. \A i, j : <<i, j>> \in BasedOn(archives) /\ j \in {k} => i \in {k}
    BY <1>1, <2>1, BasedFacts
  <2> QED
    BY <1>8, <2>1, <2>2
<1>11. CASE UNCHANGED vars
  BY <1>11 DEF vars
<1> QED
  BY <1>3, <1>4, <1>5, <1>6, <1>7, <1>9, <1>10, <1>11 DEF Next, Backup, Deletion

LEMMA ReparentsStep ==
    ASSUME PInv, PInv', RunAlone, [Next]_vars, "rerun" \notin Commands, StandingMoves
    PROVE  Repair
<1> SUFFICES ASSUME ~Repair PROVE FALSE
  OBVIOUS
<1>1. WellFormed(archives, now) /\ WellFormed(archives', now')
  BY DEF PInv
<1>2. /\ \A p \in BasedOn(archives) : p = <<p[1], p[2]>>
      /\ \A p \in BasedOn(archives') : p = <<p[1], p[2]>>
  BY <1>1, BasedFacts
<1>3. \A g \in Standing : \A h :
        <<g, h>> \in BasedOn(archives) <=> <<g, h>> \in BasedOn(archives')
  BY BasedStep
<1>4. \A p : p[1] \in Standing =>
        (p \in BasedOn(archives) <=> p \in BasedOn(archives'))
  BY <1>2, <1>3
<1> QED
  BY <1>4 DEF StandingMoves

\* No backup, retention policy or unforced delete moves a set to another full,
\* as long as no two runs share a file name.
THEOREM NeverReparentsTheorem ==
    ASSUME "rerun" \notin Commands
    PROVE  Spec => NeverReparents
<1>1. Init => RunAlone
  BY DEF Init, RunAlone
<1>2. PInv /\ RunAlone /\ [Next]_vars => RunAlone'
  BY AloneStep
<1>3. PInv /\ PInv' /\ RunAlone /\ [Next]_vars => [StandingMoves => Repair]_vars
  BY ReparentsStep
<1> QED
  BY <1>1, <1>2, <1>3, PlanInvariant, PTL DEF Spec, NeverReparents

-----------------------------------------------------------------------------
(* What the chain of incrementals covers, when archives are not split *)

Usable(e) == e.status \in {"ok", "corrupt", "empty"}

\* No two rows are of one set.
Lone(m) == \A e, f \in m : GroupId(e) = GroupId(f) => e = f

\* What e's backup did not see, it did while the clock readings B were taken.
Ended(e, B) ==
    /\ (e.started + 1)..e.finished \subseteq B
    /\ Usable(e) => e.finished # 0
    /\ e.status = "empty" => e.kind = "incr"

\* A usable backup before e has what changed at t: a full after it, or an
\* incremental whose window it lies in.
Reaches(m, e, t) ==
    \E f \in m : /\ f.started < e.started /\ t <= f.started /\ Usable(f)
                 /\ f.kind = "full" \/ f.from < t

\* What is too old for the window of an incremental is in an earlier backup.
\* The earlier one need not be in its cycle, as long as a full lies between:
\* that is what stays true when cycles are removed (CutReaches).
Chained(m, B) ==
    \A e \in m : e.kind = "incr" =>
        \A t \in 1..e.from : t \notin B => Reaches(m, e, t)

WindowInv ==
    /\ Lone(archives) /\ Chained(archives, busy)
    /\ \A e \in archives : Ended(e, busy)

LEMMA LoneFacts ==
    ASSUME NEW m, NEW t, WellFormed(m, t), Lone(m), NEW e \in m
    PROVE  /\ GroupId(e) \in Groups(m) /\ Members(m, GroupId(e)) = {e}
           /\ Started(m, GroupId(e)) = e.started
           /\ Opens(m, GroupId(e)) <=>
                  e.kind = "full" /\ e.status \in {"ok", "corrupt"}
           /\ IsComplete(m, GroupId(e)) <=> e.status = "ok" /\ ~e.flagged
<1>1. GroupId(e) \in Groups(m) /\ Members(m, GroupId(e)) = {e}
  BY DEF Groups, Members, Lone
<1>2. Started(m, GroupId(e)) = e.started
  BY <1>1, StartedFacts
<1>3. GroupId(e)[2] = e.kind
  BY DEF GroupId
<1> QED
  BY <1>1, <1>2, <1>3 DEF Opens, IsRestorable, IsComplete

LEMMA RowOf ==
    ASSUME NEW m, NEW g \in Groups(m)
    PROVE  \E e \in m : GroupId(e) = g
BY DEF Groups

\* Removing whole cycles leaves what is too old for an incremental that stays
\* within reach: the full its cycle starts with stays, and is later than what
\* went.
LEMMA CutReaches ==
    ASSUME NEW m, NEW u, WellFormed(m, u), Lone(m),
           \A e \in m : e.kind \in Kinds /\ (e.status = "empty" => e.kind = "incr"),
           NEW gone,
           \A g \in gone : \E h \in Heads(m) :
               g \in CycleSets(m, h) /\ CycleSets(m, h) \subseteq gone,
           NEW e \in Cut(m, gone), e.kind = "incr", NEW t \in Int, Reaches(m, e, t)
    PROVE  Reaches(Cut(m, gone), e, t)
<1> DEFINE ge == GroupId(e)
<1>1. e \in m /\ ge \notin gone /\ ge \in Groups(m) /\ Started(m, ge) = e.started
  BY LoneFacts DEF Cut
<1>2. \A d \in m : d.started \in Nat /\ (d.started = e.started => GroupId(d) = ge)
  BY <1>1 DEF WellFormed
<1>3. \A d \in m : d.kind = "full" => GroupId(d) # ge
  BY DEF GroupId
<1>4. ASSUME NEW k \in m, Opens(m, GroupId(k)), k.started <= e.started, t <= k.started
      PROVE  Reaches(Cut(m, gone), e, t)
  <2>1. GroupId(k) \in Groups(m) /\ Started(m, GroupId(k)) = k.started
    BY LoneFacts
  <2>2. PICK h \in Groups(m) : <<ge, h>> \in BasedOn(m) /\ k.started <= Started(m, h)
    BY <1>1, <1>4, <2>1, LatestOpener
  <2>3. Opens(m, h) /\ ge \in CycleSets(m, h) /\ h \in Heads(m)
    BY <2>2, BasedFacts, CycleFacts
  <2>4. h \notin gone
    <3>1. SUFFICES ASSUME h \in gone PROVE FALSE
      OBVIOUS
    <3>2. PICK j \in Heads(m) : h \in CycleSets(m, j) /\ CycleSets(m, j) \subseteq gone
      BY <3>1
    <3>3. h = j
      BY <3>2, <2>3, HeadsApart
    <3> QED
      BY <3>2, <3>3, <2>3, <1>1
  <2>5. PICK x \in m : GroupId(x) = h
    BY RowOf
  <2>6. x.kind = "full" /\ Usable(x) /\ Started(m, h) = x.started
    BY <2>3, <2>5, LoneFacts DEF Usable
  <2>7. Started(m, h) <= Started(m, ge)
    BY <2>3 DEF CycleSets
  <2>8. t <= x.started /\ x.started < e.started
    BY <1>1, <1>2, <1>3, <1>4, <2>2, <2>6, <2>7
  <2>9. x \in Cut(m, gone)
    BY <2>4, <2>5 DEF Cut
  <2> QED
    BY <2>6, <2>8, <2>9 DEF Reaches
<1>5. PICK f \in m : /\ f.started < e.started /\ t <= f.started /\ Usable(f)
                     /\ f.kind = "full" \/ f.from < t
  BY DEF Reaches
<1>6. CASE f.kind = "full"
  <2>1. f.status \in {"ok", "corrupt"}
    BY <1>5, <1>6 DEF Usable
  <2>2. Opens(m, GroupId(f))
    BY <1>6, <2>1, LoneFacts
  <2>3. f.started <= e.started
    BY <1>1, <1>2, <1>5
  <2> QED
    BY <1>4, <1>5, <2>2, <2>3
<1>7. CASE f.from < t /\ GroupId(f) \notin gone
  <2>1. f \in Cut(m, gone)
    BY <1>7 DEF Cut
  <2> QED
    BY <1>5, <1>7, <2>1 DEF Reaches
<1>8. CASE GroupId(f) \in gone
  <2>1. PICK h \in Heads(m) :
          GroupId(f) \in CycleSets(m, h) /\ CycleSets(m, h) \subseteq gone
    BY <1>8
  <2>2. Started(m, GroupId(f)) = f.started
    BY LoneFacts
  <2>3. /\ Started(m, h) <= f.started
        /\ \A j \in Heads(m) :
               Started(m, j) <= Started(m, h) \/ f.started < Started(m, j)
    BY <2>1, <2>2 DEF CycleSets
  <2>4. h \in Groups(m) /\ Started(m, h) \in Nat
    BY StartedFacts DEF Heads
  <2>5. Started(m, h) <= Started(m, ge)
    BY <1>1, <1>2, <1>5, <2>3, <2>4
  <2>6. PICK j \in Heads(m) :
          ~(Started(m, j) <= Started(m, h)) /\ ~(Started(m, ge) < Started(m, j))
    BY <1>1, <2>1, <2>5 DEF CycleSets
  <2>7. j \in Groups(m) /\ Opens(m, j)
    BY <2>4, <2>6 DEF Heads
  <2>8. PICK k \in m : GroupId(k) = j
    BY <2>7, RowOf
  <2>9. Started(m, j) = k.started
    BY <2>8, LoneFacts
  <2>10. f.started < k.started /\ k.started <= e.started
    <3>1. f.started \in Nat /\ k.started \in Nat /\ e.started \in Nat
      BY <1>1, <1>2
    <3>2. j \in Heads(m) /\ ~(Started(m, j) <= Started(m, h))
      BY <2>6
    <3>3. f.started < Started(m, j)
      BY <2>3, <3>2
    <3> QED
      BY <1>1, <2>6, <2>9, <3>1, <3>3
  <2>11. t <= k.started
    BY <1>2, <1>5, <2>10
  <2> QED
    BY <1>4, <2>7, <2>8, <2>10, <2>11
<1> QED
  BY <1>5, <1>6, <1>7, <1>8

\* Removing whole cycles keeps the chain.
LEMMA CutChained ==
    ASSUME NEW m, NEW u, WellFormed(m, u), Lone(m), NEW B,
           \A e \in m : e.kind \in Kinds /\ e.from \in Int /\ Ended(e, B),
           NEW gone,
           \A g \in gone : \E h \in Heads(m) :
               g \in CycleSets(m, h) /\ CycleSets(m, h) \subseteq gone,
           Chained(m, B)
    PROVE  /\ Lone(Cut(m, gone)) /\ Chained(Cut(m, gone), B)
           /\ \A e \in Cut(m, gone) : Ended(e, B)
<1>1. Cut(m, gone) \subseteq m
  BY DEF Cut
<1>2. \A e \in m : e.kind \in Kinds /\ (e.status = "empty" => e.kind = "incr")
  BY DEF Ended
<1>3. ASSUME NEW e \in Cut(m, gone), e.kind = "incr", NEW t \in 1..e.from, t \notin B
      PROVE  Reaches(Cut(m, gone), e, t)
  <2>1. Reaches(m, e, t) /\ t \in Int
    BY <1>1, <1>3 DEF Chained
  <2> QED
    BY <1>2, <1>3, <2>1, CutReaches
<1> QED
  BY <1>1, <1>3 DEF Lone, Chained

LEMMA PruneChained ==
    ASSUME NEW m, NEW u, WellFormed(m, u), Lone(m), NEW B,
           \A e \in m : e.kind \in Kinds /\ e.from \in Int /\ Ended(e, B),
           Chained(m, B), NEW t, NEW policy \in Policies, NEW limit
    PROVE  LET n == Pruned(m, t, policy, limit)
           IN  Lone(n) /\ Chained(n, B) /\ \A e \in n : Ended(e, B)
<1> DEFINE gone == Gone(m, t, policy, limit)
<1>1. ASSUME NEW g \in gone
      PROVE  \E h \in Heads(m) : g \in CycleSets(m, h) /\ CycleSets(m, h) \subseteq gone
  <2>1. PICK h \in Doomed(m, t, policy, limit) : g \in CycleSets(m, h)
    BY DEF Gone
  <2>2. h \in Heads(m)
    BY DoomedFacts DEF Complete
  <2>3. CycleSets(m, h) \subseteq gone
    BY DEF Gone
  <2> QED
    BY <2>1, <2>2, <2>3
<1> HIDE DEF gone
<1>2. Lone(Cut(m, gone)) /\ Chained(Cut(m, gone), B) /\ \A e \in Cut(m, gone) : Ended(e, B)
  BY <1>1, CutChained
<1> QED
  BY <1>2, PrunedIsCut DEF gone

\* New outcomes keep the chain if what could be used still can.
LEMMA RenewedChained ==
    ASSUME NEW m, NEW u, WellFormed(m, u), Lone(m), NEW B, Chained(m, B), NEW F,
           \A e \in m : /\ SameKey(F[e], e) /\ F[e].from = e.from
                        /\ Usable(e) => Usable(F[e])
                        /\ Ended(F[e], B),
           NEW n, \A e \in m : F[e] \in n, \A f \in n : \E e \in m : f = F[e]
    PROVE  Lone(n) /\ Chained(n, B) /\ \A e \in n : Ended(e, B)
<1>1. \A e \in m : /\ GroupId(F[e]) = GroupId(e) /\ F[e].kind = e.kind
                   /\ F[e].started = e.started
  BY DEF SameKey, GroupId
<1>2. Lone(n)
  BY <1>1 DEF Lone
<1>3. ASSUME NEW e \in m, e.kind = "incr", NEW t \in 1..e.from, t \notin B
      PROVE  Reaches(n, F[e], t)
  <2>1. Reaches(m, e, t)
    BY <1>3 DEF Chained
  <2> QED
    BY <2>1, <1>1 DEF Reaches
<1>4. Chained(n, B)
  BY <1>1, <1>3 DEF Chained
<1> QED
  BY <1>2, <1>4

\* The start of a window is the end of a backup that succeeded.
LEMMA WindowFacts ==
    ASSUME NEW m, NEW t, WellFormed(m, t), NEW u \in Nat, \A e \in m : RowBy(e, u),
           Lone(m), \A e \in m : Usable(e) => e.finished # 0,
           LatestComplete(m) # {}, NEW s
    PROVE  \E f \in m : Usable(f) /\ f.finished = WindowStart(m, s)
<1> DEFINE ends == {e.finished : e \in {f \in m : f.status \in {"ok", "empty"}}} \ {0}
<1>1. PICK h : h \in Complete(m)
  BY DEF LatestComplete
<1>2. PICK x \in m : GroupId(x) = h
  BY <1>1, RowOf DEF Complete, Heads
<1>3. x.status = "ok"
  BY <1>1, <1>2, LoneFacts DEF Complete
<1>4. x.finished \in ends
  BY <1>3 DEF Usable
<1>5. ends \subseteq Int /\ (\A y \in ends : y <= u) /\ u \in Int
  BY DEF RowBy
<1>6. \E y \in ends : \A z \in ends : z <= y
  BY <1>4, <1>5, GreatestInt
<1>7. \E y \in ends : \A z \in ends : y >= z
  BY <1>5, <1>6
<1>8. Max(ends) \in ends
  BY <1>7 DEF Max
<1>9. WindowStart(m, s) \in ends
  BY <1>4, <1>8 DEF WindowStart
<1> QED
  BY <1>9 DEF Usable

\* A backup that starts extends the chain: what is too old for its window is in
\* the backup its window starts after, or within reach of that.
LEMMA JoinedChained ==
    ASSUME NEW m, NEW u, WellFormed(m, u), Lone(m), NEW B,
           \A e \in m : RowBy(e, u) /\ Ended(e, B),
           Chained(m, B),
           NEW d, d.started \in Nat, u < d.started, GroupId(d) \notin Groups(m),
           Ended(d, B), d.from \in Int,
           d.kind = "incr" =>
               /\ LatestComplete(m) # {}
               /\ \E s : d.from = WindowStart(m, s)
    PROVE  /\ Lone(m \cup {d}) /\ Chained(m \cup {d}, B)
           /\ \A e \in m \cup {d} : Ended(e, B)
<1> DEFINE n == m \cup {d}
<1>1. Lone(n)
  BY DEF Lone, Groups
<1>2. ASSUME NEW e, NEW t, Reaches(m, e, t) PROVE Reaches(n, e, t)
  BY <1>2 DEF Reaches
<1>3. u \in Nat /\ \A e \in m : /\ e.started \in Nat /\ e.started <= u
                                /\ e.kind \in Kinds /\ e.from \in Int
                                /\ e.finished \in Nat
  BY DEF WellFormed, RowBy
<1>4. ASSUME d.kind = "incr", NEW t \in 1..d.from, t \notin B
      PROVE  Reaches(n, d, t)
  <2>1. PICK f \in m : Usable(f) /\ f.finished = d.from
    BY <1>3, <1>4, WindowFacts DEF Ended
  <2>2. t <= f.started
    <3>1. (f.started + 1)..f.finished \subseteq B
      BY DEF Ended
    <3> QED
      BY <1>3, <1>4, <2>1, <3>1
  <2>3. f.started < d.started
    BY <1>3
  <2>4. CASE f.kind = "full" \/ f.from < t
    BY <2>1, <2>2, <2>3, <2>4 DEF Reaches
  <2>5. CASE f.kind = "incr" /\ t <= f.from
    <3>1. t \in 1..f.from
      BY <1>3, <2>5
    <3>2. Reaches(m, f, t)
      BY <1>4, <2>5, <3>1 DEF Chained
    <3>3. PICK g \in m : /\ g.started < f.started /\ t <= g.started /\ Usable(g)
                         /\ g.kind = "full" \/ g.from < t
      BY <3>2 DEF Reaches
    <3>4. g.started < d.started
      BY <1>3, <2>3, <3>3
    <3> QED
      BY <3>3, <3>4 DEF Reaches
  <2>6. f.kind \in Kinds /\ f.from \in Int /\ t \in Int
    BY <1>3
  <2> QED
    BY <2>4, <2>5, <2>6 DEF Kinds
<1>5. Chained(n, B)
  BY <1>2, <1>4 DEF Chained
<1> QED
  BY <1>1, <1>5

\* The rows of an unsplit backup.
Unsplit == MaxShards = 1 /\ Commands \subseteq {"delete-cycle", "verify"}

LEMMA WindowTypes ==
    ASSUME PInv, WindowInv
    PROVE  /\ WellFormed(archives, now) /\ now \in Nat /\ run \in Nat
           /\ \A e \in archives : /\ RowBy(e, now) /\ Ended(e, busy)
                                  /\ e.kind \in Kinds /\ e.from \in Int
           /\ Lone(archives) /\ Chained(archives, busy)
<1>1. now \in Nat /\ run \in Nat /\ \A e \in archives : RowBy(e, now)
  BY TypeFacts DEF PInv
<1> QED
  BY <1>1 DEF PInv, WindowInv, RowBy

LEMMA WindowBegin ==
    ASSUME PInv, WindowInv, Unsplit,
           NEW id, NEW kind \in Kinds, NEW cycle, NEW from \in Int,
           kind = "incr" => /\ LatestComplete(archives) # {}
                            /\ from = WindowStart(archives, now + 1),
           Begin(id, kind, cycle, from)
    PROVE  WindowInv'
<1> DEFINE d == Row(id, kind, 1, 1, cycle, from, now + 1, 0, "in-progress", FALSE)
<1>1. archives' = archives \cup {d} /\ busy' = busy
  <2>1. PICK n \in 1..1 :
          archives' = archives \cup NewRows(id, kind, n, cycle, from, now + 1)
    BY DEF Begin, Unsplit
  <2>2. n = 1 /\ 1..1 = {1}
    OBVIOUS
  <2>3. NewRows(id, kind, 1, cycle, from, now + 1) = {d}
    BY <2>2 DEF NewRows
  <2> QED
    BY <2>1, <2>2, <2>3 DEF Begin
<1>2. GroupId(d) \notin Groups(archives)
  BY DEF Begin, NameIsFree, Unsplit, GroupId, Row
<1>3. /\ d.started = now + 1 /\ d.finished = 0 /\ d.from = from /\ d.kind = kind
      /\ d.status = "in-progress"
  BY DEF Row
<1> HIDE DEF d
<1>4. now \in Nat /\ now + 1 \in Nat /\ now < now + 1
  BY WindowTypes
<1>5. Ended(d, busy)
  BY <1>3, <1>4 DEF Ended, Usable
<1>6. /\ Lone(archives \cup {d}) /\ Chained(archives \cup {d}, busy)
      /\ \A e \in archives \cup {d} : Ended(e, busy)
  BY <1>2, <1>3, <1>4, <1>5, WindowTypes, JoinedChained
<1> QED
  BY <1>1, <1>6 DEF WindowInv

LEMMA WindowEmpty ==
    ASSUME PInv, WindowInv, Unsplit, EmptyIncremental
    PROVE  WindowInv'
<1>1. PICK m, id :
        /\ NameIsFree(id, "incr")
        /\ \E policy \in Policies, limit \in Limits :
              archives' = Pruned(m, now + 2, policy, limit)
        /\ WellFormed(m, now + 1)
        /\ \A e \in m : RowBy(e, now + 2)
        /\ \E cycle : m = archives \cup
              {EmptyRow(id, cycle, WindowStart(archives, now + 1))}
        /\ LatestComplete(archives) # {}
  BY EmptyFacts
<1>2. PICK cycle : m = archives \cup
        {EmptyRow(id, cycle, WindowStart(archives, now + 1))}
  BY <1>1
<1> DEFINE d == EmptyRow(id, cycle, WindowStart(archives, now + 1))
           B == busy \cup {now + 2}
<1>3. /\ d.started = now + 1 /\ d.finished = now + 2 /\ d.status = "empty"
      /\ d.kind = "incr" /\ d.from = WindowStart(archives, now + 1)
      /\ GroupId(d) = <<id, "incr">>
  BY DEF EmptyRow, Row, GroupId
<1>4. now \in Nat /\ now + 1 \in Nat /\ now < now + 1 /\ busy' = B
  BY WindowTypes DEF EmptyIncremental
<1>5. GroupId(d) \notin Groups(archives)
  BY <1>1, <1>3 DEF NameIsFree, Unsplit
<1>6. Ended(d, B) /\ d.from \in Int
  <2>1. (now + 1 + 1)..(now + 2) \subseteq B
    BY <1>4
  <2>2. RowBy(d, now + 2)
    BY <1>1, <1>2
  <2> QED
    BY <1>3, <1>4, <2>1, <2>2 DEF Ended, RowBy
<1>7. (\A e \in archives : Ended(e, B)) /\ Chained(archives, B)
  BY WindowTypes DEF Ended, Chained
<1> HIDE DEF d, B
<1>8. Lone(m) /\ Chained(m, B) /\ \A e \in m : Ended(e, B)
  BY <1>1, <1>2, <1>3, <1>4, <1>5, <1>6, <1>7, WindowTypes, JoinedChained DEF d
<1>9. \A e \in m : e.kind \in Kinds /\ e.from \in Int
  BY <1>1 DEF RowBy
<1>10. /\ Lone(archives') /\ Chained(archives', B)
       /\ \A e \in archives' : Ended(e, B)
  <2>1. PICK policy \in Policies, limit \in Limits :
          archives' = Pruned(m, now + 2, policy, limit)
    BY <1>1
  <2>2. WellFormed(m, now + 1)
    BY <1>1
  <2> QED
    BY <2>1, <2>2, <1>8, <1>9, PruneChained
<1> QED
  BY <1>4, <1>10 DEF WindowInv

LEMMA WindowFinish ==
    ASSUME PInv, WindowInv, Unsplit, FinishBackup
    PROVE  WindowInv'
<1>1. PICK m :
        /\ \/ archives' = m
           \/ \E policy \in Policies, limit \in Limits :
                  archives' = Pruned(m, now + 1, policy, limit)
        /\ WellFormed(m, now + 1)
        /\ \A f \in m : RowBy(f, now + 1) /\ \E e \in archives : SameKey(f, e)
        /\ \E result \in [1..MaxShards -> {"ok", "failed", "corrupt"}] :
              m = Settled(result, now + 1)
  BY FinishFacts
<1>2. PICK result \in [1..MaxShards -> {"ok", "failed", "corrupt"}] :
        m = Settled(result, now + 1)
  BY <1>1
<1> DEFINE mine(e) ==
             /\ IsFirst(archives, e)
             /\ \E f \in archives : f.started = run /\ Filename(f) = Filename(e)
           new(e) == Marked(e, now + 1, result[e.shard],
                            e.flagged \/ result[e.shard] = "corrupt")
           F == [e \in archives |-> IF ~mine(e) THEN e ELSE new(e)]
           B == busy \cup (run + 1)..(now + 1)
<1>3. /\ \A e \in archives : F[e] \in m
      /\ \A f \in m : \E e \in archives : f = F[e]
  BY <1>2 DEF Settled
<1>4. now \in Nat /\ run \in Nat /\ run # 0 /\ busy' = B
  BY WindowTypes DEF FinishBackup
<1>5. ASSUME NEW e \in archives, ~mine(e)
      PROVE  /\ SameKey(F[e], e) /\ F[e].from = e.from /\ (Usable(e) => Usable(F[e]))
             /\ Ended(F[e], B)
  <2>1. F[e] = e /\ Ended(e, busy)
    BY <1>5, WindowTypes
  <2> QED
    BY <2>1 DEF Ended, SameKey
<1>6. ASSUME NEW e \in archives, mine(e)
      PROVE  /\ SameKey(F[e], e) /\ F[e].from = e.from /\ (Usable(e) => Usable(F[e]))
             /\ Ended(F[e], B)
  <2>1. F[e] = new(e)
    BY <1>6
  <2>2. PICK f \in archives : f.started = run /\ Filename(f) = Filename(e)
    BY <1>6
  <2>3. e.started = run
    BY <2>2, WindowTypes DEF Lone, Filename, GroupId
  <2>4. e.status = "in-progress"
    BY <1>4, <2>3 DEF PInv, RunForm
  <2>5. e.shard \in 1..MaxShards
    BY WindowTypes, PlanHistoryAssumption DEF RowBy
  <2>6. result[e.shard] \in {"ok", "failed", "corrupt"}
    BY <2>5
  <2>7. /\ SameKey(new(e), e) /\ new(e).from = e.from /\ new(e).finished = now + 1
        /\ new(e).status = result[e.shard]
    BY MarkedFacts
  <2>8. new(e).started = run
    BY <2>3, <2>7 DEF SameKey
  <2>9. Ended(new(e), B)
    BY <1>4, <2>6, <2>7, <2>8 DEF Ended, Usable
  <2> QED
    BY <2>1, <2>4, <2>7, <2>9 DEF Usable
<1> HIDE DEF F, mine
<1>7. Chained(archives, B)
  BY WindowTypes DEF Chained
<1> HIDE DEF B
<1>8. Lone(m) /\ Chained(m, B) /\ \A e \in m : Ended(e, B)
  <2>1. \A e \in archives : /\ SameKey(F[e], e) /\ F[e].from = e.from
                            /\ Usable(e) => Usable(F[e])
                            /\ Ended(F[e], B)
    BY <1>5, <1>6
  <2>2. WellFormed(archives, now) /\ Lone(archives)
    BY WindowTypes
  <2> QED
    BY <2>1, <2>2, <1>3, <1>7, RenewedChained
<1>9. \A e \in m : e.kind \in Kinds /\ e.from \in Int
  BY <1>1 DEF RowBy
<1>10. /\ Lone(archives') /\ Chained(archives', B)
       /\ \A e \in archives' : Ended(e, B)
  BY <1>1, <1>8, <1>9, PruneChained
<1> QED
  BY <1>4, <1>10 DEF WindowInv

LEMMA WindowVerify ==
    ASSUME PInv, WindowInv, Unsplit, VerifySet
    PROVE  WindowInv'
<1>1. PICK g \in Groups(archives) :
        \E bad \in SUBSET Verifiable(g), clean \in SUBSET Verifiable(g) :
        Command({IF Filename(e) \in clean
                 THEN Marked(e, e.finished,
                             IF e.status = "corrupt" THEN "ok" ELSE e.status, FALSE)
                 ELSE IF Filename(e) \in bad /\ ~e.flagged
                 THEN Marked(e, e.finished, "corrupt", FALSE)
                 ELSE e : e \in archives})
  BY DEF VerifySet
<1>2. PICK bad \in SUBSET Verifiable(g), clean \in SUBSET Verifiable(g) :
        Command({IF Filename(e) \in clean
                 THEN Marked(e, e.finished,
                             IF e.status = "corrupt" THEN "ok" ELSE e.status, FALSE)
                 ELSE IF Filename(e) \in bad /\ ~e.flagged
                 THEN Marked(e, e.finished, "corrupt", FALSE)
                 ELSE e : e \in archives})
  BY <1>1
<1> DEFINE cleaned(e) == Marked(e, e.finished,
                                IF e.status = "corrupt" THEN "ok" ELSE e.status, FALSE)
           spoiled(e) == Marked(e, e.finished, "corrupt", FALSE)
<1>6. ASSUME NEW e \in archives
      PROVE  /\ SameKey(cleaned(e), e) /\ cleaned(e).from = e.from
             /\ cleaned(e).finished = e.finished /\ cleaned(e).kind = e.kind
             /\ cleaned(e).status = IF e.status = "corrupt" THEN "ok" ELSE e.status
             /\ SameKey(spoiled(e), e) /\ spoiled(e).from = e.from
             /\ spoiled(e).finished = e.finished /\ spoiled(e).status = "corrupt"
  <2>1. /\ SameKey(cleaned(e), e) /\ cleaned(e).from = e.from
        /\ cleaned(e).finished = e.finished /\ cleaned(e).kind = e.kind
        /\ cleaned(e).status = IF e.status = "corrupt" THEN "ok" ELSE e.status
    BY DEF Marked, Row, SameKey, GroupId
  <2>2. /\ SameKey(spoiled(e), e) /\ spoiled(e).from = e.from
        /\ spoiled(e).finished = e.finished /\ spoiled(e).status = "corrupt"
    BY DEF Marked, Row, SameKey, GroupId
  <2> QED
    BY <2>1, <2>2
<1> DEFINE new(e) == IF Filename(e) \in clean THEN cleaned(e)
                     ELSE IF Filename(e) \in bad /\ ~e.flagged THEN spoiled(e) ELSE e
           F == [e \in archives |-> new(e)]
<1>3. /\ \A e \in archives : F[e] \in archives'
      /\ \A f \in archives' : \E e \in archives : f = F[e]
      /\ busy' = busy
  BY <1>2 DEF Command
<1>4. ASSUME NEW e \in archives
      PROVE  /\ SameKey(F[e], e) /\ F[e].from = e.from /\ (Usable(e) => Usable(F[e]))
             /\ Ended(F[e], busy)
  <2>1. Ended(e, busy) /\ SameKey(e, e)
    BY WindowTypes DEF SameKey
  <2>2. CASE F[e] = e
    BY <2>1, <2>2
  <2>3. CASE F[e] = cleaned(e)
    <3> HIDE DEF cleaned, F
    <3> QED
      BY <2>1, <2>3, <1>6 DEF Ended, Usable, SameKey
  <2>4. CASE F[e] = spoiled(e) /\ Filename(e) \in bad
    <3>1. PICK f \in Members(archives, g) :
            Filename(e) = Filename(f) /\ f.status \in {"ok", "corrupt"}
      BY <2>4 DEF Verifiable, Unsplit
    <3>2. f = e
      BY <3>1, WindowTypes DEF Members, Lone, Filename, GroupId
    <3> HIDE DEF spoiled, F
    <3> QED
      BY <2>1, <2>4, <1>6, <3>1, <3>2 DEF Ended, Usable, SameKey
  <2> QED
    BY <2>2, <2>3, <2>4
<1> HIDE DEF F
<1>5. Lone(archives') /\ Chained(archives', busy) /\ \A e \in archives' : Ended(e, busy)
  BY <1>3, <1>4, WindowTypes, RenewedChained
<1> QED
  BY <1>3, <1>5 DEF WindowInv

LEMMA WindowStep ==
    ASSUME PInv, WindowInv, Unsplit, [Next]_vars
    PROVE  WindowInv'
<1>1. CASE StartFull
  <2>1. PICK manual \in BOOLEAN :
          Begin(Stamp(now + 1, manual), "full", Stamp(now + 1, manual), 0)
    BY <1>1 DEF StartFull
  <2>2. "full" \in Kinds /\ "full" # "incr" /\ 0 \in Int
    BY DEF Kinds
  <2> QED
    BY <2>1, <2>2, WindowBegin
<1>2. CASE StartIncremental
  <2>1. PICK manual \in BOOLEAN, h \in LatestComplete(archives) :
          Begin(Stamp(now + 1, manual), "incr", CycleId(archives, h),
                WindowStart(archives, now + 1))
    BY <1>2 DEF StartIncremental
  <2>2. now \in Nat /\ now + 1 \in Nat /\ "incr" \in Kinds
    BY WindowTypes DEF Kinds
  <2>3. WindowStart(archives, now + 1) \in Int
    BY <2>2, WindowTypes, WindowType
  <2> QED
    BY <2>1, <2>2, <2>3, WindowBegin
<1>3. CASE EmptyIncremental
  BY <1>3, WindowEmpty
<1>4. CASE FinishBackup
  BY <1>4, WindowFinish
<1>5. CASE CrashBackup
  <2>1. archives' = archives /\ busy \subseteq busy'
    BY <1>5 DEF CrashBackup
  <2> QED
    BY <2>1 DEF WindowInv, Ended, Chained
<1>6. CASE Prune
  <2>1. PICK policy \in Policies, limit \in Limits :
          archives' = Pruned(archives, now + 1, policy, limit) /\ busy' = busy
    BY <1>6 DEF Prune, Command
  <2> QED
    BY <2>1, WindowTypes, PruneChained DEF WindowInv
<1>7. CASE DeleteCycle
  <2>1. PICK h \in Heads(archives) : Command(Without(CycleSets(archives, h)))
    BY <1>7 DEF DeleteCycle
  <2>2. archives' = Cut(archives, CycleSets(archives, h)) /\ busy' = busy
    BY <2>1 DEF Command, Without, Cut
  <2> QED
    BY <2>2, WindowTypes, CutChained DEF WindowInv
<1>8. CASE VerifySet
  BY <1>8, WindowVerify
<1>9. ~DeleteSet /\ ~RecoverFailed /\ ~FinalizeArchive
  BY DEF DeleteSet, RecoverFailed, FinalizeArchive, Unsplit
<1>10. CASE UNCHANGED vars
  BY <1>10 DEF vars, WindowInv
<1> QED
  BY <1>1, <1>2, <1>3, <1>4, <1>5, <1>6, <1>7, <1>8, <1>9, <1>10
  DEF Next, Backup, Deletion, Repair

\* What an incremental of the latest complete full reaches is of its chain.
LEMMA NothingMissed ==
    ASSUME PInv, WindowInv
    PROVE  NoChangeMissed
<1> SUFFICES ASSUME NEW h \in LatestComplete(archives),
                    NEW e \in archives, GroupId(e) \in CycleSets(archives, h),
                    e.kind = "incr", Usable(e),
                    NEW t \in (Started(archives, h) + 1)..now,
                    t <= e.started, t \notin busy
             PROVE  \E f \in archives :
                       /\ GroupId(f) \in CycleSets(archives, h) /\ f.kind = "incr"
                       /\ Usable(f) /\ f.from < t /\ t <= f.started
  BY DEF NoChangeMissed, Usable
<1>1. /\ WellFormed(archives, now) /\ Lone(archives)
      /\ \A f \in archives : f.started \in Nat /\ f.kind \in Kinds /\ f.from \in Int
  BY WindowTypes DEF WellFormed
<1>2. h \in Groups(archives) /\ Opens(archives, h) /\ Started(archives, h) \in Nat
  BY <1>1, StartedFacts DEF LatestComplete, Complete, Heads
<1>3. \A f \in archives : /\ GroupId(f) \in Groups(archives)
                          /\ Started(archives, GroupId(f)) = f.started
  BY <1>1, LoneFacts
<1>4. t \in Int /\ Started(archives, h) < t
  BY <1>2, WindowTypes
<1>5. /\ Started(archives, h) <= e.started
      /\ \A k \in Groups(archives) : Opens(archives, k) =>
             Started(archives, k) <= Started(archives, h) \/ e.started < Started(archives, k)
  BY <1>1, <1>2, <1>3, CycleFacts
<1>6. CASE e.from < t
  BY <1>6
<1>7. CASE t <= e.from
  <2>1. t \in 1..e.from
    BY <1>1, <1>2, <1>4, <1>7
  <2>2. Reaches(archives, e, t)
    BY <2>1 DEF WindowInv, Chained
  <2>3. PICK f \in archives : /\ f.started < e.started /\ t <= f.started /\ Usable(f)
                              /\ f.kind = "full" \/ f.from < t
    BY <2>2 DEF Reaches
  <2>4. f.kind # "full"
    <3>1. SUFFICES ASSUME f.kind = "full" PROVE FALSE
      OBVIOUS
    <3>2. f.status \in {"ok", "corrupt"}
      BY <2>3, <3>1 DEF WindowInv, Ended, Usable
    <3>3. Opens(archives, GroupId(f))
      BY <1>1, <3>1, <3>2, LoneFacts
    <3>4. f.started <= Started(archives, h) \/ e.started < f.started
      BY <1>3, <1>5, <3>3
    <3> QED
      BY <1>1, <1>2, <1>4, <2>3, <3>4
  <2>5. f.kind = "incr" /\ f.from < t
    BY <1>1, <2>3, <2>4 DEF Kinds
  <2>6. Started(archives, h) <= f.started
    BY <1>1, <1>2, <1>4, <2>3
  <2>7. ASSUME NEW k \in Groups(archives), Opens(archives, k)
        PROVE  Started(archives, k) <= Started(archives, h) \/ f.started < Started(archives, k)
    <3>1. Started(archives, k) \in Nat
      BY <1>1, StartedFacts
    <3> QED
      BY <1>1, <1>5, <2>3, <2>7, <3>1
  <2>8. GroupId(f) \in CycleSets(archives, h)
    BY <1>1, <1>2, <1>3, <2>6, <2>7, CycleFacts
  <2> QED
    BY <2>3, <2>5, <2>8
<1> QED
  BY <1>1, <1>4, <1>6, <1>7

\* The chain of the latest complete full misses no change, whatever backups
\* fail or die, whatever retention removes and whatever a verify finds, as long
\* as archives are not split, no set is deleted out of its cycle, no outcome is
\* settled by hand or after a crash, and no two runs share a file name.
THEOREM NoChangeMissedTheorem ==
    ASSUME Unsplit
    PROVE  Spec => []NoChangeMissed
<1>1. Init => WindowInv
  BY DEF Init, WindowInv, Lone, Chained
<1>2. PInv /\ WindowInv /\ [Next]_vars => WindowInv'
  BY WindowStep
<1>3. PInv /\ WindowInv => NoChangeMissed
  BY NothingMissed
<1> QED
  BY <1>1, <1>2, <1>3, PlanInvariant, PTL DEF Spec

=============================================================================
