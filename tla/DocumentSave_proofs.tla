------------------------- MODULE DocumentSave_proofs -------------------------
(***************************************************************************)
(* Proofs about DocumentSave, for any editors, names, weights and budgets, *)
(* and any number of edits, saves, operations, failures and changes by     *)
(* other programs: admitted saves stay within the budget and no permit is  *)
(* lost, guards have one holder, no file vanishes that nobody named, and a *)
(* clean tab shows what its file holds.                                    *)
(***************************************************************************)
EXTENDS DocumentSave, FiniteSetTheorems, SequenceTheorems, WellFoundedInduction, TLAPS

-----------------------------------------------------------------------------
(* The bytes of a set of permits.                                           *)

LEMMA LeastNumber ==
    ASSUME NEW T \in SUBSET Nat, T # {}
    PROVE  \E n \in T : \A m \in T : n <= m
<1> DEFINE R == OpToRel(<, Nat)
<1>1. \E x \in T : \A y \in T : ~ (<<y, x>> \in R)
  BY NatLessThanWellFounded, WFMin, Zenon
<1>2. \A x, y \in Nat : x < y => <<x, y>> \in R
  BY DEF OpToRel
<1> HIDE DEF R
<1>3. PICK n \in T : \A y \in T : ~ (<<y, n>> \in R)
  BY <1>1
<1>4. ASSUME NEW m \in T
      PROVE  n <= m
  <2>1. m \in Nat /\ n \in Nat /\ ~ (<<m, n>> \in R)
    BY <1>3
  <2> QED BY <1>2, <2>1
<1> QED BY <1>3, <1>4

\* A smallest set of those that are not good.
LEMMA SmallestSet ==
    ASSUME NEW A, IsFiniteSet(A), NEW F \in SUBSET (SUBSET A), F # {}
    PROVE  \E s \in F : /\ IsFiniteSet(s) /\ Cardinality(s) \in Nat
                        /\ \A x \in s : s \ {x} \notin F
<1> DEFINE T == {Cardinality(s) : s \in F}
<1>1. \A s \in F : IsFiniteSet(s) /\ Cardinality(s) \in Nat
  BY FS_Subset, FS_CardinalityType
<1>2. T \in SUBSET Nat /\ T # {} /\ \A s \in F : Cardinality(s) \in T
  BY <1>1
<1> HIDE DEF T
<1>3. PICK n \in T : \A m \in T : n <= m
  BY <1>2, LeastNumber
<1>5. PICK s \in F : Cardinality(s) = n
  BY <1>3 DEF T
<1>6. ASSUME NEW x \in s, s \ {x} \in F
      PROVE  FALSE
  <2>1. Cardinality(s \ {x}) = n - 1
    BY <1>1, <1>5, FS_RemoveElement
  <2>2. n <= Cardinality(s \ {x}) /\ n \in Nat
    BY <1>2, <1>3, <1>6
  <2> QED BY <2>1, <2>2
<1> QED BY <1>1, <1>6

Pick(s) == CHOOSE x \in s : TRUE

\* g adds up the subsets of S, taking away one picked permit after the other.
Weigh(g, S) ==
  g = [s \in SUBSET S |-> IF s = {} THEN 0 ELSE g[s \ {Pick(s)}] + Weight[Pick(s).tab]]

Weighing(S) == CHOOSE g : Weigh(g, S)

LEMMA PickIn == ASSUME NEW s, s # {} PROVE Pick(s) \in s
BY DEF Pick

LEMMA ChargeIsWeighing == ASSUME NEW a PROVE Charge(a) = Weighing(a)[a]
BY DEF Charge, FoldSet, MapThenFoldSet, Weighing, Weigh, Pick

LEMMA WeighUnique ==
    ASSUME NEW A, NEW B, IsFiniteSet(A), NEW g, NEW h, Weigh(g, A), Weigh(h, B)
    PROVE  \A s \in SUBSET (A \cap B) : g[s] = h[s]
<1> DEFINE F == {s \in SUBSET (A \cap B) : g[s] # h[s]}
<1> SUFFICES ASSUME F # {} PROVE FALSE
  OBVIOUS
<1>1. F \in SUBSET (SUBSET A)
  OBVIOUS
<1>2. PICK s \in F : \A x \in s : s \ {x} \notin F
  BY <1>1, SmallestSet
<1>3. s \in SUBSET A /\ s \in SUBSET B
  BY <1>2
<1>4. /\ g[s] = IF s = {} THEN 0 ELSE g[s \ {Pick(s)}] + Weight[Pick(s).tab]
      /\ h[s] = IF s = {} THEN 0 ELSE h[s \ {Pick(s)}] + Weight[Pick(s).tab]
  BY <1>3 DEF Weigh
<1>5. s # {} => g[s \ {Pick(s)}] = h[s \ {Pick(s)}]
  BY <1>2, <1>3, PickIn
<1> QED BY <1>2, <1>4, <1>5

LEMMA WeighExists ==
    ASSUME NEW A, IsFiniteSet(A)
    PROVE  Weigh(Weighing(A), A)
<1> DEFINE F == {s \in SUBSET A : ~ \E g : Weigh(g, s)}
<1> SUFFICES F = {}
  BY DEF Weighing
<1> SUFFICES ASSUME F # {} PROVE FALSE
  OBVIOUS
<1>1. PICK S \in F : IsFiniteSet(S) /\ \A x \in S : S \ {x} \notin F
  BY SmallestSet
<1>2. ASSUME NEW x \in S, NEW r \in SUBSET (S \ {x})
      PROVE  IsFiniteSet(r) /\ Weigh(Weighing(r), r)
  <2>1. PICK g : Weigh(g, S \ {x})
    BY <1>1, <1>2
  <2>2. Weigh([s \in SUBSET r |-> g[s]], r)
    <3> DEFINE f == [s \in SUBSET r |-> g[s]]
    <3>1. ASSUME NEW s \in SUBSET r
          PROVE  f[s] = IF s = {} THEN 0 ELSE f[s \ {Pick(s)}] + Weight[Pick(s).tab]
      <4>1. s \in SUBSET (S \ {x}) /\ s \ {Pick(s)} \in SUBSET r
        OBVIOUS
      <4>2. g[s] = IF s = {} THEN 0 ELSE g[s \ {Pick(s)}] + Weight[Pick(s).tab]
        BY <2>1, <4>1 DEF Weigh
      <4> QED BY <4>1, <4>2
    <3> QED BY <3>1 DEF Weigh
  <2> QED BY <1>1, <2>2, FS_Subset DEF Weighing
<1> DEFINE h == [s \in SUBSET S |-> IF s = {} THEN 0
                   ELSE Weighing(s \ {Pick(s)})[s \ {Pick(s)}] + Weight[Pick(s).tab]]
<1>3. ASSUME NEW s \in SUBSET S, s # {}
      PROVE  h[s \ {Pick(s)}] = Weighing(s \ {Pick(s)})[s \ {Pick(s)}]
  <2> DEFINE r == s \ {Pick(s)}
             q == r \ {Pick(r)}
  <2>1. Pick(s) \in S /\ r \in SUBSET (S \ {Pick(s)}) /\ q \in SUBSET (S \ {Pick(s)})
    BY <1>3, PickIn
  <2>2. Weigh(Weighing(r), r) /\ Weigh(Weighing(q), q) /\ IsFiniteSet(r)
    BY <1>2, <2>1
  <2>3. Weighing(r)[r] = IF r = {} THEN 0 ELSE Weighing(r)[q] + Weight[Pick(r).tab]
    BY <2>2 DEF Weigh
  <2>4. Weighing(r)[q] = Weighing(q)[q]
    BY <2>2, WeighUnique
  <2>5. h[r] = IF r = {} THEN 0 ELSE Weighing(q)[q] + Weight[Pick(r).tab]
    BY <2>1
  <2> QED BY <2>3, <2>4, <2>5
<1>4. Weigh(h, S)
  BY <1>3 DEF Weigh
<1> QED BY <1>1, <1>4

LEMMA ChargeSteps ==
    ASSUME NEW a, IsFiniteSet(a)
    PROVE  /\ a = {} => Charge(a) = 0
           /\ a # {} => Pick(a) \in a /\ Charge(a) = Charge(a \ {Pick(a)}) + Weight[Pick(a).tab]
<1>1. Weigh(Weighing(a), a) /\ Weigh(Weighing(a \ {Pick(a)}), a \ {Pick(a)})
  BY WeighExists, FS_RemoveElement, FS_Subset
<1>2. Weighing(a)[a] = IF a = {} THEN 0 ELSE Weighing(a)[a \ {Pick(a)}] + Weight[Pick(a).tab]
  BY <1>1 DEF Weigh
<1>3. Weighing(a)[a \ {Pick(a)}] = Weighing(a \ {Pick(a)})[a \ {Pick(a)}]
  <2>1. PICK b : b = a \ {Pick(a)}
    OBVIOUS
  <2>2. b \in SUBSET (a \cap b) /\ Weigh(Weighing(a), a) /\ Weigh(Weighing(b), b)
    BY <1>1, <2>1
  <2>3. Weighing(a)[b] = Weighing(b)[b]
    BY <2>2, WeighUnique
  <2> QED BY <2>1, <2>3
<1> QED BY <1>2, <1>3, ChargeIsWeighing, PickIn

Permits == [id : Nat, tab : Tabs]

LEMMA ChargeType ==
    ASSUME NEW a \in SUBSET Permits, IsFiniteSet(a)
    PROVE  Charge(a) \in Nat
<1> DEFINE F == {s \in SUBSET a : Charge(s) \notin Nat}
<1> SUFFICES ASSUME F # {} PROVE FALSE
  OBVIOUS
<1>1. PICK s \in F : IsFiniteSet(s) /\ \A x \in s : s \ {x} \notin F
  BY SmallestSet
<1>2. s # {} /\ Pick(s) \in s /\ Charge(s) = Charge(s \ {Pick(s)}) + Weight[Pick(s).tab]
  <2>1. Charge(s) \notin Nat
    BY <1>1
  <2> HIDE DEF F
  <2>2. /\ s = {} => Charge(s) = 0
        /\ s # {} => Pick(s) \in s /\ Charge(s) = Charge(s \ {Pick(s)}) + Weight[Pick(s).tab]
    BY <1>1, ChargeSteps
  <2> QED BY <2>1, <2>2
<1>3. Charge(s \ {Pick(s)}) \in Nat
  BY <1>1, <1>2
<1>4. Weight[Pick(s).tab] \in Nat
  BY <1>2, SaveAssumption DEF Permits
<1> QED BY <1>1, <1>2, <1>3, <1>4

\* A permit adds its bytes, whatever the order in which they are added up.
LEMMA ChargeAdds ==
    ASSUME NEW a \in SUBSET Permits, IsFiniteSet(a), NEW x \in a
    PROVE  Charge(a) = Charge(a \ {x}) + Weight[x.tab]
<1> DEFINE F == {s \in SUBSET a : \E y \in s : Charge(s) # Charge(s \ {y}) + Weight[y.tab]}
<1> SUFFICES ASSUME F # {} PROVE FALSE
  OBVIOUS
<1>1. PICK s \in F : IsFiniteSet(s) /\ \A y \in s : s \ {y} \notin F
  BY SmallestSet
<1>2. PICK y \in s : Charge(s) # Charge(s \ {y}) + Weight[y.tab]
  BY <1>1
<1> DEFINE z == Pick(s)
           r == s \ {y, z}
<1>3. z \in s /\ Charge(s) = Charge(s \ {z}) + Weight[z.tab]
  BY <1>1, <1>2, ChargeSteps
<1>4. y # z /\ y \in s \ {z} /\ z \in s \ {y}
  BY <1>2, <1>3
<1>5. r = (s \ {z}) \ {y} /\ r = (s \ {y}) \ {z}
  OBVIOUS
<1>6. s \ {z} \in SUBSET a /\ s \ {y} \in SUBSET a /\ s \ {z} \notin F /\ s \ {y} \notin F
  BY <1>1, <1>3
<1>7. Charge(s \ {z}) = Charge(r) + Weight[y.tab] /\ Charge(s \ {y}) = Charge(r) + Weight[z.tab]
  BY <1>4, <1>5, <1>6
<1>8. Charge(r) \in Nat /\ Weight[y.tab] \in Nat /\ Weight[z.tab] \in Nat
  <2>1. r \in SUBSET Permits /\ IsFiniteSet(r) /\ y \in Permits /\ z \in Permits
    BY <1>1, <1>3, FS_Subset
  <2> QED BY <2>1, ChargeType, SaveAssumption DEF Permits
<1> HIDE DEF r, z
<1> QED BY <1>2, <1>3, <1>7, <1>8

\* Fewer permits hold no more bytes.
LEMMA ChargeShrinks ==
    ASSUME NEW a \in SUBSET Permits, IsFiniteSet(a), NEW b \in SUBSET a
    PROVE  Charge(b) <= Charge(a)
<1> DEFINE F == {s \in SUBSET a : b \subseteq s /\ ~ (Charge(b) <= Charge(s))}
<1> SUFFICES ASSUME F # {} PROVE FALSE
  OBVIOUS
<1>0. F \in SUBSET (SUBSET a)
  OBVIOUS
<1>1. PICK s \in F : IsFiniteSet(s) /\ \A y \in s : s \ {y} \notin F
  <2> HIDE DEF F
  <2> QED BY <1>0, SmallestSet
<1>2. Charge(b) \in Nat /\ Charge(s) \in Nat
  BY <1>1, ChargeType, FS_Subset
<1>3. PICK y \in s : y \notin b
  BY <1>1, <1>2
<1>4. Charge(b) <= Charge(s \ {y})
  BY <1>1, <1>3
<1>5. Charge(s) = Charge(s \ {y}) + Weight[y.tab]
  BY <1>1, <1>3, ChargeAdds
<1>6. Charge(s \ {y}) \in Nat /\ Weight[y.tab] \in Nat
  <2>1. s \ {y} \in SUBSET Permits /\ IsFiniteSet(s \ {y}) /\ y \in Permits
    BY <1>1, <1>3, FS_Subset
  <2> QED BY <2>1, ChargeType, SaveAssumption DEF Permits
<1> QED BY <1>1, <1>2, <1>4, <1>5, <1>6

-----------------------------------------------------------------------------
(* The drain of the queue.                                                  *)

\* No two requests of one editor.
Distinct(q) == \A i, j \in DOMAIN q : q[i].tab = q[j].tab => i = j

LEMMA KeptDef ==
    ASSUME NEW q \in Seq(Queued)
    PROVE  /\ Kept(q)[0] = <<>>
           /\ \A n \in 1 .. Len(q) :
                  Kept(q)[n] = IF RequestCurrent(q[n]) THEN Append(Kept(q)[n - 1], q[n])
                               ELSE Kept(q)[n - 1]
<1> DEFINE With(n, x) == IF RequestCurrent(q[n]) THEN Append(x, q[n]) ELSE x
           Is(g, k) == g = [n \in 0 .. k |-> IF n = 0 THEN <<>> ELSE With(n, g[n - 1])]
           Ok(k) == \E g : Is(g, k)
           T == {k \in 0 .. Len(q) : ~Ok(k)}
<1>1. Len(q) \in Nat /\ (Ok(Len(q)) => Is(Kept(q), Len(q)))
  <2> DEFINE C == CHOOSE g : Is(g, Len(q))
  <2>1. C = Kept(q)
    BY DEF Kept
  <2> HIDE DEF With, Is
  <2>2. ASSUME Ok(Len(q)) PROVE Is(C, Len(q))
    BY <2>2
  <2> HIDE DEF C, Ok
  <2> QED BY <2>1, <2>2
<1> HIDE DEF With
<1>2. Ok(0)
  <2>1. Is([i \in 0 .. 0 |-> <<>>], 0)
    OBVIOUS
  <2> QED BY <2>1
<1>3. ASSUME NEW k \in Nat \ {0}, Ok(k - 1) PROVE Ok(k)
  <2>1. PICK g : Is(g, k - 1)
    BY <1>3
  <2> DEFINE h == [n \in 0 .. k |-> IF n # k THEN g[n] ELSE With(k, g[k - 1])]
  <2>2. \A n \in 0 .. k - 1 : g[n] = IF n = 0 THEN <<>> ELSE With(n, g[n - 1])
    BY <2>1
  <2>3. Is(h, k)
    BY <2>2
  <2> QED BY <2>3
<1> HIDE DEF Ok
<1>4. T = {}
  <2> SUFFICES ASSUME T # {} PROVE FALSE
    OBVIOUS
  <2>1. T \in SUBSET Nat
    OBVIOUS
  <2>2. PICK k \in T : \A m \in T : k <= m
    <3> HIDE DEF T
    <3> QED BY <2>1, LeastNumber
  <2>3. k # 0 /\ k \in Nat \ {0} /\ k - 1 \in 0 .. Len(q) /\ k - 1 \notin T
    BY <1>1, <1>2, <2>2
  <2> QED BY <1>3, <2>2, <2>3
<1>5. Is(Kept(q), Len(q))
  BY <1>1, <1>4
<1>6. /\ Kept(q)[0] = <<>>
      /\ \A n \in 1 .. Len(q) : Kept(q)[n] = With(n, Kept(q)[n - 1])
  <2> HIDE DEF Is
  <2>1. PICK g : g = Kept(q) /\ Is(g, Len(q))
    BY <1>5
  <2>2. /\ g[0] = <<>>
        /\ \A n \in 1 .. Len(q) : g[n] = With(n, g[n - 1])
    BY <1>1, <2>1 DEF Is
  <2> QED BY <2>1, <2>2
<1> QED BY <1>6 DEF With

\* What is kept of a queue are requests of it that are current, each once.
LEMMA KeptFacts ==
    ASSUME NEW q \in Seq(Queued), Distinct(q), NEW n \in 0 .. Len(q)
    PROVE  /\ Kept(q)[n] \in Seq(Queued) /\ Distinct(Kept(q)[n])
           /\ \A i \in DOMAIN Kept(q)[n] :
                 /\ RequestCurrent(Kept(q)[n][i])
                 /\ \E j \in 1 .. n : Kept(q)[n][i] = q[j]
<1> DEFINE Good(m, k) == /\ k \in Seq(Queued) /\ Distinct(k)
                         /\ \A i \in DOMAIN k : /\ RequestCurrent(k[i])
                                               /\ \E j \in 1 .. m : k[i] = q[j]
           T == {m \in 0 .. Len(q) : ~Good(m, Kept(q)[m])}
<1>1. Len(q) \in Nat /\ T \in SUBSET Nat
  OBVIOUS
<1> SUFFICES ASSUME T # {} PROVE FALSE
  OBVIOUS
<1>2. PICK m \in T : \A l \in T : m <= l
  <2> HIDE DEF T
  <2> QED BY <1>1, LeastNumber
<1>3. Good(0, <<>>)
  BY DEF Distinct
<1>4. m # 0
  <2>1. Kept(q)[0] = <<>>
    BY KeptDef
  <2> HIDE DEF Good
  <2>2. ~Good(m, Kept(q)[m])
    BY <1>2
  <2> QED BY <1>3, <2>1, <2>2
<1>5. m - 1 \in 0 .. Len(q) /\ m - 1 \notin T /\ m \in 1 .. Len(q)
  BY <1>1, <1>2, <1>4
<1>6. PICK k : k = Kept(q)[m - 1]
  OBVIOUS
<1>7. Good(m - 1, k)
  BY <1>5, <1>6
<1>8. Good(m, k)
  BY <1>5, <1>7
<1>9. ASSUME RequestCurrent(q[m])
      PROVE  Good(m, Append(k, q[m]))
  <2>1. q[m] \in Queued /\ Append(k, q[m]) \in Seq(Queued) /\ DOMAIN q = 1 .. Len(q)
    BY <1>5, <1>7
  <2>2. \A i \in DOMAIN Append(k, q[m]) :
           \/ i \in DOMAIN k /\ Append(k, q[m])[i] = k[i]
           \/ i = Len(k) + 1 /\ Append(k, q[m])[i] = q[m]
    BY <1>7, <2>1
  <2>3. \A i \in DOMAIN k : k[i].tab # q[m].tab
    <3>1. \A i \in DOMAIN k : \E j \in 1 .. m - 1 : k[i] = q[j]
      BY <1>7
    <3>2. \A j \in 1 .. m - 1 : j \in DOMAIN q /\ m \in DOMAIN q /\ j # m
      BY <1>5, <2>1
    <3> QED BY <3>1, <3>2 DEF Distinct
  <2>4. Distinct(Append(k, q[m]))
    BY <1>7, <2>2, <2>3 DEF Distinct
  <2>5. \A i \in DOMAIN Append(k, q[m]) :
           /\ RequestCurrent(Append(k, q[m])[i])
           /\ \E j \in 1 .. m : Append(k, q[m])[i] = q[j]
    BY <1>5, <1>8, <1>9, <2>2
  <2> QED BY <2>1, <2>4, <2>5
<1> HIDE DEF Good
<1>10. Kept(q)[m] = IF RequestCurrent(q[m]) THEN Append(k, q[m]) ELSE k
  BY <1>5, <1>6, KeptDef
<1>11. Good(m, Kept(q)[m])
  BY <1>8, <1>9, <1>10
<1> QED BY <1>2, <1>11

LEMMA RoundsDef ==
    ASSUME NEW q \in Seq(Queued)
    PROVE  /\ Rounds(q)[0] = [held |-> active, left |-> q, got |-> {}]
           /\ \A n \in 1 .. Len(q) : Rounds(q)[n] = Admit(Rounds(q)[n - 1])
<1> DEFINE Base == [held |-> active, left |-> q, got |-> {}]
           Is(g, k) == g = [n \in 0 .. k |-> IF n = 0 THEN Base ELSE Admit(g[n - 1])]
           Ok(k) == \E g : Is(g, k)
           T == {k \in 0 .. Len(q) : ~Ok(k)}
<1>1. Len(q) \in Nat /\ (Ok(Len(q)) => Is(Rounds(q), Len(q)))
  <2> DEFINE C == CHOOSE g : Is(g, Len(q))
  <2>1. C = Rounds(q)
    BY DEF Rounds
  <2> HIDE DEF Is
  <2>2. ASSUME Ok(Len(q)) PROVE Is(C, Len(q))
    BY <2>2
  <2> HIDE DEF C, Ok
  <2> QED BY <2>1, <2>2
<1> HIDE DEF Base
<1>2. Ok(0)
  <2>1. Is([i \in 0 .. 0 |-> Base], 0)
    OBVIOUS
  <2> QED BY <2>1
<1>3. ASSUME NEW k \in Nat \ {0}, Ok(k - 1) PROVE Ok(k)
  <2>1. PICK g : Is(g, k - 1)
    BY <1>3
  <2> DEFINE h == [n \in 0 .. k |-> IF n # k THEN g[n] ELSE Admit(g[k - 1])]
  <2>2. \A n \in 0 .. k - 1 : g[n] = IF n = 0 THEN Base ELSE Admit(g[n - 1])
    BY <2>1
  <2>3. Is(h, k)
    BY <2>2
  <2> QED BY <2>3
<1> HIDE DEF Ok
<1>4. T = {}
  <2> SUFFICES ASSUME T # {} PROVE FALSE
    OBVIOUS
  <2>1. T \in SUBSET Nat
    OBVIOUS
  <2>2. PICK k \in T : \A m \in T : k <= m
    <3> HIDE DEF T
    <3> QED BY <2>1, LeastNumber
  <2>3. k # 0 /\ k \in Nat \ {0} /\ k - 1 \in 0 .. Len(q) /\ k - 1 \notin T
    BY <1>1, <1>2, <2>2
  <2> QED BY <1>3, <2>2, <2>3
<1>5. Is(Rounds(q), Len(q))
  BY <1>1, <1>4
<1>6. /\ Rounds(q)[0] = Base
      /\ \A n \in 1 .. Len(q) : Rounds(q)[n] = Admit(Rounds(q)[n - 1])
  <2> HIDE DEF Is
  <2>1. PICK g : g = Rounds(q) /\ Is(g, Len(q))
    BY <1>5
  <2>2. /\ g[0] = Base
        /\ \A n \in 1 .. Len(q) : g[n] = Admit(g[n - 1])
    BY <1>1, <2>1 DEF Is
  <2> QED BY <2>1, <2>2
<1> QED BY <1>6 DEF Base

\* What admitted saves may hold together.
Allowed(a) ==
  (Charge(a) <= Budget \/ Cardinality(a) = 1) /\ Cardinality(a) <= MaxActive

\* A request that fits stays within the budget, or is alone.
LEMMA FitsAllowed ==
    ASSUME NEW a \in SUBSET Permits, IsFiniteSet(a), Allowed(a), NEW r \in Queued,
           Fits(r, a), ~ (Cardinality(a) >= MaxActive)
    PROVE  /\ a \cup {Permit(r)} \in SUBSET Permits /\ IsFiniteSet(a \cup {Permit(r)})
           /\ Allowed(a \cup {Permit(r)})
<1> DEFINE x == Permit(r)
           b == a \cup {x}
<1>1. x \in Permits /\ x.tab = r.tab /\ r.tab \in Tabs
  BY DEF Permit, Permits, Queued
<1>2. /\ Cardinality(a) \in Nat /\ Charge(a) \in Nat /\ Weight[r.tab] \in Nat
      /\ Budget \in Nat /\ MaxActive \in Nat \ {0}
  BY <1>1, ChargeType, FS_CardinalityType, SaveAssumption
<1>3. /\ b \in SUBSET Permits /\ IsFiniteSet(b) /\ Cardinality(b) \in Nat
      /\ Cardinality(b) = IF x \in a THEN Cardinality(a) ELSE Cardinality(a) + 1
  BY <1>1, FS_AddElement, FS_CardinalityType
<1>4. CASE x \in a
  <2>1. b = a
    BY <1>4
  <2> QED BY <1>3, <2>1
<1>5. CASE x \notin a
  <2>1. Charge(b) = Charge(a) + Weight[r.tab]
    <3>1. b \ {x} = a /\ x \in b
      BY <1>5
    <3> HIDE DEF x, b
    <3> QED BY <1>1, <1>3, <3>1, ChargeAdds
  <2>2. Cardinality(b) <= MaxActive
    BY <1>2, <1>3, <1>5
  <2>3. CASE Weight[r.tab] > Budget
    <3>1. a = {}
      BY <2>3 DEF Fits
    <3>2. Cardinality(b) = 1
      BY <1>3, <1>5, <3>1, FS_EmptySet
    <3> QED BY <1>3, <2>2, <3>2 DEF Allowed
  <2>4. CASE ~ (Weight[r.tab] > Budget)
    <3>1. Charge(b) <= Budget
      BY <2>1, <2>4 DEF Fits
    <3> QED BY <1>3, <2>2, <3>1 DEF Allowed
  <2> QED BY <2>3, <2>4
<1> QED BY <1>4, <1>5

\* A round s of the drain of q, from the permits that are held.
Round(s, q) ==
  /\ s = [held |-> s.held, left |-> s.left, got |-> s.got]
  /\ s.held \in SUBSET Permits /\ IsFiniteSet(s.held) /\ Allowed(s.held)
  /\ s.left \in Seq(Queued) /\ Distinct(s.left)
  /\ \A i \in DOMAIN s.left : \E j \in DOMAIN q : s.left[i] = q[j]
  /\ \A r \in s.got : /\ \E j \in DOMAIN q : r = q[j]
                      /\ \A i \in DOMAIN s.left : s.left[i].tab # r.tab
  /\ s.held = active \cup {Permit(r) : r \in s.got}

\* A queue without one of its requests.
LEMMA TakenOut ==
    ASSUME NEW q \in Seq(Queued), Distinct(q), NEW i \in DOMAIN q
    PROVE  /\ RemoveAt(q, i) \in Seq(Queued) /\ Distinct(RemoveAt(q, i))
           /\ \A j \in DOMAIN RemoveAt(q, i) :
                 \E k \in DOMAIN q : k # i /\ RemoveAt(q, i)[j] = q[k]
<1> DEFINE rest == RemoveAt(q, i)
           At(j) == IF j < i THEN j ELSE j + 1
<1>1. i \in 1 .. Len(q) /\ Len(q) \in Nat
  OBVIOUS
<1>2. /\ rest \in Seq(Queued) /\ Len(rest) = Len(q) - 1
      /\ \A j \in 1 .. Len(q) - 1 : rest[j] = q[At(j)]
  <2> DEFINE A == SubSeq(q, 1, i - 1)
             B == SubSeq(q, i + 1, Len(q))
  <2>1. A \in Seq(Queued) /\ Len(A) = i - 1 /\ \A j \in 1 .. i - 1 : A[j] = q[j]
    BY <1>1
  <2>2. B \in Seq(Queued) /\ Len(B) = Len(q) - i /\ \A j \in 1 .. Len(q) - i : B[j] = q[i + j]
    BY <1>1
  <2>3. rest = A \o B
    BY DEF RemoveAt
  <2> HIDE DEF A, B, rest
  <2>4. rest \in Seq(Queued) /\ Len(rest) = Len(A) + Len(B)
    BY <2>1, <2>2, <2>3, ConcatProperties
  <2>5. \A j \in 1 .. Len(A) + Len(B) : rest[j] = IF j <= Len(A) THEN A[j] ELSE B[j - Len(A)]
    BY <2>1, <2>2, <2>3, ConcatProperties
  <2>6. ASSUME NEW j \in 1 .. Len(q) - 1
        PROVE  rest[j] = q[At(j)]
    <3>1. CASE j < i
      BY <1>1, <2>1, <2>2, <2>5, <3>1
    <3>2. CASE ~ (j < i)
      <4>1. rest[j] = B[j - (i - 1)] /\ j - (i - 1) \in 1 .. Len(q) - i
        BY <1>1, <2>1, <2>2, <2>5, <3>2, SMTT(30)
      <4>2. i + (j - (i - 1)) = j + 1
        BY <1>1
      <4> QED BY <2>2, <3>2, <4>1, <4>2
    <3> QED BY <3>1, <3>2
  <2> QED BY <1>1, <2>1, <2>2, <2>4, <2>6
<1>3. \A j \in DOMAIN rest : At(j) \in DOMAIN q /\ At(j) # i /\ rest[j] = q[At(j)]
  BY <1>1, <1>2
<1>4. \A j, k \in DOMAIN rest : At(j) = At(k) => j = k
  BY <1>1, <1>2
<1> HIDE DEF rest, At
<1>5. Distinct(rest)
  BY <1>3, <1>4 DEF Distinct
<1> QED BY <1>2, <1>3, <1>5 DEF rest

LEMMA AdmitKeeps ==
    ASSUME NEW q \in Seq(Queued), NEW s, Round(s, q)
    PROVE  Round(Admit(s), q)
<1>1. CASE Admissible(s.held, s.left) = {}
  BY <1>1 DEF Admit
<1>2. CASE Admissible(s.held, s.left) # {}
  <2>1. PICK i \in Admissible(s.held, s.left) :
           Admit(s) = [held |-> s.held \cup {Permit(s.left[i])}, left |-> RemoveAt(s.left, i),
                       got |-> s.got \cup {s.left[i]}]
    BY <1>2 DEF Admit
  <2>2. i \in DOMAIN s.left /\ Fits(s.left[i], s.held) /\ ~ (Cardinality(s.held) >= MaxActive)
    <3> DEFINE closing == {j \in DOMAIN s.left : s.left[j].close # 0 /\ Fits(s.left[j], s.held)}
    <3>1. /\ ~ (Cardinality(s.held) >= MaxActive)
          /\ \/ closing # {} /\ i = CHOOSE j \in closing : \A k \in closing : j <= k
             \/ i \in DOMAIN s.left /\ i = 1 /\ Fits(s.left[1], s.held)
      BY <2>1 DEF Admissible
    <3>2. closing \in SUBSET Nat
      BY DEF Round
    <3>3. closing # {} => (CHOOSE j \in closing : \A k \in closing : j <= k) \in closing
      <4> HIDE DEF closing
      <4> QED BY <3>2, LeastNumber
    <3> QED BY <3>1, <3>3
  <2> DEFINE n == [held |-> s.held \cup {Permit(s.left[i])}, left |-> RemoveAt(s.left, i),
                   got |-> s.got \cup {s.left[i]}]
  <2>3. /\ n.held = s.held \cup {Permit(s.left[i])} /\ n.left = RemoveAt(s.left, i)
        /\ n.got = s.got \cup {s.left[i]} /\ n = [held |-> n.held, left |-> n.left, got |-> n.got]
    OBVIOUS
  <2>4. s.left[i] \in Queued
    BY <2>2 DEF Round
  <2>5. n.held \in SUBSET Permits /\ IsFiniteSet(n.held) /\ Allowed(n.held)
    BY <2>2, <2>3, <2>4, FitsAllowed DEF Round
  <2>6. /\ n.left \in Seq(Queued) /\ Distinct(n.left)
        /\ \A j \in DOMAIN n.left : \E k \in DOMAIN s.left : k # i /\ n.left[j] = s.left[k]
    BY <2>2, <2>3, TakenOut DEF Round
  <2> HIDE DEF n
  <2>7. \A j \in DOMAIN n.left : \E k \in DOMAIN q : n.left[j] = q[k]
    BY <2>6 DEF Round
  <2>8. \A r \in n.got : /\ \E j \in DOMAIN q : r = q[j]
                        /\ \A j \in DOMAIN n.left : n.left[j].tab # r.tab
    <3>1. \A j \in DOMAIN n.left : n.left[j].tab # s.left[i].tab
      BY <2>2, <2>6 DEF Round, Distinct
    <3>2. \A r \in s.got, j \in DOMAIN n.left : n.left[j].tab # r.tab
      BY <2>6 DEF Round
    <3> QED BY <2>2, <2>3, <3>1, <3>2 DEF Round
  <2>9. n.held = active \cup {Permit(r) : r \in n.got}
    BY <2>3 DEF Round
  <2> QED BY <2>1, <2>3, <2>5, <2>6, <2>7, <2>8, <2>9 DEF n, Round
<1> QED BY <1>1, <1>2

\* What a drain admits, and what it leaves in the queue.
LEMMA RoundsKeep ==
    ASSUME NEW q \in Seq(Queued), Distinct(q), active \in SUBSET Permits, IsFiniteSet(active),
           Allowed(active), NEW n \in 0 .. Len(q)
    PROVE  Round(Rounds(q)[n], q)
<1> DEFINE T == {m \in 0 .. Len(q) : ~Round(Rounds(q)[m], q)}
<1>1. Len(q) \in Nat /\ T \in SUBSET Nat
  OBVIOUS
<1> SUFFICES ASSUME T # {} PROVE FALSE
  OBVIOUS
<1>2. PICK m \in T : \A l \in T : m <= l
  <2> HIDE DEF T
  <2> QED BY <1>1, LeastNumber
<1>3. Round([held |-> active, left |-> q, got |-> {}], q)
  BY DEF Round
<1>4. m # 0
  BY <1>2, <1>3, RoundsDef
<1>5. m - 1 \in 0 .. Len(q) /\ m - 1 \notin T /\ m \in 1 .. Len(q)
  BY <1>1, <1>2, <1>4
<1>6. Round(Admit(Rounds(q)[m - 1]), q)
  BY <1>5, AdmitKeeps
<1> QED BY <1>2, <1>5, <1>6, RoundsDef

-----------------------------------------------------------------------------
(* The actions keep the invariant.                                          *)

LEMMA QueuedTyped ==
    ASSUME SaveInv
    PROVE  /\ queue \in Seq(Queued)
           /\ \A i \in DOMAIN queue : queue[i] \in Queued /\ queue[i].tab \in Tabs
<1>1. queue \in Seq(Queued)
  BY DEF SaveInv, SaveTypeOK, SaveTypes
<1>2. \A i \in DOMAIN queue : queue[i] \in Queued
  BY <1>1
<1> QED BY <1>1, <1>2 DEF Queued

\* A step that begins and ends no request, save or permit.
SameSaves ==
  /\ \A t \in Tabs : /\ tab'[t].saving = tab[t].saving /\ tab'[t].locked = tab[t].locked
                     /\ tab'[t].gen = tab[t].gen /\ save'[t].id = save[t].id
                     /\ SaveAtWork(t)' <=> SaveAtWork(t)
  /\ count'.saves = count.saves
  /\ UNCHANGED <<queue, active, freed>>

LEMMA SameSavesKeep ==
    ASSUME SaveInv, SameSaves
    PROVE  QueuedOnce' /\ IdsApart' /\ WithinBudget' /\ IsFiniteSet(active')
<1>1. QueuedOnce'
  BY QueuedTyped DEF SaveInv, QueuedOnce, SameSaves
<1>2. IdsApart'
  BY DEF SaveInv, IdsApart, SameSaves
<1>3. WithinBudget' /\ IsFiniteSet(active')
  BY DEF SaveInv, WithinBudget, SameSaves, SaveAtWork
<1> QED BY <1>1, <1>2, <1>3

\* One that leaves the operations, the guards and the results alone as well.
Settled == SameSaves /\ count'.ops = count.ops /\ UNCHANGED <<save, op, guard, lane>>

LEMMA SettledKeeps ==
    ASSUME SaveInv, Settled, SaveTypes'
    PROVE  SaveInv'
<1>1. GuardsOwned'
  BY DEF SaveInv, SaveTypeOK, GuardsOwned, Settled, SameSaves
<1>2. OpsPlaced' /\ LaneOnce'
  BY DEF SaveInv, OpsPlaced, LaneOnce, Settled
<1> QED BY <1>1, <1>2, SameSavesKeep DEF SaveInv, SaveTypeOK, Settled

LEMMA EditKeeps ==
    ASSUME SaveInv, NEW t \in Tabs, Edit(t)
    PROVE  SaveInv'
<1>1. SaveTypes'
  <2>0. /\ count \in Counters /\ count' = [count EXCEPT !.edits = @ + 1]
        /\ tab \in [Tabs -> Editor]
        /\ tab' = [tab EXCEPT ![t].text = 2 * (count.edits + 1), ![t].modified = TRUE,
                             ![t].editGen = @ + 1]
    BY DEF SaveInv, SaveTypeOK, SaveTypes, Edit
  <2>1. count' \in Counters /\ count.edits \in Nat
    BY <2>0 DEF Counters
  <2>2. tab' \in [Tabs -> Editor]
    BY <2>0, <2>1 DEF Editor
  <2> QED BY <2>1, <2>2 DEF SaveInv, SaveTypeOK, SaveTypes, Edit
<1>2. Settled
  BY DEF SaveInv, SaveTypeOK, SaveTypes, Edit, Editor, Counters, Settled, SameSaves, SaveAtWork
<1> QED BY <1>1, <1>2, SettledKeeps

LEMMA OutsideKeeps ==
    ASSUME SaveInv, NEW p \in Paths, Outside(p)
    PROVE  SaveInv'
<1>1. SaveTypes'
  <2>0. /\ count \in Counters /\ count' = [count EXCEPT !.outside = @ + 1, !.objs = @ + 1]
        /\ disk \in [Paths -> Object]
        /\ \/ disk' = [disk EXCEPT ![p] = [obj |-> count.objs + 1, text |-> 99, by |-> {}]]
           \/ disk' = [disk EXCEPT ![p] = Nothing]
    BY DEF SaveInv, SaveTypeOK, SaveTypes, Outside
  <2>1. count' \in Counters /\ count.objs \in Nat
    <3>1. \A c \in Counters, m, n \in Nat : [c EXCEPT !.outside = m, !.objs = n] \in Counters
      BY DEF Counters
    <3>2. count.outside + 1 \in Nat /\ count.objs \in Nat /\ count.objs + 1 \in Nat
      BY <2>0 DEF Counters
    <3> QED BY <2>0, <3>1, <3>2
  <2>2. disk' \in [Paths -> Object]
    BY <2>0, <2>1 DEF Object, Nothing
  <2>3. slipped' \in SUBSET Ops
    BY DEF SaveInv, SaveTypeOK, SaveTypes, Outside
  <2> QED BY <2>1, <2>2, <2>3 DEF SaveInv, SaveTypeOK, SaveTypes, Outside
<1>2. Settled
  BY DEF SaveInv, SaveTypeOK, SaveTypes, Outside, Counters, Settled, SameSaves, SaveAtWork
<1> QED BY <1>1, <1>2, SettledKeeps

LEMMA InitKeeps == ASSUME SaveInit PROVE SaveInv
<1>1. SaveTypes
  <2>1. \A p \in Paths : p + 1 \in Nat
    BY SaveAssumption
  <2>2. disk \in [Paths -> Object]
    BY <2>1 DEF SaveInit, Object, Nothing
  <2>3. tab \in [Tabs -> Editor]
    BY SaveAssumption DEF SaveInit, Editor
  <2>4. save \in [Tabs -> SaveState] /\ op \in [Ops -> OpState]
    BY DEF SaveInit, SaveState, NoSave, SaveSteps, OpState, NoOp, OpSteps
  <2>5. guard \in [Paths -> {Free} \cup Result] /\ queue \in Seq(Queued) /\ lane \in Seq(Result)
    BY DEF SaveInit
  <2> QED BY <2>2, <2>3, <2>4, <2>5 DEF SaveInit, SaveTypes, Counters
<1>2. GuardsOwned
  BY DEF SaveInit, GuardsOwned, NoSave, NoOp
<1>3. QueuedOnce /\ LaneOnce
  BY DEF SaveInit, QueuedOnce, LaneOnce
<1>4. IdsApart
  BY DEF SaveInit, IdsApart, SaveAtWork, NoSave
<1>5. OpsPlaced
  BY DEF SaveInit, OpsPlaced, NoOp
<1>6. WithinBudget /\ IsFiniteSet(active)
  <2>1. active = {} /\ IsFiniteSet(active) /\ Cardinality(active) = 0 /\ Charge(active) = 0
    BY FS_EmptySet, ChargeSteps DEF SaveInit
  <2> QED BY <2>1, SaveAssumption DEF SaveInit, WithinBudget, NoSave
<1> QED BY <1>1, <1>2, <1>3, <1>4, <1>5, <1>6 DEF SaveInv, SaveTypeOK

-----------------------------------------------------------------------------
(* The worker of a save.                                                    *)

LEMMA LockTargetKeeps ==
    ASSUME SaveInv, NEW t \in Tabs, LockTarget(t)
    PROVE  SaveInv'
<1> DEFINE p == save[t].path
<1>1. /\ save \in [Tabs -> SaveState] /\ guard \in [Paths -> {Free} \cup Result]
      /\ save[t].step = "lock" /\ p \in Paths /\ guard[p] = Free
      /\ guard' = [guard EXCEPT ![p] = <<"save", t>>]
  BY DEF SaveInv, SaveTypeOK, SaveTypes, GuardsOwned, LockTarget
<1>2. PICK out \in {save[t].text, Tidied(save[t].text)} :
         save' = [save EXCEPT ![t].step = "write", ![t].out = out]
  BY DEF LockTarget
<1>3. out \in Nat
  <2>1. save[t] \in SaveState
    BY <1>1
  <2>2. save[t].text \in Nat
    BY <2>1 DEF SaveState
  <2> QED BY <1>2, <2>2 DEF Tidied
<1>4. save' \in [Tabs -> SaveState]
  <2>1. \A s \in SaveState, n \in Nat, x \in SaveSteps : [s EXCEPT !.step = x, !.out = n] \in SaveState
    BY DEF SaveState
  <2>2. "write" \in SaveSteps
    BY DEF SaveSteps
  <2> QED BY <1>1, <1>2, <1>3, <2>1, <2>2
<1>5. /\ \A u \in Tabs \ {t} : save'[u] = save[u]
      /\ save'[t].step = "write" /\ save'[t].path = p /\ save'[t].id = save[t].id
  BY <1>1, <1>2 DEF SaveState
<1>6. guard' \in [Paths -> {Free} \cup Result]
  BY <1>1 DEF Result
<1>7. guard'[p] = <<"save", t>> /\ \A q \in Paths \ {p} : guard'[q] = guard[q]
  BY <1>1
<1> HIDE DEF p
<1>8. SaveTypes'
  BY <1>4, <1>6 DEF SaveInv, SaveTypeOK, SaveTypes, LockTarget
<1>9. SameSaves
  BY <1>1, <1>5 DEF SameSaves, SaveAtWork, LockTarget
<1>10. GuardsOwned'
  <2>1. GuardsOwned
    BY DEF SaveInv, SaveTypeOK
  <2>2. UNCHANGED <<tab, op>>
    BY DEF LockTarget
  <2>3. (\A u \in Tabs : save[u].step # "none" =>
            tab[u].saving /\ tab[u].locked /\ save[u].path \in Paths)'
    BY <1>1, <1>5, <2>1, <2>2 DEF GuardsOwned, p
  <2>4. ASSUME NEW q \in Paths
        PROVE  (\/ guard[q] = Free
                \/ \E u \in Tabs : guard[q] = <<"save", u>> /\ save[u].step = "write" /\ save[u].path = q
                \/ \E i \in Ops : guard[q] = <<"op", i>> /\ op[i].step \in {"second", "act", "checked"})'
    <3>1. CASE q = p
      BY <1>5, <1>7, <3>1
    <3>2. CASE q # p
      BY <1>1, <1>5, <1>7, <2>1, <2>2, <3>2 DEF GuardsOwned
    <3> QED BY <3>1, <3>2
  <2>5. (\A u \in Tabs : save[u].step = "write" => guard[save[u].path] = <<"save", u>>)'
    BY <1>1, <1>5, <1>7, <2>1 DEF GuardsOwned, Free
  <2>6. (\A i \in Ops : op[i].step \in {"act", "checked"} =>
           guard[op[i].old] = <<"op", i>> /\ (op[i].kind = "rename" => guard[op[i].new] = <<"op", i>>))'
    BY <1>1, <1>7, <2>1, <2>2 DEF GuardsOwned, Free, SaveInv, OpsPlaced
  <2> QED BY <2>3, <2>4, <2>5, <2>6 DEF GuardsOwned
<1>11. OpsPlaced'
  BY <1>1, <1>7 DEF SaveInv, OpsPlaced, LockTarget, Guards, Free
<1>12. LaneOnce'
  BY <1>1, <1>5 DEF SaveInv, LaneOnce, LockTarget
<1> QED BY <1>8, <1>9, <1>10, <1>11, <1>12, SameSavesKeep DEF SaveInv, SaveTypeOK

LEMMA WriteSavedKeeps ==
    ASSUME SaveInv, NEW t \in Tabs, WriteSaved(t)
    PROVE  SaveInv'
<1> DEFINE p == save[t].path
<1>1. /\ save \in [Tabs -> SaveState] /\ guard \in [Paths -> {Free} \cup Result]
      /\ count \in Counters /\ disk \in [Paths -> Object]
      /\ save[t].step = "write" /\ p \in Paths /\ guard[p] = <<"save", t>>
      /\ guard' = [guard EXCEPT ![p] = Free]
  BY DEF SaveInv, SaveTypeOK, SaveTypes, GuardsOwned, WriteSaved
<1>2. PICK result \in {"ok", "before", "after"} :
         /\ count' = [count EXCEPT !.objs = @ + 1,
                        !.faults = IF result = "ok" THEN @ ELSE @ + 1]
         /\ save' = [save EXCEPT ![t].step = "ran", ![t].result = result]
         /\ disk' = IF result = "before" THEN disk
                    ELSE [disk EXCEPT ![p] = [obj |-> count.objs + 1, text |-> save[t].out,
                                              by |-> {t}]]
  BY DEF WriteSaved
<1>3. /\ save' \in [Tabs -> SaveState] /\ \A u \in Tabs \ {t} : save'[u] = save[u]
      /\ save'[t].step = "ran" /\ save'[t].path = p /\ save'[t].id = save[t].id
  <2>1. \A s \in SaveState, x \in SaveSteps, y \in {"none", "ok", "before", "after"} :
           [s EXCEPT !.step = x, !.result = y] \in SaveState
    BY DEF SaveState
  <2>2. "ran" \in SaveSteps /\ result \in {"none", "ok", "before", "after"}
    BY DEF SaveSteps
  <2>3. save' \in [Tabs -> SaveState]
    BY <1>1, <1>2, <2>1, <2>2
  <2> QED BY <1>1, <1>2, <2>3 DEF SaveState
<1>4. count' \in Counters /\ count'.saves = count.saves /\ count'.ops = count.ops
  <2>1. \A c \in Counters, m, n \in Nat :
           /\ [c EXCEPT !.objs = m, !.faults = n] \in Counters
           /\ [c EXCEPT !.objs = m, !.faults = n].saves = c.saves
           /\ [c EXCEPT !.objs = m, !.faults = n].ops = c.ops
    BY DEF Counters
  <2>2. count.objs + 1 \in Nat /\ (IF result = "ok" THEN count.faults ELSE count.faults + 1) \in Nat
    BY <1>1 DEF Counters
  <2>3. PICK n \in Nat : count' = [count EXCEPT !.objs = count.objs + 1, !.faults = n]
    BY <1>2, <2>2
  <2>4. PICK m \in Nat : m = count.objs + 1
    BY <2>2
  <2>5. count' = [count EXCEPT !.objs = m, !.faults = n] /\ count \in Counters
    BY <1>1, <2>3, <2>4
  <2> QED BY <2>1, <2>5
<1>5. disk' \in [Paths -> Object]
  <2>1. \A m, n \in Nat, b \in SUBSET Tabs : [obj |-> m, text |-> n, by |-> b] \in Object
    BY DEF Object
  <2>2. save[t] \in SaveState
    BY <1>1
  <2>3. count.objs + 1 \in Nat /\ save[t].out \in Nat
    BY <1>1, <2>2 DEF Counters, SaveState
  <2>4. {t} \in SUBSET Tabs
    OBVIOUS
  <2> QED BY <1>1, <1>2, <2>1, <2>3, <2>4
<1>6. /\ guard' \in [Paths -> {Free} \cup Result]
      /\ guard'[p] = Free /\ \A q \in Paths \ {p} : guard'[q] = guard[q]
  BY <1>1
<1> HIDE DEF p
<1>7. UNCHANGED <<tab, queue, active, freed, drain, op, lane, session, raced, unconfirmed, slipped, world>>
  BY DEF WriteSaved
<1>8. SaveTypes'
  BY <1>3, <1>4, <1>5, <1>6, <1>7 DEF SaveInv, SaveTypeOK, SaveTypes
<1>9. SameSaves
  BY <1>1, <1>3, <1>4, <1>7 DEF SameSaves, SaveAtWork
<1>10. GuardsOwned'
  <2>1. GuardsOwned
    BY DEF SaveInv, SaveTypeOK
  <2>2. (\A u \in Tabs : save[u].step # "none" =>
            tab[u].saving /\ tab[u].locked /\ save[u].path \in Paths)'
    BY <1>1, <1>3, <1>7, <2>1 DEF GuardsOwned, p
  <2>3. ASSUME NEW q \in Paths
        PROVE  (\/ guard[q] = Free
                \/ \E u \in Tabs : guard[q] = <<"save", u>> /\ save[u].step = "write" /\ save[u].path = q
                \/ \E i \in Ops : guard[q] = <<"op", i>> /\ op[i].step \in {"second", "act", "checked"})'
    <3>1. CASE q = p
      BY <1>6, <3>1
    <3>2. CASE q # p
      BY <1>1, <1>3, <1>6, <1>7, <2>1, <3>2 DEF GuardsOwned, p
    <3> QED BY <3>1, <3>2
  <2>4. (\A u \in Tabs : save[u].step = "write" => guard[save[u].path] = <<"save", u>>)'
    BY <1>1, <1>3, <1>6, <2>1 DEF GuardsOwned
  <2>5. (\A i \in Ops : op[i].step \in {"act", "checked"} =>
           guard[op[i].old] = <<"op", i>> /\ (op[i].kind = "rename" => guard[op[i].new] = <<"op", i>>))'
    BY <1>1, <1>6, <1>7, <2>1 DEF GuardsOwned, SaveInv, OpsPlaced
  <2> QED BY <2>2, <2>3, <2>4, <2>5 DEF GuardsOwned
<1>11. OpsPlaced'
  BY <1>1, <1>4, <1>6, <1>7 DEF SaveInv, OpsPlaced, Guards
<1>12. LaneOnce'
  BY <1>1, <1>3, <1>7 DEF SaveInv, LaneOnce
<1> QED BY <1>8, <1>9, <1>10, <1>11, <1>12, SameSavesKeep DEF SaveInv, SaveTypeOK

\* A result that enters the lane.
LEMMA Entering ==
    ASSUME lane \in Seq(Result), NEW r \in Result, \A i \in DOMAIN lane : lane[i] # r,
           \A i, j \in DOMAIN lane : lane[i] = lane[j] => i = j, lane' = Append(lane, r)
    PROVE  /\ lane' \in Seq(Result)
           /\ \A i, j \in DOMAIN lane' : lane'[i] = lane'[j] => i = j
           /\ \A i \in DOMAIN lane' : lane'[i] = r \/ \E j \in DOMAIN lane : lane'[i] = lane[j]
<1>1. \A i \in DOMAIN lane' : \/ i \in DOMAIN lane /\ lane'[i] = lane[i]
                              \/ i = Len(lane) + 1 /\ lane'[i] = r
  OBVIOUS
<1>2. lane' \in Seq(Result)
  OBVIOUS
<1> QED BY <1>1, <1>2

LEMMA ReturnKeeps ==
    ASSUME SaveInv, NEW t \in Tabs, Return(t)
    PROVE  SaveInv'
<1>1. /\ save \in [Tabs -> SaveState] /\ lane \in Seq(Result)
      /\ save[t].step = "ran" /\ save' = [save EXCEPT ![t].step = "sent"]
      /\ lane' = Append(lane, <<"save", t>>)
      /\ UNCHANGED <<disk, tab, queue, active, freed, drain, op, guard, session, count, raced, unconfirmed, slipped, world>>
  BY DEF SaveInv, SaveTypeOK, SaveTypes, Return
<1>2. /\ save' \in [Tabs -> SaveState] /\ \A u \in Tabs \ {t} : save'[u] = save[u]
      /\ save'[t].step = "sent" /\ save'[t].path = save[t].path /\ save'[t].id = save[t].id
  <2>1. \A s \in SaveState, x \in SaveSteps : [s EXCEPT !.step = x] \in SaveState
    BY DEF SaveState
  <2>2. "sent" \in SaveSteps
    BY DEF SaveSteps
  <2>3. save' \in [Tabs -> SaveState]
    BY <1>1, <2>1, <2>2
  <2> QED BY <1>1, <2>3 DEF SaveState
<1>3. LaneOnce /\ \A i \in DOMAIN lane : lane[i] # <<"save", t>>
  BY <1>1 DEF SaveInv, LaneOnce
<1>4. <<"save", t>> \in Result
  BY DEF Result
<1>5. /\ lane' \in Seq(Result)
      /\ \A i, j \in DOMAIN lane' : lane'[i] = lane'[j] => i = j
      /\ \A i \in DOMAIN lane' : lane'[i] = <<"save", t>> \/ \E j \in DOMAIN lane : lane'[i] = lane[j]
  BY <1>1, <1>3, <1>4, Entering DEF LaneOnce
<1>6. LaneOnce'
  <2>1. ASSUME NEW i \in DOMAIN lane'
        PROVE  /\ \A u \in Tabs : lane'[i] = <<"save", u>> => save'[u].step = "sent"
               /\ \A k \in Ops : lane'[i] = <<"op", k>> => op'[k].step = "sent"
    <3>1. CASE lane'[i] = <<"save", t>>
      BY <1>2, <3>1
    <3>2. CASE \E j \in DOMAIN lane : lane'[i] = lane[j]
      <4>1. PICK j \in DOMAIN lane : lane'[i] = lane[j]
        BY <3>2
      <4>2. \A u \in Tabs : lane[j] = <<"save", u>> => u # t /\ save'[u].step = "sent"
        BY <1>2, <1>3 DEF LaneOnce
      <4> QED BY <1>1, <1>3, <4>1, <4>2 DEF LaneOnce
    <3> QED BY <1>5, <3>1, <3>2
  <2> QED BY <1>5, <2>1 DEF LaneOnce
<1>7. SaveTypes'
  BY <1>1, <1>2, <1>5 DEF SaveInv, SaveTypeOK, SaveTypes
<1>8. SameSaves
  BY <1>1, <1>2 DEF SameSaves, SaveAtWork
<1>9. GuardsOwned'
  BY <1>1, <1>2 DEF SaveInv, SaveTypeOK, GuardsOwned
<1>10. OpsPlaced'
  BY <1>1 DEF SaveInv, OpsPlaced
<1> QED BY <1>6, <1>7, <1>8, <1>9, <1>10, SameSavesKeep DEF SaveInv, SaveTypeOK

-----------------------------------------------------------------------------
(* The sidebar.                                                             *)

\* A step of one operation that moves it, takes no guard and sends no result.
OpMoves(i) ==
  /\ op'[i].step \in OpSteps \ {"idle", "second", "act", "checked"}
  /\ op'[i].old \in Paths /\ op'[i].new \in {0} \cup Paths
  /\ \/ op'[i].kind = "delete"
     \/ op'[i].kind = "rename" /\ op'[i].new \in Paths \ {op'[i].old}
  /\ op' \in [Ops -> OpState] /\ \A j \in Ops \ {i} : op'[j] = op[j]
  /\ op[i].step # "sent"
  /\ UNCHANGED <<save, lane>>

LEMMA AskKeeps ==
    ASSUME SaveInv, SaveTypes', SameSaves, NEW i \in Ops, OpMoves(i),
           op[i].step \notin {"second", "act", "checked"}, UNCHANGED guard,
           count'.ops \in Nat, count.ops <= count'.ops, i <= count'.ops
    PROVE  SaveInv'
<1>1. GuardsOwned'
  <2>1. GuardsOwned /\ UNCHANGED <<save, guard>>
    BY DEF SaveInv, SaveTypeOK, OpMoves
  <2>2. \A j \in Ops : \/ op'[j] = op[j]
                       \/ op[j].step \notin {"second", "act", "checked"} /\ op'[j].step \notin {"second", "act", "checked"}
    BY DEF OpMoves
  <2>3. (\A t \in Tabs : save[t].step # "none" =>
            tab[t].saving /\ tab[t].locked /\ save[t].path \in Paths)'
    BY <2>1 DEF GuardsOwned, SameSaves
  <2>4. (\A p \in Paths :
            \/ guard[p] = Free
            \/ \E t \in Tabs : guard[p] = <<"save", t>> /\ save[t].step = "write" /\ save[t].path = p
            \/ \E j \in Ops : guard[p] = <<"op", j>> /\ op[j].step \in {"second", "act", "checked"})'
    BY <2>1, <2>2 DEF GuardsOwned
  <2>5. (\A j \in Ops : op[j].step \in {"act", "checked"} =>
           guard[op[j].old] = <<"op", j>> /\ (op[j].kind = "rename" => guard[op[j].new] = <<"op", j>>))'
    BY <2>1, <2>2 DEF GuardsOwned
  <2> QED BY <2>1, <2>3, <2>4, <2>5 DEF GuardsOwned
<1>2. OpsPlaced'
  <2>1. ASSUME NEW j \in Ops, op'[j].step # "idle"
        PROVE  (/\ j <= count.ops /\ op[j].old \in Paths
                /\ \/ op[j].kind = "delete" /\ op[j].step # "second"
                   \/ op[j].kind = "rename" /\ op[j].new \in Paths \ {op[j].old}
                /\ op[j].step = "second" => guard[Guards(op[j])[1]] = <<"op", j>>)'
    <3>1. CASE j = i
      BY <3>1 DEF OpMoves
    <3>2. CASE j # i
      <4>1. op'[j] = op[j] /\ op[j].step # "idle"
        BY <2>1, <3>2 DEF OpMoves
      <4>2. j \in Nat /\ count.ops \in Nat
        BY DEF Ops, SaveInv, SaveTypeOK, SaveTypes, Counters
      <4>3. j <= count.ops
        BY <4>1 DEF SaveInv, OpsPlaced
      <4> QED BY <4>1, <4>2, <4>3 DEF SaveInv, OpsPlaced, Guards
    <3> QED BY <3>1, <3>2
  <2> QED BY <2>1 DEF OpsPlaced
<1>3. LaneOnce'
  BY DEF SaveInv, LaneOnce, OpMoves
<1> QED BY <1>1, <1>2, <1>3, SameSavesKeep DEF SaveInv, SaveTypeOK

\* What is set of an operation that begins.
LEMMA NextOpFresh ==
    ASSUME SaveInv, NEW i \in Ops, NextOp(i)
    PROVE  i = count.ops + 1 /\ op[i].step = "idle" /\ count.ops \in Nat
<1>1. count.ops \in Nat /\ i = count.ops + 1
  BY DEF NextOp, SaveInv, SaveTypeOK, SaveTypes, Counters
<1> QED BY <1>1 DEF SaveInv, OpsPlaced

LEMMA AskDeleteKeeps ==
    ASSUME SaveInv, NEW i \in Ops, NEW p \in Paths, AskDelete(i, p)
    PROVE  SaveInv'
<1>1. /\ op \in [Ops -> OpState] /\ count \in Counters /\ disk \in [Paths -> Object]
      /\ op' = [op EXCEPT ![i] = [NoOp EXCEPT !.kind = "delete", !.step = "asked", !.old = p,
                                              !.expected = disk[p].obj]]
      /\ count' = [count EXCEPT !.ops = i]
      /\ UNCHANGED <<disk, tab, queue, active, freed, drain, save, guard, lane, session, raced, unconfirmed, slipped, world>>
  BY DEF SaveInv, SaveTypeOK, SaveTypes, AskDelete
<1>2. i = count.ops + 1 /\ op[i].step = "idle" /\ count.ops \in Nat
  BY NextOpFresh DEF AskDelete
<1>3. /\ count' \in Counters /\ count'.saves = count.saves /\ count'.ops = i
  BY <1>1, <1>2 DEF Counters
<1>4. /\ op'[i] = [kind |-> "delete", step |-> "asked", old |-> p, new |-> 0, expected |-> disk[p].obj]
      /\ \A j \in Ops \ {i} : op'[j] = op[j]
  BY <1>1 DEF NoOp
<1>5. op'[i] \in OpState
  <2>1. disk[p] \in Object
    BY <1>1
  <2>2. disk[p].obj \in Nat
    BY <2>1 DEF Object
  <2> QED BY <1>4, <2>2 DEF OpState, OpSteps
<1>6. op' \in [Ops -> OpState]
  <2>1. \A x \in OpState : [op EXCEPT ![i] = x] \in [Ops -> OpState]
    BY <1>1
  <2> QED BY <1>1, <1>4, <1>5, <2>1
<1>7. OpMoves(i)
  BY <1>1, <1>2, <1>4, <1>6, ZenonT(30) DEF OpMoves, OpSteps
<1>8. SaveTypes'
  BY <1>1, <1>3, <1>6 DEF SaveInv, SaveTypeOK, SaveTypes
<1>9. SameSaves
  BY <1>1, <1>3 DEF SameSaves, SaveAtWork
<1> QED BY <1>1, <1>2, <1>3, <1>7, <1>8, <1>9, AskKeeps

LEMMA StartRenameKeeps ==
    ASSUME SaveInv, NEW i \in Ops, NEW p \in Paths, NEW q \in Paths, StartRename(i, p, q)
    PROVE  SaveInv'
<1>1. /\ op \in [Ops -> OpState] /\ count \in Counters /\ p # q
      /\ op' = [op EXCEPT ![i] = [NoOp EXCEPT !.kind = "rename", !.step = "first", !.old = p, !.new = q]]
      /\ count' = [count EXCEPT !.ops = i]
      /\ UNCHANGED <<disk, tab, queue, active, freed, drain, save, guard, lane, session, raced, unconfirmed, slipped, world>>
  BY DEF SaveInv, SaveTypeOK, SaveTypes, StartRename
<1>2. i = count.ops + 1 /\ op[i].step = "idle" /\ count.ops \in Nat
  BY NextOpFresh DEF StartRename
<1>3. /\ count' \in Counters /\ count'.saves = count.saves /\ count'.ops = i
  BY <1>1, <1>2 DEF Counters
<1>4. /\ op'[i] = [kind |-> "rename", step |-> "first", old |-> p, new |-> q, expected |-> 0]
      /\ \A j \in Ops \ {i} : op'[j] = op[j]
  BY <1>1 DEF NoOp
<1>5. op'[i] \in OpState
  BY <1>4 DEF OpState, OpSteps
<1>6. op' \in [Ops -> OpState]
  <2>1. \A x \in OpState : [op EXCEPT ![i] = x] \in [Ops -> OpState]
    BY <1>1
  <2> QED BY <1>1, <1>4, <1>5, <2>1
<1>7. OpMoves(i)
  BY <1>1, <1>2, <1>4, <1>6 DEF OpMoves, OpSteps
<1>8. SaveTypes'
  BY <1>1, <1>3, <1>6 DEF SaveInv, SaveTypeOK, SaveTypes
<1>9. SameSaves
  BY <1>1, <1>3 DEF SameSaves, SaveAtWork
<1> QED BY <1>1, <1>2, <1>3, <1>7, <1>8, <1>9, AskKeeps

\* An operation that takes its next step.
LEMMA OpStepsOn ==
    ASSUME SaveInv, NEW i \in Ops, NEW x \in OpSteps, op' = [op EXCEPT ![i].step = x]
    PROVE  /\ op' \in [Ops -> OpState] /\ \A j \in Ops \ {i} : op'[j] = op[j]
           /\ op'[i].step = x /\ op'[i].kind = op[i].kind
           /\ op'[i].old = op[i].old /\ op'[i].new = op[i].new
<1>1. op \in [Ops -> OpState]
  BY DEF SaveInv, SaveTypeOK, SaveTypes
<1>2. \A o \in OpState : [o EXCEPT !.step = x] \in OpState
  BY DEF OpState
<1>3. op' \in [Ops -> OpState]
  BY <1>1, <1>2
<1> QED BY <1>1, <1>3 DEF OpState

LEMMA AnswerDeleteKeeps ==
    ASSUME SaveInv, NEW i \in Ops, AnswerDelete(i)
    PROVE  SaveInv'
<1>1. /\ op[i].step = "asked" /\ op' = [op EXCEPT ![i].step = "first"]
      /\ UNCHANGED <<disk, tab, queue, active, freed, drain, save, guard, lane, session, count, raced, unconfirmed, slipped, world>>
  BY DEF AnswerDelete
<1>2. "first" \in OpSteps
  BY DEF OpSteps
<1>3. /\ op' \in [Ops -> OpState] /\ \A j \in Ops \ {i} : op'[j] = op[j]
      /\ op'[i].step = "first" /\ op'[i].kind = op[i].kind
      /\ op'[i].old = op[i].old /\ op'[i].new = op[i].new
  BY <1>1, <1>2, OpStepsOn
<1>4. /\ i <= count.ops /\ op[i].old \in Paths
      /\ \/ op[i].kind = "delete"
         \/ op[i].kind = "rename" /\ op[i].new \in Paths \ {op[i].old}
  BY <1>1 DEF SaveInv, OpsPlaced
<1>5. op[i].new \in {0} \cup Paths /\ count.ops \in Nat
  <2>1. op[i] \in OpState /\ count \in Counters
    BY DEF SaveInv, SaveTypeOK, SaveTypes
  <2> QED BY <2>1 DEF OpState, Counters
<1>6. OpMoves(i)
  BY <1>1, <1>2, <1>3, <1>4, <1>5 DEF OpMoves
<1>7. SaveTypes'
  BY <1>1, <1>3 DEF SaveInv, SaveTypeOK, SaveTypes
<1>8. SameSaves
  BY <1>1 DEF SameSaves, SaveAtWork
<1> QED BY <1>1, <1>4, <1>5, <1>6, <1>7, <1>8, AskKeeps

\* An operation that takes the guard of one of its names.
LEMMA GuardTaken ==
    ASSUME SaveInv, NEW i \in Ops, NEW p \in Paths, guard[p] = Free,
           op[i].step \notin {"idle", "act", "checked", "sent"}, NEW x \in {"second", "act"},
           guard' = [guard EXCEPT ![p] = <<"op", i>>], op' = [op EXCEPT ![i].step = x],
           x = "second" => op[i].kind = "rename" /\ p = Guards(op[i])[1],
           x = "act" => /\ guard'[op[i].old] = <<"op", i>>
                        /\ op[i].kind = "rename" => guard'[op[i].new] = <<"op", i>>,
           UNCHANGED <<disk, tab, queue, active, freed, drain, save, lane, session, count, raced, unconfirmed, slipped, world>>
    PROVE  SaveInv'
<1>1. x \in OpSteps
  BY DEF OpSteps
<1>2. /\ op' \in [Ops -> OpState] /\ \A j \in Ops \ {i} : op'[j] = op[j]
      /\ op'[i].step = x /\ op'[i].kind = op[i].kind
      /\ op'[i].old = op[i].old /\ op'[i].new = op[i].new
  BY <1>1, OpStepsOn
<1>3. guard \in [Paths -> {Free} \cup Result] /\ GuardsOwned
  BY DEF SaveInv, SaveTypeOK, SaveTypes
<1>4. /\ guard' \in [Paths -> {Free} \cup Result]
      /\ guard'[p] = <<"op", i>> /\ \A q \in Paths \ {p} : guard'[q] = guard[q]
  BY <1>3 DEF Result
<1>5. SaveTypes'
  BY <1>2, <1>4 DEF SaveInv, SaveTypeOK, SaveTypes
<1>6. SameSaves
  BY DEF SameSaves, SaveAtWork
<1>7. GuardsOwned'
  <2>1. (\A t \in Tabs : save[t].step # "none" =>
            tab[t].saving /\ tab[t].locked /\ save[t].path \in Paths)'
    BY <1>3 DEF GuardsOwned
  <2>2. ASSUME NEW q \in Paths
        PROVE  (\/ guard[q] = Free
                \/ \E t \in Tabs : guard[q] = <<"save", t>> /\ save[t].step = "write" /\ save[t].path = q
                \/ \E j \in Ops : guard[q] = <<"op", j>> /\ op[j].step \in {"second", "act", "checked"})'
    <3>1. CASE q = p
      BY <1>2, <1>4, <3>1
    <3>2. CASE q # p /\ guard[q] = Free
      BY <1>4, <3>2
    <3>3. CASE q # p /\ \E t \in Tabs : guard[q] = <<"save", t>> /\ save[t].step = "write" /\ save[t].path = q
      BY <1>4, <3>3
    <3>4. CASE q # p /\ \E j \in Ops : guard[q] = <<"op", j>> /\ op[j].step \in {"second", "act", "checked"}
      BY <1>2, <1>4, <3>4
    <3> QED BY <1>3, <3>1, <3>2, <3>3, <3>4 DEF GuardsOwned
  <2>3. (\A t \in Tabs : save[t].step = "write" => guard[save[t].path] = <<"save", t>>)'
    BY <1>3, <1>4 DEF GuardsOwned, Free
  <2>4. ASSUME NEW j \in Ops, op'[j].step \in {"act", "checked"}
        PROVE  (guard[op[j].old] = <<"op", j>> /\ (op[j].kind = "rename" => guard[op[j].new] = <<"op", j>>))'
    <3>1. CASE j = i
      BY <1>2, <2>4, <3>1
    <3>2. CASE j # i
      <4>1. /\ op'[j] = op[j] /\ op[j].old \in Paths
            /\ op[j].kind = "rename" => op[j].new \in Paths
            /\ guard[op[j].old] = <<"op", j>>
            /\ op[j].kind = "rename" => guard[op[j].new] = <<"op", j>>
        BY <1>2, <1>3, <2>4, <3>2 DEF GuardsOwned, SaveInv, OpsPlaced
      <4> QED BY <1>4, <4>1 DEF Free
    <3> QED BY <3>1, <3>2
  <2> QED BY <2>1, <2>2, <2>3, <2>4 DEF GuardsOwned
<1>8. OpsPlaced'
  <2>1. ASSUME NEW j \in Ops, op'[j].step # "idle"
        PROVE  (/\ j <= count.ops /\ op[j].old \in Paths
                /\ \/ op[j].kind = "delete" /\ op[j].step # "second"
                   \/ op[j].kind = "rename" /\ op[j].new \in Paths \ {op[j].old}
                /\ op[j].step = "second" => guard[Guards(op[j])[1]] = <<"op", j>>)'
    <3>1. CASE j = i
      <4>1. /\ i <= count.ops /\ op[i].old \in Paths
            /\ \/ op[i].kind = "delete" /\ op[i].step # "second"
               \/ op[i].kind = "rename" /\ op[i].new \in Paths \ {op[i].old}
        BY DEF SaveInv, OpsPlaced
      <4>2. Guards(op'[i])[1] = Guards(op[i])[1]
        BY <1>2 DEF Guards
      <4> QED BY <1>2, <1>4, <3>1, <4>1, <4>2
    <3>2. CASE j # i
      <4>1. op'[j] = op[j] /\ op[j].step # "idle"
        BY <1>2, <2>1, <3>2
      <4>2. op[j].step = "second" => /\ Guards(op[j])[1] \in Paths
                                     /\ guard[Guards(op[j])[1]] = <<"op", j>>
        BY <4>1 DEF SaveInv, OpsPlaced, Guards
      <4>3. op[j].step = "second" => guard'[Guards(op[j])[1]] = <<"op", j>>
        BY <1>4, <4>2 DEF Free
      <4> QED BY <4>1, <4>3 DEF SaveInv, OpsPlaced
    <3> QED BY <3>1, <3>2
  <2> QED BY <2>1 DEF OpsPlaced
<1>9. LaneOnce'
  BY <1>2 DEF SaveInv, LaneOnce
<1> QED BY <1>5, <1>6, <1>7, <1>8, <1>9, SameSavesKeep DEF SaveInv, SaveTypeOK

LEMMA TakeFirstKeeps ==
    ASSUME SaveInv, NEW i \in Ops, TakeFirst(i)
    PROVE  SaveInv'
<1> DEFINE p == Guards(op[i])[1]
           x == IF op[i].kind = "rename" THEN "second" ELSE "act"
<1>1. /\ op[i].step = "first" /\ guard[p] = Free /\ guard' = [guard EXCEPT ![p] = <<"op", i>>]
      /\ op' = [op EXCEPT ![i].step = x] /\ x \in {"second", "act"}
      /\ UNCHANGED <<disk, tab, queue, active, freed, drain, save, lane, session, count, raced, unconfirmed, slipped, world>>
  BY DEF TakeFirst
<1>2. /\ op[i].old \in Paths
      /\ \/ op[i].kind = "delete"
         \/ op[i].kind = "rename" /\ op[i].new \in Paths
  BY <1>1 DEF SaveInv, OpsPlaced
<1>3. p \in Paths /\ (op[i].kind = "delete" => p = op[i].old)
  BY <1>2 DEF Guards
<1>4. x = "second" => op[i].kind = "rename"
  OBVIOUS
<1>5. x = "act" => op[i].kind = "delete" /\ guard'[op[i].old] = <<"op", i>>
  <2>1. guard \in [Paths -> {Free} \cup Result]
    BY DEF SaveInv, SaveTypeOK, SaveTypes
  <2> QED BY <1>1, <1>2, <1>3, <2>1
<1> HIDE DEF p, x
<1> QED BY <1>1, <1>3, <1>4, <1>5, GuardTaken DEF p

LEMMA TakeSecondKeeps ==
    ASSUME SaveInv, NEW i \in Ops, TakeSecond(i)
    PROVE  SaveInv'
<1> DEFINE p == Guards(op[i])[2]
<1>1. /\ op[i].step = "second" /\ guard[p] = Free /\ guard' = [guard EXCEPT ![p] = <<"op", i>>]
      /\ op' = [op EXCEPT ![i].step = "act"]
      /\ UNCHANGED <<disk, tab, queue, active, freed, drain, save, lane, session, count, raced, unconfirmed, slipped, world>>
  BY DEF TakeSecond
<1>2. /\ op[i].kind = "rename" /\ op[i].old \in Paths /\ op[i].new \in Paths
      /\ guard[Guards(op[i])[1]] = <<"op", i>>
  BY <1>1 DEF SaveInv, OpsPlaced
<1>3. p \in Paths /\ {p, Guards(op[i])[1]} = {op[i].old, op[i].new}
  BY <1>2 DEF Guards
<1>4. guard'[op[i].old] = <<"op", i>> /\ guard'[op[i].new] = <<"op", i>>
  <2>1. guard \in [Paths -> {Free} \cup Result]
    BY DEF SaveInv, SaveTypeOK, SaveTypes
  <2> HIDE DEF p
  <2>2. \A q \in {op[i].old, op[i].new} : q = p \/ guard[q] = <<"op", i>>
    BY <1>2, <1>3
  <2> QED BY <1>1, <1>2, <1>3, <2>1, <2>2
<1> HIDE DEF p
<1> QED BY <1>1, <1>3, <1>4, GuardTaken

\* A renamed file is the same file, for the tabs that show its old name.
LEMMA RenamedFacts ==
    ASSUME disk \in [Paths -> Object], NEW o, o.old \in Paths
    PROVE  /\ AsRenamed(o) \in Object
           /\ AsRenamed(o).obj = disk[o.old].obj /\ AsRenamed(o).text = disk[o.old].text
           /\ AsRenamed(o).by = {t \in disk[o.old].by : tab[t].path = o.old}
<1>1. \A x \in Object, b \in SUBSET Tabs :
         LET y == [x EXCEPT !.by = b]
         IN  y \in Object /\ y.obj = x.obj /\ y.text = x.text /\ y.by = b
  BY DEF Object
<1>2. disk[o.old] \in Object /\ {t \in disk[o.old].by : tab[t].path = o.old} \in SUBSET Tabs
  BY DEF Object
<1> QED BY <1>1, <1>2 DEF AsRenamed

\* What the call of an operation does to the files when the operation ends at x.
CallTakes(i, x) ==
  \/ disk' = disk
  \/ /\ op[i].kind = "delete" /\ op[i].step = "checked"
     /\ disk' = [disk EXCEPT ![op[i].old] = Nothing]
  \/ /\ op[i].kind = "rename" /\ (op[i].step = "act" => disk[op[i].new] = Nothing)
     /\ disk[op[i].old] # Nothing
     /\ \/ x = "ran" /\ disk' = Moved(op[i], AsRenamed(op[i]))
        \/ x = "end" /\ disk' = Moved(op[i], [AsRenamed(op[i]) EXCEPT !.by = {}])

\* An operation that acts has looked, and nothing more; or it ends, and drops its guards.
LEMMA ActDoes ==
    ASSUME NEW i \in Ops, Act(i) \/ TakeName(i)
    PROVE  /\ op[i].step \in {"act", "checked"}
           /\ UNCHANGED <<tab, queue, active, freed, drain, save, lane, session, raced,
                          unconfirmed, world>>
           /\ \/ /\ op[i].step = "act" /\ op' = [op EXCEPT ![i].step = "checked"]
                 /\ \/ slipped' = slipped \cup {i}
                    \/ /\ MayDelete(op[i]) \/ op[i].kind = "rename"
                       /\ op[i].kind = "rename" => disk[op[i].new] = Nothing
                       /\ UNCHANGED slipped
                 /\ UNCHANGED <<disk, guard>>
              \/ \E x \in {"ran", "end"} : OpEnds(i, x) /\ CallTakes(i, x) /\ UNCHANGED slipped
           /\ UNCHANGED count \/ count' = [count EXCEPT !.faults = @ + 1]
<1>1. CASE Act(i)
  <2>1. CASE op[i].kind = "rename" /\ MayRename(op[i]) /\ RenameCall(i)
    BY <1>1, <2>1 DEF Act, RenameCall, MayRename, CallTakes, Fault
  <2>2. CASE ~(op[i].kind = "rename" /\ MayRename(op[i]) /\ RenameCall(i))
    BY <1>1, <2>2 DEF Act, CallTakes, Fault
  <2> QED BY <2>1, <2>2
<1>2. CASE TakeName(i)
  <2>1. CASE op[i].kind = "rename" /\ disk[op[i].old] # Nothing /\ RenameCall(i)
    BY <1>2, <2>1 DEF TakeName, RenameCall, CallTakes, Fault
  <2>2. CASE ~(op[i].kind = "rename" /\ disk[op[i].old] # Nothing /\ RenameCall(i))
    BY <1>2, <2>2 DEF TakeName, CallTakes, Fault
  <2> QED BY <2>1, <2>2
<1> QED BY <1>1, <1>2

\* It has looked.
LEMMA LookKeeps ==
    ASSUME SaveInv, NEW i \in Ops, op[i].step = "act", op' = [op EXCEPT ![i].step = "checked"],
           count' \in Counters, count'.saves = count.saves, count'.ops = count.ops,
           slipped' \in SUBSET Ops,
           UNCHANGED <<disk, tab, queue, active, freed, drain, save, guard, lane, session,
                       raced, unconfirmed, world>>
    PROVE  SaveInv'
<1>1. "checked" \in OpSteps
  BY DEF OpSteps
<1>2. /\ op' \in [Ops -> OpState] /\ \A j \in Ops \ {i} : op'[j] = op[j]
      /\ op'[i].step = "checked" /\ op'[i].kind = op[i].kind
      /\ op'[i].old = op[i].old /\ op'[i].new = op[i].new
  BY <1>1, OpStepsOn
<1>3. SaveTypes' /\ SameSaves
  BY <1>2 DEF SaveInv, SaveTypeOK, SaveTypes, SameSaves, SaveAtWork
<1>4. GuardsOwned'
  <2>1. GuardsOwned
    BY DEF SaveInv, SaveTypeOK
  <2>2. \A j \in Ops : op'[j].step \in {"second", "act", "checked"} <=> op[j].step \in {"second", "act", "checked"}
    BY <1>2
  <2>3. \A j \in Ops : op'[j].step \in {"act", "checked"} <=> op[j].step \in {"act", "checked"}
    BY <1>2
  <2>4. \A j \in Ops : op'[j].kind = op[j].kind /\ op'[j].old = op[j].old /\ op'[j].new = op[j].new
    BY <1>2
  <2>5. ASSUME NEW p \in Paths
        PROVE  \/ guard[p] = Free
               \/ \E t \in Tabs : guard[p] = <<"save", t>> /\ save[t].step = "write" /\ save[t].path = p
               \/ \E j \in Ops : guard[p] = <<"op", j>> /\ op'[j].step \in {"second", "act", "checked"}
    BY <2>1, <2>2 DEF GuardsOwned
  <2>6. ASSUME NEW j \in Ops, op'[j].step \in {"act", "checked"}
        PROVE  /\ guard[op'[j].old] = <<"op", j>>
               /\ op'[j].kind = "rename" => guard[op'[j].new] = <<"op", j>>
    <3>1. op[j].step \in {"act", "checked"}
      BY <2>3, <2>6
    <3>2. guard[op[j].old] = <<"op", j>> /\ (op[j].kind = "rename" => guard[op[j].new] = <<"op", j>>)
      BY <2>1, <3>1 DEF GuardsOwned
    <3> QED BY <2>4, <3>2
  <2>7. /\ \A t \in Tabs : save[t].step # "none" => tab[t].saving /\ tab[t].locked /\ save[t].path \in Paths
        /\ \A t \in Tabs : save[t].step = "write" => guard[save[t].path] = <<"save", t>>
    BY <2>1 DEF GuardsOwned
  <2> QED BY <2>5, <2>6, <2>7 DEF GuardsOwned
<1>5. OpsPlaced'
  <2>1. ASSUME NEW j \in Ops, op'[j].step # "idle"
        PROVE  (/\ j <= count.ops /\ op[j].old \in Paths
                /\ \/ op[j].kind = "delete" /\ op[j].step # "second"
                   \/ op[j].kind = "rename" /\ op[j].new \in Paths \ {op[j].old}
                /\ op[j].step = "second" => guard[Guards(op[j])[1]] = <<"op", j>>)'
    <3>1. CASE j = i
      BY <1>2, <3>1 DEF SaveInv, OpsPlaced
    <3>2. CASE j # i
      BY <1>2, <2>1, <3>2 DEF SaveInv, OpsPlaced, Guards
    <3> QED BY <3>1, <3>2
  <2> QED BY <2>1 DEF OpsPlaced
<1>6. LaneOnce'
  BY <1>2 DEF SaveInv, LaneOnce
<1> QED BY <1>3, <1>4, <1>5, <1>6, SameSavesKeep DEF SaveInv, SaveTypeOK

\* It ends.
LEMMA OpEndsKeeps ==
    ASSUME SaveInv, NEW i \in Ops, op[i].step \in {"act", "checked"},
           NEW x \in {"ran", "end"}, OpEnds(i, x), CallTakes(i, x),
           UNCHANGED count \/ count' = [count EXCEPT !.faults = @ + 1],
           UNCHANGED <<tab, queue, active, freed, drain, save, lane, session, raced,
                       unconfirmed, slipped, world>>
    PROVE  SaveInv'
<1>1. guard' = [p \in Paths |-> IF guard[p] = <<"op", i>> THEN Free ELSE guard[p]]
  BY DEF OpEnds, DropGuards
<1>2. op' = [op EXCEPT ![i].step = x]
  BY DEF OpEnds
<1>3. x \in OpSteps
  BY DEF OpSteps
<1>4. /\ op' \in [Ops -> OpState] /\ \A j \in Ops \ {i} : op'[j] = op[j]
      /\ op'[i].step = x /\ op'[i].kind = op[i].kind
      /\ op'[i].old = op[i].old /\ op'[i].new = op[i].new
  BY <1>2, <1>3, OpStepsOn
<1>5. /\ guard \in [Paths -> {Free} \cup Result] /\ GuardsOwned /\ disk \in [Paths -> Object]
      /\ count \in Counters
  BY DEF SaveInv, SaveTypeOK, SaveTypes
<1>6. /\ i <= count.ops /\ op[i].old \in Paths
      /\ \/ op[i].kind = "delete"
         \/ op[i].kind = "rename" /\ op[i].new \in Paths \ {op[i].old}
  BY DEF SaveInv, OpsPlaced
<1>7. guard' \in [Paths -> {Free} \cup Result]
  BY <1>1, <1>5
<1>8. \A p \in Paths : /\ guard[p] = <<"op", i>> => guard'[p] = Free
                       /\ guard[p] # <<"op", i>> => guard'[p] = guard[p]
  BY <1>1
<1>9. count' \in Counters /\ count'.saves = count.saves /\ count'.ops = count.ops
  <2>1. CASE UNCHANGED count
    BY <1>5, <2>1
  <2>2. CASE count' = [count EXCEPT !.faults = @ + 1]
    BY <1>5, <2>2 DEF Counters
  <2> QED BY <2>1, <2>2
<1>10. disk' \in [Paths -> Object]
  <2>1. Nothing \in Object
    BY DEF Nothing, Object
  <2>2. \/ disk' = disk
        \/ disk' = [disk EXCEPT ![op[i].old] = Nothing]
        \/ /\ op[i].kind = "rename"
           /\ \E y \in {AsRenamed(op[i]), [AsRenamed(op[i]) EXCEPT !.by = {}]} :
                disk' = [disk EXCEPT ![op[i].new] = y, ![op[i].old] = Nothing]
    BY DEF CallTakes, Moved
  <2>3. AsRenamed(op[i]) \in Object /\ [AsRenamed(op[i]) EXCEPT !.by = {}] \in Object
    <3>1. \A y \in Object : [y EXCEPT !.by = {}] \in Object
      BY DEF Object
    <3> QED BY <1>5, <1>6, <3>1, RenamedFacts
  <2> QED BY <1>5, <1>6, <2>1, <2>2, <2>3
<1>11. SaveTypes'
  BY <1>1, <1>4, <1>7, <1>9, <1>10 DEF SaveInv, SaveTypeOK, SaveTypes
<1>12. SameSaves
  BY <1>1, <1>9 DEF SameSaves, SaveAtWork
<1>13. GuardsOwned'
  <2>1. (\A t \in Tabs : save[t].step # "none" =>
            tab[t].saving /\ tab[t].locked /\ save[t].path \in Paths)'
    BY <1>1, <1>5 DEF GuardsOwned
  <2>2. ASSUME NEW q \in Paths
        PROVE  (\/ guard[q] = Free
                \/ \E t \in Tabs : guard[q] = <<"save", t>> /\ save[t].step = "write" /\ save[t].path = q
                \/ \E j \in Ops : guard[q] = <<"op", j>> /\ op[j].step \in {"second", "act", "checked"})'
    <3>1. CASE guard[q] = <<"op", i>>
      BY <1>8, <3>1
    <3>2. CASE guard[q] # <<"op", i>> /\ guard[q] = Free
      BY <1>8, <3>2
    <3>3. CASE guard[q] # <<"op", i>> /\ \E t \in Tabs : guard[q] = <<"save", t>> /\ save[t].step = "write" /\ save[t].path = q
      BY <1>1, <1>8, <3>3
    <3>4. CASE guard[q] # <<"op", i>> /\ \E j \in Ops : guard[q] = <<"op", j>> /\ op[j].step \in {"second", "act", "checked"}
      BY <1>4, <1>8, <3>4
    <3> QED BY <1>5, <3>1, <3>2, <3>3, <3>4 DEF GuardsOwned
  <2>3. ASSUME NEW t \in Tabs, save'[t].step = "write"
        PROVE  guard'[save'[t].path] = <<"save", t>>
    <3>1. save[t].path \in Paths /\ guard[save[t].path] = <<"save", t>>
      BY <1>1, <1>5, <2>3 DEF GuardsOwned
    <3> QED BY <1>1, <1>8, <3>1
  <2>4. ASSUME NEW j \in Ops, op'[j].step \in {"act", "checked"}
        PROVE  (guard[op[j].old] = <<"op", j>> /\ (op[j].kind = "rename" => guard[op[j].new] = <<"op", j>>))'
    <3>1. j # i
      BY <1>4, <2>4
    <3>2. /\ op'[j] = op[j] /\ op[j].old \in Paths
          /\ op[j].kind = "rename" => op[j].new \in Paths
          /\ guard[op[j].old] = <<"op", j>>
          /\ op[j].kind = "rename" => guard[op[j].new] = <<"op", j>>
      BY <1>4, <1>5, <2>4, <3>1 DEF GuardsOwned, SaveInv, OpsPlaced
    <3> QED BY <1>8, <3>1, <3>2
  <2> QED BY <2>1, <2>2, <2>3, <2>4 DEF GuardsOwned
<1>14. OpsPlaced'
  <2>1. ASSUME NEW j \in Ops, op'[j].step # "idle"
        PROVE  (/\ j <= count.ops /\ op[j].old \in Paths
                /\ \/ op[j].kind = "delete" /\ op[j].step # "second"
                   \/ op[j].kind = "rename" /\ op[j].new \in Paths \ {op[j].old}
                /\ op[j].step = "second" => guard[Guards(op[j])[1]] = <<"op", j>>)'
    <3>1. CASE j = i
      BY <1>4, <1>6, <1>9, <3>1
    <3>2. CASE j # i
      <4>1. op'[j] = op[j] /\ op[j].step # "idle"
        BY <1>4, <2>1, <3>2
      <4>2. op[j].step = "second" => /\ Guards(op[j])[1] \in Paths
                                     /\ guard[Guards(op[j])[1]] = <<"op", j>>
        BY <4>1 DEF SaveInv, OpsPlaced, Guards
      <4>3. op[j].step = "second" => guard'[Guards(op[j])[1]] = <<"op", j>>
        BY <1>8, <3>2, <4>2
      <4> QED BY <1>9, <4>1, <4>3 DEF SaveInv, OpsPlaced
    <3> QED BY <3>1, <3>2
  <2> QED BY <2>1 DEF OpsPlaced
<1>15. LaneOnce'
  BY <1>1, <1>4 DEF SaveInv, LaneOnce
<1> QED BY <1>11, <1>12, <1>13, <1>14, <1>15, SameSavesKeep DEF SaveInv, SaveTypeOK

LEMMA ActKeeps ==
    ASSUME SaveInv, NEW i \in Ops, Act(i) \/ TakeName(i)
    PROVE  SaveInv'
<1>1. count' \in Counters /\ count'.saves = count.saves /\ count'.ops = count.ops
  <2>1. count \in Counters
    BY DEF SaveInv, SaveTypeOK, SaveTypes
  <2>2. CASE count' = [count EXCEPT !.faults = @ + 1]
    BY <2>1, <2>2 DEF Counters
  <2> QED BY <2>1, <2>2, ActDoes
<1>2. slipped' \in SUBSET Ops
  <2>1. UNCHANGED slipped \/ slipped' = slipped \cup {i}
    BY ActDoes
  <2> QED BY <2>1 DEF SaveInv, SaveTypeOK, SaveTypes
<1>3. /\ op[i].step \in {"act", "checked"}
      /\ UNCHANGED <<tab, queue, active, freed, drain, save, lane, session, raced, unconfirmed, world>>
  BY ActDoes
<1>4. CASE op[i].step = "act" /\ op' = [op EXCEPT ![i].step = "checked"] /\ UNCHANGED <<disk, guard>>
  BY <1>1, <1>2, <1>3, <1>4, LookKeeps
<1>5. ASSUME NEW x \in {"ran", "end"}, OpEnds(i, x), CallTakes(i, x), UNCHANGED slipped
      PROVE  SaveInv'
  <2>1. UNCHANGED count \/ count' = [count EXCEPT !.faults = @ + 1]
    BY ActDoes
  <2> QED BY <1>3, <1>5, <2>1, OpEndsKeeps
<1> QED BY <1>4, <1>5, ActDoes

\* A step of an operation that holds no guard before or after.
LEMMA LooseOp ==
    ASSUME SaveInv, NEW i \in Ops, op[i].step \notin {"idle", "second", "act", "checked"},
           NEW x \in {"sent", "end"}, op' = [op EXCEPT ![i].step = x],
           UNCHANGED <<save, guard, count>>, SameSaves
    PROVE  /\ op' \in [Ops -> OpState] /\ \A j \in Ops \ {i} : op'[j] = op[j]
           /\ op'[i].step = x /\ GuardsOwned' /\ OpsPlaced'
<1>1. x \in OpSteps
  BY DEF OpSteps
<1>2. /\ op' \in [Ops -> OpState] /\ \A j \in Ops \ {i} : op'[j] = op[j]
      /\ op'[i].step = x /\ op'[i].kind = op[i].kind
      /\ op'[i].old = op[i].old /\ op'[i].new = op[i].new
  BY <1>1, OpStepsOn
<1>3. \A j \in Ops : \/ op'[j] = op[j]
                     \/ op[j].step \notin {"second", "act", "checked"} /\ op'[j].step \notin {"second", "act", "checked"}
  BY <1>2
<1>4. GuardsOwned'
  <2>1. GuardsOwned
    BY DEF SaveInv, SaveTypeOK
  <2>3. (\A t \in Tabs : save[t].step # "none" =>
            tab[t].saving /\ tab[t].locked /\ save[t].path \in Paths)'
    BY <2>1 DEF GuardsOwned, SameSaves
  <2>4. (\A p \in Paths :
            \/ guard[p] = Free
            \/ \E t \in Tabs : guard[p] = <<"save", t>> /\ save[t].step = "write" /\ save[t].path = p
            \/ \E j \in Ops : guard[p] = <<"op", j>> /\ op[j].step \in {"second", "act", "checked"})'
    BY <2>1, <1>3 DEF GuardsOwned
  <2>5. (\A j \in Ops : op[j].step \in {"act", "checked"} =>
           guard[op[j].old] = <<"op", j>> /\ (op[j].kind = "rename" => guard[op[j].new] = <<"op", j>>))'
    BY <2>1, <1>3 DEF GuardsOwned
  <2> QED BY <2>1, <2>3, <2>4, <2>5 DEF GuardsOwned
<1>5. OpsPlaced'
  <2>1. ASSUME NEW j \in Ops, op'[j].step # "idle"
        PROVE  (/\ j <= count.ops /\ op[j].old \in Paths
                /\ \/ op[j].kind = "delete" /\ op[j].step # "second"
                   \/ op[j].kind = "rename" /\ op[j].new \in Paths \ {op[j].old}
                /\ op[j].step = "second" => guard[Guards(op[j])[1]] = <<"op", j>>)'
    <3>1. CASE j = i
      BY <1>2, <3>1 DEF SaveInv, OpsPlaced
    <3>2. CASE j # i
      <4>1. op'[j] = op[j] /\ op[j].step # "idle"
        BY <1>2, <2>1, <3>2
      <4> QED BY <4>1 DEF SaveInv, OpsPlaced, Guards
    <3> QED BY <3>1, <3>2
  <2> QED BY <2>1 DEF OpsPlaced
<1> QED BY <1>2, <1>4, <1>5

LEMMA ReturnOpKeeps ==
    ASSUME SaveInv, NEW i \in Ops, ReturnOp(i)
    PROVE  SaveInv'
<1>1. /\ op[i].step = "ran" /\ op' = [op EXCEPT ![i].step = "sent"]
      /\ lane \in Seq(Result) /\ lane' = Append(lane, <<"op", i>>)
      /\ UNCHANGED <<disk, tab, queue, active, freed, drain, save, guard, session, count, raced, unconfirmed, slipped, world>>
  BY DEF SaveInv, SaveTypeOK, SaveTypes, ReturnOp
<1>2. SameSaves
  BY <1>1 DEF SameSaves, SaveAtWork
<1>3. /\ op' \in [Ops -> OpState] /\ \A j \in Ops \ {i} : op'[j] = op[j]
      /\ op'[i].step = "sent" /\ GuardsOwned' /\ OpsPlaced'
  BY <1>1, <1>2, LooseOp
<1>4. LaneOnce /\ \A j \in DOMAIN lane : lane[j] # <<"op", i>>
  BY <1>1 DEF SaveInv, LaneOnce
<1>5. <<"op", i>> \in Result
  BY DEF Result
<1>6. /\ lane' \in Seq(Result)
      /\ \A j, k \in DOMAIN lane' : lane'[j] = lane'[k] => j = k
      /\ \A j \in DOMAIN lane' : lane'[j] = <<"op", i>> \/ \E k \in DOMAIN lane : lane'[j] = lane[k]
  BY <1>1, <1>4, <1>5, Entering DEF LaneOnce
<1>7. LaneOnce'
  <2>1. ASSUME NEW n \in DOMAIN lane'
        PROVE  /\ \A u \in Tabs : lane'[n] = <<"save", u>> => save'[u].step = "sent"
               /\ \A k \in Ops : lane'[n] = <<"op", k>> => op'[k].step = "sent"
    <3>1. CASE lane'[n] = <<"op", i>>
      BY <1>3, <3>1
    <3>2. CASE \E j \in DOMAIN lane : lane'[n] = lane[j]
      <4>1. PICK j \in DOMAIN lane : lane'[n] = lane[j]
        BY <3>2
      <4>2. \A k \in Ops : lane[j] = <<"op", k>> => k # i /\ op'[k].step = "sent"
        BY <1>3, <1>4 DEF LaneOnce
      <4> QED BY <1>1, <1>4, <4>1, <4>2 DEF LaneOnce
    <3> QED BY <1>6, <3>1, <3>2
  <2> QED BY <1>6, <2>1 DEF LaneOnce
<1>8. SaveTypes'
  BY <1>1, <1>3, <1>6 DEF SaveInv, SaveTypeOK, SaveTypes
<1> QED BY <1>2, <1>3, <1>7, <1>8, SameSavesKeep DEF SaveInv, SaveTypeOK

\* A result that leaves the lane.
LEMMA Leaving ==
    ASSUME SaveInv, lane # <<>>, lane' = Tail(lane)
    PROVE  /\ lane' \in Seq(Result) /\ 1 \in DOMAIN lane /\ lane[1] = Head(lane)
           /\ \A i, j \in DOMAIN lane' : lane'[i] = lane'[j] => i = j
           /\ \A i \in DOMAIN lane' :
                 /\ lane'[i] # Head(lane)
                 /\ \A t \in Tabs : lane'[i] = <<"save", t>> => save[t].step = "sent"
                 /\ \A k \in Ops : lane'[i] = <<"op", k>> => op[k].step = "sent"
<1>1. lane \in Seq(Result) /\ LaneOnce
  BY DEF SaveInv, SaveTypeOK, SaveTypes
<1>2. /\ lane' \in Seq(Result) /\ 1 \in DOMAIN lane /\ lane[1] = Head(lane)
      /\ \A i \in DOMAIN lane' : /\ i + 1 \in DOMAIN lane /\ lane'[i] = lane[i + 1]
                                 /\ i \in Nat /\ i # 0
  BY <1>1
<1>3. \A i, j \in DOMAIN lane' : lane'[i] = lane'[j] => i = j
  BY <1>1, <1>2 DEF LaneOnce
<1>4. \A i \in DOMAIN lane' : lane'[i] # Head(lane)
  BY <1>1, <1>2 DEF LaneOnce
<1>5. \A i \in DOMAIN lane' :
         /\ \A t \in Tabs : lane'[i] = <<"save", t>> => save[t].step = "sent"
         /\ \A k \in Ops : lane'[i] = <<"op", k>> => op[k].step = "sent"
  <2> SUFFICES ASSUME NEW i \in DOMAIN lane'
               PROVE  /\ \A t \in Tabs : lane'[i] = <<"save", t>> => save[t].step = "sent"
                      /\ \A k \in Ops : lane'[i] = <<"op", k>> => op[k].step = "sent"
    OBVIOUS
  <2>1. PICK j \in DOMAIN lane : lane'[i] = lane[j]
    BY <1>2
  <2> QED BY <1>1, <2>1 DEF LaneOnce
<1> QED BY <1>2, <1>3, <1>4, <1>5

LEMMA OpDoneKeeps ==
    ASSUME SaveInv, Deliver, NEW i \in Ops, Head(lane) = <<"op", i>>, OpDone(i),
           UNCHANGED <<disk, save, freed, session, raced, unconfirmed>>
    PROVE  SaveInv'
<1>1. /\ lane # <<>> /\ lane' = Tail(lane) /\ op' = [op EXCEPT ![i].step = "end"]
      /\ tab \in [Tabs -> Editor]
      /\ UNCHANGED <<disk, queue, active, drain, guard, count, slipped, world>>
  BY DEF SaveInv, SaveTypeOK, SaveTypes, Deliver, OpDone
<1>2. /\ lane' \in Seq(Result) /\ 1 \in DOMAIN lane /\ lane[1] = Head(lane)
      /\ \A n, m \in DOMAIN lane' : lane'[n] = lane'[m] => n = m
      /\ \A n \in DOMAIN lane' :
            /\ lane'[n] # Head(lane)
            /\ \A t \in Tabs : lane'[n] = <<"save", t>> => save[t].step = "sent"
            /\ \A k \in Ops : lane'[n] = <<"op", k>> => op[k].step = "sent"
  BY <1>1, Leaving
<1>3. op[i].step = "sent"
  BY <1>2 DEF SaveInv, LaneOnce
<1>4. op[i].old \in Paths /\ (op[i].kind = "rename" => op[i].new \in Paths)
  BY <1>3 DEF SaveInv, OpsPlaced
<1>5. \A t \in Tabs : /\ tab'[t] \in Editor /\ tab'[t].saving = tab[t].saving
                      /\ tab'[t].locked = tab[t].locked /\ tab'[t].gen = tab[t].gen
  <2> SUFFICES ASSUME NEW t \in Tabs
               PROVE  /\ tab'[t] \in Editor /\ tab'[t].saving = tab[t].saving
                      /\ tab'[t].locked = tab[t].locked /\ tab'[t].gen = tab[t].gen
    OBVIOUS
  <2>1. tab[t] \in Editor
    BY <1>1
  <2>2. \/ tab'[t] = tab[t]
        \/ op[i].kind = "rename" /\ tab'[t] = [tab[t] EXCEPT !.path = op[i].new, !.pathGen = @ + 1]
        \/ tab'[t] = [tab[t] EXCEPT !.open = FALSE]
    BY DEF OpDone
  <2>3. CASE tab'[t] = tab[t]
    BY <2>1, <2>3
  <2>4. CASE op[i].kind = "rename" /\ tab'[t] = [tab[t] EXCEPT !.path = op[i].new, !.pathGen = @ + 1]
    <3>1. \A e \in Editor, p \in Paths, n \in Nat :
             /\ [e EXCEPT !.path = p, !.pathGen = n] \in Editor
             /\ [e EXCEPT !.path = p, !.pathGen = n].saving = e.saving
             /\ [e EXCEPT !.path = p, !.pathGen = n].locked = e.locked
             /\ [e EXCEPT !.path = p, !.pathGen = n].gen = e.gen
      BY DEF Editor
    <3>2. op[i].new \in Paths /\ tab[t].pathGen + 1 \in Nat
      BY <1>4, <2>1, <2>4 DEF Editor
    <3>3. PICK q \in Paths, n \in Nat : tab'[t] = [tab[t] EXCEPT !.path = q, !.pathGen = n]
      BY <2>4, <3>2
    <3>4. /\ [tab[t] EXCEPT !.path = q, !.pathGen = n] \in Editor
          /\ [tab[t] EXCEPT !.path = q, !.pathGen = n].saving = tab[t].saving
          /\ [tab[t] EXCEPT !.path = q, !.pathGen = n].locked = tab[t].locked
          /\ [tab[t] EXCEPT !.path = q, !.pathGen = n].gen = tab[t].gen
      BY <2>1, <3>1
    <3> QED BY <3>3, <3>4
  <2>5. CASE tab'[t] = [tab[t] EXCEPT !.open = FALSE]
    BY <2>1, <2>5 DEF Editor
  <2> QED BY <2>2, <2>3, <2>4, <2>5
<1>6. tab' \in [Tabs -> Editor]
  <2>1. tab' = [t \in Tabs |-> tab'[t]]
    BY DEF OpDone
  <2> QED BY <1>5, <2>1
<1>7. SameSaves
  BY <1>1, <1>5 DEF SameSaves, SaveAtWork
<1>8. /\ op' \in [Ops -> OpState] /\ \A j \in Ops \ {i} : op'[j] = op[j]
      /\ op'[i].step = "end" /\ GuardsOwned' /\ OpsPlaced'
  BY <1>1, <1>3, <1>7, LooseOp
<1>9. LaneOnce'
  BY <1>2, <1>8 DEF LaneOnce
<1>10. SaveTypes'
  BY <1>1, <1>2, <1>6, <1>8 DEF SaveInv, SaveTypeOK, SaveTypes
<1> QED BY <1>7, <1>8, <1>9, <1>10, SameSavesKeep DEF SaveInv, SaveTypeOK

-----------------------------------------------------------------------------
(* The end of a save, and of its permit.                                    *)

LEMMA ReleasePermitKeeps ==
    ASSUME SaveInv, NEW id \in freed, ReleasePermit(id)
    PROVE  SaveInv'
<1>1. /\ freed' = freed \ {id} /\ active' = {x \in active : x.id # id} /\ drain' = TRUE
      /\ UNCHANGED <<disk, tab, queue, save, op, guard, lane, session, count, raced, unconfirmed, slipped, world>>
  BY DEF ReleasePermit
<1>2. SaveTypes'
  BY <1>1 DEF SaveInv, SaveTypeOK, SaveTypes
<1>3. GuardsOwned' /\ OpsPlaced' /\ LaneOnce'
  <2>1. GuardsOwned'
    BY <1>1 DEF SaveInv, SaveTypeOK, GuardsOwned
  <2>2. OpsPlaced' /\ LaneOnce'
    BY <1>1 DEF SaveInv, OpsPlaced, LaneOnce
  <2> QED BY <2>1, <2>2
<1>4. QueuedOnce' /\ IdsApart'
  BY <1>1 DEF SaveInv, QueuedOnce, IdsApart, SaveAtWork
<1>5. /\ active \in SUBSET Permits /\ IsFiniteSet(active) /\ active' \in SUBSET active
      /\ IsFiniteSet(active') /\ active' \in SUBSET Permits
  BY <1>1, FS_Subset DEF SaveInv, SaveTypeOK, SaveTypes, Permits
<1>6. /\ Charge(active) \in Nat /\ Charge(active') \in Nat /\ Charge(active') <= Charge(active)
      /\ Cardinality(active) \in Nat /\ Cardinality(active') \in Nat
      /\ Cardinality(active') <= Cardinality(active)
  BY <1>5, ChargeType, ChargeShrinks, FS_CardinalityType, FS_Subset
<1>7. Charge(active') <= Budget \/ Cardinality(active') = 1
  <2>1. CASE Charge(active) <= Budget
    BY <1>6, <2>1, SaveAssumption
  <2>2. CASE Cardinality(active) = 1
    <3>1. Cardinality(active') = 0 \/ Cardinality(active') = 1
      BY <1>6, <2>2
    <3>2. Cardinality(active') = 0 => Charge(active') = 0
      BY <1>5, FS_EmptySet, ChargeSteps
    <3> QED BY <3>1, <3>2, SaveAssumption
  <2> QED BY <2>1, <2>2 DEF SaveInv, WithinBudget
<1>8. Cardinality(active') <= MaxActive
  BY <1>6, SaveAssumption DEF SaveInv, WithinBudget
<1>9. (\A t \in Tabs : save[t].step # "none" => \E x \in active : x.id = save[t].id)'
  BY <1>1 DEF SaveInv, WithinBudget, IdsApart, SaveAtWork
<1>10. (\A x \in active : \/ x.id \in freed
                          \/ \E t \in Tabs : save[t].step # "none" /\ save[t].id = x.id)'
  BY <1>1 DEF SaveInv, WithinBudget
<1>11. WithinBudget'
  BY <1>7, <1>8, <1>9, <1>10 DEF WithinBudget
<1> QED BY <1>2, <1>3, <1>4, <1>5, <1>11 DEF SaveInv, SaveTypeOK

\* A save ends: its editor is released, and so is its permit.
LEMMA SaveEnds ==
    ASSUME SaveInv, NEW t \in Tabs, save[t].step \in {"sent", "mirror"},
           NEW e \in Editor, tab' = [tab EXCEPT ![t] = e],
           save' = [save EXCEPT ![t] = NoSave], freed' = freed \cup {save[t].id},
           session' \in Nat, raced' \in SUBSET Tabs, unconfirmed' \in SUBSET Tabs, lane' \in Seq(Result),
           disk' \in [Paths -> Object],
           \A i, j \in DOMAIN lane' : lane'[i] = lane'[j] => i = j,
           \A i \in DOMAIN lane' :
              /\ lane'[i] # <<"save", t>>
              /\ \A u \in Tabs : lane'[i] = <<"save", u>> => save[u].step = "sent"
              /\ \A k \in Ops : lane'[i] = <<"op", k>> => op[k].step = "sent",
           UNCHANGED <<queue, active, drain, op, guard, count, slipped, world>>
    PROVE  SaveInv'
<1>1. /\ save \in [Tabs -> SaveState] /\ tab \in [Tabs -> Editor] /\ GuardsOwned
      /\ freed \in SUBSET Nat
  BY DEF SaveInv, SaveTypeOK, SaveTypes
<1>2. /\ tab' \in [Tabs -> Editor] /\ save'[t].step = "none"
      /\ \A u \in Tabs \ {t} : tab'[u] = tab[u] /\ save'[u] = save[u]
  BY <1>1 DEF NoSave
<1>3. NoSave \in SaveState
  BY DEF NoSave, SaveState, SaveSteps
<1>4. save' \in [Tabs -> SaveState]
  BY <1>1, <1>3
<1>5. freed' \in SUBSET Nat
  <2>1. save[t] \in SaveState
    BY <1>1
  <2>2. save[t].id \in Nat
    BY <2>1 DEF SaveState
  <2> QED BY <1>1, <2>2
<1>6. SaveTypes'
  BY <1>2, <1>4, <1>5 DEF SaveInv, SaveTypeOK, SaveTypes
<1>7. GuardsOwned'
  <2>1. (\A u \in Tabs : save[u].step # "none" =>
            tab[u].saving /\ tab[u].locked /\ save[u].path \in Paths)'
    BY <1>1, <1>2 DEF GuardsOwned
  <2>2. (\A p \in Paths :
            \/ guard[p] = Free
            \/ \E u \in Tabs : guard[p] = <<"save", u>> /\ save[u].step = "write" /\ save[u].path = p
            \/ \E j \in Ops : guard[p] = <<"op", j>> /\ op[j].step \in {"second", "act", "checked"})'
    BY <1>1, <1>2 DEF GuardsOwned
  <2>3. (\A u \in Tabs : save[u].step = "write" => guard[save[u].path] = <<"save", u>>)'
    BY <1>1, <1>2 DEF GuardsOwned
  <2> QED BY <1>1, <2>1, <2>2, <2>3 DEF GuardsOwned
<1>8. QueuedOnce'
  BY <1>2, QueuedTyped DEF SaveInv, QueuedOnce, SaveAtWork
<1>9. IdsApart'
  <2>1. SaveAtWork(t) /\ ~SaveAtWork(t)' /\ \A u \in Tabs : SaveAtWork(u)' => SaveAtWork(u) /\ save'[u] = save[u]
    BY <1>2 DEF SaveAtWork
  <2> HIDE DEF SaveAtWork
  <2>2. IdsApart
    BY DEF SaveInv
  <2>3. (\A i \in DOMAIN queue :
            /\ queue[i].id <= count.saves /\ queue[i].id \notin freed
            /\ \A j \in DOMAIN queue : queue[i].id = queue[j].id => i = j
            /\ \A u \in Tabs : SaveAtWork(u) => save[u].id # queue[i].id)'
    BY <2>1, <2>2 DEF IdsApart
  <2>4. (\A u \in Tabs : SaveAtWork(u) =>
            /\ save[u].id <= count.saves /\ save[u].id \notin freed
            /\ \A v \in Tabs : SaveAtWork(v) /\ save[v].id = save[u].id => v = u)'
    BY <2>1, <2>2 DEF IdsApart
  <2>5. (\A id \in freed : id <= count.saves)'
    BY <2>1, <2>2 DEF IdsApart
  <2> QED BY <2>3, <2>4, <2>5 DEF IdsApart
<1>10. OpsPlaced'
  BY DEF SaveInv, OpsPlaced
<1>11. LaneOnce'
  BY <1>2 DEF LaneOnce
<1>12. WithinBudget' /\ IsFiniteSet(active')
  <2>1. WithinBudget
    BY DEF SaveInv
  <2>2. (\A u \in Tabs : save[u].step # "none" => \E x \in active : x.id = save[u].id)'
    BY <1>2, <2>1 DEF WithinBudget
  <2>3. (\A x \in active : \/ x.id \in freed
                           \/ \E u \in Tabs : save[u].step # "none" /\ save[u].id = x.id)'
    BY <1>2, <2>1 DEF WithinBudget
  <2> QED BY <2>1, <2>2, <2>3 DEF SaveInv, WithinBudget
<1> QED BY <1>6, <1>7, <1>8, <1>9, <1>10, <1>11, <1>12 DEF SaveInv, SaveTypeOK

\* What a tab lets go of stays as it is.
LEMMA OwnsFacts ==
    ASSUME disk \in [Paths -> Object], NEW t \in Tabs, NEW path
    PROVE  /\ Owns(t, path) \in [Paths -> Object]
           /\ \A p \in Paths : /\ Owns(t, path)[p].obj = disk[p].obj
                              /\ Owns(t, path)[p].text = disk[p].text
                              /\ Owns(t, path)[p].by = IF p = path THEN disk[p].by ELSE disk[p].by \ {t}
<1>1. \A x \in Object, b \in SUBSET Tabs :
         LET y == [x EXCEPT !.by = b]
         IN  y \in Object /\ y.obj = x.obj /\ y.text = x.text /\ y.by = b
  BY DEF Object
<1>2. \A p \in Paths : disk[p] \in Object /\ disk[p].by \ {t} \in SUBSET Tabs
  BY DEF Object
<1>3. \A p \in Paths :
         /\ Owns(t, path)[p] \in Object
         /\ Owns(t, path)[p].obj = disk[p].obj /\ Owns(t, path)[p].text = disk[p].text
         /\ Owns(t, path)[p].by = IF p = path THEN disk[p].by ELSE disk[p].by \ {t}
  BY <1>1, <1>2 DEF Owns
<1>4. Owns(t, path) \in [Paths -> Object]
  BY <1>3 DEF Owns
<1> QED BY <1>3, <1>4

\* Each way to end a save is such an end.
LEMMA SaveEnded ==
    ASSUME SaveInv, NEW t \in Tabs, save[t].step \in {"sent", "mirror"},
           \/ Accept(t)
           \/ Failed(t)
           \/ \E text \in Nat : Refuse(t, text)
    PROVE  /\ save' = [save EXCEPT ![t] = NoSave] /\ freed' = freed \cup {save[t].id}
           /\ \E e \in Editor : tab' = [tab EXCEPT ![t] = e]
           /\ session' \in Nat /\ raced' \in SUBSET Tabs /\ unconfirmed' \in SUBSET Tabs /\ disk' \in [Paths -> Object]
<1>0. disk \in [Paths -> Object]
  BY DEF SaveInv, SaveTypeOK, SaveTypes
<1>1. /\ tab[t] \in Editor /\ save[t] \in SaveState /\ save[t].path \in Paths
      /\ session \in Nat /\ raced \in SUBSET Tabs /\ unconfirmed \in SUBSET Tabs
  BY DEF SaveInv, SaveTypeOK, SaveTypes, GuardsOwned
<1>2. /\ save[t].out \in Nat /\ save[t].was \in BOOLEAN /\ tab[t].path \in Paths
      /\ tab[t].pathGen \in Nat /\ tab[t].open \in BOOLEAN /\ tab[t].text \in Nat
      /\ tab[t].modified \in BOOLEAN
  BY <1>1 DEF SaveState, Editor
<1>3. CASE Accept(t)
  <2> DEFINE s == save[t]
             p == IF s.explicit THEN s.path ELSE tab[t].path
             g == IF s.explicit THEN tab[t].pathGen + 1 ELSE tab[t].pathGen
             o == tab[t].open /\ s.close = 0
             e == [[tab[t] EXCEPT !.modified = FALSE, !.text = s.out, !.path = p, !.pathGen = g,
                                  !.open = o] EXCEPT !.saving = FALSE, !.locked = FALSE]
  <2>1. p \in Paths /\ g \in Nat /\ o \in BOOLEAN
    BY <1>1, <1>2
  <2>2. \A q \in Paths, x \in Nat, h \in Nat, b \in BOOLEAN :
           [[tab[t] EXCEPT !.modified = FALSE, !.text = x, !.path = q, !.pathGen = h, !.open = b]
               EXCEPT !.saving = FALSE, !.locked = FALSE] \in Editor
    BY <1>1 DEF Editor
  <2>3. tab' = [tab EXCEPT ![t] = e]
    BY <1>3 DEF Accept, EndSave
  <2> HIDE DEF p, g, o
  <2>4. e \in Editor
    BY <1>2, <2>1, <2>2
  <2> HIDE DEF e
  <2>5. session' \in Nat /\ raced' \in SUBSET Tabs /\ unconfirmed' \in SUBSET Tabs /\ disk' \in [Paths -> Object]
    BY <1>0, <1>1, <1>3, OwnsFacts DEF Accept
  <2>6. save' = [save EXCEPT ![t] = NoSave] /\ freed' = freed \cup {save[t].id}
    BY <1>3 DEF Accept, EndSave
  <2> QED BY <2>3, <2>4, <2>5, <2>6
<1>4. CASE Failed(t)
  <2> DEFINE e == [[tab[t] EXCEPT !.modified = save[t].was] EXCEPT !.saving = FALSE, !.locked = FALSE]
  <2>1. \A m \in BOOLEAN :
           [[tab[t] EXCEPT !.modified = m] EXCEPT !.saving = FALSE, !.locked = FALSE] \in Editor
    BY <1>1 DEF Editor
  <2>2. e \in Editor
    BY <1>2, <2>1
  <2>3. tab' = [tab EXCEPT ![t] = e]
    BY <1>4 DEF Failed, EndSave
  <2> HIDE DEF e
  <2>4. session' \in Nat /\ raced' \in SUBSET Tabs /\ unconfirmed' \in SUBSET Tabs /\ disk' \in [Paths -> Object]
    BY <1>0, <1>1, <1>4 DEF Failed
  <2>5. save' = [save EXCEPT ![t] = NoSave] /\ freed' = freed \cup {save[t].id}
    BY <1>4 DEF Failed, EndSave
  <2> QED BY <2>2, <2>3, <2>4, <2>5
<1>5. ASSUME NEW text \in Nat, Refuse(t, text)
      PROVE  /\ save' = [save EXCEPT ![t] = NoSave] /\ freed' = freed \cup {save[t].id}
             /\ \E e \in Editor : tab' = [tab EXCEPT ![t] = e]
             /\ session' \in Nat /\ raced' \in SUBSET Tabs /\ unconfirmed' \in SUBSET Tabs /\ disk' \in [Paths -> Object]
  <2> DEFINE e == [[tab[t] EXCEPT !.modified = TRUE, !.text = text]
                      EXCEPT !.saving = FALSE, !.locked = FALSE]
  <2>1. e \in Editor
    BY <1>1 DEF Editor
  <2>2. tab' = [tab EXCEPT ![t] = e]
    BY <1>5 DEF Refuse, EndSave
  <2> HIDE DEF e
  <2>3. session' \in Nat /\ raced' \in SUBSET Tabs /\ unconfirmed' \in SUBSET Tabs /\ disk' \in [Paths -> Object]
    BY <1>0, <1>1, <1>5 DEF Refuse
  <2>4. save' = [save EXCEPT ![t] = NoSave] /\ freed' = freed \cup {save[t].id}
    BY <1>5 DEF Refuse, EndSave
  <2> QED BY <2>1, <2>2, <2>3, <2>4
<1> QED BY <1>3, <1>4, <1>5

LEMMA MirrorDoneKeeps ==
    ASSUME SaveInv, NEW t \in Tabs, MirrorDone(t)
    PROVE  SaveInv'
<1>1. /\ save[t].step = "mirror"
      /\ UNCHANGED <<queue, active, drain, op, guard, lane, count, slipped, world>>
      /\ \/ Accept(t)
         \/ \E text \in {save[t].text, save[t].out, Emptied} : Refuse(t, text)
  BY DEF MirrorDone
<1>2. {save[t].text, save[t].out, Emptied} \in SUBSET Nat
  <2>1. save[t] \in SaveState
    BY DEF SaveInv, SaveTypeOK, SaveTypes
  <2>2. save[t].text \in Nat /\ save[t].out \in Nat
    BY <2>1 DEF SaveState
  <2> QED BY <2>2 DEF Emptied
<1>3. /\ save' = [save EXCEPT ![t] = NoSave] /\ freed' = freed \cup {save[t].id}
      /\ \E e \in Editor : tab' = [tab EXCEPT ![t] = e]
      /\ session' \in Nat /\ raced' \in SUBSET Tabs /\ unconfirmed' \in SUBSET Tabs /\ disk' \in [Paths -> Object]
  BY <1>1, <1>2, SaveEnded
<1>4. /\ lane' \in Seq(Result)
      /\ \A i, j \in DOMAIN lane' : lane'[i] = lane'[j] => i = j
      /\ \A i \in DOMAIN lane' :
            /\ lane'[i] # <<"save", t>>
            /\ \A u \in Tabs : lane'[i] = <<"save", u>> => save[u].step = "sent"
            /\ \A k \in Ops : lane'[i] = <<"op", k>> => op[k].step = "sent"
  <2>1. lane' = lane /\ lane \in Seq(Result) /\ LaneOnce
    BY <1>1 DEF SaveInv, SaveTypeOK, SaveTypes
  <2> QED BY <1>1, <2>1 DEF LaneOnce
<1>5. PICK e \in Editor : tab' = [tab EXCEPT ![t] = e]
  BY <1>3
<1>6. save[t].step \in {"sent", "mirror"}
  BY <1>1
<1> QED BY <1>1, <1>3, <1>4, <1>5, <1>6, SaveEnds

LEMMA SaveDoneKeeps ==
    ASSUME SaveInv, Deliver, NEW t \in Tabs, Head(lane) = <<"save", t>>, SaveDone(t), UNCHANGED op
    PROVE  SaveInv'
<1>1. /\ lane # <<>> /\ lane' = Tail(lane)
      /\ UNCHANGED <<queue, active, drain, op, guard, count, slipped, world>>
      /\ save \in [Tabs -> SaveState] /\ tab[t] \in Editor
  BY DEF SaveInv, SaveTypeOK, SaveTypes, Deliver
<1>2. /\ lane' \in Seq(Result) /\ 1 \in DOMAIN lane /\ lane[1] = Head(lane)
      /\ \A n, m \in DOMAIN lane' : lane'[n] = lane'[m] => n = m
      /\ \A n \in DOMAIN lane' :
            /\ lane'[n] # Head(lane)
            /\ \A u \in Tabs : lane'[n] = <<"save", u>> => save[u].step = "sent"
            /\ \A k \in Ops : lane'[n] = <<"op", k>> => op[k].step = "sent"
  BY <1>1, Leaving
<1>3. save[t].step = "sent"
  BY <1>2 DEF SaveInv, LaneOnce
<1>4. CASE \/ Accept(t)
           \/ Failed(t)
           \/ Refuse(t, tab[t].text)
  <2>1. tab[t].text \in Nat
    BY <1>1 DEF Editor
  <2>2. /\ save' = [save EXCEPT ![t] = NoSave] /\ freed' = freed \cup {save[t].id}
        /\ \E e \in Editor : tab' = [tab EXCEPT ![t] = e]
        /\ session' \in Nat /\ raced' \in SUBSET Tabs /\ unconfirmed' \in SUBSET Tabs /\ disk' \in [Paths -> Object]
    BY <1>3, <1>4, <2>1, SaveEnded
  <2>3. PICK e \in Editor : tab' = [tab EXCEPT ![t] = e]
    BY <2>2
  <2>4. save[t].step \in {"sent", "mirror"} /\ \A n \in DOMAIN lane' : lane'[n] # <<"save", t>>
    BY <1>2, <1>3
  <2> QED BY <1>1, <1>2, <2>2, <2>3, <2>4, SaveEnds
<1>5. CASE save' = [save EXCEPT ![t].step = "mirror"] /\ UNCHANGED <<disk, tab, freed, session, raced, unconfirmed>>
  <2>1. /\ save' \in [Tabs -> SaveState] /\ \A u \in Tabs \ {t} : save'[u] = save[u]
        /\ save'[t].step = "mirror" /\ save'[t].path = save[t].path /\ save'[t].id = save[t].id
    <3>1. \A s \in SaveState, x \in SaveSteps : [s EXCEPT !.step = x] \in SaveState
      BY DEF SaveState
    <3>2. "mirror" \in SaveSteps
      BY DEF SaveSteps
    <3>3. save' \in [Tabs -> SaveState]
      BY <1>1, <1>5, <3>1, <3>2
    <3> QED BY <1>1, <1>5, <3>3 DEF SaveState
  <2>2. SaveTypes'
    BY <1>1, <1>2, <1>5, <2>1, ZenonT(30) DEF SaveInv, SaveTypeOK, SaveTypes
  <2>3. SameSaves
    BY <1>1, <1>3, <1>5, <2>1 DEF SameSaves, SaveAtWork
  <2>4. GuardsOwned'
    BY <1>1, <1>3, <1>5, <2>1 DEF SaveInv, SaveTypeOK, GuardsOwned
  <2>5. OpsPlaced'
    BY <1>1 DEF SaveInv, OpsPlaced
  <2>6. ASSUME NEW n \in DOMAIN lane', NEW u \in Tabs, lane'[n] = <<"save", u>>
        PROVE  save'[u].step = "sent"
    <3>1. u # t
      BY <1>2, <2>6
    <3> QED BY <1>2, <2>1, <2>6, <3>1
  <2>7. LaneOnce'
    BY <1>2, <2>6 DEF LaneOnce
  <2> QED BY <2>2, <2>3, <2>4, <2>5, <2>7, SameSavesKeep DEF SaveInv, SaveTypeOK
<1> QED BY <1>4, <1>5 DEF SaveDone

-----------------------------------------------------------------------------
(* Requests and their admission.                                            *)

LEMMA RequestKeeps ==
    ASSUME SaveInv, NEW t \in Tabs, NEW path \in Paths, NEW explicit \in BOOLEAN, NEW close \in Nat,
           Request(t, path, explicit, close), session' \in Nat,
           count' \in Counters, count'.saves = count.saves + 1, count'.ops = count.ops
    PROVE  SaveInv'
<1> DEFINE r == [id |-> count.saves + 1, tab |-> t, gen |-> tab[t].gen + 1, path |-> path,
                 explicit |-> explicit, modified |-> tab[t].modified, close |-> close]
<1>1. /\ tab[t].saving = FALSE /\ tab' = [tab EXCEPT ![t].gen = @ + 1, ![t].saving = TRUE]
      /\ queue' = Append(queue, r) /\ drain' = TRUE
      /\ UNCHANGED <<disk, active, freed, save, op, guard, lane, raced, unconfirmed, slipped, world>>
      /\ tab \in [Tabs -> Editor] /\ queue \in Seq(Queued) /\ freed \in SUBSET Nat
      /\ save \in [Tabs -> SaveState] /\ count \in Counters
  <2>1. tab[t].saving \in BOOLEAN
    <3>1. tab[t] \in Editor
      BY DEF SaveInv, SaveTypeOK, SaveTypes
    <3> QED BY <3>1 DEF Editor
  <2> QED BY <2>1 DEF Request, SaveInv, SaveTypeOK, SaveTypes
<1>2. /\ tab' \in [Tabs -> Editor] /\ \A u \in Tabs \ {t} : tab'[u] = tab[u]
      /\ tab'[t].saving = TRUE /\ tab'[t].gen = tab[t].gen + 1 /\ tab'[t].locked = tab[t].locked
  BY <1>1, SMTT(30) DEF Editor
<1>3. /\ r \in Queued /\ r.id = count.saves + 1 /\ r.tab = t /\ r.gen = tab[t].gen + 1
      /\ count.saves \in Nat
  <2>1. tab[t] \in Editor
    BY <1>1
  <2>2. tab[t].gen + 1 \in Nat /\ tab[t].modified \in BOOLEAN
    BY <2>1 DEF Editor
  <2>3. count.saves \in Nat
    BY <1>1 DEF Counters
  <2> QED BY <2>2, <2>3 DEF Queued
<1> HIDE DEF r
<1>4. /\ queue' \in Seq(Queued)
      /\ \A i \in DOMAIN queue' : \/ i \in DOMAIN queue /\ queue'[i] = queue[i]
                                  \/ i = Len(queue) + 1 /\ queue'[i] = r
  BY <1>1, <1>3
<1>5. QueuedOnce /\ IdsApart /\ GuardsOwned /\ \A i \in DOMAIN queue : queue[i].tab \in Tabs \ {t}
  BY <1>1, QueuedTyped DEF SaveInv, SaveTypeOK, QueuedOnce
<1>6. ~SaveAtWork(t)
  BY <1>1, <1>5 DEF GuardsOwned, SaveAtWork
<1>7. SaveTypes'
  BY <1>1, <1>2, <1>4 DEF SaveInv, SaveTypeOK, SaveTypes
<1>8. GuardsOwned'
  <2>1. (\A u \in Tabs : save[u].step # "none" =>
            tab[u].saving /\ tab[u].locked /\ save[u].path \in Paths)'
    BY <1>1, <1>2, <1>5 DEF GuardsOwned
  <2> QED BY <1>1, <1>5, <2>1 DEF GuardsOwned
<1>9. QueuedOnce'
  <2>1. (\A i, j \in DOMAIN queue : queue[i].tab = queue[j].tab => i = j)'
    BY <1>3, <1>4, <1>5 DEF QueuedOnce
  <2>2. ASSUME NEW i \in DOMAIN queue'
        PROVE  /\ tab'[queue'[i].tab].saving /\ tab'[queue'[i].tab].gen = queue'[i].gen
               /\ save'[queue'[i].tab].step = "none"
    <3>1. CASE queue'[i] = r
      BY <1>1, <1>2, <1>3, <1>6, <3>1 DEF SaveAtWork
    <3>2. CASE i \in DOMAIN queue /\ queue'[i] = queue[i]
      <4>1. /\ tab[queue[i].tab].saving /\ tab[queue[i].tab].gen = queue[i].gen
            /\ save[queue[i].tab].step = "none"
        BY <1>5, <3>2 DEF QueuedOnce, SaveAtWork
      <4> QED BY <1>1, <1>2, <1>5, <3>2, <4>1
    <3> QED BY <1>4, <3>1, <3>2
  <2> QED BY <2>1, <2>2 DEF QueuedOnce, SaveAtWork
<1>10. IdsApart'
  <2>1. ASSUME NEW i \in DOMAIN queue'
        PROVE  /\ queue'[i].id <= count.saves + 1 /\ queue'[i].id \notin freed
               /\ \A u \in Tabs : SaveAtWork(u) => save[u].id # queue'[i].id
    <3>1. CASE queue'[i] = r
      <4>1. \A u \in Tabs : save[u].id \in Nat
        <5>1. \A u \in Tabs : save[u] \in SaveState
          BY <1>1
        <5> QED BY <5>1 DEF SaveState
      <4> QED BY <1>1, <1>3, <1>5, <3>1, <4>1 DEF IdsApart
    <3>2. CASE i \in DOMAIN queue /\ queue'[i] = queue[i]
      <4>1. queue[i].id \in Nat
        BY <3>2, QueuedTyped DEF Queued
      <4> QED BY <1>3, <1>5, <3>2, <4>1 DEF IdsApart
    <3> QED BY <1>4, <3>1, <3>2
  <2>2. \A i, j \in DOMAIN queue' : queue'[i].id = queue'[j].id => i = j
    <3>1. \A i \in DOMAIN queue : queue[i].id # r.id
      <4>1. \A i \in DOMAIN queue : queue[i].id \in Nat
        BY QueuedTyped DEF Queued
      <4> QED BY <1>3, <1>5, <4>1 DEF IdsApart
    <3> QED BY <1>4, <1>5, <3>1 DEF IdsApart
  <2>3. \A u \in Tabs : SaveAtWork(u)' <=> SaveAtWork(u)
    BY <1>1 DEF SaveAtWork
  <2>4. \A u \in Tabs : save[u].id \in Nat
    <3>1. \A u \in Tabs : save[u] \in SaveState
      BY <1>1
    <3> QED BY <3>1 DEF SaveState
  <2>5. \A u \in Tabs : SaveAtWork(u) =>
            /\ save[u].id <= count.saves + 1 /\ save[u].id \notin freed
            /\ \A v \in Tabs : SaveAtWork(v) /\ save[v].id = save[u].id => v = u
    BY <1>3, <1>5, <2>4 DEF IdsApart
  <2>6. \A id \in freed : id <= count.saves + 1
    BY <1>1, <1>3, <1>5 DEF IdsApart
  <2> HIDE DEF SaveAtWork
  <2> QED BY <1>1, <2>1, <2>2, <2>3, <2>5, <2>6 DEF IdsApart
<1>11. OpsPlaced' /\ LaneOnce'
  BY <1>1 DEF SaveInv, OpsPlaced, LaneOnce
<1>12. WithinBudget' /\ IsFiniteSet(active')
  BY <1>1 DEF SaveInv, WithinBudget
<1> QED BY <1>7, <1>8, <1>9, <1>10, <1>11, <1>12 DEF SaveInv, SaveTypeOK

LEMMA RequestsKeep ==
    ASSUME SaveInv, NEW t \in Tabs,
           \/ Save(t)
           \/ CloseSave(t)
           \/ \E path \in Paths : SaveAs(t, path)
    PROVE  SaveInv'
<1>1. tab[t] \in Editor /\ count \in Counters /\ session \in Nat
  BY DEF SaveInv, SaveTypeOK, SaveTypes
<1>2. tab[t].path \in Paths
  BY <1>1 DEF Editor
<1>3. ASSUME count' = [count EXCEPT !.saves = @ + 1]
      PROVE  count' \in Counters /\ count'.saves = count.saves + 1 /\ count'.ops = count.ops
  BY <1>1, <1>3 DEF Counters
<1>4. CASE Save(t)
  BY <1>1, <1>2, <1>3, <1>4, RequestKeeps DEF Save
<1>5. CASE \E path \in Paths : SaveAs(t, path)
  BY <1>1, <1>3, <1>5, RequestKeeps DEF SaveAs
<1>6. CASE CloseSave(t)
  <2>1. \A m, n \in Nat : /\ [count EXCEPT !.saves = m, !.sessions = n] \in Counters
                          /\ [count EXCEPT !.saves = m, !.sessions = n].saves = m
                          /\ [count EXCEPT !.saves = m, !.sessions = n].ops = count.ops
    BY <1>1 DEF Counters
  <2>2. count.saves + 1 \in Nat /\ count.sessions + 1 \in Nat
    BY <1>1 DEF Counters
  <2>3. PICK m \in Nat, n \in Nat : /\ m = count.saves + 1 /\ n = count.sessions + 1
                                    /\ count' = [count EXCEPT !.saves = m, !.sessions = n]
    BY <1>6, <2>2 DEF CloseSave
  <2>4. count' \in Counters /\ count'.saves = count.saves + 1 /\ count'.ops = count.ops
    BY <2>1, <2>3
  <2>5. Request(t, tab[t].path, FALSE, n) /\ session' = n
    BY <1>6, <2>3 DEF CloseSave
  <2> QED BY <1>2, <2>4, <2>5, RequestKeeps
<1> QED BY <1>4, <1>5, <1>6

\* A request of the queue.
Waits(r) == \E i \in DOMAIN queue : r = queue[i]

LEMMA WaitsFacts ==
    ASSUME SaveInv
    PROVE  /\ Distinct(queue)
           /\ \A r : Waits(r) =>
                 /\ r \in Queued /\ r.tab \in Tabs /\ r.id \in Nat /\ r.path \in Paths
                 /\ tab[r.tab].saving /\ tab[r.tab].gen = r.gen /\ save[r.tab].step = "none"
                 /\ r.id <= count.saves /\ r.id \notin freed
                 /\ \A u \in Tabs : save[u].step # "none" => save[u].id # r.id
           /\ \A r, s : Waits(r) /\ Waits(s) /\ (r.tab = s.tab \/ r.id = s.id) => r = s
<1>1. QueuedOnce /\ IdsApart
  BY DEF SaveInv
<1>2. Distinct(queue)
  BY <1>1 DEF QueuedOnce, Distinct
<1>3. ASSUME NEW r, Waits(r)
      PROVE  /\ r \in Queued /\ r.tab \in Tabs /\ r.id \in Nat /\ r.path \in Paths
             /\ tab[r.tab].saving /\ tab[r.tab].gen = r.gen /\ save[r.tab].step = "none"
             /\ r.id <= count.saves /\ r.id \notin freed
             /\ \A u \in Tabs : save[u].step # "none" => save[u].id # r.id
  <2>1. PICK i \in DOMAIN queue : r = queue[i]
    BY <1>3 DEF Waits
  <2>2. r \in Queued
    BY <2>1, QueuedTyped
  <2>3. r.tab \in Tabs /\ r.id \in Nat /\ r.path \in Paths
    BY <2>2 DEF Queued
  <2>4. tab[r.tab].saving /\ tab[r.tab].gen = r.gen /\ save[r.tab].step = "none"
    BY <1>1, <2>1 DEF QueuedOnce, SaveAtWork
  <2>5. /\ r.id <= count.saves /\ r.id \notin freed
        /\ \A u \in Tabs : save[u].step # "none" => save[u].id # r.id
    BY <1>1, <2>1 DEF IdsApart, SaveAtWork
  <2> QED BY <2>2, <2>3, <2>4, <2>5
<1>4. ASSUME NEW r, NEW s, Waits(r), Waits(s), r.tab = s.tab \/ r.id = s.id
      PROVE  r = s
  BY <1>1, <1>4 DEF Waits, QueuedOnce, IdsApart
<1> QED BY <1>2, <1>3, <1>4

\* The save that an admitted request begins.
Began(t, r) ==
  [step |-> "lock", path |-> r.path, explicit |-> r.explicit,
   close |-> r.close, text |-> tab[t].text, out |-> tab[t].text,
   gen |-> r.gen, pathGen |-> tab[t].pathGen, editGen |-> tab[t].editGen,
   id |-> r.id, was |-> tab[t].modified, result |-> "none"]

\* What a drain retires, admits and leaves.
Drains(stale, got) ==
  /\ \A r \in stale : Waits(r) /\ r \notin got
  /\ \A r \in got : Waits(r) /\ RequestCurrent(r)
  /\ queue' \in Seq(Queued) /\ Distinct(queue')
  /\ \A i \in DOMAIN queue' :
        /\ Waits(queue'[i]) /\ queue'[i] \notin stale
        /\ \A r \in got : queue'[i].tab # r.tab
  /\ active' \in SUBSET Permits /\ IsFiniteSet(active') /\ Allowed(active')
  /\ active' = active \cup {Permit(r) : r \in got}
  /\ tab' = [t \in Tabs |->
       IF \E r \in stale : r.tab = t /\ r.gen = tab[t].gen THEN [tab[t] EXCEPT !.saving = FALSE]
       ELSE IF \E r \in got : r.tab = t THEN [tab[t] EXCEPT !.locked = TRUE]
       ELSE tab[t]]
  /\ save' = [t \in Tabs |->
       IF \E r \in got : r.tab = t
       THEN Began(t, CHOOSE x \in got : x.tab = t)
       ELSE save[t]]
  /\ session' \in Nat
LEMMA Drained ==
    ASSUME SaveInv, Drain
    PROVE  \E stale, got : Drains(stale, got)
<1> DEFINE kept  == Kept(queue)[Len(queue)]
           stale == ToSet(queue) \ ToSet(kept)
           next  == Rounds(kept)[Len(kept)]
<1>1. /\ queue \in Seq(Queued) /\ Distinct(queue) /\ active \in SUBSET Permits
      /\ IsFiniteSet(active) /\ Allowed(active) /\ session \in Nat
  BY WaitsFacts DEF SaveInv, SaveTypeOK, SaveTypes, Permits, WithinBudget, Allowed
<1>2. Len(queue) \in 0 .. Len(queue) /\ \A j \in 1 .. Len(queue) : j \in DOMAIN queue
  BY <1>1
<1>3. /\ kept \in Seq(Queued) /\ Distinct(kept)
      /\ \A i \in DOMAIN kept : Waits(kept[i]) /\ RequestCurrent(kept[i])
  <2>1. /\ kept \in Seq(Queued) /\ Distinct(kept)
        /\ \A i \in DOMAIN kept :
              RequestCurrent(kept[i]) /\ \E j \in 1 .. Len(queue) : kept[i] = queue[j]
    BY <1>1, <1>2, KeptFacts
  <2> HIDE DEF kept
  <2> QED BY <1>2, <2>1 DEF Waits
<1> HIDE DEF kept
<1>4. Round(next, kept)
  <2>1. Len(kept) \in 0 .. Len(kept)
    BY <1>3
  <2> QED BY <1>1, <1>3, <2>1, RoundsKeep
<1>5. /\ \A i \in DOMAIN next.left : Waits(next.left[i]) /\ next.left[i] \in ToSet(kept)
      /\ \A r \in next.got : Waits(r) /\ RequestCurrent(r) /\ r \in ToSet(kept)
  BY <1>3, <1>4 DEF Round, ToSet
<1>6. \A r \in stale : Waits(r) /\ r \notin ToSet(kept)
  BY DEF ToSet, Waits
<1>7. /\ queue' = next.left /\ active' = next.held
      /\ tab' = [t \in Tabs |->
           IF \E r \in stale : r.tab = t /\ r.gen = tab[t].gen THEN [tab[t] EXCEPT !.saving = FALSE]
           ELSE IF \E r \in next.got : r.tab = t THEN [tab[t] EXCEPT !.locked = TRUE]
           ELSE tab[t]]
      /\ save' = [t \in Tabs |->
           IF \E r \in next.got : r.tab = t
           THEN Began(t, CHOOSE x \in next.got : x.tab = t)
           ELSE save[t]]
      /\ session' = IF \E r \in stale : r.close # 0 /\ r.close = session THEN 0 ELSE session
  BY DEF Drain, kept, Began
<1> HIDE DEF stale, next
<1>8. /\ next.left \in Seq(Queued) /\ Distinct(next.left)
      /\ next.held \in SUBSET Permits /\ IsFiniteSet(next.held) /\ Allowed(next.held)
      /\ next.held = active \cup {Permit(r) : r \in next.got}
      /\ \A r \in next.got, i \in DOMAIN next.left : next.left[i].tab # r.tab
  BY <1>4 DEF Round
<1>9. session' \in Nat
  BY <1>1, <1>7
<1> WITNESS stale, next.got
<1> QED BY <1>5, <1>6, <1>7, <1>8, <1>9 DEF Drains

LEMMA DrainKeeps ==
    ASSUME SaveInv, Drain
    PROVE  SaveInv'
<1>0. PICK stale, got : Drains(stale, got)
  BY Drained
<1>1. /\ \A r \in stale : Waits(r) /\ r \notin got
      /\ \A r \in got : Waits(r)
      /\ queue' \in Seq(Queued) /\ Distinct(queue')
      /\ \A i \in DOMAIN queue' :
            /\ Waits(queue'[i]) /\ queue'[i] \notin stale
            /\ \A r \in got : queue'[i].tab # r.tab
      /\ active' \in SUBSET Permits /\ IsFiniteSet(active') /\ Allowed(active')
      /\ active' = active \cup {Permit(r) : r \in got}
      /\ tab' = [t \in Tabs |->
           IF \E r \in stale : r.tab = t /\ r.gen = tab[t].gen THEN [tab[t] EXCEPT !.saving = FALSE]
           ELSE IF \E r \in got : r.tab = t THEN [tab[t] EXCEPT !.locked = TRUE]
           ELSE tab[t]]
      /\ save' = [t \in Tabs |->
           IF \E r \in got : r.tab = t THEN Began(t, CHOOSE x \in got : x.tab = t) ELSE save[t]]
      /\ session' \in Nat
  BY <1>0 DEF Drains
<1>2. /\ drain' = FALSE /\ UNCHANGED <<disk, freed, op, guard, lane, count, raced, unconfirmed, slipped, world>>
      /\ tab \in [Tabs -> Editor] /\ save \in [Tabs -> SaveState] /\ GuardsOwned /\ WithinBudget
      /\ LaneOnce /\ IdsApart
  BY DEF Drain, SaveInv, SaveTypeOK, SaveTypes
<1>3. \A r, s : Waits(r) /\ Waits(s) /\ (r.tab = s.tab \/ r.id = s.id) => r = s
  BY WaitsFacts
\* The admitted.
<1>4. ASSUME NEW r \in got
      PROVE  /\ r.tab \in Tabs /\ save[r.tab].step = "none" /\ save'[r.tab] = Began(r.tab, r)
             /\ tab'[r.tab] = [tab[r.tab] EXCEPT !.locked = TRUE]
             /\ r \in Queued /\ tab[r.tab].saving
  <2>1. Waits(r)
    BY <1>1
  <2>2. r.tab \in Tabs /\ save[r.tab].step = "none" /\ r \in Queued /\ tab[r.tab].saving
    BY <2>1, WaitsFacts
  <2>3. (CHOOSE x \in got : x.tab = r.tab) = r
    <3>1. \A x \in got : x.tab = r.tab => x = r
      BY <1>1, <1>3, <2>1
    <3> QED BY <3>1
  <2>4. ~ \E s \in stale : s.tab = r.tab
    BY <1>1, <1>3, <2>1
  <2>5. save'[r.tab] = Began(r.tab, r)
    <3>1. save'[r.tab] = Began(r.tab, CHOOSE x \in got : x.tab = r.tab)
      BY <1>1, <2>2
    <3> QED BY <2>3, <3>1
  <2>6. tab'[r.tab] = [tab[r.tab] EXCEPT !.locked = TRUE]
    BY <1>1, <2>2, <2>4
  <2> QED BY <2>2, <2>5, <2>6
\* The others.
<1>5. ASSUME NEW t \in Tabs, \A r \in got : r.tab # t
      PROVE  /\ save'[t] = save[t]
             /\ tab'[t] = tab[t] \/ tab'[t] = [tab[t] EXCEPT !.saving = FALSE]
             /\ (\A r \in stale : r.tab # t) => tab'[t] = tab[t]
  BY <1>1, <1>5
<1>6. \A t \in Tabs : save[t].step # "none" =>
         (\A r \in got : r.tab # t) /\ (\A r \in stale : r.tab # t)
  BY <1>1, WaitsFacts
<1>7. ASSUME NEW t \in Tabs
      PROVE  tab'[t] \in Editor /\ save'[t] \in SaveState
  <2>1. tab[t] \in Editor /\ save[t] \in SaveState
    BY <1>2
  <2>2. [tab[t] EXCEPT !.saving = FALSE] \in Editor /\ [tab[t] EXCEPT !.locked = TRUE] \in Editor
    BY <2>1 DEF Editor
  <2>3. CASE \E r \in got : r.tab = t
    <3>1. PICK r \in got : r.tab = t
      BY <2>3
    <3>2. r \in Queued /\ save'[t] = Began(t, r) /\ tab'[t] = [tab[t] EXCEPT !.locked = TRUE]
      BY <1>4, <3>1
    <3>3. /\ r.path \in Paths /\ r.explicit \in BOOLEAN /\ r.close \in Nat /\ r.gen \in Nat
          /\ r.id \in Nat
      BY <3>2 DEF Queued
    <3>4. /\ tab[t].text \in Nat /\ tab[t].pathGen \in Nat /\ tab[t].editGen \in Nat
          /\ tab[t].modified \in BOOLEAN
      BY <2>1 DEF Editor
    <3>5. Began(t, r) \in SaveState
      BY <3>3, <3>4 DEF Began, SaveState, SaveSteps
    <3> QED BY <2>2, <3>2, <3>5
  <2>4. CASE ~ \E r \in got : r.tab = t
    BY <1>5, <2>1, <2>2, <2>4
  <2> QED BY <2>3, <2>4
<1>8. tab' \in [Tabs -> Editor] /\ save' \in [Tabs -> SaveState]
  <2>1. tab' = [t \in Tabs |-> tab'[t]] /\ save' = [t \in Tabs |-> save'[t]]
    BY <1>1
  <2> QED BY <1>7, <2>1
<1>9. SaveTypes'
  BY <1>1, <1>2, <1>8 DEF SaveInv, SaveTypeOK, SaveTypes, Permits
\* What is at work after the drain was admitted or was at work before.
<1>10. ASSUME NEW t \in Tabs, save'[t].step # "none"
       PROVE  \/ save'[t] = save[t] /\ save[t].step # "none" /\ tab'[t] = tab[t]
              \/ \E r \in got : /\ r.tab = t /\ save'[t].id = r.id /\ save'[t].path \in Paths
                                /\ save'[t].step = "lock" /\ tab'[t].saving /\ tab'[t].locked
  <2>1. CASE \E r \in got : r.tab = t
    <3>1. PICK r \in got : r.tab = t
      BY <2>1
    <3>2. /\ r \in Queued /\ save'[t] = Began(t, r) /\ tab'[t] = [tab[t] EXCEPT !.locked = TRUE]
          /\ tab[t].saving
      BY <1>4, <3>1
    <3>3. r.path \in Paths
      BY <3>2 DEF Queued
    <3>4. tab'[t].saving /\ tab'[t].locked
      <4>1. tab[t] \in Editor
        BY <1>2
      <4> QED BY <3>2, <4>1 DEF Editor
    <3>5. save'[t].id = r.id /\ save'[t].path = r.path /\ save'[t].step = "lock"
      BY <3>2 DEF Began
    <3> QED BY <3>1, <3>3, <3>4, <3>5
  <2>2. CASE \A r \in got : r.tab # t
    BY <1>5, <1>6, <1>10, <2>2
  <2> QED BY <2>1, <2>2
<1>11. \A t \in Tabs : save[t].step # "none" => save'[t] = save[t]
  BY <1>5, <1>6
<1>12. GuardsOwned'
  <2>1. (\A t \in Tabs : save[t].step # "none" =>
            tab[t].saving /\ tab[t].locked /\ save[t].path \in Paths)'
    BY <1>2, <1>10 DEF GuardsOwned
  <2>2. ASSUME NEW q \in Paths
        PROVE  (\/ guard[q] = Free
                \/ \E t \in Tabs : guard[q] = <<"save", t>> /\ save[t].step = "write" /\ save[t].path = q
                \/ \E j \in Ops : guard[q] = <<"op", j>> /\ op[j].step \in {"second", "act", "checked"})'
    BY <1>2, <1>11 DEF GuardsOwned
  <2>3. (\A t \in Tabs : save[t].step = "write" => guard[save[t].path] = <<"save", t>>)'
    <3>1. \A t \in Tabs : save'[t].step = "write" => save'[t] = save[t]
      BY <1>10
    <3> QED BY <1>2, <3>1 DEF GuardsOwned
  <2> QED BY <1>2, <2>1, <2>2, <2>3 DEF GuardsOwned
<1>13. QueuedOnce'
  <2>1. ASSUME NEW i \in DOMAIN queue'
        PROVE  /\ tab'[queue'[i].tab].saving /\ tab'[queue'[i].tab].gen = queue'[i].gen
               /\ save'[queue'[i].tab].step = "none"
    <3> DEFINE r == queue'[i]
    <3>1. Waits(r) /\ r \notin stale /\ \A s \in got : s.tab # r.tab
      BY <1>1
    <3>2. \A s \in stale : s.tab # r.tab
      BY <1>1, <1>3, <3>1
    <3>3. r.tab \in Tabs /\ tab[r.tab].saving /\ tab[r.tab].gen = r.gen /\ save[r.tab].step = "none"
      BY <3>1, WaitsFacts
    <3> HIDE DEF r
    <3>4. tab'[r.tab] = tab[r.tab] /\ save'[r.tab] = save[r.tab]
      BY <1>5, <3>1, <3>2, <3>3
    <3> QED BY <3>3, <3>4 DEF r
  <2> QED BY <1>1, <2>1 DEF QueuedOnce, Distinct, SaveAtWork
<1>14. IdsApart'
  <2>1. ASSUME NEW i \in DOMAIN queue'
        PROVE  /\ queue'[i].id <= count.saves /\ queue'[i].id \notin freed
               /\ \A j \in DOMAIN queue' : queue'[i].id = queue'[j].id => i = j
               /\ \A t \in Tabs : save'[t].step # "none" => save'[t].id # queue'[i].id
    <3> DEFINE r == queue'[i]
    <3>1. Waits(r) /\ \A s \in got : s.tab # r.tab
      BY <1>1
    <3>2. \A j \in DOMAIN queue' : r.id = queue'[j].id => i = j
      BY <1>1, <1>3, <3>1 DEF Distinct
    <3>3. \A s \in got : s.id # r.id
      BY <1>1, <1>3, <3>1
    <3>4. \A t \in Tabs : save[t].step # "none" => save[t].id # r.id
      BY <3>1, WaitsFacts
    <3>5. r.id <= count.saves /\ r.id \notin freed
      BY <3>1, WaitsFacts
    <3> HIDE DEF r
    <3>6. \A t \in Tabs : save'[t].step # "none" => save'[t].id # r.id
      BY <1>10, <3>3, <3>4
    <3> QED BY <3>2, <3>5, <3>6 DEF r
  <2>2. ASSUME NEW t \in Tabs, save'[t].step # "none"
        PROVE  /\ save'[t].id <= count.saves /\ save'[t].id \notin freed
               /\ \A u \in Tabs : save'[u].step # "none" /\ save'[u].id = save'[t].id => u = t
    <3>1. CASE save'[t] = save[t] /\ save[t].step # "none"
      <4>1. /\ save[t].id <= count.saves /\ save[t].id \notin freed
            /\ \A u \in Tabs : save[u].step # "none" /\ save[u].id = save[t].id => u = t
        BY <1>2, <3>1 DEF IdsApart, SaveAtWork
      <4>2. \A s \in got : s.id # save[t].id
        BY <1>1, <3>1, WaitsFacts
      <4>3. ASSUME NEW u \in Tabs, save'[u].step # "none", save'[u].id = save'[t].id
            PROVE  u = t
        BY <1>10, <3>1, <4>1, <4>2, <4>3
      <4> QED BY <3>1, <4>1, <4>3
    <3>2. CASE \E r \in got : r.tab = t /\ save'[t].id = r.id
      <4>1. PICK r \in got : r.tab = t /\ save'[t].id = r.id
        BY <3>2
      <4>2. /\ r.id <= count.saves /\ r.id \notin freed
            /\ \A u \in Tabs : save[u].step # "none" => save[u].id # r.id
        BY <1>1, WaitsFacts
      <4>3. \A s \in got : s.id = r.id => s = r
        BY <1>1, <1>3
      <4>4. ASSUME NEW u \in Tabs, save'[u].step # "none", save'[u].id = r.id
            PROVE  u = t
        BY <1>10, <4>1, <4>2, <4>3, <4>4
      <4> QED BY <4>1, <4>2, <4>4
    <3> QED BY <1>10, <2>2, <3>1, <3>2
  <2>3. \A id \in freed : id <= count.saves
    BY <1>2 DEF IdsApart
  <2> QED BY <1>2, <2>1, <2>2, <2>3 DEF IdsApart, SaveAtWork
<1>15. OpsPlaced'
  BY <1>2 DEF SaveInv, OpsPlaced
<1>16. LaneOnce'
  <2>1. \A i \in DOMAIN lane, t \in Tabs : lane[i] = <<"save", t>> => save'[t].step = "sent"
    BY <1>2, <1>11 DEF LaneOnce
  <2> QED BY <1>2, <2>1 DEF LaneOnce
<1>17. WithinBudget'
  <2>1. (\A t \in Tabs : save[t].step # "none" => \E x \in active : x.id = save[t].id)'
    <3>1. ASSUME NEW t \in Tabs, save'[t].step # "none"
          PROVE  \E x \in active' : x.id = save'[t].id
      <4>1. CASE save'[t] = save[t] /\ save[t].step # "none"
        BY <1>1, <1>2, <4>1 DEF WithinBudget
      <4>2. CASE \E r \in got : r.tab = t /\ save'[t].id = r.id
        <5>1. \A r \in got : Permit(r) \in active' /\ Permit(r).id = r.id
          BY <1>1 DEF Permit
        <5> QED BY <4>2, <5>1
      <4> QED BY <1>10, <3>1, <4>1, <4>2
    <3> QED BY <3>1
  <2>2. ASSUME NEW x \in active'
        PROVE  (\/ x.id \in freed
                \/ \E t \in Tabs : save[t].step # "none" /\ save[t].id = x.id)'
    <3>1. CASE x \in active
      BY <1>2, <1>11, <3>1 DEF WithinBudget
    <3>2. CASE \E r \in got : x = Permit(r)
      <4>1. PICK r \in got : x = Permit(r)
        BY <3>2
      <4>2. r.tab \in Tabs /\ save'[r.tab] = Began(r.tab, r)
        BY <1>4
      <4>3. save'[r.tab].step # "none" /\ save'[r.tab].id = r.id /\ x.id = r.id
        BY <4>1, <4>2 DEF Began, Permit
      <4> QED BY <4>2, <4>3
    <3> QED BY <1>1, <3>1, <3>2
  <2> QED BY <1>1, <2>1, <2>2 DEF WithinBudget, Allowed
<1> QED BY <1>1, <1>9, <1>12, <1>13, <1>14, <1>15, <1>16, <1>17 DEF SaveInv, SaveTypeOK

-----------------------------------------------------------------------------
(* Theorems.                                                                *)

LEMMA NextKeeps == ASSUME SaveInv, [SaveNext]_saveVars PROVE SaveInv'
<1>1. CASE UNCHANGED saveVars
  <2>1. SaveTypes' /\ Settled
    BY <1>1 DEF SaveInv, SaveTypeOK, SaveTypes, Settled, SameSaves, SaveAtWork, saveVars
  <2> QED BY <2>1, SettledKeeps
<1>2. CASE Machine
  <2>1. ASSUME NEW t \in Tabs, LockTarget(t) \/ WriteSaved(t) \/ Return(t) \/ MirrorDone(t)
        PROVE  SaveInv'
    BY <2>1, LockTargetKeeps, WriteSavedKeeps, ReturnKeeps, MirrorDoneKeeps
  <2>2. ASSUME NEW i \in Ops, TakeFirst(i) \/ TakeSecond(i) \/ Act(i) \/ TakeName(i) \/ ReturnOp(i)
        PROVE  SaveInv'
    BY <2>2, TakeFirstKeeps, TakeSecondKeeps, ActKeeps, ReturnOpKeeps
  <2>3. ASSUME NEW id \in freed, ReleasePermit(id)
        PROVE  SaveInv'
    BY <2>3, ReleasePermitKeeps
  <2>4. CASE Drain
    BY <2>4, DrainKeeps
  <2>5. CASE Deliver
    <3>1. \/ \E t \in Tabs : Head(lane) = <<"save", t>> /\ SaveDone(t) /\ UNCHANGED op
          \/ \E i \in Ops : Head(lane) = <<"op", i>> /\ OpDone(i)
                           /\ UNCHANGED <<disk, save, freed, session, raced, unconfirmed>>
      BY <2>5 DEF Deliver
    <3> QED BY <2>5, <3>1, SaveDoneKeeps, OpDoneKeeps
  <2> QED BY <1>2, <2>1, <2>2, <2>3, <2>4, <2>5 DEF Machine
<1>3. ASSUME NEW t \in Tabs, Edit(t) \/ Save(t) \/ CloseSave(t)
      PROVE  SaveInv'
  BY <1>3, EditKeeps, RequestsKeep
<1>4. ASSUME NEW t \in Tabs, NEW p \in Paths, SaveAs(t, p)
      PROVE  SaveInv'
  BY <1>4, RequestsKeep
<1>5. ASSUME NEW i \in Ops, NEW p \in Paths, AskDelete(i, p)
      PROVE  SaveInv'
  BY <1>5, AskDeleteKeeps
<1>6. ASSUME NEW i \in Ops, NEW p \in Paths, NEW q \in Paths, StartRename(i, p, q)
      PROVE  SaveInv'
  BY <1>6, StartRenameKeeps
<1>7. ASSUME NEW i \in Ops, AnswerDelete(i)
      PROVE  SaveInv'
  BY <1>7, AnswerDeleteKeeps
<1>8. ASSUME NEW p \in Paths, Outside(p)
      PROVE  SaveInv'
  BY <1>8, OutsideKeeps
<1> QED BY <1>1, <1>2, <1>3, <1>4, <1>5, <1>6, <1>7, <1>8 DEF SaveNext

\* The invariant that the queue, the saves, the operations, the guards and the
\* results keep together (ui/editor_page/save/admission.rs, execution.rs,
\* ui/sidebar/workspace_section/file_execution.rs).
THEOREM SaveInvariant == SaveSpec => []SaveInv
<1>1. SaveInit => SaveInv
  BY InitKeeps
<1>2. SaveInv /\ [SaveNext]_saveVars => SaveInv'
  BY NextKeeps
<1> QED BY <1>1, <1>2, PTL DEF SaveSpec

\* Types, and one holder of each write guard, which is a save that writes the name
\* or an operation that acts on it.
THEOREM SaveTypesHold == SaveSpec => []SaveTypeOK
<1>1. SaveInv => SaveTypeOK
  BY DEF SaveInv
<1> QED BY <1>1, SaveInvariant, PTL

\* However many editors save at once, the admitted saves stay within the byte budget
\* or one of them is alone, each save at work has its permit, and each permit its
\* save or its release (SaveAdmissionPolicy and the drain in admission.rs).
THEOREM BudgetKept == SaveSpec => []WithinBudget
<1>1. SaveInv => WithinBudget
  BY DEF SaveInv
<1> QED BY <1>1, SaveInvariant, PTL

\* A step that leaves the object of a name there, or leaves the name free.
Untouched(p) == disk'[p].obj = disk[p].obj /\ (disk[p] = Nothing => disk'[p] = Nothing)

LEMMA SeenStays ==
    ASSUME StillSeen,
           \A i \in Ops \ slipped' : op'[i].step = "checked" =>
              i \notin slipped /\ op'[i] = op[i] /\ Untouched(Target(op[i]))
    PROVE  StillSeen'
BY DEF StillSeen, Target, Untouched

\* The name an operation is about to take is under its guard.
LEMMA TargetGuarded ==
    ASSUME SaveInv, NEW i \in Ops, op[i].step = "checked"
    PROVE  Target(op[i]) \in Paths /\ guard[Target(op[i])] = <<"op", i>>
BY DEF SaveInv, SaveTypeOK, GuardsOwned, OpsPlaced, Target

\* An operation changes no file but under its names.
LEMMA CallNamed ==
    ASSUME SaveInv, NEW i \in Ops, NEW x, op[i].step \in {"act", "checked"}, CallTakes(i, x)
    PROVE  \A p \in Paths : guard[p] # <<"op", i>> => disk'[p] = disk[p]
<1>1. /\ disk \in [Paths -> Object] /\ guard[op[i].old] = <<"op", i>>
      /\ op[i].kind = "rename" => guard[op[i].new] = <<"op", i>>
  BY DEF SaveInv, SaveTypeOK, SaveTypes, GuardsOwned
<1> QED BY <1>1 DEF CallTakes, Moved

LEMMA SeenKeeps == ASSUME SaveInv, StillSeen, [SaveNext]_saveVars PROVE StillSeen'
<1>1. disk \in [Paths -> Object] /\ op \in [Ops -> OpState]
  BY DEF SaveInv, SaveTypeOK, SaveTypes
<1>2. CASE /\ UNCHANGED <<disk, slipped>>
           /\ \A i \in Ops : op'[i] = op[i] \/ op'[i].step # "checked"
  BY <1>2, SeenStays DEF Untouched
<1>3. ASSUME NEW t \in Tabs, WriteSaved(t)
      PROVE  StillSeen'
  <2>1. /\ UNCHANGED <<op, slipped>> /\ save[t].step = "write"
        /\ \A p \in Paths \ {save[t].path} : disk'[p] = disk[p]
    BY <1>1, <1>3 DEF WriteSaved
  <2>2. guard[save[t].path] = <<"save", t>>
    BY <2>1 DEF SaveInv, SaveTypeOK, GuardsOwned
  <2>3. \A i \in Ops : op[i].step = "checked" => Untouched(Target(op[i]))
    BY <2>1, <2>2, TargetGuarded DEF Untouched
  <2> QED BY <2>1, <2>3, SeenStays
<1>4. ASSUME NEW i \in Ops, Act(i) \/ TakeName(i)
      PROVE  StillSeen'
  <2>1. CASE op' = [op EXCEPT ![i].step = "checked"] /\ slipped' = slipped \cup {i} /\ UNCHANGED disk
    BY <1>1, <2>1, SeenStays DEF Untouched
  <2>2. CASE /\ op' = [op EXCEPT ![i].step = "checked"]
             /\ MayDelete(op[i]) \/ op[i].kind = "rename"
             /\ op[i].kind = "rename" => disk[op[i].new] = Nothing
             /\ UNCHANGED <<disk, slipped>>
    <3>1. /\ \A j \in Ops \ {i} : op'[j] = op[j]
          /\ op'[i].kind = op[i].kind /\ op'[i].old = op[i].old /\ op'[i].new = op[i].new
          /\ op'[i].expected = op[i].expected
      BY <1>1, <2>2 DEF OpState
    <3>2. op'[i].kind = "delete" => disk'[op'[i].old].obj = op'[i].expected
      BY <2>2, <3>1 DEF MayDelete
    <3>3. op'[i].kind # "delete" => disk'[op'[i].new] = Nothing
      <4>1. op[i].kind \in {"delete", "rename"}
        BY <1>4, ActDoes DEF SaveInv, OpsPlaced
      <4> QED BY <2>2, <3>1, <4>1
    <3> QED BY <2>2, <3>1, <3>2, <3>3 DEF StillSeen
  <2>3. ASSUME NEW x \in {"ran", "end"}, OpEnds(i, x), CallTakes(i, x), UNCHANGED slipped
        PROVE  StillSeen'
    <3>1. op[i].step \in {"act", "checked"}
      BY <1>4, ActDoes
    <3>2. op'[i].step # "checked" /\ \A j \in Ops \ {i} : op'[j] = op[j]
      BY <1>1, <2>3 DEF OpEnds, OpState
    <3>3. \A j \in Ops \ {i} : op[j].step = "checked" => Untouched(Target(op[j]))
      BY <2>3, <3>1, CallNamed, TargetGuarded DEF Untouched
    <3> QED BY <2>3, <3>2, <3>3, SeenStays
  <2> QED BY <1>4, <2>1, <2>2, <2>3, ActDoes
<1>5. ASSUME NEW t \in Tabs, Accept(t), UNCHANGED <<op, slipped>>
      PROVE  StillSeen'
  <2>1. PICK path : disk' = Owns(t, path)
    BY <1>5 DEF Accept
  <2>2. ASSUME NEW p \in Paths PROVE Untouched(p)
    <3>1. disk'[p].obj = disk[p].obj
      BY <1>1, <2>1, OwnsFacts DEF Owns
    <3>2. disk[p] = Nothing => disk'[p] = Nothing
      BY <2>1 DEF Owns, Nothing
    <3> QED BY <3>1, <3>2 DEF Untouched
  <2> QED BY <1>5, <2>2, SeenStays, TargetGuarded
<1>6. ASSUME NEW p \in Paths, Outside(p)
      PROVE  StillSeen'
  <2>1. /\ UNCHANGED op /\ \A q \in Paths \ {p} : disk'[q] = disk[q]
        /\ slipped' = slipped \cup {i \in Ops : op[i].step = "checked" /\ Target(op[i]) = p}
    BY <1>1, <1>6 DEF Outside
  <2>2. \A i \in Ops \ slipped' : op[i].step = "checked" => i \notin slipped /\ Untouched(Target(op[i]))
    BY <2>1, TargetGuarded DEF Untouched
  <2> QED BY <2>1, <2>2, SeenStays
<1>7. CASE UNCHANGED saveVars
  BY <1>2, <1>7 DEF saveVars
<1>8. CASE Machine
  <2>1. ASSUME NEW t \in Tabs, LockTarget(t) \/ Return(t)
        PROVE  StillSeen'
    BY <1>2, <2>1 DEF LockTarget, Return
  <2>2. ASSUME NEW t \in Tabs, MirrorDone(t)
        PROVE  StillSeen'
    <3>1. CASE Accept(t)
      BY <1>5, <2>2, <3>1 DEF MirrorDone
    <3>2. CASE ~Accept(t)
      BY <1>2, <2>2, <3>2 DEF MirrorDone, Refuse
    <3> QED BY <3>1, <3>2
  <2>3. ASSUME NEW i \in Ops, TakeFirst(i) \/ TakeSecond(i) \/ ReturnOp(i)
        PROVE  StillSeen'
    <3>1. UNCHANGED <<disk, slipped>> /\ \A j \in Ops \ {i} : op'[j] = op[j]
      BY <1>1, <2>3 DEF TakeFirst, TakeSecond, ReturnOp
    <3>2. op'[i].step # "checked"
      BY <1>1, <2>3 DEF TakeFirst, TakeSecond, ReturnOp, OpState
    <3> QED BY <1>2, <3>1, <3>2
  <2>4. ASSUME NEW id \in freed, ReleasePermit(id)
        PROVE  StillSeen'
    BY <1>2, <2>4 DEF ReleasePermit
  <2>5. CASE Drain
    BY <1>2, <2>5 DEF Drain
  <2>6. ASSUME NEW t \in Tabs, Deliver, SaveDone(t), UNCHANGED op
        PROVE  StillSeen'
    <3>1. CASE Accept(t)
      BY <1>5, <2>6, <3>1 DEF Deliver
    <3>2. CASE ~Accept(t)
      BY <1>2, <2>6, <3>2 DEF Deliver, SaveDone, Refuse, Failed
    <3> QED BY <3>1, <3>2
  <2>7. ASSUME NEW i \in Ops, Deliver, OpDone(i), UNCHANGED disk
        PROVE  StillSeen'
    <3>1. op'[i].step = "end" /\ \A j \in Ops \ {i} : op'[j] = op[j]
      BY <1>1, <2>7 DEF OpDone, OpState
    <3> QED BY <1>2, <2>7, <3>1 DEF Deliver
  <2>8. CASE Deliver
    BY <2>6, <2>7, <2>8 DEF Deliver
  <2> QED BY <1>3, <1>4, <1>8, <2>1, <2>2, <2>3, <2>4, <2>5, <2>8 DEF Machine
<1>9. ASSUME NEW t \in Tabs, NEW p \in Paths, Edit(t) \/ Save(t) \/ CloseSave(t) \/ SaveAs(t, p)
      PROVE  StillSeen'
  BY <1>2, <1>9 DEF Edit, Save, CloseSave, SaveAs, Request
<1>10. ASSUME NEW i \in Ops, NEW p \in Paths, NEW q \in Paths,
              AskDelete(i, p) \/ StartRename(i, p, q) \/ AnswerDelete(i)
       PROVE  StillSeen'
  <2>1. UNCHANGED <<disk, slipped>> /\ \A j \in Ops \ {i} : op'[j] = op[j]
    BY <1>1, <1>10 DEF AskDelete, StartRename, AnswerDelete
  <2>2. op'[i].step # "checked"
    <3>1. CASE AskDelete(i, p)
      BY <1>1, <3>1 DEF AskDelete, NoOp
    <3>2. CASE StartRename(i, p, q)
      BY <1>1, <3>2 DEF StartRename, NoOp
    <3>3. CASE AnswerDelete(i)
      BY <1>1, <3>3 DEF AnswerDelete, OpState
    <3> QED BY <1>10, <3>1, <3>2, <3>3
  <2> QED BY <1>2, <2>1, <2>2
<1>11. ASSUME NEW t \in Tabs, Edit(t) \/ Save(t) \/ CloseSave(t)
       PROVE  StillSeen'
  BY <1>2, <1>11 DEF Edit, Save, CloseSave, Request
<1>12. ASSUME NEW i \in Ops, AnswerDelete(i)
       PROVE  StillSeen'
  <2>1. UNCHANGED <<disk, slipped>> /\ \A j \in Ops \ {i} : op'[j] = op[j]
    BY <1>1, <1>12 DEF AnswerDelete
  <2>2. op'[i].step # "checked"
    BY <1>1, <1>12 DEF AnswerDelete, OpState
  <2> QED BY <1>2, <2>1, <2>2
<1> QED BY <1>6, <1>7, <1>8, <1>9, <1>10, <1>11, <1>12 DEF SaveNext

\* No file vanishes that nobody named, but one another program puts at the name
\* between the look of an operation and its call, or one a failed look missed: a delete looks at the inode and then
\* unlinks, a rename on a file system without RENAME_NOREPLACE looks at the new name and
\* then renames (file_execution.rs, filesystem/write.rs, execution.rs).
THEOREM NobodyVanishes == SaveSpec => NothingVanishes
<1> DEFINE Named ==
      \A p \in Paths :
        disk[p] # Nothing /\ disk'[p].obj # disk[p].obj /\ count'.outside = count.outside =>
          \/ \E q \in Paths : disk'[q].obj = disk[p].obj /\ disk'[q].text = disk[p].text
          \/ \E i \in Ops : /\ op[i].kind = "delete" /\ op[i].step = "checked"
                            /\ op[i].old = p /\ op[i].expected = disk[p].obj
          \/ \E i \in slipped : op[i].step = "checked" /\ op'[i].step # "checked" /\ Target(op[i]) = p
          \/ \E t \in Tabs : save[t].step = "write" /\ save[t].path = p
<1>1. SaveInv /\ StillSeen /\ [SaveNext]_saveVars => [Named]_saveVars
  <2> SUFFICES ASSUME SaveInv, StillSeen, SaveNext PROVE Named
    OBVIOUS
  <2>1. disk \in [Paths -> Object] /\ count \in Counters /\ op \in [Ops -> OpState]
    BY DEF SaveInv, SaveTypeOK, SaveTypes
  <2>2. CASE \A p \in Paths : disk'[p].obj = disk[p].obj
    BY <2>2
  <2>3. ASSUME NEW p \in Paths, Outside(p)
        PROVE  Named
    <3>1. count'.outside = count.outside + 1 /\ count.outside \in Nat
      BY <2>1, <2>3 DEF Outside, Counters
    <3> QED BY <3>1
  <2>4. ASSUME NEW t \in Tabs, WriteSaved(t)
        PROVE  Named
    <3>1. \A p \in Paths \ {save[t].path} : disk'[p] = disk[p]
      BY <2>1, <2>4 DEF WriteSaved
    <3>2. save[t].step = "write"
      BY <2>4 DEF WriteSaved
    <3> QED BY <3>1, <3>2
  <2>5. ASSUME NEW i \in Ops, NEW x \in {"ran", "end"}, op[i].step \in {"act", "checked"},
               OpEnds(i, x), CallTakes(i, x)
        PROVE  Named
    <3>1. /\ op[i].old \in Paths
          /\ op[i].kind = "rename" => op[i].new \in Paths \ {op[i].old}
          /\ op'[i].step # "checked"
      BY <2>1, <2>5 DEF SaveInv, OpsPlaced, OpEnds, OpState
    <3>2. CASE /\ op[i].kind = "delete" /\ op[i].step = "checked"
               /\ disk' = [disk EXCEPT ![op[i].old] = Nothing]
      <4>1. i \in slipped \/ disk[op[i].old].obj = op[i].expected
        BY <3>2 DEF StillSeen
      <4>2. \A p \in Paths \ {op[i].old} : disk'[p] = disk[p]
        BY <2>1, <3>2
      <4> QED BY <3>1, <3>2, <4>1, <4>2 DEF Target
    <3>3. CASE /\ op[i].kind = "rename" /\ (op[i].step = "act" => disk[op[i].new] = Nothing)
               /\ \/ disk' = Moved(op[i], AsRenamed(op[i]))
                  \/ disk' = Moved(op[i], [AsRenamed(op[i]) EXCEPT !.by = {}])
      <4>1. /\ disk'[op[i].new].obj = disk[op[i].old].obj /\ disk'[op[i].new].text = disk[op[i].old].text
            /\ \A p \in Paths \ {op[i].new, op[i].old} : disk'[p] = disk[p]
        <5>1. AsRenamed(op[i]) \in Object
          BY <2>1, <3>1, RenamedFacts
        <5>2. /\ [AsRenamed(op[i]) EXCEPT !.by = {}].obj = AsRenamed(op[i]).obj
              /\ [AsRenamed(op[i]) EXCEPT !.by = {}].text = AsRenamed(op[i]).text
          BY <5>1 DEF Object
        <5>3. \A file : /\ Moved(op[i], file)[op[i].new] = file
                        /\ \A p \in Paths \ {op[i].new, op[i].old} : Moved(op[i], file)[p] = disk[p]
          BY <2>1, <3>1, <3>3 DEF Moved
        <5>4. /\ \/ disk'[op[i].new] = AsRenamed(op[i])
                 \/ disk'[op[i].new] = [AsRenamed(op[i]) EXCEPT !.by = {}]
              /\ \A p \in Paths \ {op[i].new, op[i].old} : disk'[p] = disk[p]
          BY <3>3, <5>3
        <5>5. /\ AsRenamed(op[i]).obj = disk[op[i].old].obj
              /\ AsRenamed(op[i]).text = disk[op[i].old].text
          BY <2>1, <3>1, RenamedFacts
        <5> QED BY <5>2, <5>4, <5>5
      <4>2. disk[op[i].new] = Nothing \/ (op[i].step = "checked" /\ i \in slipped)
        BY <2>5, <3>3 DEF StillSeen
      <4> QED BY <3>1, <3>3, <4>1, <4>2 DEF Target
    <3> QED BY <2>2, <2>5, <3>2, <3>3 DEF CallTakes
  <2>6. \/ UNCHANGED disk
        \/ \E p \in Paths : Outside(p)
        \/ \E t \in Tabs : WriteSaved(t)
        \/ \E i \in Ops : Act(i) \/ TakeName(i)
        \/ \E t \in Tabs : Accept(t)
    BY DEF SaveNext, Machine, Edit, Save, SaveAs, CloseSave, Request, Drain, Deliver, SaveDone,
           Refuse, Failed, ReleasePermit, LockTarget, Return, MirrorDone, AskDelete, AnswerDelete,
           StartRename, TakeFirst, TakeSecond, ReturnOp
  <2>7. ASSUME NEW t \in Tabs, Accept(t)
        PROVE  Named
    <3>1. PICK path : disk' = Owns(t, path)
      BY <2>7 DEF Accept
    <3>2. \A p \in Paths : Owns(t, path)[p].obj = disk[p].obj
      BY <2>1, OwnsFacts DEF Owns
    <3>3. \A p \in Paths : disk'[p].obj = disk[p].obj
      BY <3>1, <3>2
    <3> QED BY <2>2, <3>3
  <2>8. ASSUME NEW i \in Ops, Act(i) \/ TakeName(i)
        PROVE  Named
    <3>1. CASE UNCHANGED disk
      BY <2>2, <3>1
    <3>2. CASE ~UNCHANGED disk
      BY <2>5, <2>8, <3>2, ActDoes
    <3> QED BY <3>1, <3>2
  <2> QED BY <2>2, <2>3, <2>4, <2>6, <2>7, <2>8
<1>2. SaveInit => StillSeen
  BY DEF SaveInit, StillSeen, NoOp
<1>3. SaveInv /\ StillSeen /\ [SaveNext]_saveVars => StillSeen'
  BY SeenKeeps
<1> QED BY <1>1, <1>2, <1>3, SaveInvariant, PTL DEF SaveSpec, NothingVanishes
-----------------------------------------------------------------------------
(* A clean tab shows what its file holds.                                   *)

\* A step that gives a tab no file and changes none that it has.
FilesKept(u) ==
  \A p \in Paths : u \in disk'[p].by => u \in disk[p].by /\ disk'[p].text = disk[p].text

\* A step after which every rename that has news to tell still has.
NewsKept ==
  \A i \in Ops : op[i].kind = "rename" /\ op[i].step \in {"ran", "sent"} =>
    /\ op'[i].kind = "rename" /\ op'[i].step \in {"ran", "sent"}
    /\ op'[i].old = op[i].old /\ op'[i].new = op[i].new

\* A step after which the tab is excused as before.
GhostsKept(u) == raced \subseteq raced' /\ (u \in unconfirmed => u \in unconfirmed')

\* A step that leaves a tab and its save what they are, but for the step of the save.
TabKept(u) ==
  /\ tab'[u].modified = tab[u].modified /\ tab'[u].text = tab[u].text
  /\ tab'[u].path = tab[u].path /\ tab'[u].pathGen = tab[u].pathGen
  /\ tab'[u].open => tab[u].open
  /\ save'[u].path = save[u].path /\ save'[u].explicit = save[u].explicit
  /\ save'[u].out = save[u].out /\ save'[u].pathGen = save[u].pathGen
  /\ save'[u].text = save[u].text
  /\ save'[u].was = save[u].was /\ save'[u].result = save[u].result
  /\ save'[u].step # "none" <=> save[u].step # "none"
  /\ save'[u].result # "none" => save'[u].step \in {"ran", "sent", "mirror"}
  /\ save'[u].step = "mirror" => save'[u].result = "ok"

\* What CleanInv says of one tab.
Clean(t) == SaveFits(t) /\ (t \notin raced => Shown(t) /\ Written(t))

LEMMA Alike ==
    ASSUME NEW u \in Tabs, Clean(u), tab'[u] = tab[u], save'[u] = save[u]
    PROVE  TabKept(u)
BY DEF TabKept, Clean, SaveFits

LEMMA TabStays ==
    ASSUME SaveInv, NEW u \in Tabs, Clean(u), TabKept(u), FilesKept(u), NewsKept,
           GhostsKept(u)
    PROVE  Clean(u)'
<1>1. SaveFits(u)'
  BY DEF Clean, SaveFits, SaveAtWork, TabKept
<1>2. ASSUME u \notin raced'
      PROVE  Shown(u)' /\ Written(u)'
  <2>1. Shown(u) /\ Written(u)
    BY <1>2 DEF Clean, GhostsKept
  <2>2. Shown(u)'
    BY <2>1 DEF Shown, MayHold, TabKept, FilesKept, GhostsKept
  <2>3. NoneAhead(u)' => NoneAhead(u)
    BY DEF NoneAhead, NewsKept, TabKept
  <2>4. save[u].result = "ok" => save[u].path \in Paths
    BY DEF Clean, SaveFits, SaveInv, SaveTypeOK, GuardsOwned
  <2>5. Written(u)'
    BY <2>1, <2>3, <2>4 DEF Written, TabKept, FilesKept
  <2> QED BY <2>2, <2>5
<1> QED BY <1>1, <1>2 DEF Clean

LEMMA CleanSplit == CleanInv <=> \A u \in Tabs : Clean(u)
BY DEF CleanInv, Clean

\* A step of the operations that changes no file.
LEMMA OpsOnly ==
    ASSUME SaveInv, CleanInv, UNCHANGED <<disk, tab, save, raced, unconfirmed>>, NewsKept
    PROVE  CleanInv'
<1>1. ASSUME NEW u \in Tabs PROVE Clean(u)'
  <2>1. Clean(u) /\ FilesKept(u) /\ GhostsKept(u)
    BY CleanSplit DEF FilesKept, GhostsKept
  <2>2. TabKept(u)
    BY <2>1, Alike
  <2> QED BY <2>1, <2>2, TabStays
<1> QED BY <1>1 DEF CleanInv, Clean

LEMMA InitClean == ASSUME SaveInit PROVE CleanInv
<1>1. /\ \A t \in Tabs : save[t] = NoSave /\ tab[t].text = 0
      /\ \A p \in Paths : disk[p].text = 0
  BY DEF SaveInit, Nothing
<1>2. \A t \in Tabs : save[t].result = "none" /\ save[t].step = "none"
  BY <1>1 DEF NoSave
<1>3. ASSUME NEW t \in Tabs PROVE SaveFits(t) /\ Shown(t) /\ Written(t)
  <2>1. SaveFits(t)
    BY <1>2 DEF SaveFits, SaveAtWork
  <2>2. Shown(t)
    BY <1>1 DEF Shown, MayHold
  <2>3. Written(t)
    BY <1>2 DEF Written
  <2> QED BY <2>1, <2>2, <2>3
<1> QED BY <1>3 DEF CleanInv

LEMMA EditClean ==
    ASSUME SaveInv, CleanInv, NEW t \in Tabs, Edit(t)
    PROVE  CleanInv'
<1>1. /\ ~tab[t].locked
      /\ tab' = [tab EXCEPT ![t].text = 2 * (count.edits + 1), ![t].modified = TRUE,
                            ![t].editGen = @ + 1]
      /\ UNCHANGED <<disk, save, op, raced, unconfirmed>> /\ tab \in [Tabs -> Editor]
  BY DEF Edit, SaveInv, SaveTypeOK, SaveTypes
<1>2. save[t].step = "none" /\ save[t].result = "none" /\ tab'[t].modified
  <2>1. save[t].step = "none"
    BY <1>1 DEF SaveInv, SaveTypeOK, GuardsOwned
  <2>2. tab'[t].modified
    BY <1>1 DEF Editor
  <2> QED BY <2>1, <2>2 DEF CleanInv, SaveFits
<1>3. ASSUME NEW u \in Tabs PROVE Clean(u)'
  <2>1. CASE u = t
    BY <1>1, <1>2, <2>1 DEF Clean, SaveFits, SaveAtWork, Shown, Written
  <2>2. CASE u # t
    <3>1. Clean(u) /\ FilesKept(u) /\ NewsKept /\ GhostsKept(u)
      BY <1>1, CleanSplit DEF FilesKept, NewsKept, GhostsKept
    <3>2. tab'[u] = tab[u] /\ save'[u] = save[u]
      BY <1>1, <2>2
    <3> QED BY <3>1, <3>2, Alike, TabStays
  <2> QED BY <2>1, <2>2
<1> QED BY <1>3 DEF CleanInv, Clean

LEMMA RequestClean ==
    ASSUME SaveInv, CleanInv, NEW t \in Tabs, NEW path, NEW explicit, NEW close,
           Request(t, path, explicit, close)
    PROVE  CleanInv'
<1>1. /\ tab' = [tab EXCEPT ![t].gen = @ + 1, ![t].saving = TRUE]
      /\ UNCHANGED <<disk, save, op, raced, unconfirmed>> /\ tab \in [Tabs -> Editor]
  BY DEF Request, SaveInv, SaveTypeOK, SaveTypes
<1>2. ASSUME NEW u \in Tabs PROVE Clean(u)'
  <2>1. Clean(u) /\ FilesKept(u) /\ NewsKept /\ GhostsKept(u)
    BY <1>1, CleanSplit DEF FilesKept, NewsKept, GhostsKept
  <2>2. /\ tab'[u].modified = tab[u].modified /\ tab'[u].text = tab[u].text
        /\ tab'[u].path = tab[u].path /\ tab'[u].pathGen = tab[u].pathGen
        /\ tab'[u].open = tab[u].open
    BY <1>1 DEF Editor
  <2>3. TabKept(u)
    BY <1>1, <2>1, <2>2 DEF TabKept, Clean, SaveFits
  <2> QED BY <2>1, <2>3, TabStays
<1> QED BY <1>2 DEF CleanInv, Clean

LEMMA DrainClean ==
    ASSUME SaveInv, CleanInv, Drain
    PROVE  CleanInv'
<1>0. PICK stale, got : Drains(stale, got)
  BY Drained
<1>1. /\ \A r \in got : Waits(r) /\ RequestCurrent(r)
      /\ tab' = [t \in Tabs |->
           IF \E r \in stale : r.tab = t /\ r.gen = tab[t].gen THEN [tab[t] EXCEPT !.saving = FALSE]
           ELSE IF \E r \in got : r.tab = t THEN [tab[t] EXCEPT !.locked = TRUE]
           ELSE tab[t]]
      /\ save' = [t \in Tabs |->
           IF \E r \in got : r.tab = t THEN Began(t, CHOOSE x \in got : x.tab = t) ELSE save[t]]
  BY <1>0 DEF Drains
<1>2. UNCHANGED <<disk, op, raced, unconfirmed>> /\ tab \in [Tabs -> Editor]
  BY DEF Drain, SaveInv, SaveTypeOK, SaveTypes
<1>3. ASSUME NEW u \in Tabs PROVE Clean(u)'
  <2>1. Clean(u) /\ FilesKept(u) /\ NewsKept /\ GhostsKept(u)
    BY <1>2, CleanSplit DEF FilesKept, NewsKept, GhostsKept
  <2>2. /\ tab'[u].modified = tab[u].modified /\ tab'[u].text = tab[u].text
        /\ tab'[u].path = tab[u].path /\ tab'[u].pathGen = tab[u].pathGen
        /\ tab'[u].open = tab[u].open
    <3>1. \/ tab'[u] = [tab[u] EXCEPT !.saving = FALSE]
          \/ tab'[u] = [tab[u] EXCEPT !.locked = TRUE]
          \/ tab'[u] = tab[u]
      BY <1>1
    <3>2. tab[u] \in Editor
      BY <1>2
    <3> QED BY <3>1, <3>2 DEF Editor
  <2>3. CASE \E r \in got : r.tab = u
    <3> DEFINE r == CHOOSE x \in got : x.tab = u
    <3>1. r \in got /\ r.tab = u
      BY <2>3
    <3>2. save'[u] = Began(u, r)
      BY <1>1, <2>3
    <3> HIDE DEF r
    <3>3. save[u].step = "none" /\ (r.explicit \/ tab[u].path = r.path) /\ tab[u].pathGen \in Nat
      <4>1. Waits(r) /\ RequestCurrent(r)
        BY <1>1, <3>1
      <4>2. save[u].step = "none" /\ (r.explicit \/ tab[u].path = r.path)
        BY <3>1, <4>1, WaitsFacts DEF RequestCurrent
      <4> QED BY <1>2, <4>2 DEF Editor
    <3>4. SaveFits(u)'
      BY <2>2, <3>2, <3>3 DEF SaveFits, SaveAtWork, Began
    <3>5. save[u].result = "none"
      BY <2>1, <3>3 DEF Clean, SaveFits
    <3>6. save'[u].result = "none"
      BY <3>2 DEF Began
    <3>7. Written(u)'
      BY <3>6 DEF Written
    <3>8. u \notin raced' => Shown(u)'
      BY <1>2, <2>1, <2>2, <3>5 DEF Clean, Shown, MayHold
    <3> QED BY <3>4, <3>7, <3>8 DEF Clean
  <2>4. CASE ~ \E r \in got : r.tab = u
    <3>1. save'[u] = save[u]
      BY <1>1, <2>4
    <3>2. TabKept(u)
      BY <2>1, <2>2, <3>1 DEF TabKept, Clean, SaveFits
    <3> QED BY <2>1, <3>2, TabStays
  <2> QED BY <2>3, <2>4
<1> QED BY <1>3 DEF CleanInv, Clean

\* A step that moves the save of one tab on and changes no file.
LEMMA SaveMoves ==
    ASSUME SaveInv, CleanInv, NEW t \in Tabs, UNCHANGED <<disk, tab, op, raced, unconfirmed>>,
           NEW x \in {"write", "sent", "mirror"}, save' = [save EXCEPT ![t].step = x],
           save[t].step # "none", x = "write" => save[t].result = "none",
           x = "mirror" => save[t].result = "ok"
    PROVE  CleanInv'
<1>1. ASSUME NEW u \in Tabs PROVE Clean(u)'
  <2>1. Clean(u) /\ FilesKept(u) /\ NewsKept /\ GhostsKept(u)
    BY CleanSplit DEF FilesKept, NewsKept, GhostsKept
  <2>2. /\ save[u] \in SaveState /\ save \in [Tabs -> SaveState]
    BY DEF SaveInv, SaveTypeOK, SaveTypes
  <2>3. /\ save'[u].path = save[u].path /\ save'[u].explicit = save[u].explicit
        /\ save'[u].out = save[u].out /\ save'[u].pathGen = save[u].pathGen
        /\ save'[u].text = save[u].text
        /\ save'[u].was = save[u].was /\ save'[u].result = save[u].result
        /\ save'[u].step = IF u = t THEN x ELSE save[u].step
    BY <2>2 DEF SaveState
  <2>4. TabKept(u)
    BY <2>1, <2>3 DEF TabKept, Clean, SaveFits
  <2> QED BY <2>1, <2>4, TabStays
<1> QED BY <1>1 DEF CleanInv, Clean

LEMMA LockTargetClean ==
    ASSUME SaveInv, CleanInv, NEW t \in Tabs, LockTarget(t)
    PROVE  CleanInv'
<1>1. PICK out \in {save[t].text, Tidied(save[t].text)} :
         save' = [save EXCEPT ![t].step = "write", ![t].out = out]
  BY DEF LockTarget
<1>2. /\ save[t].step = "lock" /\ UNCHANGED <<disk, tab, op, raced, unconfirmed>>
      /\ save \in [Tabs -> SaveState]
  BY DEF LockTarget, SaveInv, SaveTypeOK, SaveTypes
<1>3. ASSUME NEW u \in Tabs PROVE Clean(u)'
  <2>1. Clean(u) /\ FilesKept(u) /\ NewsKept /\ GhostsKept(u)
    BY <1>2, CleanSplit DEF FilesKept, NewsKept, GhostsKept
  <2>2. CASE u = t
    <3>1. /\ save'[u].path = save[u].path /\ save'[u].explicit = save[u].explicit
          /\ save'[u].pathGen = save[u].pathGen
          /\ save'[u].was = save[u].was /\ save'[u].result = save[u].result
          /\ save'[u].text = save[u].text /\ save'[u].out = out
          /\ save'[u].step = "write"
      BY <1>1, <1>2, <2>2 DEF SaveState
    <3>2. save[u].result = "none"
      BY <1>2, <2>1, <2>2 DEF Clean, SaveFits
    <3>3. SaveFits(u)'
      BY <1>1, <1>2, <2>1, <2>2, <3>1, <3>2 DEF Clean, SaveFits, SaveAtWork
    <3>4. (u \notin raced => Shown(u))' /\ Written(u)'
      BY <1>2, <2>1, <3>1, <3>2 DEF Clean, Shown, MayHold, Written
    <3> QED BY <3>3, <3>4 DEF Clean
  <2>3. CASE u # t
    <3>1. tab'[u] = tab[u] /\ save'[u] = save[u]
      BY <1>1, <1>2, <2>3
    <3> QED BY <2>1, <3>1, Alike, TabStays
  <2> QED BY <2>2, <2>3
<1> QED BY <1>3 DEF CleanInv, Clean

LEMMA WriteSavedClean ==
    ASSUME SaveInv, CleanInv, NEW t \in Tabs, WriteSaved(t)
    PROVE  CleanInv'
<1>1. PICK result \in {"ok", "before", "after"} :
         /\ save' = [save EXCEPT ![t].step = "ran", ![t].result = result]
         /\ disk' = IF result = "before" THEN disk
                    ELSE [disk EXCEPT ![save[t].path] =
                           [obj |-> count.objs + 1, text |-> save[t].out, by |-> {t}]]
  BY DEF WriteSaved
<1>2. /\ save[t].step = "write" /\ UNCHANGED <<tab, op, raced, unconfirmed>>
      /\ save \in [Tabs -> SaveState] /\ disk \in [Paths -> Object]
  BY DEF WriteSaved, SaveInv, SaveTypeOK, SaveTypes
<1>3. /\ save'[t].path = save[t].path /\ save'[t].explicit = save[t].explicit
      /\ save'[t].out = save[t].out /\ save'[t].pathGen = save[t].pathGen
      /\ save'[t].text = save[t].text
      /\ save'[t].was = save[t].was /\ save'[t].result = result
      /\ save'[t].step = "ran"
  BY <1>1, <1>2 DEF SaveState
<1>4. save[t].path \in Paths
  BY <1>2 DEF SaveInv, SaveTypeOK, GuardsOwned
<1>5. /\ \A p \in Paths \ {save[t].path} : disk'[p] = disk[p]
      /\ result = "before" => disk' = disk
      /\ result # "before" => disk'[save[t].path].text = save[t].out /\ disk'[save[t].path].by = {t}
  BY <1>1, <1>2, <1>4
<1>6. ASSUME NEW u \in Tabs PROVE Clean(u)'
  <2>1. Clean(u) /\ NewsKept /\ GhostsKept(u)
    BY <1>2, CleanSplit DEF NewsKept, GhostsKept
  <2>2. u # t => FilesKept(u)
    BY <1>5 DEF FilesKept
  <2>3. CASE u = t
    <3>1. SaveFits(u)'
      BY <1>2, <1>3, <2>1, <2>3 DEF Clean, SaveFits, SaveAtWork
    <3>2. u \notin raced' => Shown(u)'
      <4>1. save[u].result = "none"
        BY <1>2, <2>1, <2>3 DEF Clean, SaveFits
      <4>2. ASSUME u \notin raced', ~tab'[u].modified, result # "ok", NEW p \in Paths, u \in disk'[p].by
            PROVE  MayHold(u, disk[p].text)'
        <5>1. CASE result = "after" /\ p = save[u].path
          BY <1>3, <1>5, <2>3, <5>1 DEF MayHold
        <5>2. CASE disk'[p] = disk[p]
          <6>1. MayHold(u, disk[p].text)
            BY <1>2, <2>1, <4>1, <4>2, <5>2 DEF Clean, Shown
          <6> QED BY <1>2, <4>1, <5>2, <6>1 DEF MayHold
        <5> QED BY <1>5, <2>3, <4>2, <5>1, <5>2
      <4> QED BY <1>3, <2>3, <4>2 DEF Shown
    <3>3. Written(u)'
      BY <1>3, <1>5, <2>3 DEF Written
    <3> QED BY <3>1, <3>2, <3>3 DEF Clean
  <2>4. CASE u # t
    <3>1. tab'[u] = tab[u] /\ save'[u] = save[u]
      BY <1>1, <1>2, <2>4
    <3> QED BY <2>1, <2>2, <2>4, <3>1, Alike, TabStays
  <2> QED BY <2>3, <2>4
<1> QED BY <1>6 DEF CleanInv, Clean

\* A tab whose save ended modified, or clean with what its files hold.
LEMMA EndClean ==
    ASSUME SaveInv, CleanInv, NEW t \in Tabs, NEW e, tab' = [tab EXCEPT ![t] = e],
           save' = [save EXCEPT ![t] = NoSave], UNCHANGED op,
           \A u \in Tabs \ {t} : FilesKept(u) /\ GhostsKept(u),
           t \notin raced' /\ ~e.modified =>
             \A p \in Paths : t \in disk'[p].by =>
               \/ disk'[p].text = e.text
               \/ t \in unconfirmed' /\ disk'[p].text = Tidied(e.text)
    PROVE  CleanInv'
<1>1. tab \in [Tabs -> Editor] /\ save \in [Tabs -> SaveState] /\ NewsKept
  BY DEF SaveInv, SaveTypeOK, SaveTypes, NewsKept
<1>2. save'[t].step = "none" /\ save'[t].result = "none" /\ tab'[t] = e
  BY <1>1 DEF NoSave
<1>3. Clean(t)'
  BY <1>2 DEF Clean, SaveFits, SaveAtWork, Shown, MayHold, Written
<1>4. ASSUME NEW u \in Tabs \ {t} PROVE Clean(u)'
  <2>1. Clean(u) /\ tab'[u] = tab[u] /\ save'[u] = save[u]
    BY <1>1, CleanSplit
  <2> QED BY <1>1, <2>1, Alike, TabStays
<1> QED BY <1>3, <1>4 DEF CleanInv, Clean

LEMMA AcceptClean ==
    ASSUME SaveInv, CleanInv, NEW t \in Tabs, save[t].step # "none", save[t].result = "ok",
           TicketCurrent(t), Accept(t), UNCHANGED op
    PROVE  CleanInv'
<1> DEFINE path == IF save[t].explicit THEN save[t].path ELSE tab[t].path
           e == [[tab[t] EXCEPT !.modified = FALSE, !.text = save[t].out, !.path = path,
                    !.pathGen = IF save[t].explicit THEN @ + 1 ELSE @,
                    !.open = @ /\ save[t].close = 0] EXCEPT !.saving = FALSE, !.locked = FALSE]
<1>1. /\ tab' = [tab EXCEPT ![t] = e] /\ save' = [save EXCEPT ![t] = NoSave]
      /\ disk' = Owns(t, path)
      /\ raced' = IF Overtaking(t) THEN raced \cup {t} ELSE raced
      /\ unconfirmed' = unconfirmed \ {t}
  BY DEF Accept, EndSave
<1>2. /\ disk \in [Paths -> Object] /\ tab[t] \in Editor
  BY DEF SaveInv, SaveTypeOK, SaveTypes
<1>3. e.text = save[t].out
  BY <1>2 DEF Editor
<1> HIDE DEF e
<1>4. /\ \A p \in Paths : disk'[p].text = disk[p].text
      /\ \A p \in Paths \ {path} : disk'[p].by = disk[p].by \ {t}
      /\ \A p \in Paths : disk'[p].by \subseteq disk[p].by
  <2> HIDE DEF path
  <2>1. \A p \in Paths :
           /\ Owns(t, path)[p].text = disk[p].text
           /\ Owns(t, path)[p].by = IF p = path THEN disk[p].by ELSE disk[p].by \ {t}
    BY <1>2, OwnsFacts DEF Owns
  <2> QED BY <1>1, <2>1
<1>5. path = save[t].path
  BY DEF CleanInv, SaveFits, SaveAtWork, TicketCurrent
<1>6. ASSUME t \notin raced', NEW p \in Paths, t \in disk'[p].by
      PROVE  disk'[p].text = e.text
  <2>1. t \notin raced /\ ~Overtaking(t)
    BY <1>1, <1>6
  <2>2. tab[t].open /\ NoneAhead(t)
    BY <2>1 DEF Overtaking, NoneAhead
  <2>3. Written(t)
    BY <2>1 DEF CleanInv
  <2>4. p = save[t].path /\ t \in disk[p].by
    BY <1>4, <1>5, <1>6
  <2>5. disk[p].text = save[t].out
    BY <2>2, <2>3, <2>4 DEF Written, TicketCurrent
  <2> QED BY <1>3, <1>4, <2>5
<1>7. \A u \in Tabs \ {t} : FilesKept(u) /\ GhostsKept(u)
  BY <1>1, <1>4 DEF FilesKept, GhostsKept
<1> QED BY <1>1, <1>6, <1>7, EndClean

LEMMA RefuseClean ==
    ASSUME SaveInv, CleanInv, NEW t \in Tabs, NEW text, Refuse(t, text), UNCHANGED op
    PROVE  CleanInv'
<1> DEFINE e == [[tab[t] EXCEPT !.modified = TRUE, !.text = text]
                    EXCEPT !.saving = FALSE, !.locked = FALSE]
<1>1. /\ tab' = [tab EXCEPT ![t] = e] /\ save' = [save EXCEPT ![t] = NoSave]
      /\ UNCHANGED <<disk, raced, unconfirmed>> /\ tab[t] \in Editor
  BY DEF Refuse, EndSave, SaveInv, SaveTypeOK, SaveTypes
<1>2. e.modified
  BY <1>1 DEF Editor
<1> HIDE DEF e
<1>3. \A u \in Tabs \ {t} : FilesKept(u) /\ GhostsKept(u)
  BY <1>1 DEF FilesKept, GhostsKept
<1> QED BY <1>1, <1>2, <1>3, EndClean

LEMMA FailedClean ==
    ASSUME SaveInv, CleanInv, NEW t \in Tabs, save[t].step # "none", save[t].result # "ok",
           Failed(t), UNCHANGED op
    PROVE  CleanInv'
<1> DEFINE e == [[tab[t] EXCEPT !.modified = save[t].was] EXCEPT !.saving = FALSE, !.locked = FALSE]
<1>1. /\ tab' = [tab EXCEPT ![t] = e] /\ save' = [save EXCEPT ![t] = NoSave]
      /\ UNCHANGED <<disk, raced>> /\ tab[t] \in Editor
      /\ unconfirmed' = IF save[t].result = "after" /\ ~save[t].was /\ save[t].out # save[t].text
                        THEN unconfirmed \cup {t} ELSE unconfirmed
  BY DEF Failed, EndSave, SaveInv, SaveTypeOK, SaveTypes
<1>2. /\ e.modified = tab[t].modified /\ e.text = tab[t].text
      /\ save[t].was = tab[t].modified /\ save[t].text = tab[t].text
      /\ save[t].out \in {save[t].text, Tidied(save[t].text)}
  <2>1. /\ save[t].was = tab[t].modified /\ save[t].text = tab[t].text
        /\ save[t].out \in {save[t].text, Tidied(save[t].text)}
    BY DEF CleanInv, SaveFits, SaveAtWork
  <2> QED BY <1>1, <2>1 DEF Editor
<1> HIDE DEF e
<1>3. \A u \in Tabs \ {t} : FilesKept(u) /\ GhostsKept(u)
  BY <1>1 DEF FilesKept, GhostsKept
<1>4. t \notin raced => Shown(t)
  BY DEF CleanInv
<1>5. ASSUME t \notin raced', ~e.modified, NEW p \in Paths, t \in disk'[p].by
      PROVE  \/ disk'[p].text = e.text
             \/ t \in unconfirmed' /\ disk'[p].text = Tidied(e.text)
  <2>1. MayHold(t, disk[p].text)
    BY <1>1, <1>2, <1>4, <1>5 DEF Shown
  <2> QED BY <1>1, <1>2, <1>5, <2>1 DEF MayHold
<1> QED BY <1>1, <1>3, <1>5, EndClean

LEMMA SaveDoneClean ==
    ASSUME SaveInv, CleanInv, NEW t \in Tabs, save[t].step = "sent", SaveDone(t), UNCHANGED op
    PROVE  CleanInv'
<1>1. CASE ~TicketCurrent(t)
  BY <1>1, RefuseClean DEF SaveDone
<1>2. CASE TicketCurrent(t) /\ save[t].result # "ok"
  BY <1>2, FailedClean DEF SaveDone
<1>3. CASE TicketCurrent(t) /\ save[t].result = "ok" /\ Accept(t)
  BY <1>3, AcceptClean
<1>4. CASE /\ save[t].result = "ok" /\ save' = [save EXCEPT ![t].step = "mirror"]
           /\ UNCHANGED <<disk, tab, freed, session, raced, unconfirmed>>
  BY <1>4, SaveMoves
<1> QED BY <1>1, <1>2, <1>3, <1>4 DEF SaveDone

LEMMA MirrorDoneClean ==
    ASSUME SaveInv, CleanInv, NEW t \in Tabs, MirrorDone(t)
    PROVE  CleanInv'
<1>1. save[t].step = "mirror" /\ save[t].result = "ok" /\ UNCHANGED op
  BY DEF MirrorDone, CleanInv, SaveFits
<1>2. CASE TicketCurrent(t)
  BY <1>1, <1>2, AcceptClean DEF MirrorDone
<1>3. CASE ~TicketCurrent(t)
  <2>1. PICK text : Refuse(t, text)
    BY <1>3 DEF MirrorDone
  <2> QED BY <1>1, <2>1, RefuseClean
<1> QED BY <1>2, <1>3

\* A step that changes one operation which has no news to tell.
LEMMA QuietOp ==
    ASSUME SaveInv, NEW i \in Ops, \A j \in Ops \ {i} : op'[j] = op[j],
           op[i].step \notin {"ran", "sent"}
    PROVE  NewsKept
BY DEF NewsKept

LEMMA OperationClean ==
    ASSUME SaveInv, CleanInv, NEW i \in Ops,
           \/ TakeFirst(i) \/ TakeSecond(i) \/ AnswerDelete(i) \/ ReturnOp(i)
           \/ \E p \in Paths : AskDelete(i, p)
           \/ \E p, q \in Paths : StartRename(i, p, q)
    PROVE  CleanInv'
<1>1. op \in [Ops -> OpState]
  BY DEF SaveInv, SaveTypeOK, SaveTypes
<1>2. CASE TakeFirst(i) \/ TakeSecond(i) \/ AnswerDelete(i)
  <2>1. /\ op[i].step \in {"first", "second", "asked"} /\ \A j \in Ops \ {i} : op'[j] = op[j]
        /\ UNCHANGED <<disk, tab, save, raced, unconfirmed>>
    BY <1>1, <1>2 DEF TakeFirst, TakeSecond, AnswerDelete
  <2> QED BY <2>1, QuietOp, OpsOnly
<1>3. CASE (\E p \in Paths : AskDelete(i, p)) \/ (\E p, q \in Paths : StartRename(i, p, q))
  <2>1. NextOp(i) /\ (\A j \in Ops \ {i} : op'[j] = op[j]) /\ UNCHANGED <<disk, tab, save, raced, unconfirmed>>
    BY <1>1, <1>3 DEF AskDelete, StartRename
  <2>2. op[i].step = "idle"
    BY <2>1, NextOpFresh
  <2> QED BY <2>1, <2>2, QuietOp, OpsOnly
<1>4. CASE ReturnOp(i)
  <2>1. op[i].step = "ran" /\ op' = [op EXCEPT ![i].step = "sent"] /\ UNCHANGED <<disk, tab, save, raced, unconfirmed>>
    BY <1>4 DEF ReturnOp
  <2>2. /\ \A j \in Ops \ {i} : op'[j] = op[j]
        /\ op'[i].step = "sent" /\ op'[i].kind = op[i].kind
        /\ op'[i].old = op[i].old /\ op'[i].new = op[i].new
    BY <2>1, OpStepsOn DEF OpSteps
  <2>3. NewsKept
    BY <2>2 DEF NewsKept
  <2> QED BY <2>1, <2>3, OpsOnly
<1> QED BY <1>2, <1>3, <1>4

\* A delete gives no tab a file.  A rename gives the file to the tabs that show its
\* old name, and a save of such a tab to its new name is not looked at until they know.
LEMMA ActClean ==
    ASSUME SaveInv, CleanInv, NEW i \in Ops, Act(i) \/ TakeName(i)
    PROVE  CleanInv'
<1>1. /\ op[i].step \in {"act", "checked"} /\ UNCHANGED <<tab, save, raced, unconfirmed>>
      /\ disk \in [Paths -> Object] /\ op[i].old \in Paths
      /\ op[i].kind = "rename" => op[i].new \in Paths \ {op[i].old}
  BY ActDoes DEF SaveInv, SaveTypeOK, SaveTypes, OpsPlaced
<1>2. PICK x \in {"checked", "ran", "end"} :
         /\ op' = [op EXCEPT ![i].step = x]
         /\ \/ disk' = disk
            \/ disk' = [disk EXCEPT ![op[i].old] = Nothing]
            \/ /\ op[i].kind = "rename" /\ x = "ran" /\ disk' = Moved(op[i], AsRenamed(op[i]))
            \/ /\ op[i].kind = "rename"
               /\ disk' = Moved(op[i], [AsRenamed(op[i]) EXCEPT !.by = {}])
  BY ActDoes DEF OpEnds, CallTakes
<1>3. /\ \A j \in Ops \ {i} : op'[j] = op[j]
      /\ op'[i].step = x /\ op'[i].kind = op[i].kind
      /\ op'[i].old = op[i].old /\ op'[i].new = op[i].new
  BY <1>2, OpStepsOn DEF OpSteps
<1>4. NewsKept
  BY <1>1, <1>3, QuietOp
<1>5. ASSUME NEW u \in Tabs PROVE Clean(u)'
  <2>1. Clean(u) /\ TabKept(u) /\ GhostsKept(u)
    BY <1>1, CleanSplit, Alike DEF GhostsKept
  <2>2. CASE disk' = disk
    BY <1>4, <2>1, <2>2, TabStays DEF FilesKept
  <2>3. CASE disk' = [disk EXCEPT ![op[i].old] = Nothing]
    <3>1. \A p \in Paths : p # op[i].old => disk'[p] = disk[p]
      BY <1>1, <2>3
    <3>2. disk'[op[i].old].by = {}
      BY <1>1, <2>3 DEF Nothing
    <3>3. FilesKept(u)
      BY <3>1, <3>2 DEF FilesKept
    <3> QED BY <1>4, <2>1, <3>3, TabStays
  <2>4. CASE op[i].kind = "rename" /\ x = "ran" /\ disk' = Moved(op[i], AsRenamed(op[i]))
    <3>1. /\ disk'[op[i].new] = AsRenamed(op[i]) /\ disk'[op[i].old] = Nothing
          /\ \A p \in Paths \ {op[i].new, op[i].old} : disk'[p] = disk[p]
      BY <1>1, <2>4 DEF Moved
    <3>2. /\ u \in disk'[op[i].new].by => u \in disk[op[i].old].by /\ tab[u].path = op[i].old
          /\ disk'[op[i].new].text = disk[op[i].old].text
          /\ u \notin disk'[op[i].old].by
      BY <1>1, <3>1, RenamedFacts DEF Nothing
    <3>3. SaveFits(u)'
      BY <1>1, <2>1 DEF Clean, SaveFits, SaveAtWork
    <3>4. ASSUME u \notin raced'
          PROVE  Shown(u)'
      <4>1. Shown(u)
        BY <1>1, <2>1, <3>4 DEF Clean
      <4>2. ASSUME ~tab[u].modified, save[u].result # "ok", NEW p \in Paths, u \in disk'[p].by
            PROVE  MayHold(u, disk'[p].text)
        BY <1>1, <3>1, <3>2, <4>1, <4>2 DEF Shown
      <4> QED BY <1>1, <4>2 DEF Shown, MayHold
    <3>5. ASSUME u \notin raced', save[u].result = "ok", save[u].pathGen = tab[u].pathGen,
                 tab[u].open, NoneAhead(u)', u \in disk'[save[u].path].by
          PROVE  disk'[save[u].path].text = save[u].out
      <4>1. Written(u) /\ save[u].path \in Paths
        BY <1>1, <2>1, <3>5 DEF Clean, SaveFits, SaveInv, SaveTypeOK, GuardsOwned
      <4>2. NoneAhead(u)
        BY <1>1, <1>4, <3>5 DEF NoneAhead, NewsKept
      <4>3. op[i].old # tab[u].path \/ op[i].new # save[u].path
        BY <1>1, <1>3, <2>4, <3>5 DEF NoneAhead
      <4>4. save[u].path # op[i].new /\ save[u].path # op[i].old
        BY <3>2, <3>5, <4>3
      <4> QED BY <3>1, <3>5, <4>1, <4>2, <4>4 DEF Written
    <3>6. u \notin raced' => Written(u)'
      BY <1>1, <3>5 DEF Written
    <3> QED BY <3>3, <3>4, <3>6 DEF Clean
  <2>5. CASE op[i].kind = "rename" /\ disk' = Moved(op[i], [AsRenamed(op[i]) EXCEPT !.by = {}])
    <3>1. AsRenamed(op[i]) \in Object
      BY <1>1, RenamedFacts
    <3>2. [AsRenamed(op[i]) EXCEPT !.by = {}].by = {}
      BY <3>1 DEF Object
    <3>3. /\ disk'[op[i].new].by = {} /\ disk'[op[i].old].by = {}
          /\ \A p \in Paths \ {op[i].new, op[i].old} : disk'[p] = disk[p]
      BY <1>1, <2>5, <3>2 DEF Moved, Nothing
    <3>4. FilesKept(u)
      BY <3>3 DEF FilesKept
    <3> QED BY <1>4, <2>1, <3>4, TabStays
  <2> QED BY <1>2, <2>2, <2>3, <2>4, <2>5
<1> QED BY <1>5 DEF CleanInv, Clean

\* The news of a rename makes a save of a tab it reaches stale.
LEMMA OpDoneClean ==
    ASSUME SaveInv, CleanInv, NEW i \in Ops, op[i].step = "sent", OpDone(i),
           UNCHANGED <<disk, save, raced, unconfirmed>>
    PROVE  CleanInv'
<1>1. tab \in [Tabs -> Editor] /\ save \in [Tabs -> SaveState]
  BY DEF SaveInv, SaveTypeOK, SaveTypes
<1>2. \A j \in Ops \ {i} : op'[j] = op[j]
  BY DEF OpDone, SaveInv, SaveTypeOK, SaveTypes
<1>3. ASSUME NEW u \in Tabs PROVE Clean(u)'
  <2>1. Clean(u) /\ tab[u] \in Editor
    BY <1>1, CleanSplit
  <2>2. CASE op[i].kind = "rename" /\ tab'[u] = [tab[u] EXCEPT !.path = op[i].new, !.pathGen = @ + 1]
    <3>1. /\ tab'[u].modified = tab[u].modified /\ tab'[u].text = tab[u].text
          /\ tab'[u].pathGen = tab[u].pathGen + 1 /\ tab[u].pathGen \in Nat
      BY <2>1, <2>2 DEF Editor
    <3>2. save[u].pathGen \in Nat
      BY <1>1 DEF SaveState
    <3>3. SaveFits(u)'
      BY <2>1, <3>1, <3>2 DEF Clean, SaveFits, SaveAtWork
    <3>4. ~(save'[u].result = "ok" /\ save'[u].pathGen = tab'[u].pathGen)
      BY <2>1, <3>1, <3>2 DEF Clean, SaveFits, SaveAtWork
    <3>5. Written(u)'
      BY <3>4 DEF Written
    <3>6. u \notin raced' => Shown(u)'
      BY <2>1, <3>1 DEF Clean, Shown, MayHold
    <3> QED BY <3>3, <3>5, <3>6 DEF Clean
  <2>3. CASE tab'[u] = [tab[u] EXCEPT !.open = FALSE]
    <3>1. /\ tab'[u].modified = tab[u].modified /\ tab'[u].text = tab[u].text
          /\ tab'[u].path = tab[u].path /\ tab'[u].pathGen = tab[u].pathGen /\ ~tab'[u].open
      BY <2>1, <2>3 DEF Editor
    <3>2. SaveFits(u)'
      BY <2>1, <3>1 DEF Clean, SaveFits, SaveAtWork
    <3>3. Written(u)'
      BY <3>1 DEF Written
    <3>4. u \notin raced' => Shown(u)'
      BY <2>1, <3>1 DEF Clean, Shown, MayHold
    <3> QED BY <3>2, <3>3, <3>4 DEF Clean
  <2>4. CASE tab'[u] = tab[u] /\ (op[i].kind = "rename" => ~tab[u].open \/ tab[u].path # op[i].old)
    <3>1. SaveFits(u)'
      BY <2>1, <2>4 DEF Clean, SaveFits, SaveAtWork
    <3>2. u \notin raced' => Shown(u)'
      BY <2>1, <2>4 DEF Clean, Shown, MayHold
    <3>3. tab[u].open /\ NoneAhead(u)' => NoneAhead(u)
      BY <1>2, <2>4 DEF NoneAhead
    <3>4. u \notin raced' => Written(u)'
      BY <2>1, <2>4, <3>3 DEF Clean, Written
    <3> QED BY <3>1, <3>2, <3>4 DEF Clean
  <2>5. CASE op[i].kind # "rename" /\ tab'[u] = tab[u]
    BY <2>4, <2>5
  <2>6. tab[u].open /\ tab[u].path = op[i].old /\ op[i].kind = "rename" =>
           tab'[u] = [tab[u] EXCEPT !.path = op[i].new, !.pathGen = @ + 1]
    BY DEF OpDone
  <2>7. ~(tab[u].open /\ tab[u].path = op[i].old) => tab'[u] = tab[u]
    BY DEF OpDone
  <2>8. op[i].kind # "rename" => tab'[u] = tab[u] \/ tab'[u] = [tab[u] EXCEPT !.open = FALSE]
    BY DEF OpDone
  <2> QED BY <2>2, <2>3, <2>4, <2>5, <2>6, <2>7, <2>8
<1> QED BY <1>3 DEF CleanInv, Clean

LEMMA OutsideClean ==
    ASSUME SaveInv, CleanInv, NEW p \in Paths, Outside(p)
    PROVE  CleanInv'
<1>1. /\ UNCHANGED <<tab, save, op, raced, unconfirmed>> /\ disk \in [Paths -> Object]
      /\ \/ disk' = [disk EXCEPT ![p] = [obj |-> count.objs + 1, text |-> 99, by |-> {}]]
         \/ disk' = [disk EXCEPT ![p] = Nothing]
  BY DEF Outside, SaveInv, SaveTypeOK, SaveTypes
<1>2. disk'[p].by = {} /\ \A q \in Paths \ {p} : disk'[q] = disk[q]
  BY <1>1 DEF Nothing
<1>3. ASSUME NEW u \in Tabs PROVE Clean(u)'
  <2>1. Clean(u) /\ TabKept(u) /\ NewsKept /\ GhostsKept(u)
    BY <1>1, CleanSplit, Alike DEF NewsKept, GhostsKept
  <2>2. FilesKept(u)
    BY <1>2 DEF FilesKept
  <2> QED BY <2>1, <2>2, TabStays
<1> QED BY <1>3 DEF CleanInv, Clean

LEMMA CleanKeeps == ASSUME SaveInv, CleanInv, [SaveNext]_saveVars PROVE CleanInv'
<1>1. CASE UNCHANGED saveVars
  BY <1>1, OpsOnly DEF saveVars, NewsKept
<1>2. CASE Machine
  <2>1. ASSUME NEW t \in Tabs, LockTarget(t) \/ WriteSaved(t) \/ MirrorDone(t)
        PROVE  CleanInv'
    BY <2>1, LockTargetClean, WriteSavedClean, MirrorDoneClean
  <2>2. ASSUME NEW t \in Tabs, Return(t)
        PROVE  CleanInv'
    BY <2>2, SaveMoves DEF Return
  <2>3. ASSUME NEW i \in Ops, TakeFirst(i) \/ TakeSecond(i) \/ Act(i) \/ TakeName(i) \/ ReturnOp(i)
        PROVE  CleanInv'
    BY <2>3, OperationClean, ActClean
  <2>4. ASSUME NEW id \in freed, ReleasePermit(id)
        PROVE  CleanInv'
    BY <2>4, OpsOnly DEF ReleasePermit, NewsKept
  <2>5. CASE Drain
    BY <2>5, DrainClean
  <2>6. CASE Deliver
    <3>1. \/ \E t \in Tabs : Head(lane) = <<"save", t>> /\ SaveDone(t) /\ UNCHANGED op
          \/ \E i \in Ops : Head(lane) = <<"op", i>> /\ OpDone(i)
                           /\ UNCHANGED <<disk, save, freed, session, raced, unconfirmed>>
      BY <2>6 DEF Deliver
    <3>2. lane \in Seq(Result) /\ 1 \in DOMAIN lane /\ lane[1] = Head(lane)
      BY <2>6 DEF Deliver, SaveInv, SaveTypeOK, SaveTypes
    <3>3. /\ \A t \in Tabs : Head(lane) = <<"save", t>> => save[t].step = "sent"
          /\ \A i \in Ops : Head(lane) = <<"op", i>> => op[i].step = "sent"
      BY <3>2 DEF SaveInv, LaneOnce
    <3> QED BY <3>1, <3>3, SaveDoneClean, OpDoneClean
  <2> QED BY <1>2, <2>1, <2>2, <2>3, <2>4, <2>5, <2>6 DEF Machine
<1>3. ASSUME NEW t \in Tabs, Edit(t)
      PROVE  CleanInv'
  BY <1>3, EditClean
<1>4. ASSUME NEW t \in Tabs, Save(t) \/ CloseSave(t) \/ \E p \in Paths : SaveAs(t, p)
      PROVE  CleanInv'
  BY <1>4, RequestClean DEF Save, CloseSave, SaveAs
<1>5. ASSUME NEW i \in Ops,
             \/ AnswerDelete(i)
             \/ \E p \in Paths : AskDelete(i, p)
             \/ \E p, q \in Paths : StartRename(i, p, q)
      PROVE  CleanInv'
  BY <1>5, OperationClean
<1>6. ASSUME NEW p \in Paths, Outside(p)
      PROVE  CleanInv'
  BY <1>6, OutsideClean
<1> QED BY <1>1, <1>2, <1>3, <1>4, <1>5, <1>6 DEF SaveNext

\* No work counts as saved that is not in the file: whatever the order of edits,
\* saves, Save As, closes, failures, renames, deletes and completions, a clean tab
\* shows what the file it last wrote or opened holds (SaveCompletionTicket and the
\* acceptance of a save in ui/editor_page/save/execution.rs), but after the two
\* exceptions CleanMeansSaved names: a save accepted ahead of the news of a rename, and
\* a formatted save of an unmodified tab that failed after its rename.
THEOREM CleanIsSaved == SaveSpec => []CleanMeansSaved
<1>1. SaveInit => CleanInv
  BY InitClean
<1>2. SaveInv /\ CleanInv /\ [SaveNext]_saveVars => CleanInv'
  BY CleanKeeps
<1>3. SaveInv /\ CleanInv => CleanMeansSaved
  <2> SUFFICES ASSUME SaveInv, CleanInv, NEW t \in Tabs \ raced, ~tab[t].modified, ~tab[t].saving,
                      disk[tab[t].path].by = {t}
               PROVE  \/ disk[tab[t].path].text = tab[t].text
                      \/ t \in unconfirmed /\ disk[tab[t].path].text = Tidied(tab[t].text)
    BY DEF CleanMeansSaved
  <2>1. save[t].step = "none"
    BY DEF SaveInv, SaveTypeOK, GuardsOwned
  <2>2. save[t].result = "none" /\ Shown(t)
    BY <2>1 DEF CleanInv, SaveFits
  <2>3. tab[t].path \in Paths
    BY DEF SaveInv, SaveTypeOK, SaveTypes, Editor
  <2> QED BY <2>2, <2>3 DEF Shown, MayHold
<1> QED BY <1>1, <1>2, <1>3, SaveInvariant, PTL DEF SaveSpec
=============================================================================
