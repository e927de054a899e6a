------------------------ MODULE GlobalCapacityProofs ------------------------
(***************************************************************************)
(* Proofs about GlobalCapacity.  Each runtime is looked at on its own      *)
(* first: its books, and then the claim behind them, cover what its engine *)
(* holds (Sound).  The ledger adds the entries up (Within).                *)
(***************************************************************************)
EXTENDS GlobalCapacity, SumLemmas

-----------------------------------------------------------------------------
(* The invariant *)

\* The memory a charge stands for.
Grains(own) == IF setup.exact THEN Grain * own ELSE own

\* The slots as they were before the load in flight.
Before(s, o) == IF o = None THEN s ELSE [s EXCEPT ![o.id] = o.prev]

\* What the engine was asked for.
Asked(o) == IF o # None /\ o.pc = "load" THEN {o.id} ELSE {}

Measures == [used : Nat, credit : [Models -> Nat]]

Credited(x) == {m \in Models : x.credit[m] > 0}

\* The aggregate proves the adopted models that are left, and all it credits.
Proven(x, A, R) == Memory((R \cap A) \cup Credited(x)) <= x.used

\* A slot that was not adopted is charged all of its model, or nothing, and
\* the models in L are charged.
Paid(s, A) == \A m \in Models \ A : s[m] > 0 => Own(Size[m]) <= s[m]
Booked(s, A, L) == \A m \in L \ A : s[m] > 0

\* The claim stands for the books, and the books for the engine.
Kept(c, s, x, A, U, R, L, asked) ==
  /\ Accounted(s, x, U) <= c
  /\ Proven(x, A, R)
  /\ Paid(s, A)
  /\ Booked(s, A, (R \cup L) \ asked)
  /\ L \subseteq U \ A

\* The load in flight: its own slot is charged by now, its victims count until
\* they are gone, and the claim pays for it as soon as it may be sent.
Flying(o, c, s, x, A, R) ==
  /\ o.charge = s[o.id]
  /\ o.id \notin A => Own(Size[o.id]) <= o.charge
  /\ o.victims \cap (A \cup {o.id}) = {}
  /\ x.credit[o.id] = 0 =>
       Charges(s, Models \ (o.victims \cup {o.id})) + Aggregate(x, s, {}) + o.charge <= c
  /\ o.pc = "verify" => o.id \in A
  /\ o.pc = "load" => /\ o.id \in A => o.id \in R
                      /\ Memory(R \cup {o.id}) <= Grains(c)
  /\ o.pc # "evict" =>
       /\ o.victims \cap R = {}
       /\ o.status = None => o.victims = {}
       /\ o.status # None =>
            /\ Memory(o.status.ids) <= o.status.used
            /\ R \subseteq o.status.ids \cup Asked(o)
            /\ R \cap A \subseteq o.status.ids

\* A runtime that was measured at start-up and takes commands, or did until
\* it was poisoned.
SoundBooks(p, c, s, o, x, A, U, R, L, lost) ==
  p \in {"up", "poisoned"} =>
    /\ lost = {}
    /\ Kept(c, Before(s, o), x, A, U, R, L, Asked(o))
    /\ o # None => U = {} /\ Flying(o, c, s, x, A, R)
    /\ p = "up" /\ o = None /\ U = {} => c = Accounted(s, x, {})

Sound(r) == SoundBooks(phase[r], claim[r], slots[r], op[r], measured[r], adopted[r],
                       unsure[r], resident[r], late[r], stray[r])

\* A runtime that takes no commands, and loads only what is not its own.
Asleep(r) ==
  /\ phase[r] \in {"starting", "refusing", "unknown"} =>
       op[r] = None /\ unsure[r] = {} /\ late[r] \subseteq stray[r]
  /\ phase[r] = "poisoned" => op[r] = None
  /\ phase[r] = "starting" => slots[r] = [m \in Models |-> 0]
  /\ phase[r] = "refusing" => Memory(MayHold(r)) <= Grains(claim[r])
  /\ phase[r] = "unknown" =>
       /\ Budget <= alloc[r]
       /\ breach # "budget" => Memory(MayHold(r)) <= Grain * alloc[r]
  /\ phase[r] = "untracked" => setup.killed /\ r \in Remote

Within == breach # "budget" => Reserved <= Budget + Tolerance

IInv == /\ TypeOK /\ OwnersAgree /\ Within
        /\ \A r \in Runtimes : Sound(r) /\ Asleep(r)
-----------------------------------------------------------------------------
(* Arithmetic of grains and units *)

LEMMA DivFact ==
  ASSUME NEW a \in Nat, NEW b \in Nat \ {0}
  PROVE  /\ a \div b \in Nat
         /\ b * (a \div b) <= a
         /\ a < b * (a \div b) + b
OBVIOUS

\* Rounding up never loses memory, and keeps the order of amounts.
LEMMA UnitsFact ==
  ASSUME NEW g \in Nat
  PROVE  Units(g) \in Nat /\ g <= Grain * Units(g)
<1>1. Grain \in Nat \ {0} /\ g + Grain - 1 \in Nat
  BY GlobalCapacityAssumption
<1>2. /\ Units(g) \in Nat
      /\ g + Grain - 1 < Grain * Units(g) + Grain
  BY <1>1, DivFact DEF Units
<1> QED
  <2> DEFINE k == Grain * Units(g)
  <2>1. k \in Nat
    BY <1>1, <1>2, MulMono
  <2>2. g + Grain - 1 < k + Grain
    BY <1>2
  <2> HIDE DEF k
  <2>3. g <= k
    BY <1>1, <2>1, <2>2
  <2> QED BY <1>2, <2>3 DEF k

LEMMA UnitsMono ==
  ASSUME NEW a \in Nat, NEW b \in Nat, a <= b
  PROVE  Units(a) <= Units(b)
<1>1. Grain \in Nat \ {0} /\ a + Grain - 1 \in Nat /\ b + Grain - 1 \in Nat
  BY GlobalCapacityAssumption
<1> DEFINE p == Units(a)
           q == Units(b)
<1>2. p \in Nat /\ q \in Nat /\ Grain * p <= a + Grain - 1 /\ b + Grain - 1 < Grain * q + Grain
  BY <1>1, DivFact DEF Units
<1> HIDE DEF p, q
<1>3. ASSUME q + 1 <= p PROVE FALSE
  <2>1. Grain * (q + 1) <= Grain * p
    BY <1>1, <1>2, <1>3, MulMono
  <2>2. Grain * (q + 1) = Grain * q + Grain
    BY <1>1, <1>2
  <2>3. Grain * q \in Nat /\ Grain * p \in Nat
    BY <1>1, <1>2, MulMono
  <2> QED BY <1>1, <1>2, <2>1, <2>2, <2>3
<1>4. p <= q
  BY <1>2, <1>3
<1> QED BY <1>4 DEF p, q

LEMMA OwnFact ==
  ASSUME setup \in Setups, NEW g \in Nat
  PROVE  Own(g) \in Nat /\ g <= Grains(Own(g)) /\ (g > 0 => Own(g) > 0)
<1>1. g > 0 => Units(g) # 0
  <2>1. Grain * 0 = 0
    BY GlobalCapacityAssumption
  <2> QED BY <2>1, UnitsFact
<1> QED BY <1>1, UnitsFact DEF Own, Grains

LEMMA OwnMono ==
  ASSUME setup \in Setups, NEW a \in Nat, NEW b \in Nat, a <= b
  PROVE  Own(a) <= Own(b)
BY UnitsMono DEF Own

LEMMA GrainsFact ==
  ASSUME setup \in Setups, NEW a \in Nat, NEW b \in Nat
  PROVE  /\ Grains(a) \in Nat
         /\ Grains(a + b) = Grains(a) + Grains(b)
         /\ a <= b => Grains(a) <= Grains(b)
<1>1. Grain \in Nat
  BY GlobalCapacityAssumption
<1>2. Grain * (a + b) = Grain * a + Grain * b
  BY <1>1
<1>3. Grain * a \in Nat /\ Grain * b \in Nat /\ (a <= b => Grain * a <= Grain * b)
  BY <1>1, MulMono
<1> QED BY <1>2, <1>3 DEF Grains

LEMMA EntryFact ==
  ASSUME setup \in Setups, NEW a \in Nat, NEW b \in Nat
  PROVE  /\ Entry(a) \in Nat
         /\ Grains(a) <= Grain * Entry(a)
         /\ a <= b => Entry(a) <= Entry(b)
<1>1. Grain * a \in Nat /\ Grain * a <= Grain * a
  BY GlobalCapacityAssumption, MulMono
<1> QED BY <1>1, UnitsFact, UnitsMono DEF Entry, Grains

-----------------------------------------------------------------------------
(* Sums of charges *)
LEMMA MemoryFact ==
  ASSUME NEW E \in SUBSET Models, NEW F \in SUBSET Models
  PROVE  /\ Memory(E) \in Nat
         /\ E \subseteq F => Memory(E) <= Memory(F)
         /\ Memory(E \cup F) <= Memory(E) + Memory(F)
<1>1. \A T \in SUBSET Models : Countable(Size, T) /\ Summable(Size, T)
  BY GlobalCapacityAssumption, FS_Subset DEF Countable, Summable
<1>2. \A T \in SUBSET Models : Memory(T) \in Nat
  BY <1>1, SumNat DEF Memory
<1>3. E \subseteq F => Memory(E) <= Memory(F)
  BY <1>1, SumSubset DEF Memory
<1>4. Memory(E \cup F) <= Memory(E) + Memory(F)
  <2>1. E \cup (F \ E) = E \cup F /\ E \cap (F \ E) = {} /\ F \ E \in SUBSET Models
    OBVIOUS
  <2>2. Memory(E \cup F) = Memory(E) + Memory(F \ E)
    BY <1>1, <2>1, SumUnion DEF Memory
  <2>3. Memory(F \ E) <= Memory(F)
    BY <1>1, SumSubset DEF Memory
  <2> QED BY <1>2, <2>1, <2>2, <2>3
<1> QED BY <1>2, <1>3, <1>4

LEMMA ChargesFact ==
  ASSUME NEW s \in [Models -> Nat], NEW E \in SUBSET Models, NEW F \in SUBSET E
  PROVE  /\ Charges(s, E) \in Nat /\ Charges(s, F) \in Nat
         /\ Charges(s, F) <= Charges(s, E)
         /\ Charges(s, E) = Charges(s, F) + Charges(s, E \ F)
<1>1. Countable(s, E) /\ Countable(s, F)
  BY GlobalCapacityAssumption, FS_Subset DEF Countable
<1> QED BY <1>1, SumNat, SumSubset DEF Charges

\* Slots that each cover their model cover them together.
LEMMA SlotsCover ==
  ASSUME setup \in Setups, NEW s \in [Models -> Nat], NEW T \in SUBSET Models,
         \A m \in T : Own(Size[m]) <= s[m]
  PROVE  Memory(T) <= Grains(Charges(s, T))
<1>1. Countable(s, T) /\ Countable(Size, T) /\ IsFiniteSet(T)
  BY GlobalCapacityAssumption, FS_Subset DEF Countable
<1>2. \A m \in T : Size[m] \in Nat /\ s[m] \in Nat /\ Grains(s[m]) \in Nat /\ Size[m] <= Grains(s[m])
  <2> SUFFICES ASSUME NEW m \in T
               PROVE  Size[m] \in Nat /\ s[m] \in Nat /\ Grains(s[m]) \in Nat
                      /\ Size[m] <= Grains(s[m])
    OBVIOUS
  <2>1. Size[m] \in Nat /\ s[m] \in Nat
    BY GlobalCapacityAssumption
  <2>2. Own(Size[m]) \in Nat /\ Size[m] <= Grains(Own(Size[m]))
    BY <2>1, OwnFact
  <2>3. /\ Grains(Own(Size[m])) \in Nat /\ Grains(s[m]) \in Nat
        /\ Grains(Own(Size[m])) <= Grains(s[m])
    BY <2>1, <2>2, GrainsFact
  <2> QED BY <2>1, <2>2, <2>3
<1> DEFINE h == [m \in T |-> Grains(s[m])]
<1>3. SumFunctionOnSet(Size, T) <= SumFunctionOnSet(h, T)
  <2>1. Summable(Size, T) /\ Summable(h, T) /\ \A m \in T : Size[m] <= h[m]
    BY <1>1, <1>2 DEF Summable
  <2> HIDE DEF h
  <2> QED BY <2>1, SumMono
<1>4. SumFunctionOnSet(h, T) = Grains(SumFunctionOnSet(s, T))
  <2>1. CASE setup.exact
    <3>1. h = [m \in T |-> Grain * s[m]]
      BY <2>1 DEF Grains
    <3> HIDE DEF h
    <3>2. Grain \in Nat
      BY GlobalCapacityAssumption
    <3>3. SumFunctionOnSet(h, T) = Grain * SumFunctionOnSet(s, T)
      BY <1>1, <3>1, <3>2, SumScale
    <3> QED BY <2>1, <3>3 DEF Grains
  <2>2. CASE ~setup.exact
    <3>1. Summable(s, T) /\ \A m \in T : s[m] = h[m]
      BY <1>1, <2>2 DEF Grains, Summable, Countable
    <3> HIDE DEF h
    <3>2. SumFunctionOnSet(s, T) = SumFunctionOnSet(h, T)
      BY <3>1, SumSame
    <3> QED BY <2>2, <3>2 DEF Grains
  <2> QED BY <2>1, <2>2
<1> QED BY <1>3, <1>4 DEF Memory, Charges

LEMMA AggregateFact ==
  ASSUME setup \in Setups, NEW s \in [Models -> Nat], NEW x \in Measures, NEW D
  PROVE  /\ Aggregate(x, s, D) \in Nat
         /\ Accounted(s, x, D) \in Nat
         /\ Accounted(s, x, D) = Charges(s, Models) + Aggregate(x, s, D)
<1> DEFINE u == [m \in Models |-> Smaller(s[m], x.credit[m])]
<1>1. u \in [Models -> Nat]
  BY DEF Smaller, Measures
<1>2. Charges(u, Models \ D) \in Nat
  <2> HIDE DEF u
  <2> QED BY <1>1, ChargesFact
<1>3. Own(x.used) \in Nat
  BY OwnFact DEF Measures
<1>4. Aggregate(x, s, D) \in Nat
  BY <1>2, <1>3 DEF Aggregate, AtLeast0, Larger
<1>5. Charges(s, Models) \in Nat
  BY ChargesFact
<1> QED BY <1>4, <1>5 DEF Accounted

\* What the aggregate does not prove is paid for by its slots.
LEMMA Cover ==
  ASSUME setup \in Setups, NEW s \in [Models -> Nat], NEW x \in Measures, NEW D,
         NEW A \in SUBSET Models, NEW E \in SUBSET Models,
         Proven(x, A, E),
         \A m \in E \ A : Own(Size[m]) <= s[m] \/ x.credit[m] > 0
  PROVE  Memory(E) <= Grains(Accounted(s, x, D))
<1> DEFINE C == (E \cap A) \cup Credited(x)
           T == E \ C
           u == [m \in Models |-> Smaller(s[m], x.credit[m])]
           v == [m \in Models |-> IF m \in D THEN 0 ELSE u[m]]
           w == [m \in Models |-> IF m \in T THEN s[m] ELSE 0]
           z == [m \in Models |-> v[m] + w[m]]
<1>1. C \in SUBSET Models /\ T \in SUBSET Models /\ E \subseteq C \cup T /\ C \cup T \in SUBSET Models
  BY DEF Credited
<1>2. /\ u \in [Models -> Nat] /\ v \in [Models -> Nat] /\ w \in [Models -> Nat]
      /\ z \in [Models -> Nat]
      /\ \A m \in Models : z[m] <= s[m]
  <2>1. \A m \in Models : s[m] \in Nat /\ x.credit[m] \in Nat
    BY DEF Measures
  <2>2. \A m \in T : x.credit[m] = 0
    BY <2>1 DEF Credited
  <2>3. \A m \in Models : u[m] \in Nat /\ u[m] <= s[m] /\ (m \in T => u[m] = 0)
    BY <2>1, <2>2 DEF Smaller
  <2> HIDE DEF u, T
  <2>4. \A m \in Models : v[m] \in Nat /\ w[m] \in Nat /\ v[m] + w[m] <= s[m]
    BY <2>1, <2>3
  <2>5. u \in [Models -> Nat]
    BY <2>3 DEF u
  <2> QED BY <2>4, <2>5
<1>3. /\ Summable(v, Models) /\ Summable(w, Models) /\ Summable(z, Models) /\ Summable(s, Models)
      /\ Summable(u, Models \ D) /\ Summable(s, T) /\ IsFiniteSet(Models)
  BY <1>1, <1>2, GlobalCapacityAssumption, FS_Subset, FS_Difference DEF Summable
<1>4. SumFunctionOnSet(z, Models) = SumFunctionOnSet(v, Models) + SumFunctionOnSet(w, Models)
  <2>1. \A m \in Models : z[m] = v[m] + w[m]
    OBVIOUS
  <2> HIDE DEF v, w, z
  <2> QED BY <1>3, <2>1, SumPlus
<1>5. SumFunctionOnSet(v, Models) = SumFunctionOnSet(u, Models \ D)
  <2>1. /\ \A m \in Models \ D : v[m] = u[m]
        /\ \A m \in Models \ (Models \ D) : v[m] = 0
    OBVIOUS
  <2> HIDE DEF u, v
  <2> QED BY <1>3, <2>1, SumRestrict
<1>6. SumFunctionOnSet(w, Models) = SumFunctionOnSet(s, T)
  <2>1. /\ \A m \in T : w[m] = s[m]
        /\ \A m \in Models \ T : w[m] = 0
    BY <1>1
  <2> HIDE DEF w, T
  <2> QED BY <1>1, <1>3, <2>1, SumRestrict
<1>7. SumFunctionOnSet(z, Models) <= SumFunctionOnSet(s, Models)
  <2> HIDE DEF z
  <2> QED BY <1>2, <1>3, SumMono
<1>8. Charges(u, Models \ D) + Charges(s, T) <= Charges(s, Models)
  <2>1. SumFunctionOnSet(v, Models) + SumFunctionOnSet(w, Models) <= SumFunctionOnSet(s, Models)
    BY <1>4, <1>7
  <2> QED BY <1>5, <1>6, <2>1 DEF Charges
<1>9. Charges(u, Models \ D) \in Nat /\ Charges(s, T) \in Nat /\ Charges(s, Models) \in Nat
  <2> HIDE DEF u, T
  <2> QED BY <1>1, <1>2, ChargesFact
<1>10. x.used \in Nat /\ Own(x.used) \in Nat /\ x.used <= Grains(Own(x.used))
  BY OwnFact DEF Measures
<1>11. Own(x.used) + Charges(s, T) <= Accounted(s, x, D)
  <2>1. Aggregate(x, s, D) >= Own(x.used) - Charges(u, Models \ D)
    BY <1>9, <1>10 DEF Aggregate, AtLeast0, Larger
  <2>2. Accounted(s, x, D) = Charges(s, Models) + Aggregate(x, s, D) /\ Aggregate(x, s, D) \in Nat
    BY AggregateFact
  <2> HIDE DEF u, T
  <2> QED BY <1>8, <1>9, <1>10, <2>1, <2>2
<1>12. Memory(T) <= Grains(Charges(s, T))
  <2>1. \A m \in T : m \in E \ A /\ ~(x.credit[m] > 0)
    BY DEF Credited
  <2>2. \A m \in T : Own(Size[m]) <= s[m]
    BY <2>1
  <2> HIDE DEF T
  <2> QED BY <1>1, <2>2, SlotsCover
<1>13. Memory(C) <= x.used
  BY DEF Proven
<1>14. Memory(E) <= Memory(C) + Memory(T) /\ Memory(C) \in Nat /\ Memory(T) \in Nat /\ Memory(E) \in Nat
  <2> HIDE DEF C, T
  <2>1. Memory(E) <= Memory(C \cup T) /\ Memory(C \cup T) <= Memory(C) + Memory(T)
    BY <1>1, MemoryFact
  <2>2. Memory(C) \in Nat /\ Memory(T) \in Nat /\ Memory(E) \in Nat /\ Memory(C \cup T) \in Nat
    BY <1>1, MemoryFact
  <2> QED BY <2>1, <2>2
<1>15. /\ Grains(Own(x.used)) \in Nat /\ Grains(Charges(s, T)) \in Nat
       /\ Grains(Own(x.used) + Charges(s, T)) = Grains(Own(x.used)) + Grains(Charges(s, T))
       /\ Grains(Own(x.used) + Charges(s, T)) <= Grains(Accounted(s, x, D))
       /\ Grains(Accounted(s, x, D)) \in Nat
  <2>1. Accounted(s, x, D) \in Nat
    BY AggregateFact
  <2> DEFINE a == Own(x.used)
             b == Charges(s, T)
             c == Accounted(s, x, D)
  <2>2. a \in Nat /\ b \in Nat /\ c \in Nat /\ a + b <= c /\ a + b \in Nat
    BY <1>9, <1>10, <1>11, <2>1
  <2> HIDE DEF a, b, c
  <2>3. Grains(a) \in Nat /\ Grains(b) \in Nat /\ Grains(c) \in Nat
        /\ Grains(a + b) = Grains(a) + Grains(b) /\ Grains(a + b) <= Grains(c)
    BY <2>2, GrainsFact
  <2> QED BY <2>3 DEF a, b, c
<1> HIDE DEF C, T
<1> QED BY <1>10, <1>12, <1>13, <1>14, <1>15
-----------------------------------------------------------------------------
(* A load in flight *)

LEMMA GrainsMono ==
  ASSUME setup \in Setups, NEW a \in Nat, NEW b \in Nat, a <= b
  PROVE  Grains(a) \in Nat /\ Grains(b) \in Nat /\ Grains(a) <= Grains(b)
BY GrainsFact

LEMMA OneModel ==
  ASSUME setup \in Setups, NEW m \in Models
  PROVE  /\ Size[m] \in Nat /\ Memory({m}) = Size[m]
         /\ Own(Size[m]) \in Nat /\ Own(Size[m]) > 0
<1>1. Size[m] \in Nat /\ Size[m] > 0
  BY GlobalCapacityAssumption
<1>2. SumFunctionOnSet(Size, {m}) = Size[m] + SumFunctionOnSet(Size, {m} \ {m})
  <2>1. Summable(Size, {m}) /\ m \in {m}
    BY <1>1, FS_Singleton DEF Summable
  <2> QED BY ONLY <2>1, SumSplit
<1>3. SumFunctionOnSet(Size, {m} \ {m}) = 0
  <2>1. {m} \ {m} = {}
    OBVIOUS
  <2> QED BY <2>1, SumEmpty
<1> QED BY <1>1, <1>2, <1>3, OwnFact DEF Memory

LEMMA BeforeFact ==
  ASSUME NEW s \in [Models -> Nat], NEW o \in Operation
  PROVE  /\ o # None
         /\ Before(s, o) = [s EXCEPT ![o.id] = o.prev]
         /\ Before(s, o) \in [Models -> Nat]
         /\ Before(s, o)[o.id] = o.prev
         /\ \A m \in Models \ {o.id} : Before(s, o)[m] = s[m]
BY NoneAssumption DEF Before, Operation

\* Before a load is sent the claim covers the engine with the model in it: by
\* its old charge, by a credit in the aggregate, or by the plan.
LEMMA Sendable ==
  ASSUME setup \in Setups, NEW c \in Nat, NEW s \in [Models -> Nat], NEW x \in Measures,
         NEW A \in SUBSET Models, NEW R \in SUBSET Models, NEW o \in Operation,
         Accounted(Before(s, o), x, {}) <= c, Proven(x, A, R),
         Paid(Before(s, o), A), Booked(Before(s, o), A, R),
         o.charge = s[o.id], o.id \notin A, Own(Size[o.id]) <= o.charge,
         x.credit[o.id] = 0 =>
           Charges(s, Models \ (o.victims \cup {o.id})) + Aggregate(x, s, {}) + o.charge <= c,
         \/ o.victims = {}
         \/ \E used \in Nat :
              /\ Memory(R) <= used
              /\ Own(used) <= Charges(s, Models \ (o.victims \cup {o.id}))
                              + Aggregate(x, s, {}) + o.prev
  PROVE  Memory(R \cup {o.id}) <= Grains(c)
<1> DEFINE E == R \cup {o.id}
           b == Before(s, o)
<1>1. /\ o.id \in Models /\ o.charge \in Nat /\ o.prev \in Nat /\ o.victims \in SUBSET Models
      /\ x.used \in Nat /\ x.credit[o.id] \in Nat
  BY DEF Operation, Measures
<1>2. /\ b \in [Models -> Nat] /\ b[o.id] = o.prev
      /\ \A m \in Models \ {o.id} : b[m] = s[m]
  BY BeforeFact
<1>3. E \in SUBSET Models /\ Proven(x, A, E) /\ E \ A = (R \ A) \cup {o.id}
  <2>1. E \cap A = R \cap A
    OBVIOUS
  <2>2. Proven(x, A, E)
    BY <2>1 DEF Proven
  <2> QED BY <1>1, <2>2
<1>4. \A m \in R \ A : b[m] > 0 /\ Own(Size[m]) <= b[m]
  BY DEF Booked, Paid
<1>5. CASE o.prev > 0 \/ x.credit[o.id] > 0
  <2>1. \A m \in E \ A : Own(Size[m]) <= b[m] \/ x.credit[m] > 0
    BY <1>1, <1>2, <1>3, <1>4, <1>5 DEF Paid
  <2>2. Memory(E) <= Grains(Accounted(b, x, {}))
    <3> HIDE DEF b, E
    <3> QED BY <1>2, <1>3, <2>1, Cover
  <2>3. Accounted(b, x, {}) \in Nat
    <3> HIDE DEF b
    <3> QED BY <1>2, AggregateFact
  <2>4. Grains(Accounted(b, x, {})) \in Nat /\ Grains(c) \in Nat
        /\ Grains(Accounted(b, x, {})) <= Grains(c)
    BY <2>3, GrainsMono
  <2>5. Memory(E) \in Nat
    <3> HIDE DEF E
    <3> QED BY <1>3, MemoryFact
  <2> QED BY <2>2, <2>4, <2>5
<1>6. CASE o.prev = 0 /\ x.credit[o.id] = 0 /\ o.victims = {}
  <2>1. Charges(s, Models) = s[o.id] + Charges(s, Models \ {o.id})
    <3>1. Summable(s, Models)
      BY GlobalCapacityAssumption DEF Summable
    <3> QED BY <1>1, <3>1, SumSplit DEF Charges
  <2>2. /\ Accounted(s, x, {}) \in Nat /\ Aggregate(x, s, {}) \in Nat
        /\ Accounted(s, x, {}) = Charges(s, Models) + Aggregate(x, s, {})
    BY AggregateFact
  <2>3. o.victims \cup {o.id} = {o.id}
    BY <1>6
  <2>4. Charges(s, Models \ {o.id}) \in Nat
    BY ChargesFact
  <2>5. Accounted(s, x, {}) <= c
    BY <1>1, <1>6, <2>1, <2>2, <2>3, <2>4
  <2>6. \A m \in E \ A : Own(Size[m]) <= s[m]
    BY <1>1, <1>2, <1>3, <1>4
  <2>7. Memory(E) <= Grains(Accounted(s, x, {}))
    <3> HIDE DEF E
    <3> QED BY <1>3, <2>6, Cover
  <2>8. Grains(Accounted(s, x, {})) \in Nat /\ Grains(c) \in Nat
        /\ Grains(Accounted(s, x, {})) <= Grains(c)
    BY <2>2, <2>5, GrainsMono
  <2>9. Memory(E) \in Nat
    <3> HIDE DEF E
    <3> QED BY <1>3, MemoryFact
  <2> QED BY <2>7, <2>8, <2>9
<1>7. CASE o.prev = 0 /\ x.credit[o.id] = 0 /\ o.victims # {}
  <2>1. PICK used \in Nat :
              /\ Memory(R) <= used
              /\ Own(used) <= Charges(s, Models \ (o.victims \cup {o.id}))
                              + Aggregate(x, s, {}) + o.prev
    BY <1>7
  <2>2. Own(used) \in Nat /\ used <= Grains(Own(used))
    BY OwnFact
  <2>3. Charges(s, Models \ (o.victims \cup {o.id})) \in Nat /\ Aggregate(x, s, {}) \in Nat
    BY ChargesFact, AggregateFact
  <2>4. Own(used) + o.charge <= c
    BY <1>1, <1>7, <2>1, <2>2, <2>3
  <2>5. /\ Size[o.id] \in Nat /\ Memory({o.id}) = Size[o.id] /\ Own(Size[o.id]) \in Nat
    BY <1>1, OneModel
  <2>6. Size[o.id] <= Grains(Own(Size[o.id]))
    BY <2>5, OwnFact
  <2>7. Grains(Own(Size[o.id])) \in Nat /\ Grains(Own(Size[o.id])) <= Grains(o.charge)
    BY <1>1, <2>5, GrainsMono
  <2>8. /\ Grains(Own(used)) \in Nat /\ Grains(o.charge) \in Nat
        /\ Grains(Own(used) + o.charge) = Grains(Own(used)) + Grains(o.charge)
    BY <1>1, <2>2, GrainsFact
  <2>9. Grains(Own(used) + o.charge) \in Nat /\ Grains(c) \in Nat
        /\ Grains(Own(used) + o.charge) <= Grains(c)
    <3>1. Own(used) + o.charge \in Nat
      BY <1>1, <2>2
    <3> QED BY <2>4, <3>1, GrainsMono
  <2>10. /\ Memory(R \cup {o.id}) \in Nat /\ Memory(R) \in Nat
         /\ Memory(R \cup {o.id}) <= Memory(R) + Memory({o.id})
    BY <1>1, MemoryFact
  <2> QED BY <2>1, <2>2, <2>5, <2>6, <2>7, <2>8, <2>9, <2>10
<1> QED BY <1>1, <1>5, <1>6, <1>7
-----------------------------------------------------------------------------
(* The ledger *)

LEMMA BudgetFact ==
  ASSUME setup \in Setups
  PROVE  /\ Budget \in Nat /\ Tolerance \in Nat /\ Usable \in Nat
         /\ setup.budget \in Nat /\ setup.exact \in BOOLEAN
<1>1. setup.budget \in Nat /\ setup.headroom \in Nat /\ setup.exact \in BOOLEAN
      /\ Grain \in Nat \ {0} /\ Epsilon \in Nat
  BY GlobalCapacityAssumption
<1>2. Budget \in Nat
  BY <1>1, DivFact DEF Budget
<1> QED BY <1>1, <1>2 DEF Tolerance, Usable, AtLeast0, Larger

\* All entries but one, and that one.
LEMMA ReservedFact ==
  ASSUME TypeOK, NEW r \in Runtimes
  PROVE  /\ Reserved \in Nat /\ ReservedExcept({r}) \in Nat
         /\ r \in DOMAIN alloc => Reserved = ReservedExcept({r}) + alloc[r]
         /\ r \notin DOMAIN alloc => Reserved = ReservedExcept({r})
<1>1. /\ Countable(alloc, DOMAIN alloc) /\ Summable(alloc, DOMAIN alloc)
      /\ Countable(alloc, DOMAIN alloc \ {r})
  BY GlobalCapacityAssumption, FS_Subset DEF TypeOK, Countable, Summable
<1>2. DOMAIN alloc \ {} = DOMAIN alloc /\ (r \notin DOMAIN alloc => DOMAIN alloc \ {r} = DOMAIN alloc)
  OBVIOUS
<1>3. Reserved \in Nat /\ ReservedExcept({r}) \in Nat
  BY <1>1, <1>2, SumNat DEF Reserved, ReservedExcept
<1>4. r \in DOMAIN alloc => Reserved = ReservedExcept({r}) + alloc[r]
  <2> SUFFICES ASSUME r \in DOMAIN alloc PROVE Reserved = ReservedExcept({r}) + alloc[r]
    OBVIOUS
  <2>1. SumFunctionOnSet(alloc, DOMAIN alloc) = alloc[r] + SumFunctionOnSet(alloc, DOMAIN alloc \ {r})
    BY ONLY <1>1, r \in DOMAIN alloc, SumSplit
  <2>2. alloc[r] \in Nat
    BY DEF TypeOK
  <2>3. Reserved = alloc[r] + ReservedExcept({r})
    BY <1>2, <2>1 DEF Reserved, ReservedExcept
  <2> QED BY <1>3, <2>2, <2>3
<1>5. r \notin DOMAIN alloc => Reserved = ReservedExcept({r})
  BY <1>2 DEF Reserved, ReservedExcept
<1> QED BY <1>3, <1>4, <1>5

\* A step that sets the entry of r.
Replaced(r, e) ==
  /\ DOMAIN alloc' = DOMAIN alloc \cup {r}
  /\ alloc'[r] = e
  /\ \A y \in DOMAIN alloc \ {r} : alloc'[y] = alloc[y]

LEMMA ReplacedFact ==
  ASSUME TypeOK, NEW r \in Runtimes, NEW e \in Nat, Replaced(r, e)
  PROVE  /\ DOMAIN alloc' \subseteq Runtimes /\ \A y \in DOMAIN alloc' : alloc'[y] \in Nat
         /\ Reserved' = ReservedExcept({r}) + e
<1>1. DOMAIN alloc' \subseteq Runtimes /\ \A y \in DOMAIN alloc' : alloc'[y] \in Nat
  BY DEF TypeOK, Replaced
<1> DEFINE a == alloc'
           S == DOMAIN alloc'
<1>2. Summable(a, S) /\ Summable(a, S \ {r}) /\ r \in S
  BY <1>1, GlobalCapacityAssumption, FS_Subset DEF Summable, Replaced
<1>3. Summable(alloc, DOMAIN alloc \ {r})
  BY GlobalCapacityAssumption, FS_Subset DEF Summable, TypeOK
<1>4. S \ {r} = DOMAIN alloc \ {r} /\ \A y \in S \ {r} : alloc[y] = a[y]
  BY DEF Replaced
<1>5. a[r] = e
  BY DEF Replaced
<1>6. SumFunctionOnSet(a, S) = e + SumFunctionOnSet(alloc, DOMAIN alloc \ {r})
  <2> HIDE DEF a, S
  <2>1. SumFunctionOnSet(a, S) = a[r] + SumFunctionOnSet(a, S \ {r})
    BY ONLY <1>2, SumSplit
  <2>2. SumFunctionOnSet(alloc, S \ {r}) = SumFunctionOnSet(a, S \ {r})
    <3>1. Summable(alloc, S \ {r}) /\ \A y \in S \ {r} : alloc[y] = a[y]
      BY <1>3, <1>4
    <3> QED BY ONLY <3>1, SumSame
  <2> QED BY <1>4, <1>5, <2>1, <2>2
<1>7. Reserved' = SumFunctionOnSet(a, S)
  <2>1. S \ {} = S
    OBVIOUS
  <2> QED BY <2>1 DEF Reserved, ReservedExcept
<1>8. ReservedExcept({r}) \in Nat
  BY ReservedFact
<1>9. Reserved' = ReservedExcept({r}) + e
  <2>1. SumFunctionOnSet(alloc, DOMAIN alloc \ {r}) = ReservedExcept({r})
    BY DEF ReservedExcept
  <2> QED BY <1>6, <1>7, <1>8, <2>1
<1> QED BY <1>1, <1>9

LEMMA RecordReplaces ==
  ASSUME TypeOK, OwnersAgree, NEW r \in DOMAIN alloc, NEW own \in Nat, Record(r, own), setup' = setup
  PROVE  /\ Replaced(r, Entry(own))
         /\ claim' = [claim EXCEPT ![r] = own]
         /\ claim' \in [Runtimes -> Nat] /\ claim'[r] = own
         /\ \A y \in Runtimes \ {r} : claim'[y] = claim[y]
         /\ DOMAIN alloc' = DOMAIN alloc
         /\ \A y \in DOMAIN alloc' : alloc'[y] = Entry(claim[y])'
<1>1. /\ r \in Runtimes /\ DOMAIN alloc' = DOMAIN alloc /\ alloc'[r] = Entry(own)
      /\ \A y \in DOMAIN alloc \ {r} : alloc'[y] = alloc[y]
  BY DEF Record, TypeOK
<1>2. /\ claim' = [claim EXCEPT ![r] = own] /\ claim' \in [Runtimes -> Nat] /\ claim'[r] = own
      /\ \A y \in Runtimes \ {r} : claim'[y] = claim[y]
  BY <1>1 DEF Record, TypeOK
<1>3. \A y \in DOMAIN alloc : alloc[y] = Entry(claim[y])
  BY DEF OwnersAgree
<1>4. ASSUME NEW y \in DOMAIN alloc
      PROVE  alloc'[y] = Entry(claim[y])'
  <2>1. y \in Runtimes
    BY DEF TypeOK
  <2>2. Entry(claim[y])' = Entry(claim'[y])
    BY DEF Entry, Units
  <2> QED BY <1>1, <1>2, <1>3, <2>1, <2>2
<1> QED BY <1>1, <1>2, <1>4 DEF Replaced

Phases == {"starting", "up", "refusing", "unknown", "untracked", "poisoned"}
LedgerTypes ==
  /\ phase \in [Runtimes -> Phases]
  /\ DOMAIN alloc \subseteq Runtimes /\ \A y \in DOMAIN alloc : alloc[y] \in Nat
  /\ claim \in [Runtimes -> Nat]
  /\ breach \in {"none", "headroom", "budget"}

LEMMA WorseFact ==
  ASSUME setup \in Setups, breach \in {"none", "headroom", "budget"}, NEW total \in Nat
  PROVE  /\ Worse(total) \in {"none", "headroom", "budget"}
         /\ Worse(total) # "budget" => breach # "budget" /\ total <= Budget
BY BudgetFact DEF Worse

\* What a settlement leaves of the ledger.
LEMMA SettleFact ==
  ASSUME TypeOK, OwnersAgree, Within, NEW r \in Runtimes, NEW s \in [Models -> Nat],
         NEW x \in Measures, NEW d, Settle(r, s, x, d), setup' = setup
  PROVE  /\ LedgerTypes' /\ OwnersAgree' /\ Within'
         /\ breach' # "budget" => breach # "budget"
         /\ \A y \in Runtimes \ {r} : phase'[y] = phase[y] /\ claim'[y] = claim[y]
         /\ \A y \in DOMAIN alloc \ {r} : alloc'[y] = alloc[y]
         /\ phase'[r] = phase[r] \/ (r \in DOMAIN alloc /\ phase'[r] = "poisoned")
         /\ r \in DOMAIN alloc =>
              /\ Accounted(s, x, d) <= claim'[r]
              /\ d = {} => claim'[r] = Accounted(s, x, d)
<1> DEFINE now == Accounted(s, x, d)
           over == now > claim[r]
           total == ReservedExcept({r}) + Entry(now)
<1>1. /\ now \in Nat /\ setup \in Setups /\ claim[r] \in Nat
      /\ phase \in [Runtimes -> Phases] /\ claim \in [Runtimes -> Nat]
      /\ breach \in {"none", "headroom", "budget"}
  BY AggregateFact DEF TypeOK, Phases
<1>2. Entry(now) \in Nat /\ ReservedExcept({r}) \in Nat /\ Reserved \in Nat
  <2> HIDE DEF now
  <2> QED BY <1>1, EntryFact, ReservedFact
<1>3. Budget \in Nat /\ Tolerance \in Nat /\ Budget' = Budget /\ Tolerance' = Tolerance
  BY <1>1, BudgetFact DEF Budget, Tolerance
<1>4. CASE r \notin DOMAIN alloc
  <2>1. alloc' = alloc /\ claim' = claim /\ phase' = phase /\ breach' = breach
    BY <1>4 DEF Settle, Tracked, ledger
  <2>2. LedgerTypes'
    BY <1>1, <2>1 DEF LedgerTypes, TypeOK
  <2>3. OwnersAgree'
    BY <2>1 DEF OwnersAgree, Entry, Units
  <2>4. Within'
    <3>1. Reserved' = Reserved
      BY <2>1 DEF Reserved, ReservedExcept
    <3> QED BY <1>3, <2>1, <3>1 DEF Within
  <2> QED BY <1>4, <2>1, <2>2, <2>3, <2>4
<1>5. CASE r \in DOMAIN alloc
  <2>1. /\ IF over \/ d = {} THEN Record(r, now) ELSE UNCHANGED ledger
        /\ phase' = IF over /\ d = {} THEN [phase EXCEPT ![r] = "poisoned"] ELSE phase
        /\ breach' = IF over THEN Worse(total) ELSE breach
    BY <1>5 DEF Settle, Tracked
  <2>2. /\ phase' \in [Runtimes -> Phases]
        /\ phase'[r] = phase[r] \/ phase'[r] = "poisoned"
        /\ \A y \in Runtimes \ {r} : phase'[y] = phase[y]
    BY <1>1, <2>1 DEF Phases
  <2>3. total \in Nat
    BY <1>2
  <2>4. /\ breach' \in {"none", "headroom", "budget"}
        /\ breach' # "budget" => breach # "budget" /\ (over => total <= Budget)
    <3> HIDE DEF total, over
    <3> QED BY <1>1, <2>1, <2>3, WorseFact
  <2>5. alloc[r] = Entry(claim[r]) /\ Reserved = ReservedExcept({r}) + alloc[r]
    BY <1>5, ReservedFact DEF OwnersAgree
  <2>6. DOMAIN alloc = {y \in Runtimes : phase'[y] \notin {"starting", "untracked"}}
    BY <1>1, <1>5, <2>1 DEF OwnersAgree
  <2>7. CASE over \/ d = {}
    <3>1. Record(r, now)
      BY <2>1, <2>7
    <3>2. /\ Replaced(r, Entry(now)) /\ claim' \in [Runtimes -> Nat] /\ claim'[r] = now
          /\ \A y \in Runtimes \ {r} : claim'[y] = claim[y]
          /\ DOMAIN alloc' = DOMAIN alloc
          /\ \A y \in DOMAIN alloc' : alloc'[y] = Entry(claim[y])'
      <4> HIDE DEF now
      <4> QED BY <1>1, <1>5, <3>1, RecordReplaces
    <3>3. /\ DOMAIN alloc' \subseteq Runtimes /\ \A y \in DOMAIN alloc' : alloc'[y] \in Nat
          /\ Reserved' = total
      <4> HIDE DEF now
      <4> QED BY <1>2, <3>2, ReplacedFact
    <3>4. Within'
      <4>1. CASE over
        BY <1>3, <2>3, <2>4, <3>3, <4>1 DEF Within
      <4>2. CASE ~over
        <5>1. now <= claim[r] /\ breach' = breach
          BY <1>1, <2>1, <4>2
        <5>2. Entry(now) <= Entry(claim[r])
          <6> HIDE DEF now
          <6> QED BY <1>1, <5>1, EntryFact
        <5>3. Entry(claim[r]) \in Nat
          BY <1>1, EntryFact
        <5>4. Reserved' <= Reserved
          <6> HIDE DEF now
          <6> QED BY <1>2, <2>5, <3>3, <5>2, <5>3
        <5>5. Reserved' \in Nat
          BY <2>3, <3>3
        <5> QED
          <6> HIDE DEF now, over
          <6> QED BY <1>2, <1>3, <5>1, <5>4, <5>5 DEF Within
      <4> QED BY <4>1, <4>2
    <3>5. OwnersAgree'
      BY <2>6, <3>2 DEF OwnersAgree
    <3>6. LedgerTypes'
      BY <2>2, <2>4, <3>2, <3>3 DEF LedgerTypes
    <3>7. \A y \in DOMAIN alloc \ {r} : alloc'[y] = alloc[y]
      BY <3>2 DEF Replaced
    <3> HIDE DEF over
    <3> QED BY <1>1, <1>5, <2>2, <2>4, <3>2, <3>4, <3>5, <3>6, <3>7
  <2>8. CASE ~(over \/ d = {})
    <3>1. alloc' = alloc /\ claim' = claim /\ phase' = phase /\ breach' = breach
      BY <2>1, <2>8 DEF ledger
    <3>2. LedgerTypes'
      BY <1>1, <3>1 DEF LedgerTypes, TypeOK
    <3>3. OwnersAgree'
      BY <3>1 DEF OwnersAgree, Entry, Units
    <3>4. Within'
      <4>1. Reserved' = Reserved
        BY <3>1 DEF Reserved, ReservedExcept
      <4> QED BY <1>3, <3>1, <4>1 DEF Within
    <3>5. now <= claim'[r]
      BY <1>1, <2>8, <3>1
    <3> QED BY <1>5, <2>8, <3>1, <3>2, <3>3, <3>4, <3>5
  <2> QED BY <2>7, <2>8
<1> QED BY <1>4, <1>5
-----------------------------------------------------------------------------
(* What a step leaves alone *)

\* The books of a runtime mean the same after a step: only the configuration
\* is read besides them.
LEMMA SoundAfter ==
  ASSUME NEW r, setup' = setup
  PROVE  Sound(r)' <=> SoundBooks(phase'[r], claim'[r], slots'[r], op'[r], measured'[r],
                                  adopted'[r], unsure'[r], resident'[r], late'[r], stray'[r])
BY DEF Sound, SoundBooks, Kept, Flying, Accounted, Aggregate, Own, Units, Grains, Charges,
       Proven, Paid, Booked, Before, Asked, AtLeast0, Larger, Smaller, Memory, Credited

Same(y) ==
  /\ phase'[y] = phase[y] /\ claim'[y] = claim[y]
  /\ slots'[y] = slots[y] /\ measured'[y] = measured[y] /\ adopted'[y] = adopted[y]
  /\ unsure'[y] = unsure[y] /\ op'[y] = op[y] /\ resident'[y] = resident[y]
  /\ late'[y] = late[y] /\ stray'[y] = stray[y]

LEMMA SoundSame ==
  ASSUME NEW y, setup' = setup, Same(y), Sound(y)
  PROVE  Sound(y)'
BY SoundAfter DEF Same, Sound

LEMMA AsleepSame ==
  ASSUME TypeOK, OwnersAgree, NEW y \in Runtimes, setup' = setup, Same(y), Asleep(y),
         breach' # "budget" => breach # "budget",
         y \in DOMAIN alloc => alloc'[y] = alloc[y]
  PROVE  Asleep(y)'
<1>1. MayHold(y)' = MayHold(y)
  BY DEF MayHold, Sent, Same
<1>2. Memory(MayHold(y))' = Memory(MayHold(y))
  BY <1>1 DEF Memory
<1>3. Grains(claim[y])' = Grains(claim[y]) /\ Budget' = Budget
  BY DEF Grains, Budget, Same
<1>4. phase[y] = "unknown" => y \in DOMAIN alloc
  BY DEF OwnersAgree
<1> QED BY <1>2, <1>3, <1>4 DEF Asleep, Same
OtherTypes ==
  /\ setup \in Setups /\ restarts \in Nat
  /\ slots \in [Runtimes -> [Models -> Nat]]
  /\ measured \in [Runtimes -> Measures]
  /\ op \in [Runtimes -> Operation \cup {None}]
  /\ {adopted, unsure, resident, late, stray, granted} \subseteq [Runtimes -> SUBSET Models]
  /\ extra \in [Runtimes -> Nat]

LEMMA TypesSplit == TypeOK => LedgerTypes /\ OtherTypes
BY DEF TypeOK, LedgerTypes, OtherTypes, Phases, Measures

LEMMA TypesJoin == LedgerTypes' /\ OtherTypes' => TypeOK'
BY DEF TypeOK, LedgerTypes, OtherTypes, Phases, Measures

\* A step of one runtime.
Alone(r) ==
  /\ \A y \in Runtimes \ {r} : Same(y)
  /\ \A y \in DOMAIN alloc \ {r} : alloc'[y] = alloc[y]
  /\ breach' # "budget" => breach # "budget"

LEMMA AloneKeeps ==
  ASSUME IInv, NEW r \in Runtimes, setup' = setup, Alone(r),
         TypeOK', OwnersAgree', Within', Sound(r)', Asleep(r)'
  PROVE  IInv'
<1>1. ASSUME NEW y \in Runtimes, y # r
      PROVE  Sound(y)' /\ Asleep(y)'
  <2>1. /\ Same(y) /\ (y \in DOMAIN alloc => alloc'[y] = alloc[y])
        /\ breach' # "budget" => breach # "budget"
    BY <1>1 DEF Alone
  <2>2. TypeOK /\ OwnersAgree /\ Sound(y) /\ Asleep(y)
    BY DEF IInv
  <2>3. Sound(y)'
    BY <2>1, <2>2, SoundSame
  <2>4. Asleep(y)'
    BY <2>1, <2>2, AsleepSame
  <2> QED BY <2>3, <2>4
<1> QED BY <1>1 DEF IInv

\* The ledger is as it was.
LEMMA QuietLedger ==
  ASSUME TypeOK, OwnersAgree, Within, UNCHANGED <<setup, phase, alloc, claim, breach>>
  PROVE  LedgerTypes' /\ OwnersAgree' /\ Within'
<1>1. LedgerTypes'
  BY TypesSplit DEF LedgerTypes
<1>2. OwnersAgree'
  BY DEF OwnersAgree, Entry, Units
<1>3. Within'
  BY DEF Within, Reserved, ReservedExcept, Budget, Tolerance
<1> QED BY <1>1, <1>2, <1>3

\* The end of an operation: new books that cover the engine, and a settlement.
LEMMA FinishStep ==
  ASSUME IInv, NEW r \in Runtimes, NEW s \in [Models -> Nat], NEW x \in Measures,
         NEW d \in SUBSET Models, NEW g \in SUBSET Models, Finish(r, s, x, d, g),
         setup' = setup, restarts' = restarts, stray' = stray, extra' = extra,
         {adopted', resident', late'} \subseteq [Runtimes -> SUBSET Models],
         \A y \in Runtimes \ {r} : /\ adopted'[y] = adopted[y] /\ resident'[y] = resident[y]
                                   /\ late'[y] = late[y],
         phase[r] \in {"up", "poisoned", "untracked"},
         phase[r] \in {"up", "poisoned"} =>
           /\ Proven(x, adopted'[r], resident'[r])
           /\ Paid(s, adopted'[r])
           /\ Booked(s, adopted'[r], resident'[r] \cup late'[r])
           /\ late'[r] \subseteq d \ adopted'[r]
  PROVE  IInv'
<1>1. TypeOK /\ OwnersAgree /\ Within /\ Sound(r) /\ Asleep(r)
  BY DEF IInv
<1>2. OtherTypes /\ LedgerTypes
  BY <1>1, TypesSplit
<1>3. /\ slots' = [slots EXCEPT ![r] = s] /\ measured' = [measured EXCEPT ![r] = x]
      /\ unsure' = [unsure EXCEPT ![r] = d] /\ op' = [op EXCEPT ![r] = None]
      /\ granted' = [granted EXCEPT ![r] = {m \in g : s[m] > 0}]
      /\ Settle(r, s, x, d)
  BY DEF Finish
<1>4. /\ slots'[r] = s /\ measured'[r] = x /\ unsure'[r] = d /\ op'[r] = None
      /\ \A y \in Runtimes \ {r} : /\ slots'[y] = slots[y] /\ measured'[y] = measured[y]
                                   /\ unsure'[y] = unsure[y] /\ op'[y] = op[y]
  BY <1>2, <1>3 DEF OtherTypes
<1>5. OtherTypes'
  BY <1>2, <1>3 DEF OtherTypes
<1>6. /\ LedgerTypes' /\ OwnersAgree' /\ Within'
      /\ breach' # "budget" => breach # "budget"
      /\ \A y \in Runtimes \ {r} : phase'[y] = phase[y] /\ claim'[y] = claim[y]
      /\ \A y \in DOMAIN alloc \ {r} : alloc'[y] = alloc[y]
      /\ phase'[r] = phase[r] \/ (r \in DOMAIN alloc /\ phase'[r] = "poisoned")
      /\ r \in DOMAIN alloc =>
           /\ Accounted(s, x, d) <= claim'[r]
           /\ d = {} => claim'[r] = Accounted(s, x, d)
  BY <1>1, <1>3, SettleFact
<1>7. TypeOK'
  BY <1>5, <1>6, TypesJoin
<1>8. Alone(r)
  BY <1>4, <1>6 DEF Alone, Same
<1>9. r \in DOMAIN alloc <=> phase[r] \notin {"starting", "untracked"}
  BY <1>1 DEF OwnersAgree
<1>10. Sound(r)'
  <2> SUFFICES ASSUME phase'[r] \in {"up", "poisoned"}
               PROVE  /\ stray'[r] = {}
                      /\ Kept(claim'[r], Before(slots'[r], op'[r]), measured'[r], adopted'[r],
                              unsure'[r], resident'[r], late'[r], Asked(op'[r]))
                      /\ unsure'[r] = {} => claim'[r] = Accounted(slots'[r], measured'[r], {})
    BY <1>4, SoundAfter DEF SoundBooks
  <2>1. phase[r] \in {"up", "poisoned"} /\ r \in DOMAIN alloc
    BY <1>6, <1>9
  <2>2. stray'[r] = {}
    BY <1>1, <2>1 DEF Sound, SoundBooks
  <2>3. Before(slots'[r], op'[r]) = s /\ Asked(op'[r]) = {}
    BY <1>4 DEF Before, Asked
  <2>4. (resident'[r] \cup late'[r]) \ {} = resident'[r] \cup late'[r]
    OBVIOUS
  <2>5. Kept(claim'[r], s, x, adopted'[r], d, resident'[r], late'[r], {})
    BY <1>6, <2>1, <2>4 DEF Kept
  <2> QED BY <1>4, <1>6, <2>1, <2>2, <2>3, <2>5
<1>11. Asleep(r)'
  <2>1. phase'[r] = "untracked" => phase[r] = "untracked"
    BY <1>6
  <2>2. phase'[r] \in {"up", "poisoned", "untracked"}
    BY <1>6
  <2>3. phase'[r] = "untracked" => setup'.killed /\ r \in Remote
    BY <1>1, <2>1 DEF Asleep
  <2>4. op'[r] = None
    BY <1>4
  <2> QED BY <2>2, <2>3, <2>4 DEF Asleep
<1> QED BY <1>1, <1>6, <1>7, <1>8, <1>10, <1>11, AloneKeeps
-----------------------------------------------------------------------------
(* The ends of a load *)

\* What is known of the runtime a load is in flight on.
InFlight(r) ==
  LET o == op[r] IN
  /\ o \in Operation /\ o # None
  /\ phase[r] \in {"up", "untracked"}
  /\ slots[r] \in [Models -> Nat] /\ measured[r] \in Measures
  /\ {adopted[r], unsure[r], resident[r], late[r], granted[r]} \subseteq SUBSET Models
  /\ phase[r] = "up" =>
       /\ stray[r] = {} /\ unsure[r] = {} /\ late[r] = {}
       /\ Accounted(Before(slots[r], o), measured[r], {}) <= claim[r]
       /\ Proven(measured[r], adopted[r], resident[r])
       /\ Paid(Before(slots[r], o), adopted[r])
       /\ Booked(Before(slots[r], o), adopted[r], resident[r] \ Asked(o))
       /\ Flying(o, claim[r], slots[r], measured[r], adopted[r], resident[r])

LEMMA InFlightFact ==
  ASSUME IInv, NEW r \in Runtimes, op[r] # None
  PROVE  InFlight(r)
<1>1. TypeOK /\ Sound(r) /\ Asleep(r)
  BY DEF IInv
<1>2. /\ op[r] \in Operation /\ phase[r] \in {"up", "untracked"}
      /\ slots[r] \in [Models -> Nat] /\ measured[r] \in Measures
      /\ {adopted[r], unsure[r], resident[r], late[r], granted[r]} \subseteq SUBSET Models
  BY <1>1 DEF TypeOK, Asleep, Measures
<1>3. ASSUME phase[r] = "up"
      PROVE  /\ stray[r] = {} /\ unsure[r] = {} /\ late[r] = {}
             /\ Accounted(Before(slots[r], op[r]), measured[r], {}) <= claim[r]
             /\ Proven(measured[r], adopted[r], resident[r])
             /\ Paid(Before(slots[r], op[r]), adopted[r])
             /\ Booked(Before(slots[r], op[r]), adopted[r], resident[r] \ Asked(op[r]))
             /\ Flying(op[r], claim[r], slots[r], measured[r], adopted[r], resident[r])
  <2>1. /\ stray[r] = {} /\ unsure[r] = {}
        /\ Kept(claim[r], Before(slots[r], op[r]), measured[r], adopted[r], unsure[r],
                resident[r], late[r], Asked(op[r]))
        /\ Flying(op[r], claim[r], slots[r], measured[r], adopted[r], resident[r])
    BY <1>1, <1>3 DEF Sound, SoundBooks
  <2>2. late[r] = {}
    BY <2>1 DEF Kept
  <2>3. (resident[r] \cup late[r]) \ Asked(op[r]) = resident[r] \ Asked(op[r])
    BY <2>2
  <2> QED BY <2>1, <2>2, <2>3 DEF Kept
<1> QED BY <1>2, <1>3 DEF InFlight

LEMMA RefreshedFact ==
  ASSUME NEW s \in [Models -> Nat], NEW status \in Status, NEW D, NEW i, NEW credit \in Nat
  PROVE  /\ Refreshed(status, s, D, i, credit) \in Measures
         /\ Refreshed(status, s, D, i, credit).used = status.used
         /\ Credited(Refreshed(status, s, D, i, credit)) \subseteq status.ids
BY DEF Refreshed, Measures, Credited, Status

LEMMA ProvenFact ==
  ASSUME NEW x \in Measures, NEW A \in SUBSET Models, NEW R \in SUBSET Models,
         NEW T \in SUBSET Models, (R \cap A) \cup Credited(x) \subseteq T, Memory(T) <= x.used
  PROVE  Proven(x, A, R)
<1> DEFINE C == (R \cap A) \cup Credited(x)
<1>1. C \in SUBSET Models /\ C \subseteq T
  BY DEF Credited
<1>2. Memory(C) \in Nat /\ Memory(T) \in Nat /\ Memory(C) <= Memory(T) /\ x.used \in Nat
  <2> HIDE DEF C
  <2> QED BY <1>1, MemoryFact DEF Measures
<1>3. Memory(C) <= x.used
  <2> HIDE DEF C
  <2> QED BY <1>2
<1> QED BY <1>3 DEF Proven

\* Models that left the engine take nothing from the proof.
LEMMA ProvenLess ==
  ASSUME NEW x \in Measures, NEW A \in SUBSET Models, NEW R \in SUBSET Models,
         Proven(x, A, R), NEW A2 \in SUBSET Models, NEW R2 \in SUBSET Models,
         R2 \cap A2 \subseteq R \cap A
  PROVE  Proven(x, A2, R2)
<1> DEFINE T == (R \cap A) \cup Credited(x)
<1>1. T \in SUBSET Models /\ (R2 \cap A2) \cup Credited(x) \subseteq T /\ Memory(T) <= x.used
  BY DEF Credited, Proven
<1> HIDE DEF T
<1> QED BY <1>1, ProvenFact

\* The aggregate a load ends with.
LEMMA MeasuredFact ==
  ASSUME NEW r \in Runtimes, InFlight(r), NEW s \in [Models -> Nat], op[r].pc # "evict"
  PROVE  /\ Measured(r, s, op[r].status) \in Measures
         /\ phase[r] = "up" => Proven(Measured(r, s, op[r].status), adopted[r], resident[r])
<1> DEFINE o == op[r]
           x == Measured(r, s, o.status)
<1>1. /\ o \in Operation /\ measured[r] \in Measures
      /\ adopted[r] \in SUBSET Models /\ resident[r] \in SUBSET Models
  BY DEF InFlight
<1>2. CASE o.status = None
  BY <1>1, <1>2 DEF Measured, InFlight
<1>3. CASE o.status # None
  <2>1. o.status \in Status /\ o.prev \in Nat
    BY <1>1, <1>3 DEF Operation
  <2>2. x = Refreshed(o.status, s, unsure[r], o.id, o.prev)
    BY <1>3 DEF Measured
  <2>3. x \in Measures /\ x.used = o.status.used /\ Credited(x) \subseteq o.status.ids
    <3> HIDE DEF x
    <3> QED BY <2>1, <2>2, RefreshedFact
  <2>4. ASSUME phase[r] = "up" PROVE Proven(x, adopted[r], resident[r])
    <3>1. Memory(o.status.ids) <= o.status.used /\ resident[r] \cap adopted[r] \subseteq o.status.ids
      BY <1>3, <2>4 DEF InFlight, Flying
    <3>2. o.status.ids \in SUBSET Models
      BY <2>1 DEF Status
    <3>3. (resident[r] \cap adopted[r]) \cup Credited(x) \subseteq o.status.ids
      BY <2>3, <3>1
    <3> HIDE DEF x, o
    <3> QED BY <1>1, <2>3, <3>1, <3>2, <3>3, ProvenFact
  <2> HIDE DEF x
  <2> QED BY <2>3, <2>4 DEF x
<1> QED BY <1>2, <1>3

LEMMA GrantedType ==
  ASSUME NEW r \in Runtimes, InFlight(r)
  PROVE  Granted(r) \in SUBSET Models /\ GrantedBehind(r) \in SUBSET Models
BY DEF InFlight, Operation, Granted, GrantedBehind

LEMMA LoadDoneKeeps ==
  ASSUME IInv, NEW r \in Runtimes, LoadDone(r)
  PROVE  IInv'
<1> DEFINE o == op[r]
           s == Without(slots[r], o.victims)
           x == Measured(r, s, o.status)
           g == granted[r]
<1>1. /\ o # None /\ o.pc = "load" /\ o.id \in resident[r]
      /\ Finish(r, s, x, unsure[r], g)
      /\ setup' = setup /\ restarts' = restarts /\ stray' = stray /\ extra' = extra
      /\ adopted' = adopted /\ resident' = resident /\ late' = late
  BY DEF LoadDone, Sent, config, engine
<1>2. InFlight(r)
  BY <1>1, InFlightFact
<1>3. /\ o \in Operation /\ o.id \in Models /\ o.victims \in SUBSET Models
      /\ s \in [Models -> Nat] /\ unsure[r] \in SUBSET Models /\ g \in SUBSET Models
      /\ phase[r] \in {"up", "untracked"}
  BY <1>2 DEF InFlight, Operation, Without
<1>4. x \in Measures /\ (phase[r] = "up" => Proven(x, adopted[r], resident[r]))
  <2> HIDE DEF s
  <2> QED BY <1>1, <1>2, <1>3, MeasuredFact
<1>5. ASSUME phase[r] = "up"
      PROVE  Paid(s, adopted[r]) /\ Booked(s, adopted[r], resident[r] \cup late[r])
             /\ late[r] \subseteq unsure[r] \ adopted[r]
  <2>1. /\ late[r] = {} /\ Paid(Before(slots[r], o), adopted[r])
        /\ Booked(Before(slots[r], o), adopted[r], resident[r] \ Asked(o))
        /\ o.charge = slots[r][o.id]
        /\ o.id \notin adopted[r] => Own(Size[o.id]) <= o.charge
        /\ o.victims \cap (adopted[r] \cup {o.id}) = {}
        /\ o.victims \cap resident[r] = {}
    BY <1>1, <1>2, <1>5 DEF InFlight, Flying
  <2>2. Asked(o) = {o.id}
    BY <1>1 DEF Asked
  <2>3. \A m \in Models \ {o.id} : Before(slots[r], o)[m] = slots[r][m]
    BY <1>2, <1>3, BeforeFact DEF InFlight
  <2>4. Own(Size[o.id]) \in Nat /\ Own(Size[o.id]) > 0 /\ slots[r][o.id] \in Nat
    BY <1>2, <1>3, OneModel DEF InFlight, IInv, TypeOK
  <2>5. \A m \in Models : s[m] = IF m \in o.victims THEN 0 ELSE slots[r][m]
    BY DEF Without
  <2> HIDE DEF s
  <2>6. Paid(s, adopted[r])
    BY <2>1, <2>3, <2>5 DEF Paid
  <2>7. Booked(s, adopted[r], resident[r] \cup late[r])
    <3> SUFFICES ASSUME NEW m \in resident[r] \ adopted[r] PROVE s[m] > 0
      BY <2>1 DEF Booked
    <3>0. m \in Models /\ m \notin o.victims
      BY <1>2, <2>1 DEF InFlight
    <3>1. CASE m = o.id
      BY <2>1, <2>4, <2>5, <3>0, <3>1
    <3>2. CASE m # o.id
      BY <2>1, <2>2, <2>3, <2>5, <3>0, <3>2 DEF Booked
    <3> QED BY <3>1, <3>2
  <2> QED BY <2>1, <2>6, <2>7
<1>6. {adopted', resident', late'} \subseteq [Runtimes -> SUBSET Models]
  BY <1>1 DEF IInv, TypeOK
<1> HIDE DEF s, x, g, o
<1> QED BY <1>1, <1>3, <1>4, <1>5, <1>6, FinishStep
LEMMA LoadRejectedKeeps ==
  ASSUME IInv, NEW r \in Runtimes, LoadRejected(r)
  PROVE  IInv'
<1> DEFINE o == op[r]
           s == [Without(slots[r], o.victims) EXCEPT ![o.id] = o.prev]
           x == Measured(r, s, o.status)
           g == granted[r]
<1>1. /\ o # None /\ o.pc \in {"verify", "load"}
      /\ o.id \in resident[r] => o.prev > 0 \/ o.id \in adopted[r]
      /\ Finish(r, s, x, unsure[r], g)
      /\ setup' = setup /\ restarts' = restarts /\ stray' = stray /\ extra' = extra
      /\ adopted' = adopted /\ resident' = resident /\ late' = late
  BY DEF LoadRejected, config, engine
<1>2. InFlight(r)
  BY <1>1, InFlightFact
<1>3. /\ o \in Operation /\ o.id \in Models /\ o.victims \in SUBSET Models /\ o.prev \in Nat
      /\ s \in [Models -> Nat] /\ unsure[r] \in SUBSET Models /\ g \in SUBSET Models
      /\ phase[r] \in {"up", "untracked"}
  BY <1>2 DEF InFlight, Operation, Without
<1>4. x \in Measures /\ (phase[r] = "up" => Proven(x, adopted[r], resident[r]))
  <2> HIDE DEF s
  <2> QED BY <1>1, <1>2, <1>3, MeasuredFact
<1>5. ASSUME phase[r] = "up"
      PROVE  Paid(s, adopted[r]) /\ Booked(s, adopted[r], resident[r] \cup late[r])
             /\ late[r] \subseteq unsure[r] \ adopted[r]
  <2>1. /\ late[r] = {} /\ Paid(Before(slots[r], o), adopted[r])
        /\ Booked(Before(slots[r], o), adopted[r], resident[r] \ Asked(o))
        /\ o.victims \cap (adopted[r] \cup {o.id}) = {}
        /\ o.victims \cap resident[r] = {}
    BY <1>1, <1>2, <1>5 DEF InFlight, Flying
  <2>2. Asked(o) \subseteq {o.id}
    BY DEF Asked
  <2>3. /\ \A m \in Models \ {o.id} : Before(slots[r], o)[m] = slots[r][m]
        /\ Before(slots[r], o)[o.id] = o.prev
    BY <1>2, <1>3, BeforeFact DEF InFlight
  <2>4. /\ s[o.id] = o.prev
        /\ \A m \in Models \ {o.id} : s[m] = IF m \in o.victims THEN 0 ELSE slots[r][m]
    BY <1>3 DEF Without
  <2> HIDE DEF s
  <2>5. Paid(s, adopted[r])
    BY <2>1, <2>3, <2>4 DEF Paid
  <2>6. Booked(s, adopted[r], resident[r] \cup late[r])
    <3> SUFFICES ASSUME NEW m \in resident[r] \ adopted[r] PROVE s[m] > 0
      BY <2>1 DEF Booked
    <3>0. m \in Models /\ m \notin o.victims
      BY <1>2, <2>1 DEF InFlight
    <3>1. CASE m = o.id
      BY <1>1, <1>3, <2>4, <3>1
    <3>2. CASE m # o.id
      BY <2>1, <2>2, <2>3, <2>4, <3>0, <3>2 DEF Booked
    <3> QED BY <3>1, <3>2
  <2> QED BY <2>1, <2>5, <2>6
<1>6. {adopted', resident', late'} \subseteq [Runtimes -> SUBSET Models]
  BY <1>1 DEF IInv, TypeOK
<1> HIDE DEF s, x, g, o
<1> QED BY <1>1, <1>3, <1>4, <1>5, <1>6, FinishStep

LEMMA LoadUnconfirmedKeeps ==
  ASSUME IInv, NEW r \in Runtimes, LoadUnconfirmed(r)
  PROVE  IInv'
<1> DEFINE o == op[r]
           w == Without(slots[r], o.victims)
           s == [w EXCEPT ![o.id] = Larger(w[o.id], o.prev)]
           x == Measured(r, s, o.status)
           d == unsure[r] \cup {o.id}
           g == GrantedBehind(r)
<1>1. /\ o # None /\ o.pc = "load"
      /\ Finish(r, s, x, d, g)
      /\ setup' = setup /\ restarts' = restarts /\ stray' = stray /\ extra' = extra
      /\ adopted' = adopted /\ resident' = resident
      /\ late' = [late EXCEPT ![r] = late[r] \cup ({o.id} \ resident[r])]
  <2>1. (IF Pending(r) THEN {o.id} ELSE {}) = {o.id} \ resident[r]
    BY DEF LoadUnconfirmed, Pending
  <2> QED BY <2>1 DEF LoadUnconfirmed, LeftBehind, Sent, config
<1>2. InFlight(r)
  BY <1>1, InFlightFact
<1>3. /\ o \in Operation /\ o.id \in Models /\ o.victims \in SUBSET Models /\ o.prev \in Nat
      /\ w \in [Models -> Nat] /\ unsure[r] \in SUBSET Models /\ g \in SUBSET Models
      /\ d \in SUBSET Models /\ slots[r] \in [Models -> Nat]
      /\ phase[r] \in {"up", "untracked"}
  BY <1>2, GrantedType DEF InFlight, Operation, Without
<1>4. /\ s \in [Models -> Nat]
      /\ s[o.id] = Larger(w[o.id], o.prev)
      /\ \A m \in Models \ {o.id} : s[m] = w[m]
  <2> HIDE DEF w
  <2> QED BY <1>3 DEF Larger
<1>5. x \in Measures /\ (phase[r] = "up" => Proven(x, adopted[r], resident[r]))
  <2> HIDE DEF s
  <2> QED BY <1>1, <1>2, <1>4, MeasuredFact
<1>6. {adopted', resident', late'} \subseteq [Runtimes -> SUBSET Models]
      /\ late'[r] = late[r] \cup ({o.id} \ resident[r])
      /\ \A y \in Runtimes \ {r} : late'[y] = late[y]
  BY <1>1, <1>3 DEF IInv, TypeOK
<1>7. ASSUME phase[r] = "up"
      PROVE  Paid(s, adopted[r]) /\ Booked(s, adopted[r], resident[r] \cup late'[r])
             /\ late'[r] \subseteq d \ adopted[r]
  <2>1. /\ late[r] = {} /\ Paid(Before(slots[r], o), adopted[r])
        /\ Booked(Before(slots[r], o), adopted[r], resident[r] \ Asked(o))
        /\ o.charge = slots[r][o.id]
        /\ o.id \notin adopted[r] => Own(Size[o.id]) <= o.charge
        /\ o.id \in adopted[r] => o.id \in resident[r]
        /\ o.victims \cap (adopted[r] \cup {o.id}) = {}
        /\ o.victims \cap resident[r] = {}
    BY <1>1, <1>2, <1>7 DEF InFlight, Flying
  <2>2. Asked(o) = {o.id}
    BY <1>1 DEF Asked
  <2>3. \A m \in Models \ {o.id} : Before(slots[r], o)[m] = slots[r][m]
    BY <1>2, <1>3, BeforeFact DEF InFlight
  <2>4. Own(Size[o.id]) \in Nat /\ Own(Size[o.id]) > 0 /\ slots[r][o.id] \in Nat
    BY <1>2, <1>3, OneModel DEF InFlight, IInv, TypeOK
  <2>5. \A m \in Models : w[m] = IF m \in o.victims THEN 0 ELSE slots[r][m]
    BY DEF Without
  <2>6. s[o.id] >= slots[r][o.id] /\ s[o.id] \in Nat
    <3>1. w[o.id] = slots[r][o.id]
      BY <1>3, <2>1, <2>5
    <3> HIDE DEF w, s
    <3> QED BY <1>3, <1>4, <2>4, <3>1 DEF Larger
  <2> HIDE DEF s, w
  <2>7. Paid(s, adopted[r])
    <3> SUFFICES ASSUME NEW m \in Models \ adopted[r], s[m] > 0 PROVE Own(Size[m]) <= s[m]
      BY DEF Paid
    <3>1. CASE m = o.id
      BY <2>1, <2>4, <2>6, <3>1
    <3>2. CASE m # o.id
      BY <1>4, <2>1, <2>3, <2>5, <3>2 DEF Paid
    <3> QED BY <3>1, <3>2
  <2>8. Booked(s, adopted[r], resident[r] \cup late'[r])
    <3> SUFFICES ASSUME NEW m \in (resident[r] \cup late'[r]) \ adopted[r] PROVE s[m] > 0
      BY DEF Booked
    <3>0. m # o.id => m \in resident[r] /\ m \in Models /\ m \notin o.victims
      BY <1>2, <1>6, <2>1 DEF InFlight
    <3>1. CASE m = o.id
      BY <2>1, <2>4, <2>6, <3>1
    <3>2. CASE m # o.id
      BY <1>4, <2>1, <2>2, <2>3, <2>5, <3>0, <3>2 DEF Booked
    <3> QED BY <3>1, <3>2
  <2>9. late'[r] \subseteq d \ adopted[r]
    BY <1>6, <2>1
  <2> QED BY <2>7, <2>8, <2>9
<1>8. \A y \in Runtimes \ {r} : adopted'[y] = adopted[y] /\ resident'[y] = resident[y]
                                /\ late'[y] = late[y]
  BY <1>1, <1>6
<1>9. /\ phase[r] \in {"up", "poisoned", "untracked"}
      /\ phase[r] \in {"up", "poisoned"} =>
           /\ Proven(x, adopted'[r], resident'[r]) /\ Paid(s, adopted'[r])
           /\ Booked(s, adopted'[r], resident'[r] \cup late'[r])
           /\ late'[r] \subseteq d \ adopted'[r]
  <2> HIDE DEF s, x, d
  <2> QED BY <1>1, <1>3, <1>5, <1>7
<1> HIDE DEF s, x, g, o, d
<1> QED BY <1>1, <1>3, <1>4, <1>5, <1>6, <1>8, <1>9, FinishStep

LEMMA LoadPanickedKeeps ==
  ASSUME IInv, NEW r \in Runtimes, LoadPanicked(r)
  PROVE  IInv'
<1> DEFINE o == op[r]
           s == [slots[r] EXCEPT ![o.id] = Larger(slots[r][o.id], o.prev)]
           x == measured[r]
           d == unsure[r] \cup {o.id}
           g == GrantedBehind(r)
           new == IF Sent(r) THEN {o.id} \ resident[r] ELSE {}
<1>0. PICK gone : /\ gone \in SUBSET (IF o.pc = "evict" THEN o.victims ELSE {})
                  /\ resident' = [resident EXCEPT ![r] = resident[r] \ gone]
  BY DEF LoadPanicked
<1>1. /\ o # None /\ Finish(r, s, x, d, g)
      /\ setup' = setup /\ restarts' = restarts /\ stray' = stray /\ extra' = extra
      /\ adopted' = adopted
      /\ late' = [late EXCEPT ![r] = late[r] \cup new]
  <2>1. (IF Pending(r) THEN {o.id} ELSE {}) = new
    BY DEF Pending
  <2> QED BY <2>1 DEF LoadPanicked, LeftBehind, config
<1>2. InFlight(r)
  BY <1>1, InFlightFact
<1>3. /\ o \in Operation /\ o.id \in Models /\ o.victims \in SUBSET Models /\ o.prev \in Nat
      /\ unsure[r] \in SUBSET Models /\ g \in SUBSET Models /\ x \in Measures
      /\ d \in SUBSET Models /\ slots[r] \in [Models -> Nat] /\ new \in SUBSET {o.id}
      /\ adopted[r] \in SUBSET Models /\ resident[r] \in SUBSET Models
      /\ phase[r] \in {"up", "untracked"}
  BY <1>2, GrantedType DEF InFlight, Operation, Without
<1>4. /\ s \in [Models -> Nat]
      /\ s[o.id] = Larger(slots[r][o.id], o.prev)
      /\ \A m \in Models \ {o.id} : s[m] = slots[r][m]
  BY <1>3 DEF Larger
<1>5. /\ {adopted', resident', late'} \subseteq [Runtimes -> SUBSET Models]
      /\ late'[r] = late[r] \cup new
      /\ resident'[r] \in SUBSET resident[r]
      /\ \A y \in Runtimes \ {r} : /\ adopted'[y] = adopted[y] /\ resident'[y] = resident[y]
                                   /\ late'[y] = late[y]
  <2> HIDE DEF new
  <2> QED BY <1>0, <1>1, <1>3 DEF IInv, TypeOK
<1>6. ASSUME phase[r] = "up"
      PROVE  /\ Proven(x, adopted[r], resident'[r])
             /\ Paid(s, adopted[r]) /\ Booked(s, adopted[r], resident'[r] \cup late'[r])
             /\ late'[r] \subseteq d \ adopted[r]
  <2>1. /\ late[r] = {} /\ Paid(Before(slots[r], o), adopted[r])
        /\ Proven(x, adopted[r], resident[r])
        /\ Booked(Before(slots[r], o), adopted[r], resident[r] \ Asked(o))
        /\ o.charge = slots[r][o.id]
        /\ o.id \notin adopted[r] => Own(Size[o.id]) <= o.charge
        /\ o.pc = "load" => (o.id \in adopted[r] => o.id \in resident[r])
    BY <1>1, <1>2, <1>6 DEF InFlight, Flying
  <2>2. Asked(o) = IF Sent(r) THEN {o.id} ELSE {}
    BY DEF Asked, Sent
  <2>3. /\ \A m \in Models \ {o.id} : Before(slots[r], o)[m] = slots[r][m]
        /\ Before(slots[r], o)[o.id] = o.prev
    BY <1>3, BeforeFact
  <2>4. Own(Size[o.id]) \in Nat /\ Own(Size[o.id]) > 0 /\ slots[r][o.id] \in Nat
    BY <1>3, OneModel DEF IInv, TypeOK
  <2>5. s[o.id] >= slots[r][o.id] /\ s[o.id] >= o.prev /\ s[o.id] \in Nat
    <3> HIDE DEF s
    <3> QED BY <1>3, <1>4, <2>4 DEF Larger
  <2> HIDE DEF s
  <2>6. Paid(s, adopted[r])
    <3> SUFFICES ASSUME NEW m \in Models \ adopted[r], s[m] > 0 PROVE Own(Size[m]) <= s[m]
      BY DEF Paid
    <3>1. CASE m = o.id
      BY <2>1, <2>4, <2>5, <3>1
    <3>2. CASE m # o.id
      BY <1>4, <2>1, <2>3, <3>2 DEF Paid
    <3> QED BY <3>1, <3>2
  <2>7. Booked(s, adopted[r], resident'[r] \cup late'[r])
    <3> SUFFICES ASSUME NEW m \in (resident'[r] \cup late'[r]) \ adopted[r] PROVE s[m] > 0
      BY DEF Booked
    <3>0. m # o.id => m \in resident[r] /\ m \in Models
      BY <1>3, <1>5, <2>1
    <3>1. CASE m = o.id
      BY <2>1, <2>4, <2>5, <3>1
    <3>2. CASE m # o.id
      BY <1>4, <2>1, <2>2, <2>3, <3>0, <3>2 DEF Booked
    <3> QED BY <3>1, <3>2
  <2>8. late'[r] \subseteq d \ adopted[r]
    BY <1>5, <2>1 DEF Sent
  <2>9. Proven(x, adopted[r], resident'[r])
    <3>1. resident'[r] \in SUBSET Models /\ resident'[r] \cap adopted[r] \subseteq resident[r] \cap adopted[r]
      BY <1>3, <1>5
    <3> HIDE DEF x
    <3> QED BY <1>3, <2>1, <3>1, ProvenLess
  <2> QED BY <2>6, <2>7, <2>8, <2>9
<1>7. /\ phase[r] \in {"up", "poisoned", "untracked"}
      /\ phase[r] \in {"up", "poisoned"} =>
           /\ Proven(x, adopted'[r], resident'[r]) /\ Paid(s, adopted'[r])
           /\ Booked(s, adopted'[r], resident'[r] \cup late'[r])
           /\ late'[r] \subseteq d \ adopted'[r]
  <2> HIDE DEF s, x, d
  <2> QED BY <1>1, <1>3, <1>6
<1> HIDE DEF s, x, g, o, d, new
<1> QED BY <1>1, <1>3, <1>4, <1>5, <1>7, FinishStep
-----------------------------------------------------------------------------
(* The steps of a load that end nothing *)

\* A step of one runtime that leaves the ledger and its own books alone.
LEMMA QuietStep ==
  ASSUME IInv, NEW r \in Runtimes, Alone(r),
         UNCHANGED <<setup, phase, alloc, claim, breach>>, OtherTypes', Sound(r)', Asleep(r)'
  PROVE  IInv'
<1>1. TypeOK /\ OwnersAgree /\ Within
  BY DEF IInv
<1>2. LedgerTypes' /\ OwnersAgree' /\ Within'
  BY <1>1, QuietLedger
<1>3. TypeOK'
  BY <1>2, TypesJoin
<1> QED BY <1>2, <1>3, AloneKeeps

\* What the engine holds when some of its models left.
StatusOf(R, e) == [ids |-> R, used |-> Memory(R) + e]

LEMMA StatusFact ==
  ASSUME NEW R \in SUBSET Models, NEW e \in Nat
  PROVE  /\ StatusOf(R, e) \in Status
         /\ StatusOf(R, e).ids = R
         /\ StatusOf(R, e).used \in Nat
         /\ Memory(R) <= StatusOf(R, e).used
<1>1. Memory(R) \in Nat
  BY MemoryFact
<1> QED BY <1>1 DEF StatusOf, Status

\* A load is given up during the eviction: the books of before come back,
\* without the victims that were given up.
LEMMA GiveUp ==
  ASSUME IInv, NEW r \in Runtimes, op[r] # None, op[r].pc = "evict",
         NEW freed \in SUBSET op[r].victims, NEW x \in Measures,
         NEW s, s = Without([slots[r] EXCEPT ![op[r].id] = op[r].prev], freed),
         Finish(r, s, x, unsure[r], granted[r]),
         setup' = setup, restarts' = restarts, stray' = stray, extra' = extra,
         adopted' = adopted, late' = late,
         NEW R \in SUBSET resident[r], resident' = [resident EXCEPT ![r] = R],
         R \cap freed = {}, phase[r] = "up" => Proven(x, adopted[r], R)
  PROVE  IInv'
<1> DEFINE o == op[r]
<1>1. InFlight(r)
  BY InFlightFact
<1>2. /\ o \in Operation /\ o # None /\ o.id \in Models /\ o.victims \in SUBSET Models
      /\ o.prev \in Nat /\ slots[r] \in [Models -> Nat]
      /\ unsure[r] \in SUBSET Models /\ granted[r] \in SUBSET Models
      /\ resident[r] \in SUBSET Models /\ phase[r] \in {"up", "untracked"}
  BY <1>1 DEF InFlight, Operation
<1>3. /\ s \in [Models -> Nat]
      /\ \A m \in Models : s[m] = IF m \in freed THEN 0 ELSE Before(slots[r], o)[m]
  BY <1>2 DEF Without, Before
<1>4. /\ {adopted', resident', late'} \subseteq [Runtimes -> SUBSET Models]
      /\ resident'[r] = R
      /\ \A y \in Runtimes \ {r} : /\ adopted'[y] = adopted[y] /\ resident'[y] = resident[y]
                                   /\ late'[y] = late[y]
  BY <1>2 DEF IInv, TypeOK
<1>5. ASSUME phase[r] = "up"
      PROVE  Paid(s, adopted[r]) /\ Booked(s, adopted[r], R \cup late[r])
             /\ late[r] \subseteq unsure[r] \ adopted[r]
  <2>1. /\ late[r] = {} /\ Paid(Before(slots[r], o), adopted[r])
        /\ Booked(Before(slots[r], o), adopted[r], resident[r] \ Asked(o))
        /\ Asked(o) = {}
    BY <1>1, <1>5 DEF InFlight, Asked
  <2>2. Paid(s, adopted[r])
    BY <1>3, <2>1 DEF Paid
  <2>3. Booked(s, adopted[r], R \cup late[r])
    BY <1>2, <1>3, <2>1 DEF Booked
  <2> QED BY <2>1, <2>2, <2>3
<1>6. /\ phase[r] \in {"up", "poisoned", "untracked"}
      /\ phase[r] \in {"up", "poisoned"} =>
           /\ Proven(x, adopted'[r], resident'[r]) /\ Paid(s, adopted'[r])
           /\ Booked(s, adopted'[r], resident'[r] \cup late'[r])
           /\ late'[r] \subseteq unsure[r] \ adopted'[r]
  BY <1>2, <1>4, <1>5
<1> HIDE DEF o
<1> QED BY <1>2, <1>3, <1>4, <1>6, FinishStep

\* The victims are gone and the load goes on.
LEMMA Evicted ==
  ASSUME IInv, NEW r \in Runtimes, op[r] # None, op[r].pc = "evict",
         resident' = [resident EXCEPT ![r] = resident[r] \ op[r].victims],
         NEW status, status = StatusOf(resident[r] \ op[r].victims, extra[r]),
         Released(status.used, AfterEviction(r)),
         op' = [op EXCEPT ![r] = [op[r] EXCEPT !.pc = SendPc(r, op[r].id), !.status = status]],
         UNCHANGED <<config, phase, ledger, books, granted, breach, late, extra, stray>>
  PROVE  IInv'
<1> DEFINE o == op[r]
           R == resident[r] \ o.victims
           n == [o EXCEPT !.pc = SendPc(r, o.id), !.status = status]
<1>1. InFlight(r)
  BY InFlightFact
<1>2. /\ o \in Operation /\ o # None /\ o.id \in Models /\ o.victims \in SUBSET Models
      /\ o.prev \in Nat /\ o.charge \in Nat /\ slots[r] \in [Models -> Nat] /\ measured[r] \in Measures
      /\ unsure[r] \in SUBSET Models /\ granted[r] \in SUBSET Models /\ adopted[r] \in SUBSET Models
      /\ resident[r] \in SUBSET Models /\ phase[r] \in {"up", "untracked"}
      /\ R \in SUBSET Models /\ claim[r] \in Nat /\ setup \in Setups
      /\ extra[r] \in Nat
  BY <1>1 DEF InFlight, Operation, IInv, TypeOK
<1>3. /\ status \in Status /\ status.ids = R /\ status.used \in Nat /\ Memory(R) <= status.used
  <2> HIDE DEF R
  <2> QED BY <1>2, StatusFact DEF R
<1>4. /\ n \in Operation /\ n # None
      /\ n.id = o.id /\ n.charge = o.charge /\ n.prev = o.prev /\ n.victims = o.victims
      /\ n.status = status /\ n.pc = SendPc(r, o.id)
      /\ status # None
  BY <1>2, <1>3, NoneAssumption DEF Operation, SendPc
<1>5. /\ op'[r] = n /\ resident'[r] = R
      /\ op' \in [Runtimes -> Operation \cup {None}]
      /\ resident' \in [Runtimes -> SUBSET Models]
      /\ \A y \in Runtimes \ {r} : op'[y] = op[y] /\ resident'[y] = resident[y]
  <2>1. op \in [Runtimes -> Operation \cup {None}] /\ resident \in [Runtimes -> SUBSET Models]
    BY DEF IInv, TypeOK
  <2>2. op' = [op EXCEPT ![r] = n] /\ resident' = [resident EXCEPT ![r] = R]
    OBVIOUS
  <2> HIDE DEF n, R
  <2> QED BY <1>2, <1>4, <2>1, <2>2
<1>6. /\ UNCHANGED <<setup, restarts, phase, alloc, claim, breach, slots, measured, adopted,
                     unsure, granted, late, extra, stray>>
  BY DEF config, ledger, books
<1>7. OtherTypes'
  <2>1. OtherTypes
    BY TypesSplit DEF IInv
  <2> QED BY <1>5, <1>6, <2>1 DEF OtherTypes
<1>8. Alone(r)
  BY <1>5, <1>6 DEF Alone, Same
<1>9. Asleep(r)'
  <2>1. phase[r] = "untracked" => setup.killed /\ r \in Remote
    BY DEF IInv, Asleep
  <2> QED BY <1>2, <1>6, <2>1 DEF Asleep
<1>10. ASSUME phase[r] = "up"
       PROVE  /\ Accounted(Before(slots[r], n), measured[r], unsure[r]) <= claim[r]
              /\ Proven(measured[r], adopted[r], R)
              /\ Paid(Before(slots[r], n), adopted[r])
              /\ Booked(Before(slots[r], n), adopted[r], (R \cup late[r]) \ Asked(n))
              /\ stray[r] = {} /\ unsure[r] = {} /\ late[r] \subseteq unsure[r] \ adopted[r]
              /\ Flying(n, claim[r], slots[r], measured[r], adopted[r], R)
  <2>1. Before(slots[r], n) = Before(slots[r], o)
    BY <1>2, <1>4 DEF Before
  <2>2. /\ stray[r] = {} /\ unsure[r] = {} /\ late[r] = {}
        /\ Accounted(Before(slots[r], o), measured[r], {}) <= claim[r]
        /\ Proven(measured[r], adopted[r], resident[r])
        /\ Paid(Before(slots[r], o), adopted[r])
        /\ Booked(Before(slots[r], o), adopted[r], resident[r])
        /\ Flying(o, claim[r], slots[r], measured[r], adopted[r], resident[r])
    <3>1. Asked(o) = {} /\ resident[r] \ {} = resident[r]
      BY DEF Asked
    <3> QED BY <1>1, <1>10, <3>1 DEF InFlight
  <2>3. Proven(measured[r], adopted[r], R)
    BY <1>2, <2>2, ProvenLess
  <2>4. Booked(Before(slots[r], o), adopted[r], R)
    BY <2>2 DEF Booked
  <2>5. Booked(Before(slots[r], o), adopted[r], (R \cup late[r]) \ Asked(n))
    BY <2>2, <2>4 DEF Booked
  <2>6. /\ o.charge = slots[r][o.id]
        /\ o.id \notin adopted[r] => Own(Size[o.id]) <= o.charge
        /\ o.victims \cap (adopted[r] \cup {o.id}) = {}
        /\ measured[r].credit[o.id] = 0 =>
             Charges(slots[r], Models \ (o.victims \cup {o.id}))
               + Aggregate(measured[r], slots[r], {}) + o.charge <= claim[r]
    BY <2>2 DEF Flying
  <2>7. Own(status.used) <= Charges(slots[r], Models \ (o.victims \cup {o.id}))
                            + Aggregate(measured[r], slots[r], {}) + o.prev
    BY <2>2 DEF Released, AfterEviction, Seen
  <2>8. ASSUME o.id \notin adopted[r]
        PROVE  Memory(R \cup {o.id}) <= Grains(claim[r])
    <3> HIDE DEF o, R
    <3> QED BY <1>2, <1>3, <2>2, <2>3, <2>4, <2>6, <2>7, <2>8, Sendable
  <2>9. n.pc = IF o.id \in adopted[r] THEN "verify" ELSE "load"
    BY <1>4 DEF SendPc
  <2>10. R \cap o.victims = {} /\ R \subseteq status.ids
    BY <1>3
  <2>11. Flying(n, claim[r], slots[r], measured[r], adopted[r], R)
    <3> HIDE DEF n, R, o
    <3> QED BY <1>3, <1>4, <2>6, <2>8, <2>9, <2>10 DEF Flying
  <2> QED BY <2>1, <2>2, <2>3, <2>5, <2>11
<1>11. Sound(r)'
  <2> HIDE DEF n, R, o
  <2> QED BY <1>2, <1>4, <1>5, <1>6, <1>10, SoundAfter DEF SoundBooks, Kept
<1> QED BY <1>6, <1>7, <1>8, <1>9, <1>11, QuietStep
LEMMA EvictVictimsKeeps ==
  ASSUME IInv, NEW r \in Runtimes, EvictVictims(r)
  PROVE  IInv'
<1> DEFINE o == op[r]
           R == resident[r] \ o.victims
           status == [ids |-> resident'[r], used |-> Memory(resident'[r]) + extra[r]]
           b == [slots[r] EXCEPT ![o.id] = o.prev]
<1>1. /\ o # None /\ o.pc = "evict"
      /\ setup' = setup /\ restarts' = restarts /\ late' = late /\ extra' = extra /\ stray' = stray
  BY DEF EvictVictims, config
<1>2. InFlight(r)
  BY <1>1, InFlightFact
<1>3. /\ o \in Operation /\ o.id \in Models /\ o.victims \in SUBSET Models /\ o.prev \in Nat
      /\ slots[r] \in [Models -> Nat] /\ measured[r] \in Measures
      /\ adopted[r] \in SUBSET Models /\ resident[r] \in SUBSET Models
      /\ R \in SUBSET Models /\ extra[r] \in Nat
      /\ resident \in [Runtimes -> SUBSET Models]
  BY <1>2 DEF InFlight, Operation, IInv, TypeOK
<1>4. CASE /\ resident' = [resident EXCEPT ![r] = R]
           /\ Released(status.used, AfterEviction(r))
           /\ op' = [op EXCEPT ![r] = [o EXCEPT !.pc = SendPc(r, o.id), !.status = status]]
           /\ UNCHANGED <<phase, ledger, books, granted, breach>>
  <2>1. resident'[r] = R
    BY <1>3, <1>4
  <2>2. status = StatusOf(R, extra[r])
    BY <2>1 DEF StatusOf
  <2>3. UNCHANGED <<config, phase, ledger, books, granted, breach, late, extra, stray>>
    BY <1>1, <1>4 DEF config
  <2> HIDE DEF status
  <2> QED BY <1>1, <1>4, <2>2, <2>3, Evicted
<1>5. ASSUME NEW freed \in SUBSET o.victims, resident' = [resident EXCEPT ![r] = R],
             Finish(r, Without(b, freed), Measured(r, Without(b, freed), status), unsure[r], granted[r]),
             UNCHANGED adopted
      PROVE  IInv'
  <2> DEFINE s == Without(b, freed)
             x == Measured(r, s, status)
  <2>1. resident'[r] = R
    BY <1>3, <1>5
  <2>2. status = StatusOf(R, extra[r])
    BY <2>1 DEF StatusOf
  <2>3. status \in Status /\ status.ids = R /\ Memory(R) <= status.used /\ status # None
    <3> HIDE DEF R, status
    <3> QED BY <1>3, <2>2, StatusFact, NoneAssumption
  <2>4. s \in [Models -> Nat]
    BY <1>3 DEF Without
  <2>5. /\ x \in Measures /\ x.used = status.used /\ Credited(x) \subseteq status.ids
    <3> HIDE DEF s, status
    <3>1. x = Refreshed(status, s, unsure[r], o.id, o.prev)
      BY <2>3 DEF Measured
    <3> HIDE DEF x
    <3> QED BY <1>3, <2>3, <2>4, <3>1, RefreshedFact
  <2>6. Proven(x, adopted[r], R)
    <3>1. (R \cap adopted[r]) \cup Credited(x) \subseteq R
      BY <2>3, <2>5
    <3>2. Memory(R) <= x.used
      BY <2>3, <2>5
    <3> HIDE DEF R, x
    <3> QED BY <1>3, <2>5, <3>1, <3>2, ProvenFact
  <2>7. R \in SUBSET resident[r] /\ R \cap freed = {}
    OBVIOUS
  <2>8. s = Without([slots[r] EXCEPT ![op[r].id] = op[r].prev], freed)
        /\ freed \in SUBSET op[r].victims
    BY <1>5
  <2>9. Finish(r, s, x, unsure[r], granted[r]) /\ adopted' = adopted
    BY <1>5
  <2> HIDE DEF R, x, s, b
  <2> QED BY <1>1, <1>5, <2>5, <2>6, <2>7, <2>8, <2>9, GiveUp
<1>6. ASSUME NEW gone \in SUBSET o.victims, resident' = [resident EXCEPT ![r] = resident[r] \ gone],
             Finish(r, b, measured[r], unsure[r], granted[r]), UNCHANGED adopted
      PROVE  IInv'
  <2> DEFINE Q == resident[r] \ gone
  <2>1. b = Without(b, {})
    BY <1>3 DEF Without
  <2>2. Q \in SUBSET resident[r] /\ Q \cap {} = {} /\ {} \in SUBSET op[r].victims
        /\ resident' = [resident EXCEPT ![r] = Q]
    BY <1>6
  <2>3. ASSUME phase[r] = "up" PROVE Proven(measured[r], adopted[r], Q)
    <3>1. Proven(measured[r], adopted[r], resident[r])
      BY <1>2, <2>3 DEF InFlight
    <3>2. Q \in SUBSET Models /\ Q \cap adopted[r] \subseteq resident[r] \cap adopted[r]
      BY <1>3
    <3> HIDE DEF Q
    <3> QED BY <1>3, <3>1, <3>2, ProvenLess
  <2>4. b = Without([slots[r] EXCEPT ![op[r].id] = op[r].prev], {})
    BY <2>1
  <2> HIDE DEF Q, b
  <2> QED BY <1>1, <1>3, <1>6, <2>2, <2>3, <2>4, GiveUp
<1> QED
  <2>1. \/ /\ resident' = [resident EXCEPT ![r] = R]
           /\ Released(status.used, AfterEviction(r))
           /\ op' = [op EXCEPT ![r] = [o EXCEPT !.pc = SendPc(r, o.id), !.status = status]]
           /\ UNCHANGED <<phase, ledger, books, granted, breach>>
        \/ \E freed \in SUBSET o.victims :
             /\ resident' = [resident EXCEPT ![r] = R]
             /\ Finish(r, Without(b, freed), Measured(r, Without(b, freed), status), unsure[r], granted[r])
             /\ UNCHANGED adopted
        \/ \E gone \in SUBSET o.victims :
             /\ resident' = [resident EXCEPT ![r] = resident[r] \ gone]
             /\ Finish(r, b, measured[r], unsure[r], granted[r])
             /\ UNCHANGED adopted
    BY DEF EvictVictims
  <2> HIDE DEF o, R, status, b
  <2> QED BY <1>4, <1>5, <1>6, <2>1

LEMMA VerifyKeeps ==
  ASSUME IInv, NEW r \in Runtimes, Verify(r)
  PROVE  IInv'
<1> DEFINE o == op[r]
           n == [o EXCEPT !.pc = "load"]
<1>1. /\ o # None /\ o.pc = "verify" /\ o.id \in resident[r]
      /\ op' = [op EXCEPT ![r] = n]
      /\ UNCHANGED <<setup, restarts, phase, alloc, claim, slots, measured, adopted, unsure,
                     resident, late, extra, stray, granted, breach>>
  BY DEF Verify, config, ledger, books, engine, history
<1>2. InFlight(r)
  BY <1>1, InFlightFact
<1>3. /\ o \in Operation /\ o.id \in Models /\ slots[r] \in [Models -> Nat]
      /\ measured[r] \in Measures /\ adopted[r] \in SUBSET Models /\ resident[r] \in SUBSET Models
      /\ phase[r] \in {"up", "untracked"} /\ claim[r] \in Nat /\ setup \in Setups
      /\ op \in [Runtimes -> Operation \cup {None}]
  BY <1>2 DEF InFlight, Operation, IInv, TypeOK
<1>4. /\ n \in Operation /\ n # None
      /\ n.id = o.id /\ n.charge = o.charge /\ n.prev = o.prev /\ n.victims = o.victims
      /\ n.status = o.status /\ n.pc = "load"
  BY <1>3, NoneAssumption DEF Operation
<1>5. /\ op'[r] = n /\ op' \in [Runtimes -> Operation \cup {None}]
      /\ \A y \in Runtimes \ {r} : op'[y] = op[y]
  <2> HIDE DEF n
  <2> QED BY <1>1, <1>3, <1>4
<1>6. OtherTypes'
  <2>1. OtherTypes
    BY TypesSplit DEF IInv
  <2> HIDE DEF n
  <2> QED BY <1>1, <1>5, <2>1 DEF OtherTypes
<1>7. Alone(r)
  BY <1>1, <1>5 DEF Alone, Same
<1>8. Asleep(r)'
  <2>1. phase[r] = "untracked" => setup.killed /\ r \in Remote
    BY DEF IInv, Asleep
  <2> QED BY <1>1, <1>3, <2>1 DEF Asleep
<1>9. ASSUME phase[r] = "up"
      PROVE  /\ Accounted(Before(slots[r], n), measured[r], unsure[r]) <= claim[r]
             /\ Proven(measured[r], adopted[r], resident[r])
             /\ Paid(Before(slots[r], n), adopted[r])
             /\ Booked(Before(slots[r], n), adopted[r], (resident[r] \cup late[r]) \ Asked(n))
             /\ stray[r] = {} /\ unsure[r] = {} /\ late[r] \subseteq unsure[r] \ adopted[r]
             /\ Flying(n, claim[r], slots[r], measured[r], adopted[r], resident[r])
  <2>1. Before(slots[r], n) = Before(slots[r], o) /\ Before(slots[r], o) \in [Models -> Nat]
    BY <1>3, <1>4, BeforeFact DEF Before
  <2>2. /\ stray[r] = {} /\ unsure[r] = {} /\ late[r] = {}
        /\ Accounted(Before(slots[r], o), measured[r], {}) <= claim[r]
        /\ Proven(measured[r], adopted[r], resident[r])
        /\ Paid(Before(slots[r], o), adopted[r])
        /\ Booked(Before(slots[r], o), adopted[r], resident[r])
        /\ Flying(o, claim[r], slots[r], measured[r], adopted[r], resident[r])
    <3>1. Asked(o) = {} /\ resident[r] \ {} = resident[r]
      BY <1>1 DEF Asked
    <3> QED BY <1>2, <1>9, <3>1 DEF InFlight
  <2>3. Booked(Before(slots[r], o), adopted[r], (resident[r] \cup late[r]) \ Asked(n))
    BY <2>2 DEF Booked
  <2>4. o.id \in adopted[r] /\ resident[r] \cup {o.id} = resident[r]
    BY <1>1, <2>2 DEF Flying
  <2>5. Memory(resident[r]) <= Grains(claim[r])
    <3> DEFINE b == Before(slots[r], o)
    <3>1. \A m \in resident[r] \ adopted[r] : Own(Size[m]) <= b[m] \/ measured[r].credit[m] > 0
      BY <1>3, <2>2 DEF Booked, Paid
    <3> HIDE DEF b
    <3>2. Memory(resident[r]) <= Grains(Accounted(b, measured[r], {}))
      BY <1>3, <2>1, <2>2, <3>1, Cover DEF b
    <3>3. Accounted(b, measured[r], {}) \in Nat /\ Accounted(b, measured[r], {}) <= claim[r]
      BY <1>3, <2>1, <2>2, AggregateFact DEF b
    <3>4. /\ Grains(Accounted(b, measured[r], {})) \in Nat /\ Grains(claim[r]) \in Nat
          /\ Grains(Accounted(b, measured[r], {})) <= Grains(claim[r])
      BY <1>3, <3>3, GrainsMono
    <3>5. Memory(resident[r]) \in Nat
      BY <1>3, MemoryFact
    <3> QED BY <3>2, <3>4, <3>5
  <2>6. Flying(n, claim[r], slots[r], measured[r], adopted[r], resident[r])
    <3>1. Asked(o) = {} /\ o.pc # "evict"
      BY <1>1 DEF Asked
    <3> HIDE DEF n, o
    <3> QED BY <1>1, <1>4, <2>2, <2>4, <2>5, <3>1 DEF Flying
  <2> QED BY <2>1, <2>2, <2>3, <2>6
<1>10. Sound(r)'
  <2> HIDE DEF n, o
  <2> QED BY <1>1, <1>3, <1>4, <1>5, <1>9, SoundAfter DEF SoundBooks, Kept
<1> HIDE DEF n, o
<1> QED BY <1>1, <1>6, <1>7, <1>8, <1>10, QuietStep
LEMMA AllocateKeeps ==
  ASSUME IInv, NEW r \in Runtimes, Allocate(r)
  PROVE  IInv'
<1> DEFINE o == op[r]
           R == resident[r] \cup {o.id}
<1>1. /\ o # None /\ o.pc = "load" /\ o.id \notin resident[r]
      /\ resident' = [resident EXCEPT ![r] = R]
      /\ UNCHANGED <<setup, restarts, phase, alloc, claim, slots, measured, adopted, unsure, op,
                     late, extra, stray, breach>>
      /\ granted' = [granted EXCEPT ![r] = Granted(r)]
  BY DEF Allocate, Sent, config, ledger, books
<1>2. InFlight(r)
  BY <1>1, InFlightFact
<1>3. /\ o \in Operation /\ o.id \in Models /\ measured[r] \in Measures
      /\ adopted[r] \in SUBSET Models /\ resident[r] \in SUBSET Models /\ R \in SUBSET Models
      /\ phase[r] \in {"up", "untracked"}
      /\ resident \in [Runtimes -> SUBSET Models]
  BY <1>2 DEF InFlight, Operation, IInv, TypeOK
<1>4. /\ resident'[r] = R /\ resident' \in [Runtimes -> SUBSET Models]
      /\ \A y \in Runtimes \ {r} : resident'[y] = resident[y]
  <2> HIDE DEF R
  <2> QED BY <1>1, <1>3
<1>5. OtherTypes'
  <2>1. OtherTypes
    BY TypesSplit DEF IInv
  <2>2. Granted(r) \in SUBSET Models
    BY <1>2, GrantedType
  <2> QED BY <1>1, <1>4, <2>1, <2>2 DEF OtherTypes
<1>6. Alone(r)
  BY <1>1, <1>4 DEF Alone, Same
<1>7. Asleep(r)'
  <2>1. phase[r] = "untracked" => setup.killed /\ r \in Remote
    BY DEF IInv, Asleep
  <2> QED BY <1>1, <1>3, <2>1 DEF Asleep
<1>8. ASSUME phase[r] = "up"
      PROVE  /\ Accounted(Before(slots[r], o), measured[r], unsure[r]) <= claim[r]
             /\ Proven(measured[r], adopted[r], R)
             /\ Paid(Before(slots[r], o), adopted[r])
             /\ Booked(Before(slots[r], o), adopted[r], (R \cup late[r]) \ Asked(o))
             /\ stray[r] = {} /\ unsure[r] = {} /\ late[r] \subseteq unsure[r] \ adopted[r]
             /\ Flying(o, claim[r], slots[r], measured[r], adopted[r], R)
  <2>1. /\ stray[r] = {} /\ unsure[r] = {} /\ late[r] = {}
        /\ Accounted(Before(slots[r], o), measured[r], {}) <= claim[r]
        /\ Proven(measured[r], adopted[r], resident[r])
        /\ Paid(Before(slots[r], o), adopted[r])
        /\ Booked(Before(slots[r], o), adopted[r], resident[r] \ Asked(o))
        /\ Flying(o, claim[r], slots[r], measured[r], adopted[r], resident[r])
    BY <1>2, <1>8 DEF InFlight
  <2>2. Asked(o) = {o.id}
    BY <1>1 DEF Asked
  <2>3. o.id \notin adopted[r] /\ o.victims \cap (adopted[r] \cup {o.id}) = {}
    BY <1>1, <2>1 DEF Flying
  <2>4. /\ R \cap adopted[r] = resident[r] \cap adopted[r]
        /\ (R \cup late[r]) \ Asked(o) = resident[r] \ Asked(o)
        /\ R \cup {o.id} = resident[r] \cup {o.id}
    BY <2>1, <2>2, <2>3
  <2>5. Proven(measured[r], adopted[r], R)
    BY <2>1, <2>4 DEF Proven
  <2>6. Flying(o, claim[r], slots[r], measured[r], adopted[r], R)
    <3>1. o.id \in R
      OBVIOUS
    <3>2. o.victims \cap resident[r] = {} => o.victims \cap R = {}
      BY <2>3
    <3>3. \A T : resident[r] \subseteq T \cup {o.id} => R \subseteq T \cup {o.id}
      OBVIOUS
    <3> HIDE DEF R, o
    <3> QED BY <2>1, <2>2, <2>4, <3>1, <3>2, <3>3 DEF Flying
  <2> QED BY <2>1, <2>4, <2>5, <2>6
<1>9. Sound(r)'
  <2> HIDE DEF R, o
  <2> QED BY <1>1, <1>3, <1>4, <1>8, SoundAfter DEF SoundBooks, Kept, o
<1> HIDE DEF R, o
<1> QED BY <1>1, <1>5, <1>6, <1>7, <1>9, QuietStep

-----------------------------------------------------------------------------
(* The engines on their own *)

LEMMA AllocateLateKeeps ==
  ASSUME IInv, NEW r \in Runtimes, NEW m \in Models, AllocateLate(r, m)
  PROVE  IInv'
<1> DEFINE R == resident[r] \cup {m}
           L == late[r] \ {m}
<1>1. /\ m \in late[r]
      /\ resident' = [resident EXCEPT ![r] = R] /\ late' = [late EXCEPT ![r] = L]
      /\ UNCHANGED <<setup, restarts, phase, alloc, claim, slots, measured, adopted, unsure, op,
                     extra, stray, granted, breach>>
  BY DEF AllocateLate, config, ledger, books, history
<1>2. TypeOK /\ OwnersAgree /\ Sound(r) /\ Asleep(r)
  BY DEF IInv
<1>3. /\ resident \in [Runtimes -> SUBSET Models] /\ late \in [Runtimes -> SUBSET Models]
      /\ R \in SUBSET Models /\ L \in SUBSET Models
  BY <1>2 DEF TypeOK
<1>4. /\ resident'[r] = R /\ resident' \in [Runtimes -> SUBSET Models]
      /\ late'[r] = L /\ late' \in [Runtimes -> SUBSET Models]
      /\ \A y \in Runtimes \ {r} : resident'[y] = resident[y] /\ late'[y] = late[y]
  <2> HIDE DEF R, L
  <2> QED BY <1>1, <1>3
<1>5. OtherTypes'
  <2>1. OtherTypes
    BY TypesSplit DEF IInv
  <2> QED BY <1>1, <1>4, <2>1 DEF OtherTypes
<1>6. Alone(r)
  BY <1>1, <1>4 DEF Alone, Same
<1>7. R \cup L = resident[r] \cup late[r]
  BY <1>1
<1>8. Asleep(r)'
  <2>1. Memory(MayHold(r))' = Memory(MayHold(r))
    <3>1. MayHold(r)' = MayHold(r)
      BY <1>1, <1>4, <1>7 DEF MayHold, Sent
    <3> QED BY <3>1 DEF Memory
  <2>2. L \subseteq late[r]
    OBVIOUS
  <2>3. Grains(claim[r])' = Grains(claim[r]) /\ Budget' = Budget
    BY <1>1 DEF Grains, Budget
  <2> HIDE DEF L
  <2> QED BY <1>1, <1>2, <1>4, <2>1, <2>2, <2>3 DEF Asleep
<1>9. ASSUME phase[r] \in {"up", "poisoned"}
      PROVE  /\ op[r] = None
             /\ Kept(claim[r], slots[r], measured[r], adopted[r], unsure[r], R, L, {})
  <2>1. /\ Kept(claim[r], Before(slots[r], op[r]), measured[r], adopted[r], unsure[r],
                resident[r], late[r], Asked(op[r]))
        /\ op[r] # None => unsure[r] = {}
    BY <1>2, <1>9 DEF Sound, SoundBooks
  <2>2. late[r] \subseteq unsure[r] \ adopted[r]
    BY <2>1 DEF Kept
  <2>3. op[r] = None
    BY <1>1, <2>1, <2>2
  <2>4. R \cap adopted[r] = resident[r] \cap adopted[r] /\ L \subseteq unsure[r] \ adopted[r]
    BY <1>1, <2>2
  <2>5. Before(slots[r], op[r]) = slots[r] /\ Asked(op[r]) = {}
    BY <2>3 DEF Before, Asked
  <2> HIDE DEF R, L
  <2> QED BY <1>7, <2>1, <2>3, <2>4, <2>5 DEF Kept, Proven
<1>10. Sound(r)'
  <2>1. phase[r] \in {"up", "poisoned"} => stray[r] = {}
        /\ (phase[r] = "up" /\ op[r] = None /\ unsure[r] = {} =>
              claim[r] = Accounted(slots[r], measured[r], {}))
    BY <1>2 DEF Sound, SoundBooks
  <2>2. op[r] = None => Before(slots[r], op[r]) = slots[r] /\ Asked(op[r]) = {}
    BY DEF Before, Asked
  <2> HIDE DEF R, L
  <2> QED BY <1>1, <1>4, <1>9, <2>1, <2>2, SoundAfter DEF SoundBooks
<1> HIDE DEF R, L
<1> QED BY <1>1, <1>5, <1>6, <1>8, <1>10, QuietStep

LEMMA OtherClientKeeps ==
  ASSUME IInv, NEW r \in Runtimes, OtherClient(r)
  PROVE  IInv'
<1>1. /\ extra' = [extra EXCEPT ![r] = Outside[r]]
      /\ UNCHANGED <<setup, restarts, phase, alloc, claim, slots, measured, adopted, unsure, op,
                     resident, late, stray, granted, breach>>
  BY DEF OtherClient, config, ledger, books, history
<1>2. TypeOK /\ OwnersAgree /\ Sound(r) /\ Asleep(r)
  BY DEF IInv
<1>3. extra' \in [Runtimes -> Nat]
  BY <1>1, <1>2, GlobalCapacityAssumption DEF TypeOK
<1>4. OtherTypes'
  <2>1. OtherTypes
    BY <1>2, TypesSplit
  <2> QED BY <1>1, <1>3, <2>1 DEF OtherTypes
<1>5. Alone(r) /\ Same(r)
  BY <1>1 DEF Alone, Same
<1>6. Sound(r)' /\ Asleep(r)'
  BY <1>1, <1>2, <1>5, SoundSame, AsleepSame
<1> QED BY <1>1, <1>4, <1>5, <1>6, QuietStep

LEMMA UnloadKeeps ==
  ASSUME IInv, NEW r \in Runtimes, NEW m \in Models, Unload(r, m)
  PROVE  IInv'
<1> DEFINE R == resident[r] \ {m}
           s == Without(slots[r], {m})
           status == [ids |-> resident'[r], used |-> Memory(resident'[r]) + extra[r]]
           x == Refreshed(status, s, unsure[r], None, 0)
<1>1. /\ phase[r] \in {"up", "untracked"} /\ op[r] = None /\ m \notin unsure[r]
      /\ resident' = [resident EXCEPT ![r] = R]
      /\ UNCHANGED <<setup, restarts, late, extra, stray>>
  BY DEF Unload, Serving, config
<1>2. TypeOK /\ OwnersAgree /\ Sound(r) /\ Asleep(r)
  BY DEF IInv
<1>3. /\ resident \in [Runtimes -> SUBSET Models] /\ R \in SUBSET Models
      /\ adopted \in [Runtimes -> SUBSET Models] /\ adopted[r] \in SUBSET Models
      /\ measured[r] \in Measures /\ slots[r] \in [Models -> Nat]
      /\ unsure[r] \in SUBSET Models /\ granted[r] \in SUBSET Models /\ extra[r] \in Nat
      /\ late \in [Runtimes -> SUBSET Models]
  BY <1>2 DEF TypeOK, Measures
<1>4. /\ resident'[r] = R /\ resident' \in [Runtimes -> SUBSET Models]
      /\ \A y \in Runtimes \ {r} : resident'[y] = resident[y]
  <2> HIDE DEF R
  <2> QED BY <1>1, <1>3
<1>5. ASSUME phase[r] = "up"
      PROVE  /\ stray[r] = {} /\ Accounted(slots[r], measured[r], unsure[r]) <= claim[r]
             /\ Proven(measured[r], adopted[r], resident[r]) /\ Paid(slots[r], adopted[r])
             /\ Booked(slots[r], adopted[r], resident[r] \cup late[r])
             /\ late[r] \subseteq unsure[r] \ adopted[r]
             /\ unsure[r] = {} => claim[r] = Accounted(slots[r], measured[r], {})
  <2>1. Before(slots[r], op[r]) = slots[r] /\ Asked(op[r]) = {}
    BY <1>1 DEF Before, Asked
  <2>2. (resident[r] \cup late[r]) \ {} = resident[r] \cup late[r]
    OBVIOUS
  <2> QED BY <1>1, <1>2, <1>5, <2>1, <2>2 DEF Sound, SoundBooks, Kept
<1>6. CASE /\ Finish(r, s, x, unsure[r], granted[r])
           /\ adopted' = [adopted EXCEPT ![r] = adopted[r] \ {m}]
  <2>1. /\ adopted' \in [Runtimes -> SUBSET Models] /\ adopted'[r] = adopted[r] \ {m}
        /\ \A y \in Runtimes \ {r} : adopted'[y] = adopted[y]
    BY <1>3, <1>6
  <2>2. status = StatusOf(R, extra[r])
    BY <1>4 DEF StatusOf
  <2>3. status \in Status /\ status.ids = R /\ Memory(R) <= status.used
    <3> HIDE DEF R, status
    <3> QED BY <1>3, <2>2, StatusFact
  <2>4. s \in [Models -> Nat] /\ \A k \in Models : s[k] = IF k = m THEN 0 ELSE slots[r][k]
    BY <1>3 DEF Without
  <2>5. x \in Measures /\ x.used = status.used /\ Credited(x) \subseteq status.ids
    <3> HIDE DEF s, status
    <3>1. 0 \in Nat
      OBVIOUS
    <3> QED BY <2>3, <2>4, <3>1, RefreshedFact
  <2>6. Proven(x, adopted'[r], R)
    <3>1. (R \cap adopted'[r]) \cup Credited(x) \subseteq R /\ Memory(R) <= x.used
      BY <2>3, <2>5
    <3>2. adopted'[r] \in SUBSET Models
      BY <1>3, <2>1
    <3> HIDE DEF R, x
    <3> QED BY <1>3, <2>5, <3>1, <3>2, ProvenFact
  <2>7. ASSUME phase[r] = "up"
        PROVE  Paid(s, adopted'[r]) /\ Booked(s, adopted'[r], R \cup late[r])
               /\ late[r] \subseteq unsure[r] \ adopted'[r]
    <3>1. m \notin R /\ m \notin late[r]
      BY <1>1, <1>5, <2>7
    <3>2. Paid(s, adopted'[r])
      <4> HIDE DEF s
      <4> QED BY <1>5, <2>1, <2>4, <2>7 DEF Paid
    <3>3. Booked(s, adopted'[r], R \cup late[r])
      <4>1. \A k \in R \cup late[r] : k \in Models /\ k # m /\ k \in resident[r] \cup late[r]
        BY <1>3, <3>1
      <4> HIDE DEF s, R
      <4> QED BY <1>5, <2>1, <2>4, <2>7, <4>1 DEF Booked
    <3>4. late[r] \subseteq unsure[r] \ adopted'[r]
      BY <1>5, <2>1, <2>7
    <3> QED BY <3>2, <3>3, <3>4
  <2>8. {adopted', resident', late'} \subseteq [Runtimes -> SUBSET Models]
    BY <1>1, <1>3, <1>4, <2>1
  <2>9. /\ phase[r] \in {"up", "poisoned", "untracked"}
        /\ phase[r] \in {"up", "poisoned"} =>
             /\ Proven(x, adopted'[r], resident'[r]) /\ Paid(s, adopted'[r])
             /\ Booked(s, adopted'[r], resident'[r] \cup late'[r])
             /\ late'[r] \subseteq unsure[r] \ adopted'[r]
    <3> HIDE DEF x, s, R
    <3> QED BY <1>1, <1>4, <2>6, <2>7
  <2> HIDE DEF x, s, R
  <2> QED BY <1>1, <1>3, <1>4, <1>6, <2>1, <2>4, <2>5, <2>8, <2>9, FinishStep
<1>7. CASE UNCHANGED <<ledger, phase, books, op, breach, granted>>
  <2>1. UNCHANGED <<alloc, claim, phase, slots, measured, adopted, unsure, op, breach, granted>>
    BY <1>7 DEF ledger, books
  <2>2. OtherTypes'
    <3>1. OtherTypes
      BY <1>2, TypesSplit
    <3> QED BY <1>1, <1>4, <2>1, <3>1 DEF OtherTypes
  <2>3. Alone(r)
    BY <1>1, <1>4, <2>1 DEF Alone, Same
  <2>4. Asleep(r)'
    <3>1. phase[r] = "untracked" => setup.killed /\ r \in Remote
      BY <1>2 DEF Asleep
    <3> QED BY <1>1, <2>1, <3>1 DEF Asleep
  <2>5. ASSUME phase[r] = "up"
        PROVE  Proven(measured[r], adopted[r], R) /\ Booked(slots[r], adopted[r], (R \cup late[r]) \ {})
    <3>1. R \cap adopted[r] \subseteq resident[r] \cap adopted[r]
      OBVIOUS
    <3>2. Booked(slots[r], adopted[r], (R \cup late[r]) \ {})
      BY <1>5, <2>5 DEF Booked
    <3> HIDE DEF R
    <3> QED BY <1>3, <1>5, <2>5, <3>1, <3>2, ProvenLess
  <2>6. Sound(r)'
    <3>1. Before(slots[r], op[r]) = slots[r] /\ Asked(op[r]) = {}
      BY <1>1 DEF Before, Asked
    <3> HIDE DEF R
    <3> QED BY <1>1, <1>4, <1>5, <2>1, <2>5, <3>1, SoundAfter DEF SoundBooks, Kept
  <2> QED BY <1>1, <2>1, <2>2, <2>3, <2>4, <2>6, QuietStep
<1> QED
  <2>1. \/ /\ Finish(r, s, x, unsure[r], granted[r])
           /\ adopted' = [adopted EXCEPT ![r] = adopted[r] \ {m}]
        \/ UNCHANGED <<ledger, phase, books, op, breach, granted>>
    BY DEF Unload
  <2> HIDE DEF x, s
  <2> QED BY <1>6, <1>7, <2>1
-----------------------------------------------------------------------------
(* A load begins *)

\* What the ledger lets grow fits its ceiling.
LEMMA JudgeFact ==
  ASSUME TypeOK, NEW r \in DOMAIN alloc, NEW held \in Nat, NEW planned, NEW confirmed,
         Judge(r, held, planned, confirmed) = "ok"
  PROVE  \/ Entry(held) <= alloc[r]
         \/ ReservedExcept({r}) + Entry(held) <= Budget + Tolerance
<1>1. setup \in Setups /\ r \in Runtimes
  BY DEF TypeOK
<1>2. /\ Budget \in Nat /\ Tolerance \in Nat /\ ReservedExcept({r}) \in Nat /\ Entry(held) \in Nat
      /\ alloc[r] \in Nat
  BY <1>1, BudgetFact, ReservedFact, EntryFact DEF TypeOK
<1>3. ASSUME NEW c, Growth(r, Entry(held), c) = "ok"
      PROVE  Entry(held) <= alloc[r] \/ ReservedExcept({r}) + Entry(held) <= Budget + Tolerance
  <2>1. Entry(held) <= alloc[r] \/ CheckAdmission(ReservedExcept({r}) + Entry(held), c) = "ok"
    BY <1>3 DEF Growth
  <2> DEFINE t == ReservedExcept({r}) + Entry(held)
  <2>2. t \in Nat /\ (CheckAdmission(t, c) = "ok" => ~(t > Budget + Tolerance))
    BY <1>2 DEF CheckAdmission
  <2> QED BY <1>2, <2>1, <2>2
<1>4. CASE setup.exact
  <2>1. Growth(r, held, confirmed) = "ok" /\ Entry(held) = held
    BY <1>4 DEF Judge, Entry
  <2> QED BY <1>3, <2>1
<1>5. CASE ~setup.exact
  <2>1. Growth(r, Entry(held), TRUE) = "ok"
    BY <1>5 DEF Judge
  <2> QED BY <1>3, <2>1
<1> QED BY <1>4, <1>5

LEMMA ClaimFact ==
  ASSUME TypeOK, OwnersAgree, Within, NEW r \in Runtimes, NEW planned \in Nat, NEW confirmed,
         Admits(r, planned, confirmed), Claim(r, planned), UNCHANGED <<setup, phase, breach>>
  PROVE  /\ LedgerTypes' /\ OwnersAgree' /\ Within'
         /\ \A y \in Runtimes \ {r} : claim'[y] = claim[y]
         /\ \A y \in DOMAIN alloc \ {r} : alloc'[y] = alloc[y]
         /\ r \in DOMAIN alloc =>
              /\ claim[r] <= claim'[r] /\ planned <= claim'[r]
              /\ \/ alloc'[r] <= alloc[r]
                 \/ ReservedExcept({r}) + alloc'[r] <= Budget + Tolerance
<1>1. CASE r \notin DOMAIN alloc
  <2>1. alloc' = alloc /\ claim' = claim
    BY <1>1 DEF Claim, Tracked, ledger
  <2>2. LedgerTypes' /\ OwnersAgree' /\ Within'
    BY <2>1, QuietLedger
  <2> QED BY <1>1, <2>1, <2>2
<1>2. CASE r \in DOMAIN alloc
  <2> DEFINE held == Held(r, planned)
  <2>1. claim[r] \in Nat /\ setup \in Setups /\ alloc[r] \in Nat
    BY <1>2 DEF TypeOK
  <2>2. held \in Nat /\ claim[r] <= held /\ planned <= held
    BY <2>1 DEF Held, Larger
  <2>3. Record(r, held) /\ Judge(r, held, planned, confirmed) = "ok"
    BY <1>2 DEF Claim, Admits, Tracked
  <2> HIDE DEF held
  <2>4. /\ Replaced(r, Entry(held)) /\ claim' \in [Runtimes -> Nat] /\ claim'[r] = held
        /\ \A y \in Runtimes \ {r} : claim'[y] = claim[y]
        /\ DOMAIN alloc' = DOMAIN alloc
        /\ \A y \in DOMAIN alloc' : alloc'[y] = Entry(claim[y])'
    BY <1>2, <2>2, <2>3, RecordReplaces
  <2>5. Entry(held) \in Nat
    BY <2>1, <2>2, EntryFact
  <2>6. /\ DOMAIN alloc' \subseteq Runtimes /\ \A y \in DOMAIN alloc' : alloc'[y] \in Nat
        /\ Reserved' = ReservedExcept({r}) + Entry(held)
    BY <2>4, <2>5, ReplacedFact
  <2>7. Entry(held) <= alloc[r] \/ ReservedExcept({r}) + Entry(held) <= Budget + Tolerance
    BY <1>2, <2>2, <2>3, JudgeFact
  <2>8. /\ ReservedExcept({r}) \in Nat /\ Reserved = ReservedExcept({r}) + alloc[r]
        /\ Budget \in Nat /\ Tolerance \in Nat
    BY <1>2, <2>1, ReservedFact, BudgetFact
  <2>9. Within'
    <3>1. Budget' = Budget /\ Tolerance' = Tolerance /\ breach' = breach
      BY DEF Budget, Tolerance
    <3>2. Reserved <= Budget + Tolerance => Reserved' <= Budget + Tolerance
      BY <2>1, <2>5, <2>6, <2>7, <2>8
    <3> QED BY <3>1, <3>2 DEF Within
  <2>10. OwnersAgree'
    BY <2>4 DEF OwnersAgree
  <2>11. LedgerTypes'
    BY <2>4, <2>6, TypesSplit DEF LedgerTypes
  <2>12. alloc'[r] = Entry(held) /\ \A y \in DOMAIN alloc \ {r} : alloc'[y] = alloc[y]
    BY <2>4 DEF Replaced
  <2> QED BY <2>2, <2>4, <2>7, <2>9, <2>10, <2>11, <2>12
<1> QED BY <1>1, <1>2

\* The charge of the model that is loaded does not count in what surrounds it.
LEMMA Surroundings ==
  ASSUME setup \in Setups, NEW s \in [Models -> Nat], NEW x \in Measures, NEW m \in Models,
         NEW charge \in Nat, NEW V \in SUBSET Models
  PROVE  LET t == [s EXCEPT ![m] = charge]
         IN  /\ Charges(t, Models \ (V \cup {m})) = Charges(s, Models \ (V \cup {m}))
             /\ x.credit[m] = 0 => Aggregate(x, t, {}) = Aggregate(x, s, {})
<1> DEFINE t == [s EXCEPT ![m] = charge]
           T == Models \ (V \cup {m})
<1>1. t \in [Models -> Nat] /\ \A k \in Models \ {m} : t[k] = s[k]
  OBVIOUS
<1>2. Charges(t, T) = Charges(s, T)
  <2>1. Summable(s, T) /\ \A k \in T : s[k] = t[k]
    <3>1. T \in SUBSET Models /\ T \subseteq Models \ {m}
      OBVIOUS
    <3>2. IsFiniteSet(T)
      BY <3>1, GlobalCapacityAssumption, FS_Subset
    <3> HIDE DEF t, T
    <3> QED BY <1>1, <3>1, <3>2 DEF Summable
  <2> HIDE DEF t, T
  <2>2. SumFunctionOnSet(s, T) = SumFunctionOnSet(t, T)
    BY <2>1, SumSame
  <2> QED BY <2>2 DEF Charges
<1>3. ASSUME x.credit[m] = 0
      PROVE  Aggregate(x, t, {}) = Aggregate(x, s, {})
  <2> DEFINE u == [k \in Models |-> Smaller(s[k], x.credit[k])]
             v == [k \in Models |-> Smaller(t[k], x.credit[k])]
  <2>1. \A k \in Models : u[k] = v[k]
    <3> SUFFICES ASSUME NEW k \in Models PROVE Smaller(s[k], x.credit[k]) = Smaller(t[k], x.credit[k])
      OBVIOUS
    <3>1. s[k] \in Nat /\ t[k] \in Nat /\ x.credit[k] \in Nat
      BY <1>1 DEF Measures
    <3>2. k # m => t[k] = s[k]
      BY <1>1
    <3> HIDE DEF t
    <3> QED BY <1>3, <3>1, <3>2 DEF Smaller
  <2>2. u = v
    <3> HIDE DEF t
    <3> QED BY <2>1
  <2> QED BY <2>2 DEF Aggregate
<1> QED BY <1>2, <1>3

LEMMA StartLoadKeeps ==
  ASSUME IInv, NEW r \in Runtimes, NEW m \in Models, NEW estimate \in Estimates[m],
         NEW confirmed \in BOOLEAN, StartLoad(r, m, estimate, confirmed)
  PROVE  IInv'
<1> DEFINE charge == RequestCharge(r, m, estimate)
           x == measured[r]
           A == adopted[r]
<1>1. /\ phase[r] \in {"up", "untracked"} /\ op[r] = None /\ unsure[r] = {}
      /\ slots' = [slots EXCEPT ![r] = [slots[r] EXCEPT ![m] = charge]]
      /\ UNCHANGED <<setup, restarts, phase, measured, adopted, unsure, resident, late, extra,
                     stray, granted, breach>>
  BY DEF StartLoad, Serving, config, engine, history
<1>2. PICK victims \in VictimSets(r, m, charge) :
        LET planned == PlannedWith(r, m, charge, victims)
        IN  /\ Admits(r, planned, confirmed)
            /\ Claim(r, planned)
            /\ op' = [op EXCEPT ![r] =
                        [id |-> m, charge |-> charge, prev |-> slots[r][m],
                         victims |-> victims, confirmed |-> confirmed, status |-> None,
                         pc |-> IF victims # {} THEN "evict" ELSE SendPc(r, m)]]
  BY DEF StartLoad
<1> DEFINE planned == PlannedWith(r, m, charge, victims)
           n == [id |-> m, charge |-> charge, prev |-> slots[r][m],
                 victims |-> victims, confirmed |-> confirmed, status |-> None,
                 pc |-> IF victims # {} THEN "evict" ELSE SendPc(r, m)]
           t == [slots[r] EXCEPT ![m] = charge]
<1>3. TypeOK /\ OwnersAgree /\ Within /\ Sound(r) /\ Asleep(r)
  BY DEF IInv
<1>4. /\ setup \in Setups /\ slots[r] \in [Models -> Nat] /\ x \in Measures
      /\ A \in SUBSET Models /\ resident[r] \in SUBSET Models /\ claim[r] \in Nat
      /\ slots \in [Runtimes -> [Models -> Nat]] /\ op \in [Runtimes -> Operation \cup {None}]
  BY <1>3 DEF TypeOK, Measures
<1>5. victims \in SUBSET Models /\ victims \cap (A \cup {m}) = {}
  BY DEF VictimSets
<1>6. /\ estimate \in Nat /\ Size[m] \in Nat /\ Size[m] <= estimate
      /\ Own(estimate) \in Nat /\ Own(Size[m]) <= Own(estimate)
  BY <1>4, GlobalCapacityAssumption, OwnFact, OwnMono
<1>7. Seen(r) \in Nat /\ Seen(r) = Aggregate(x, slots[r], {})
  BY <1>1, <1>4, AggregateFact DEF Seen
<1>8. charge \in Nat /\ (m \notin A => Own(Size[m]) <= charge)
  BY <1>6, <1>7 DEF RequestCharge, AtLeast0, Larger
<1>9. planned \in Nat /\ planned = Seen(r) + charge + Charges(slots[r], Models \ (victims \cup {m}))
  <2>1. Charges(slots[r], Models \ (victims \cup {m})) \in Nat
    BY <1>4, ChargesFact
  <2> HIDE DEF charge
  <2> QED BY <1>7, <1>8, <2>1 DEF PlannedWith
<1>10. /\ n \in Operation /\ n # None /\ n.id = m /\ n.charge = charge /\ n.prev = slots[r][m]
       /\ n.victims = victims /\ n.status = None
       /\ n.pc = IF victims # {} THEN "evict" ELSE SendPc(r, m)
  <2>1. slots[r][m] \in Nat
    BY <1>4
  <2>2. n \in Operation
    <3> HIDE DEF charge
    <3> QED BY <1>5, <1>8, <2>1 DEF Operation, SendPc
  <2> HIDE DEF charge
  <2> QED BY <2>2, NoneAssumption
<1>11. /\ Admits(r, planned, confirmed) /\ Claim(r, planned) /\ op' = [op EXCEPT ![r] = n]
  BY <1>2
<1>12. /\ op'[r] = n /\ op' \in [Runtimes -> Operation \cup {None}]
       /\ slots'[r] = t /\ t \in [Models -> Nat] /\ slots' \in [Runtimes -> [Models -> Nat]]
       /\ \A y \in Runtimes \ {r} : op'[y] = op[y] /\ slots'[y] = slots[y]
  <2>1. t \in [Models -> Nat]
    <3> HIDE DEF charge
    <3> QED BY <1>4, <1>8
  <2>2. slots' = [slots EXCEPT ![r] = t]
    BY <1>1
  <2> HIDE DEF n, t, charge
  <2> QED BY <1>4, <1>10, <1>11, <2>1, <2>2
<1>13. /\ LedgerTypes' /\ OwnersAgree' /\ Within'
       /\ \A y \in Runtimes \ {r} : claim'[y] = claim[y]
       /\ \A y \in DOMAIN alloc \ {r} : alloc'[y] = alloc[y]
       /\ r \in DOMAIN alloc => claim[r] <= claim'[r] /\ planned <= claim'[r]
  <2>1. UNCHANGED <<setup, phase, breach>>
    BY <1>1
  <2> HIDE DEF planned
  <2> QED BY <1>3, <1>9, <1>11, <2>1, ClaimFact
<1>14. OtherTypes'
  <2>1. OtherTypes
    BY <1>3, TypesSplit
  <2> HIDE DEF n, t
  <2> QED BY <1>1, <1>12, <2>1 DEF OtherTypes
<1>15. TypeOK'
  BY <1>13, <1>14, TypesJoin
<1>16. Alone(r)
  BY <1>1, <1>12, <1>13 DEF Alone, Same
<1>17. Asleep(r)'
  <2>1. phase[r] = "untracked" => setup.killed /\ r \in Remote
    BY <1>3 DEF Asleep
  <2> QED BY <1>1, <2>1 DEF Asleep
<1>18. ASSUME phase[r] = "up"
       PROVE  /\ stray[r] = {}
              /\ Kept(claim'[r], Before(t, n), x, A, unsure[r], resident[r], late[r], Asked(n))
              /\ Flying(n, claim'[r], t, x, A, resident[r])
  <2>1. r \in DOMAIN alloc
    BY <1>3, <1>18 DEF OwnersAgree
  <2>2. claim[r] <= claim'[r] /\ planned <= claim'[r] /\ claim'[r] \in Nat
    BY <1>13, <2>1 DEF LedgerTypes
  <2>3. /\ stray[r] = {} /\ late[r] = {}
        /\ Accounted(slots[r], x, {}) <= claim[r] /\ Proven(x, A, resident[r])
        /\ Paid(slots[r], A) /\ Booked(slots[r], A, resident[r])
    <3>1. Before(slots[r], op[r]) = slots[r] /\ Asked(op[r]) = {}
      BY <1>1 DEF Before, Asked
    <3>2. late[r] = {}
      BY <1>1, <1>3, <1>18 DEF Sound, SoundBooks, Kept
    <3>3. (resident[r] \cup late[r]) \ {} = resident[r]
      BY <3>2
    <3> QED BY <1>1, <1>3, <1>18, <3>1, <3>2, <3>3 DEF Sound, SoundBooks, Kept
  <2>4. Before(t, n) = slots[r]
    <3>1. Before(t, n) = [t EXCEPT ![m] = slots[r][m]]
      <4> HIDE DEF n, t
      <4> QED BY <1>10 DEF Before
    <3>2. [t EXCEPT ![m] = slots[r][m]] = slots[r]
      <4> HIDE DEF charge
      <4> QED BY <1>4
    <3> QED BY <3>1, <3>2
  <2>5. Accounted(slots[r], x, {}) <= claim'[r]
    <3>1. Accounted(slots[r], x, {}) \in Nat
      BY <1>4, AggregateFact
    <3> QED BY <1>4, <2>2, <2>3, <3>1
  <2>6. Kept(claim'[r], Before(t, n), x, A, unsure[r], resident[r], late[r], Asked(n))
    <3>1. Booked(slots[r], A, (resident[r] \cup late[r]) \ Asked(n))
      BY <2>3 DEF Booked
    <3> QED BY <1>1, <2>3, <2>4, <2>5, <3>1 DEF Kept
  <2>7. /\ x.credit[m] = 0 =>
             Charges(t, Models \ (victims \cup {m})) + Aggregate(x, t, {}) + charge <= claim'[r]
    <3>1. /\ Charges(t, Models \ (victims \cup {m})) = Charges(slots[r], Models \ (victims \cup {m}))
          /\ x.credit[m] = 0 => Aggregate(x, t, {}) = Aggregate(x, slots[r], {})
      <4>1. /\ setup \in Setups /\ slots[r] \in [Models -> Nat] /\ x \in Measures
            /\ charge \in Nat /\ victims \in SUBSET Models
        BY <1>4, <1>5, <1>8
      <4> HIDE DEF charge, x
      <4> QED BY ONLY m \in Models, <4>1, Surroundings DEF t
    <3>2. Charges(slots[r], Models \ (victims \cup {m})) \in Nat
      BY <1>4, ChargesFact
    <3> HIDE DEF t, planned, charge
    <3> QED BY <1>7, <1>8, <1>9, <2>2, <3>1, <3>2
  <2>8. ASSUME m \notin A, victims = {}
        PROVE  Memory(resident[r] \cup {m}) <= Grains(claim'[r])
    <3>1. Paid(Before(t, n), A) /\ Booked(Before(t, n), A, resident[r])
          /\ Accounted(Before(t, n), x, {}) <= claim'[r]
      BY <2>3, <2>4, <2>5
    <3>2. n.charge = t[n.id]
      BY <1>4, <1>10
    <3>3. Own(Size[n.id]) <= n.charge /\ n.id \notin A /\ n.victims = {}
      BY <1>8, <1>10, <2>8
    <3>4. x.credit[n.id] = 0 =>
            Charges(t, Models \ (n.victims \cup {n.id})) + Aggregate(x, t, {}) + n.charge <= claim'[r]
      BY <1>10, <2>7
    <3>5. Memory(resident[r] \cup {n.id}) <= Grains(claim'[r])
      <4> HIDE DEF n, t, x, A
      <4> QED BY <1>4, <1>10, <1>12, <2>2, <2>3, <3>1, <3>2, <3>3, <3>4, Sendable
    <3> QED BY <1>10, <3>5
  <2>9. Flying(n, claim'[r], t, x, A, resident[r])
    <3>1. n.charge = t[n.id]
      BY <1>4, <1>10
    <3>2. /\ n.pc = "verify" => m \in A /\ victims = {}
          /\ n.pc = "load" => m \notin A /\ victims = {}
          /\ n.pc # "evict" => victims = {}
      <4> HIDE DEF n
      <4> QED BY <1>10 DEF SendPc
    <3> HIDE DEF n, t, x, A, charge
    <3> QED BY <1>5, <1>8, <1>10, <2>7, <2>8, <3>1, <3>2 DEF Flying
  <2> QED BY <2>3, <2>6, <2>9
<1>19. Sound(r)'
  <2> HIDE DEF n, t
  <2> QED BY <1>1, <1>10, <1>12, <1>18, SoundAfter DEF SoundBooks
<1> QED
  <2>1. setup' = setup
    BY <1>1
  <2> QED BY <1>13, <1>15, <1>16, <1>17, <1>19, <2>1, AloneKeeps
-----------------------------------------------------------------------------
(* Start-up *)

LEMMA UsedFact ==
  ASSUME TypeOK, NEW r \in Runtimes
  PROVE  /\ Used(r) \in Nat /\ Memory(resident[r]) \in Nat /\ Memory(resident[r]) <= Used(r)
         /\ Units(Used(r)) \in Nat /\ Used(r) <= Grain * Units(Used(r))
<1>1. resident[r] \in SUBSET Models /\ extra[r] \in Nat
  BY DEF TypeOK
<1>2. Memory(resident[r]) \in Nat
  BY <1>1, MemoryFact
<1>3. Used(r) \in Nat /\ Memory(resident[r]) <= Used(r)
  BY <1>1, <1>2 DEF Used
<1> QED BY <1>2, <1>3, UnitsFact

LEMMA AdoptFact ==
  ASSUME TypeOK, OwnersAgree, Within, NEW r \in Runtimes, phase[r] = "starting",
         NEW own \in Nat, Adopt(r, own), setup' = setup,
         NEW p \in {"up", "refusing", "unknown"}, phase' = [phase EXCEPT ![r] = p]
  PROVE  /\ LedgerTypes' /\ OwnersAgree' /\ Within'
         /\ \A y \in Runtimes \ {r} : phase'[y] = phase[y] /\ claim'[y] = claim[y]
         /\ \A y \in DOMAIN alloc \ {r} : alloc'[y] = alloc[y]
         /\ phase'[r] = p /\ claim'[r] = own /\ alloc'[r] = Entry(own)
         /\ breach' # "budget" => breach # "budget" /\ Units(Used(r)) <= Budget
<1> DEFINE part == Larger(Entry(own), Units(Used(r)))
           total == ReservedExcept({r}) + part
<1>1. /\ setup \in Setups /\ phase \in [Runtimes -> Phases] /\ claim \in [Runtimes -> Nat]
      /\ breach \in {"none", "headroom", "budget"}
  BY DEF TypeOK, Phases
<1>2. /\ claim' = [claim EXCEPT ![r] = own]
      /\ alloc' = [y \in DOMAIN alloc \cup {r} |-> IF y = r THEN Entry(own) ELSE alloc[y]]
      /\ breach' = Worse(total)
  BY DEF Adopt
<1>3. /\ Entry(own) \in Nat /\ Units(Used(r)) \in Nat /\ ReservedExcept({r}) \in Nat
      /\ Budget \in Nat /\ Tolerance \in Nat
  BY <1>1, EntryFact, UsedFact, ReservedFact, BudgetFact
<1>4. /\ part \in Nat /\ Entry(own) <= part /\ Units(Used(r)) <= part /\ total \in Nat
  BY <1>3 DEF Larger
<1>5. /\ breach' \in {"none", "headroom", "budget"}
      /\ breach' # "budget" => breach # "budget" /\ total <= Budget
  <2> HIDE DEF total
  <2> QED BY <1>1, <1>2, <1>4, WorseFact
<1>6. /\ Replaced(r, Entry(own))
      /\ DOMAIN alloc' = DOMAIN alloc \cup {r}
  BY <1>2 DEF Replaced
<1>7. /\ DOMAIN alloc' \subseteq Runtimes /\ \A y \in DOMAIN alloc' : alloc'[y] \in Nat
      /\ Reserved' = ReservedExcept({r}) + Entry(own)
  BY <1>3, <1>6, ReplacedFact
<1>8. /\ phase' \in [Runtimes -> Phases] /\ phase'[r] = p
      /\ \A y \in Runtimes \ {r} : phase'[y] = phase[y]
      /\ claim' \in [Runtimes -> Nat] /\ claim'[r] = own
      /\ \A y \in Runtimes \ {r} : claim'[y] = claim[y]
  BY <1>1, <1>2 DEF Phases
<1>9. LedgerTypes'
  BY <1>5, <1>7, <1>8 DEF LedgerTypes
<1>10. OwnersAgree'
  <2>1. DOMAIN alloc' = {y \in Runtimes : phase'[y] \notin {"starting", "untracked"}}
    BY <1>6, <1>8 DEF OwnersAgree
  <2>2. ASSUME NEW y \in DOMAIN alloc'
        PROVE  alloc'[y] = Entry(claim[y])'
    <3>1. Entry(claim[y])' = Entry(claim'[y])
      BY DEF Entry, Units
    <3>2. CASE y = r
      BY <1>2, <1>8, <3>1, <3>2
    <3>3. CASE y # r
      <4>1. y \in DOMAIN alloc /\ y \in Runtimes /\ alloc'[y] = alloc[y]
        BY <1>2, <1>6, <1>7, <3>3
      <4> QED BY <1>8, <3>1, <3>3, <4>1 DEF OwnersAgree
    <3> QED BY <3>2, <3>3
  <2> QED BY <2>1, <2>2 DEF OwnersAgree
<1>11. Within'
  <2>1. Budget' = Budget /\ Tolerance' = Tolerance
    BY DEF Budget, Tolerance
  <2>2. total <= Budget => Reserved' <= Budget + Tolerance
    <3> HIDE DEF part
    <3> QED BY <1>3, <1>4, <1>7
  <2> QED BY <1>5, <2>1, <2>2 DEF Within
<1>12. alloc'[r] = Entry(own) /\ \A y \in DOMAIN alloc \ {r} : alloc'[y] = alloc[y]
  BY <1>6 DEF Replaced
<1>13. total <= Budget => Units(Used(r)) <= Budget
  <2> HIDE DEF part
  <2> QED BY <1>3, <1>4
<1> QED BY <1>5, <1>8, <1>9, <1>10, <1>11, <1>12, <1>13

\* A runtime that is starting owns nothing but what its engine shows.
LEMMA Starting ==
  ASSUME TypeOK, NEW r \in Runtimes, Asleep(r), phase[r] \in {"starting", "refusing", "unknown"}
  PROVE  /\ MayHold(r) \subseteq resident[r]
         /\ Memory(MayHold(r)) \in Nat /\ Memory(MayHold(r)) <= Used(r)
<1>1. MayHold(r) \subseteq resident[r] /\ resident[r] \in SUBSET Models
  BY DEF MayHold, Sent, Asleep, TypeOK
<1>2. MayHold(r) \in SUBSET Models
  BY <1>1
<1>3. Memory(MayHold(r)) \in Nat /\ Memory(MayHold(r)) <= Memory(resident[r])
  BY <1>1, <1>2, MemoryFact
<1> QED BY <1>1, <1>3, UsedFact

\* Nothing is charged but the aggregate.
LEMMA Untouched ==
  ASSUME setup \in Setups, NEW used \in Nat
  PROVE  /\ Unaccounted(used) \in Measures /\ Unaccounted(used).used = used
         /\ Credited(Unaccounted(used)) = {}
         /\ Accounted([m \in Models |-> 0], Unaccounted(used), {}) = Own(used)
<1> DEFINE z == [m \in Models |-> 0]
           x == Unaccounted(used)
           u == [m \in Models |-> Smaller(z[m], x.credit[m])]
<1>1. x \in Measures /\ x.used = used /\ Credited(x) = {} /\ \A m \in Models : x.credit[m] = 0
  BY DEF Unaccounted, Measures, Credited
<1>2. \A m \in Models : z[m] = 0 /\ u[m] = 0
  BY <1>1 DEF Smaller
<1>3. Charges(z, Models) = 0
  <2> HIDE DEF z
  <2> QED BY <1>2, GlobalCapacityAssumption, SumZero DEF Charges
<1>4. Charges(u, Models \ {}) = 0
  <2>1. Models \ {} = Models
    OBVIOUS
  <2> HIDE DEF u
  <2> QED BY <1>2, <2>1, GlobalCapacityAssumption, SumZero DEF Charges
<1>5. Own(used) \in Nat
  BY OwnFact
<1>6. Aggregate(x, z, {}) = AtLeast0(Own(used) - Charges(u, Models \ {}))
  BY <1>1 DEF Aggregate
<1>7. Aggregate(x, z, {}) = Own(used)
  <2> HIDE DEF u, x, z
  <2> QED BY <1>4, <1>5, <1>6 DEF AtLeast0, Larger
<1>8. Accounted(z, x, {}) = Own(used)
  <2> HIDE DEF x, z
  <2> QED BY <1>3, <1>5, <1>7 DEF Accounted
<1> QED BY <1>1, <1>8

LEMMA StartMeasuredKeeps ==
  ASSUME IInv, NEW r \in Runtimes, StartMeasured(r)
  PROVE  IInv'
<1> DEFINE p == IF stray[r] = {} THEN "up" ELSE "refusing"
           own == Own(Used(r))
           x == Unaccounted(Used(r))
<1>1. /\ phase[r] = "starting" /\ Adopt(r, own) /\ phase' = [phase EXCEPT ![r] = p]
      /\ measured' = [measured EXCEPT ![r] = x] /\ adopted' = [adopted EXCEPT ![r] = resident[r]]
      /\ UNCHANGED <<setup, restarts, slots, unsure, op, resident, late, extra, stray, granted>>
  BY DEF StartMeasured, config, engine
<1>2. TypeOK /\ OwnersAgree /\ Within /\ Sound(r) /\ Asleep(r)
  BY DEF IInv
<1>3. /\ setup \in Setups /\ Used(r) \in Nat /\ own \in Nat /\ Used(r) <= Grains(own)
      /\ Memory(resident[r]) <= Used(r)
  BY <1>2, UsedFact, OwnFact DEF TypeOK
<1>4. /\ x \in Measures /\ x.used = Used(r) /\ Credited(x) = {}
      /\ Accounted([m \in Models |-> 0], x, {}) = own
  BY <1>3, Untouched
<1>5. /\ LedgerTypes' /\ OwnersAgree' /\ Within'
      /\ \A y \in Runtimes \ {r} : phase'[y] = phase[y] /\ claim'[y] = claim[y]
      /\ \A y \in DOMAIN alloc \ {r} : alloc'[y] = alloc[y]
      /\ phase'[r] = p /\ claim'[r] = own
      /\ breach' # "budget" => breach # "budget"
  <2>1. p \in {"up", "refusing", "unknown"}
    OBVIOUS
  <2> HIDE DEF p, own
  <2> QED BY <1>1, <1>2, <1>3, <2>1, AdoptFact
<1>6. /\ measured' \in [Runtimes -> Measures] /\ measured'[r] = x
      /\ adopted' \in [Runtimes -> SUBSET Models] /\ adopted'[r] = resident[r]
      /\ \A y \in Runtimes \ {r} : measured'[y] = measured[y] /\ adopted'[y] = adopted[y]
  <2>1. OtherTypes
    BY <1>2, TypesSplit
  <2> HIDE DEF x
  <2> QED BY <1>1, <1>4, <2>1 DEF OtherTypes
<1>7. OtherTypes'
  <2>1. OtherTypes
    BY <1>2, TypesSplit
  <2> QED BY <1>1, <1>6, <2>1 DEF OtherTypes
<1>8. TypeOK'
  BY <1>5, <1>7, TypesJoin
<1>9. Alone(r)
  BY <1>1, <1>5, <1>6 DEF Alone, Same
<1>10. /\ op[r] = None /\ unsure[r] = {} /\ late[r] \subseteq stray[r]
       /\ slots[r] = [m \in Models |-> 0]
  BY <1>1, <1>2 DEF Asleep
<1>11. Asleep(r)'
  <2>1. Memory(MayHold(r))' = Memory(MayHold(r))
    <3>1. MayHold(r)' = MayHold(r)
      BY <1>1 DEF MayHold, Sent
    <3> QED BY <3>1 DEF Memory
  <2>2. Memory(MayHold(r)) <= Grains(own)
    <3>1. Memory(MayHold(r)) \in Nat /\ Memory(MayHold(r)) <= Used(r)
      BY <1>1, <1>2, Starting
    <3>2. Grains(own) \in Nat
      <4> HIDE DEF own
      <4> QED BY <1>3, GrainsFact
    <3> HIDE DEF own
    <3> QED BY <1>3, <3>1, <3>2
  <2>3. Grains(claim[r])' = Grains(own)
    BY <1>1, <1>5 DEF Grains
  <2>4. phase'[r] \in {"up", "refusing"}
    BY <1>5
  <2> HIDE DEF own, p
  <2> QED BY <1>1, <1>10, <2>1, <2>2, <2>3, <2>4 DEF Asleep
<1>12. ASSUME phase'[r] = "up"
       PROVE  /\ stray[r] = {}
              /\ Kept(own, slots[r], x, resident[r], {}, resident[r], late[r], {})
              /\ own = Accounted(slots[r], x, {})
  <2>1. stray[r] = {} /\ late[r] = {}
    BY <1>5, <1>10, <1>12
  <2>2. Paid(slots[r], resident[r])
    BY <1>10 DEF Paid
  <2>3. Booked(slots[r], resident[r], (resident[r] \cup late[r]) \ {})
    BY <2>1 DEF Booked
  <2>4. Proven(x, resident[r], resident[r])
    <3>1. (resident[r] \cap resident[r]) \cup Credited(x) = resident[r]
      BY <1>4
    <3> HIDE DEF x
    <3> QED BY <1>3, <1>4, <3>1 DEF Proven
  <2>5. own = Accounted(slots[r], x, {}) /\ Accounted(slots[r], x, {}) <= own
    BY <1>3, <1>4, <1>10
  <2> HIDE DEF own, x
  <2> QED BY <2>1, <2>2, <2>3, <2>4, <2>5 DEF Kept
<1>13. Sound(r)'
  <2>1. Before(slots[r], op[r]) = slots[r] /\ Asked(op[r]) = {}
    BY <1>10 DEF Before, Asked
  <2>2. phase'[r] # "poisoned"
    BY <1>5
  <2> HIDE DEF own, x, p
  <2> QED BY <1>1, <1>5, <1>6, <1>10, <1>12, <2>1, <2>2, SoundAfter DEF SoundBooks
<1> HIDE DEF own, x, p
<1> QED BY <1>1, <1>5, <1>8, <1>9, <1>11, <1>13, AloneKeeps

LEMMA StartUnknownKeeps ==
  ASSUME IInv, NEW r \in Runtimes, StartUnknown(r)
  PROVE  IInv'
<1> DEFINE own == Own(setup.budget)
<1>1. /\ phase[r] = "starting" /\ Adopt(r, own) /\ phase' = [phase EXCEPT ![r] = "unknown"]
      /\ UNCHANGED <<setup, restarts, slots, measured, adopted, unsure, op, resident, late, extra,
                     stray, granted>>
  BY DEF StartUnknown, config, books, engine
<1>2. TypeOK /\ OwnersAgree /\ Within /\ Sound(r) /\ Asleep(r)
  BY DEF IInv
<1>3. /\ setup \in Setups /\ setup.budget \in Nat /\ own \in Nat /\ Grain \in Nat \ {0}
      /\ Budget \in Nat
  BY <1>2, BudgetFact, OwnFact, GlobalCapacityAssumption DEF TypeOK
<1>4. /\ LedgerTypes' /\ OwnersAgree' /\ Within'
      /\ \A y \in Runtimes \ {r} : phase'[y] = phase[y] /\ claim'[y] = claim[y]
      /\ \A y \in DOMAIN alloc \ {r} : alloc'[y] = alloc[y]
      /\ phase'[r] = "unknown" /\ alloc'[r] = Entry(own)
      /\ breach' # "budget" => breach # "budget" /\ Units(Used(r)) <= Budget
  <2> HIDE DEF own
  <2> QED BY <1>1, <1>2, <1>3, AdoptFact
<1>5. OtherTypes'
  <2>1. OtherTypes
    BY <1>2, TypesSplit
  <2> QED BY <1>1, <2>1 DEF OtherTypes
<1>6. TypeOK'
  BY <1>4, <1>5, TypesJoin
<1>7. Alone(r)
  BY <1>1, <1>4 DEF Alone, Same
<1>8. Entry(own) = Units(setup.budget)
  BY DEF Entry, Own
<1>9. Budget <= Entry(own) /\ Entry(own) \in Nat
  <2> DEFINE k == Units(setup.budget)
             b == Budget
  <2>1. k \in Nat /\ setup.budget <= Grain * k
    BY <1>3, UnitsFact
  <2>2. b \in Nat /\ Grain * b <= setup.budget
    BY <1>3, DivFact DEF Budget
  <2> HIDE DEF k, b
  <2>3. ASSUME k + 1 <= b PROVE FALSE
    <3>1. Grain * (k + 1) <= Grain * b /\ Grain * b \in Nat
      BY <1>3, <2>1, <2>2, <2>3, MulMono
    <3>2. Grain * (k + 1) = Grain * k + Grain
      BY <1>3, <2>1
    <3>3. Grain * k \in Nat
      BY <1>3, <2>1, MulMono
    <3> QED BY <1>3, <2>1, <2>2, <3>1, <3>2, <3>3
  <2>4. b <= k
    BY <2>1, <2>2, <2>3
  <2> QED BY <1>8, <2>1, <2>4 DEF k, b
<1>10. breach' # "budget" => Memory(MayHold(r)) <= Grain * Entry(own)
  <2> SUFFICES ASSUME breach' # "budget" PROVE Memory(MayHold(r)) <= Grain * Entry(own)
    OBVIOUS
  <2>1. /\ Memory(MayHold(r)) \in Nat /\ Memory(MayHold(r)) <= Used(r)
        /\ Used(r) \in Nat /\ Units(Used(r)) \in Nat /\ Used(r) <= Grain * Units(Used(r))
    BY <1>1, <1>2, Starting, UsedFact
  <2>2. Units(Used(r)) <= Entry(own)
    <3> HIDE DEF own
    <3> QED BY <1>3, <1>4, <1>9, <2>1
  <2>3. Grain * Units(Used(r)) \in Nat /\ Grain * Units(Used(r)) <= Grain * Entry(own)
    <3> HIDE DEF own
    <3> QED BY <1>3, <1>9, <2>1, <2>2, MulMono
  <2>4. Grain * Entry(own) \in Nat
    <3> HIDE DEF own
    <3> QED BY <1>3, <1>9, MulMono
  <2> HIDE DEF own
  <2> QED BY <2>1, <2>3, <2>4
<1>11. Asleep(r)'
  <2>1. Memory(MayHold(r))' = Memory(MayHold(r))
    <3>1. MayHold(r)' = MayHold(r)
      BY <1>1 DEF MayHold, Sent
    <3> QED BY <3>1 DEF Memory
  <2>2. Budget' = Budget
    BY <1>1 DEF Budget
  <2>3. op[r] = None /\ unsure[r] = {} /\ late[r] \subseteq stray[r]
    BY <1>1, <1>2 DEF Asleep
  <2> HIDE DEF own
  <2> QED BY <1>1, <1>4, <1>9, <1>10, <2>1, <2>2, <2>3 DEF Asleep
<1>12. Sound(r)'
  BY <1>4 DEF Sound, SoundBooks
<1> HIDE DEF own
<1> QED BY <1>1, <1>4, <1>6, <1>7, <1>11, <1>12, AloneKeeps

LEMMA RestartKeeps ==
  ASSUME IInv, Restart
  PROVE  IInv'
<1>1. TypeOK /\ \A r \in Runtimes : Sound(r) /\ Asleep(r)
  BY DEF IInv
<1>2. /\ restarts' = restarts + 1 /\ phase' = AtBoot
      /\ late' = [r \in Runtimes |->
                    late[r] \cup (IF Sent(r) THEN {op[r].id} \ resident[r] ELSE {})]
      /\ stray' = [r \in Runtimes |->
                     stray[r] \cup unsure[r] \cup (IF op[r] = None THEN {} ELSE {op[r].id})]
      /\ alloc' = [r \in {} |-> 0] /\ claim' = [r \in Runtimes |-> 0]
      /\ slots' = [r \in Runtimes |-> [m \in Models |-> 0]]
      /\ measured' = [r \in Runtimes |-> Unaccounted(0)]
      /\ op' = [r \in Runtimes |-> None]
      /\ adopted' = [r \in Runtimes |-> {}] /\ unsure' = [r \in Runtimes |-> {}]
      /\ granted' = [r \in Runtimes |-> {}] /\ breach' = "none"
      /\ setup' = setup /\ resident' = resident /\ extra' = extra
  <2>1. \A r \in Runtimes : (IF Pending(r) THEN {op[r].id} ELSE {})
                            = (IF Sent(r) THEN {op[r].id} \ resident[r] ELSE {})
    BY DEF Pending
  <2> QED BY <2>1 DEF Restart
<1>3. DOMAIN alloc' = {}
  BY <1>2
<1>4. \A r \in Runtimes : /\ phase'[r] \in {"untracked", "starting"}
                          /\ phase'[r] = "untracked" <=> setup.killed /\ r \in Remote
  BY <1>2 DEF AtBoot
<1>5. Unaccounted(0) \in Measures
  BY DEF Unaccounted, Measures
<1>6. \A r \in Runtimes : op[r] # None => op[r].id \in Models
  BY <1>1 DEF TypeOK, Operation
<1>7. /\ late' \in [Runtimes -> SUBSET Models] /\ stray' \in [Runtimes -> SUBSET Models]
      /\ \A r \in Runtimes :
           /\ late'[r] = late[r] \cup (IF Sent(r) THEN {op[r].id} \ resident[r] ELSE {})
           /\ stray'[r] = stray[r] \cup unsure[r] \cup (IF op[r] = None THEN {} ELSE {op[r].id})
  BY <1>1, <1>2, <1>6 DEF TypeOK, Sent
<1>8. LedgerTypes'
  BY <1>2, <1>3, <1>4 DEF LedgerTypes, Phases, AtBoot
<1>9. OtherTypes'
  BY <1>1, <1>2, <1>5, <1>7 DEF OtherTypes, TypeOK
<1>10. TypeOK'
  BY <1>8, <1>9, TypesJoin
<1>11. OwnersAgree'
  BY <1>3, <1>4 DEF OwnersAgree
<1>12. Within'
  <2>1. Reserved' = 0
    <3>1. DOMAIN alloc' \ {} = {}
      BY <1>3
    <3> QED BY <3>1, SumEmpty DEF Reserved, ReservedExcept
  <2>2. Budget' = Budget /\ Tolerance' = Tolerance
    BY <1>2 DEF Budget, Tolerance
  <2>3. 0 <= Budget + Tolerance
    BY <1>1, BudgetFact DEF TypeOK
  <2> QED BY <2>1, <2>2, <2>3 DEF Within
<1>13. ASSUME NEW r \in Runtimes
       PROVE  Sound(r)' /\ Asleep(r)'
  <2>1. Sound(r)'
    BY <1>4 DEF Sound, SoundBooks
  <2>2. op'[r] = None /\ unsure'[r] = {} /\ slots'[r] = [m \in Models |-> 0]
    BY <1>2
  <2>3. phase[r] = "untracked" => setup.killed /\ r \in Remote
    BY <1>1 DEF Asleep
  <2>4. phase'[r] = "starting" => late'[r] \subseteq stray'[r]
    <3> SUFFICES ASSUME phase'[r] = "starting" PROVE late'[r] \subseteq stray'[r]
      OBVIOUS
    <3>1. phase[r] \in {"starting", "refusing", "unknown", "up", "poisoned"}
      BY <1>1, <1>4, <2>3 DEF TypeOK
    <3>2. late[r] \subseteq stray[r] \cup unsure[r]
      BY <1>1, <3>1 DEF Asleep, Sound, SoundBooks, Kept
    <3> QED BY <1>7, <3>2 DEF Sent
  <2> QED BY <1>2, <1>4, <2>1, <2>2, <2>4 DEF Asleep
<1> QED BY <1>10, <1>11, <1>12, <1>13 DEF IInv

LEMMA InitHolds == Init => IInv
<1> SUFFICES ASSUME Init PROVE IInv
  OBVIOUS
<1>1. /\ setup \in Setups /\ phase = AtBoot /\ restarts = 0
      /\ alloc = [r \in {} |-> 0] /\ claim = [r \in Runtimes |-> 0]
      /\ slots = [r \in Runtimes |-> [m \in Models |-> 0]]
      /\ measured = [r \in Runtimes |-> Unaccounted(0)]
      /\ adopted = [r \in Runtimes |-> {}] /\ unsure = [r \in Runtimes |-> {}]
      /\ op = [r \in Runtimes |-> None] /\ resident \in [Runtimes -> SUBSET Models]
      /\ late = [r \in Runtimes |-> {}] /\ extra = [r \in Runtimes |-> 0]
      /\ stray = [r \in Runtimes |-> {}] /\ granted = [r \in Runtimes |-> {}]
      /\ breach = "none"
  BY DEF Init
<1>2. DOMAIN alloc = {}
  BY <1>1
<1>3. \A r \in Runtimes : /\ phase[r] \in {"untracked", "starting"}
                          /\ phase[r] = "untracked" <=> setup.killed /\ r \in Remote
  BY <1>1 DEF AtBoot
<1>4. Unaccounted(0) \in [used : Nat, credit : [Models -> Nat]]
  BY DEF Unaccounted
<1>5. TypeOK
  <2>1. phase \in [Runtimes -> {"starting", "up", "refusing", "unknown", "untracked", "poisoned"}]
    BY <1>1 DEF AtBoot
  <2> QED BY <1>1, <1>2, <1>4, <2>1 DEF TypeOK
<1>6. OwnersAgree
  BY <1>2, <1>3 DEF OwnersAgree
<1>7. Within
  <2>1. Reserved = 0
    <3>1. DOMAIN alloc \ {} = {}
      BY <1>2
    <3> QED BY <3>1, SumEmpty DEF Reserved, ReservedExcept
  <2> QED BY <1>1, <2>1, BudgetFact DEF Within
<1>8. ASSUME NEW r \in Runtimes
      PROVE  Sound(r) /\ Asleep(r)
  <2>1. Sound(r)
    BY <1>3 DEF Sound, SoundBooks
  <2>2. Asleep(r)
    BY <1>1, <1>3 DEF Asleep
  <2> QED BY <2>1, <2>2
<1> QED BY <1>5, <1>6, <1>7, <1>8 DEF IInv
LEMMA NextKeeps == IInv /\ [Next]_vars => IInv'
<1> SUFFICES ASSUME IInv, [Next]_vars PROVE IInv'
  OBVIOUS
<1>1. \A r \in Runtimes : Serves[r] \subseteq Models
  BY GlobalCapacityAssumption
<1>2. CASE UNCHANGED vars
  <2>1. /\ UNCHANGED <<setup, restarts, phase, alloc, claim, slots, measured, adopted, unsure, op,
                       resident, late, extra, stray, granted, breach>>
    BY <1>2 DEF vars, config, ledger, books, engine, history
  <2>2. TypeOK /\ OwnersAgree /\ Within /\ \A r \in Runtimes : Sound(r) /\ Asleep(r)
    BY DEF IInv
  <2>3. LedgerTypes' /\ OwnersAgree' /\ Within'
    BY <2>1, <2>2, QuietLedger
  <2>4. OtherTypes
    BY <2>2, TypesSplit
  <2>5. OtherTypes'
    BY <2>1, <2>4 DEF OtherTypes
  <2>6. TypeOK'
    BY <2>3, <2>5, TypesJoin
  <2>7. ASSUME NEW r \in Runtimes PROVE Sound(r)' /\ Asleep(r)'
    <3>1. Same(r)
      BY <2>1 DEF Same
    <3> QED BY <2>1, <2>2, <3>1, SoundSame, AsleepSame
  <2> QED BY <2>3, <2>6, <2>7 DEF IInv
<1>3. CASE Restart
  BY <1>3, RestartKeeps
<1>4. ASSUME NEW r \in Runtimes, StartMeasured(r) PROVE IInv'
  BY <1>4, StartMeasuredKeeps
<1>5. ASSUME NEW r \in Runtimes, StartUnknown(r) PROVE IInv'
  BY <1>5, StartUnknownKeeps
<1>6. ASSUME NEW r \in Runtimes, NEW m \in Serves[r], NEW estimate \in Estimates[m],
             NEW confirmed \in BOOLEAN, StartLoad(r, m, estimate, confirmed)
      PROVE  IInv'
  BY <1>1, <1>6, StartLoadKeeps
<1>7. ASSUME NEW r \in Runtimes, EvictVictims(r) PROVE IInv'
  BY <1>7, EvictVictimsKeeps
<1>8. ASSUME NEW r \in Runtimes, Verify(r) PROVE IInv'
  BY <1>8, VerifyKeeps
<1>9. ASSUME NEW r \in Runtimes, Allocate(r) PROVE IInv'
  BY <1>9, AllocateKeeps
<1>10. ASSUME NEW r \in Runtimes, LoadDone(r) PROVE IInv'
  BY <1>10, LoadDoneKeeps
<1>11. ASSUME NEW r \in Runtimes, LoadRejected(r) PROVE IInv'
  BY <1>11, LoadRejectedKeeps
<1>12. ASSUME NEW r \in Runtimes, LoadUnconfirmed(r) PROVE IInv'
  BY <1>12, LoadUnconfirmedKeeps
<1>13. ASSUME NEW r \in Runtimes, LoadPanicked(r) PROVE IInv'
  BY <1>13, LoadPanickedKeeps
<1>14. ASSUME NEW r \in Runtimes, OtherClient(r) PROVE IInv'
  BY <1>14, OtherClientKeeps
<1>15. ASSUME NEW r \in Runtimes, NEW m \in Serves[r], Unload(r, m) PROVE IInv'
  BY <1>1, <1>15, UnloadKeeps
<1>16. ASSUME NEW r \in Runtimes, NEW m \in Serves[r], AllocateLate(r, m) PROVE IInv'
  BY <1>1, <1>16, AllocateLateKeeps
<1> QED BY <1>2, <1>3, <1>4, <1>5, <1>6, <1>7, <1>8, <1>9, <1>10, <1>11, <1>12, <1>13, <1>14,
           <1>15, <1>16 DEF Next, LoadStep

LEMMA Invariant == Spec => []IInv
BY InitHolds, NextKeeps, PTL DEF Spec
-----------------------------------------------------------------------------
(* What the invariant says of the engines *)

\* The claim of a runtime that was measured covers its engine.
LEMMA ClaimCovers ==
  ASSUME TypeOK, NEW r \in Runtimes, Sound(r), phase[r] \in {"up", "poisoned"}
  PROVE  Memory(MayHold(r)) <= Grains(claim[r])
<1> DEFINE o == op[r]
           s == Before(slots[r], o)
           x == measured[r]
           A == adopted[r]
           R == resident[r]
           L == late[r]
<1>1. /\ setup \in Setups /\ slots[r] \in [Models -> Nat] /\ x \in Measures /\ claim[r] \in Nat
      /\ A \in SUBSET Models /\ R \in SUBSET Models /\ L \in SUBSET Models
      /\ o \in Operation \cup {None}
  BY DEF TypeOK, Measures
<1>2. /\ stray[r] = {} /\ Kept(claim[r], s, x, A, unsure[r], R, L, Asked(o))
      /\ o # None => unsure[r] = {} /\ Flying(o, claim[r], slots[r], x, A, R)
  BY DEF Sound, SoundBooks
<1>3. CASE Sent(r)
  <2>1. o # None /\ o.pc = "load" /\ MayHold(r) = (R \cup L \cup {o.id}) \ stray[r]
    BY <1>3 DEF Sent, MayHold
  <2>2. Memory(R \cup {o.id}) <= Grains(claim[r]) /\ L = {}
    BY <1>2, <2>1 DEF Flying, Kept
  <2>3. MayHold(r) = R \cup {o.id}
    BY <1>2, <2>1, <2>2
  <2> QED BY <2>2, <2>3
<1>4. CASE ~Sent(r)
  <2> DEFINE E == R \cup L
  <2>1. MayHold(r) = E /\ Asked(o) = {}
    BY <1>2, <1>4 DEF Sent, MayHold, Asked
  <2>2. s \in [Models -> Nat]
    <3>1. CASE o = None
      BY <1>1, <3>1 DEF Before
    <3>2. CASE o # None
      <4>1. o \in Operation
        BY <1>1, <3>2
      <4> QED BY <1>1, <4>1, BeforeFact
    <3> QED BY <3>1, <3>2
  <2> HIDE DEF s
  <2>3. Proven(x, A, E)
    <3>1. E \cap A = R \cap A
      BY <1>2 DEF Kept
    <3> QED BY <1>2, <3>1 DEF Proven, Kept
  <2>4. \A m \in E \ A : Own(Size[m]) <= s[m] \/ x.credit[m] > 0
    BY <1>1, <1>2, <2>1 DEF Kept, Paid, Booked
  <2>5. /\ Accounted(s, x, unsure[r]) <= claim[r] /\ Accounted(s, x, unsure[r]) \in Nat
    BY <1>1, <1>2, <2>2, AggregateFact DEF Kept
  <2>6. Memory(E) <= Grains(Accounted(s, x, unsure[r]))
    <3>1. E \in SUBSET Models
      BY <1>1
    <3> HIDE DEF E, x, A
    <3> QED BY <1>1, <2>2, <2>3, <2>4, <3>1, Cover
  <2>7. /\ Grains(Accounted(s, x, unsure[r])) \in Nat /\ Grains(claim[r]) \in Nat
        /\ Grains(Accounted(s, x, unsure[r])) <= Grains(claim[r])
    BY <1>1, <2>5, GrainsMono
  <2>8. Memory(E) \in Nat
    BY <1>1, MemoryFact
  <2> HIDE DEF E
  <2> QED BY <2>1, <2>6, <2>7, <2>8
<1> QED BY <1>3, <1>4

LEMMA EntryCovers ==
  ASSUME IInv, NEW r \in DOMAIN alloc, phase[r] # "unknown"
  PROVE  Memory(MayHold(r)) <= Grain * alloc[r]
<1>1. TypeOK /\ OwnersAgree /\ r \in Runtimes /\ Sound(r) /\ Asleep(r)
  BY DEF IInv, TypeOK
<1>2. /\ setup \in Setups /\ claim[r] \in Nat /\ alloc[r] = Entry(claim[r])
      /\ phase[r] \in {"up", "poisoned", "refusing"} /\ MayHold(r) \in SUBSET Models
  BY <1>1 DEF TypeOK, OwnersAgree, MayHold, Operation, Sent
<1>3. Memory(MayHold(r)) <= Grains(claim[r])
  BY <1>1, <1>2, ClaimCovers DEF Asleep
<1>4. /\ Grains(claim[r]) \in Nat /\ Entry(claim[r]) \in Nat
      /\ Grains(claim[r]) <= Grain * Entry(claim[r])
  BY <1>2, EntryFact, GrainsFact
<1>5. Memory(MayHold(r)) \in Nat /\ Grain * Entry(claim[r]) \in Nat
  <2>1. Grain \in Nat
    BY GlobalCapacityAssumption
  <2>2. Memory(MayHold(r)) \in Nat
    BY <1>2, MemoryFact
  <2> QED BY ONLY <1>4, <2>1, <2>2
<1> QED BY <1>2, <1>3, <1>4, <1>5
\* Every measured entry covers its engine, and so does the one of a runtime
\* nobody could measure, unless what it holds was more than there is.
LEMMA EveryEntryCovers ==
  ASSUME IInv, breach # "budget", NEW r \in DOMAIN alloc
  PROVE  /\ Memory(MayHold(r)) \in Nat /\ alloc[r] \in Nat /\ Grain * alloc[r] \in Nat
         /\ Memory(MayHold(r)) <= Grain * alloc[r]
<1>1. TypeOK /\ r \in Runtimes /\ Asleep(r)
  BY DEF IInv, TypeOK
<1>2. MayHold(r) \in SUBSET Models /\ alloc[r] \in Nat /\ Grain \in Nat
  BY <1>1, GlobalCapacityAssumption DEF TypeOK, MayHold, Operation, Sent
<1>3. Memory(MayHold(r)) <= Grain * alloc[r]
  BY <1>1, EntryCovers DEF Asleep
<1>4. Memory(MayHold(r)) \in Nat
  BY <1>2, MemoryFact
<1>5. Grain * alloc[r] \in Nat
  BY ONLY <1>2
<1> QED BY <1>2, <1>3, <1>4, <1>5

-----------------------------------------------------------------------------
(* The theorems *)

\* supervisor.rs: a runtime's entry in the ledger is the charge its supervisor
\* believes it holds, covers what its engine has in memory or may still
\* allocate at every moment of an eviction, a load, a lost answer and a panic,
\* and is back to the books once no operation and no doubt is left.
THEOREM EntriesStayTrue == Spec => []EntriesTrue
<1>1. IInv => EntriesTrue
  <2> SUFFICES ASSUME IInv PROVE EntriesTrue
    OBVIOUS
  <2>1. TypeOK /\ OwnersAgree /\ \A r \in Runtimes : Sound(r)
    BY DEF IInv
  <2>2. EntryCoversEngine
    BY EntryCovers DEF EntryCoversEngine
  <2>3. SettledWhenIdle
    BY <2>1 DEF SettledWhenIdle, Sound, SoundBooks, TypeOK
  <2> QED BY <2>1, <2>2, <2>3 DEF EntriesTrue
<1> QED BY <1>1, Invariant, PTL

\* What the engines hold is at most what is reserved.
LEMMA JointFits == IInv => JointBudget
<1> SUFFICES ASSUME IInv, breach # "budget"
             PROVE  JointMemory <= Grain * (Budget + Tolerance)
  BY DEF JointBudget
<1> DEFINE D == DOMAIN alloc
           h == [r \in D |-> Memory(MayHold(r))]
           g == [r \in D |-> Grain * alloc[r]]
<1>1. TypeOK /\ Reserved <= Budget + Tolerance
  BY DEF IInv, Within
<1>2. IsFiniteSet(D) /\ Grain \in Nat
  BY <1>1, GlobalCapacityAssumption, FS_Subset DEF TypeOK
<1>3. \A r \in D : /\ Memory(MayHold(r)) \in Nat /\ Grain * alloc[r] \in Nat /\ alloc[r] \in Nat
                   /\ Memory(MayHold(r)) <= Grain * alloc[r]
  BY EveryEntryCovers
<1>4. Summable(h, D) /\ Summable(g, D) /\ \A r \in D : h[r] <= g[r]
  BY <1>2, <1>3 DEF Summable
<1>5. Countable(alloc, D)
  BY <1>2, <1>3 DEF Countable
<1>6. JointMemory = SumFunctionOnSet(h, D)
  BY DEF JointMemory
<1>7. SumFunctionOnSet(h, D) <= SumFunctionOnSet(g, D)
  <2> HIDE DEF h, g, D
  <2> QED BY <1>4, SumMono
<1>8. SumFunctionOnSet(g, D) = Grain * SumFunctionOnSet(alloc, D)
  <2>1. g = [r \in D |-> Grain * alloc[r]]
    OBVIOUS
  <2> HIDE DEF g, D
  <2> QED BY ONLY <1>2, <1>5, <2>1, SumScale
<1>9. SumFunctionOnSet(alloc, D) = Reserved
  <2>1. DOMAIN alloc \ {} = D
    OBVIOUS
  <2> QED BY <2>1 DEF Reserved, ReservedExcept
<1>10. SumFunctionOnSet(alloc, D) \in Nat
  <2> HIDE DEF D
  <2> QED BY <1>5, SumNat
<1>11. Budget \in Nat /\ Tolerance \in Nat
  BY <1>1, BudgetFact DEF TypeOK
<1>12. Grain * Reserved <= Grain * (Budget + Tolerance)
  <2>1. Budget + Tolerance \in Nat /\ Reserved \in Nat
    BY <1>9, <1>10, <1>11
  <2> QED BY <1>1, <1>2, <2>1, MulMono
<1>13. /\ SumFunctionOnSet(h, D) \in Int /\ SumFunctionOnSet(g, D) \in Int
  <2> HIDE DEF h, g, D
  <2> QED BY <1>4, SumInt
<1> DEFINE a == SumFunctionOnSet(h, D)
           b == SumFunctionOnSet(g, D)
           c == Grain * (Budget + Tolerance)
<1>14. a \in Int /\ b \in Int /\ c \in Int /\ a <= b /\ b <= c
  <2>1. Budget + Tolerance \in Nat
    BY <1>11
  <2>2. c \in Int
    BY ONLY <1>2, <2>1
  <2>3. b <= c
    BY <1>8, <1>9, <1>12
  <2> HIDE DEF a, b, c
  <2>4. a \in Int /\ b \in Int /\ a <= b
    BY <1>7, <1>13 DEF a, b
  <2> QED BY <2>2, <2>3, <2>4
<1>15. a <= c
  <2> HIDE DEF a, b, c
  <2> QED BY <1>14
<1> QED BY <1>6, <1>15

\* global_capacity.rs: whatever loads, evictions, settlements, restarts and
\* late allocations interleave on however many runtimes, together their engines
\* never hold more than the process was given, as long as nothing recorded
\* without admission went over it.
THEOREM BudgetHolds == Spec => []JointBudget
BY JointFits, Invariant, PTL
\* The plan of a load is an amount, and the ledger admitted it.
LEMMA PlanFact ==
  ASSUME TypeOK, NEW r \in Runtimes, NEW m \in Models, NEW estimate \in Estimates[m],
         NEW confirmed \in BOOLEAN, StartLoad(r, m, estimate, confirmed)
  PROVE  /\ UNCHANGED <<setup, phase, breach>>
         /\ \E planned \in Nat : Admits(r, planned, confirmed) /\ Claim(r, planned)
<1> DEFINE charge == RequestCharge(r, m, estimate)
<1>1. UNCHANGED <<setup, phase, breach>>
  BY DEF StartLoad, config, history
<1>2. PICK victims \in VictimSets(r, m, charge) :
        LET planned == PlannedWith(r, m, charge, victims)
        IN  Admits(r, planned, confirmed) /\ Claim(r, planned)
  BY DEF StartLoad
<1>3. setup \in Setups /\ slots[r] \in [Models -> Nat] /\ measured[r] \in Measures
  BY DEF TypeOK, Measures
<1>4. estimate \in Nat /\ Own(estimate) \in Nat
  BY <1>3, GlobalCapacityAssumption, OwnFact
<1>5. Seen(r) \in Nat
  BY <1>3, AggregateFact DEF Seen
<1>6. charge \in Nat
  BY <1>4, <1>5 DEF RequestCharge, AtLeast0, Larger
<1>7. Charges(slots[r], Models \ (victims \cup {m})) \in Nat
  BY <1>3, ChargesFact
<1>8. PlannedWith(r, m, charge, victims) \in Nat
  <2> HIDE DEF charge
  <2> QED BY <1>5, <1>6, <1>7 DEF PlannedWith
<1> HIDE DEF charge
<1> QED BY <1>1, <1>2, <1>8

\* Only a load that is admitted turns an idle supervisor into a busy one.
LEMMA OnlyLoadsStart ==
  ASSUME TypeOK, [Next]_vars, NEW r \in Runtimes, op[r] = None, op'[r] # None
  PROVE  \E m \in Models, confirmed \in BOOLEAN :
           \E estimate \in Estimates[m] : StartLoad(r, m, estimate, confirmed)
<1>1. op \in [Runtimes -> Operation \cup {None}]
  BY DEF TypeOK
<1>2. ~ UNCHANGED vars /\ ~ Restart
  BY DEF vars, Restart
<1>3. ASSUME NEW y \in Runtimes,
             \/ StartMeasured(y) \/ StartUnknown(y) \/ Verify(y) \/ Allocate(y) \/ OtherClient(y)
             \/ EvictVictims(y) \/ LoadDone(y) \/ LoadRejected(y) \/ LoadUnconfirmed(y)
             \/ LoadPanicked(y)
      PROVE  FALSE
  <2>1. CASE StartMeasured(y) \/ StartUnknown(y) \/ Allocate(y) \/ OtherClient(y)
    BY <2>1 DEF StartMeasured, StartUnknown, Allocate, OtherClient, books
  <2>2. CASE Verify(y)
    BY <1>1, <2>2 DEF Verify
  <2>3. CASE EvictVictims(y)
    <3>1. op[y] # None /\ \E z : op' = [op EXCEPT ![y] = z]
      BY <2>3 DEF EvictVictims, Finish
    <3> QED BY <1>1, <3>1
  <2>4. CASE LoadDone(y) \/ LoadRejected(y) \/ LoadUnconfirmed(y) \/ LoadPanicked(y)
    <3>1. op' = [op EXCEPT ![y] = None]
      BY <2>4 DEF LoadDone, LoadRejected, LoadUnconfirmed, LoadPanicked, Finish
    <3> QED BY <1>1, <3>1
  <2> QED BY <1>3, <2>1, <2>2, <2>3, <2>4
<1>4. ASSUME NEW y \in Runtimes, NEW m \in Serves[y], Unload(y, m) \/ AllocateLate(y, m)
      PROVE  FALSE
  <2>1. op' = op \/ op' = [op EXCEPT ![y] = None]
    BY <1>4 DEF Unload, AllocateLate, Finish
  <2> QED BY <1>1, <2>1
<1>5. PICK y \in Runtimes :
        \E m \in Serves[y], confirmed \in BOOLEAN :
          \E estimate \in Estimates[m] : StartLoad(y, m, estimate, confirmed)
  BY <1>2, <1>3, <1>4 DEF Next, LoadStep
<1>6. Serves[y] \subseteq Models
  BY GlobalCapacityAssumption
<1>7. y = r
  <2>1. \E z : op' = [op EXCEPT ![y] = z]
    BY <1>5 DEF StartLoad
  <2> QED BY <1>1, <2>1
<1> QED BY <1>5, <1>6, <1>7

\* A runtime nobody could measure takes the whole budget from the others.
LEMMA UnknownTakesAll ==
  ASSUME IInv, NEW r \in Runtimes, NEW x \in Runtimes \ {r}, phase[x] = "unknown"
  PROVE  Budget <= ReservedExcept({r})
<1>1. TypeOK /\ OwnersAgree /\ Asleep(x)
  BY DEF IInv
<1> DEFINE D == DOMAIN alloc \ {r}
<1>2. x \in D /\ Budget <= alloc[x]
  BY <1>1 DEF OwnersAgree, Asleep
<1>3. Summable(alloc, D) /\ Countable(alloc, D \ {x})
  BY <1>1, GlobalCapacityAssumption, FS_Subset DEF TypeOK, Summable, Countable
<1>4. SumFunctionOnSet(alloc, D) = alloc[x] + SumFunctionOnSet(alloc, D \ {x})
  <2> HIDE DEF D
  <2> QED BY ONLY <1>2, <1>3, SumSplit
<1>5. SumFunctionOnSet(alloc, D \ {x}) \in Nat
  <2> HIDE DEF D
  <2> QED BY <1>3, SumNat
<1>6. alloc[x] \in Nat /\ Budget \in Nat
  BY <1>1, <1>2, BudgetFact DEF TypeOK
<1>7. ReservedExcept({r}) = SumFunctionOnSet(alloc, D)
  BY DEF ReservedExcept
<1> HIDE DEF D
<1> QED BY <1>2, <1>4, <1>5, <1>6, <1>7

\* global_capacity.rs, check_admission and resize: while the process is over
\* its ceiling no load raises an entry, and while some runtime's residency is
\* unknown none does by more than the tolerance, whoever claims at what time.
THEOREM NoGrowth == Spec => NoGrowthWhenFull
<1>1. ASSUME IInv, [Next]_vars, NEW r \in DOMAIN alloc, op[r] = None, op'[r] # None
      PROVE  /\ Reserved > Budget + Tolerance => alloc'[r] <= alloc[r]
             /\ (\E x \in Runtimes \ {r} : phase[x] = "unknown") =>
                  alloc'[r] <= alloc[r] + Tolerance
  <2>1. TypeOK /\ OwnersAgree /\ Within /\ r \in Runtimes
    BY <1>1 DEF IInv, TypeOK
  <2>2. PICK m \in Models, confirmed \in BOOLEAN :
          \E estimate \in Estimates[m] : StartLoad(r, m, estimate, confirmed)
    BY <1>1, <2>1, OnlyLoadsStart
  <2>3. PICK planned \in Nat : Admits(r, planned, confirmed) /\ Claim(r, planned)
    BY <2>1, <2>2, PlanFact
  <2>4. UNCHANGED <<setup, phase, breach>>
    BY <2>1, <2>2, PlanFact
  <2>5. /\ LedgerTypes' /\ OwnersAgree'
        /\ \/ alloc'[r] <= alloc[r]
           \/ ReservedExcept({r}) + alloc'[r] <= Budget + Tolerance
    BY <1>1, <2>1, <2>3, <2>4, ClaimFact
  <2>6. alloc'[r] \in Nat
    <3>1. DOMAIN alloc' = DOMAIN alloc
      BY <2>1, <2>4, <2>5 DEF OwnersAgree
    <3> QED BY <1>1, <2>5, <3>1 DEF LedgerTypes
  <2>7. /\ Reserved = ReservedExcept({r}) + alloc[r] /\ ReservedExcept({r}) \in Nat
        /\ alloc[r] \in Nat /\ Budget \in Nat /\ Tolerance \in Nat
    BY <1>1, <2>1, ReservedFact, BudgetFact DEF TypeOK
  <2>8. (\E x \in Runtimes \ {r} : phase[x] = "unknown") => Budget <= ReservedExcept({r})
    BY <1>1, <2>1, UnknownTakesAll
  <2> QED BY <2>5, <2>6, <2>7, <2>8
<1>2. IInv /\ [Next]_vars =>
        [\A r \in DOMAIN alloc : op[r] = None /\ op'[r] # None =>
           /\ Reserved > Budget + Tolerance => alloc'[r] <= alloc[r]
           /\ (\E x \in Runtimes \ {r} : phase[x] = "unknown") =>
                alloc'[r] <= alloc[r] + Tolerance]_vars
  BY <1>1
<1> QED BY <1>2, Invariant, PTL DEF Spec, NoGrowthWhenFull

\* global_capacity.rs, claim_charge: a caller who is told that the load needs a
\* confirmation gets it admitted by confirming the same plan, even when the old
\* claim is held beside it.
THEOREM ConfirmationNotInVain == Spec => []ConfirmationHelps
<1>1. IInv => ConfirmationHelps
  <2> SUFFICES ASSUME IInv, NEW r \in DOMAIN alloc, NEW planned \in 0 .. Own(setup.budget),
                      Judge(r, Held(r, planned), planned, FALSE) = "headroom"
               PROVE  Judge(r, Held(r, planned), planned, TRUE) = "ok"
    BY DEF ConfirmationHelps
  <2>1. /\ setup \in Setups /\ r \in Runtimes /\ claim[r] \in Nat /\ alloc[r] \in Nat
        /\ alloc[r] = Entry(claim[r])
    BY DEF IInv, TypeOK, OwnersAgree
  <2>2. /\ Budget \in Nat /\ Tolerance \in Nat /\ setup.budget \in Nat /\ Usable \in Nat
        /\ ReservedExcept({r}) \in Nat /\ planned \in Nat
    <3>1. TypeOK
      BY DEF IInv
    <3>2. Own(setup.budget) \in Nat
      BY <2>1, BudgetFact, OwnFact
    <3> QED BY <2>1, <3>1, <3>2, BudgetFact, ReservedFact
  <2>3. setup.exact
    <3>1. ASSUME ~setup.exact, NEW c, NEW units PROVE Growth(r, units, TRUE) # "headroom"
      BY DEF Growth, CheckAdmission
    <3> QED BY <3>1 DEF Judge
  <2> DEFINE total == ReservedExcept({r}) + planned
             held == Held(r, planned)
  <2>4. total <= Budget
    <3>1. total > Budget => Judge(r, held, planned, FALSE) = "oom"
      <4> HIDE DEF held
      <4> QED BY <2>3 DEF Judge
    <3>2. Judge(r, held, planned, FALSE) = "headroom"
      OBVIOUS
    <3>3. ~(total > Budget)
      BY ONLY <3>1, <3>2
    <3> QED BY <2>2, <3>3
  <2>5. Growth(r, held, TRUE) = "ok"
    <3> SUFFICES ASSUME ~(held <= alloc[r]) PROVE Growth(r, held, TRUE) = "ok"
      BY DEF Growth
    <3>1. held = planned /\ planned > 0
      BY <2>1, <2>2, <2>3 DEF Held, Larger, Entry
    <3>2. Budget > 0
      BY <2>2, <2>4, <3>1
    <3>3. setup.budget # 0
      <4>1. Grain * Budget <= setup.budget
        BY <2>2, DivFact, GlobalCapacityAssumption DEF Budget
      <4>2. Grain \in Nat \ {0}
        BY GlobalCapacityAssumption
      <4>3. Grain * 1 <= Grain * Budget
        BY <2>2, <3>2, <4>2, MulMono
      <4> QED BY <2>2, <4>1, <4>2, <4>3
    <3>4. CheckAdmission(total, TRUE) = "ok"
      BY <2>2, <2>4 DEF CheckAdmission
    <3> HIDE DEF held
    <3> QED BY <3>1, <3>3, <3>4 DEF Growth
  <2> QED BY <2>2, <2>3, <2>4, <2>5 DEF Judge
<1> QED BY <1>1, Invariant, PTL
-----------------------------------------------------------------------------
(* The headroom *)

\* What a model that was not adopted may be charged.
Charged(m) == {0} \cup {Own(e) : e \in Estimates[m]}

\* What the ledger admitted for the load in flight.
PlanOf(o, s, x) ==
  Charges(s, Models \ (o.victims \cup {o.id})) + Aggregate(x, Before(s, o), {}) + o.charge

\* A load without confirmation that will allocate, if it is sent.
Waits(o, A, R) == o # None /\ ~o.confirmed /\ o.id \notin A \cup R

\* What was allocated without confirmation or is about to be.
Unconfirmed(o, R, L, G, lost) ==
  ((R \cup L) \ (G \cup lost))
    \cup (IF o # None /\ o.pc = "load" /\ ~o.confirmed /\ o.id \notin R THEN {o.id} ELSE {})

\* The part of the usable budget that this takes, beside the plan.
NeedOf(o, s, x, A, R, L, G, lost) ==
  Larger(Memory(Unconfirmed(o, R, L, G, lost)),
         IF Waits(o, A, R) THEN Grains(PlanOf(o, s, x)) ELSE 0)
Need(r) == NeedOf(op[r], slots[r], measured[r], adopted[r], resident[r], late[r],
                  granted[r], stray[r])

Calm == setup.exact /\ breach = "none"

\* The plan of a load is part of the claim; a model that is charged already is
\* reloaded without victims; and what is sent without confirmation fits the
\* plan together with all that is resident.
FrugalBooks(p, c, s, o, x, A, R, G, calm) ==
  /\ p = "starting" => G = {}
  /\ p = "up" =>
       /\ G \cap A = {}
       /\ \A m \in Models \ A : s[m] \in Charged(m)
       /\ o # None =>
            /\ PlanOf(o, s, x) <= c
            /\ o.id \notin A => o.prev \in Charged(o.id)
            /\ calm /\ o.id \notin A /\ o.prev > 0 => o.victims = {}
            /\ calm /\ Waits(o, A, R) /\ o.pc = "load" =>
                 Memory(R \cup {o.id}) <= Grains(PlanOf(o, s, x))

Frugal(r) == FrugalBooks(phase[r], claim[r], slots[r], op[r], measured[r], adopted[r],
                         resident[r], granted[r], Calm)

Spared == Calm => SumFunctionOnSet([r \in DOMAIN alloc |-> Need(r)], DOMAIN alloc)
                    <= Grain * Usable

HInv == IInv /\ (\A r \in Runtimes : Frugal(r)) /\ Spared

\* Two charges of a model that the requests agree on are the same.
LEMMA ChargedFact ==
  ASSUME setup \in Setups, NEW m \in Models, NEW a \in Charged(m)
  PROVE  /\ a \in Nat
         /\ SteadyEstimates => \A b \in Charged(m) : a > 0 /\ b > 0 => a = b
<1>1. \A e \in Estimates[m] : e \in Nat /\ Own(e) \in Nat
  BY GlobalCapacityAssumption, OwnFact
<1>2. a \in Nat
  BY <1>1 DEF Charged
<1>3. ASSUME SteadyEstimates, NEW b \in Charged(m), a > 0, b > 0
      PROVE  a = b
  <2>1. PICK d \in Estimates[m] : a = Own(d)
    BY <1>3 DEF Charged
  <2>2. PICK e \in Estimates[m] : b = Own(e)
    BY <1>3 DEF Charged
  <2>3. d = e
    BY <1>3 DEF SteadyEstimates
  <2> QED BY <2>1, <2>2, <2>3
<1> QED BY <1>2, <1>3

\* The more the slots are charged, the less of the aggregate is left to charge.
LEMMA AggregateLess ==
  ASSUME setup \in Setups, NEW s \in [Models -> Nat], NEW b \in [Models -> Nat],
         NEW x \in Measures, \A m \in Models : b[m] <= s[m]
  PROVE  Aggregate(x, s, {}) <= Aggregate(x, b, {})
<1> DEFINE u == [m \in Models |-> Smaller(s[m], x.credit[m])]
           v == [m \in Models |-> Smaller(b[m], x.credit[m])]
<1>1. \A m \in Models : u[m] \in Nat /\ v[m] \in Nat /\ v[m] <= u[m]
  <2> SUFFICES ASSUME NEW m \in Models PROVE u[m] \in Nat /\ v[m] \in Nat /\ v[m] <= u[m]
    OBVIOUS
  <2>1. s[m] \in Nat /\ b[m] \in Nat /\ x.credit[m] \in Nat /\ b[m] <= s[m]
    BY DEF Measures
  <2> QED BY <2>1 DEF Smaller
<1>2. u \in [Models -> Nat] /\ v \in [Models -> Nat]
  BY <1>1
<1> HIDE DEF u, v
<1>3. Charges(v, Models) <= Charges(u, Models)
      /\ Charges(u, Models) \in Nat /\ Charges(v, Models) \in Nat
  <2>1. Summable(u, Models) /\ Summable(v, Models)
    BY <1>1, GlobalCapacityAssumption DEF Summable
  <2> QED BY <1>1, <1>2, <2>1, SumMono, ChargesFact DEF Charges
<1>4. Own(x.used) \in Nat
  BY OwnFact DEF Measures
<1>5. Models \ {} = Models
  OBVIOUS
<1>6. Aggregate(x, s, {}) = AtLeast0(Own(x.used) - Charges(u, Models))
      /\ Aggregate(x, b, {}) = AtLeast0(Own(x.used) - Charges(v, Models))
  BY <1>5 DEF Aggregate, u, v
<1> QED BY <1>3, <1>4, <1>6 DEF AtLeast0, Larger

LEMMA PlanOfFact ==
  ASSUME setup \in Setups, NEW s \in [Models -> Nat], NEW x \in Measures, NEW o \in Operation
  PROVE  /\ Charges(s, Models \ (o.victims \cup {o.id})) \in Nat
         /\ Aggregate(x, Before(s, o), {}) \in Nat
         /\ o.charge \in Nat /\ o.prev \in Nat
         /\ PlanOf(o, s, x) \in Nat
<1>1. Charges(s, Models \ (o.victims \cup {o.id})) \in Nat
  BY ChargesFact
<1>2. Aggregate(x, Before(s, o), {}) \in Nat
  BY BeforeFact, AggregateFact
<1>3. o.charge \in Nat /\ o.prev \in Nat
  BY DEF Operation
<1> QED BY <1>1, <1>2, <1>3 DEF PlanOf

\* A plan that keeps the victims' and the target's old charges apart covers
\* the engine with the target in it.
LEMMA PlanCovers ==
  ASSUME setup \in Setups, NEW s \in [Models -> Nat], NEW x \in Measures,
         NEW A \in SUBSET Models, NEW R \in SUBSET Models, NEW o \in Operation,
         Proven(x, A, R), Paid(Before(s, o), A), Booked(Before(s, o), A, R),
         o.charge = s[o.id], o.id \notin A, Own(Size[o.id]) <= o.charge,
         o.prev > 0 => o.prev = o.charge /\ o.victims = {},
         \/ o.victims = {}
         \/ \E used \in Nat :
              /\ Memory(R) <= used
              /\ Own(used) <= Charges(s, Models \ (o.victims \cup {o.id}))
                              + Aggregate(x, s, {}) + o.prev
  PROVE  Memory(R \cup {o.id}) <= Grains(PlanOf(o, s, x))
<1> DEFINE E == R \cup {o.id}
           b == Before(s, o)
           p == PlanOf(o, s, x)
           rest == Charges(s, Models \ (o.victims \cup {o.id}))
<1>1. /\ o.id \in Models /\ o.charge \in Nat /\ o.prev \in Nat /\ o.victims \in SUBSET Models
      /\ b \in [Models -> Nat] /\ b[o.id] = o.prev
      /\ \A m \in Models \ {o.id} : b[m] = s[m]
      /\ E \in SUBSET Models
  BY BeforeFact DEF Operation
<1>2. p \in Nat /\ rest \in Nat /\ Aggregate(x, b, {}) \in Nat
      /\ p = rest + Aggregate(x, b, {}) + o.charge
  BY PlanOfFact DEF PlanOf
<1>3. Aggregate(x, s, {}) \in Nat /\ Aggregate(x, s, {}) <= Aggregate(x, b, {})
  <2>1. \A m \in Models : b[m] <= s[m]
    <3> SUFFICES ASSUME NEW m \in Models PROVE b[m] <= s[m]
      OBVIOUS
    <3>1. s[m] \in Nat
      OBVIOUS
    <3> HIDE DEF b
    <3>2. CASE m = o.id
      BY <1>1, <3>1, <3>2
    <3>3. CASE m # o.id
      BY <1>1, <3>1, <3>3
    <3> QED BY <3>2, <3>3
  <2> HIDE DEF b
  <2> QED BY <1>1, <2>1, AggregateLess, AggregateFact
<1>4. Memory(E) \in Nat
  BY <1>1, MemoryFact
<1>5. CASE o.victims = {}
  <2>1. Charges(s, Models) = s[o.id] + Charges(s, Models \ {o.id})
    <3>1. Summable(s, Models)
      BY GlobalCapacityAssumption DEF Summable
    <3> QED BY <1>1, <3>1, SumSplit DEF Charges
  <2>2. /\ Accounted(s, x, {}) \in Nat
        /\ Accounted(s, x, {}) = Charges(s, Models) + Aggregate(x, s, {})
    BY AggregateFact
  <2>3. rest = Charges(s, Models \ {o.id})
    <3>1. o.victims \cup {o.id} = {o.id}
      BY <1>5
    <3> QED BY <3>1
  <2>4. Accounted(s, x, {}) <= p
    <3> HIDE DEF p, b, rest
    <3> QED BY <1>1, <1>2, <1>3, <2>1, <2>2, <2>3
  <2>5. \A m \in E \ A : Own(Size[m]) <= s[m]
    <3> SUFFICES ASSUME NEW m \in E \ A PROVE Own(Size[m]) <= s[m]
      OBVIOUS
    <3>1. CASE m = o.id
      BY <3>1
    <3>2. CASE m # o.id
      <4>1. m \in R \ A /\ m \in Models
        BY <3>2
      <4>2. b[m] > 0 /\ Own(Size[m]) <= b[m]
        BY <4>1 DEF Booked, Paid
      <4> HIDE DEF b
      <4> QED BY <1>1, <3>2, <4>1, <4>2
    <3> QED BY <3>1, <3>2
  <2>6. Proven(x, A, E)
    <3>1. E \cap A = R \cap A
      OBVIOUS
    <3> QED BY <3>1 DEF Proven
  <2>7. Memory(E) <= Grains(Accounted(s, x, {}))
    <3> HIDE DEF E
    <3> QED BY <1>1, <2>5, <2>6, Cover
  <2>8. Grains(Accounted(s, x, {})) \in Nat /\ Grains(p) \in Nat
        /\ Grains(Accounted(s, x, {})) <= Grains(p)
    <3> HIDE DEF p
    <3> QED BY <1>2, <2>2, <2>4, GrainsMono
  <2> QED BY <1>4, <2>7, <2>8
<1>6. CASE o.victims # {}
  <2>1. o.prev = 0
    BY <1>1, <1>6
  <2>2. PICK used \in Nat :
              /\ Memory(R) <= used
              /\ Own(used) <= rest + Aggregate(x, s, {}) + o.prev
    BY <1>6
  <2>3. Own(used) \in Nat /\ used <= Grains(Own(used))
    BY OwnFact
  <2>4. Own(used) + o.charge <= p /\ Own(used) + o.charge \in Nat
    <3> HIDE DEF p, b, rest
    <3> QED BY <1>1, <1>2, <1>3, <2>1, <2>2, <2>3
  <2>5. Size[o.id] \in Nat /\ Memory({o.id}) = Size[o.id] /\ Own(Size[o.id]) \in Nat
    BY <1>1, OneModel
  <2>6. Size[o.id] <= Grains(Own(Size[o.id]))
    BY <2>5, OwnFact
  <2>7. Grains(Own(Size[o.id])) \in Nat /\ Grains(Own(Size[o.id])) <= Grains(o.charge)
    BY <1>1, <2>5, GrainsMono
  <2>8. /\ Grains(Own(used)) \in Nat /\ Grains(o.charge) \in Nat
        /\ Grains(Own(used) + o.charge) = Grains(Own(used)) + Grains(o.charge)
    BY <1>1, <2>3, GrainsFact
  <2>9. /\ Grains(Own(used) + o.charge) \in Nat /\ Grains(p) \in Nat
        /\ Grains(Own(used) + o.charge) <= Grains(p)
    <3> HIDE DEF p
    <3> QED BY <1>2, <2>4, GrainsMono
  <2>10. /\ Memory(E) \in Nat /\ Memory(R) \in Nat
         /\ Memory(E) <= Memory(R) + Memory({o.id})
    BY <1>1, MemoryFact
  <2> QED BY <2>2, <2>3, <2>5, <2>6, <2>7, <2>8, <2>9, <2>10
<1> QED BY <1>5, <1>6

\* What is needed, and the books, mean the same after a step.
LEMMA NeedAfter ==
  ASSUME NEW r, setup' = setup
  PROVE  /\ Need(r)' = NeedOf(op'[r], slots'[r], measured'[r], adopted'[r], resident'[r],
                              late'[r], granted'[r], stray'[r])
         /\ Frugal(r)' <=> FrugalBooks(phase'[r], claim'[r], slots'[r], op'[r], measured'[r],
                                       adopted'[r], resident'[r], granted'[r], Calm')
         /\ Usable' = Usable
BY DEF Need, NeedOf, Frugal, FrugalBooks, PlanOf, Waits, Unconfirmed, Charged, Aggregate, Own, Units,
       Grains, Charges, Before, AtLeast0, Larger, Smaller, Memory, Usable, Budget

LEMMA UnconfirmedType ==
  ASSUME NEW o \in Operation \cup {None}, NEW R \in SUBSET Models, NEW L \in SUBSET Models,
         NEW G, NEW lost
  PROVE  Unconfirmed(o, R, L, G, lost) \in SUBSET Models
BY DEF Unconfirmed, Operation

LEMMA NeedOfFact ==
  ASSUME setup \in Setups, NEW o \in Operation \cup {None}, NEW s \in [Models -> Nat],
         NEW x \in Measures, NEW A, NEW R \in SUBSET Models, NEW L \in SUBSET Models,
         NEW G, NEW lost
  PROVE  /\ NeedOf(o, s, x, A, R, L, G, lost) \in Nat
         /\ Memory(Unconfirmed(o, R, L, G, lost)) \in Nat
         /\ Memory(Unconfirmed(o, R, L, G, lost)) <= NeedOf(o, s, x, A, R, L, G, lost)
         /\ Waits(o, A, R) =>
              /\ Grains(PlanOf(o, s, x)) \in Nat
              /\ Grains(PlanOf(o, s, x)) <= NeedOf(o, s, x, A, R, L, G, lost)
         /\ \A n \in Nat :
              /\ Memory(Unconfirmed(o, R, L, G, lost)) <= n
              /\ Waits(o, A, R) => Grains(PlanOf(o, s, x)) <= n
              => NeedOf(o, s, x, A, R, L, G, lost) <= n
<1>1. Memory(Unconfirmed(o, R, L, G, lost)) \in Nat
  BY UnconfirmedType, MemoryFact
<1>2. ASSUME Waits(o, A, R) PROVE Grains(PlanOf(o, s, x)) \in Nat
  <2>1. o \in Operation
    BY <1>2 DEF Waits
  <2> QED BY <2>1, PlanOfFact, GrainsFact
<1> QED BY <1>1, <1>2 DEF NeedOf, Larger

LEMMA NeedNat == TypeOK => \A r \in Runtimes : Need(r) \in Nat
<1> SUFFICES ASSUME TypeOK, NEW r \in Runtimes PROVE Need(r) \in Nat
  OBVIOUS
<1>1. /\ setup \in Setups /\ op[r] \in Operation \cup {None} /\ slots[r] \in [Models -> Nat]
      /\ measured[r] \in Measures /\ resident[r] \in SUBSET Models /\ late[r] \in SUBSET Models
  BY DEF TypeOK, Measures
<1> QED BY <1>1, NeedOfFact DEF Need

LEMMA NeedNatAfter ==
  ASSUME TypeOK', setup' = setup
  PROVE  \A r \in Runtimes : Need(r)' \in Nat
<1> SUFFICES ASSUME NEW r \in Runtimes PROVE Need(r)' \in Nat
  OBVIOUS
<1>1. /\ setup \in Setups /\ op'[r] \in Operation \cup {None} /\ slots'[r] \in [Models -> Nat]
      /\ measured'[r] \in Measures /\ resident'[r] \in SUBSET Models /\ late'[r] \in SUBSET Models
  BY DEF TypeOK, Measures
<1>2. Need(r)' = NeedOf(op'[r], slots'[r], measured'[r], adopted'[r], resident'[r], late'[r],
                        granted'[r], stray'[r])
  BY NeedAfter
<1>3. NeedOf(op'[r], slots'[r], measured'[r], adopted'[r], resident'[r], late'[r],
             granted'[r], stray'[r]) \in Nat
  BY ONLY <1>1, NeedOfFact
<1> QED BY <1>2, <1>3

\* What is needed is part of the entry.
LEMMA NeedsFit ==
  ASSUME IInv, NEW r \in DOMAIN alloc, Frugal(r), Calm
  PROVE  /\ Need(r) \in Nat /\ alloc[r] \in Nat /\ Grain * alloc[r] \in Nat
         /\ Need(r) <= Grain * alloc[r]
<1>1. /\ TypeOK /\ OwnersAgree /\ Sound(r) /\ Asleep(r) /\ r \in Runtimes
      /\ breach # "budget" /\ setup.exact
  BY DEF IInv, TypeOK, Calm
<1>2. /\ setup \in Setups /\ op[r] \in Operation \cup {None} /\ slots[r] \in [Models -> Nat]
      /\ measured[r] \in Measures /\ resident[r] \in SUBSET Models /\ late[r] \in SUBSET Models
      /\ phase[r] \notin {"starting", "untracked"} /\ alloc[r] = claim[r] /\ claim[r] \in Nat
      /\ phase[r] \in Phases
  BY <1>1 DEF TypeOK, Measures, OwnersAgree, Entry, Phases
<1>3. /\ Memory(MayHold(r)) \in Nat /\ alloc[r] \in Nat /\ Grain * alloc[r] \in Nat
      /\ Memory(MayHold(r)) <= Grain * alloc[r]
  BY <1>1, EveryEntryCovers
<1> DEFINE U == Unconfirmed(op[r], resident[r], late[r], granted[r], stray[r])
<1>4. U \subseteq MayHold(r) /\ MayHold(r) \in SUBSET Models
  <2>1. op[r] # None => phase[r] = "up" /\ stray[r] = {}
    BY <1>1, <1>2 DEF Sound, SoundBooks, Asleep, Phases
  <2> QED BY <1>2, <2>1 DEF Unconfirmed, MayHold, Sent, Operation
<1>5. Memory(U) \in Nat /\ Memory(U) <= Memory(MayHold(r))
  <2>1. U \in SUBSET Models
    BY <1>4
  <2> HIDE DEF U
  <2> QED BY <1>4, <2>1, MemoryFact
<1>6. ASSUME Waits(op[r], adopted[r], resident[r])
      PROVE  Grains(PlanOf(op[r], slots[r], measured[r])) <= Grain * alloc[r]
  <2>1. op[r] # None /\ op[r] \in Operation /\ phase[r] = "up"
    BY <1>1, <1>2, <1>6 DEF Waits, Asleep, Phases
  <2> DEFINE p == PlanOf(op[r], slots[r], measured[r])
  <2>2. p <= claim[r]
    BY <2>1 DEF Frugal, FrugalBooks
  <2>3. p \in Nat
    BY <1>2, <2>1, PlanOfFact
  <2> HIDE DEF p
  <2>4. Grains(p) <= Grains(claim[r])
    BY <1>2, <2>2, <2>3, GrainsMono
  <2> QED BY <1>1, <1>2, <2>4 DEF Grains, p
<1>7. Memory(U) <= Grain * alloc[r]
  <2> HIDE DEF U
  <2> QED BY <1>3, <1>5
<1>8. Need(r) \in Nat /\ Need(r) <= Grain * alloc[r]
  BY <1>2, <1>3, <1>6, <1>7, NeedOfFact DEF Need
<1> QED BY <1>3, <1>8

\* A step after which no runtime needs more.
LEMMA SparedLess ==
  ASSUME IInv, IInv', Spared, setup' = setup, breach' = "none" => breach = "none",
         DOMAIN alloc' = DOMAIN alloc,
         Calm /\ breach' = "none" => \A y \in DOMAIN alloc : Need(y)' <= Need(y)
  PROVE  Spared'
<1> SUFFICES ASSUME setup.exact, breach' = "none" PROVE Spared'
  BY DEF Spared, Calm
<1> DEFINE D == DOMAIN alloc
           h == [r \in D |-> Need(r)]
           g == [r \in D |-> Need(r)']
<1>1. Calm /\ TypeOK
  BY DEF Calm, IInv
<1>2. \A y \in D : Need(y) \in Nat /\ Need(y)' \in Nat /\ Need(y)' <= Need(y)
  <2>1. \A y \in Runtimes : Need(y) \in Nat
    BY <1>1, NeedNat
  <2>2. TypeOK'
    BY DEF IInv
  <2>3. \A y \in Runtimes : Need(y)' \in Nat
    BY <2>2, NeedNatAfter
  <2> QED BY <1>1, <2>1, <2>3 DEF TypeOK
<1>3. IsFiniteSet(D)
  BY <1>1, GlobalCapacityAssumption, FS_Subset DEF TypeOK
<1>4. Summable(h, D) /\ Summable(g, D) /\ \A y \in D : g[y] <= h[y]
  BY <1>2, <1>3 DEF Summable
<1>5. SumFunctionOnSet(g, D) <= SumFunctionOnSet(h, D)
      /\ SumFunctionOnSet(g, D) \in Int /\ SumFunctionOnSet(h, D) \in Int
  <2> HIDE DEF h, g, D
  <2> QED BY <1>4, SumMono, SumInt
<1>6. SumFunctionOnSet(h, D) <= Grain * Usable
  BY <1>1 DEF Spared
<1>7. Usable' = Usable
  BY DEF Usable, Budget
<1>8. Grain * Usable \in Int
  <2>1. Usable \in Nat /\ Grain \in Nat
    BY <1>1, BudgetFact, GlobalCapacityAssumption DEF TypeOK
  <2> QED BY ONLY <2>1
<1>9. SumFunctionOnSet(g, D) <= Grain * Usable
  <2> HIDE DEF h, g, D
  <2> QED BY <1>5, <1>6, <1>8
<1> QED BY <1>7, <1>9 DEF Spared

\* A step after which one runtime needs no more than what the ledger found
\* room for below the headroom.
LEMMA SparedOne ==
  ASSUME IInv, IInv', \A y \in Runtimes : Frugal(y), setup' = setup,
         breach' = "none" => breach = "none",
         NEW r \in Runtimes, NEW e \in Nat, DOMAIN alloc' = DOMAIN alloc \cup {r},
         \A y \in DOMAIN alloc \ {r} : Need(y)' = Need(y),
         Calm /\ breach' = "none" =>
           Need(r)' <= Grain * e /\ ReservedExcept({r}) + e <= Usable
  PROVE  Spared'
<1> SUFFICES ASSUME setup.exact, breach' = "none" PROVE Spared'
  BY DEF Spared, Calm
<1> DEFINE D == DOMAIN alloc \ {r}
           E == DOMAIN alloc'
           g == [y \in E |-> Need(y)']
           a == [y \in D |-> Grain * alloc[y]]
<1>1. Calm /\ TypeOK /\ Need(r)' <= Grain * e /\ ReservedExcept({r}) + e <= Usable
  BY DEF Calm, IInv
<1>2. Grain \in Nat /\ Usable \in Nat /\ ReservedExcept({r}) \in Nat /\ D \subseteq Runtimes
      /\ E \subseteq Runtimes
  BY <1>1, GlobalCapacityAssumption, BudgetFact, ReservedFact DEF TypeOK
<1>3. \A y \in Runtimes : Need(y)' \in Nat
  <2>1. TypeOK'
    BY DEF IInv
  <2> QED BY <2>1, NeedNatAfter
<1>4. \A y \in D : /\ alloc[y] \in Nat /\ Grain * alloc[y] \in Nat
                   /\ Need(y)' <= Grain * alloc[y]
  BY <1>1, <1>2, NeedsFit
<1>5. IsFiniteSet(D) /\ IsFiniteSet(E)
  BY <1>2, GlobalCapacityAssumption, FS_Subset
<1>6. Summable(g, E) /\ Summable(g, E \ {r}) /\ Summable(a, D) /\ Countable(alloc, D)
  BY <1>2, <1>3, <1>4, <1>5, FS_Subset DEF Summable, Countable
<1>7. SumFunctionOnSet(g, E) = g[r] + SumFunctionOnSet(g, E \ {r})
  <2>1. r \in E
    OBVIOUS
  <2> HIDE DEF g, E
  <2> QED BY ONLY <1>6, <2>1, SumSplit
<1>8. E \ {r} = D
  OBVIOUS
<1>9. SumFunctionOnSet(g, D) <= SumFunctionOnSet(a, D)
      /\ SumFunctionOnSet(g, D) \in Int /\ SumFunctionOnSet(a, D) \in Int
  <2>1. \A y \in D : g[y] <= a[y]
    BY <1>4
  <2>2. Summable(g, D)
    BY <1>6, <1>8
  <2> HIDE DEF g, E, D, a
  <2> QED BY <1>6, <2>1, <2>2, SumMono, SumInt
<1>10. SumFunctionOnSet(a, D) = Grain * SumFunctionOnSet(alloc, D)
  <2>1. a = [y \in D |-> Grain * alloc[y]]
    OBVIOUS
  <2> HIDE DEF a, D
  <2> QED BY ONLY <1>2, <1>6, <2>1, SumScale
<1>11. SumFunctionOnSet(alloc, D) = ReservedExcept({r})
  BY DEF ReservedExcept
<1>12. SumFunctionOnSet(g, E) <= Grain * e + Grain * ReservedExcept({r})
       /\ SumFunctionOnSet(g, E) \in Int
  <2>1. g[r] = Need(r)' /\ Need(r)' \in Nat
    BY <1>3
  <2>2. Grain * e \in Nat
    BY ONLY <1>2, e \in Nat
  <2> DEFINE k == SumFunctionOnSet(g, D)
             l == SumFunctionOnSet(a, D)
             n == Need(r)'
             h == Grain * e
  <2>3. SumFunctionOnSet(g, E) = n + k /\ n <= h /\ k <= l
    BY <1>1, <1>7, <1>8, <1>9, <2>1
  <2>4. l = Grain * ReservedExcept({r}) /\ n \in Nat /\ h \in Nat /\ k \in Int /\ l \in Int
    BY <1>9, <1>10, <1>11, <2>1, <2>2
  <2> HIDE DEF g, E, D, a, k, l, n
  <2>5. n + k \in Int /\ n + k <= h + l
    <3> HIDE DEF h
    <3> QED BY ONLY <2>3, <2>4
  <2> QED BY ONLY <2>3, <2>4, <2>5
<1>13. Grain * e + Grain * ReservedExcept({r}) <= Grain * Usable
       /\ Grain * e + Grain * ReservedExcept({r}) \in Int /\ Grain * Usable \in Int
  <2> DEFINE q == ReservedExcept({r})
             w == Usable
  <2>1. q \in Nat /\ w \in Nat /\ q + e <= w /\ q + e \in Nat
    BY <1>1, <1>2
  <2> HIDE DEF q, w
  <2>2. Grain * (q + e) <= Grain * w
    BY <1>2, <2>1, MulMono
  <2>3. Grain * e + Grain * q = Grain * (q + e)
    BY ONLY <1>2, <2>1, e \in Nat
  <2>4. Grain * e + Grain * q \in Int /\ Grain * w \in Int
    BY ONLY <1>2, <2>1, e \in Nat
  <2> QED BY <2>2, <2>3, <2>4 DEF q, w
<1>14. SumFunctionOnSet(g, E) <= Grain * Usable
  <2> HIDE DEF g, E
  <2> QED BY <1>12, <1>13
<1>15. Usable' = Usable
  BY DEF Usable, Budget
<1> QED BY <1>14, <1>15 DEF Spared

\* A runtime that a step leaves alone, its grants included.
Alike(y) == Same(y) /\ granted'[y] = granted[y]

LEMMA HeadSame ==
  ASSUME NEW y, setup' = setup, Alike(y), breach' = "none" => breach = "none"
  PROVE  Need(y)' = Need(y) /\ (Frugal(y) => Frugal(y)')
<1>1. Need(y)' = Need(y)
  BY NeedAfter DEF Need, Alike, Same
<1>2. Calm' => Calm
  BY DEF Calm
<1>3. ASSUME Frugal(y) PROVE Frugal(y)'
  <2>1. FrugalBooks(phase'[y], claim'[y], slots'[y], op'[y], measured'[y], adopted'[y],
                    resident'[y], granted'[y], Calm')
    BY <1>2, <1>3 DEF Frugal, FrugalBooks, Alike, Same
  <2> QED BY <2>1, NeedAfter
<1> QED BY <1>1, <1>3

\* A step of one runtime after which it needs no more.
LEMMA HeadStep ==
  ASSUME HInv, IInv', NEW r \in Runtimes, setup' = setup, breach' = "none" => breach = "none",
         DOMAIN alloc' = DOMAIN alloc, \A y \in Runtimes \ {r} : Alike(y), Frugal(r)',
         Calm /\ breach' = "none" /\ r \in DOMAIN alloc => Need(r)' <= Need(r)
  PROVE  HInv'
<1>1. /\ IInv /\ TypeOK /\ Spared /\ \A y \in Runtimes : Frugal(y)
  BY DEF HInv, IInv
<1>2. \A y \in Runtimes : Need(y) \in Nat
  BY <1>1, NeedNat
<1>3. \A y \in Runtimes \ {r} : Need(y)' = Need(y) /\ Frugal(y)'
  BY <1>1, HeadSame
<1>4. Calm /\ breach' = "none" => \A y \in DOMAIN alloc : Need(y)' <= Need(y)
  <2> SUFFICES ASSUME Calm, breach' = "none", NEW y \in DOMAIN alloc PROVE Need(y)' <= Need(y)
    OBVIOUS
  <2>1. y \in Runtimes
    BY <1>1 DEF TypeOK
  <2> QED BY <1>2, <1>3, <2>1
<1>5. Spared'
  BY <1>1, <1>4, SparedLess
<1>6. \A y \in Runtimes : Frugal(y)'
  BY <1>3
<1> QED BY <1>5, <1>6 DEF HInv

\* A step of one runtime after which it needs no more than the ledger found.
LEMMA HeadGrowth ==
  ASSUME HInv, IInv', NEW r \in Runtimes, setup' = setup, breach' = "none" => breach = "none",
         NEW e \in Nat, DOMAIN alloc' = DOMAIN alloc \cup {r},
         \A y \in Runtimes \ {r} : Alike(y), Frugal(r)',
         Calm /\ breach' = "none" =>
           Need(r)' <= Grain * e /\ ReservedExcept({r}) + e <= Usable
  PROVE  HInv'
<1>1. /\ IInv /\ TypeOK /\ \A y \in Runtimes : Frugal(y)
  BY DEF HInv, IInv
<1>2. \A y \in Runtimes \ {r} : Need(y)' = Need(y) /\ Frugal(y)'
  BY <1>1, HeadSame
<1>3. \A y \in DOMAIN alloc \ {r} : Need(y)' = Need(y)
  BY <1>1, <1>2 DEF TypeOK
<1>4. Spared'
  BY <1>1, <1>3, SparedOne
<1>5. \A y \in Runtimes : Frugal(y)'
  BY <1>2
<1> QED BY <1>4, <1>5 DEF HInv

\* The end of an operation makes nothing unconfirmed that was not so before.
LEMMA FinishHead ==
  ASSUME HInv, IInv', NEW r \in Runtimes, NEW s, NEW x, NEW d, NEW g, Finish(r, s, x, d, g),
         setup' = setup, stray' = stray, phase[r] \in {"up", "untracked"},
         \A y \in Runtimes \ {r} : /\ adopted'[y] = adopted[y] /\ resident'[y] = resident[y]
                                   /\ late'[y] = late[y],
         phase[r] = "up" =>
           /\ adopted'[r] \subseteq adopted[r] /\ g \cap adopted[r] = {}
           /\ (resident'[r] \cup late'[r]) \ g
                \subseteq Unconfirmed(op[r], resident[r], late[r], granted[r], stray[r])
           /\ \A m \in Models \ adopted'[r] : s[m] \in Charged(m)
  PROVE  HInv'
<1>1. /\ IInv /\ TypeOK /\ OwnersAgree /\ Sound(r) /\ Frugal(r)
      /\ TypeOK' /\ Sound(r)'
  BY DEF HInv, IInv
<1>2. /\ granted'[r] = {m \in g : s[m] > 0} /\ slots'[r] = s /\ op'[r] = None
      /\ \A y \in Runtimes \ {r} : /\ granted'[y] = granted[y] /\ slots'[y] = slots[y]
                                   /\ measured'[y] = measured[y] /\ unsure'[y] = unsure[y]
                                   /\ op'[y] = op[y]
      /\ Settle(r, s, x, d)
  BY <1>1 DEF Finish, TypeOK
<1>3. /\ DOMAIN alloc' = DOMAIN alloc
      /\ breach' = "none" => breach = "none"
      /\ \A y \in Runtimes \ {r} : phase'[y] = phase[y] /\ claim'[y] = claim[y]
      /\ phase'[r] \in {phase[r], "poisoned"}
  BY <1>1, <1>2 DEF Settle, Record, Worse, ledger, TypeOK
<1>4. \A y \in Runtimes \ {r} : Alike(y)
  BY <1>2, <1>3 DEF Alike, Same
<1>5. ASSUME phase'[r] = "up"
      PROVE  FrugalBooks(phase'[r], claim'[r], slots'[r], op'[r], measured'[r], adopted'[r],
                         resident'[r], granted'[r], Calm')
  <2>1. phase[r] = "up"
    BY <1>3, <1>5
  <2> QED BY <1>2, <1>5, <2>1 DEF FrugalBooks
<1>6. Frugal(r)'
  <2>1. phase'[r] # "starting"
    BY <1>3
  <2>2. FrugalBooks(phase'[r], claim'[r], slots'[r], op'[r], measured'[r], adopted'[r],
                    resident'[r], granted'[r], Calm')
    BY <1>5, <2>1 DEF FrugalBooks
  <2> QED BY <2>2, NeedAfter
<1>7. ASSUME r \in DOMAIN alloc
      PROVE  Need(r)' <= Need(r)
  <2>1. phase[r] = "up" /\ phase'[r] \in {"up", "poisoned"}
    BY <1>1, <1>3, <1>7 DEF OwnersAgree
  <2>2. Booked(slots'[r], adopted'[r], resident'[r] \cup late'[r])
    <3>1. Booked(Before(slots'[r], op'[r]), adopted'[r],
                 (resident'[r] \cup late'[r]) \ Asked(op'[r]))
      BY <1>1, <2>1, SoundAfter DEF SoundBooks, Kept
    <3>2. Before(slots'[r], op'[r]) = slots'[r] /\ Asked(op'[r]) = {}
      BY <1>2 DEF Before, Asked
    <3>3. (resident'[r] \cup late'[r]) \ {} = resident'[r] \cup late'[r]
      OBVIOUS
    <3> QED BY <3>1, <3>2, <3>3
  <2> DEFINE V == Unconfirmed(op'[r], resident'[r], late'[r], granted'[r], stray'[r])
             U == Unconfirmed(op[r], resident[r], late[r], granted[r], stray[r])
  <2>3. V = (resident'[r] \cup late'[r]) \ (granted'[r] \cup stray'[r])
    BY <1>2 DEF Unconfirmed
  <2>4. V \subseteq U
    <3> SUFFICES ASSUME NEW k \in V PROVE k \in U
      OBVIOUS
    <3>1. k \in (resident'[r] \cup late'[r]) /\ k \notin granted'[r]
      BY <2>3
    <3>2. k \notin g
      <4>1. k \in g => k \notin adopted'[r]
        BY <2>1
      <4>2. k \notin adopted'[r] => s[k] > 0
        BY <1>2, <2>2, <3>1 DEF Booked
      <4> QED BY <1>2, <3>1, <4>1, <4>2
    <3> QED BY <2>1, <3>1, <3>2
  <2>5. /\ setup \in Setups /\ op[r] \in Operation \cup {None} /\ slots[r] \in [Models -> Nat]
        /\ measured[r] \in Measures /\ resident[r] \in SUBSET Models /\ late[r] \in SUBSET Models
    BY <1>1 DEF TypeOK, Measures
  <2>6. U \in SUBSET Models
    BY <2>5, UnconfirmedType
  <2>7. Memory(V) \in Nat /\ Memory(U) \in Nat /\ Memory(V) <= Memory(U)
    <3>1. V \in SUBSET Models
      BY <2>4, <2>6
    <3> HIDE DEF U, V
    <3> QED BY <2>4, <2>6, <3>1, MemoryFact
  <2>8. Need(r) \in Nat /\ Memory(U) <= Need(r)
    BY <2>5, NeedOfFact DEF Need
  <2>9. Need(r)' = Memory(V)
    <3>1. Need(r)' = NeedOf(op'[r], slots'[r], measured'[r], adopted'[r], resident'[r], late'[r],
                            granted'[r], stray'[r])
      BY NeedAfter
    <3>2. Need(r)' = Larger(Memory(V), 0)
      BY <1>2, <3>1 DEF NeedOf, Waits
    <3> HIDE DEF V
    <3> QED BY <2>7, <3>2 DEF Larger
  <2> HIDE DEF U, V
  <2> QED BY <2>7, <2>8, <2>9
<1> QED BY <1>3, <1>4, <1>6, <1>7, HeadStep

\* What the books say of a load in flight.
LEMMA FlightHead ==
  ASSUME HInv, NEW r \in Runtimes, op[r] # None
  PROVE  /\ op[r] \in Operation /\ op[r].id \in Models /\ op[r].victims \in SUBSET Models
         /\ op[r].prev \in Nat /\ slots[r] \in [Models -> Nat]
         /\ resident[r] \in SUBSET Models /\ adopted[r] \in SUBSET Models
         /\ granted[r] \in SUBSET Models
         /\ phase[r] \in {"up", "untracked"}
         /\ phase[r] = "up" =>
              /\ stray[r] = {} /\ late[r] = {}
              /\ granted[r] \cap adopted[r] = {}
              /\ op[r].pc = "load" /\ op[r].id \in adopted[r] => op[r].id \in resident[r]
              /\ \A m \in Models \ adopted[r] : slots[r][m] \in Charged(m)
              /\ op[r].id \notin adopted[r] => op[r].prev \in Charged(op[r].id)
<1>1. IInv /\ Frugal(r)
  BY DEF HInv
<1>2. InFlight(r)
  BY <1>1, InFlightFact
<1>3. op[r] \in Operation /\ op[r].id \in Models /\ op[r].victims \in SUBSET Models
      /\ op[r].prev \in Nat
  BY <1>2 DEF InFlight, Operation
<1>4. phase[r] = "up" => Flying(op[r], claim[r], slots[r], measured[r], adopted[r], resident[r])
                         /\ stray[r] = {} /\ late[r] = {}
  BY <1>2 DEF InFlight
<1>5. phase[r] \in {"up", "untracked"} /\ slots[r] \in [Models -> Nat]
      /\ resident[r] \in SUBSET Models /\ adopted[r] \in SUBSET Models
      /\ granted[r] \in SUBSET Models
  BY <1>2 DEF InFlight
<1> QED BY <1>1, <1>3, <1>4, <1>5 DEF Frugal, FrugalBooks, Flying

LEMMA LoadDoneHead ==
  ASSUME HInv, IInv', NEW r \in Runtimes, LoadDone(r)
  PROVE  HInv'
<1> DEFINE o == op[r]
           s == Without(slots[r], o.victims)
           x == Measured(r, s, o.status)
<1>1. /\ o # None /\ Finish(r, s, x, unsure[r], granted[r])
      /\ setup' = setup /\ stray' = stray
      /\ adopted' = adopted /\ resident' = resident /\ late' = late
  BY DEF LoadDone, Sent, config, engine
<1>2. ASSUME phase[r] = "up"
      PROVE  /\ granted[r] \cap adopted[r] = {}
             /\ (resident[r] \cup late[r]) \ granted[r]
                  \subseteq Unconfirmed(op[r], resident[r], late[r], granted[r], stray[r])
             /\ \A m \in Models \ adopted[r] : s[m] \in Charged(m)
  <2>1. /\ stray[r] = {} /\ granted[r] \cap adopted[r] = {}
        /\ \A m \in Models \ adopted[r] : slots[r][m] \in Charged(m)
    BY <1>1, <1>2, FlightHead
  <2>2. \A m \in Models \ adopted[r] : s[m] \in Charged(m)
    BY <2>1 DEF Without, Charged
  <2> HIDE DEF s
  <2> QED BY <2>1, <2>2 DEF Unconfirmed
<1>3. phase[r] \in {"up", "untracked"}
  BY <1>1, FlightHead
<1> HIDE DEF s, x, o
<1> QED BY <1>1, <1>2, <1>3, FinishHead

LEMMA LoadRejectedHead ==
  ASSUME HInv, IInv', NEW r \in Runtimes, LoadRejected(r)
  PROVE  HInv'
<1> DEFINE o == op[r]
           w == Without(slots[r], o.victims)
           s == [w EXCEPT ![o.id] = o.prev]
           x == Measured(r, s, o.status)
<1>1. /\ o # None /\ Finish(r, s, x, unsure[r], granted[r])
      /\ setup' = setup /\ stray' = stray
      /\ adopted' = adopted /\ resident' = resident /\ late' = late
  BY DEF LoadRejected, config, engine
<1>2. ASSUME phase[r] = "up"
      PROVE  /\ granted[r] \cap adopted[r] = {}
             /\ (resident[r] \cup late[r]) \ granted[r]
                  \subseteq Unconfirmed(op[r], resident[r], late[r], granted[r], stray[r])
             /\ \A m \in Models \ adopted[r] : s[m] \in Charged(m)
  <2>1. /\ stray[r] = {} /\ granted[r] \cap adopted[r] = {} /\ o.id \in Models
        /\ \A m \in Models \ adopted[r] : slots[r][m] \in Charged(m)
        /\ o.id \notin adopted[r] => o.prev \in Charged(o.id)
    BY <1>1, <1>2, FlightHead
  <2>2. \A m \in Models \ adopted[r] : w[m] \in Charged(m)
    BY <2>1 DEF Without, Charged
  <2>3. \A m \in Models : s[m] = IF m = o.id THEN o.prev ELSE w[m]
    BY <2>1 DEF Without
  <2> HIDE DEF s, w
  <2>4. \A m \in Models \ adopted[r] : s[m] \in Charged(m)
    BY <2>1, <2>2, <2>3
  <2> QED BY <2>1, <2>4 DEF Unconfirmed
<1>3. phase[r] \in {"up", "untracked"}
  BY <1>1, FlightHead
<1> HIDE DEF s, x, o, w
<1> QED BY <1>1, <1>2, <1>3, FinishHead

\* What is left behind keeps the grant it was sent under.
LEMMA GrantsBehind ==
  ASSUME HInv, NEW r \in Runtimes, op[r] # None, phase[r] = "up",
         NEW R \in SUBSET resident[r],
         late' = [late EXCEPT ![r] = late[r] \cup (IF Pending(r) THEN {op[r].id} ELSE {})]
  PROVE  /\ GrantedBehind(r) \cap adopted[r] = {}
         /\ (R \cup late'[r]) \ GrantedBehind(r)
              \subseteq Unconfirmed(op[r], resident[r], late[r], granted[r], stray[r])
<1>1. /\ stray[r] = {} /\ late[r] = {} /\ granted[r] \cap adopted[r] = {}
      /\ op[r].pc = "load" /\ op[r].id \in adopted[r] => op[r].id \in resident[r]
  BY FlightHead
<1>2. late'[r] = IF Pending(r) THEN {op[r].id} ELSE {}
  BY <1>1 DEF HInv, IInv, TypeOK
<1>3. CASE Pending(r)
  <2>1. op[r].pc = "load" /\ op[r].id \notin resident[r] \cup adopted[r]
    BY <1>1, <1>3 DEF Pending, Sent
  <2>2. GrantedBehind(r) = IF op[r].confirmed THEN granted[r] \cup {op[r].id}
                           ELSE granted[r] \ {op[r].id}
    BY <1>3 DEF GrantedBehind, Granted
  <2> QED BY <1>1, <1>2, <1>3, <2>1, <2>2 DEF Unconfirmed
<1>4. CASE ~Pending(r)
  BY <1>1, <1>2, <1>4 DEF GrantedBehind, Unconfirmed
<1> QED BY <1>3, <1>4

LEMMA LoadUnconfirmedHead ==
  ASSUME HInv, IInv', NEW r \in Runtimes, LoadUnconfirmed(r)
  PROVE  HInv'
<1> DEFINE o == op[r]
           w == Without(slots[r], o.victims)
           s == [w EXCEPT ![o.id] = Larger(w[o.id], o.prev)]
           x == Measured(r, s, o.status)
           d == unsure[r] \cup {o.id}
           g == GrantedBehind(r)
<1>1. /\ o # None /\ Finish(r, s, x, d, g)
      /\ setup' = setup /\ stray' = stray
      /\ adopted' = adopted /\ resident' = resident
      /\ late' = [late EXCEPT ![r] = late[r] \cup (IF Pending(r) THEN {o.id} ELSE {})]
  BY DEF LoadUnconfirmed, LeftBehind, Sent, config
<1>2. ASSUME phase[r] = "up"
      PROVE  /\ g \cap adopted[r] = {}
             /\ (resident[r] \cup late'[r]) \ g
                  \subseteq Unconfirmed(op[r], resident[r], late[r], granted[r], stray[r])
             /\ \A m \in Models \ adopted[r] : s[m] \in Charged(m)
  <2>1. /\ o.id \in Models
        /\ \A m \in Models \ adopted[r] : slots[r][m] \in Charged(m)
        /\ o.id \notin adopted[r] => o.prev \in Charged(o.id)
    BY <1>1, <1>2, FlightHead
  <2>2. \A m \in Models \ adopted[r] : w[m] \in Charged(m)
    BY <2>1 DEF Without, Charged
  <2>3. \A m \in Models : s[m] = IF m = o.id THEN Larger(w[o.id], o.prev) ELSE w[m]
    BY <2>1 DEF Without
  <2> HIDE DEF s, w
  <2>4. \A m \in Models \ adopted[r] : s[m] \in Charged(m)
    BY <2>1, <2>2, <2>3 DEF Larger
  <2>5. resident[r] \in SUBSET resident[r]
    OBVIOUS
  <2> QED BY <1>1, <1>2, <2>4, <2>5, GrantsBehind
<1>3. phase[r] \in {"up", "untracked"}
  BY <1>1, FlightHead
<1>4. \A y \in Runtimes \ {r} : /\ adopted'[y] = adopted[y] /\ resident'[y] = resident[y]
                                /\ late'[y] = late[y]
  BY <1>1 DEF HInv, IInv, TypeOK
<1> HIDE DEF s, x, o, w, d, g
<1> QED BY <1>1, <1>2, <1>3, <1>4, FinishHead

LEMMA LoadPanickedHead ==
  ASSUME HInv, IInv', NEW r \in Runtimes, LoadPanicked(r)
  PROVE  HInv'
<1> DEFINE o == op[r]
           s == [slots[r] EXCEPT ![o.id] = Larger(slots[r][o.id], o.prev)]
           x == measured[r]
           d == unsure[r] \cup {o.id}
           g == GrantedBehind(r)
<1>1. PICK gone : resident' = [resident EXCEPT ![r] = resident[r] \ gone]
  BY DEF LoadPanicked
<1>2. /\ o # None /\ Finish(r, s, x, d, g)
      /\ setup' = setup /\ stray' = stray /\ adopted' = adopted
      /\ late' = [late EXCEPT ![r] = late[r] \cup (IF Pending(r) THEN {o.id} ELSE {})]
  BY DEF LoadPanicked, LeftBehind, config
<1>3. /\ resident'[r] = resident[r] \ gone
      /\ \A y \in Runtimes \ {r} : /\ adopted'[y] = adopted[y] /\ resident'[y] = resident[y]
                                   /\ late'[y] = late[y]
  BY <1>1, <1>2 DEF HInv, IInv, TypeOK
<1>4. ASSUME phase[r] = "up"
      PROVE  /\ g \cap adopted[r] = {}
             /\ (resident'[r] \cup late'[r]) \ g
                  \subseteq Unconfirmed(op[r], resident[r], late[r], granted[r], stray[r])
             /\ \A m \in Models \ adopted[r] : s[m] \in Charged(m)
  <2>1. /\ o.id \in Models /\ slots[r] \in [Models -> Nat]
        /\ \A m \in Models \ adopted[r] : slots[r][m] \in Charged(m)
        /\ o.id \notin adopted[r] => o.prev \in Charged(o.id)
    BY <1>2, <1>4, FlightHead
  <2>2. \A m \in Models : s[m] = IF m = o.id THEN Larger(slots[r][o.id], o.prev) ELSE slots[r][m]
    BY <2>1
  <2> HIDE DEF s
  <2>3. \A m \in Models \ adopted[r] : s[m] \in Charged(m)
    BY <2>1, <2>2 DEF Larger
  <2>4. resident'[r] \in SUBSET resident[r]
    BY <1>3
  <2> QED BY <1>2, <1>4, <2>3, <2>4, GrantsBehind
<1>5. phase[r] \in {"up", "untracked"}
  BY <1>2, FlightHead
<1> HIDE DEF s, x, o, d, g
<1> QED BY <1>2, <1>3, <1>4, <1>5, FinishHead

LEMMA UnloadHead ==
  ASSUME HInv, IInv', NEW r \in Runtimes, NEW m \in Models, Unload(r, m)
  PROVE  HInv'
<1> DEFINE s == Without(slots[r], {m})
           status == [ids |-> resident'[r], used |-> Memory(resident'[r]) + extra[r]]
           x == Refreshed(status, s, unsure[r], None, 0)
<1>1. /\ phase[r] \in {"up", "untracked"} /\ op[r] = None
      /\ resident' = [resident EXCEPT ![r] = resident[r] \ {m}]
      /\ UNCHANGED <<setup, late, stray>>
  BY DEF Unload, Serving, config
<1>2. /\ TypeOK /\ IInv /\ Frugal(r) /\ Sound(r)
  BY DEF HInv, IInv
<1>3. /\ resident'[r] = resident[r] \ {m}
      /\ \A y \in Runtimes \ {r} : resident'[y] = resident[y]
  BY <1>1, <1>2 DEF TypeOK
<1>4. CASE /\ Finish(r, s, x, unsure[r], granted[r])
           /\ adopted' = [adopted EXCEPT ![r] = adopted[r] \ {m}]
  <2>1. /\ adopted'[r] = adopted[r] \ {m}
        /\ \A y \in Runtimes \ {r} : adopted'[y] = adopted[y]
    BY <1>2, <1>4 DEF TypeOK
  <2>2. ASSUME phase[r] = "up"
        PROVE  /\ adopted'[r] \subseteq adopted[r] /\ granted[r] \cap adopted[r] = {}
               /\ (resident'[r] \cup late'[r]) \ granted[r]
                    \subseteq Unconfirmed(op[r], resident[r], late[r], granted[r], stray[r])
               /\ \A k \in Models \ adopted'[r] : s[k] \in Charged(k)
    <3>1. /\ stray[r] = {} /\ granted[r] \cap adopted[r] = {}
          /\ \A k \in Models \ adopted[r] : slots[r][k] \in Charged(k)
      BY <1>2, <2>2 DEF Sound, SoundBooks, Frugal, FrugalBooks
    <3>2. \A k \in Models \ adopted'[r] : s[k] \in Charged(k)
      BY <2>1, <3>1 DEF Without, Charged
    <3> HIDE DEF s
    <3> QED BY <1>1, <1>3, <2>1, <3>1, <3>2 DEF Unconfirmed
  <2> HIDE DEF s, x
  <2> QED BY <1>1, <1>3, <1>4, <2>1, <2>2, FinishHead
<1>5. CASE UNCHANGED <<ledger, phase, books, op, breach, granted>>
  <2>1. UNCHANGED <<alloc, claim, phase, slots, measured, adopted, unsure, op, breach, granted>>
    BY <1>5 DEF ledger, books
  <2>2. \A y \in Runtimes \ {r} : Alike(y)
    BY <1>1, <1>3, <2>1 DEF Alike, Same
  <2>3. Frugal(r)'
    <3>1. FrugalBooks(phase'[r], claim'[r], slots'[r], op'[r], measured'[r], adopted'[r],
                      resident'[r], granted'[r], Calm')
      BY <1>1, <1>2, <2>1 DEF Frugal, FrugalBooks
    <3> QED BY <1>1, <3>1, NeedAfter
  <2>4. Need(r)' <= Need(r)
    <3> DEFINE V == (resident'[r] \cup late[r]) \ (granted[r] \cup stray[r])
               U == (resident[r] \cup late[r]) \ (granted[r] \cup stray[r])
    <3>1. /\ Unconfirmed(op[r], resident[r], late[r], granted[r], stray[r]) = U
          /\ Unconfirmed(op'[r], resident'[r], late'[r], granted'[r], stray'[r]) = V
      BY <1>1, <2>1 DEF Unconfirmed
    <3>2. U \in SUBSET Models /\ V \in SUBSET Models /\ V \subseteq U
      BY <1>2, <1>3 DEF TypeOK
    <3> HIDE DEF U, V
    <3>3. Memory(V) \in Nat /\ Memory(U) \in Nat /\ Memory(V) <= Memory(U)
      BY <3>2, MemoryFact
    <3>4. Need(r)' = NeedOf(op'[r], slots'[r], measured'[r], adopted'[r], resident'[r],
                            late'[r], granted'[r], stray'[r])
      BY <1>1, NeedAfter
    <3>5. Need(r)' = Larger(Memory(V), 0) /\ Need(r) = Larger(Memory(U), 0)
      BY <1>1, <2>1, <3>1, <3>4 DEF Need, NeedOf, Waits
    <3> QED BY <3>3, <3>5 DEF Larger
  <2> QED BY <1>1, <2>1, <2>2, <2>3, <2>4, HeadStep
<1> QED
  <2>1. \/ /\ Finish(r, s, x, unsure[r], granted[r])
           /\ adopted' = [adopted EXCEPT ![r] = adopted[r] \ {m}]
        \/ UNCHANGED <<ledger, phase, books, op, breach, granted>>
    BY DEF Unload
  <2> HIDE DEF x, s
  <2> QED BY <1>4, <1>5, <2>1

\* Before a load without confirmation is sent, its victims are gone and the
\* plan covers the engine with its model in it.
LEMMA EvictedFits ==
  ASSUME SteadyEstimates, HInv, NEW r \in Runtimes, op[r] # None, op[r].pc = "evict",
         phase[r] = "up", Calm, op[r].id \notin adopted[r],
         NEW used \in Nat, Memory(resident[r] \ op[r].victims) <= used,
         Released(used, AfterEviction(r))
  PROVE  Memory((resident[r] \ op[r].victims) \cup {op[r].id})
           <= Grains(PlanOf(op[r], slots[r], measured[r]))
<1> DEFINE o == op[r]
           R == resident[r] \ o.victims
           x == measured[r]
           A == adopted[r]
<1>1. /\ IInv /\ Frugal(r) /\ setup \in Setups
  BY DEF HInv, IInv, TypeOK
<1>2. InFlight(r)
  BY <1>1, InFlightFact
<1>3. /\ o \in Operation /\ o # None /\ o.id \in Models /\ o.victims \in SUBSET Models
      /\ o.prev \in Nat /\ o.charge \in Nat /\ slots[r] \in [Models -> Nat] /\ x \in Measures
      /\ A \in SUBSET Models /\ resident[r] \in SUBSET Models /\ R \in SUBSET Models
  BY <1>2 DEF InFlight, Operation
<1>4. /\ Proven(x, A, resident[r])
      /\ Paid(Before(slots[r], o), A)
      /\ Booked(Before(slots[r], o), A, resident[r])
      /\ Flying(o, claim[r], slots[r], x, A, resident[r])
      /\ unsure[r] = {}
  <2>1. Asked(o) = {} /\ resident[r] \ {} = resident[r]
    BY DEF Asked
  <2> QED BY <1>2, <2>1 DEF InFlight
<1>5. Proven(x, A, R)
  BY <1>3, <1>4, ProvenLess
<1>6. Booked(Before(slots[r], o), A, R)
  BY <1>4 DEF Booked
<1>7. o.charge = slots[r][o.id] /\ Own(Size[o.id]) <= o.charge
  BY <1>4 DEF Flying
<1>8. Own(used) <= Charges(slots[r], Models \ (o.victims \cup {o.id}))
                   + Aggregate(x, slots[r], {}) + o.prev
  BY <1>4 DEF Released, AfterEviction, Seen
<1>9. ASSUME o.prev > 0 PROVE o.prev = o.charge /\ o.victims = {}
  <2>1. o.victims = {} /\ o.prev \in Charged(o.id) /\ slots[r][o.id] \in Charged(o.id)
    BY <1>1, <1>3, <1>9 DEF Frugal, FrugalBooks
  <2>2. Own(Size[o.id]) \in Nat /\ Own(Size[o.id]) > 0
    BY <1>1, <1>3, OneModel
  <2>3. o.charge > 0 /\ o.charge \in Charged(o.id)
    BY <1>3, <1>7, <2>1, <2>2
  <2> HIDE DEF o
  <2>4. o.prev = o.charge
    BY <1>1, <1>3, <1>9, <2>1, <2>3, ChargedFact
  <2> QED BY <2>1, <2>4
<1>10. \E u \in Nat : /\ Memory(R) <= u
                      /\ Own(u) <= Charges(slots[r], Models \ (o.victims \cup {o.id}))
                                   + Aggregate(x, slots[r], {}) + o.prev
  BY <1>8
<1> HIDE DEF o, R, x, A
<1>11. o.id \notin A
  BY DEF o, A
<1>12. Memory(R \cup {o.id}) <= Grains(PlanOf(o, slots[r], x))
  BY ONLY <1>1, <1>3, <1>4, <1>5, <1>6, <1>7, <1>9, <1>10, <1>11, PlanCovers
<1> QED BY <1>12 DEF o, R, x

LEMMA EvictedHead ==
  ASSUME SteadyEstimates, HInv, IInv', NEW r \in Runtimes, op[r] # None, op[r].pc = "evict",
         resident' = [resident EXCEPT ![r] = resident[r] \ op[r].victims],
         NEW status, status = StatusOf(resident[r] \ op[r].victims, extra[r]),
         Released(status.used, AfterEviction(r)),
         op' = [op EXCEPT ![r] = [op[r] EXCEPT !.pc = SendPc(r, op[r].id), !.status = status]],
         UNCHANGED <<config, phase, ledger, books, granted, breach, late, stray>>
  PROVE  HInv'
<1> DEFINE o == op[r]
           R == resident[r] \ o.victims
           n == [o EXCEPT !.pc = SendPc(r, o.id), !.status = status]
           p == PlanOf(o, slots[r], measured[r])
<1>1. /\ IInv /\ TypeOK /\ Frugal(r) /\ setup \in Setups /\ measured[r] \in Measures
      /\ OwnersAgree /\ extra[r] \in Nat /\ late[r] \in SUBSET Models
  BY DEF HInv, IInv, TypeOK, Measures
<1>2. /\ o \in Operation /\ o # None /\ o.id \in Models /\ o.victims \in SUBSET Models
      /\ slots[r] \in [Models -> Nat] /\ resident[r] \in SUBSET Models
      /\ phase[r] \in {"up", "untracked"} /\ R \in SUBSET Models
  BY FlightHead
<1>3. /\ status \in Status /\ status.used \in Nat /\ Memory(R) <= status.used
  <2> HIDE DEF R
  <2> QED BY <1>1, <1>2, StatusFact DEF R
<1>4. /\ n \in Operation /\ n # None
      /\ n.id = o.id /\ n.charge = o.charge /\ n.prev = o.prev /\ n.victims = o.victims
      /\ n.confirmed = o.confirmed /\ n.pc = SendPc(r, o.id)
  BY <1>2, <1>3, NoneAssumption DEF Operation, SendPc
<1>5. /\ op'[r] = n /\ resident'[r] = R
      /\ \A y \in Runtimes \ {r} : op'[y] = op[y] /\ resident'[y] = resident[y]
      /\ UNCHANGED <<setup, phase, alloc, claim, breach, slots, measured, adopted,
                     unsure, granted, late, stray>>
  BY <1>1 DEF TypeOK, config, ledger, books
<1>6. \A y \in Runtimes \ {r} : Alike(y)
  BY <1>5 DEF Alike, Same
<1>7. PlanOf(n, slots[r], measured[r]) = p /\ p \in Nat
  <2>1. Before(slots[r], n) = Before(slots[r], o)
    BY <1>2, <1>4 DEF Before
  <2> HIDE DEF n, o
  <2> QED BY <1>1, <1>2, <1>4, <2>1, PlanOfFact DEF PlanOf
<1>8. ASSUME phase[r] = "up", Calm, o.id \notin adopted[r]
      PROVE  Memory(R \cup {o.id}) <= Grains(p)
  BY <1>3, <1>8, EvictedFits
<1>9. Calm' <=> Calm
  BY <1>5 DEF Calm
<1>10. Frugal(r)'
  <2>1. FrugalBooks(phase[r], claim[r], slots[r], n, measured[r], adopted[r], R, granted[r], Calm)
    <3>1. FrugalBooks(phase[r], claim[r], slots[r], o, measured[r], adopted[r], resident[r],
                      granted[r], Calm)
      BY <1>1 DEF Frugal
    <3>2. Waits(n, adopted[r], R) => o.id \notin adopted[r]
      BY <1>4 DEF Waits
    <3> HIDE DEF n, o, R, p
    <3> QED BY <1>2, <1>4, <1>7, <1>8, <3>1, <3>2 DEF FrugalBooks, p
  <2> HIDE DEF n, R
  <2> QED BY <1>5, <1>9, <2>1, NeedAfter
<1>11. ASSUME Calm, r \in DOMAIN alloc
       PROVE  Need(r)' <= Need(r)
  <2>1. phase[r] = "up"
    BY <1>1, <1>2, <1>11 DEF OwnersAgree
  <2>2. stray[r] = {} /\ late[r] = {}
    BY <2>1, FlightHead
  <2> DEFINE V == Unconfirmed(n, R, late[r], granted[r], stray[r])
             U == Unconfirmed(o, resident[r], late[r], granted[r], stray[r])
  <2>3. U = resident[r] \ granted[r]
    BY <2>2 DEF Unconfirmed
  <2>4. /\ Memory(U) \in Nat /\ Memory(U) <= Need(r) /\ Need(r) \in Nat
        /\ Waits(o, adopted[r], resident[r]) => Grains(p) \in Nat /\ Grains(p) <= Need(r)
    <3>1. op[r] \in Operation \cup {None}
      BY <1>2
    <3>2. Need(r) = NeedOf(op[r], slots[r], measured[r], adopted[r], resident[r], late[r],
                           granted[r], stray[r])
      BY DEF Need
    <3>3. /\ setup \in Setups /\ slots[r] \in [Models -> Nat] /\ measured[r] \in Measures
          /\ resident[r] \in SUBSET Models /\ late[r] \in SUBSET Models
      BY <1>1, <1>2
    <3>4. /\ Memory(Unconfirmed(op[r], resident[r], late[r], granted[r], stray[r])) \in Nat
          /\ Need(r) \in Nat
          /\ Memory(Unconfirmed(op[r], resident[r], late[r], granted[r], stray[r])) <= Need(r)
      <4> DEFINE k == NeedOf(op[r], slots[r], measured[r], adopted[r], resident[r], late[r],
                             granted[r], stray[r])
                 u == Memory(Unconfirmed(op[r], resident[r], late[r], granted[r], stray[r]))
      <4>1. k \in Nat /\ u \in Nat /\ u <= k
        BY <3>1, <3>3, NeedOfFact
      <4> QED BY <3>2, <4>1
    <3>5. Waits(op[r], adopted[r], resident[r]) =>
            /\ Grains(PlanOf(op[r], slots[r], measured[r])) \in Nat
            /\ Grains(PlanOf(op[r], slots[r], measured[r])) <= Need(r)
      <4> DEFINE k == NeedOf(op[r], slots[r], measured[r], adopted[r], resident[r], late[r],
                             granted[r], stray[r])
                 q == Grains(PlanOf(op[r], slots[r], measured[r]))
                 w == Waits(op[r], adopted[r], resident[r])
      <4>1. w => q \in Nat /\ q <= k
        BY ONLY <3>1, <3>3, NeedOfFact
      <4>2. Need(r) = k
        BY <3>2
      <4> HIDE DEF k, q, w
      <4>3. w => q \in Nat /\ q <= Need(r)
        BY ONLY <4>1, <4>2
      <4> QED BY <4>3 DEF q, w
    <3> QED BY <3>4, <3>5
  <2>5. Waits(n, adopted[r], R) => Waits(o, adopted[r], resident[r]) /\ o.id \notin adopted[r]
    <3>1. o.id \notin o.victims
      <4>1. InFlight(r)
        BY <1>1, InFlightFact
      <4> QED BY <2>1, <4>1 DEF InFlight, Flying
    <3> HIDE DEF n
    <3> QED BY <1>2, <1>4, <3>1 DEF Waits
  <2>6. Memory(V) <= Need(r)
    <3>1. V \in SUBSET Models
      <4> HIDE DEF n, R
      <4> QED BY <1>1, <1>2, <1>4, UnconfirmedType
    <3>2. CASE Waits(n, adopted[r], R)
      <4>1. V \subseteq R \cup {o.id} /\ R \cup {o.id} \in SUBSET Models
        <5> HIDE DEF n
        <5> QED BY <1>2, <1>4, <2>2 DEF Unconfirmed
      <4>2. Memory(R \cup {o.id}) <= Grains(p) /\ Grains(p) \in Nat /\ Grains(p) <= Need(r)
        BY <1>8, <1>11, <2>1, <2>4, <2>5, <3>2
      <4>3. Memory(V) \in Nat /\ Memory(R \cup {o.id}) \in Nat /\ Memory(V) <= Memory(R \cup {o.id})
        <5> DEFINE E == R \cup {o.id}
        <5> HIDE DEF V, E
        <5> QED BY <3>1, <4>1, MemoryFact DEF E
      <4> HIDE DEF V, R, p, o
      <4> QED BY <2>4, <4>2, <4>3
    <3>3. CASE ~Waits(n, adopted[r], R)
      <4>1. n.pc = "load" => o.id \notin adopted[r]
        <5> HIDE DEF n
        <5> QED BY <1>4 DEF SendPc
      <4>2. V \subseteq U
        <5> HIDE DEF n
        <5> QED BY <1>2, <1>4, <2>2, <2>3, <3>3, <4>1 DEF Unconfirmed, Waits
      <4>3. U \in SUBSET Models
        BY <1>2, <2>3
      <4>4. Memory(V) \in Nat /\ Memory(V) <= Memory(U)
        <5> HIDE DEF U, V
        <5> QED BY <3>1, <4>2, <4>3, MemoryFact
      <4> HIDE DEF U, V
      <4> QED BY <2>4, <4>4
    <3> QED BY <3>2, <3>3
  <2>7. Waits(n, adopted[r], R) => Grains(PlanOf(n, slots[r], measured[r])) <= Need(r)
    BY <1>7, <2>4, <2>5
  <2>8. NeedOf(n, slots[r], measured[r], adopted[r], R, late[r], granted[r], stray[r]) <= Need(r)
    <3>1. n \in Operation \cup {None}
      BY <1>4
    <3> HIDE DEF n, R
    <3> QED BY <1>1, <1>2, <2>4, <2>6, <2>7, <3>1, NeedOfFact DEF V
  <2>9. Need(r)' = NeedOf(op'[r], slots'[r], measured'[r], adopted'[r], resident'[r], late'[r],
                          granted'[r], stray'[r])
    BY <1>5, NeedAfter
  <2> HIDE DEF n, R, o
  <2> QED BY <1>5, <2>8, <2>9
<1>12. DOMAIN alloc' = DOMAIN alloc /\ (breach' = "none" => breach = "none") /\ setup' = setup
  BY <1>5
<1> HIDE DEF n, R, o
<1> QED BY <1>6, <1>10, <1>11, <1>12, HeadStep

LEMMA EvictVictimsHead ==
  ASSUME SteadyEstimates, HInv, IInv', NEW r \in Runtimes, EvictVictims(r)
  PROVE  HInv'
<1> DEFINE o == op[r]
           R == resident[r] \ o.victims
           status == [ids |-> resident'[r], used |-> Memory(resident'[r]) + extra[r]]
           b == [slots[r] EXCEPT ![o.id] = o.prev]
<1>1. /\ o # None /\ o.pc = "evict"
      /\ UNCHANGED <<config, late, stray>> /\ setup' = setup
  BY DEF EvictVictims, config
<1>2. /\ o.id \in Models /\ slots[r] \in [Models -> Nat] /\ phase[r] \in {"up", "untracked"}
      /\ resident[r] \in SUBSET Models
  BY <1>1, FlightHead
<1>3. resident \in [Runtimes -> SUBSET Models]
  BY DEF HInv, IInv, TypeOK
<1>4. CASE /\ resident' = [resident EXCEPT ![r] = R]
           /\ Released(status.used, AfterEviction(r))
           /\ op' = [op EXCEPT ![r] = [o EXCEPT !.pc = SendPc(r, o.id), !.status = status]]
           /\ UNCHANGED <<phase, ledger, books, granted, breach>>
  <2>1. resident'[r] = R
    BY <1>3, <1>4
  <2>2. status = StatusOf(R, extra[r])
    BY <2>1 DEF StatusOf
  <2>3. UNCHANGED <<config, phase, ledger, books, granted, breach, late, stray>>
    BY <1>1, <1>4
  <2> HIDE DEF status
  <2> QED BY <1>1, <1>4, <2>2, <2>3, EvictedHead
<1>5. ASSUME NEW gone \in SUBSET o.victims, NEW freed, NEW x,
             resident' = [resident EXCEPT ![r] = resident[r] \ gone],
             Finish(r, Without(b, freed), x, unsure[r], granted[r]), UNCHANGED adopted
      PROVE  HInv'
  <2> DEFINE s == Without(b, freed)
  <2>1. /\ resident'[r] = resident[r] \ gone
        /\ \A y \in Runtimes \ {r} : resident'[y] = resident[y]
    BY <1>3, <1>5
  <2>2. ASSUME phase[r] = "up"
        PROVE  /\ granted[r] \cap adopted[r] = {}
               /\ (resident'[r] \cup late[r]) \ granted[r]
                    \subseteq Unconfirmed(op[r], resident[r], late[r], granted[r], stray[r])
               /\ \A m \in Models \ adopted[r] : s[m] \in Charged(m)
    <3>1. /\ stray[r] = {} /\ granted[r] \cap adopted[r] = {}
          /\ \A m \in Models \ adopted[r] : slots[r][m] \in Charged(m)
          /\ o.id \notin adopted[r] => o.prev \in Charged(o.id)
      BY <1>1, <2>2, FlightHead
    <3>2. \A m \in Models : s[m] = 0 \/ s[m] = IF m = o.id THEN o.prev ELSE slots[r][m]
      BY <1>2 DEF Without
    <3> HIDE DEF s, b
    <3>3. \A m \in Models \ adopted[r] : s[m] \in Charged(m)
      BY <3>1, <3>2 DEF Charged
    <3> QED BY <2>1, <3>1, <3>3 DEF Unconfirmed
  <2>3. Finish(r, s, x, unsure[r], granted[r]) /\ adopted' = adopted /\ late' = late
        /\ stray' = stray
    BY <1>1, <1>5
  <2>4. \A y \in Runtimes \ {r} : /\ adopted'[y] = adopted[y] /\ resident'[y] = resident[y]
                                  /\ late'[y] = late[y]
    BY <2>1, <2>3
  <2>5. phase[r] = "up" => adopted'[r] \subseteq adopted[r]
    BY <2>3
  <2> HIDE DEF s, b, o
  <2> QED BY <1>1, <1>2, <2>2, <2>3, <2>4, <2>5, FinishHead
<1> QED
  <2>1. \/ /\ resident' = [resident EXCEPT ![r] = R]
           /\ Released(status.used, AfterEviction(r))
           /\ op' = [op EXCEPT ![r] = [o EXCEPT !.pc = SendPc(r, o.id), !.status = status]]
           /\ UNCHANGED <<phase, ledger, books, granted, breach>>
        \/ \E freed \in SUBSET o.victims :
             /\ resident' = [resident EXCEPT ![r] = R]
             /\ Finish(r, Without(b, freed), Measured(r, Without(b, freed), status), unsure[r], granted[r])
             /\ UNCHANGED adopted
        \/ \E gone \in SUBSET o.victims :
             /\ resident' = [resident EXCEPT ![r] = resident[r] \ gone]
             /\ Finish(r, b, measured[r], unsure[r], granted[r])
             /\ UNCHANGED adopted
    BY DEF EvictVictims
  <2>2. Without(b, {}) = b
    BY <1>2 DEF Without
  <2>3. o.victims \in SUBSET o.victims
    OBVIOUS
  <2>4. ASSUME NEW freed \in SUBSET o.victims, resident' = [resident EXCEPT ![r] = R],
               Finish(r, Without(b, freed), Measured(r, Without(b, freed), status), unsure[r],
                      granted[r]),
               UNCHANGED adopted
        PROVE  HInv'
    <3> HIDE DEF o, status, b
    <3> QED BY <1>5, <2>3, <2>4
  <2>5. ASSUME NEW gone \in SUBSET o.victims,
               resident' = [resident EXCEPT ![r] = resident[r] \ gone],
               Finish(r, b, measured[r], unsure[r], granted[r]), UNCHANGED adopted
        PROVE  HInv'
    <3>1. Finish(r, Without(b, {}), measured[r], unsure[r], granted[r])
      BY <2>2, <2>5
    <3> HIDE DEF o, status, b
    <3> QED BY <1>5, <2>5, <3>1
  <2> HIDE DEF o, R, status, b
  <2> QED BY <1>4, <2>1, <2>4, <2>5

LEMMA VerifyHead ==
  ASSUME HInv, IInv', NEW r \in Runtimes, Verify(r)
  PROVE  HInv'
<1> DEFINE o == op[r]
           n == [o EXCEPT !.pc = "load"]
<1>1. /\ o # None /\ o.pc = "verify" /\ o.id \in resident[r]
      /\ op' = [op EXCEPT ![r] = n]
      /\ UNCHANGED <<setup, phase, alloc, claim, slots, measured, adopted, unsure,
                     resident, late, stray, granted, breach>>
  BY DEF Verify, config, ledger, books, engine, history
<1>2. TypeOK /\ Frugal(r) /\ o \in Operation
  BY <1>1, FlightHead DEF HInv, IInv
<1>3. /\ n # None /\ n.id = o.id /\ n.charge = o.charge /\ n.prev = o.prev
      /\ n.victims = o.victims /\ n.confirmed = o.confirmed /\ n.pc = "load"
  <2>1. n \in Operation
    BY <1>2 DEF Operation
  <2> QED BY <1>2, <2>1, NoneAssumption DEF Operation
<1>4. op'[r] = n /\ \A y \in Runtimes \ {r} : op'[y] = op[y]
  <2> HIDE DEF n
  <2> QED BY <1>1, <1>2 DEF TypeOK
<1>5. \A y \in Runtimes \ {r} : Alike(y)
  BY <1>1, <1>4 DEF Alike, Same
<1>6. /\ PlanOf(n, slots[r], measured[r]) = PlanOf(o, slots[r], measured[r])
      /\ ~Waits(n, adopted[r], resident[r]) /\ ~Waits(o, adopted[r], resident[r])
      /\ Unconfirmed(n, resident[r], late[r], granted[r], stray[r])
         = Unconfirmed(o, resident[r], late[r], granted[r], stray[r])
  <2> HIDE DEF n
  <2> QED BY <1>1, <1>3 DEF PlanOf, Before, Waits, Unconfirmed
<1>7. Calm' <=> Calm
  BY <1>1 DEF Calm
<1>8. Frugal(r)'
  <2>1. FrugalBooks(phase[r], claim[r], slots[r], n, measured[r], adopted[r], resident[r],
                    granted[r], Calm)
    <3> HIDE DEF n
    <3> QED BY <1>1, <1>2, <1>3, <1>6 DEF Frugal, FrugalBooks
  <2> HIDE DEF n
  <2> QED BY <1>1, <1>4, <1>7, <2>1, NeedAfter
<1>9. Need(r)' = Need(r)
  <2>1. Need(r)' = NeedOf(op'[r], slots'[r], measured'[r], adopted'[r], resident'[r], late'[r],
                          granted'[r], stray'[r])
    BY <1>1, NeedAfter
  <2> HIDE DEF n
  <2> QED BY <1>1, <1>4, <1>6, <2>1 DEF Need, NeedOf
<1>10. Need(r) \in Nat
  BY <1>2, NeedNat
<1> HIDE DEF n, o
<1> QED BY <1>1, <1>5, <1>8, <1>9, <1>10, HeadStep

LEMMA AllocateHead ==
  ASSUME HInv, IInv', NEW r \in Runtimes, Allocate(r)
  PROVE  HInv'
<1> DEFINE o == op[r]
           R == resident[r] \cup {o.id}
           G == Granted(r)
<1>1. /\ o # None /\ o.pc = "load" /\ o.id \notin resident[r]
      /\ resident' = [resident EXCEPT ![r] = R] /\ granted' = [granted EXCEPT ![r] = G]
      /\ UNCHANGED <<setup, phase, alloc, claim, slots, measured, adopted, unsure, op,
                     late, stray, breach>>
  BY DEF Allocate, Sent, config, ledger, books
<1>2. /\ TypeOK /\ OwnersAgree /\ Frugal(r)
      /\ o \in Operation /\ o.id \in Models /\ resident[r] \in SUBSET Models
      /\ phase[r] \in {"up", "untracked"}
  BY <1>1, FlightHead DEF HInv, IInv
<1>3. /\ resident'[r] = R /\ granted'[r] = G
      /\ \A y \in Runtimes \ {r} : resident'[y] = resident[y] /\ granted'[y] = granted[y]
  BY <1>1, <1>2 DEF TypeOK
<1>4. \A y \in Runtimes \ {r} : Alike(y)
  BY <1>1, <1>3 DEF Alike, Same
<1>5. G = IF o.confirmed THEN granted[r] \cup {o.id} ELSE granted[r] \ {o.id}
  BY DEF Granted
<1>6. ~Waits(o, adopted[r], R)
  BY DEF Waits
<1>7. Calm' <=> Calm
  BY <1>1 DEF Calm
<1>8. ASSUME phase[r] = "up"
      PROVE  G \cap adopted[r] = {} /\ stray[r] = {} /\ late[r] = {}
  BY <1>1, <1>5, <1>8, FlightHead
<1>9. Frugal(r)'
  <2>1. FrugalBooks(phase[r], claim[r], slots[r], o, measured[r], adopted[r], R, G, Calm)
    <3> HIDE DEF R, G
    <3> QED BY <1>1, <1>2, <1>6, <1>8 DEF Frugal, FrugalBooks
  <2> HIDE DEF R, G
  <2> QED BY <1>1, <1>3, <1>7, <2>1, NeedAfter
<1>10. ASSUME r \in DOMAIN alloc
       PROVE  Need(r)' <= Need(r)
  <2>1. phase[r] = "up" /\ stray[r] = {} /\ late[r] = {}
    BY <1>2, <1>8, <1>10 DEF OwnersAgree
  <2>2. /\ setup \in Setups /\ op[r] \in Operation \cup {None} /\ slots[r] \in [Models -> Nat]
        /\ measured[r] \in Measures /\ late[r] \in SUBSET Models
    BY <1>2 DEF TypeOK, Measures
  <2> DEFINE V == Unconfirmed(o, R, late[r], G, stray[r])
             U == Unconfirmed(o, resident[r], late[r], granted[r], stray[r])
  <2>3. U \in SUBSET Models
    BY <1>2, <2>2, UnconfirmedType
  <2>4. V \subseteq U
    <3>1. V = R \ G
      BY <2>1 DEF Unconfirmed
    <3>2. U = (resident[r] \ granted[r]) \cup (IF ~o.confirmed THEN {o.id} ELSE {})
      BY <1>1, <2>1 DEF Unconfirmed
    <3> HIDE DEF V, U, G
    <3> QED BY <1>5, <3>1, <3>2
  <2>5. V \in SUBSET Models
    BY <2>3, <2>4
  <2>6. Memory(V) \in Nat /\ Memory(U) \in Nat /\ Memory(V) <= Memory(U)
    <3> HIDE DEF U, V
    <3> QED BY <2>3, <2>4, <2>5, MemoryFact
  <2>7. Need(r) \in Nat /\ Memory(U) <= Need(r)
    BY <1>2, <2>2, NeedOfFact DEF Need
  <2>8. Need(r)' = NeedOf(op'[r], slots'[r], measured'[r], adopted'[r], resident'[r], late'[r],
                          granted'[r], stray'[r])
    BY <1>1, NeedAfter
  <2>9. Need(r)' = Larger(Memory(V), 0)
    <3> HIDE DEF R, G
    <3> QED BY <1>1, <1>3, <1>6, <2>8 DEF NeedOf
  <2> HIDE DEF U, V
  <2> QED BY <2>6, <2>7, <2>9 DEF Larger
<1>11. DOMAIN alloc' = DOMAIN alloc /\ (breach' = "none" => breach = "none") /\ setup' = setup
  BY <1>1
<1> HIDE DEF R, G, o
<1> QED BY <1>4, <1>9, <1>10, <1>11, HeadStep

LEMMA AllocateLateHead ==
  ASSUME HInv, IInv', NEW r \in Runtimes, NEW m \in Models, AllocateLate(r, m)
  PROVE  HInv'
<1> DEFINE R == resident[r] \cup {m}
           L == late[r] \ {m}
<1>1. /\ m \in late[r]
      /\ resident' = [resident EXCEPT ![r] = R] /\ late' = [late EXCEPT ![r] = L]
      /\ UNCHANGED <<setup, phase, alloc, claim, slots, measured, adopted, unsure, op,
                     stray, granted, breach>>
  BY DEF AllocateLate, config, ledger, books, history
<1>2. TypeOK /\ OwnersAgree /\ Frugal(r) /\ Sound(r) /\ Asleep(r)
  BY DEF HInv, IInv
<1>3. /\ resident'[r] = R /\ late'[r] = L
      /\ \A y \in Runtimes \ {r} : resident'[y] = resident[y] /\ late'[y] = late[y]
  BY <1>1, <1>2 DEF TypeOK
<1>4. \A y \in Runtimes \ {r} : Alike(y)
  BY <1>1, <1>3 DEF Alike, Same
<1>5. phase[r] # "untracked" => op[r] = None
  <2>1. ASSUME phase[r] = "up", op[r] # None PROVE FALSE
    <3>1. late[r] = {}
      BY <2>1, FlightHead
    <3> QED BY <1>1, <3>1
  <2> QED BY <1>2, <2>1 DEF TypeOK, Asleep
<1>6. Calm' <=> Calm
  BY <1>1 DEF Calm
<1>7. Frugal(r)'
  <2>1. FrugalBooks(phase[r], claim[r], slots[r], op[r], measured[r], adopted[r], R, granted[r], Calm)
    <3> HIDE DEF R
    <3> QED BY <1>2, <1>5 DEF Frugal, FrugalBooks
  <2> HIDE DEF R
  <2> QED BY <1>1, <1>3, <1>6, <2>1, NeedAfter
<1>8. ASSUME r \in DOMAIN alloc
      PROVE  Need(r)' = Need(r)
  <2>1. op[r] = None
    BY <1>2, <1>5, <1>8 DEF OwnersAgree
  <2>2. R \cup L = resident[r] \cup late[r]
    BY <1>1
  <2>3. Unconfirmed(op[r], R, L, granted[r], stray[r])
        = Unconfirmed(op[r], resident[r], late[r], granted[r], stray[r])
    <3> HIDE DEF R, L
    <3> QED BY <2>1, <2>2 DEF Unconfirmed
  <2>4. Need(r)' = NeedOf(op'[r], slots'[r], measured'[r], adopted'[r], resident'[r], late'[r],
                          granted'[r], stray'[r])
    BY <1>1, NeedAfter
  <2> HIDE DEF R, L
  <2> QED BY <1>1, <1>3, <2>1, <2>3, <2>4 DEF Need, NeedOf, Waits
<1>9. Need(r) \in Nat
  BY <1>2, NeedNat
<1> HIDE DEF R, L
<1> QED BY <1>1, <1>4, <1>7, <1>8, <1>9, HeadStep

\* A step that leaves everything but other clients' memory alone.
LEMMA StillHead ==
  ASSUME HInv, IInv',
         UNCHANGED <<setup, phase, alloc, claim, slots, measured, adopted, unsure, op, resident,
                     late, stray, granted, breach>>
  PROVE  HInv'
<1>1. IInv /\ TypeOK /\ Spared /\ \A y \in Runtimes : Frugal(y) /\ Alike(y)
  BY DEF HInv, IInv, Alike, Same
<1>2. \A y \in Runtimes : Need(y)' = Need(y) /\ Frugal(y)'
  BY <1>1, HeadSame
<1>3. \A y \in Runtimes : Need(y) \in Nat
  BY <1>1, NeedNat
<1>4. \A y \in DOMAIN alloc : Need(y)' <= Need(y)
  BY <1>1, <1>2, <1>3 DEF TypeOK
<1>5. Spared'
  BY <1>1, <1>4, SparedLess
<1> QED BY <1>2, <1>5 DEF HInv

\* What is admitted without confirmation leaves the headroom free.
LEMMA UnconfirmedFits ==
  ASSUME TypeOK, NEW r \in Runtimes, NEW held, NEW planned \in Nat, setup.exact,
         Judge(r, held, planned, FALSE) = "ok"
  PROVE  ReservedExcept({r}) + planned <= Usable
<1>1. ReservedExcept({r}) \in Nat /\ Budget \in Nat /\ Usable \in Nat
  BY ReservedFact, BudgetFact DEF TypeOK
<1> DEFINE total == ReservedExcept({r}) + planned
<1>2. total \in Nat
  BY <1>1
<1> HIDE DEF total
<1>3. ~(total > Usable)
  BY DEF Judge, total
<1> QED BY <1>1, <1>2, <1>3 DEF total

LEMMA StartLoadHead ==
  ASSUME SteadyEstimates, HInv, IInv', NEW r \in Runtimes, NEW m \in Models,
         NEW estimate \in Estimates[m], NEW confirmed \in BOOLEAN,
         StartLoad(r, m, estimate, confirmed)
  PROVE  HInv'
<1> DEFINE charge == RequestCharge(r, m, estimate)
           x == measured[r]
           A == adopted[r]
           R == resident[r]
<1>1. /\ phase[r] \in {"up", "untracked"} /\ op[r] = None /\ unsure[r] = {}
      /\ slots' = [slots EXCEPT ![r] = [slots[r] EXCEPT ![m] = charge]]
      /\ UNCHANGED <<setup, phase, measured, adopted, unsure, resident, late, stray, granted, breach>>
  BY DEF StartLoad, Serving, config, engine, history
<1>2. PICK victims \in VictimSets(r, m, charge) :
        LET planned == PlannedWith(r, m, charge, victims)
        IN  /\ Admits(r, planned, confirmed)
            /\ Claim(r, planned)
            /\ op' = [op EXCEPT ![r] =
                        [id |-> m, charge |-> charge, prev |-> slots[r][m],
                         victims |-> victims, confirmed |-> confirmed, status |-> None,
                         pc |-> IF victims # {} THEN "evict" ELSE SendPc(r, m)]]
  BY DEF StartLoad
<1> DEFINE planned == PlannedWith(r, m, charge, victims)
           n == [id |-> m, charge |-> charge, prev |-> slots[r][m],
                 victims |-> victims, confirmed |-> confirmed, status |-> None,
                 pc |-> IF victims # {} THEN "evict" ELSE SendPc(r, m)]
           t == [slots[r] EXCEPT ![m] = charge]
<1>3. /\ IInv /\ TypeOK /\ OwnersAgree /\ Within /\ Sound(r) /\ Frugal(r)
  BY DEF HInv, IInv
<1>4. /\ setup \in Setups /\ slots[r] \in [Models -> Nat] /\ x \in Measures
      /\ A \in SUBSET Models /\ R \in SUBSET Models /\ claim[r] \in Nat
      /\ late[r] \in SUBSET Models
      /\ slots \in [Runtimes -> [Models -> Nat]] /\ op \in [Runtimes -> Operation \cup {None}]
      /\ slots[r][m] \in Nat
  BY <1>3 DEF TypeOK, Measures
<1>5. victims \in SUBSET Models
  BY DEF VictimSets
<1>6. /\ estimate \in Nat /\ Size[m] \in Nat /\ Size[m] <= estimate
      /\ Own(estimate) \in Nat /\ Own(Size[m]) <= Own(estimate)
      /\ Own(Size[m]) \in Nat /\ Own(Size[m]) > 0
  BY <1>4, GlobalCapacityAssumption, OwnFact, OwnMono, OneModel
<1>7. Seen(r) \in Nat /\ Seen(r) = Aggregate(x, slots[r], {})
  BY <1>1, <1>4, AggregateFact DEF Seen
<1>8. /\ charge \in Nat
      /\ m \notin A => charge = Own(estimate) /\ charge \in Charged(m) /\ charge > 0
                       /\ Own(Size[m]) <= charge
  BY <1>6, <1>7 DEF RequestCharge, AtLeast0, Larger, Charged
<1>9. planned \in Nat /\ planned = Seen(r) + charge + Charges(slots[r], Models \ (victims \cup {m}))
  <2>1. Charges(slots[r], Models \ (victims \cup {m})) \in Nat
    BY <1>4, ChargesFact
  <2> HIDE DEF charge
  <2> QED BY <1>7, <1>8, <2>1 DEF PlannedWith
<1>10. /\ n \in Operation /\ n # None /\ n.id = m /\ n.charge = charge /\ n.prev = slots[r][m]
       /\ n.victims = victims /\ n.confirmed = confirmed
       /\ n.pc = IF victims # {} THEN "evict" ELSE SendPc(r, m)
  <2>1. n \in Operation
    <3> HIDE DEF charge
    <3> QED BY <1>4, <1>5, <1>8 DEF Operation, SendPc
  <2> HIDE DEF charge
  <2> QED BY <2>1, NoneAssumption
<1>11. /\ Admits(r, planned, confirmed) /\ Claim(r, planned) /\ op' = [op EXCEPT ![r] = n]
  BY <1>2
<1>12. /\ op'[r] = n /\ slots'[r] = t /\ t \in [Models -> Nat]
       /\ \A k \in Models : t[k] = IF k = m THEN charge ELSE slots[r][k]
       /\ \A y \in Runtimes \ {r} : op'[y] = op[y] /\ slots'[y] = slots[y]
  <2>1. t \in [Models -> Nat] /\ \A k \in Models : t[k] = IF k = m THEN charge ELSE slots[r][k]
    <3> HIDE DEF charge
    <3> QED BY <1>4, <1>8
  <2>2. slots' = [slots EXCEPT ![r] = t]
    BY <1>1
  <2> HIDE DEF n, t, charge
  <2> QED BY <1>4, <1>11, <2>1, <2>2
<1>13. /\ DOMAIN alloc' = DOMAIN alloc
       /\ \A y \in Runtimes \ {r} : claim'[y] = claim[y]
       /\ r \in DOMAIN alloc => planned <= claim'[r]
  <2>1. UNCHANGED <<setup, phase, breach>>
    BY <1>1
  <2>2. DOMAIN alloc' = DOMAIN alloc
    <3> HIDE DEF planned
    <3> QED BY <1>11 DEF Claim, Record, ledger
  <2> HIDE DEF planned
  <2> QED BY <1>3, <1>9, <1>11, <2>1, <2>2, ClaimFact
<1>14. \A y \in Runtimes \ {r} : Alike(y)
  BY <1>1, <1>12, <1>13 DEF Alike, Same
<1>15. Before(t, n) = slots[r]
  <2>1. Before(t, n) = [t EXCEPT ![m] = slots[r][m]]
    <3> HIDE DEF n, t
    <3> QED BY <1>10 DEF Before
  <2>2. [t EXCEPT ![m] = slots[r][m]] = slots[r]
    <3> HIDE DEF charge
    <3> QED BY <1>4
  <2> QED BY <2>1, <2>2
<1>16. PlanOf(n, t, x) = planned
  <2>1. Charges(t, Models \ (victims \cup {m})) = Charges(slots[r], Models \ (victims \cup {m}))
    <3>1. /\ setup \in Setups /\ slots[r] \in [Models -> Nat] /\ x \in Measures
          /\ charge \in Nat /\ victims \in SUBSET Models
      BY <1>4, <1>5, <1>8
    <3> HIDE DEF charge, x
    <3> QED BY ONLY m \in Models, <3>1, Surroundings DEF t
  <2>2. Charges(slots[r], Models \ (victims \cup {m})) \in Nat
    BY <1>4, ChargesFact
  <2> HIDE DEF n, t, planned, charge
  <2> QED BY <1>7, <1>8, <1>9, <1>10, <1>15, <2>1, <2>2 DEF PlanOf
<1>17. ASSUME phase[r] = "up"
       PROVE  /\ r \in DOMAIN alloc /\ stray[r] = {} /\ late[r] = {}
              /\ claim[r] = Accounted(slots[r], x, {})
              /\ Proven(x, A, R) /\ Paid(slots[r], A) /\ Booked(slots[r], A, R)
              /\ granted[r] \cap A = {}
              /\ \A k \in Models \ A : slots[r][k] \in Charged(k)
  <2>1. Before(slots[r], op[r]) = slots[r] /\ Asked(op[r]) = {}
    BY <1>1 DEF Before, Asked
  <2>2. late[r] = {}
    BY <1>1, <1>3, <1>17 DEF Sound, SoundBooks, Kept
  <2>3. (resident[r] \cup late[r]) \ {} = resident[r]
    BY <2>2
  <2>4. granted[r] \cap A = {} /\ \A k \in Models \ A : slots[r][k] \in Charged(k)
    BY <1>3, <1>17 DEF Frugal, FrugalBooks
  <2>5. r \in DOMAIN alloc
    BY <1>3, <1>17 DEF OwnersAgree
  <2> QED BY <1>1, <1>3, <1>17, <2>1, <2>2, <2>3, <2>4, <2>5 DEF Sound, SoundBooks, Kept
<1>18. ASSUME phase[r] = "up", Calm, m \notin A, slots[r][m] > 0
       PROVE  slots[r][m] = charge /\ victims = {}
  <2>1. slots[r][m] = charge
    <3>1. slots[r][m] \in Charged(m) /\ charge \in Charged(m) /\ charge > 0
      BY <1>8, <1>17, <1>18
    <3> HIDE DEF charge
    <3> QED BY <1>4, <1>18, <3>1, ChargedFact
  <2>2. PlannedWith(r, m, charge, {}) = Accounted(slots[r], x, {})
    <3>1. Charges(slots[r], Models) = slots[r][m] + Charges(slots[r], Models \ {m})
      <4>1. Summable(slots[r], Models)
        BY <1>4, GlobalCapacityAssumption DEF Summable
      <4> QED BY <4>1, SumSplit DEF Charges
    <3>2. Accounted(slots[r], x, {}) = Charges(slots[r], Models) + Seen(r)
      BY <1>4, <1>7, AggregateFact
    <3>3. Charges(slots[r], Models \ {m}) \in Nat
      BY <1>4, ChargesFact
    <3>4. {} \cup {m} = {m}
      OBVIOUS
    <3>5. PlannedWith(r, m, charge, {}) = Seen(r) + charge + Charges(slots[r], Models \ {m})
      BY <3>4 DEF PlannedWith
    <3> HIDE DEF charge
    <3> QED BY <1>4, <1>7, <2>1, <3>1, <3>2, <3>3, <3>5
  <2>3. claim[r] <= Budget
    <3>1. r \in DOMAIN alloc /\ breach = "none" /\ setup.exact
      BY <1>17, <1>18 DEF Calm
    <3>2. alloc[r] = claim[r] /\ Tolerance = 0
      BY <1>3, <3>1 DEF OwnersAgree, Entry, Tolerance
    <3>3. Reserved <= Budget + Tolerance
      BY <1>3, <3>1 DEF Within
    <3>4. Reserved = ReservedExcept({r}) + alloc[r] /\ ReservedExcept({r}) \in Nat
      BY <1>3, <3>1, ReservedFact
    <3>5. Budget \in Nat
      BY <1>4, BudgetFact
    <3> QED BY <1>4, <3>2, <3>3, <3>4, <3>5
  <2>4. Budget <= Own(setup.budget)
    <3>1. setup.budget \in Nat /\ Budget \in Nat /\ Grain \in Nat \ {0}
      BY <1>4, BudgetFact, GlobalCapacityAssumption
    <3> DEFINE k == Units(setup.budget)
               b == Budget
    <3>2. k \in Nat /\ setup.budget <= Grain * k /\ Own(setup.budget) = k
      BY <1>18, <3>1, UnitsFact DEF Own, Calm
    <3>3. b \in Nat /\ Grain * b <= setup.budget
      BY <3>1, DivFact DEF Budget
    <3> HIDE DEF k, b
    <3>4. ASSUME k + 1 <= b PROVE FALSE
      <4>1. Grain * (k + 1) <= Grain * b /\ Grain * b \in Nat
        BY <3>1, <3>2, <3>3, <3>4, MulMono
      <4>2. Grain * (k + 1) = Grain * k + Grain
        BY <3>1, <3>2
      <4>3. Grain * k \in Nat
        BY <3>1, <3>2, MulMono
      <4> QED BY <3>1, <3>2, <3>3, <4>1, <4>2, <4>3
    <3>5. b <= k
      BY <3>2, <3>3, <3>4
    <3> QED BY <3>2, <3>5 DEF b
  <2>5. FitsAlone(r, PlannedWith(r, m, charge, {}))
    <3>1. Budget \in Nat /\ Own(setup.budget) \in Nat
      BY <1>4, BudgetFact, OwnFact
    <3>2. PlannedWith(r, m, charge, {}) = claim[r]
      BY <1>17, <1>18, <2>2
    <3> HIDE DEF charge
    <3> QED BY <1>4, <2>3, <2>4, <3>1, <3>2 DEF FitsAlone
  <2>6. VictimSets(r, m, charge) = {{}}
    <3> HIDE DEF charge
    <3> QED BY <2>5 DEF VictimSets
  <2> QED BY <2>1, <2>6
<1>19. ASSUME phase[r] = "up", Calm, m \notin A, victims = {}
       PROVE  Memory(R \cup {m}) <= Grains(planned)
  <2>1. /\ Paid(Before(t, n), A) /\ Booked(Before(t, n), A, R) /\ Proven(x, A, R)
    BY <1>15, <1>17, <1>19
  <2>2. n.charge = t[n.id] /\ Own(Size[n.id]) <= n.charge /\ n.id \notin A
    BY <1>8, <1>10, <1>12, <1>19
  <2>3. n.victims = {} /\ (n.prev > 0 => n.prev = n.charge /\ n.victims = {})
    BY <1>10, <1>18, <1>19
  <2> DEFINE o == n
  <2>4. o \in Operation /\ o = n
    BY <1>10
  <2>5. Memory(R \cup {o.id}) <= Grains(PlanOf(o, t, x))
    <3> HIDE DEF n, o, t, x, A, R
    <3> QED BY <1>4, <1>12, <2>1, <2>2, <2>3, <2>4, PlanCovers
  <2> HIDE DEF n, t, planned, R
  <2> QED BY <1>10, <1>16, <2>4, <2>5
<1>20. Calm' <=> Calm
  BY <1>1 DEF Calm
<1>21. Frugal(r)'
  <2>1. FrugalBooks(phase[r], claim'[r], t, n, x, A, R, granted[r], Calm)
    <3>1. CASE phase[r] = "up"
      <4>1. /\ granted[r] \cap A = {} /\ planned <= claim'[r]
            /\ \A k \in Models \ A : slots[r][k] \in Charged(k)
        BY <1>13, <1>17, <3>1
      <4>2. \A k \in Models \ A : t[k] \in Charged(k)
        <5> HIDE DEF t, charge
        <5> QED BY <1>8, <1>12, <4>1
      <4>3. Waits(n, A, R) /\ n.pc = "load" => m \notin A /\ victims = {}
        <5> HIDE DEF n
        <5> QED BY <1>10 DEF Waits, SendPc
      <4> HIDE DEF n, t, planned, A, R, x, charge
      <4> QED BY <1>10, <1>16, <1>18, <1>19, <3>1, <4>1, <4>2, <4>3 DEF FrugalBooks, A
    <3>2. CASE phase[r] = "untracked"
      BY <3>2 DEF FrugalBooks
    <3> QED BY <1>1, <3>1, <3>2
  <2> HIDE DEF n, t
  <2> QED BY <1>1, <1>12, <1>20, <2>1, NeedAfter
<1>22. Need(r)' = NeedOf(n, t, x, A, R, late[r], granted[r], stray[r])
  <2>1. Need(r)' = NeedOf(op'[r], slots'[r], measured'[r], adopted'[r], resident'[r], late'[r],
                          granted'[r], stray'[r])
    BY <1>1, NeedAfter
  <2> HIDE DEF n, t
  <2> QED BY <1>1, <1>12, <2>1
<1> DEFINE U == (R \cup late[r]) \ (granted[r] \cup stray[r])
           V == Unconfirmed(n, R, late[r], granted[r], stray[r])
<1>23. /\ Memory(U) \in Nat /\ Need(r) = Memory(U)
  <2>1. Unconfirmed(op[r], R, late[r], granted[r], stray[r]) = U
    BY <1>1 DEF Unconfirmed
  <2>2. U \in SUBSET Models
    BY <1>4
  <2>3. Memory(U) \in Nat
    <3> HIDE DEF U
    <3> QED BY <2>2, MemoryFact
  <2>4. Need(r) = Larger(Memory(U), 0)
    BY <1>1, <2>1 DEF Need, NeedOf, Waits
  <2> HIDE DEF U
  <2> QED BY <2>3, <2>4 DEF Larger
<1>24. CASE ~Waits(n, A, R) \/ ~Calm \/ r \notin DOMAIN alloc
  <2>1. ASSUME Calm, r \in DOMAIN alloc
        PROVE  Need(r)' <= Need(r)
    <3>1. ~Waits(n, A, R)
      BY <1>24, <2>1
    <3>2. V = U
      <4>1. n.pc = "load" => m \notin A
        <5> HIDE DEF n
        <5> QED BY <1>10 DEF SendPc
      <4> HIDE DEF n
      <4> QED BY <1>10, <3>1, <4>1 DEF Waits, Unconfirmed
    <3>3. NeedOf(n, t, x, A, R, late[r], granted[r], stray[r]) = Larger(Memory(U), 0)
      <4> HIDE DEF n, t, x, A, R, U
      <4> QED BY <3>1, <3>2 DEF NeedOf, V
    <3> HIDE DEF U, n, t, x, A, R
    <3> QED BY <1>22, <1>23, <3>3 DEF Larger
  <2>2. (breach' = "none" => breach = "none") /\ setup' = setup
    BY <1>1
  <2> QED BY <1>13, <1>14, <1>21, <2>1, <2>2, HeadStep
<1>25. CASE Waits(n, A, R) /\ Calm /\ r \in DOMAIN alloc
  <2>1. ~confirmed /\ m \notin A \cup R /\ phase[r] = "up" /\ setup.exact
    <3>1. phase[r] # "untracked"
      BY <1>3, <1>25 DEF OwnersAgree
    <3> HIDE DEF n
    <3> QED BY <1>1, <1>10, <1>25, <3>1 DEF Waits, Calm
  <2>2. ReservedExcept({r}) + planned <= Usable
    <3>1. Judge(r, Held(r, planned), planned, FALSE) = "ok"
      <4>1. confirmed = FALSE
        BY <2>1
      <4> HIDE DEF planned
      <4> QED BY <1>11, <1>25, <4>1 DEF Admits, Tracked
    <3> HIDE DEF planned
    <3> QED BY <1>3, <1>9, <2>1, <3>1, UnconfirmedFits
  <2>3. Grains(planned) = Grain * planned /\ Grains(planned) \in Nat
    <3> HIDE DEF planned
    <3> QED BY <1>4, <1>9, <2>1, GrainsFact DEF Grains
  <2>4. Memory(V) <= Memory(U) \/ Memory(V) <= Grains(planned)
    <3>1. CASE n.pc = "load"
      <4>1. victims = {}
        <5> HIDE DEF n
        <5> QED BY <1>10, <3>1
      <4>2. Memory(R \cup {m}) <= Grains(planned)
        BY <1>19, <1>25, <2>1, <4>1
      <4>3. V \subseteq R \cup {m} /\ R \cup {m} \in SUBSET Models
        <5>1. stray[r] = {} /\ late[r] = {}
          BY <1>17, <2>1
        <5> HIDE DEF n
        <5> QED BY <1>4, <1>10, <5>1 DEF Unconfirmed
      <4>4. V \in SUBSET Models
        BY <4>3
      <4>5. /\ Memory(V) \in Nat /\ Memory(R \cup {m}) \in Nat
            /\ Memory(V) <= Memory(R \cup {m})
        <5> DEFINE E == R \cup {m}
        <5> HIDE DEF V, E
        <5> QED BY <4>3, <4>4, MemoryFact DEF E
      <4> HIDE DEF V, R, planned
      <4> QED BY <2>3, <4>2, <4>5
    <3>2. CASE n.pc # "load"
      <4>1. V = U
        <5> HIDE DEF n
        <5> QED BY <3>2 DEF Unconfirmed
      <4> HIDE DEF V, U
      <4> QED BY <1>23, <4>1
    <3> QED BY <3>1, <3>2
  <2>5. Need(r)' <= Need(r) \/ Need(r)' <= Grain * planned
    <3>1. n \in Operation \cup {None}
      BY <1>10
    <3>2. \A k \in Nat : Memory(V) <= k /\ Grains(planned) <= k => Need(r)' <= k
      <4> DEFINE q == PlanOf(n, t, x)
      <4>1. q = planned
        BY <1>16
      <4>2. \A k \in Nat : Memory(V) <= k /\ Grains(q) <= k
                           => NeedOf(n, t, x, A, R, late[r], granted[r], stray[r]) <= k
        <5> HIDE DEF n, t, x, A, R
        <5> QED BY <1>4, <1>12, <3>1, NeedOfFact DEF V, q
      <4> HIDE DEF n, t, x, A, R, V, q, planned
      <4> QED BY <1>22, <4>1, <4>2
    <3>3. Memory(V) \in Nat
      <4>1. V \in SUBSET Models
        <5> HIDE DEF n, R
        <5> QED BY <1>4, <3>1, UnconfirmedType
      <4> HIDE DEF V
      <4> QED BY <4>1, MemoryFact
    <3> DEFINE v == Memory(V)
               u == Memory(U)
               k == Grains(planned)
    <3>4. /\ v \in Nat /\ u \in Nat /\ k \in Nat /\ (v <= u \/ v <= k)
          /\ \A j \in Nat : v <= j /\ k <= j => Need(r)' <= j
      BY <1>23, <2>3, <2>4, <3>2, <3>3
    <3>5. Need(r) = u /\ Grain * planned = k
      BY <1>23, <2>3
    <3> HIDE DEF v, u, k, planned
    <3>6. CASE v <= k
      BY <3>4, <3>5, <3>6
    <3>7. CASE k <= v /\ v <= u
      BY <3>4, <3>5, <3>7
    <3> QED BY <3>4, <3>6, <3>7
  <2>6. (breach' = "none" => breach = "none") /\ setup' = setup
    BY <1>1
  <2>7. CASE Need(r)' <= Need(r)
    BY <1>13, <1>14, <1>21, <2>6, <2>7, HeadStep
  <2>8. CASE Need(r)' <= Grain * planned
    <3>1. DOMAIN alloc' = DOMAIN alloc \cup {r}
      BY <1>13, <1>25
    <3> HIDE DEF planned
    <3> QED BY <1>9, <1>14, <1>21, <2>2, <2>6, <2>8, <3>1, HeadGrowth
  <2> QED BY <2>5, <2>7, <2>8
<1> QED BY <1>24, <1>25

\* A runtime that is adopted at start-up needs no more than what was weighed.
LEMMA AdoptHead ==
  ASSUME HInv, IInv', NEW r \in Runtimes, phase[r] = "starting", NEW own \in Nat, Adopt(r, own),
         NEW p \in {"up", "refusing", "unknown"}, phase' = [phase EXCEPT ![r] = p],
         \A y \in Runtimes \ {r} : measured'[y] = measured[y] /\ adopted'[y] = adopted[y],
         UNCHANGED <<setup, slots, unsure, op, resident, late, stray, granted>>
  PROVE  HInv'
<1> DEFINE e == Larger(Entry(own), Units(Used(r)))
<1>1. /\ IInv /\ TypeOK /\ OwnersAgree /\ Within /\ Asleep(r) /\ Frugal(r)
  BY DEF HInv, IInv
<1>2. /\ setup \in Setups /\ resident[r] \in SUBSET Models /\ late[r] \in SUBSET Models
      /\ breach \in {"none", "headroom", "budget"} /\ op[r] = None /\ late[r] \subseteq stray[r]
      /\ slots[r] = [m \in Models |-> 0] /\ granted[r] = {}
  BY <1>1 DEF TypeOK, Asleep, Frugal, FrugalBooks
<1>3. /\ Entry(own) \in Nat /\ Units(Used(r)) \in Nat /\ ReservedExcept({r}) \in Nat
      /\ Budget \in Nat /\ Usable \in Nat /\ Used(r) \in Nat /\ Grain \in Nat
      /\ Memory(resident[r]) \in Nat /\ Memory(resident[r]) <= Used(r)
      /\ Used(r) <= Grain * Units(Used(r))
  BY <1>1, <1>2, EntryFact, UsedFact, ReservedFact, BudgetFact, GlobalCapacityAssumption
<1>4. e \in Nat /\ Units(Used(r)) <= e
  BY <1>3 DEF Larger
<1>5. /\ DOMAIN alloc' = DOMAIN alloc \cup {r} /\ breach' = Worse(ReservedExcept({r}) + e)
      /\ \A y \in Runtimes \ {r} : claim'[y] = claim[y]
  BY <1>1 DEF Adopt, TypeOK
<1>6. breach' = "none" => breach = "none" /\ ReservedExcept({r}) + e <= Usable
  <2> HIDE DEF e
  <2> QED BY <1>2, <1>3, <1>4, <1>5 DEF Worse
<1>7. phase'[r] = p /\ \A y \in Runtimes \ {r} : phase'[y] = phase[y]
  BY <1>1 DEF TypeOK
<1>8. \A y \in Runtimes \ {r} : Alike(y)
  BY <1>5, <1>7 DEF Alike, Same
<1>9. Frugal(r)'
  <2>1. FrugalBooks(p, claim'[r], slots[r], None, measured'[r], adopted'[r],
                    resident[r], {}, Calm')
    BY <1>2 DEF FrugalBooks, Charged
  <2> QED BY <1>2, <1>7, <2>1, NeedAfter
<1> DEFINE V == Unconfirmed(None, resident[r], late[r], granted[r], stray[r])
<1>10. V \subseteq resident[r] /\ V \in SUBSET Models
  BY <1>2 DEF Unconfirmed
<1>11. Memory(V) \in Nat /\ Memory(V) <= Memory(resident[r])
  <2> HIDE DEF V
  <2> QED BY <1>2, <1>10, MemoryFact
<1>12. Need(r)' = Memory(V)
  <2>1. Need(r)' = NeedOf(op'[r], slots'[r], measured'[r], adopted'[r], resident'[r], late'[r],
                          granted'[r], stray'[r])
    BY NeedAfter
  <2>2. Need(r)' = Larger(Memory(V), 0)
    BY <1>2, <2>1 DEF NeedOf, Waits
  <2> HIDE DEF V
  <2> QED BY <1>11, <2>2 DEF Larger
<1>13. Need(r)' <= Grain * e
  <2>1. /\ Grain * Units(Used(r)) \in Nat /\ Grain * e \in Nat
        /\ Grain * Units(Used(r)) <= Grain * e
    <3> HIDE DEF e
    <3> QED BY <1>3, <1>4, MulMono
  <2> HIDE DEF e, V
  <2> QED BY <1>3, <1>11, <1>12, <2>1
<1> HIDE DEF e, V
<1> QED BY <1>4, <1>5, <1>6, <1>8, <1>9, <1>13, HeadGrowth

LEMMA StartMeasuredHead ==
  ASSUME HInv, IInv', NEW r \in Runtimes, StartMeasured(r)
  PROVE  HInv'
<1> DEFINE p == IF stray[r] = {} THEN "up" ELSE "refusing"
           own == Own(Used(r))
<1>1. /\ phase[r] = "starting" /\ Adopt(r, own) /\ phase' = [phase EXCEPT ![r] = p]
      /\ measured' = [measured EXCEPT ![r] = Unaccounted(Used(r))]
      /\ adopted' = [adopted EXCEPT ![r] = resident[r]]
      /\ UNCHANGED <<setup, slots, unsure, op, resident, late, stray, granted>>
  BY DEF StartMeasured, config, engine
<1>2. TypeOK
  BY DEF HInv, IInv
<1>3. \A y \in Runtimes \ {r} : measured'[y] = measured[y] /\ adopted'[y] = adopted[y]
  BY <1>1, <1>2 DEF TypeOK
<1>4. own \in Nat /\ p \in {"up", "refusing", "unknown"}
  BY <1>2, UsedFact, OwnFact DEF TypeOK
<1> HIDE DEF own, p
<1> QED BY <1>1, <1>3, <1>4, AdoptHead

LEMMA StartUnknownHead ==
  ASSUME HInv, IInv', NEW r \in Runtimes, StartUnknown(r)
  PROVE  HInv'
<1> DEFINE own == Own(setup.budget)
<1>1. /\ phase[r] = "starting" /\ Adopt(r, own) /\ phase' = [phase EXCEPT ![r] = "unknown"]
      /\ UNCHANGED <<setup, slots, measured, adopted, unsure, op, resident, late, stray, granted>>
  BY DEF StartUnknown, config, books, engine
<1>2. own \in Nat
  BY BudgetFact, OwnFact DEF HInv, IInv, TypeOK
<1>3. \A y \in Runtimes \ {r} : measured'[y] = measured[y] /\ adopted'[y] = adopted[y]
  BY <1>1
<1> HIDE DEF own
<1> QED BY <1>1, <1>2, <1>3, AdoptHead

\* Nothing is charged and nothing was granted.
LEMMA EmptyHead ==
  ASSUME IInv, DOMAIN alloc = {}, \A r \in Runtimes : phase[r] # "up" /\ granted[r] = {}
  PROVE  HInv
<1>1. SumFunctionOnSet([r \in DOMAIN alloc |-> Need(r)], DOMAIN alloc) = 0
  <2> DEFINE h == [r \in DOMAIN alloc |-> Need(r)]
  <2> HIDE DEF h
  <2>1. SumFunctionOnSet(h, {}) = 0
    BY SumEmpty
  <2> QED BY <2>1 DEF h
<1>2. 0 <= Grain * Usable
  <2>1. Usable \in Nat /\ Grain \in Nat
    BY BudgetFact, GlobalCapacityAssumption DEF IInv, TypeOK
  <2> QED BY ONLY <2>1, MulMono
<1>3. Spared
  BY <1>1, <1>2 DEF Spared
<1>4. \A r \in Runtimes : Frugal(r)
  BY DEF Frugal, FrugalBooks
<1> QED BY <1>3, <1>4 DEF HInv

LEMMA InitHead == Init => HInv
<1> SUFFICES ASSUME Init PROVE HInv
  OBVIOUS
<1>1. /\ phase = AtBoot /\ alloc = [r \in {} |-> 0] /\ granted = [r \in Runtimes |-> {}]
  BY DEF Init
<1>2. DOMAIN alloc = {} /\ \A r \in Runtimes : phase[r] # "up" /\ granted[r] = {}
  BY <1>1 DEF AtBoot
<1> QED BY <1>2, InitHolds, EmptyHead

LEMMA RestartHead ==
  ASSUME IInv', Restart
  PROVE  HInv'
<1>1. /\ phase' = AtBoot /\ alloc' = [r \in {} |-> 0] /\ granted' = [r \in Runtimes |-> {}]
      /\ setup' = setup
  BY DEF Restart
<1>2. DOMAIN alloc' = {} /\ \A r \in Runtimes : phase'[r] # "up" /\ granted'[r] = {}
  BY <1>1 DEF AtBoot
<1>3. Spared'
  <2> DEFINE h == [r \in DOMAIN alloc' |-> Need(r)']
  <2>1. SumFunctionOnSet(h, {}) = 0
    <3> HIDE DEF h
    <3> QED BY SumEmpty
  <2>2. SumFunctionOnSet(h, DOMAIN alloc') = 0
    <3> HIDE DEF h
    <3> QED BY <1>2, <2>1
  <2>3. setup' \in Setups
    BY DEF IInv, TypeOK
  <2>4. 0 <= Grain * Usable /\ Usable' = Usable
    <3>1. Usable \in Nat /\ Grain \in Nat
      BY <1>1, <2>3, BudgetFact, GlobalCapacityAssumption
    <3>2. 0 <= Grain * Usable
      BY ONLY <3>1, MulMono
    <3> QED BY <1>1, <3>2 DEF Usable, Budget
  <2> QED BY <2>2, <2>4 DEF Spared
<1>4. \A r \in Runtimes : Frugal(r)'
  BY <1>2 DEF Frugal, FrugalBooks
<1> QED BY <1>3, <1>4 DEF HInv

LEMMA NextHead == SteadyEstimates /\ HInv /\ [Next]_vars => HInv'
<1> SUFFICES ASSUME SteadyEstimates, HInv, [Next]_vars PROVE HInv'
  OBVIOUS
<1>1. \A r \in Runtimes : Serves[r] \subseteq Models
  BY GlobalCapacityAssumption
<1>2. IInv'
  BY NextKeeps DEF HInv
<1>3. CASE UNCHANGED vars
  BY <1>2, <1>3, StillHead DEF vars, config, ledger, books, engine, history
<1>4. CASE Restart
  BY <1>2, <1>4, RestartHead
<1>5. ASSUME NEW r \in Runtimes, StartMeasured(r) PROVE HInv'
  BY <1>2, <1>5, StartMeasuredHead
<1>6. ASSUME NEW r \in Runtimes, StartUnknown(r) PROVE HInv'
  BY <1>2, <1>6, StartUnknownHead
<1>7. ASSUME NEW r \in Runtimes, NEW m \in Serves[r], NEW estimate \in Estimates[m],
             NEW confirmed \in BOOLEAN, StartLoad(r, m, estimate, confirmed)
      PROVE  HInv'
  BY <1>1, <1>2, <1>7, StartLoadHead
<1>8. ASSUME NEW r \in Runtimes, EvictVictims(r) PROVE HInv'
  BY <1>2, <1>8, EvictVictimsHead
<1>9. ASSUME NEW r \in Runtimes, Verify(r) PROVE HInv'
  BY <1>2, <1>9, VerifyHead
<1>10. ASSUME NEW r \in Runtimes, Allocate(r) PROVE HInv'
  BY <1>2, <1>10, AllocateHead
<1>11. ASSUME NEW r \in Runtimes, LoadDone(r) PROVE HInv'
  BY <1>2, <1>11, LoadDoneHead
<1>12. ASSUME NEW r \in Runtimes, LoadRejected(r) PROVE HInv'
  BY <1>2, <1>12, LoadRejectedHead
<1>13. ASSUME NEW r \in Runtimes, LoadUnconfirmed(r) PROVE HInv'
  BY <1>2, <1>13, LoadUnconfirmedHead
<1>14. ASSUME NEW r \in Runtimes, LoadPanicked(r) PROVE HInv'
  BY <1>2, <1>14, LoadPanickedHead
<1>15. ASSUME NEW r \in Runtimes, OtherClient(r) PROVE HInv'
  BY <1>2, <1>15, StillHead DEF OtherClient, config, ledger, books, history
<1>16. ASSUME NEW r \in Runtimes, NEW m \in Serves[r], Unload(r, m) PROVE HInv'
  BY <1>1, <1>2, <1>16, UnloadHead
<1>17. ASSUME NEW r \in Runtimes, NEW m \in Serves[r], AllocateLate(r, m) PROVE HInv'
  BY <1>1, <1>2, <1>17, AllocateLateHead
<1> QED BY <1>3, <1>4, <1>5, <1>6, <1>7, <1>8, <1>9, <1>10, <1>11, <1>12, <1>13, <1>14, <1>15,
           <1>16, <1>17 DEF Next, LoadStep

\* Without a confirmation an engine holds no more than is needed.
LEMMA NeedHolds ==
  ASSUME HInv, NEW r \in DOMAIN alloc, granted[r] = {}, op[r] # None => ~op[r].confirmed
  PROVE  /\ Memory(MayHold(r)) \in Nat /\ Need(r) \in Nat
         /\ Memory(MayHold(r)) <= Need(r)
<1>1. /\ TypeOK /\ OwnersAgree /\ Sound(r) /\ Asleep(r) /\ r \in Runtimes
  BY DEF HInv, IInv, TypeOK
<1>2. /\ setup \in Setups /\ op[r] \in Operation \cup {None} /\ slots[r] \in [Models -> Nat]
      /\ measured[r] \in Measures /\ resident[r] \in SUBSET Models /\ late[r] \in SUBSET Models
      /\ phase[r] \notin {"starting", "untracked"} /\ phase[r] \in Phases
  BY <1>1 DEF TypeOK, Measures, OwnersAgree, Phases
<1>3. op[r] # None => stray[r] = {}
  BY <1>1, <1>2 DEF Sound, SoundBooks, Asleep, Phases
<1>4. MayHold(r) = Unconfirmed(op[r], resident[r], late[r], granted[r], stray[r])
  BY <1>3 DEF MayHold, Sent, Unconfirmed
<1> DEFINE k == NeedOf(op[r], slots[r], measured[r], adopted[r], resident[r], late[r],
                       granted[r], stray[r])
           u == Memory(Unconfirmed(op[r], resident[r], late[r], granted[r], stray[r]))
<1>5. k \in Nat /\ u \in Nat /\ u <= k
  BY ONLY <1>2, NeedOfFact
<1>6. Need(r) = k
  BY DEF Need
<1>7. Memory(MayHold(r)) = u
  BY <1>4
<1> HIDE DEF k, u
<1> QED BY <1>5, <1>6, <1>7

\* The claims that no confirmation is part of leave the headroom free.  Without
\* a byte budget there is none.
LEMMA HeadroomFree == HInv => HeadroomConfirmed
<1> SUFFICES ASSUME HInv, breach = "none",
                    \A r \in Runtimes : granted[r] = {} /\ (op[r] # None => ~op[r].confirmed)
             PROVE  ~(JointMemory > Grain * (Usable + Tolerance))
  BY DEF HeadroomConfirmed
<1>1. IInv /\ TypeOK /\ setup \in Setups
  BY DEF HInv, IInv, TypeOK
<1>2. Budget \in Nat /\ Usable \in Nat /\ Grain \in Nat
  BY <1>1, BudgetFact, GlobalCapacityAssumption
<1>3. JointMemory \in Int /\ Grain * (Usable + Tolerance) \in Int
  <2> DEFINE D == DOMAIN alloc
             h == [r \in D |-> Memory(MayHold(r))]
  <2>1. IsFiniteSet(D)
    BY <1>1, GlobalCapacityAssumption, FS_Subset DEF TypeOK
  <2>2. \A r \in D : Memory(MayHold(r)) \in Nat
    BY <1>1, EveryEntryCovers
  <2>3. Summable(h, D)
    BY <2>1, <2>2 DEF Summable
  <2>4. SumFunctionOnSet(h, D) \in Int
    <3> HIDE DEF h, D
    <3> QED BY <2>3, SumInt
  <2>5. Tolerance \in Nat
    BY <1>1, BudgetFact
  <2>6. Usable + Tolerance \in Nat
    BY <1>2, <2>5
  <2>7. Grain * (Usable + Tolerance) \in Int
    BY ONLY <1>2, <2>6
  <2> QED BY <2>4, <2>7 DEF JointMemory
<1>4. CASE ~setup.exact
  <2>1. setup.headroom = 0
    BY <1>1, <1>4, GlobalCapacityAssumption
  <2>2. Usable = Budget
    BY <1>2, <2>1 DEF Usable, AtLeast0, Larger
  <2>3. JointMemory <= Grain * (Usable + Tolerance)
    BY <1>1, <2>2, JointFits DEF JointBudget
  <2> QED BY <1>3, <2>3
<1>5. CASE setup.exact
  <2> DEFINE D == DOMAIN alloc
             h == [r \in D |-> Memory(MayHold(r))]
             g == [r \in D |-> Need(r)]
  <2>1. D \subseteq Runtimes /\ IsFiniteSet(D)
    BY <1>1, GlobalCapacityAssumption, FS_Subset DEF TypeOK
  <2>2. \A r \in D : /\ Memory(MayHold(r)) \in Nat /\ Need(r) \in Nat
                     /\ Memory(MayHold(r)) <= Need(r)
    BY <2>1, NeedHolds
  <2>3. Summable(h, D) /\ Summable(g, D) /\ \A r \in D : h[r] <= g[r]
    BY <2>1, <2>2 DEF Summable
  <2>4. /\ SumFunctionOnSet(h, D) <= SumFunctionOnSet(g, D)
        /\ SumFunctionOnSet(h, D) \in Int /\ SumFunctionOnSet(g, D) \in Int
    <3> HIDE DEF h, g, D
    <3> QED BY <2>3, SumMono, SumInt
  <2>5. SumFunctionOnSet(g, D) <= Grain * Usable
    BY <1>5 DEF HInv, Spared, Calm
  <2>6. Tolerance = 0 /\ Usable + Tolerance = Usable
    BY <1>2, <1>5 DEF Tolerance
  <2>7. Grain * Usable \in Int
    BY ONLY <1>2
  <2>8. SumFunctionOnSet(h, D) <= Grain * Usable
    <3> HIDE DEF h, g, D
    <3> QED BY <2>4, <2>5, <2>7
  <2>9. JointMemory <= Grain * (Usable + Tolerance)
    BY <2>6, <2>8 DEF JointMemory
  <2> QED BY <1>3, <2>9
<1> QED BY <1>4, <1>5

\* global_capacity.rs:348-382: as long as every request names the same memory
\* for a model, the headroom is entered only while something that a
\* confirmation admitted is charged: claims, evictions, settlements, lost
\* answers and late allocations of any number of runtimes, each of them within
\* the usable budget when it was judged, never add up to more.  And whoever is
\* asked for a confirmation is admitted with one.
THEOREM HeadroomHolds ==
  ASSUME SteadyEstimates
  PROVE  Spec => []HeadroomKept
<1>1. Init => HInv
  BY InitHead
<1>2. HInv /\ [Next]_vars => HInv'
  BY NextHead
<1>3. HInv => HeadroomConfirmed
  BY HeadroomFree
<1>4. HeadroomConfirmed /\ ConfirmationHelps => HeadroomKept
  BY DEF HeadroomKept
<1> QED BY <1>1, <1>2, <1>3, <1>4, ConfirmationNotInVain, PTL DEF Spec
=============================================================================
