----------------------------- MODULE PlanProofs -----------------------------
(***************************************************************************)
(* What Ancestors and Cascade of Plan are, for any plan whose operations   *)
(* come in later batches than their dependencies: the transitive closure   *)
(* of the graph, and everything that is reached from a failed operation    *)
(* through open ones.                                                      *)
(***************************************************************************)
EXTENDS Plan, WellFoundedInduction, TLAPS

\* A set of operations that holds the dependencies of its members.
Closed(S) == \A x \in S : Deps[x] \subseteq S

-----------------------------------------------------------------------------
(***************************************************************************)
(* Ancestors                                                               *)
(***************************************************************************)
LEMMA AncestorsType ==
  ASSUME NEW o \in Op
  PROVE  Ancestors[o] \subseteq Op
BY DEF Ancestors

\* Dependencies are ancestors.
LEMMA DepsAreAncestors ==
  ASSUME NEW o \in Op, NEW d \in Deps[o]
  PROVE  d \in Ancestors[o]
BY PlanAssumption DEF Ancestors

\* The ancestors of a dependency are ancestors.
LEMMA AncestorsOfDeps ==
  ASSUME NEW o \in Op, NEW d \in Deps[o], NEW a \in Ancestors[d]
  PROVE  a \in Ancestors[o]
<1>1. d \in Op
  BY PlanAssumption
<1>2. a \in Op
  BY <1>1, AncestorsType
<1>3. ASSUME NEW S \in SUBSET Op, Deps[o] \subseteq S, \A x \in S : Deps[x] \subseteq S
      PROVE  a \in S
  BY <1>1, <1>3 DEF Ancestors
<1> QED
  BY <1>2, <1>3 DEF Ancestors

\* The dependencies of an ancestor are ancestors.
LEMMA DepsOfAncestors ==
  ASSUME NEW o \in Op, NEW a \in Ancestors[o], NEW d \in Deps[a]
  PROVE  d \in Ancestors[o]
<1>1. a \in Op /\ d \in Op
  BY AncestorsType, PlanAssumption
<1>2. ASSUME NEW S \in SUBSET Op, Deps[o] \subseteq S, \A x \in S : Deps[x] \subseteq S
      PROVE  d \in S
  BY <1>1, <1>2 DEF Ancestors
<1> QED
  BY <1>1, <1>2 DEF Ancestors

\* A closed set that holds the dependencies of o holds all its ancestors.
LEMMA AncestorsInClosed ==
  ASSUME NEW o \in Op, NEW S \in SUBSET Op, Deps[o] \subseteq S, Closed(S)
  PROVE  Ancestors[o] \subseteq S
BY DEF Ancestors, Closed

\* Ancestors are in earlier batches.
LEMMA AncestorsComeEarlier ==
  ASSUME NEW o \in Op, NEW a \in Ancestors[o]
  PROVE  a \in Op /\ BatchOf[a] < BatchOf[o]
<1> DEFINE S == {x \in Op : BatchOf[x] < BatchOf[o]}
<1>1. Deps[o] \subseteq S
  BY PlanAssumption, BatchOrderAssumption
<1>2. ASSUME NEW x \in S PROVE Deps[x] \subseteq S
  <2>1. ASSUME NEW d \in Deps[x] PROVE d \in S
    <3>1. d \in Op /\ BatchOf[d] < BatchOf[x]
      BY PlanAssumption, BatchOrderAssumption
    <3>2. BatchOf[d] \in Nat /\ BatchOf[x] \in Nat /\ BatchOf[o] \in Nat
      BY <3>1, PlanAssumption
    <3> QED
      BY <3>1, <3>2
  <2> QED
    BY <2>1
<1>3. Closed(S)
  BY <1>2 DEF Closed
<1> QED
  BY <1>1, <1>3, AncestorsInClosed

(***************************************************************************)
(* Ancestors is what the graph's edges reach: the dependencies of an       *)
(* operation and, through them, theirs.                                    *)
(***************************************************************************)
THEOREM AncestorsAreReached ==
  ASSUME NEW o \in Op
  PROVE  Ancestors[o] = Deps[o] \cup UNION {Ancestors[d] : d \in Deps[o]}
<1> DEFINE S == Deps[o] \cup UNION {Ancestors[d] : d \in Deps[o]}
<1>1. S \subseteq Ancestors[o]
  BY DepsAreAncestors, AncestorsOfDeps
<1>2. S \in SUBSET Op
  BY <1>1, AncestorsType
<1>3. ASSUME NEW x \in S PROVE Deps[x] \subseteq S
  <2>1. CASE x \in Deps[o]
    BY <2>1, <1>2, DepsAreAncestors
  <2>2. ASSUME NEW d \in Deps[o], x \in Ancestors[d] PROVE Deps[x] \subseteq S
    <3>1. d \in Op /\ x \in Op
      BY <1>2, PlanAssumption
    <3>2. ASSUME NEW y \in Deps[x] PROVE y \in Ancestors[d]
      BY <3>1, <2>2, DepsOfAncestors
    <3> QED
      BY <3>2
  <2> QED
    BY <1>3, <2>1, <2>2
<1>4. Ancestors[o] \subseteq S
  BY <1>2, <1>3, AncestorsInClosed DEF Closed
<1> QED
  BY <1>1, <1>4

-----------------------------------------------------------------------------
(***************************************************************************)
(* Cascade                                                                 *)
(***************************************************************************)
\* One step of the search: what is open and hangs on o or on a member of S.
Reached(o, open, S) == {x \in open : \E d \in Deps[x] : d = o \/ d \in S}

\* The search has come to rest at S.
AtRest(o, open, S) == \A x \in open : x \in S <=> \E d \in Deps[x] : d = o \/ d \in S

\* The search comes to rest: the least set that one step does not leave.
LEMMA CascadeExists ==
  ASSUME NEW o \in Op, NEW open \in SUBSET Op
  PROVE  \E S \in SUBSET open : AtRest(o, open, S)
<1> DEFINE L == {x \in open : \A S \in SUBSET open :
                   Reached(o, open, S) \subseteq S => x \in S}
           F == Reached(o, open, L)
<1>1. F \subseteq L
  BY DEF Reached
<1>2. Reached(o, open, F) \subseteq F
  BY <1>1 DEF Reached
<1>3. F \in SUBSET open
  BY DEF Reached
<1>4. L \subseteq F
  BY <1>2, <1>3
<1>5. L = F /\ L \in SUBSET open
  BY <1>1, <1>4
<1> HIDE DEF L
<1>6. AtRest(o, open, L)
  BY <1>5 DEF Reached, AtRest
<1> QED
  BY <1>5, <1>6

\* The cascade stays among the open operations, and it holds exactly those
\* that depend on o or on another member.
LEMMA CascadeFixpoint ==
  ASSUME NEW o \in Op, NEW open \in SUBSET Op
  PROVE  /\ Cascade(o, open) \subseteq open
         /\ \A x \in open :
              x \in Cascade(o, open) <=> \E d \in Deps[x] : d = o \/ d \in Cascade(o, open)
<1> DEFINE below == {x \in open : o \in Ancestors[x]}
           C == CHOOSE S : S \in SUBSET below /\ AtRest(o, below, S)
<1>1. \E S \in SUBSET below : AtRest(o, below, S)
  <2>1. below \in SUBSET Op
    OBVIOUS
  <2> HIDE DEF below
  <2> QED
    BY <2>1, CascadeExists
<1>2. Cascade(o, open) = CHOOSE S \in SUBSET below : AtRest(o, below, S)
  BY DEF Cascade, AtRest
<1>3. C \in SUBSET below /\ AtRest(o, below, C)
  <2> HIDE DEF below
  <2> QED
    BY <1>1, Zenon
<1>4. C = CHOOSE S \in SUBSET below : AtRest(o, below, S)
  OBVIOUS
<1>5. Cascade(o, open) = C
  BY <1>2, <1>4
<1> HIDE DEF C
<1>6. ASSUME NEW x \in open, NEW d \in Deps[x], d = o \/ d \in C
      PROVE  o \in Ancestors[x]
  BY <1>3, <1>6, DepsAreAncestors, AncestorsOfDeps
<1>7. \A x \in open : x \in C <=> \E d \in Deps[x] : d = o \/ d \in C
  BY <1>3, <1>6 DEF AtRest
<1> QED
  BY <1>3, <1>5, <1>7

\* Among some operations one is in the earliest batch.
LEMMA EarliestExists ==
  ASSUME NEW S \in SUBSET Op, S # {}
  PROVE  \E x \in S : \A y \in S : BatchOf[x] <= BatchOf[y]
<1> DEFINE T == {BatchOf[x] : x \in S}
<1>1. T \subseteq Nat /\ T # {}
  BY PlanAssumption
<1>2. PICK n \in T : \A m \in T : ~(<<m, n>> \in OpToRel(<, Nat))
  BY <1>1, WFMin, NatLessThanWellFounded
<1>3. \A m \in T : ~(m < n)
  BY <1>1, <1>2 DEF OpToRel
<1>4. PICK x \in S : n = BatchOf[x]
  BY <1>2
<1>5. \A y \in S : BatchOf[y] \in Nat /\ BatchOf[x] \in Nat /\ ~(BatchOf[y] < BatchOf[x])
  BY <1>3, <1>4, PlanAssumption
<1> QED
  BY <1>5

\* The cascade of o descends from o.
LEMMA CascadeDescends ==
  ASSUME NEW o \in Op, NEW open \in SUBSET Op, NEW x \in Cascade(o, open)
  PROVE  o \in Ancestors[x]
<1> DEFINE C   == Cascade(o, open)
           Bad == {y \in C : o \notin Ancestors[y]}
<1>1. C \subseteq Op
  BY CascadeFixpoint
<1>2. ASSUME Bad # {} PROVE FALSE
  <2>1. PICK y \in Bad : \A z \in Bad : BatchOf[y] <= BatchOf[z]
    BY <1>1, <1>2, EarliestExists
  <2>2. y \in Op /\ y \in open /\ o \notin Ancestors[y]
    BY <1>1, CascadeFixpoint
  <2>3. PICK d \in Deps[y] : d = o \/ d \in C
    BY <2>2, CascadeFixpoint
  <2>4. d \in Op /\ BatchOf[d] < BatchOf[y] /\ BatchOf[d] \in Nat /\ BatchOf[y] \in Nat
    BY <2>2, PlanAssumption, BatchOrderAssumption
  <2>5. d # o
    BY <2>2, DepsAreAncestors
  <2>6. d \in C /\ d \notin Bad
    BY <2>1, <2>3, <2>4, <2>5
  <2> QED
    BY <2>2, <2>6, AncestorsOfDeps
<1> QED
  BY <1>2

(***************************************************************************)
(* _cascade_failure() has one outcome, whatever the order in which it      *)
(* visits the dependents: the search comes to rest at one set only.        *)
(***************************************************************************)
THEOREM CascadeIsUnique ==
  ASSUME NEW o \in Op, NEW open \in SUBSET Op,
         NEW S \in SUBSET open, AtRest(o, open, S)
  PROVE  S = Cascade(o, open)
<1> DEFINE C    == Cascade(o, open)
           Diff == (S \ C) \cup (C \ S)
<1>1. C \subseteq open /\ AtRest(o, open, C)
  BY CascadeFixpoint DEF AtRest
<1> HIDE DEF C
<1>2. ASSUME Diff # {} PROVE FALSE
  <2>1. PICK y \in Diff : \A z \in Diff : BatchOf[y] <= BatchOf[z]
    BY <1>1, <1>2, EarliestExists
  <2>2. y \in Op /\ y \in open
    BY <1>1
  <2>3. ASSUME NEW d \in Deps[y] PROVE d \in S <=> d \in C
    <3>1. d \in Op /\ BatchOf[d] < BatchOf[y] /\ BatchOf[d] \in Nat /\ BatchOf[y] \in Nat
      BY <2>2, PlanAssumption, BatchOrderAssumption
    <3> QED
      BY <2>1, <3>1
  <2>4. y \in S <=> y \in C
    BY <1>1, <2>2, <2>3 DEF AtRest
  <2> QED
    BY <2>4
<1>3. S = C
  BY <1>2
<1> QED
  BY <1>3 DEF C
=============================================================================
