---------------------------- MODULE ResolverProofs ----------------------------
(***************************************************************************)
(* Proofs about Resolver for any blocks, networks, files and processes:    *)
(* where the stale entries of the cache that all runs share come from, and *)
(* which rows can miss a parent that is there.                             *)
(***************************************************************************)
EXTENDS Resolver, SequenceTheorems, FiniteSetTheorems, TLAPS

-----------------------------------------------------------------------------
(***************************************************************************)
(* The inductive invariant                                                 *)
(***************************************************************************)
DoneRow == [row : Nat, ok : BOOLEAN, was : Nat]

Types ==
    /\ bam \in [Thing -> Nat] /\ newest \in Nat
    /\ \A e \in cache : e.id \in Nat \ {0} /\ e.id <= newest
    /\ phase \in [Run -> {"down", "resolving", "executing", "invalidating"}]
    /\ file \in [Run -> Files \cup {<<>>}]
    /\ at \in [Run -> Nat]
    /\ found \in [Run -> Nat \cup {None}]
    /\ ids = [p \in Run |-> ids[p]]
    /\ done \in [Run -> Seq(DoneRow)]

\* An id belongs to one thing, and new ids are higher than all that were given.
IdsAreUnique ==
    /\ \A t \in Thing : bam[t] <= newest
    /\ \A t, u \in Thing : bam[t] # 0 /\ bam[t] = bam[u] => t = u

\* Results are there from the first operation to the last invalidation, rows
\* are looked at in order, and an answer of BAM is on its way while resolving.
RunInOrder(p) ==
    /\ phase[p] # "down" => file[p] \in Files
    /\ phase[p] \in {"down", "resolving"} => done[p] = <<>>
    /\ phase[p] \in {"down", "executing"} => at[p] = 1
    /\ phase[p] \in {"resolving", "invalidating"} => at[p] \in DOMAIN file[p]
    /\ phase[p] = "invalidating" => Len(done[p]) = Len(file[p])
    /\ found[p] # None => phase[p] = "resolving"
RunsInOrder == \A p \in Run : RunInOrder(p)

\* Entries, and answers that will be entries, are filed under a key that leads to
\* what they are the id of; other keys may lead there too.
KeysFit ==
    /\ \A e \in cache : \A t \in Thing : bam[t] = e.id => LeadsTo(e.key, t)
    /\ \A p \in Run : found[p] \notin {None, 0} =>
         /\ found[p] <= newest
         /\ \A t \in Thing : bam[t] = found[p] => LeadsTo(Key(p), t)

\* Run p has deleted what e is the id of, and will invalidate e.
WillInvalidate(p, e) ==
    \E k \in DOMAIN done[p] :
        /\ k >= at[p] /\ done[p][k].ok /\ done[p][k].was = e.id
        /\ InvalidatedKey(p, done[p][k].row) = e.key

\* There is what e is the id of, or nothing invalidated e when it was deleted.
Explained(e) == e.id \in Live \/ Quiet(e.key, e.id)

EntriesAreAccountedFor ==
    \A e \in cache : Explained(e) \/ \E p \in Run : WillInvalidate(p, e)

IInv ==
    /\ Types
    /\ IdsAreUnique
    /\ RunsInOrder
    /\ KeysFit
    /\ EntriesAreAccountedFor

-----------------------------------------------------------------------------
(***************************************************************************)
(* Keys                                                                    *)
(***************************************************************************)
\* The rows of a file
LEMMA RowsOfFiles ==
  ASSUME NEW rows \in Files
  PROVE  /\ Len(rows) \in Nat \ {0} /\ DOMAIN rows = 1 .. Len(rows)
         /\ \A i \in DOMAIN rows :
              /\ rows[i].parent # None =>
                   /\ rows[i].parent \in [slashes : Nat, names : Seq(Thing \cup {Config, None}) \ {<<>>}]
                   /\ rows[i].type \in DOMAIN ParentType
              /\ rows[i].action = "delete" =>
                   /\ rows[i].cidr \in Thing
                   /\ rows[i].type \in {"ip4_block", "ip4_network", "ip6_block", "ip6_network"}
BY FileAssumption, Zenon

\* A path leads to one thing at most.
LEMMA OneThing ==
  ASSUME NEW key, NEW t, NEW u, LeadsTo(key, t), LeadsTo(key, u)
  PROVE  t = u
<1>1. /\ \/ key.kind \in {"Block", "IPv6Block"} /\ key.path.names[2] = t
         \/ key.kind \in {"Network", "IPv6Network"} /\ key.path.names[3] = t
      /\ \/ key.kind \in {"Block", "IPv6Block"} /\ key.path.names[2] = u
         \/ key.kind \in {"Network", "IPv6Network"} /\ key.path.names[3] = u
  BY DEF LeadsTo
<1> QED
  BY <1>1

\* What BAM answers is the id of the thing to which the path leads.
LEMMA KeyOfAnswer ==
  ASSUME NEW key, QueryBam(key) # 0
  PROVE  \E t \in Thing : QueryBam(key) = bam[t] /\ LeadsTo(key, t)
<1>1. PICK t \in Thing : LeadsTo(key, t)
  BY DEF QueryBam
<1>2. QueryBam(key) = bam[CHOOSE u \in Thing : LeadsTo(key, u)]
  BY DEF QueryBam
<1>3. LeadsTo(key, CHOOSE u \in Thing : LeadsTo(key, u)) /\ (CHOOSE u \in Thing : LeadsTo(key, u)) \in Thing
  BY <1>1, Zenon
<1> QED
  BY <1>2, <1>3

-----------------------------------------------------------------------------
(***************************************************************************)
(* Steps of one run leave the others as they are                           *)
(***************************************************************************)
Untouched(q) ==
    /\ phase'[q] = phase[q] /\ file'[q] = file[q] /\ at'[q] = at[q]
    /\ found'[q] = found[q] /\ ids'[q] = ids[q] /\ done'[q] = done[q]

LEMMA UntouchedRuns ==
  ASSUME NEW q \in Run, Untouched(q)
  PROVE  /\ RunInOrder(q) => RunInOrder(q)'
         /\ Key(q)' = Key(q)
         /\ \A e : WillInvalidate(q, e) => WillInvalidate(q, e)'
<1>1. RunInOrder(q) => RunInOrder(q)'
  BY DEF Untouched, RunInOrder
<1>2. Key(q)' = Key(q)
  BY DEF Untouched, Key, Row
<1>3. ASSUME NEW e, WillInvalidate(q, e) PROVE WillInvalidate(q, e)'
  <2>1. \A i : InvalidatedKey(q, i)' = InvalidatedKey(q, i)
    BY DEF Untouched, InvalidatedKey
  <2> QED
    BY <1>3, <2>1 DEF Untouched, WillInvalidate
<1> QED
  BY <1>1, <1>2, <1>3

\* A run without results will invalidate nothing.
LEMMA NothingToInvalidate ==
  ASSUME NEW p \in Run, done[p] = <<>>, NEW e
  PROVE  ~WillInvalidate(p, e)
BY DEF WillInvalidate

\* What explains an entry goes on explaining it.
LEMMA StillExplained ==
  ASSUME NEW e, Explained(e), quiet \subseteq quiet', e.id \in Live => e.id \in Live'
  PROVE  Explained(e)'
<1>1. CASE e.id \in Live
  BY <1>1 DEF Explained
<1>2. CASE \E q \in quiet : q.id = e.id /\ (q.key = None \/ q.key # e.key)
  <2>1. \E q \in quiet' : q.id = e.id /\ (q.key = None \/ q.key # e.key)
    BY <1>2
  <2> QED
    BY <2>1 DEF Explained, Quiet, QuietIn
<1> QED
  BY <1>1, <1>2 DEF Explained, Quiet, QuietIn

\* A deletion that nothing notices explains the entries with its id.
LEMMA UnnoticedExplains ==
  ASSUME NEW e, e.id # 0, NEW gone, e.id \in gone, Unnoticed(gone) \subseteq quiet'
  PROVE  Explained(e)'
<1> DEFINE q == [id |-> e.id, key |-> None]
<1>1. q \in quiet'
  BY DEF Unnoticed
<1>2. q.id = e.id /\ q.key = None
  OBVIOUS
<1> QED
  BY <1>1, <1>2 DEF Explained, Quiet, QuietIn

\* While runs resolve, the entries are accounted for as before.
LEMMA EntriesWhileResolving ==
  ASSUME NEW p \in Run, done[p] = <<>>, \A q \in Run \ {p} : Untouched(q),
         bam' = bam, quiet \subseteq quiet', EntriesAreAccountedFor,
         \A e \in cache' : e \in cache \/ Explained(e)'
  PROVE  EntriesAreAccountedFor'
<1> SUFFICES ASSUME NEW e \in cache'
             PROVE  Explained(e)' \/ \E q \in Run : WillInvalidate(q, e)'
  BY DEF EntriesAreAccountedFor
<1>1. Live' = Live
  BY DEF Live
<1>2. CASE Explained(e) \/ Explained(e)'
  BY <1>1, <1>2, StillExplained
<1>3. CASE e \in cache /\ ~Explained(e)
  <2>1. PICK q \in Run : WillInvalidate(q, e)
    BY <1>3 DEF EntriesAreAccountedFor
  <2>2. q # p
    BY <2>1, NothingToInvalidate
  <2> QED
    BY <2>1, <2>2, UntouchedRuns
<1> QED
  BY <1>2, <1>3

-----------------------------------------------------------------------------
(***************************************************************************)
(* The invariant holds at first and is kept by every step                  *)
(***************************************************************************)
LEMMA InitIInv == Init => IInv
<1> SUFFICES ASSUME Init PROVE IInv
  OBVIOUS
<1> USE DEF Init
<1>1. newest \in Nat
  BY FS_Subset, FS_CardinalityType, ThingAssumption
<1>2. bam \in [Thing -> 0 .. newest] /\ \A t, u \in Thing : bam[t] # 0 /\ bam[t] = bam[u] => t = u
  BY BamAssumption
<1>3. Types
  <2>1. /\ bam \in [Thing -> Nat] /\ newest \in Nat
        /\ \A e \in cache : e.id \in Nat \ {0} /\ e.id <= newest
    BY <1>1, <1>2
  <2>2. /\ phase \in [Run -> {"down", "resolving", "executing", "invalidating"}]
        /\ file \in [Run -> Files \cup {<<>>}] /\ at \in [Run -> Nat]
        /\ found \in [Run -> Nat \cup {None}] /\ ids = [p \in Run |-> ids[p]]
    OBVIOUS
  <2>3. done \in [Run -> Seq(DoneRow)]
    OBVIOUS
  <2> QED
    BY <2>1, <2>2, <2>3 DEF Types
<1>4. IdsAreUnique
  BY <1>1, <1>2 DEF IdsAreUnique
<1>5. RunsInOrder
  BY DEF RunsInOrder, RunInOrder
<1>6. KeysFit /\ EntriesAreAccountedFor
  BY DEF KeysFit, EntriesAreAccountedFor
<1> QED
  BY <1>3, <1>4, <1>5, <1>6 DEF IInv

LEMMA BeginStep ==
  ASSUME NEW p \in Run, IInv, Begin(p)
  PROVE  IInv'
<1> USE DEF Begin, world
<1>1. PICK rows \in Files : file' = [file EXCEPT ![p] = rows]
  OBVIOUS
<1>2. Types'
  BY <1>1 DEF IInv, Types
<1>3. IdsAreUnique'
  BY DEF IInv, IdsAreUnique
<1>4. RunInOrder(p)
  BY DEF IInv, RunsInOrder
<1>5. done[p] = <<>> /\ at[p] = 1 /\ found[p] = None
  BY <1>4 DEF RunInOrder
<1>6. \A q \in Run \ {p} : Untouched(q)
  BY <1>1 DEF Untouched, IInv, Types
<1>7. RunsInOrder'
  <2>1. file'[p] = rows /\ phase'[p] = "resolving" /\ 1 \in DOMAIN rows
    BY <1>1, RowsOfFiles DEF IInv, Types
  <2>2. RunInOrder(p)'
    BY <1>5, <2>1 DEF RunInOrder
  <2> QED
    BY <1>6, <2>2, UntouchedRuns DEF RunsInOrder, IInv
<1>8. KeysFit'
  <2>1. \A e \in cache' : \A t \in Thing : bam'[t] = e.id => LeadsTo(e.key, t)
    BY DEF IInv, KeysFit
  <2>2. ASSUME NEW q \in Run, found'[q] \notin {None, 0}
        PROVE  /\ found'[q] <= newest'
               /\ \A t \in Thing : bam'[t] = found'[q] => LeadsTo(Key(q)', t)
    <3>1. q # p
      BY <1>5, <2>2
    <3> QED
      BY <1>6, <2>2, <3>1, UntouchedRuns DEF IInv, KeysFit
  <2> QED
    BY <2>1, <2>2 DEF KeysFit, LeadsTo
<1>9. EntriesAreAccountedFor'
  BY <1>5, <1>6, EntriesWhileResolving DEF IInv
<1> QED
  BY <1>2, <1>3, <1>7, <1>8, <1>9 DEF IInv

\* What Resolved does to the types and the order of a run
LEMMA ResolvedRun ==
  ASSUME NEW p \in Run, NEW id, IInv, phase[p] = "resolving", Resolved(p, id),
         file' = file, done' = done, found'[p] = None,
         \A q \in Run \ {p} : found'[q] = found[q]
  PROVE  /\ phase' \in [Run -> {"down", "resolving", "executing", "invalidating"}]
         /\ at' \in [Run -> Nat] /\ ids' = [q \in Run |-> ids'[q]]
         /\ \A q \in Run \ {p} : Untouched(q)
         /\ RunsInOrder'
<1> USE DEF Resolved
<1>1. Types /\ RunInOrder(p)
  BY DEF IInv, RunsInOrder
<1>2. /\ phase' \in [Run -> {"down", "resolving", "executing", "invalidating"}]
      /\ at' \in [Run -> Nat] /\ ids' = [q \in Run |-> ids'[q]]
  <2>1. phase' \in [Run -> {"down", "resolving", "executing", "invalidating"}]
    BY <1>1 DEF Types
  <2>2. at' \in [Run -> Nat]
    BY <1>1 DEF Types
  <2>3. ids' = [ids EXCEPT ![p] = Append(@, id)] /\ ids = [q \in Run |-> ids[q]]
    BY <1>1 DEF Types
  <2>4. ids' = [q \in Run |-> ids'[q]]
    BY <2>3
  <2> QED
    BY <2>1, <2>2, <2>4
<1>3. \A q \in Run \ {p} : Untouched(q)
  BY <1>1 DEF Untouched, Types
<1>4. RunInOrder(p)'
  <2>1. /\ file[p] \in Files /\ done[p] = <<>> /\ at[p] \in DOMAIN file[p]
        /\ Len(file[p]) \in Nat /\ DOMAIN file[p] = 1 .. Len(file[p])
    BY <1>1, RowsOfFiles DEF RunInOrder
  <2>2. CASE at[p] = Len(file[p])
    <3>1. at'[p] = 1 /\ phase'[p] = "executing"
      BY <1>1, <2>2 DEF Types
    <3> QED
      BY <2>1, <3>1 DEF RunInOrder
  <2>3. CASE at[p] # Len(file[p])
    <3>1. at'[p] = at[p] + 1 /\ phase'[p] = "resolving"
      BY <1>1, <2>3 DEF Types
    <3> QED
      BY <2>1, <2>3, <3>1 DEF RunInOrder
  <2> QED
    BY <2>2, <2>3
<1> QED
  BY <1>2, <1>3, <1>4, UntouchedRuns DEF IInv, RunsInOrder

\* Answers on their way keep their keys when another run goes on.
LEMMA AnswersKeepTheirKeys ==
  ASSUME NEW p \in Run, IInv, bam' = bam, newest' = newest,
         \A q \in Run \ {p} : Untouched(q), found'[p] \in {None, 0},
         \A e \in cache' : e \in cache \/ \A t \in Thing : bam[t] = e.id => LeadsTo(e.key, t)
  PROVE  KeysFit'
<1>1. \A e \in cache' : \A t \in Thing : bam'[t] = e.id => LeadsTo(e.key, t)
  BY DEF IInv, KeysFit
<1>2. ASSUME NEW q \in Run, found'[q] \notin {None, 0}
      PROVE  /\ found'[q] <= newest'
             /\ \A t \in Thing : bam'[t] = found'[q] => LeadsTo(Key(q)', t)
  <2>1. q # p /\ found'[q] = found[q]
    BY <1>2 DEF Untouched
  <2> QED
    BY <1>2, <2>1, UntouchedRuns DEF IInv, KeysFit
<1> QED
  BY <1>1, <1>2 DEF KeysFit, LeadsTo

LEMMA KeysStay ==
  ASSUME KeysFit, UNCHANGED <<bam, newest, cache, found>>, \A q \in Run : Key(q)' = Key(q)
  PROVE  KeysFit'
<1>1. \A e \in cache' : \A t \in Thing : bam'[t] = e.id => LeadsTo(e.key, t)
  BY DEF KeysFit
<1>2. \A q \in Run : found'[q] \notin {None, 0} =>
        /\ found'[q] <= newest'
        /\ \A t \in Thing : bam'[t] = found'[q] => LeadsTo(Key(q)', t)
  BY DEF KeysFit
<1> QED
  BY <1>1, <1>2 DEF KeysFit, LeadsTo

\* Rows that ask nothing, and rows that find an entry
LEMMA ResolvedStep ==
  ASSUME NEW p \in Run, NEW id, IInv, Resolving(p), Resolved(p, id),
         UNCHANGED <<world, cache, file, found, done>>
  PROVE  IInv'
<1> USE DEF Resolving, world
<1>1. /\ phase' \in [Run -> {"down", "resolving", "executing", "invalidating"}]
      /\ at' \in [Run -> Nat] /\ ids' = [q \in Run |-> ids'[q]]
      /\ \A q \in Run \ {p} : Untouched(q)
      /\ RunsInOrder'
  BY ResolvedRun
<1>2. Types'
  BY <1>1 DEF IInv, Types
<1>3. IdsAreUnique'
  BY DEF IInv, IdsAreUnique
<1>4. KeysFit'
  BY <1>1, AnswersKeepTheirKeys
<1>5. done[p] = <<>>
  BY DEF IInv, RunsInOrder, RunInOrder
<1>6. EntriesAreAccountedFor'
  BY <1>1, <1>5, EntriesWhileResolving DEF IInv
<1> QED
  BY <1>1, <1>2, <1>3, <1>4, <1>6 DEF IInv

LEMMA QueryStep ==
  ASSUME NEW p \in Run, IInv, Query(p)
  PROVE  IInv'
<1> USE DEF Query, Resolving, world
<1>1. Types /\ IdsAreUnique /\ RunInOrder(p)
  BY DEF IInv, RunsInOrder
<1>2. file[p] \in Files /\ at[p] \in DOMAIN file[p] /\ done[p] = <<>>
  BY <1>1 DEF RunInOrder
<1>3. QueryBam(Key(p)) # 0 =>
        \E t \in Thing : QueryBam(Key(p)) = bam[t] /\ LeadsTo(Key(p), t)
  BY KeyOfAnswer
<1>4. QueryBam(Key(p)) \in Nat /\ QueryBam(Key(p)) <= newest
  BY <1>1, <1>3 DEF Types, IdsAreUnique
<1>5. found'[p] = QueryBam(Key(p)) /\ \A q \in Run \ {p} : Untouched(q)
  BY <1>1 DEF Types, Untouched
<1>6. Types'
  BY <1>1, <1>4 DEF Types
<1>7. IdsAreUnique'
  BY <1>1 DEF IdsAreUnique
<1>8. RunsInOrder'
  <2>1. RunInOrder(p)'
    BY <1>1 DEF RunInOrder
  <2> QED
    BY <1>5, <2>1, UntouchedRuns DEF IInv, RunsInOrder
<1>9. KeysFit'
  <2>1. \A e \in cache' : \A t \in Thing : bam'[t] = e.id => LeadsTo(e.key, t)
    BY DEF IInv, KeysFit
  <2>2. ASSUME NEW q \in Run, found'[q] \notin {None, 0}
        PROVE  /\ found'[q] <= newest'
               /\ \A t \in Thing : bam'[t] = found'[q] => LeadsTo(Key(q)', t)
    <3>1. CASE q = p
      <4>1. Key(p)' = Key(p)
        BY DEF Key, Row
      <4>2. PICK t \in Thing : found'[p] = bam[t] /\ LeadsTo(Key(p), t)
        BY <1>3, <1>5, <2>2, <3>1
      <4>3. \A u \in Thing : bam[u] = bam[t] => u = t
        BY <1>1, <2>2, <3>1, <4>2 DEF IdsAreUnique
      <4>4. \A u \in Thing : bam[u] = found'[p] => LeadsTo(Key(p), u)
        BY <4>2, <4>3
      <4> QED
        BY <1>4, <1>5, <3>1, <4>1, <4>4
    <3>2. CASE q # p
      BY <1>5, <2>2, <3>2, UntouchedRuns DEF IInv, KeysFit, Untouched
    <3> QED
      BY <3>1, <3>2
  <2> QED
    BY <2>1, <2>2 DEF KeysFit, LeadsTo
<1>10. EntriesAreAccountedFor'
  BY <1>2, <1>5, EntriesWhileResolving DEF IInv
<1> QED
  BY <1>6, <1>7, <1>8, <1>9, <1>10 DEF IInv

LEMMA StoreStep ==
  ASSUME NEW p \in Run, IInv, Store(p)
  PROVE  IInv'
<1> USE DEF Store
<1> DEFINE entry == [key |-> Key(p), id |-> found[p]]
<1>1. Types /\ IdsAreUnique /\ RunInOrder(p) /\ KeysFit
  BY DEF IInv, RunsInOrder
<1>2. PICK id : Resolved(p, id)
  OBVIOUS
<1>3. /\ found'[p] = None /\ \A q \in Run \ {p} : found'[q] = found[q]
      /\ found' \in [Run -> Nat \cup {None}]
  BY <1>1 DEF Types
<1>4. /\ phase' \in [Run -> {"down", "resolving", "executing", "invalidating"}]
      /\ at' \in [Run -> Nat] /\ ids' = [q \in Run |-> ids'[q]]
      /\ \A q \in Run \ {p} : Untouched(q)
      /\ RunsInOrder'
  BY <1>2, <1>3, ResolvedRun
<1>5. \A e \in cache' : e \in cache \/ (found[p] # 0 /\ e = entry)
  OBVIOUS
<1>6. found[p] # 0 => found[p] \in Nat \ {0} /\ found[p] <= newest
  BY <1>1 DEF KeysFit, Types
<1>7. Types'
  BY <1>1, <1>3, <1>4, <1>5, <1>6 DEF Types
<1>8. IdsAreUnique'
  BY <1>1 DEF IdsAreUnique
<1>9. KeysFit'
  <2>1. found[p] # 0 => \A t \in Thing : bam[t] = entry.id => LeadsTo(entry.key, t)
    BY <1>1 DEF KeysFit
  <2>2. \A e \in cache' : e \in cache \/ \A t \in Thing : bam[t] = e.id => LeadsTo(e.key, t)
    BY <1>5, <2>1
  <2> QED
    BY <1>3, <1>4, <2>2, AnswersKeepTheirKeys
<1>10. EntriesAreAccountedFor'
  <2>1. done[p] = <<>>
    BY <1>1 DEF RunInOrder
  <2>2. quiet \subseteq quiet' /\ Unnoticed({found[p]} \ Live) \subseteq quiet' /\ Live' = Live
    BY DEF Live
  <2>3. ASSUME NEW e, e.id = found[p], found[p] # 0 PROVE Explained(e)'
    <3>1. CASE found[p] \in Live
      BY <2>2, <2>3, <3>1 DEF Explained
    <3>2. CASE found[p] \notin Live
      <4>1. e.id \in {found[p]} \ Live
        BY <2>3, <3>2
      <4> QED
        BY <2>2, <2>3, <4>1, UnnoticedExplains
    <3> QED
      BY <3>1, <3>2
  <2>4. \A e \in cache' : e \in cache \/ Explained(e)'
    BY <1>5, <2>3
  <2> HIDE DEF Store, entry
  <2>5. bam' = bam
    BY DEF Store
  <2> QED
    BY <1>4, <2>1, <2>2, <2>4, <2>5, EntriesWhileResolving DEF IInv
<1> QED
  BY <1>4, <1>7, <1>8, <1>9, <1>10 DEF IInv

\* A new result keeps what the ones before it will invalidate.
LEMMA ResultsStay ==
  ASSUME NEW p \in Run, NEW i \in Nat, NEW r \in BOOLEAN, NEW id \in Nat,
         IInv, phase[p] = "executing", Result(p, i, r, id),
         UNCHANGED <<phase, file, at, found, ids>>
  PROVE  /\ done' \in [Run -> Seq(DoneRow)]
         /\ RunsInOrder'
         /\ \A q \in Run : Key(q)' = Key(q)
         /\ \A q \in Run : \A e : WillInvalidate(q, e) => WillInvalidate(q, e)'
         /\ LET k == Len(done'[p]) IN
              /\ k \in DOMAIN done'[p] /\ k >= at'[p]
              /\ done'[p][k].row = i /\ done'[p][k].ok = r /\ done'[p][k].was = id
<1> USE DEF Result
<1> DEFINE result == [row |-> i, ok |-> r, was |-> id]
<1>1. Types /\ RunsInOrder
  BY DEF IInv
<1>2. done[p] \in Seq(DoneRow) /\ result \in DoneRow
  BY <1>1 DEF Types, DoneRow
<1>3. done'[p] = Append(done[p], result) /\ \A q \in Run \ {p} : done'[q] = done[q]
  BY <1>1 DEF Types
<1>4. done' \in [Run -> Seq(DoneRow)]
  <2> HIDE DEF result
  <2> QED
    BY <1>1, <1>2 DEF Types, result
<1>5. /\ Len(done'[p]) = Len(done[p]) + 1 /\ DOMAIN done[p] \subseteq DOMAIN done'[p]
      /\ \A k \in DOMAIN done[p] : done'[p][k] = done[p][k]
      /\ done'[p][Len(done[p]) + 1] = result
      /\ Len(done[p]) \in Nat /\ Len(done'[p]) \in DOMAIN done'[p]
  <2> HIDE DEF result
  <2> QED
    BY <1>2, <1>3
<1>6. \A q \in Run \ {p} : Untouched(q)
  BY <1>3 DEF Untouched
<1>7. RunInOrder(p)'
  BY <1>1 DEF RunsInOrder, RunInOrder
<1>8. ASSUME NEW e, WillInvalidate(p, e) PROVE WillInvalidate(p, e)'
  <2>1. \A j : InvalidatedKey(p, j)' = InvalidatedKey(p, j)
    BY DEF InvalidatedKey
  <2> QED
    BY <1>5, <1>8, <2>1 DEF WillInvalidate
<1>9. at'[p] = 1
  BY <1>1 DEF RunsInOrder, RunInOrder
<1>10. RunsInOrder'
  BY <1>1, <1>6, <1>7, UntouchedRuns DEF RunsInOrder
<1>11. \A q \in Run : Key(q)' = Key(q)
  BY DEF Key, Row
<1>12. \A q \in Run : \A e : WillInvalidate(q, e) => WillInvalidate(q, e)'
  BY <1>6, <1>8, UntouchedRuns
<1>13. /\ Len(done'[p]) \in DOMAIN done'[p] /\ done'[p][Len(done'[p])] = result
       /\ Len(done'[p]) >= at'[p]
  <2> HIDE DEF result
  <2> QED
    BY <1>5, <1>9
<1>14. result.row = i /\ result.ok = r /\ result.was = id
  OBVIOUS
<1> HIDE DEF result
<1> QED
  BY <1>4, <1>10, <1>11, <1>12, <1>13, <1>14

\* A thing that is made gets an id that no entry and no answer has.
LEMMA NewIds ==
  ASSUME NEW t \in Thing, IInv, bam[t] = 0,
         bam' = [bam EXCEPT ![t] = newest + 1], newest' = newest + 1,
         cache' = cache, found' = found, quiet \subseteq quiet',
         \A q \in Run : Key(q)' = Key(q),
         \A q \in Run : \A e : WillInvalidate(q, e) => WillInvalidate(q, e)'
  PROVE  /\ bam' \in [Thing -> Nat] /\ newest' \in Nat
         /\ \A e \in cache' : e.id \in Nat \ {0} /\ e.id <= newest'
         /\ IdsAreUnique' /\ KeysFit' /\ EntriesAreAccountedFor'
<1>1. Types /\ IdsAreUnique /\ KeysFit /\ EntriesAreAccountedFor
  BY DEF IInv
<1>2. bam \in [Thing -> Nat] /\ newest \in Nat /\ \A e \in cache : e.id \in Nat \ {0} /\ e.id <= newest
  BY <1>1 DEF Types
<1>3. bam' \in [Thing -> Nat] /\ newest' \in Nat
      /\ \A e \in cache' : e.id \in Nat \ {0} /\ e.id <= newest'
  BY <1>2
<1>4. \A u \in Thing : bam'[u] = IF u = t THEN newest + 1 ELSE bam[u]
  BY <1>2
<1>5. IdsAreUnique'
  BY <1>1, <1>2, <1>4 DEF IdsAreUnique
<1>6. KeysFit'
  <2>1. \A e \in cache' : \A u \in Thing : bam'[u] = e.id => LeadsTo(e.key, u)
    BY <1>1, <1>2, <1>4 DEF KeysFit
  <2>2. ASSUME NEW q \in Run, found'[q] \notin {None, 0}
        PROVE  /\ found'[q] <= newest'
               /\ \A u \in Thing : bam'[u] = found'[q] => LeadsTo(Key(q)', u)
    <3>1. found[q] \in Nat /\ found[q] <= newest
      BY <1>1, <2>2 DEF KeysFit, Types
    <3> QED
      BY <1>1, <1>2, <1>4, <2>2, <3>1 DEF KeysFit
  <2> QED
    BY <2>1, <2>2 DEF KeysFit, LeadsTo
<1>7. EntriesAreAccountedFor'
  <2>1. Live \subseteq Live'
    BY <1>4 DEF Live
  <2>2. \A e \in cache : Explained(e)' \/ \E q \in Run : WillInvalidate(q, e)'
    BY <1>1, <2>1, StillExplained DEF EntriesAreAccountedFor
  <2> QED
    BY <2>2 DEF EntriesAreAccountedFor
<1> QED
  BY <1>3, <1>5, <1>6, <1>7

LEMMA CreateThingStep ==
  ASSUME NEW p \in Run, NEW i \in DOMAIN file[p], IInv, CreateThing(p, i)
  PROVE  IInv'
<1> USE DEF CreateThing
<1> DEFINE cidr == file[p][i].cidr
<1>1. Types /\ IdsAreUnique /\ KeysFit /\ EntriesAreAccountedFor /\ RunInOrder(p)
  BY DEF IInv, RunsInOrder
<1>2. phase[p] = "executing" /\ file[p] \in Files
  BY <1>1 DEF Ready, RunInOrder
<1>3. i \in Nat /\ ParentIsThere(p, i) \in BOOLEAN
  <2> HIDE DEF CreateThing
  <2>1. DOMAIN file[p] = 1 .. Len(file[p]) /\ Len(file[p]) \in Nat
    BY <1>2, RowsOfFiles
  <2>2. i \in Nat
    BY <2>1
  <2>3. ParentIsThere(p, i) \in BOOLEAN
    BY DEF ParentIsThere
  <2> QED
    BY <2>2, <2>3
<1>4. /\ done' \in [Run -> Seq(DoneRow)] /\ RunsInOrder'
      /\ \A q \in Run : Key(q)' = Key(q)
      /\ \A q \in Run : \A e : WillInvalidate(q, e) => WillInvalidate(q, e)'
  BY <1>2, <1>3, ResultsStay
<1>5. ASSUME UNCHANGED <<bam, newest>> PROVE IInv'
  <2>1. Types'
    BY <1>1, <1>4, <1>5 DEF Types
  <2>2. IdsAreUnique'
    BY <1>1, <1>5 DEF IdsAreUnique
  <2>3. KeysFit'
    <3>1. \A e \in cache' : \A t \in Thing : bam'[t] = e.id => LeadsTo(e.key, t)
      BY <1>1, <1>5 DEF KeysFit
    <3>2. \A q \in Run : found'[q] \notin {None, 0} =>
            /\ found'[q] <= newest'
            /\ \A t \in Thing : bam'[t] = found'[q] => LeadsTo(Key(q)', t)
      BY <1>1, <1>4, <1>5 DEF KeysFit
    <3> QED
      BY <3>1, <3>2 DEF KeysFit, LeadsTo
  <2>4. EntriesAreAccountedFor'
    <3>1. Live' = Live
      BY <1>5 DEF Live
    <3> QED
      BY <1>1, <1>4, <3>1, StillExplained DEF EntriesAreAccountedFor
  <2> QED
    BY <1>4, <2>1, <2>2, <2>3, <2>4 DEF IInv
<1>6. ASSUME cidr \in Thing, bam[cidr] = 0,
             bam' = [bam EXCEPT ![cidr] = newest + 1], newest' = newest + 1
      PROVE  IInv'
  <2>1. /\ bam' \in [Thing -> Nat] /\ newest' \in Nat
        /\ \A e \in cache' : e.id \in Nat \ {0} /\ e.id <= newest'
        /\ IdsAreUnique' /\ KeysFit' /\ EntriesAreAccountedFor'
    <3>1. cache' = cache /\ found' = found /\ quiet \subseteq quiet'
      OBVIOUS
    <3> HIDE DEF cidr, CreateThing
    <3> QED
      BY <1>4, <1>6, <3>1, NewIds
  <2>2. Types'
    BY <1>1, <1>4, <2>1 DEF Types
  <2> QED
    BY <1>4, <2>1, <2>2 DEF IInv
<1> QED
  BY <1>5, <1>6

\* What a deletion leaves
LEMMA WhatIsLeft ==
  ASSUME NEW t \in Thing, IInv,
         bam' = [u \in Thing |-> IF u \in Gone(t) THEN 0 ELSE bam[u]],
         newest' = newest, cache' = cache, found' = found,
         \A q \in Run : Key(q)' = Key(q)
  PROVE  /\ bam' \in [Thing -> Nat]
         /\ IdsAreUnique' /\ KeysFit'
         /\ \A id \in Live : id \in Live' \/ \E u \in Gone(t) : u \in Thing /\ bam[u] = id
<1>1. bam \in [Thing -> Nat] /\ newest \in Nat /\ IdsAreUnique /\ KeysFit
  BY DEF IInv, Types
<1>2. \A u \in Thing : bam'[u] = 0 \/ bam'[u] = bam[u]
  OBVIOUS
<1>3. bam' \in [Thing -> Nat]
  BY <1>1
<1>4. IdsAreUnique'
  BY <1>1, <1>2 DEF IdsAreUnique
<1>5. KeysFit'
  <2>1. \A e \in cache' : \A u \in Thing : bam'[u] = e.id => LeadsTo(e.key, u)
    BY <1>1, <1>2 DEF KeysFit, IInv, Types
  <2>2. \A q \in Run : found'[q] \notin {None, 0} =>
          /\ found'[q] <= newest'
          /\ \A u \in Thing : bam'[u] = found'[q] => LeadsTo(Key(q)', u)
    BY <1>1, <1>2 DEF KeysFit
  <2> QED
    BY <2>1, <2>2 DEF KeysFit, LeadsTo
<1>6. ASSUME NEW id \in Live
      PROVE  id \in Live' \/ \E u \in Gone(t) : u \in Thing /\ bam[u] = id
  <2>1. PICK u \in Thing : bam[u] = id /\ id # 0
    BY DEF Live
  <2>2. u \notin Gone(t) => bam'[u] = id
    BY <2>1
  <2> QED
    BY <2>1, <2>2 DEF Live
<1> QED
  BY <1>3, <1>4, <1>5, <1>6

LEMMA DeleteThingStep ==
  ASSUME NEW p \in Run, NEW i \in DOMAIN file[p], IInv, DeleteThing(p, i)
  PROVE  IInv'
<1> DEFINE t      == file[p][i].cidr
           own    == [id |-> bam[t], key |-> InvalidatedKey(p, i)]
           others == {bam[u] : u \in Gone(t) \ {t}}
<1>1. Types /\ IdsAreUnique /\ KeysFit /\ EntriesAreAccountedFor /\ RunInOrder(p)
  BY DEF IInv, RunsInOrder
<1>2. /\ Ready(p, i) /\ file[p][i].action = "delete"
      /\ \/ /\ bam[t] # 0
            /\ bam' = [u \in Thing |-> IF u \in Gone(t) THEN 0 ELSE bam[u]]
            /\ quiet' = quiet \cup {own} \cup Unnoticed(others)
         \/ bam[t] = 0 /\ UNCHANGED <<bam, quiet>>
      /\ Result(p, i, bam[t] # 0, bam[t])
      /\ UNCHANGED <<newest, cache, phase, file, at, found, ids>>
  BY DEF DeleteThing
<1>3. phase[p] = "executing" /\ file[p] \in Files
  BY <1>1, <1>2 DEF Ready, RunInOrder
<1>4. i \in Nat /\ t \in Thing
  BY <1>2, <1>3, RowsOfFiles
<1>5. bam[t] \in Nat /\ (bam[t] # 0) \in BOOLEAN
  BY <1>1, <1>4 DEF Types
<1>6. /\ done' \in [Run -> Seq(DoneRow)] /\ RunsInOrder'
      /\ \A q \in Run : Key(q)' = Key(q)
      /\ \A q \in Run : \A e : WillInvalidate(q, e) => WillInvalidate(q, e)'
      /\ LET k == Len(done'[p]) IN
           /\ k \in DOMAIN done'[p] /\ k >= at'[p]
           /\ done'[p][k].row = i /\ done'[p][k].ok = (bam[t] # 0) /\ done'[p][k].was = bam[t]
  <2> HIDE DEF t
  <2> QED
    BY <1>2, <1>3, <1>4, <1>5, ResultsStay
<1>7. ASSUME UNCHANGED <<bam, quiet>> PROVE IInv'
  <2>1. Types'
    BY <1>1, <1>2, <1>6, <1>7 DEF Types
  <2>2. IdsAreUnique'
    BY <1>1, <1>2, <1>7 DEF IdsAreUnique
  <2>3. KeysFit'
    <3>1. \A e \in cache' : \A u \in Thing : bam'[u] = e.id => LeadsTo(e.key, u)
      BY <1>1, <1>2, <1>7 DEF KeysFit
    <3>2. \A q \in Run : found'[q] \notin {None, 0} =>
            /\ found'[q] <= newest'
            /\ \A u \in Thing : bam'[u] = found'[q] => LeadsTo(Key(q)', u)
      BY <1>1, <1>2, <1>6, <1>7 DEF KeysFit
    <3> QED
      BY <3>1, <3>2 DEF KeysFit, LeadsTo
  <2>4. EntriesAreAccountedFor'
    <3>1. Live' = Live
      BY <1>7 DEF Live
    <3> QED
      BY <1>1, <1>2, <1>6, <1>7, <3>1, StillExplained DEF EntriesAreAccountedFor
  <2> QED
    BY <1>6, <2>1, <2>2, <2>3, <2>4 DEF IInv
<1>8. ASSUME bam[t] # 0, bam' = [u \in Thing |-> IF u \in Gone(t) THEN 0 ELSE bam[u]],
             quiet' = quiet \cup {own} \cup Unnoticed(others)
      PROVE  IInv'
  <2>1. /\ bam' \in [Thing -> Nat] /\ IdsAreUnique' /\ KeysFit'
        /\ \A id \in Live : id \in Live' \/ \E u \in Gone(t) : u \in Thing /\ bam[u] = id
    <3> HIDE DEF t
    <3> QED
      BY <1>2, <1>4, <1>6, <1>8, WhatIsLeft
  <2>2. Types'
    BY <1>1, <1>2, <1>6, <2>1 DEF Types
  <2>3. EntriesAreAccountedFor'
    <3> SUFFICES ASSUME NEW e \in cache
                 PROVE  Explained(e)' \/ \E q \in Run : WillInvalidate(q, e)'
      BY <1>2 DEF EntriesAreAccountedFor
    <3>1. e.id # 0 /\ quiet \subseteq quiet' /\ own \in quiet' /\ Unnoticed(others) \subseteq quiet'
      BY <1>1, <1>8 DEF Types
    <3> HIDE DEF own, others
    <3>2. CASE Explained(e) /\ (e.id \in Live => e.id \in Live')
      BY <3>1, <3>2, StillExplained
    <3>3. CASE ~Explained(e)
      BY <1>1, <1>6, <3>3 DEF EntriesAreAccountedFor
    <3>4. ASSUME NEW u \in Gone(t), bam[u] = e.id, u # t
          PROVE  Explained(e)'
      <4>1. e.id \in others
        BY <3>4 DEF others
      <4> QED
        BY <3>1, <4>1, UnnoticedExplains
    <3>5. ASSUME bam[t] = e.id
          PROVE  Explained(e)' \/ WillInvalidate(p, e)'
      <4>1. own.id = e.id /\ own.key = InvalidatedKey(p, i)
        BY <3>5 DEF own
      <4>2. CASE e.key # InvalidatedKey(p, i)
        BY <3>1, <4>1, <4>2 DEF Explained, Quiet, QuietIn
      <4>3. CASE e.key = InvalidatedKey(p, i)
        <5>1. PICK k : k = Len(done'[p])
          OBVIOUS
        <5>2. /\ k \in DOMAIN done'[p] /\ k >= at'[p]
              /\ done'[p][k].row = i /\ done'[p][k].ok /\ done'[p][k].was = e.id
          <6> HIDE DEF t
          <6>1. /\ k \in DOMAIN done'[p] /\ k >= at'[p]
                /\ done'[p][k].row = i /\ done'[p][k].was = bam[t]
                /\ done'[p][k].ok = (bam[t] # 0)
            BY <1>6, <5>1, Zenon
          <6>2. done'[p][k].ok
            BY <1>8, <6>1
          <6> QED
            BY <3>5, <6>1, <6>2
        <5>3. InvalidatedKey(p, done[p][k].row)' = e.key
          BY <1>2, <4>3, <5>2 DEF InvalidatedKey
        <5> QED
          BY <5>2, <5>3 DEF WillInvalidate
      <4> QED
        BY <4>2, <4>3
    <3> QED
      BY <2>1, <3>2, <3>3, <3>4, <3>5
  <2> QED
    BY <1>6, <2>1, <2>2, <2>3 DEF IInv
<1> QED
  BY <1>2, <1>7, <1>8

LEMMA FinishStep ==
  ASSUME NEW p \in Run, IInv, Finish(p)
  PROVE  IInv'
<1> USE DEF Finish, world
<1>1. Types /\ RunInOrder(p)
  BY DEF IInv, RunsInOrder
<1>2. phase'[p] = "invalidating" /\ \A q \in Run \ {p} : Untouched(q)
  BY <1>1 DEF Types, Untouched
<1>3. Types' /\ IdsAreUnique'
  BY DEF IInv, Types, IdsAreUnique
<1>4. RunsInOrder'
  <2>1. file[p] \in Files /\ at[p] \in DOMAIN file[p]
    BY <1>1, RowsOfFiles DEF RunInOrder
  <2>2. RunInOrder(p)'
    BY <1>1, <1>2, <2>1 DEF RunInOrder
  <2> QED
    BY <1>2, <2>2, UntouchedRuns DEF IInv, RunsInOrder
<1>5. KeysFit' /\ EntriesAreAccountedFor'
  <2>1. KeysFit /\ EntriesAreAccountedFor
    BY DEF IInv
  <2>2. KeysFit'
    <3>1. \A q \in Run : Key(q)' = Key(q)
      BY DEF Key, Row
    <3> QED
      BY <2>1, <3>1, KeysStay
  <2>3. \A q \in Run : \A e : WillInvalidate(q, e)' <=> WillInvalidate(q, e)
    BY DEF WillInvalidate, InvalidatedKey
  <2>4. EntriesAreAccountedFor'
    <3>1. Live' = Live
      BY DEF Live
    <3> QED
      BY <2>1, <2>3, <3>1, StillExplained DEF EntriesAreAccountedFor
  <2> QED
    BY <2>2, <2>4
<1> QED
  BY <1>3, <1>4, <1>5 DEF IInv

\* A run that is over
LEMMA DownRun ==
  ASSUME NEW p \in Run, IInv, Down(p), found'[p] = None,
         \A q \in Run \ {p} : found'[q] = found[q]
  PROVE  /\ phase' \in [Run -> {"down", "resolving", "executing", "invalidating"}]
         /\ file' \in [Run -> Files \cup {<<>>}]
         /\ at' \in [Run -> Nat] /\ ids' = [q \in Run |-> ids'[q]]
         /\ done' \in [Run -> Seq(DoneRow)]
         /\ \A q \in Run \ {p} : Untouched(q)
         /\ RunsInOrder'
<1> USE DEF Down
<1>1. Types
  BY DEF IInv
<1>2. /\ phase' \in [Run -> {"down", "resolving", "executing", "invalidating"}]
      /\ file' \in [Run -> Files \cup {<<>>}] /\ at' \in [Run -> Nat]
  BY <1>1 DEF Types
<1>3. ids' = [q \in Run |-> ids'[q]]
  <2>1. ids' = [ids EXCEPT ![p] = <<>>] /\ ids = [q \in Run |-> ids[q]]
    BY <1>1 DEF Types
  <2> QED
    BY <2>1
<1>4. done' \in [Run -> Seq(DoneRow)]
  <2>1. <<>> \in Seq(DoneRow)
    OBVIOUS
  <2> QED
    BY <1>1, <2>1 DEF Types
<1>5. \A q \in Run \ {p} : Untouched(q)
  BY <1>1 DEF Untouched, Types
<1>6. RunInOrder(p)'
  <2>1. phase'[p] = "down" /\ at'[p] = 1 /\ done'[p] = <<>>
    BY <1>1 DEF Types
  <2> QED
    BY <2>1 DEF RunInOrder
<1> QED
  BY <1>2, <1>3, <1>4, <1>5, <1>6, UntouchedRuns DEF IInv, RunsInOrder

LEMMA InvalidateNextStep ==
  ASSUME NEW p \in Run, IInv, InvalidateNext(p)
  PROVE  IInv'
<1> USE DEF InvalidateNext, world
<1> DEFINE result == done[p][at[p]]
<1>1. Types /\ RunInOrder(p) /\ IdsAreUnique
  BY DEF IInv, RunsInOrder
<1>2. /\ file[p] \in Files /\ at[p] \in DOMAIN file[p] /\ Len(done[p]) = Len(file[p])
      /\ found[p] = None /\ at[p] \in Nat
  BY <1>1 DEF RunInOrder, Types
<1>3. Len(file[p]) \in Nat /\ DOMAIN file[p] = 1 .. Len(file[p]) /\ DOMAIN done[p] = 1 .. Len(done[p])
  <2>1. done[p] \in Seq(DoneRow)
    BY <1>1 DEF Types
  <2> QED
    BY <1>2, <2>1, RowsOfFiles
<1>4. cache' \subseteq cache
  OBVIOUS
<1>5. /\ phase' \in [Run -> {"down", "resolving", "executing", "invalidating"}]
      /\ file' \in [Run -> Files \cup {<<>>}]
      /\ at' \in [Run -> Nat] /\ ids' = [q \in Run |-> ids'[q]]
      /\ done' \in [Run -> Seq(DoneRow)]
      /\ \A q \in Run \ {p} : Untouched(q)
      /\ RunsInOrder'
  <2>1. CASE at[p] = Len(file[p])
    BY <1>2, <2>1, DownRun
  <2>2. CASE at[p] # Len(file[p])
    <3>1. at' = [at EXCEPT ![p] = at[p] + 1] /\ UNCHANGED <<phase, file, ids, done>>
      BY <2>2
    <3>2. at' \in [Run -> Nat] /\ at'[p] = at[p] + 1
      BY <1>1, <3>1 DEF Types
    <3>3. \A q \in Run \ {p} : Untouched(q)
      BY <1>1, <3>1 DEF Types, Untouched
    <3>4. at'[p] \in DOMAIN file[p]
      BY <1>2, <1>3, <2>2, <3>2
    <3>5. RunInOrder(p)'
      BY <1>1, <3>1, <3>4 DEF RunInOrder
    <3>6. RunsInOrder'
      BY <3>3, <3>5, UntouchedRuns DEF IInv, RunsInOrder
    <3> QED
      BY <1>1, <3>1, <3>2, <3>3, <3>6 DEF Types
  <2> QED
    BY <2>1, <2>2
<1>6. Types'
  BY <1>1, <1>4, <1>5 DEF Types
<1>7. IdsAreUnique'
  BY <1>1 DEF IdsAreUnique
<1>8. KeysFit'
  BY <1>2, <1>4, <1>5, AnswersKeepTheirKeys
<1>9. EntriesAreAccountedFor'
  <2> SUFFICES ASSUME NEW e \in cache'
               PROVE  Explained(e)' \/ \E q \in Run : WillInvalidate(q, e)'
    BY DEF EntriesAreAccountedFor
  <2>1. e \in cache /\ Live' = Live /\ quiet' = quiet
    BY <1>4 DEF Live
  <2>2. CASE Explained(e)
    BY <2>1, <2>2, StillExplained
  <2>3. ASSUME NEW q \in Run, WillInvalidate(q, e)
        PROVE  WillInvalidate(q, e)'
    <3>1. CASE q # p
      BY <1>5, <2>3, <3>1, UntouchedRuns
    <3>2. CASE q = p
      <4>1. PICK k \in DOMAIN done[p] :
              /\ k >= at[p] /\ done[p][k].ok /\ done[p][k].was = e.id
              /\ InvalidatedKey(p, done[p][k].row) = e.key
        BY <2>3, <3>2 DEF WillInvalidate
      <4>2. k # at[p]
        BY <4>1
      <4>3. k > at[p] /\ at[p] # Len(file[p])
        BY <1>2, <1>3, <4>1, <4>2
      <4>4. at'[p] = at[p] + 1 /\ UNCHANGED <<file, ids, done>>
        BY <1>1, <4>3 DEF Types
      <4>5. k >= at'[p]
        BY <1>2, <1>3, <4>3, <4>4
      <4>6. InvalidatedKey(p, done[p][k].row)' = e.key
        BY <4>1, <4>4 DEF InvalidatedKey
      <4>7. WillInvalidate(p, e)'
        BY <4>1, <4>4, <4>5, <4>6 DEF WillInvalidate
      <4> QED
        BY <3>2, <4>7
    <3> QED
      BY <3>1, <3>2
  <2> QED
    BY <2>1, <2>2, <2>3 DEF EntriesAreAccountedFor, IInv
<1> QED
  BY <1>5, <1>6, <1>7, <1>8, <1>9 DEF IInv

LEMMA StopStep ==
  ASSUME NEW p \in Run, IInv, Stop(p)
  PROVE  IInv'
<1> USE DEF Stop
<1>1. Types /\ IdsAreUnique
  BY DEF IInv
<1>2. /\ found'[p] = None /\ \A q \in Run \ {p} : found'[q] = found[q]
      /\ found' \in [Run -> Nat \cup {None}]
  BY <1>1 DEF Types
<1>3. /\ phase' \in [Run -> {"down", "resolving", "executing", "invalidating"}]
      /\ file' \in [Run -> Files \cup {<<>>}]
      /\ at' \in [Run -> Nat] /\ ids' = [q \in Run |-> ids'[q]]
      /\ done' \in [Run -> Seq(DoneRow)]
      /\ \A q \in Run \ {p} : Untouched(q)
      /\ RunsInOrder'
  BY <1>2, DownRun
<1>4. Types'
  BY <1>1, <1>2, <1>3 DEF Types
<1>5. IdsAreUnique'
  BY <1>1 DEF IdsAreUnique
<1>6. KeysFit'
  BY <1>2, <1>3, AnswersKeepTheirKeys
<1>7. EntriesAreAccountedFor'
  <2> SUFFICES ASSUME NEW e \in cache
               PROVE  Explained(e)' \/ \E q \in Run : WillInvalidate(q, e)'
    BY DEF EntriesAreAccountedFor
  <2> DEFINE rest == {done[p][k].was : k \in {j \in DOMAIN done[p] : j >= at[p]}}
  <2>1. Live' = Live /\ quiet \subseteq quiet' /\ Unnoticed(rest) \subseteq quiet'
    BY DEF Live
  <2>2. ASSUME NEW q \in Run, WillInvalidate(q, e)
        PROVE  Explained(e)' \/ WillInvalidate(q, e)'
    <3>1. CASE q # p
      BY <1>3, <2>2, <3>1, UntouchedRuns
    <3>2. CASE q = p
      <4>1. PICK k \in DOMAIN done[p] : k >= at[p] /\ done[p][k].was = e.id
        BY <2>2, <3>2 DEF WillInvalidate
      <4>2. e.id # 0
        BY <1>1 DEF Types
      <4>3. e.id \in rest
        BY <4>1
      <4> HIDE DEF rest
      <4> QED
        BY <2>1, <4>2, <4>3, UnnoticedExplains
    <3> QED
      BY <3>1, <3>2
  <2> QED
    BY <2>1, <2>2, StillExplained DEF EntriesAreAccountedFor, IInv
<1> QED
  BY <1>3, <1>4, <1>5, <1>6, <1>7 DEF IInv

LEMMA ChangeBamStep ==
  ASSUME IInv, ChangeBam
  PROVE  IInv'
<1>1. Types /\ RunsInOrder /\ EntriesAreAccountedFor
  BY DEF IInv
<1>2. UNCHANGED <<cache, phase, file, at, found, ids, done>>
  BY DEF ChangeBam
<1>3. RunsInOrder'
  BY <1>1, <1>2 DEF RunsInOrder, RunInOrder
<1>4. \A q \in Run : Key(q)' = Key(q)
  BY <1>2 DEF Key, Row
<1>5. \A q \in Run : \A e : WillInvalidate(q, e) => WillInvalidate(q, e)'
  BY <1>2 DEF WillInvalidate, InvalidatedKey
<1>6. PICK t \in Thing :
        IF bam[t] # 0
        THEN /\ bam' = [u \in Thing |-> IF u \in Gone(t) THEN 0 ELSE bam[u]]
             /\ quiet' = quiet \cup Unnoticed({bam[u] : u \in Gone(t)})
             /\ UNCHANGED newest
        ELSE /\ bam' = [bam EXCEPT ![t] = newest + 1] /\ newest' = newest + 1
             /\ UNCHANGED quiet
  BY DEF ChangeBam
<1>7. CASE bam[t] = 0
  <2>1. /\ bam' \in [Thing -> Nat] /\ newest' \in Nat
        /\ \A e \in cache' : e.id \in Nat \ {0} /\ e.id <= newest'
        /\ IdsAreUnique' /\ KeysFit' /\ EntriesAreAccountedFor'
    <3>1. /\ bam' = [bam EXCEPT ![t] = newest + 1] /\ newest' = newest + 1
          /\ quiet \subseteq quiet' /\ cache' = cache /\ found' = found
      BY <1>2, <1>6, <1>7
    <3> QED
      BY <1>4, <1>5, <1>7, <3>1, NewIds
  <2>2. Types'
    BY <1>1, <1>2, <2>1 DEF Types
  <2> QED
    BY <1>3, <2>1, <2>2 DEF IInv
<1>8. CASE bam[t] # 0
  <2>1. /\ bam' = [u \in Thing |-> IF u \in Gone(t) THEN 0 ELSE bam[u]]
        /\ quiet' = quiet \cup Unnoticed({bam[u] : u \in Gone(t)})
        /\ newest' = newest /\ cache' = cache /\ found' = found
    BY <1>2, <1>6, <1>8
  <2>2. /\ bam' \in [Thing -> Nat] /\ IdsAreUnique' /\ KeysFit'
        /\ \A id \in Live : id \in Live' \/ \E u \in Gone(t) : u \in Thing /\ bam[u] = id
    BY <1>4, <2>1, WhatIsLeft
  <2>3. Types'
    BY <1>1, <1>2, <2>1, <2>2 DEF Types
  <2>4. EntriesAreAccountedFor'
    <3> SUFFICES ASSUME NEW e \in cache
                 PROVE  Explained(e)' \/ \E q \in Run : WillInvalidate(q, e)'
      BY <2>1 DEF EntriesAreAccountedFor
    <3> DEFINE gone == {bam[u] : u \in Gone(t)}
    <3>1. e.id # 0 /\ quiet \subseteq quiet' /\ Unnoticed(gone) \subseteq quiet'
      BY <1>1, <2>1 DEF Types
    <3>2. CASE e.id \in Live \ Live'
      <4>1. e.id \in gone
        BY <2>2, <3>2
      <4> HIDE DEF gone
      <4> QED
        BY <3>1, <4>1, UnnoticedExplains
    <3>3. CASE Explained(e) /\ e.id \notin Live \ Live'
      BY <3>1, <3>3, StillExplained
    <3>4. CASE ~Explained(e)
      BY <1>1, <1>5, <3>4 DEF EntriesAreAccountedFor
    <3> QED
      BY <3>2, <3>3, <3>4
  <2> QED
    BY <1>3, <2>2, <2>3, <2>4 DEF IInv
<1> QED
  BY <1>7, <1>8

LEMMA NextIInv == IInv /\ [Next]_vars => IInv'
<1> SUFFICES ASSUME IInv, [Next]_vars PROVE IInv'
  OBVIOUS
<1>1. ASSUME NEW p \in Run, Begin(p) PROVE IInv'
  BY <1>1, BeginStep
<1>2. ASSUME NEW p \in Run, ResolveWithoutPath(p) PROVE IInv'
  BY <1>2, ResolvedStep DEF ResolveWithoutPath
<1>3. ASSUME NEW p \in Run, CacheHit(p) PROVE IInv'
  BY <1>3, ResolvedStep DEF CacheHit
<1>4. ASSUME NEW p \in Run, Query(p) PROVE IInv'
  BY <1>4, QueryStep
<1>5. ASSUME NEW p \in Run, Store(p) PROVE IInv'
  BY <1>5, StoreStep
<1>6. ASSUME NEW p \in Run, NEW i \in DOMAIN file[p], CreateThing(p, i) PROVE IInv'
  BY <1>6, CreateThingStep
<1>7. ASSUME NEW p \in Run, NEW i \in DOMAIN file[p], DeleteThing(p, i) PROVE IInv'
  BY <1>7, DeleteThingStep
<1>8. ASSUME NEW p \in Run, Finish(p) PROVE IInv'
  BY <1>8, FinishStep
<1>9. ASSUME NEW p \in Run, InvalidateNext(p) PROVE IInv'
  BY <1>9, InvalidateNextStep
<1>10. ASSUME NEW p \in Run, Stop(p) PROVE IInv'
  BY <1>10, StopStep
<1>11. ASSUME ChangeBam PROVE IInv'
  BY <1>11, ChangeBamStep
<1>12. ASSUME UNCHANGED vars PROVE IInv'
  <2> USE <1>12 DEF vars
  <2>1. Types' /\ IdsAreUnique' /\ RunsInOrder'
    BY DEF IInv, Types, IdsAreUnique, RunsInOrder, RunInOrder
  <2>2. KeysFit'
    <3>1. \A q \in Run : Key(q)' = Key(q)
      BY DEF Key, Row
    <3> QED
      BY <3>1, KeysStay DEF IInv
  <2>3. EntriesAreAccountedFor'
    BY DEF IInv, EntriesAreAccountedFor, Explained, Quiet, QuietIn, Live, WillInvalidate, InvalidatedKey
  <2> QED
    BY <2>1, <2>2, <2>3 DEF IInv
<1> QED
  BY <1>1, <1>2, <1>3, <1>4, <1>5, <1>6, <1>7, <1>8, <1>9, <1>10, <1>11, <1>12 DEF Next

-----------------------------------------------------------------------------
(***************************************************************************)
(* Theorems                                                                *)
(***************************************************************************)
\* The inductive invariant holds in every state, whatever the files, however
\* the runs overlap, and whoever else changes BAM.
THEOREM ResolverInvariant == Spec => []IInv
BY InitIInv, NextIInv, PTL DEF Spec

LEMMA StaleEntriesHaveReasons == IInv => StaleForAReason
<1> SUFFICES ASSUME IInv, \A p \in Run : phase[p] = "down", NEW e \in cache
             PROVE  Explained(e)
  BY DEF StaleForAReason, Explained
<1>1. \A p \in Run : done[p] = <<>>
  BY DEF IInv, RunsInOrder, RunInOrder
<1> QED
  BY <1>1, NothingToInvalidate DEF IInv, EntriesAreAccountedFor

\* Between runs, an entry of the shared cache has the id of something that is
\* there, or of something whose deletion no row had to report by that path:
\* invalidation by the results loop of the runner misses nothing else.
THEOREM StaleEntries == Spec => []StaleForAReason
BY ResolverInvariant, StaleEntriesHaveReasons, PTL

-----------------------------------------------------------------------------
(***************************************************************************)
(* The ids of parents                                                      *)
(***************************************************************************)
NetworksHaveBlocks == \A t \in Thing : bam[t] # 0 /\ BlockOf[t] # None => bam[BlockOf[t]] # 0

Overlap == \E p, q \in Run : p # q /\ phase[p] # "down" /\ phase[q] # "down"
Alone == ~overlapped /\ changes = 0

\* One id per row that was looked at
IdsInOrder ==
    \A p \in Run :
        /\ ids[p] \in Seq(Nat \cup {Deferred})
        /\ phase[p] = "down" => ids[p] = <<>>
        /\ phase[p] = "resolving" => Len(ids[p]) + 1 = at[p]
        /\ phase[p] = "executing" => Len(ids[p]) = Len(file[p])

\* Nothing happens between BAM's answer and its entry in the cache.
AnswersAreFresh ==
    /\ \A p \in Run : found[p] # None => Key(p) # None
    /\ Alone => \A p \in Run : found[p] # None => found[p] = QueryBam(Key(p))

\* The id that a row has for its parent is the one that BAM has, or it will be
\* found out, or nothing invalidated it under the path of the row; when BAM has no
\* parent, the file makes none. An address asks also for what the file creates.
Fits(b, gone, rows, row, id) ==
    \/ row.within = None \/ id = Deferred \/ QuietIn(gone, Asks(rows, row), id)
    \/ AskedTooEarly(rows, row) \/ Misread(rows, row)
    \/ /\ b[row.within] # 0 /\ id = b[row.within]
       /\ row.within \in Pending(rows) => Parents(row) /\ row.type = "ip4_address"
    \/ b[row.within] = 0 /\ row.within \notin Pending(rows)
IdsFit == Alone => \A p \in Run : \A i \in DOMAIN ids[p] :
    Fits(bam, quiet, file[p], file[p][i], ids[p][i])

ParentsInv ==
    /\ changes \in Nat /\ overlapped \in BOOLEAN
    /\ NetworksHaveBlocks
    /\ Overlap => overlapped
    /\ IdsInOrder
    /\ AnswersAreFresh
    /\ IdsFit

LEMMA RowsAreWithin ==
  ASSUME NEW rows \in Files, NEW i \in DOMAIN rows
  PROVE  /\ rows[i].within \in Thing \cup {None}
         /\ rows[i].within = None <=> rows[i].type \in {"ip4_block", "ip6_block"}
         /\ rows[i].parent # None /\ rows[i].within # None =>
              \A t \in Thing :
                LeadsTo(CacheKey(AskedPath(rows[i]), ParentType[rows[i].type]), t) => t = rows[i].within
         /\ rows[i].action = "create" /\ rows[i].cidr \in Thing => rows[i].within = BlockOf[rows[i].cidr]
BY WithinAssumption, Zenon

\* What a row asks for is its parent or nothing, and of what the file creates
\* only an address asks for it, or a row that asks too early.
LEMMA AskedKeyFits ==
  ASSUME NEW rows \in Files, NEW i \in DOMAIN rows,
         Asks(rows, rows[i]) # None, rows[i].within # None
  PROVE  /\ rows[i].within \in Thing
         /\ \A t \in Thing : LeadsTo(Asks(rows, rows[i]), t) => t = rows[i].within
         /\ rows[i].within \in Pending(rows) =>
              \/ Parents(rows[i]) /\ rows[i].type = "ip4_address"
              \/ AskedTooEarly(rows, rows[i]) \/ Misread(rows, rows[i])
<1> DEFINE row == rows[i]
           w   == row.within
           key == Asks(rows, row)
<1>1. Parents(row) /\ ~InFile(rows, row) /\ key = CacheKey(AskedPath(row), ParentType[row.type])
  BY DEF Asks
<1>2. row.type \in DOMAIN ParentType
  BY <1>1, RowsOfFiles DEF Parents
<1>3. /\ w \in Thing /\ row.type \notin {"ip4_block", "ip6_block"}
      /\ \A t \in Thing : LeadsTo(key, t) => t = w
  BY <1>1, RowsAreWithin DEF Parents
<1>4. ASSUME w \in Pending(rows), row.type # "ip4_address",
             ~AskedTooEarly(rows, row), ~Misread(rows, row)
      PROVE  FALSE
  <2>1. row.type \in {"ip4_network", "ip6_network", "ipv4_dhcp_range", "ipv6_dhcp_range"}
    BY <1>2, <1>3, <1>4 DEF ParentType
  <2>2. LeadsTo(key, w)
    BY <1>4 DEF Misread
  <2>3. CASE row.type = "ip6_network"
    <3>1. row.parent = [slashes |-> 0, names |-> <<w>>]
      BY <1>1, <1>4, <2>3 DEF AskedTooEarly
    <3>2. row.parent.slashes = 0 /\ Len(row.parent.names) = 1 /\ row.parent.names[1] = w
      BY <3>1
    <3> QED
      BY <1>1, <1>4, <2>3, <3>2 DEF InFile
  <2>4. CASE row.type # "ip6_network"
    <3>1. AskedPath(row) = row.parent /\ Last(row.parent.names) = w
      BY <1>1, <1>4, <2>4 DEF AskedTooEarly, AskedPath
    <3>2. key.path = row.parent /\ key.kind = KindName[ParentType[row.type]]
      BY <1>1, <3>1 DEF CacheKey
    <3>3. CASE row.type = "ip4_network"
      <4>1. key.kind = "Block"
        BY <3>2, <3>3 DEF KindName, ParentType
      <4>2. Len(row.parent.names) = 2 /\ BlockOf[w] = None
        BY <2>2, <3>2, <4>1 DEF LeadsTo
      <4> QED
        BY <1>1, <1>4, <3>1, <3>3, <4>2 DEF InFile
    <3>4. CASE row.type \in {"ipv4_dhcp_range", "ipv6_dhcp_range"}
      <4>1. key.kind \in {"Network", "IPv6Network"}
        BY <3>2, <3>4 DEF KindName, ParentType
      <4>2. BlockOf[w] # None
        BY <2>2, <4>1 DEF LeadsTo
      <4> QED
        BY <1>1, <1>4, <3>1, <3>4, <4>2 DEF InFile
    <3> QED
      BY <2>1, <2>4, <3>3, <3>4
  <2> QED
    BY <2>3, <2>4
<1> QED
  BY <1>1, <1>3, <1>4

\* By a path that leads to a thing BAM has it, when it is there.
LEMMA ReadersFindThings ==
  ASSUME NEW t \in Thing, NetworksHaveBlocks, NEW key, LeadsTo(key, t), QueryBam(key) = 0
  PROVE  bam[t] = 0
<1> SUFFICES ASSUME bam[t] # 0 PROVE FALSE
  OBVIOUS
<1>1. BlockOf[t] # None => bam[BlockOf[t]] # 0
  BY DEF NetworksHaveBlocks
<1>2. QueryBam(key) = bam[CHOOSE u \in Thing : LeadsTo(key, u)]
  BY <1>1 DEF QueryBam
<1>3. LeadsTo(key, CHOOSE u \in Thing : LeadsTo(key, u))
  BY Zenon
<1>4. (CHOOSE u \in Thing : LeadsTo(key, u)) = t
  BY <1>3, OneThing
<1> QED
  BY <1>2, <1>4

\* BAM answers the same until it changes.
LEMMA SameAnswer ==
  ASSUME bam' = bam, NEW key
  PROVE  QueryBam(key)' = QueryBam(key)
BY DEF QueryBam

\* The types of ids that rows get
LEMMA DiscoverType ==
  ASSUME NEW rows \in Files, NEW i \in DOMAIN rows, Types
  PROVE  Discover(rows, rows[i]) \in Nat \cup {Deferred}
<1>1. rows[i].type \notin {"ip4_block", "ip6_block"} => rows[i].within \in Thing
  BY RowsAreWithin
<1> QED
  BY <1>1 DEF Discover, Types

\* What discovery gives fits.
LEMMA DiscoverFits ==
  ASSUME NEW rows \in Files, NEW i \in DOMAIN rows
  PROVE  Fits(bam, quiet, rows, rows[i], Discover(rows, rows[i]))
<1>1. CASE rows[i].within = None
  BY <1>1 DEF Fits
<1>2. CASE rows[i].within # None
  <2>1. rows[i].type \notin {"ip4_block", "ip6_block"}
    BY <1>2, RowsAreWithin
  <2> QED
    BY <2>1 DEF Discover, Fits
<1> QED
  BY <1>1, <1>2

\* What is found by the path of a row fits: an id that BAM has for that path, or
\* none when the parent is not there.
LEMMA FoundFits ==
  ASSUME NEW rows \in Files, NEW i \in DOMAIN rows, Asks(rows, rows[i]) # None, NEW id,
         \/ Quiet(Asks(rows, rows[i]), id)
         \/ id # 0 /\ \E t \in Thing : id = bam[t] /\ LeadsTo(Asks(rows, rows[i]), t)
         \/ /\ NetworksHaveBlocks /\ rows[i].type # "ip4_address"
            /\ QueryBam(Asks(rows, rows[i])) = 0
  PROVE  Fits(bam, quiet, rows, rows[i], id)
<1> DEFINE row == rows[i]
           w   == row.within
           key == Asks(rows, row)
<1>1. SUFFICES ASSUME w # None, ~Quiet(key, id), ~AskedTooEarly(rows, row), ~Misread(rows, row)
               PROVE  Fits(bam, quiet, rows, row, id)
  BY DEF Fits, Quiet
<1>2. /\ w \in Thing /\ \A t \in Thing : LeadsTo(key, t) => t = w
      /\ w \in Pending(rows) => Parents(row) /\ row.type = "ip4_address"
  BY <1>1, AskedKeyFits
<1>3. CASE id # 0 /\ \E t \in Thing : id = bam[t] /\ LeadsTo(key, t)
  <2>1. PICK t \in Thing : id = bam[t] /\ LeadsTo(key, t)
    BY <1>3
  <2>2. t = w
    BY <1>2, <2>1
  <2> QED
    BY <1>2, <1>3, <2>1, <2>2 DEF Fits
<1>4. CASE NetworksHaveBlocks /\ row.type # "ip4_address" /\ QueryBam(key) = 0
  <2>1. LeadsTo(key, w)
    BY <1>1, <1>4 DEF Misread
  <2>2. bam[w] = 0 /\ w \notin Pending(rows)
    BY <1>2, <1>4, <2>1, ReadersFindThings
  <2> QED
    BY <2>2 DEF Fits
<1> QED
  BY <1>1, <1>3, <1>4

\* When runs do not overlap, the others have no ids and no answers.
LEMMA OthersAreDown ==
  ASSUME NEW p \in Run, IInv, ParentsInv, ~overlapped, phase[p] # "down", NEW q \in Run \ {p}
  PROVE  phase[q] = "down" /\ ids[q] = <<>> /\ found[q] = None
<1>1. phase[q] = "down"
  BY DEF ParentsInv, Overlap
<1> QED
  BY <1>1 DEF ParentsInv, IdsInOrder, IInv, RunsInOrder, RunInOrder

\* What keeps the blocks of the networks
LEMMA BlocksAreKept ==
  ASSUME NetworksHaveBlocks, Types, NEW t \in Thing,
         \/ /\ bam' = [bam EXCEPT ![t] = newest + 1]
            /\ BlockOf[t] # None => bam[BlockOf[t]] # 0
         \/ bam' = [u \in Thing |-> IF u \in Gone(t) THEN 0 ELSE bam[u]]
  PROVE  NetworksHaveBlocks'
<1>1. /\ \A u \in Thing : BlockOf[u] # None => BlockOf[u] \in Thing /\ BlockOf[BlockOf[u]] = None
      /\ None \notin Thing
  BY ThingAssumption
<1>2. bam \in [Thing -> Nat] /\ newest \in Nat
  BY DEF Types
<1>3. CASE /\ bam' = [bam EXCEPT ![t] = newest + 1]
           /\ BlockOf[t] # None => bam[BlockOf[t]] # 0
  <2>1. \A u \in Thing : bam'[u] = IF u = t THEN newest + 1 ELSE bam[u]
    BY <1>2, <1>3
  <2> QED
    BY <1>1, <1>2, <1>3, <2>1 DEF NetworksHaveBlocks
<1>4. CASE bam' = [u \in Thing |-> IF u \in Gone(t) THEN 0 ELSE bam[u]]
  <2>1. \A u \in Thing : bam'[u] = IF u \in Gone(t) THEN 0 ELSE bam[u]
    BY <1>4
  <2>2. \A u \in Thing : u \notin Gone(t) /\ BlockOf[u] # None => BlockOf[u] \notin Gone(t)
    BY <1>1 DEF Gone
  <2> QED
    BY <1>1, <2>1, <2>2 DEF NetworksHaveBlocks
<1> QED
  BY <1>3, <1>4

\* An id goes on fitting while the parent stays what it is, and when it is
\* deleted, unless the file makes it anew.
LEMMA FitsStays ==
  ASSUME NEW b, NEW c, NEW gone, NEW more, NEW rows, NEW row, NEW id,
         Fits(b, gone, rows, row, id), gone \subseteq more, c[row.within] = b[row.within]
  PROVE  Fits(c, more, rows, row, id)
BY DEF Fits, QuietIn

LEMMA FitsDeleted ==
  ASSUME NEW b, NEW c, NEW gone, NEW more, NEW rows, NEW row, NEW id,
         Fits(b, gone, rows, row, id), gone \subseteq more, c[row.within] = 0,
         Parents(row) /\ row.type = "ip4_address" /\ row.within \in Pending(rows) =>
           AskedTooEarly(rows, row)
  PROVE  Fits(c, more, rows, row, id)
BY DEF Fits, QuietIn

\* A row more has its parent.
LEMMA ResolvedParents ==
  ASSUME NEW p \in Run, NEW id \in Nat \cup {Deferred}, IInv, ParentsInv,
         phase[p] = "resolving", Resolved(p, id),
         UNCHANGED <<bam, file, done, changes, overlapped>>, quiet \subseteq quiet',
         found'[p] = None, \A q \in Run \ {p} : found'[q] = found[q],
         Alone => Fits(bam', quiet', file[p], Row(p), id)
  PROVE  ParentsInv'
<1>1. /\ phase' \in [Run -> {"down", "resolving", "executing", "invalidating"}]
      /\ \A q \in Run \ {p} : Untouched(q)
  BY ResolvedRun
<1>2. Types /\ RunInOrder(p) /\ IdsInOrder
  BY DEF IInv, RunsInOrder, ParentsInv
<1>3. /\ file[p] \in Files /\ at[p] \in DOMAIN file[p]
      /\ Len(file[p]) \in Nat /\ DOMAIN file[p] = 1 .. Len(file[p])
  BY <1>2, RowsOfFiles DEF RunInOrder
<1>4. ids[p] \in Seq(Nat \cup {Deferred}) /\ Len(ids[p]) + 1 = at[p]
  BY <1>2 DEF IdsInOrder
<1>5. ids'[p] = Append(ids[p], id)
  <2>1. ids' = [ids EXCEPT ![p] = Append(@, id)] /\ ids = [q \in Run |-> ids[q]]
    BY <1>2 DEF Resolved, Types
  <2> QED
    BY <2>1
<1>6. /\ ids'[p] \in Seq(Nat \cup {Deferred}) /\ Len(ids'[p]) = at[p] /\ DOMAIN ids'[p] = 1 .. at[p]
      /\ ids'[p][at[p]] = id
      /\ \A i \in DOMAIN ids'[p] : i # at[p] => i \in DOMAIN ids[p] /\ ids'[p][i] = ids[p][i]
  <2> DEFINE S == Nat \cup {Deferred}
  <2>1. ids[p] \in Seq(S) /\ id \in S
    BY <1>4
  <2>2. at[p] \in Nat
    BY <1>2 DEF Types
  <2> HIDE DEF S
  <2>3. /\ Append(ids[p], id) \in Seq(S) /\ Len(Append(ids[p], id)) = Len(ids[p]) + 1
        /\ Append(ids[p], id)[Len(ids[p]) + 1] = id
        /\ \A i \in 1 .. Len(ids[p]) : Append(ids[p], id)[i] = ids[p][i]
        /\ Len(ids[p]) \in Nat
    BY <2>1
  <2> QED
    BY <1>4, <1>5, <2>1, <2>2, <2>3 DEF S
<1>7. IdsInOrder'
  <2>1. ASSUME NEW q \in Run
        PROVE  /\ ids'[q] \in Seq(Nat \cup {Deferred})
               /\ phase'[q] = "down" => ids'[q] = <<>>
               /\ phase'[q] = "resolving" => Len(ids'[q]) + 1 = at'[q]
               /\ phase'[q] = "executing" => Len(ids'[q]) = Len(file'[q])
    <3>1. CASE q # p
      BY <1>1, <1>2, <3>1 DEF Untouched, IdsInOrder
    <3>2. CASE q = p
      <4>1. /\ at[p] = Len(file[p]) => phase'[p] = "executing"
            /\ at[p] # Len(file[p]) => phase'[p] = "resolving" /\ at'[p] = at[p] + 1
        BY <1>2 DEF Resolved, Types
      <4> QED
        BY <1>6, <3>2, <4>1
    <3> QED
      BY <3>1, <3>2
  <2> QED
    BY <2>1 DEF IdsInOrder
<1>8. \A q \in Run : found'[q] # None => Key(q)' # None
  BY <1>1, UntouchedRuns DEF ParentsInv, AnswersAreFresh
<1>9. AnswersAreFresh'
  <2> SUFFICES ASSUME Alone', NEW q \in Run, found'[q] # None
               PROVE  FALSE
    BY <1>8 DEF AnswersAreFresh
  <2>1. ~overlapped
    BY DEF Alone
  <2> QED
    BY <2>1, OthersAreDown
<1>10. IdsFit'
  <2> SUFFICES ASSUME Alone', NEW q \in Run, NEW i \in DOMAIN ids'[q]
               PROVE  Fits(bam', quiet', file'[q], file'[q][i], ids'[q][i])
    BY DEF IdsFit
  <2>1. Alone
    BY DEF Alone
  <2>2. q = p
    <3>1. q # p => ids'[q] = <<>>
      BY <1>1, <2>1, OthersAreDown DEF Alone, Untouched
    <3> QED
      BY <3>1
  <2>3. CASE i = at[p]
    <3>1. file[p][i] = Row(p) /\ file' = file /\ ids'[q][i] = id
      BY <1>6, <2>2, <2>3 DEF Row
    <3> QED
      BY <2>1, <2>2, <3>1
  <2>4. CASE i # at[p]
    <3>1. i \in DOMAIN ids[p] /\ ids'[p][i] = ids[p][i]
      BY <1>6, <2>2, <2>4
    <3>2. Fits(bam, quiet, file[p], file[p][i], ids[p][i])
      BY <2>1, <3>1 DEF ParentsInv, IdsFit
    <3>3. Fits(bam', quiet', file[p], file[p][i], ids[p][i])
      BY <3>2, FitsStays
    <3> QED
      BY <2>2, <3>1, <3>3
  <2> QED
    BY <2>3, <2>4
<1>11. NetworksHaveBlocks'
  BY DEF ParentsInv, NetworksHaveBlocks
<1>12. Overlap' => overlapped'
  BY <1>1 DEF ParentsInv, Overlap, Untouched
<1> QED
  BY <1>7, <1>9, <1>10, <1>11, <1>12 DEF ParentsInv

LEMMA InitParents == Init => ParentsInv
<1> SUFFICES ASSUME Init PROVE ParentsInv
  OBVIOUS
<1> USE DEF Init
<1>1. NetworksHaveBlocks
  BY BamAssumption DEF NetworksHaveBlocks
<1>2. changes \in Nat /\ overlapped \in BOOLEAN /\ ~Overlap
  BY DEF Overlap
<1>3. IdsInOrder
  BY DEF IdsInOrder
<1>4. AnswersAreFresh /\ IdsFit
  BY DEF AnswersAreFresh, IdsFit
<1> QED
  BY <1>1, <1>2, <1>3, <1>4 DEF ParentsInv

LEMMA BeginParents ==
  ASSUME NEW p \in Run, IInv, ParentsInv, Begin(p)
  PROVE  ParentsInv'
<1> USE DEF Begin, world
<1>1. Types /\ RunsInOrder /\ IdsInOrder /\ NetworksHaveBlocks
  BY DEF IInv, ParentsInv
<1>2. phase' = [phase EXCEPT ![p] = "resolving"] /\ \A q \in Run \ {p} : phase'[q] = phase[q] /\ file'[q] = file[q]
  BY <1>1 DEF Types
<1>3. NetworksHaveBlocks'
  BY <1>1 DEF NetworksHaveBlocks
<1>4. overlapped' \in BOOLEAN /\ (Overlap' => overlapped')
  BY <1>2 DEF ParentsInv, Overlap
<1>5. IdsInOrder'
  <2>1. ids[p] = <<>> /\ at[p] = 1 /\ phase'[p] = "resolving"
    BY <1>1 DEF IdsInOrder, RunsInOrder, RunInOrder, Types
  <2> QED
    BY <1>1, <1>2, <2>1 DEF IdsInOrder
<1>6. ASSUME ~overlapped', NEW q \in Run
      PROVE  ids[q] = <<>> /\ found[q] = None
  <2>1. phase[q] = "down"
    BY <1>6
  <2> QED
    BY <1>1, <2>1 DEF IdsInOrder, RunsInOrder, RunInOrder
<1>7. ASSUME NEW q \in Run, found'[q] # None PROVE Key(q)' # None
  <2>1. q # p /\ phase[q] = "resolving"
    BY <1>1, <1>7 DEF RunsInOrder, RunInOrder
  <2> QED
    BY <1>2, <1>7, <2>1 DEF ParentsInv, AnswersAreFresh, Key, Row
<1>8. AnswersAreFresh' /\ IdsFit'
  BY <1>6, <1>7 DEF AnswersAreFresh, IdsFit, Alone
<1> QED
  BY <1>3, <1>4, <1>5, <1>8 DEF ParentsInv

LEMMA QueryParents ==
  ASSUME NEW p \in Run, IInv, ParentsInv, Query(p)
  PROVE  ParentsInv'
<1> USE DEF Query, world
<1>1. NetworksHaveBlocks' /\ (Overlap' => overlapped') /\ IdsInOrder' /\ IdsFit'
  BY DEF ParentsInv, NetworksHaveBlocks, Overlap, IdsInOrder, IdsFit, Alone, counts
<1>2. AnswersAreFresh'
  <2> SUFFICES ASSUME Alone', NEW q \in Run, found'[q] # None
               PROVE  found'[q] = QueryBam(Key(q))'
    <3>1. \A r \in Run : found'[r] # None => Key(r)' # None
      BY DEF ParentsInv, AnswersAreFresh, Key, Row, IInv, Types
    <3> QED
      BY <3>1 DEF AnswersAreFresh
  <2>1. ~overlapped /\ phase[p] # "down"
    BY DEF Alone, Resolving, counts
  <2>2. found' = [found EXCEPT ![p] = QueryBam(Key(p))] /\ found \in [Run -> Nat \cup {None}]
    BY DEF IInv, Types
  <2>3. q = p
    BY <2>1, <2>2, OthersAreDown
  <2>4. QueryBam(Key(p))' = QueryBam(Key(p))
    BY DEF QueryBam, Key, Row
  <2> QED
    BY <2>2, <2>3, <2>4
<1> QED
  BY <1>1, <1>2 DEF ParentsInv, counts

LEMMA ResolveWithoutPathParents ==
  ASSUME NEW p \in Run, IInv, ParentsInv, ResolveWithoutPath(p)
  PROVE  ParentsInv'
<1> USE DEF ResolveWithoutPath, Resolving, world
<1> DEFINE id == IF Parents(Row(p)) THEN Deferred ELSE Discover(file[p], Row(p))
<1>1. Types /\ file[p] \in Files /\ at[p] \in DOMAIN file[p]
  BY DEF IInv, RunsInOrder, RunInOrder
<1>2. id \in Nat \cup {Deferred}
  BY <1>1, DiscoverType DEF Row
<1>3. Fits(bam, quiet, file[p], Row(p), id)
  <2>1. CASE Parents(Row(p))
    BY <2>1 DEF Fits
  <2>2. CASE ~Parents(Row(p))
    BY <1>1, <2>2, DiscoverFits DEF Row
  <2> QED
    BY <2>1, <2>2
<1>4. Fits(bam', quiet', file[p], Row(p), id)
  BY <1>3
<1>5. Resolved(p, id)
  OBVIOUS
<1> HIDE DEF id
<1> QED
  BY <1>2, <1>4, <1>5, ResolvedParents DEF counts

LEMMA CacheHitParents ==
  ASSUME NEW p \in Run, IInv, ParentsInv, CacheHit(p)
  PROVE  ParentsInv'
<1> USE DEF CacheHit, Resolving, world
<1>1. Types /\ KeysFit /\ file[p] \in Files /\ at[p] \in DOMAIN file[p]
  BY DEF IInv, RunsInOrder, RunInOrder
<1>2. PICK e \in cache : e.key = Key(p) /\ Resolved(p, e.id)
  OBVIOUS
<1>3. e.id \in Nat /\ e.id # 0
  BY <1>1 DEF Types
<1>4. ASSUME Alone PROVE Fits(bam', quiet', file[p], Row(p), e.id)
  <2>1. Explained(e)
    <3>1. ASSUME NEW q \in Run PROVE done[q] = <<>>
      <4>1. phase[q] \in {"down", "resolving"}
        BY <1>4, OthersAreDown DEF Alone
      <4> QED
        BY <4>1 DEF IInv, RunsInOrder, RunInOrder
    <3> QED
      BY <3>1, NothingToInvalidate DEF IInv, EntriesAreAccountedFor
  <2>2. Quiet(Key(p), e.id) \/ \E t \in Thing : e.id = bam[t] /\ LeadsTo(Key(p), t)
    BY <1>1, <1>2, <2>1 DEF Explained, Live, KeysFit
  <2>3. Fits(bam, quiet, file[p], Row(p), e.id)
    BY <1>1, <1>3, <2>2, FoundFits DEF Key, Row
  <2> QED
    BY <2>3
<1> QED
  BY <1>2, <1>3, <1>4, ResolvedParents DEF counts

LEMMA StoreParents ==
  ASSUME NEW p \in Run, IInv, ParentsInv, Store(p)
  PROVE  ParentsInv'
<1> USE DEF Store
<1>1. Types /\ file[p] \in Files /\ at[p] \in DOMAIN file[p] /\ NetworksHaveBlocks
  BY DEF IInv, RunsInOrder, RunInOrder, ParentsInv
<1>2. found'[p] = None /\ \A q \in Run \ {p} : found'[q] = found[q]
  BY <1>1 DEF Types
<1>3. quiet \subseteq quiet' /\ UNCHANGED <<bam, file, done, changes, overlapped>>
  BY DEF counts
<1>4. ASSUME NEW id \in Nat \cup {Deferred}, Resolved(p, id),
             Alone => Fits(bam, quiet, file[p], Row(p), id)
      PROVE  ParentsInv'
  <2>1. Alone => Fits(bam', quiet', file[p], Row(p), id)
    BY <1>3, <1>4, FitsStays
  <2> HIDE DEF Store
  <2>2. phase[p] = "resolving"
    BY DEF Store
  <2> QED
    BY <1>2, <1>3, <1>4, <2>1, <2>2, ResolvedParents
<1>5. ASSUME Alone PROVE found[p] = QueryBam(Key(p))
  BY <1>5 DEF ParentsInv, AnswersAreFresh
<1>6. CASE found[p] # 0
  <2>1. found[p] \in Nat /\ Resolved(p, found[p])
    BY <1>1, <1>6 DEF Types
  <2>2. ASSUME Alone PROVE Fits(bam, quiet, file[p], Row(p), found[p])
    <3>1. QueryBam(Key(p)) # 0
      BY <1>5, <1>6, <2>2
    <3>2. CASE Key(p) # None
      <4>1. \E t \in Thing : found[p] = bam[t] /\ LeadsTo(Key(p), t)
        BY <1>5, <2>2, <3>1, KeyOfAnswer
      <4> QED
        BY <1>1, <1>6, <3>2, <4>1, FoundFits DEF Key, Row
    <3>3. Key(p) # None
      BY DEF ParentsInv, AnswersAreFresh
    <3> QED
      BY <3>2, <3>3
  <2> QED
    BY <1>4, <2>1, <2>2
<1>7. CASE found[p] = 0 /\ Row(p).type = "ip4_address"
  <2> DEFINE id == Discover(file[p], Row(p))
  <2>1. id \in Nat \cup {Deferred}
    BY <1>1, DiscoverType DEF Row
  <2>2. Resolved(p, id)
    BY <1>7
  <2>3. Fits(bam, quiet, file[p], Row(p), id)
    BY <1>1, DiscoverFits DEF Row
  <2> HIDE DEF id, Store
  <2> QED
    BY <1>4, <2>1, <2>2, <2>3
<1>8. CASE found[p] = 0 /\ Row(p).type # "ip4_address"
  <2>1. Resolved(p, 0)
    BY <1>8
  <2>2. ASSUME Alone PROVE Fits(bam, quiet, file[p], Row(p), 0)
    <3>1. QueryBam(Asks(file[p], file[p][at[p]])) = 0
      BY <1>5, <1>8, <2>2 DEF Key, Row
    <3>2. Key(p) # None
      BY DEF ParentsInv, AnswersAreFresh
    <3> QED
      BY <1>1, <1>8, <3>1, <3>2, FoundFits DEF Key, Row
  <2> HIDE DEF Store
  <2> QED
    BY <1>4, <2>1, <2>2
<1> QED
  BY <1>6, <1>7, <1>8

\* A run that goes on with the ids that it has
LEMMA IdsStay ==
  ASSUME NEW p \in Run, IInv, ParentsInv, phase[p] \in {"executing", "invalidating"},
         phase'[p] \in {"executing", "invalidating"},
         phase'[p] = "executing" => phase[p] = "executing",
         \A q \in Run \ {p} : phase'[q] = phase[q] /\ at'[q] = at[q],
         UNCHANGED <<file, ids, found, changes, overlapped>>,
         NetworksHaveBlocks',
         Alone => \A i \in DOMAIN ids[p] : Fits(bam', quiet', file[p], file[p][i], ids[p][i])
  PROVE  ParentsInv'
<1>1. IdsInOrder'
  <2>1. ASSUME NEW q \in Run
        PROVE  /\ ids'[q] \in Seq(Nat \cup {Deferred})
               /\ phase'[q] = "down" => ids'[q] = <<>>
               /\ phase'[q] = "resolving" => Len(ids'[q]) + 1 = at'[q]
               /\ phase'[q] = "executing" => Len(ids'[q]) = Len(file'[q])
    <3>1. CASE q = p
      BY <3>1 DEF ParentsInv, IdsInOrder
    <3>2. CASE q # p
      BY <3>2 DEF ParentsInv, IdsInOrder
    <3> QED
      BY <3>1, <3>2
  <2> QED
    BY <2>1 DEF IdsInOrder
<1>2. Overlap' => overlapped'
  BY DEF ParentsInv, Overlap
<1>3. ASSUME NEW q \in Run, found[q] # None
      PROVE  q # p /\ Key(q)' = Key(q)
  <2>1. phase[q] = "resolving"
    BY <1>3 DEF IInv, RunsInOrder, RunInOrder
  <2> QED
    BY <2>1 DEF Key, Row
<1>4. AnswersAreFresh'
  <2>1. \A q \in Run : found'[q] # None => Key(q)' # None
    BY <1>3 DEF ParentsInv, AnswersAreFresh
  <2>2. ASSUME Alone', NEW q \in Run, found'[q] # None PROVE FALSE
    BY <1>3, <2>2, OthersAreDown DEF Alone
  <2> QED
    BY <2>1, <2>2 DEF AnswersAreFresh
<1>5. IdsFit'
  <2> SUFFICES ASSUME Alone', NEW q \in Run, NEW i \in DOMAIN ids[q]
               PROVE  Fits(bam', quiet', file[q], file[q][i], ids[q][i])
    BY DEF IdsFit
  <2>1. Alone
    BY DEF Alone
  <2>2. q = p
    <3>1. q # p => ids[q] = <<>>
      BY <2>1, OthersAreDown DEF Alone
    <3> QED
      BY <3>1
  <2> QED
    BY <2>1, <2>2
<1> QED
  BY <1>1, <1>2, <1>4, <1>5 DEF ParentsInv

LEMMA CreateThingParents ==
  ASSUME NEW p \in Run, NEW i \in DOMAIN file[p], IInv, ParentsInv, CreateThing(p, i)
  PROVE  ParentsInv'
<1> DEFINE cidr == file[p][i].cidr
<1>1. Types /\ NetworksHaveBlocks /\ RunInOrder(p)
  BY DEF IInv, ParentsInv, RunsInOrder
<1>2. /\ phase[p] = "executing" /\ file[p][i].action = "create"
      /\ UNCHANGED <<phase, at, file, ids, found, changes, overlapped, quiet>>
      /\ \/ /\ ParentIsThere(p, i) /\ cidr \in Thing /\ bam[cidr] = 0
            /\ bam' = [bam EXCEPT ![cidr] = newest + 1]
         \/ bam' = bam
  BY DEF CreateThing, Ready, counts
<1>3. file[p] \in Files /\ (cidr \in Thing => cidr \in Pending(file[p]))
  BY <1>1, <1>2 DEF RunInOrder, Pending
<1>4. CASE bam' = bam
  <2>1. NetworksHaveBlocks'
    BY <1>1, <1>4 DEF NetworksHaveBlocks
  <2>2. Alone => \A j \in DOMAIN ids[p] : Fits(bam', quiet', file[p], file[p][j], ids[p][j])
    BY <1>2, <1>4 DEF ParentsInv, IdsFit
  <2> QED
    BY <1>2, <2>1, <2>2, IdsStay
<1>5. CASE /\ ParentIsThere(p, i) /\ cidr \in Thing /\ bam[cidr] = 0
           /\ bam' = [bam EXCEPT ![cidr] = newest + 1]
  <2>1. file[p][i].within = BlockOf[cidr]
    BY <1>2, <1>3, <1>5, RowsAreWithin
  <2>2. BlockOf[cidr] # None => bam[BlockOf[cidr]] # 0
    BY <1>5, <2>1 DEF ParentIsThere
  <2>3. NetworksHaveBlocks'
    <3> HIDE DEF cidr
    <3> QED
      BY <1>1, <1>5, <2>2, BlocksAreKept
  <2>4. ASSUME Alone, NEW j \in DOMAIN ids[p]
        PROVE  Fits(bam', quiet', file[p], file[p][j], ids[p][j])
    <3> DEFINE row == file[p][j]
    <3>1. Fits(bam, quiet, file[p], row, ids[p][j])
      BY <2>4 DEF ParentsInv, IdsFit
    <3>2. \A u \in Thing : u # cidr => bam'[u] = bam[u]
      BY <1>1, <1>5 DEF Types
    <3>3. row.within \in Thing \cup {None}
      <4>1. DOMAIN ids[p] = DOMAIN file[p]
        BY <1>2, <1>3, RowsOfFiles DEF ParentsInv, IdsInOrder
      <4> QED
        BY <1>3, <2>4, <4>1, RowsAreWithin
    <3>4. CASE row.within = None
      BY <3>4 DEF Fits
    <3>5. CASE row.within = cidr
      <4>1. bam[row.within] = 0 /\ row.within \in Pending(file[p])
        BY <1>3, <1>5, <3>5
      <4> QED
        BY <1>2, <3>1, <4>1 DEF Fits
    <3>6. CASE row.within \in Thing /\ row.within # cidr
      <4>1. bam'[row.within] = bam[row.within]
        BY <3>2, <3>6
      <4> QED
        BY <1>2, <3>1, <4>1, FitsStays
    <3> QED
      BY <3>3, <3>4, <3>5, <3>6
  <2> QED
    BY <1>2, <2>3, <2>4, IdsStay
<1> QED
  BY <1>2, <1>4, <1>5

LEMMA DeleteThingParents ==
  ASSUME NEW p \in Run, NEW i \in DOMAIN file[p], IInv, ParentsInv, DeleteThing(p, i)
  PROVE  ParentsInv'
<1> DEFINE t == file[p][i].cidr
<1>1. Types /\ NetworksHaveBlocks /\ RunInOrder(p)
  BY DEF IInv, ParentsInv, RunsInOrder
<1>2. /\ phase[p] = "executing" /\ file[p][i].action = "delete"
      /\ UNCHANGED <<phase, at, file, ids, found, changes, overlapped>> /\ quiet \subseteq quiet'
      /\ \/ bam' = [u \in Thing |-> IF u \in Gone(t) THEN 0 ELSE bam[u]]
         \/ bam' = bam
  BY DEF DeleteThing, Ready, counts
<1>3. file[p] \in Files /\ t \in Thing
  BY <1>1, <1>2, RowsOfFiles DEF RunInOrder
<1>4. CASE bam' = bam
  <2>1. NetworksHaveBlocks'
    BY <1>1, <1>4 DEF NetworksHaveBlocks
  <2>2. Alone => \A j \in DOMAIN ids[p] : Fits(bam', quiet', file[p], file[p][j], ids[p][j])
    BY <1>2, <1>4, FitsStays DEF ParentsInv, IdsFit
  <2> QED
    BY <1>2, <2>1, <2>2, IdsStay
<1>5. CASE bam' = [u \in Thing |-> IF u \in Gone(t) THEN 0 ELSE bam[u]]
  <2>1. NetworksHaveBlocks'
    <3> HIDE DEF t
    <3> QED
      BY <1>1, <1>3, <1>5, BlocksAreKept
  <2>2. ASSUME Alone, NEW j \in DOMAIN ids[p]
        PROVE  Fits(bam', quiet', file[p], file[p][j], ids[p][j])
    <3> DEFINE row == file[p][j]
               w == row.within
    <3>1. Fits(bam, quiet, file[p], row, ids[p][j])
      BY <2>2 DEF ParentsInv, IdsFit
    <3>2. w \in Thing \cup {None}
      <4>1. DOMAIN ids[p] = DOMAIN file[p]
        BY <1>2, <1>3, RowsOfFiles DEF ParentsInv, IdsInOrder
      <4> QED
        BY <1>3, <2>2, <4>1, RowsAreWithin
    <3>3. CASE w \in Thing \ Gone(t)
      <4>1. bam'[w] = bam[w]
        BY <1>5, <3>3
      <4> QED
        BY <1>2, <3>1, <4>1, FitsStays
    <3>4. CASE w \in Thing /\ w \in Gone(t)
      <4>1. bam'[w] = 0
        BY <1>5, <3>4
      <4>2. Parents(row) /\ row.type = "ip4_address" /\ w \in Pending(file[p]) => AskedTooEarly(file[p], row)
        BY <1>2, <3>4 DEF AskedTooEarly
      <4> QED
        BY <1>2, <3>1, <4>1, <4>2, FitsDeleted
    <3>5. CASE w = None
      BY <3>5 DEF Fits
    <3> QED
      BY <3>2, <3>3, <3>4, <3>5
  <2> QED
    BY <1>2, <2>1, <2>2, IdsStay
<1> QED
  BY <1>2, <1>4, <1>5

LEMMA DownParents ==
  ASSUME NEW p \in Run, IInv, ParentsInv, Down(p), found'[p] = None,
         \A q \in Run \ {p} : found'[q] = found[q],
         UNCHANGED <<bam, changes, overlapped>>, quiet \subseteq quiet'
  PROVE  ParentsInv'
<1>1. \A q \in Run \ {p} : Untouched(q)
  BY DownRun
<1>2. ids'[p] = <<>> /\ phase'[p] = "down"
  <2>1. ids' = [ids EXCEPT ![p] = <<>>] /\ ids = [q \in Run |-> ids[q]]
    BY DEF Down, IInv, Types
  <2>2. phase'[p] = "down"
    BY DEF Down, IInv, Types
  <2> QED
    BY <2>1, <2>2
<1>3. IdsInOrder'
  <2>1. ASSUME NEW q \in Run
        PROVE  /\ ids'[q] \in Seq(Nat \cup {Deferred})
               /\ phase'[q] = "down" => ids'[q] = <<>>
               /\ phase'[q] = "resolving" => Len(ids'[q]) + 1 = at'[q]
               /\ phase'[q] = "executing" => Len(ids'[q]) = Len(file'[q])
    <3>1. CASE q = p
      <4>1. <<>> \in Seq(Nat \cup {Deferred})
        OBVIOUS
      <4> QED
        BY <1>2, <3>1, <4>1
    <3>2. CASE q # p
      BY <1>1, <3>2 DEF ParentsInv, IdsInOrder, Untouched
    <3> QED
      BY <3>1, <3>2
  <2> QED
    BY <2>1 DEF IdsInOrder
<1>4. Overlap' => overlapped'
  BY <1>1, <1>2 DEF ParentsInv, Overlap, Untouched
<1>5. NetworksHaveBlocks'
  BY DEF ParentsInv, NetworksHaveBlocks
<1>6. ASSUME NEW q \in Run, found'[q] # None
      PROVE  q # p /\ found'[q] = found[q] /\ Key(q)' = Key(q)
  BY <1>1, <1>6, UntouchedRuns
<1>7. AnswersAreFresh'
  <2>1. \A q \in Run : found'[q] # None => Key(q)' # None
    BY <1>6 DEF ParentsInv, AnswersAreFresh
  <2>2. ASSUME Alone', NEW q \in Run, found'[q] # None PROVE found'[q] = QueryBam(Key(q))'
    <3>1. QueryBam(Key(q))' = QueryBam(Key(q))
      BY <1>6, <2>2, SameAnswer
    <3> QED
      BY <1>6, <2>2, <3>1 DEF ParentsInv, AnswersAreFresh, Alone
  <2> QED
    BY <2>1, <2>2 DEF AnswersAreFresh
<1>8. IdsFit'
  <2> SUFFICES ASSUME Alone', NEW q \in Run, NEW i \in DOMAIN ids'[q]
               PROVE  Fits(bam', quiet', file'[q], file'[q][i], ids'[q][i])
    BY DEF IdsFit
  <2>1. q # p /\ file'[q] = file[q] /\ ids'[q] = ids[q]
    BY <1>1, <1>2 DEF Untouched
  <2>2. Fits(bam, quiet, file[q], file[q][i], ids[q][i])
    BY <2>1 DEF ParentsInv, IdsFit, Alone
  <2> QED
    BY <2>1, <2>2, FitsStays
<1> QED
  BY <1>3, <1>4, <1>5, <1>7, <1>8 DEF ParentsInv

LEMMA NextParents == IInv /\ ParentsInv /\ [Next]_vars => ParentsInv'
<1> SUFFICES ASSUME IInv, ParentsInv, [Next]_vars PROVE ParentsInv'
  OBVIOUS
<1>1. ASSUME NEW p \in Run, Begin(p) PROVE ParentsInv'
  BY <1>1, BeginParents
<1>2. ASSUME NEW p \in Run, ResolveWithoutPath(p) PROVE ParentsInv'
  BY <1>2, ResolveWithoutPathParents
<1>3. ASSUME NEW p \in Run, CacheHit(p) PROVE ParentsInv'
  BY <1>3, CacheHitParents
<1>4. ASSUME NEW p \in Run, Query(p) PROVE ParentsInv'
  BY <1>4, QueryParents
<1>5. ASSUME NEW p \in Run, Store(p) PROVE ParentsInv'
  BY <1>5, StoreParents
<1>6. ASSUME NEW p \in Run, NEW i \in DOMAIN file[p], CreateThing(p, i) PROVE ParentsInv'
  BY <1>6, CreateThingParents
<1>7. ASSUME NEW p \in Run, NEW i \in DOMAIN file[p], DeleteThing(p, i) PROVE ParentsInv'
  BY <1>7, DeleteThingParents
<1>8. ASSUME NEW p \in Run, Finish(p) PROVE ParentsInv'
  <2>1. NetworksHaveBlocks'
    BY <1>8 DEF Finish, world, ParentsInv, NetworksHaveBlocks
  <2>2. phase'[p] = "invalidating" /\ phase[p] = "executing" /\ \A q \in Run \ {p} : phase'[q] = phase[q]
    BY <1>8 DEF Finish, IInv, Types
  <2>3. Alone => \A i \in DOMAIN ids[p] : Fits(bam', quiet', file[p], file[p][i], ids[p][i])
    BY <1>8 DEF Finish, world, ParentsInv, IdsFit
  <2> QED
    BY <1>8, <2>1, <2>2, <2>3, IdsStay DEF Finish, counts
<1>9. ASSUME NEW p \in Run, InvalidateNext(p) PROVE ParentsInv'
  <2>1. phase[p] = "invalidating" /\ found[p] = None
    BY <1>9 DEF InvalidateNext, IInv, RunsInOrder, RunInOrder
  <2>2. UNCHANGED <<bam, quiet, changes, overlapped, found>>
    BY <1>9 DEF InvalidateNext, world, counts
  <2>3. CASE Down(p)
    BY <2>1, <2>2, <2>3, DownParents
  <2>4. CASE at' = [at EXCEPT ![p] = @ + 1] /\ UNCHANGED <<phase, file, ids, done>>
    <3>1. NetworksHaveBlocks'
      BY <2>2 DEF ParentsInv, NetworksHaveBlocks
    <3>2. \A q \in Run \ {p} : phase'[q] = phase[q] /\ at'[q] = at[q]
      BY <2>4 DEF IInv, Types
    <3>3. Alone => \A i \in DOMAIN ids[p] : Fits(bam', quiet', file[p], file[p][i], ids[p][i])
      BY <2>2 DEF ParentsInv, IdsFit
    <3> QED
      BY <2>1, <2>2, <2>4, <3>1, <3>2, <3>3, IdsStay
  <2> QED
    BY <1>9, <2>3, <2>4 DEF InvalidateNext
<1>10. ASSUME NEW p \in Run, Stop(p) PROVE ParentsInv'
  <2>1. found'[p] = None /\ \A q \in Run \ {p} : found'[q] = found[q]
    BY <1>10 DEF Stop, IInv, Types
  <2> QED
    BY <1>10, <2>1, DownParents DEF Stop
<1>11. ASSUME ChangeBam PROVE ParentsInv'
  <2>1. /\ changes' \in Nat /\ changes' # 0
        /\ UNCHANGED <<overlapped, phase, file, at, found, ids>>
    BY <1>11 DEF ChangeBam, ParentsInv
  <2>2. NetworksHaveBlocks'
    BY <1>11, BlocksAreKept DEF ChangeBam, ParentsInv, IInv
  <2>3. IdsInOrder' /\ (Overlap' => overlapped')
    BY <2>1 DEF ParentsInv, IdsInOrder, Overlap
  <2>4. AnswersAreFresh' /\ IdsFit'
    BY <2>1 DEF ParentsInv, AnswersAreFresh, IdsFit, Alone, Key, Row
  <2> QED
    BY <2>1, <2>2, <2>3, <2>4 DEF ParentsInv
<1>12. ASSUME UNCHANGED vars PROVE ParentsInv'
  <2> USE <1>12 DEF vars
  <2>1. NetworksHaveBlocks' /\ IdsInOrder' /\ (Overlap' => overlapped')
    BY DEF ParentsInv, NetworksHaveBlocks, IdsInOrder, Overlap
  <2>2. AnswersAreFresh' /\ IdsFit'
    BY DEF ParentsInv, AnswersAreFresh, IdsFit, Alone, Key, Row, QueryBam
  <2> QED
    BY <2>1, <2>2 DEF ParentsInv
<1> QED
  BY <1>1, <1>2, <1>3, <1>4, <1>5, <1>6, <1>7, <1>8, <1>9, <1>10, <1>11, <1>12 DEF Next

\* The invariant of the ids holds in every state.
THEOREM ParentsInvariant == Spec => []ParentsInv
BY InitParents, NextParents, ResolverInvariant, PTL DEF Spec

\* Only an operation ends a row.
LEMMA NothingEnds ==
  ASSUME \A p \in Run : done'[p] = done[p] \/ done'[p] = <<>>
  PROVE  ParentsAreFound
<1>1. \A p \in Run : Ended(p)' \subseteq Ended(p)
  BY DEF Ended
<1> QED
  BY <1>1 DEF ParentsAreFound

LEMMA OneRowEnds ==
  ASSUME NEW p \in Run, NEW i \in Nat, NEW r \in BOOLEAN, NEW id \in Nat, IInv, Result(p, i, r, id)
  PROVE  /\ \A q \in Run \ {p} : Ended(q)' = Ended(q)
         /\ Ended(p)' \ Ended(p) \subseteq {i}
         /\ done'[p][Len(done'[p])].ok = r
<1> DEFINE result == [row |-> i, ok |-> r, was |-> id]
<1>1. done \in [Run -> Seq(DoneRow)]
  BY DEF IInv, Types
<1>2. result \in DoneRow /\ result.row = i /\ result.ok = r
  BY DEF DoneRow
<1>3. done'[p] = Append(done[p], result) /\ \A q \in Run \ {p} : done'[q] = done[q]
  BY <1>1 DEF Result
<1>4. /\ DOMAIN done'[p] = DOMAIN done[p] \cup {Len(done[p]) + 1}
      /\ Len(done'[p]) = Len(done[p]) + 1
      /\ \A k \in DOMAIN done[p] : done'[p][k] = done[p][k]
      /\ done'[p][Len(done[p]) + 1] = result
  <2> HIDE DEF result
  <2> QED
    BY <1>1, <1>2, <1>3
<1> HIDE DEF result
<1> QED
  BY <1>2, <1>3, <1>4 DEF Ended

LEMMA CreateEnds ==
  ASSUME NEW p \in Run, NEW i \in DOMAIN file[p], IInv, ParentsInv, CreateThing(p, i)
  PROVE  ParentsAreFound
<1> DEFINE row == file[p][i]
<1>1. phase[p] = "executing" /\ Result(p, i, ParentIsThere(p, i), 0)
  BY DEF CreateThing, Ready
<1>2. file[p] \in Files /\ Len(ids[p]) = Len(file[p]) /\ ids[p] \in Seq(Nat \cup {Deferred})
  BY <1>1 DEF IInv, RunsInOrder, RunInOrder, ParentsInv, IdsInOrder
<1>3. i \in Nat /\ i \in DOMAIN ids[p] /\ ParentIsThere(p, i) \in BOOLEAN
  BY <1>2, RowsOfFiles DEF ParentIsThere
<1>4. /\ \A q \in Run \ {p} : Ended(q)' = Ended(q)
      /\ Ended(p)' \ Ended(p) \subseteq {i}
      /\ done'[p][Len(done'[p])].ok = ParentIsThere(p, i)
  BY <1>1, <1>3, OneRowEnds
<1>5. ASSUME Alone, ~ParentIsThere(p, i), ~Quiet(Asks(file[p], row), ids[p][i]),
             ~AskedTooEarly(file[p], row), ~Misread(file[p], row)
      PROVE  row.within # None /\ bam[row.within] = 0
  <2>1. Fits(bam, quiet, file[p], row, ids[p][i])
    BY <1>3, <1>5 DEF ParentsInv, IdsFit
  <2>2. row.within # None /\ ~(bam[row.within] # 0 /\ ids[p][i] \in {Deferred, bam[row.within]})
    BY <1>5 DEF ParentIsThere
  <2> QED
    BY <1>5, <2>1, <2>2 DEF Fits, Quiet
<1> QED
  BY <1>4, <1>5 DEF ParentsAreFound, Alone

LEMMA DeleteEnds ==
  ASSUME NEW p \in Run, NEW i \in DOMAIN file[p], IInv, DeleteThing(p, i)
  PROVE  ParentsAreFound
<1> DEFINE t == file[p][i].cidr
<1>1. /\ phase[p] = "executing" /\ file[p][i].action = "delete"
      /\ Result(p, i, bam[t] # 0, bam[t])
  BY DEF DeleteThing, Ready
<1>2. file[p] \in Files
  BY <1>1 DEF IInv, RunsInOrder, RunInOrder
<1>3. i \in Nat /\ bam[t] \in Nat /\ (bam[t] # 0) \in BOOLEAN
  BY <1>1, <1>2, RowsOfFiles DEF IInv, Types
<1>4. /\ \A q \in Run \ {p} : Ended(q)' = Ended(q)
      /\ Ended(p)' \ Ended(p) \subseteq {i}
  <2> HIDE DEF t
  <2> QED
    BY <1>1, <1>3, OneRowEnds
<1> QED
  BY <1>1, <1>4 DEF ParentsAreFound

LEMMA NextFindsParents == IInv /\ ParentsInv /\ [Next]_vars => [ParentsAreFound]_vars
<1> SUFFICES ASSUME IInv, ParentsInv, Next PROVE ParentsAreFound
  OBVIOUS
<1>1. ASSUME NEW p \in Run,
             Begin(p) \/ ResolveWithoutPath(p) \/ CacheHit(p) \/ Query(p) \/ Store(p) \/ Finish(p)
      PROVE  ParentsAreFound
  <2>1. done' = done
    BY <1>1 DEF Begin, ResolveWithoutPath, CacheHit, Query, Store, Finish
  <2> QED
    BY <2>1, NothingEnds
<1>2. ASSUME NEW p \in Run, NEW i \in DOMAIN file[p], CreateThing(p, i) PROVE ParentsAreFound
  BY <1>2, CreateEnds
<1>3. ASSUME NEW p \in Run, NEW i \in DOMAIN file[p], DeleteThing(p, i) PROVE ParentsAreFound
  BY <1>3, DeleteEnds
<1>4. ASSUME NEW p \in Run, InvalidateNext(p) \/ Stop(p) PROVE ParentsAreFound
  <2>1. done' = done \/ done' = [done EXCEPT ![p] = <<>>]
    BY <1>4 DEF InvalidateNext, Stop, Down
  <2> QED
    BY <2>1, NothingEnds DEF IInv, Types
<1>5. ASSUME ChangeBam PROVE ParentsAreFound
  BY <1>5, NothingEnds DEF ChangeBam
<1> QED
  BY <1>1, <1>2, <1>3, <1>4, <1>5 DEF Next

\* While runs do not overlap and nobody else changes BAM, a row under a parent
\* that is there fails for the reasons that RowsFindTheirParents names only:
\* the cache, however many runs filled it and wherever they were stopped, adds
\* no other.
THEOREM ParentsAreThere == Spec => RowsFindTheirParents
BY ResolverInvariant, ParentsInvariant, NextFindsParents, PTL DEF Spec, RowsFindTheirParents
=============================================================================
