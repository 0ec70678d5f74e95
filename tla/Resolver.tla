------------------------------- MODULE Resolver -------------------------------
(***************************************************************************)
(* The resolver's cache of ids by path: a table on disk that all runs of   *)
(* the importer share, those at the same time and those of the next hour.  *)
(* A run resolves the parents of its rows through it, row after row,       *)
(* carries out its operations, and then looks at the results and           *)
(* invalidates what they changed.                                          *)
(*                                                                         *)
(* Modelled are the IPv4 and IPv6 blocks, their networks, and the          *)
(* addresses and ranges in them, the rows that resolve a path.  A path     *)
(* has slashes in front and names: a configuration, a block, a network,    *)
(* None for what names none of them.  The cache tells paths apart by all   *)
(* of that, BAM is asked for the names alone.  The pending creates of the  *)
(* resolver are always empty: nothing registers one, so resolve() takes    *)
(* the lock of its path for nothing.  An entry lives for an hour, longer   *)
(* than the behaviours here.  BAM is external: an id for each resource,    *)
(* which is never used again.                                              *)
(***************************************************************************)
EXTENDS Naturals, Sequences, FiniteSets

CONSTANTS
    Run,        \* processes of the importer
    Config,     \* the configuration of all paths
    Thing,      \* blocks and networks, by CIDR
    BlockOf,    \* the block of each network, None for a block
    IPv6,       \* the things of IPv6
    Files,      \* the files that may be imported, sequences of rows
    Bams,       \* what may be there at first: ids from 1 on by thing
    MaxSessions, MaxStops, MaxChanges,  \* events (bound the model)
    Deferred,   \* an id that the executor finds out
    None

ASSUME ThingAssumption ==
    /\ IsFiniteSet(Thing) /\ None \notin Thing
    /\ BlockOf \in [Thing -> Thing \cup {None}]
    /\ Deferred # None /\ None \notin Nat /\ Config \notin Thing \cup {None}
    /\ \A t \in Thing : BlockOf[t] # None => BlockOf[BlockOf[t]] = None

\* No two things in BAM have the same id, and no network is without its block.
ASSUME BamAssumption ==
    \A b \in Bams :
        /\ b \in [Thing -> 0 .. Cardinality({t \in Thing : b[t] # 0})]
        /\ \A t, u \in Thing : b[t] # 0 /\ b[t] = b[u] => t = u
        /\ \A t \in Thing : b[t] # 0 /\ BlockOf[t] # None => b[BlockOf[t]] # 0

VARIABLES
    bam,       \* external: the id of each thing, 0 when it is not there
    newest,    \* external: the highest id that BAM gave
    cache,     \* entries [key, id]; the keys have a type and a path
    phase,     \* of each run: down, resolving, executing, invalidating
    file,      \* its rows
    at,        \* the row it resolves or invalidates
    found,     \* the answer of BAM that it waits to store, None for none
    ids,       \* the parents of its rows: an id, Deferred, 0 for none
    done,      \* its results: the rows with "ok" or "failed"
    sessions, stops, changes,
    overlapped, \* ghost: two runs were under way at the same time
    quiet       \* ghost: the ids that were deleted, each with the one key under
                \* which its deletion is noticed, None for none

vars == <<bam, newest, cache, phase, file, at, found, ids, done,
          sessions, stops, changes, overlapped, quiet>>
world == <<bam, newest, quiet>>
counts == <<sessions, stops, changes, overlapped>>

-----------------------------------------------------------------------------
Last(path) == path[Len(path)]

\* resource_type_map of _cache_key(): object types and resolver types to one name
KindName == [block |-> "Block", ip4_block |-> "Block", network |-> "Network",
             ip4_network |-> "Network", ip6_network |-> "IPv6Network",
             ip6_block |-> "IPv6Block", ip4_address |-> "ip4_address",
             ipv4_dhcp_range |-> "ipv4_dhcp_range", ipv6_dhcp_range |-> "ipv6_dhcp_range"]

CacheKey(path, type) == [kind |-> KindName[type], path |-> path]

Parents(row) == row.parent # None

\* PendingResources: the blocks and networks that the file itself creates
Pending(rows) ==
    {t \in Thing : \E i \in DOMAIN rows : rows[i].action = "create" /\ rows[i].cidr = t}

\* As what the payload builders resolve the parent of a row
ParentType == [ip4_block |-> "block", ip4_network |-> "block", ip6_network |-> "ip6_block",
               ip4_address |-> "network", ipv4_dhcp_range |-> "network",
               ipv6_dhcp_range |-> "ip6_network"]

\* Paths have a name at least. What a file deletes are things.
ASSUME FileAssumption ==
    \A rows \in Files :
        /\ Len(rows) \in Nat \ {0} /\ DOMAIN rows = 1 .. Len(rows)
        /\ \A i \in DOMAIN rows :
             LET row == rows[i] IN
             /\ row.parent # None =>
                  /\ row.parent \in [slashes : Nat, names : Seq(Thing \cup {Config, None}) \ {<<>>}]
                  /\ row.type \in DOMAIN ParentType
             /\ row.action = "delete" =>
                  /\ row.cidr \in Thing
                  /\ row.type \in {"ip4_block", "ip4_network", "ip6_block", "ip6_network"}

\* The file creates the parent: an IPv6 network tells by a path that is its CIDR
\* and nothing else, the others by where their path ends
InFile(rows, row) ==
    LET names == row.parent.names IN
    \/ row.type = "ip6_network" /\ row.parent.slashes = 0 /\ Len(names) = 1 /\ names[1] \in Pending(rows)
    \/ /\ row.type = "ip4_network" /\ Len(names) >= 2
       /\ Last(names) \in Pending(rows) /\ BlockOf[Last(names)] = None
    \/ /\ row.type \in {"ipv4_dhcp_range", "ipv6_dhcp_range"}
       /\ Last(names) \in Pending(rows) /\ BlockOf[Last(names)] # None

\* In front of the path of an IPv6 network that does not start with the
\* configuration comes the configuration and a slash; those of the path, if it
\* has any, are then in the middle, with empty names between them
AskedPath(row) ==
    LET path == row.parent IN
    IF row.type = "ip6_network" /\ (path.slashes > 0 \/ Head(path.names) # Config)
    THEN [slashes |-> 0,
          names |-> <<Config>> \o [i \in 1 .. path.slashes |-> None] \o path.names]
    ELSE path

\* Slip: every path is asked for, also one that the file creates
AsksAlways(rows, row) ==
    IF ~Parents(row) THEN None ELSE CacheKey(row.parent, ParentType[row.type])

\* The path and type that the payload builders hand to resolve(), if they do
Asks(rows, row) ==
    IF ~Parents(row) \/ InFile(rows, row) THEN None
    ELSE CacheKey(AskedPath(row), ParentType[row.type])

\* What _query_bam() looks for: a block under its configuration, a network under
\* its block, whatever follows it, and whatever slashes are in front
LeadsTo(key, t) ==
    LET names == key.path.names IN
    /\ (t \in IPv6) = (key.kind \in {"IPv6Block", "IPv6Network"})
    /\ names[1] = Config
    /\ \/ /\ key.kind \in {"Block", "IPv6Block"} /\ Len(names) = 2
          /\ names[2] = t /\ BlockOf[t] = None
       \/ /\ key.kind \in {"Network", "IPv6Network"} /\ Len(names) >= 3
          /\ names[2] = BlockOf[t] /\ names[3] = t /\ BlockOf[t] # None

QueryBam(key) ==
    IF \E t \in Thing : LeadsTo(key, t) /\ (BlockOf[t] # None => bam[BlockOf[t]] # 0)
    THEN bam[CHOOSE t \in Thing : LeadsTo(key, t)] ELSE 0

\* payload["resource_path"], of rows whose parent was resolved to an id; the
\* double slashes of those with a CIDR become single ones
ResourcePath(row, id) ==
    IF ~Parents(row) \/ id \in {Deferred, 0} \/ row.type = "ip4_address" THEN None
    ELSE IF row.type \in {"ipv4_dhcp_range", "ipv6_dhcp_range"} THEN row.parent
    ELSE [slashes |-> (row.parent.slashes + 1) \div 2,
          names   |-> Append(row.parent.names, row.cidr)]

\* Without a path: the block or network in the file or in BAM that contains it
Discover(rows, row) ==
    IF row.type \in {"ip4_block", "ip6_block"} THEN 0
    ELSE IF row.within \in Pending(rows) THEN Deferred
    ELSE bam[row.within]

Live == {bam[t] : t \in Thing} \ {0}

\* Ids of which nothing notices that they were deleted
Unnoticed(gone) == {[id |-> x, key |-> None] : x \in gone \ {0}}

\* The id was deleted, and no entry under the key went with it
QuietIn(gone, key, id) == \E q \in gone : q.id = id /\ (q.key = None \/ q.key # key)
Quiet(key, id) == QuietIn(quiet, key, id)

-----------------------------------------------------------------------------
Init ==
    /\ bam \in Bams
    /\ newest = Cardinality({t \in Thing : bam[t] # 0})
    /\ cache = {} /\ quiet = {}
    /\ phase = [p \in Run |-> "down"] /\ file = [p \in Run |-> <<>>]
    /\ at = [p \in Run |-> 1] /\ found = [p \in Run |-> None]
    /\ ids = [p \in Run |-> <<>>] /\ done = [p \in Run |-> <<>>]
    /\ sessions = 0 /\ stops = 0 /\ changes = 0 /\ overlapped = FALSE

Begin(p) ==
    /\ phase[p] = "down" /\ sessions < MaxSessions
    /\ sessions' = sessions + 1
    /\ overlapped' = (overlapped \/ \E q \in Run : phase[q] # "down")
    /\ \E rows \in Files : file' = [file EXCEPT ![p] = rows]
    /\ phase' = [phase EXCEPT ![p] = "resolving"]
    /\ UNCHANGED <<world, cache, at, found, ids, done, stops, changes>>

Row(p) == file[p][at[p]]
Key(p) == Asks(file[p], Row(p))

\* The row has its parent, and the next one is looked at
Resolved(p, id) ==
    LET last == at[p] = Len(file[p]) IN
    /\ ids' = [ids EXCEPT ![p] = Append(@, id)]
    /\ at' = [at EXCEPT ![p] = IF last THEN 1 ELSE @ + 1]
    /\ phase' = [phase EXCEPT ![p] = IF last THEN "executing" ELSE @]

Resolving(p) == phase[p] = "resolving" /\ found[p] = None

\* No path to ask for: a parent that the file creates, or the one that contains it
ResolveWithoutPath(p) ==
    /\ Resolving(p) /\ Key(p) = None
    /\ Resolved(p, IF Parents(Row(p)) THEN Deferred ELSE Discover(file[p], Row(p)))
    /\ UNCHANGED <<world, counts, cache, file, found, done>>

CacheHit(p) ==
    /\ Resolving(p) /\ Key(p) # None
    /\ \E e \in cache : e.key = Key(p) /\ Resolved(p, e.id)
    /\ UNCHANGED <<world, counts, cache, file, found, done>>

\* BAM is asked, and the coroutine waits for the answer
Query(p) ==
    /\ Resolving(p) /\ Key(p) # None /\ \A e \in cache : e.key # Key(p)
    /\ found' = [found EXCEPT ![p] = QueryBam(Key(p))]
    /\ UNCHANGED <<world, counts, cache, phase, file, at, ids, done>>

\* The answer goes into the cache, whatever became of the entry meanwhile; an
\* address of which the network was not found falls back to discovery
Store(p) ==
    /\ phase[p] = "resolving" /\ found[p] # None
    /\ IF found[p] # 0
       THEN /\ cache' = {e \in cache : e.key # Key(p)} \cup {[key |-> Key(p), id |-> found[p]]}
            /\ Resolved(p, found[p])
       ELSE /\ Resolved(p, IF Row(p).type = "ip4_address" THEN Discover(file[p], Row(p)) ELSE 0)
            /\ UNCHANGED cache
    /\ quiet' = quiet \cup Unnoticed({found[p]} \ Live)
    /\ found' = [found EXCEPT ![p] = None]
    /\ UNCHANGED <<bam, newest, counts, file, done>>

-----------------------------------------------------------------------------
Result(p, i, r, id) == done' = [done EXCEPT ![p] = Append(@, [row |-> i, ok |-> r, was |-> id])]

Ended(p) == {done[p][k].row : k \in DOMAIN done[p]}

\* Barriers: deletions come first, then blocks and networks, addresses, ranges
Phase(row) == IF row.action = "delete" THEN 0
              ELSE CASE row.type \in {"ipv4_dhcp_range", "ipv6_dhcp_range"} -> 3
                     [] row.type = "ip4_address" -> 2
                     [] OTHER -> 1

\* Rows that create what row i defers to come before it, but for the block of
\* an IPv6 network, to which the planner draws no edge. (What the executor
\* skips below a failed row is tried here nevertheless.)
Ready(p, i) ==
    /\ phase[p] = "executing" /\ i \in DOMAIN file[p] \ Ended(p)
    /\ \A j \in DOMAIN file[p] : Phase(file[p][j]) < Phase(file[p][i]) => j \in Ended(p)
    /\ ids[p][i] = Deferred /\ file[p][i].type # "ip6_network" =>
         \A j \in DOMAIN file[p] :
           file[p][j].action = "create" /\ file[p][j].cidr = file[p][i].within => j \in Ended(p)

\* A request to create under a parent is answered with 404 unless it is there
ParentIsThere(p, i) ==
    LET row == file[p][i] IN
    \/ row.within = None
    \/ bam[row.within] # 0 /\ ids[p][i] \in {Deferred, bam[row.within]}

\* Of what is there already, a creation gets the id
CreateThing(p, i) ==
    LET row == file[p][i] IN
    /\ Ready(p, i) /\ row.action = "create"
    /\ IF ParentIsThere(p, i) /\ row.cidr \in Thing /\ bam[row.cidr] = 0
       THEN bam' = [bam EXCEPT ![row.cidr] = newest + 1] /\ newest' = newest + 1
       ELSE UNCHANGED <<bam, newest>>
    /\ Result(p, i, ParentIsThere(p, i), 0)
    /\ UNCHANGED <<counts, quiet, cache, phase, file, at, found, ids>>

\* The thing with its contents
Gone(t) == {t} \cup {u \in Thing : BlockOf[u] = t}

\* Rows but for blocks are within the thing to which their path leads, if it leads
\* anywhere, and what is created with a CIDR is within its block.
ASSUME WithinAssumption ==
    \A rows \in Files : \A i \in DOMAIN rows :
        LET row == rows[i] IN
        /\ row.within \in Thing \cup {None}
        /\ row.within = None <=> row.type \in {"ip4_block", "ip6_block"}
        /\ row.parent # None /\ row.within # None =>
             \A t \in Thing : LeadsTo(CacheKey(AskedPath(row), ParentType[row.type]), t) => t = row.within
        /\ row.action = "create" /\ row.cidr \in Thing => row.within = BlockOf[row.cidr]

InvalidatedKey(p, i) ==
    LET path == ResourcePath(file[p][i], ids[p][i])
    IN  IF path = None THEN None ELSE CacheKey(path, file[p][i].type)

DeleteThing(p, i) ==
    LET row == file[p][i]
        t   == row.cidr
    IN
    /\ Ready(p, i) /\ row.action = "delete"
    /\ IF bam[t] # 0
       THEN /\ bam' = [u \in Thing |-> IF u \in Gone(t) THEN 0 ELSE bam[u]]
            /\ quiet' = quiet \cup {[id |-> bam[t], key |-> InvalidatedKey(p, i)]}
                              \cup Unnoticed({bam[u] : u \in Gone(t) \ {t}})
       ELSE UNCHANGED <<bam, quiet>>
    /\ Result(p, i, bam[t] # 0, bam[t])
    /\ UNCHANGED <<newest, counts, cache, phase, file, at, found, ids>>

\* Nothing of a run is left but the cache
Down(p) ==
    /\ phase' = [phase EXCEPT ![p] = "down"]
    /\ file' = [file EXCEPT ![p] = <<>>] /\ at' = [at EXCEPT ![p] = 1]
    /\ ids' = [ids EXCEPT ![p] = <<>>] /\ done' = [done EXCEPT ![p] = <<>>]

Finish(p) ==
    /\ phase[p] = "executing" /\ Len(done[p]) = Len(file[p])
    /\ phase' = [phase EXCEPT ![p] = "invalidating"]
    /\ UNCHANGED <<world, counts, cache, file, at, found, ids, done>>

\* Slip: only what was created is invalidated
InvalidateCreated(p) ==
    LET result == done[p][at[p]]
        last == at[p] = Len(file[p])
    IN
    /\ phase[p] = "invalidating"
    /\ cache' = {e \in cache : ~(/\ result.ok /\ file[p][result.row].action = "create"
                                 /\ e.key = InvalidatedKey(p, result.row))}
    /\ IF last THEN Down(p)
       ELSE at' = [at EXCEPT ![p] = @ + 1] /\ UNCHANGED <<phase, file, ids, done>>
    /\ UNCHANGED <<world, counts, found>>

\* The results loop: the entry of the path of a row that succeeded is deleted.
\* So is one with its first component as the path, which nothing ever stores.
InvalidateNext(p) ==
    LET result == done[p][at[p]]
        last == at[p] = Len(file[p])
    IN
    /\ phase[p] = "invalidating"
    /\ cache' = {e \in cache : ~(result.ok /\ e.key = InvalidatedKey(p, result.row))}
    /\ IF last THEN Down(p)
       ELSE at' = [at EXCEPT ![p] = @ + 1] /\ UNCHANGED <<phase, file, ids, done>>
    /\ UNCHANGED <<world, counts, found>>

-----------------------------------------------------------------------------
\* A run is stopped: what it deleted and did not yet invalidate stays
Stop(p) ==
    /\ phase[p] # "down" /\ stops < MaxStops
    /\ stops' = stops + 1
    /\ quiet' = quiet \cup Unnoticed({done[p][k].was : k \in {j \in DOMAIN done[p] : j >= at[p]}})
    /\ Down(p) /\ found' = [found EXCEPT ![p] = None]
    /\ UNCHANGED <<bam, newest, sessions, changes, overlapped, cache>>

\* External: somebody deletes a thing, or makes a new one
ChangeBam ==
    /\ changes < MaxChanges
    /\ changes' = changes + 1
    /\ \E t \in Thing :
         IF bam[t] # 0
         THEN /\ bam' = [u \in Thing |-> IF u \in Gone(t) THEN 0 ELSE bam[u]]
              /\ quiet' = quiet \cup Unnoticed({bam[u] : u \in Gone(t)})
              /\ UNCHANGED newest
         ELSE /\ BlockOf[t] # None => bam[BlockOf[t]] # 0
              /\ bam' = [bam EXCEPT ![t] = newest + 1] /\ newest' = newest + 1
              /\ UNCHANGED quiet
    /\ UNCHANGED <<sessions, stops, overlapped, cache, phase, file, at, found, ids, done>>

Next ==
    \/ \E p \in Run :
         \/ Begin(p) \/ ResolveWithoutPath(p) \/ CacheHit(p) \/ Query(p) \/ Store(p)
         \/ \E i \in DOMAIN file[p] : CreateThing(p, i) \/ DeleteThing(p, i)
         \/ Finish(p) \/ InvalidateNext(p) \/ Stop(p)
    \/ ChangeBam

Spec == Init /\ [][Next]_vars

-----------------------------------------------------------------------------
(***************************************************************************)
(* Properties.                                                             *)
(***************************************************************************)
\* Between runs an entry has the id of something that is gone for a few reasons
\* only: the row that deleted it had no path of it (a block never has one that
\* resolve() uses, and what a block contains goes with it) or another spelling
\* of its path, the run was stopped before it could invalidate it, somebody else
\* deleted it, or it was deleted between the answer of BAM and the entry.
StaleForAReason ==
    (\A p \in Run : phase[p] = "down") =>
      \A e \in cache : e.id \in Live \/ Quiet(e.key, e.id)

\* A path that is asked for although the file creates what it leads to: an IPv6
\* network tells only by a path that is the CIDR of its block, the others by one
\* that ends there, and an address finds the network that the same file deletes
\* first.
AskedTooEarly(rows, row) ==
    /\ Parents(row) /\ row.within \in Pending(rows)
    /\ \/ row.type = "ip6_network" /\ row.parent # [slashes |-> 0, names |-> <<row.within>>]
       \/ row.type \notin {"ip6_network", "ip4_address"} /\ Last(row.parent.names) # row.within
       \/ /\ row.type = "ip4_address"
          /\ \E i \in DOMAIN rows : rows[i].action = "delete" /\ row.within \in Gone(rows[i].cidr)

\* A path that leads nowhere, as that of an IPv6 network with a slash in front
\* does; an address looks for its network then.
Misread(rows, row) ==
    /\ Asks(rows, row) # None /\ row.type # "ip4_address"
    /\ ~LeadsTo(Asks(rows, row), row.within)

\* A row of which the parent is in BAM fails for few reasons only: the id of a
\* parent that the file creates is found out when the row runs, unless it was
\* asked for too early, an address finds the network that contains it when its
\* path leads nowhere, and the ids of what was deleted are not used, where the
\* deletion invalidated the entry of the very path that the row asks for.
ParentsAreFound ==
    ~overlapped /\ changes = 0 =>
      \A p \in Run : \A i \in Ended(p)' \ Ended(p) :
        /\ file[p][i].action = "create" /\ ~done'[p][Len(done'[p])].ok
        /\ ~Quiet(Asks(file[p], file[p][i]), ids[p][i])
        /\ ~AskedTooEarly(file[p], file[p][i]) /\ ~Misread(file[p], file[p][i])
        => file[p][i].within # None /\ bam[file[p][i].within] = 0
RowsFindTheirParents == [][ParentsAreFound]_vars
=============================================================================
