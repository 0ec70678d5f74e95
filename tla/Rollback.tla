------------------------------- MODULE Rollback -------------------------------
(***************************************************************************)
(* A file from its lines to BAM and back: run_session() parses it, turns   *)
(* the rows into operations and carries them out through the handlers; the *)
(* changelog keeps what succeeded, RollbackGenerator writes a file of the  *)
(* opposite operations from it, and that file is imported in turn.         *)
(*                                                                         *)
(* Here an operation is one step: how operations overlap is the subject of *)
(* Executor.  They run in any order in which the creations come before the *)
(* rows that defer to them.  BAM is external: a set of resources, where a  *)
(* creation of what is there conflicts, and a deletion takes with it what  *)
(* the resource contains.                                                  *)
(***************************************************************************)
EXTENDS OperationFactory, Handlers

CONSTANTS
    Blank, Bad,   \* cells, see Rows
    Files,        \* the files that may be imported, sequences of lines
    Bams,         \* what may be in BAM before, sets of resources
    Permissions,  \* the values of --allow-dangerous-operations
    MaxFaults     \* requests that fail or whose answer is lost (bounds the model)

Csv == INSTANCE Rows

\* An empty cell is no name, and no value is both an id and a mistake
ASSUME CellAssumption == None # <<"@">> /\ None \notin Nat /\ Bad \notin Nat

\* A file is a sequence of lines
ASSUME FileAssumption == \A f \in Files : f \in Seq({f[i] : i \in DOMAIN f})

\* BAM gives an id to one resource
ASSUME BamAssumption ==
    \A b \in Bams :
      /\ \A e \in b : /\ e = [id |-> e.id, type |-> e.type, name |-> e.name, edited |-> e.edited]
                      /\ e.id \in Nat /\ e.id > 0
      /\ \A e, f \in b : e.id = f.id => e = f

VARIABLES
    bam,       \* external: resources [id, type, name, edited]
    newest,    \* external: the highest id that BAM ever gave
    start,     \* bam when the session began
    run,       \* the session: an import, the same again, or a rollback
    phase,     \* parsing, executing, done, or refused by the parser
    file,      \* the lines of the session
    allow,     \* --allow-dangerous-operations
    ops,       \* the operations: lines and payloads
    result,    \* results by operation
    created,   \* the created_* maps: set of <<kind, key>>
    log,       \* the changelog of the last import, oldest entry first
    faults     \* faults of the session

vars == <<bam, newest, start, run, phase, file, allow, ops, result, created, log, faults>>

-----------------------------------------------------------------------------
(***************************************************************************)
(* From a line to an operation.                                            *)
(***************************************************************************)
NameColumn(type) ==
    CASE type \in {"ip4_block", "ip4_network", "ip6_block", "ip6_network"} -> "cidr"
      [] type \in {"ip4_address", "ip6_address", "device_address"} -> "address"
      [] type \in {"ipv4_dhcp_range", "ipv6_dhcp_range"} -> "range"
      [] type = "dns_zone"     -> "zone_name"
      [] type = "location"     -> "code"
      [] type = "mac_address"  -> "mac_address"
      [] type = "resource_tag" -> "tag_name"
      [] type = "access_right" -> "user_name"
      [] type = "user_defined_link" -> "udl_name"
      [] OTHER -> "name"

Roles == {"dhcp_deployment_role", "dns_deployment_role"}

FactoryRow(line) ==
    LET cell(column) == Csv!Cell(line, column)
        parentCode   == cell("parent_code")
    IN  [id |-> line.id, type |-> line.type, action |-> line.action,
         config |-> cell("config"),
         name |-> IF line.type \in Csv!Apex /\ cell("name") = None THEN <<"@">>
                  ELSE cell(NameColumn(line.type)),
         parent |-> CASE line.type = "location" ->
                            IF parentCode = None THEN None ELSE <<parentCode>>
                      [] line.type \in Roles -> cell("block_path")
                      [] OTHER -> cell("parent"),
         location |-> cell("location_code"), view |-> cell("view_path"),
         zone |-> CASE line.type \in Roles -> cell("zone_path")
                    [] line.type = "dns_zone" -> None
                    [] OTHER -> cell("zone_name"),
         path |-> cell("network_path"),
         dtype |-> cell("device_type"), subtype |-> cell("device_subtype"),
         device |-> cell("device_name"), group |-> cell("tag_group"),
         tag |-> cell("tag_name"), udl |-> cell("udl_name"),
         stype |-> IF line.type = "user_defined_link" THEN cell("source_type")
                   ELSE cell("resource_type"),
         spath |-> IF line.type = "user_defined_link" THEN cell("source_path")
                   ELSE cell("resource_path"),
         dest |-> cell("destination_type"), dpath |-> cell("destination_path")]

\* The payload key of a reference
SlotKey(type, slot) ==
    CASE slot \in {"tag_group", "tag", "source", "destination", "device", "resource",
                   "device_type", "device_subtype", "udl_definition", "block", "network",
                   "zone", "parent_location"} -> slot \o "_id"
      [] slot = "location" -> IF type = "location" THEN "parent_location_id" ELSE "location"

\* The keys of the payload once the deferred ones are resolved: every column
\* of the row is one (_add_row_attributes_to_payload)
Keys(op) ==
    LET line == op.line IN
    {c \in DOMAIN line.cells : Csv!Cell(line, c) # None}
    \cup {SlotKey(line.type, s) : s \in op.payload.ids \cup {d.slot : d \in op.payload.deferred}}
    \cup (IF line.bam_id # None THEN {"bam_id"} ELSE {})
    \cup (IF op.row.config # None THEN {"config_id"} ELSE {})
    \cup (IF line.type \in DnsTypes /\ op.row.view # None THEN {"view_id"} ELSE {})

RequestOf(op) == HandlerRegistry[op.line.type][op.line.action]

-----------------------------------------------------------------------------
(***************************************************************************)
(* External: what BAM does.                                                *)
(***************************************************************************)
CollectionOf(type) ==
    IF type \in DOMAIN HandlerRegistry THEN HandlerRegistry[type].create.collection ELSE type

\* Roles and options have no identity of their own
Nameless == Roles \cup {"dhcpv4_client_deployment_option",
                        "dhcpv4_service_deployment_option"}

SameName(type, name) ==
    {e \in bam : /\ name # None /\ type \notin Nameless
                 /\ CollectionOf(e.type) = CollectionOf(type) /\ e.name = name}

\* The id in the request: operation.resource_id, which is the bam_id of the row,
\* or the column that the handler takes it from
TargetId(request, op) ==
    IF request.by = "bam_id" THEN op.line.bam_id ELSE Csv!Cell(op.line, request.by)

At(request, op) ==
    {e \in bam : /\ CollectionOf(e.type) = request.collection /\ request.collection # NoCollection
                 /\ IF request.method = "UNLINK" THEN e.name = op.row.name
                    ELSE e.id = TargetId(request, op)}

\* The types of what a resource can contain
Inside(type) ==
    CASE type \in {"ip4_block", "ip4_network", "ip6_block", "ip6_network"} ->
           {"ip4_block", "ip4_network", "ip4_group", "ip4_address", "ip6_block", "ip6_network",
            "ip6_address", "ipv4_dhcp_range", "ipv6_dhcp_range", "device_address"}
      [] type = "dns_zone" -> DnsTypes
      [] type = "location" -> {"location"}
      [] OTHER -> {}

Contents(found) ==
    {e \in bam : \E f \in found : \/ e = f
                                 \/ /\ e.type \in Inside(f.type)
                                    /\ <<f.name, e.name>> \in Covers}

Ids(resources) == {e.id : e \in resources}

-----------------------------------------------------------------------------
Init ==
    /\ file \in Files
    /\ bam \in Bams
    /\ allow \in Permissions
    /\ newest \in {i \in Ids(bam) : \A j \in Ids(bam) : j <= i}
    /\ start = bam
    /\ run = "import" /\ phase = "parsing"
    /\ ops = <<>> /\ result = <<>> /\ created = {} /\ log = <<>>
    /\ faults = 0

\* CSVParser.parse(), strict, and OperationFactory on every row
ParseFile ==
    /\ phase = "parsing"
    /\ LET parsed == Csv!Parse(file, TRUE)
           rows   == [i \in DOMAIN parsed.rows |-> FactoryRow(parsed.rows[i])]
           known  == [bam |-> {<<e.type, e.name>> : e \in bam}, pending |-> FromRows(rows)]
       IN  /\ phase' = IF parsed.refused THEN "refused" ELSE "executing"
           /\ ops' = [i \in DOMAIN rows |->
                        LET made == CreateFromRow(known, rows[i])
                        IN  [line |-> parsed.rows[i], row |-> made.row,
                             payload |-> made.payload]]
    /\ UNCHANGED <<bam, newest, start, run, file, allow, result, created, log, faults>>

Done(i)   == i \in DOMAIN result
Rows(d)   == {j \in DOMAIN ops : ops[j].line.id = d.row}
Waits(i)  == {j \in UNION {Rows(d) : d \in ops[i].payload.deferred} : ~Done(j)}
Ready(i)  == phase = "executing" /\ i \in DOMAIN ops /\ ~Done(i) /\ Waits(i) = {}

\* _resolve_deferred_ids() finds every id
Resolved(op) ==
    \A d \in op.payload.deferred : <<d.slot, d.key>> \in created

\* The handler comes to its request
Sends(op) ==
    LET request == RequestOf(op) IN
    /\ ~op.payload.error
    /\ Resolved(op)
    /\ request.method # "none"
    /\ request.needs \subseteq Keys(op)
    /\ request.oneOf # {} => request.oneOf \cap Keys(op) # {}
    /\ \A c \in request.looksUp :
         Csv!Cell(op.line, c) # None => \E e \in bam : e.name = Csv!Cell(op.line, c)
    /\ \A t \in request.typed : Csv!Cell(op.line, t[1]) \in t[2]
    /\ request.guarded => allow

\* An operation ends: with an id for the changelog, having acted on a resource
Report(i, ok, id, on) ==
    /\ result' = [j \in DOMAIN result \cup {i} |->
                     IF j = i THEN [ok |-> ok, id |-> id, on |-> on] ELSE result[j]]
    /\ UNCHANGED <<start, run, phase, file, allow, ops, log>>

Failed(i) == Report(i, FALSE, None, None) /\ UNCHANGED created

\* _store_created_resource(), of the types that it knows
Stored(op) ==
    LET kind == PendingKind(op.line.type)
    IN  IF kind = None \/ op.row.name = None THEN {} ELSE {<<kind, PendingKey(op.row)>>}
Created(op) == created \cup Stored(op)

\* The operation ends without a request: an error of the row, an id that was
\* never created, an unsupported action, something missing, no permission
FailWithoutRequest(i) ==
    /\ Ready(i) /\ ~Sends(ops[i])
    /\ Failed(i)
    /\ UNCHANGED <<bam, newest, faults>>

Existing(op) == SameName(op.line.type, op.row.name)
New(op) == [id |-> newest + 1, type |-> op.line.type, name |-> op.row.name, edited |-> FALSE]

\* A creation that BAM carries out
Create(i) ==
    LET op == ops[i] IN
    /\ Ready(i) /\ Sends(op) /\ RequestOf(op).method = "POST"
    /\ Existing(op) = {}
    /\ newest' = newest + 1
    /\ bam' = bam \cup {New(op)}
    /\ created' = Created(op)
    /\ Report(i, TRUE, newest + 1, New(op))
    /\ UNCHANGED faults

\* Slip: the name is left out of the filter; the type is in it
LookedUpByCollection(op) ==
    {e \in bam : CollectionOf(e.type) = CollectionOf(op.line.type)}
LookedUpByType(op) ==
    {e \in bam : e.type = op.line.type /\ e.name = op.row.name}

\* _lookup_existing_resource() after a conflict: any resource of that name in
\* the collection, a record of another type too
LookedUp(op) ==
    {e \in bam : CollectionOf(e.type) = CollectionOf(op.line.type) /\ e.name = op.row.name}

CanLookUp(op) ==
    op.line.type \in DOMAIN LookupKey /\ LookupKey[op.line.type] \in Keys(op)

Conflict(i) ==
    LET op == ops[i] IN
    /\ Ready(i) /\ Sends(op) /\ RequestOf(op).method = "POST"
    /\ Existing(op) # {}
    /\ IF CanLookUp(op) /\ LookedUp(op) # {}
       THEN /\ \E e \in LookedUp(op) : Report(i, TRUE, e.id, e)
            /\ created' = Created(op)
       ELSE Failed(i)
    /\ UNCHANGED <<bam, newest, faults>>

Changed(op) ==
    LET found == At(RequestOf(op), op)
    IN  IF op.line.action = "update"
        THEN {[e EXCEPT !.edited = e \in found \/ @] : e \in bam}
        ELSE bam \ Contents(found)

\* An update or a deletion: whatever the handler acts on, the result has the
\* bam_id of the row
Change(i) ==
    LET op == ops[i] IN
    /\ Ready(i) /\ Sends(op) /\ RequestOf(op).method # "POST"
    /\ bam' = Changed(op)
    /\ IF At(RequestOf(op), op) = {} THEN Failed(i)
       ELSE \E e \in At(RequestOf(op), op) :
              Report(i, TRUE, op.line.bam_id, e) /\ UNCHANGED created
    /\ UNCHANGED <<newest, faults>>

\* A request that fails, or that BAM carries out and its answer is lost
Fault(i) ==
    LET op == ops[i] IN
    /\ Ready(i) /\ Sends(op) /\ faults < MaxFaults
    /\ faults' = faults + 1
    /\ \/ UNCHANGED <<bam, newest>>
       \/ /\ RequestOf(op).method = "POST" /\ Existing(op) = {}
          /\ newest' = newest + 1
          /\ bam' = bam \cup {New(op)}
       \/ /\ RequestOf(op).method # "POST"
          /\ bam' = Changed(op) /\ UNCHANGED newest
    /\ Failed(i)

-----------------------------------------------------------------------------
(***************************************************************************)
(* The results loop of run_session(), and RollbackGenerator.               *)
(***************************************************************************)
Succeeded == {i \in DOMAIN result : result[i].ok}

\* A set of numbers from the smallest to the largest
InOrder(S) ==
    CHOOSE s \in [1..Cardinality(S) -> S] : \A i, j \in 1..Cardinality(S) : i < j => s[i] < s[j]

Entry(i) == [id |-> ops[i].line.id, type |-> ops[i].line.type,
             action |-> ops[i].line.action, bam_id |-> result[i].id]

EndSession ==
    /\ phase = "executing" /\ DOMAIN result = DOMAIN ops
    /\ phase' = "done"
    /\ log' = IF run = "rollback" THEN log
              ELSE [k \in DOMAIN InOrder(Succeeded) |-> Entry(InOrder(Succeeded)[k])]
    /\ UNCHANGED <<bam, newest, start, run, file, allow, ops, result, created, faults>>

\* A row for a creation has its bam_id and no columns; an update has none, as
\* the changelog never holds the state before it, and a deletion has none
DeleteRow(entry) ==
    [id |-> entry.id, type |-> entry.type, action |-> "delete",
     bam_id |-> entry.bam_id, cells |-> <<>>]

RollbackFile ==
    LET creates == {k \in DOMAIN log : log[k].action = "create" /\ log[k].bam_id # None}
        last    == Cardinality(creates)
    IN  [k \in 1..last |-> DeleteRow(log[InOrder(creates)[last + 1 - k]])]

Session(kind, lines, permission) ==
    /\ run' = kind /\ phase' = "parsing" /\ file' = lines /\ allow' = permission
    /\ ops' = <<>> /\ result' = <<>> /\ created' = {} /\ faults' = 0
    /\ UNCHANGED <<bam, newest>>

\* The same file is imported a second time
ImportAgain ==
    /\ run = "import" /\ phase = "done"
    /\ Session("again", file, allow)
    /\ start' = bam
    /\ UNCHANGED log

\* The rollback command, which allows every deletion
RollBack ==
    /\ run \in {"import", "again"} /\ phase = "done" /\ RollbackFile # <<>>
    /\ Session("rollback", RollbackFile, TRUE)
    /\ UNCHANGED <<start, log>>

Next ==
    \/ ParseFile
    \/ \E i \in DOMAIN ops : \/ FailWithoutRequest(i) \/ Create(i) \/ Conflict(i)
                             \/ Change(i) \/ Fault(i)
    \/ EndSession
    \/ ImportAgain
    \/ RollBack

Spec == Init /\ [][Next]_vars

-----------------------------------------------------------------------------
(***************************************************************************)
(* Properties.                                                             *)
(***************************************************************************)
Logged == {log[k].bam_id : k \in {j \in DOMAIN log : log[j].action = "create"}}

\* Undoing is all or nothing: a rollback whose rows are carried out, none of whose
\* requests goes wrong, leaves nothing of what the session reported as created.
\* One row that does not parse stops a rollback before its first request, so that
\* no half of an import is left.
RollbackIsAllOrNothing ==
    run = "rollback" /\ phase = "done" /\ faults = 0 => Logged \cap Ids(bam) = {}

\* What was in BAM before a session survives its rollback, although a creation
\* that ran into an existing resource is in the changelog like any other:
\* the rows of the types that can be taken over do not parse without columns.
RollbackKeepsWhatWasThere ==
    [][run = "rollback" => Ids(start) \cap Ids(bam) \subseteq Ids(bam')]_vars

\* An import without --allow-dangerous-operations never removes a block, a
\* network or a zone, nor anything that is in one of them by removing it.
ProtectedNeedPermission ==
    [][~allow => \A e \in bam \ bam' :
          e.type \notin {"ip4_block", "ip4_network", "ip6_block", "ip6_network", "dns_zone"}
          \/ \E f \in bam' : f.id = e.id]_vars

\* An operation that succeeded acted on a resource of the collection of its type,
\* and a creation on one with the name of its row; the id it reports, which the
\* changelog keeps, is that of the resource acted on.  The deletions that report
\* another id, or none, are those named here: the handler unlinks two resources,
\* or takes the id from a column of its own instead of the bam_id that is reported.
OwnColumn ==
    {<<"device_type", "delete">>, <<"device_subtype", "delete">>, <<"device", "delete">>,
     <<"acl", "update">>, <<"acl", "delete">>,
     <<"access_right", "update">>, <<"access_right", "delete">>}
Unlinking == {<<"resource_tag", "delete">>, <<"device_address", "delete">>}
SuccessNamesAResource ==
    \A i \in Succeeded :
        LET line == ops[i].line
            on   == result[i].on
        IN  /\ on.id \in 1 .. newest /\ CollectionOf(on.type) = CollectionOf(line.type)
            /\ line.action = "create" => on.name = ops[i].row.name
            /\ result[i].id = on.id \/ <<line.type, line.action>> \in OwnColumn \cup Unlinking

\* Importing the same file again completes the import: when every row creates
\* something that can be looked up and that its handler has all it needs for, and
\* every deferred key is one under which the row it waits for stores its id (that of
\* a pending zone above the zone of a record is not), the second session reports success for every row, also for those whose
\* request failed or whose answer was lost the first time, each with the id of
\* the resource in BAM.
Repeatable == \A i \in DOMAIN ops : /\ ops[i].line.action = "create"
                                    /\ CanLookUp(ops[i])
                                    /\ ~ops[i].payload.error
                                    /\ RequestOf(ops[i]).needs \subseteq Keys(ops[i])
                                    /\ \A d \in ops[i].payload.deferred :
                                         \E j \in Rows(d) : <<d.slot, d.key>> \in Stored(ops[j])
RerunCompletesTheImport ==
    run = "again" /\ phase = "done" /\ faults = 0 /\ Repeatable
        => /\ Succeeded = DOMAIN ops
           /\ \A i \in DOMAIN ops : \E e \in Existing(ops[i]) : e.id = result[i].id

\* The guides say that the file written after an import undoes it.
RollbackUndoesTheImport ==
    run = "rollback" /\ phase \in {"done", "refused"} /\ faults = 0 => bam = start

\* The guides say that verify_name is compared with the name of the resource
\* before it is updated or deleted.
VerifiedBeforeChange ==
    \A i \in Succeeded :
        ops[i].line.action # "create" /\ Csv!Cell(ops[i].line, "verify_name") # None
            => result[i].on.name = Csv!Cell(ops[i].line, "verify_name")
=============================================================================
