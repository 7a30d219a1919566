---------------------------- MODULE DeviceModel ----------------------------
(***************************************************************************)
(* How a device comes to answer for its points.  The host                  *)
(* (stack/src/tool/host.c) turns the declaration of an adapter into a      *)
(* model document (stack/src/tool/tool.c), joins the file tool to it,      *)
(* hands it to the server, subscribes, and only then opens the tools and   *)
(* binds their points one by one.  From the subscription on, handlers of   *)
(* the pool resolve ids, call bindings, read the model with its METHODS    *)
(* item and replace it (stack/src/server/server.c), none of it under a     *)
(* lock.                                                                   *)
(*                                                                         *)
(* A path is a sequence of segments, a segment "TYPE@NUMBER" is one value. *)
(* The tree is the sequence of its nodes with their paths, in the order of *)
(* their creation; the device node and the root are left out of it.  A     *)
(* single access to the shared tree or table is one step.                  *)
(***************************************************************************)
EXTENDS Integers, Sequences, FiniteSets, SequencesExt

CONSTANTS
    Adapters,    \* declarations a loaded module may bring
    FileTool,    \* the declaration of the file tool
    SiteModels,  \* documents a site may name in the configuration, or send
    Handlers,    \* threads of the pool
    Questions,   \* what clients ask: [id |-> node id or path, op |-> operation]
    MaxIds,      \* ids that are tried for the METHODS item, 100 in the code
    MaxSets      \* bound on the models that are sent

WriteOps == {"set_value", "add", "delete"}
ValueOps == {"get_value", "get_length", "get_keys", "get_attributes"} \cup WriteOps

NoModel == [device |-> "none", nodes |-> <<>>]

ASSUME DeviceAssumption ==
    /\ MaxSets \in Nat /\ MaxIds \in Nat \ {0}
    /\ \A decl \in Adapters \cup {FileTool} :
         Len(decl.points) \in Nat /\ DOMAIN decl.points = 1..Len(decl.points)

(***************************************************************************)
(* The document of a declaration.                                          *)
(***************************************************************************)
IsMethod(point) == point.ops \cap ValueOps = {}

\* ncl_tool_validate; the name of a point stands for its path.
Valid(decl) ==
    /\ decl.points # <<>>
    /\ \A i \in DOMAIN decl.points :
         LET p == decl.points[i] IN
         /\ p.ops # {}
         /\ p.sampled => "get_value" \in p.ops
         /\ p.ops \cap WriteOps # {} => "get_value" \in p.ops
         /\ ~(p.config /\ p.sampled)
         /\ \A j \in 1..(i - 1) : decl.points[j].path # p.path

\* The members of S, each after those that are before it.
Ordered(S, before) ==
    [k \in 1..Cardinality(S) |->
        CHOOSE x \in S : Cardinality({y \in S : <<y, x>> \in before}) = k - 1]

\* The elements of s at some of its places, in their order.
Picked(s, places) ==
    LET at == Ordered(places, {e \in places \X places : e[1] < e[2]})
    IN  [k \in DOMAIN at |-> s[at[k]]]

\* The points with a value.
Values(decl) == {i \in DOMAIN decl.points : ~IsMethod(decl.points[i])}

\* The components on the way to a point, outermost first.
Chain(path) == [k \in 1..(Len(path) - 1) |-> SubSeq(path, 1, k)]

Through(decl, c) == {i \in Values(decl) : c \in ToSet(Chain(decl.points[i].path))}
Ways(decl) == UNION {ToSet(Chain(decl.points[i].path)) : i \in Values(decl)}

\* The first point on whose way a component is makes it, after those around it.
Maker(decl, c) == Min(Through(decl, c))

MadeBefore(decl) ==
    {e \in Ways(decl) \X Ways(decl) :
        \/ Maker(decl, e[1]) < Maker(decl, e[2])
        \/ Maker(decl, e[1]) = Maker(decl, e[2]) /\ Len(e[1]) < Len(e[2])}

Components(decl) ==
    LET paths == Ordered(Ways(decl), MadeBefore(decl))
    IN  [k \in DOMAIN paths |-> [kind |-> "component", path |-> paths[k],
                                 id |-> <<"c", k - 1>>, refs |-> <<>>]]

PointId(i) == <<"p", i - 1>>

DataNode(decl, i) ==
    [kind |-> IF decl.points[i].config THEN "config" ELSE "item",
     path |-> decl.points[i].path, id |-> PointId(i), refs |-> <<>>]

DataNodes(decl) == Picked([i \in DOMAIN decl.points |-> DataNode(decl, i)], Values(decl))

Sampled(decl) == {i \in DOMAIN decl.points : decl.points[i].sampled}

Channel(decl) ==
    IF decl.period = 0 \/ Sampled(decl) = {} THEN <<>>
    ELSE << [kind |-> "channel", path |-> <<"SAMPLE_CHANNEL">>, id |-> <<decl.name, 0>>,
             refs |-> Picked([i \in DOMAIN decl.points |-> PointId(i)], Sampled(decl))] >>

ToolModel(decl) ==
    [device |-> decl.device,
     nodes  |-> Components(decl) \o DataNodes(decl) \o Channel(decl)]

(***************************************************************************)
(* Joining the document of a second tool.                                  *)
(***************************************************************************)
\* model_walk_ids descends to the components of the device and no further.
Walked(node) == Len(node.path) <= (IF node.kind = "component" THEN 1 ELSE 2)

Met(nodes) ==
    UNION {{nodes[k].id} \cup ToSet(nodes[k].refs) :
               k \in {k \in DOMAIN nodes : Walked(nodes[k])}}

\* One past the highest "p<n>" or "c<n>" that the walk meets.
Offset(nodes, letter) ==
    Max({0} \cup {id[2] + 1 : id \in {id \in Met(nodes) : id[1] = letter}})

ShiftedId(id, nodes) ==
    IF id[1] \in {"p", "c"} THEN <<id[1], id[2] + Offset(nodes, id[1])>> ELSE id

\* Mistake: the second tool keeps the ids it gave itself.
KeepIds(node, nodes) == node

Shifted(node, nodes) ==
    IF Walked(node)
    THEN [node EXCEPT !.id = ShiftedId(@, nodes),
                      !.refs = [k \in DOMAIN @ |-> ShiftedId(@[k], nodes)]]
    ELSE node

SharedComponent(node, nodes) ==
    \E k \in DOMAIN nodes : nodes[k].kind = "component" /\ nodes[k].path = <<node.path[1]>>

\* Of a component both tools have, the items and configs move over.
Joins(node, nodes) ==
    SharedComponent(node, nodes) => node.kind # "component" /\ Len(node.path) <= 2

\* ncl_tool_model_add
Joined(doc, decl) ==
    LET added == ToolModel(decl).nodes
        shifted == [k \in DOMAIN added |-> Shifted(added[k], doc.nodes)]
        joining == {k \in DOMAIN shifted : Joins(shifted[k], doc.nodes)}
    IN  [doc EXCEPT !.nodes = @ \o Picked(shifted, joining)]

(***************************************************************************)
(* What the server makes of a document.                                    *)
(***************************************************************************)
Rank(node) == CASE node.kind = "component" -> 1
                [] node.kind = "item"      -> 3
                [] OTHER                   -> 2

\* ncl_root_node_path_map: of the nodes with one path the last entered stays.
Shadowed(nodes, k) ==
    \E j \in DOMAIN nodes :
        /\ nodes[j].path = nodes[k].path
        /\ Rank(nodes[j]) > Rank(nodes[k]) \/ (Rank(nodes[j]) = Rank(nodes[k]) /\ j > k)

\* ncl_root_node_id_map
IdMapped(nodes) ==
    {nodes[k] : k \in {k \in DOMAIN nodes :
        ~Shadowed(nodes, k) \/ (Rank(nodes[k]) = 2 /\ Len(nodes[k].path) = 1)}}

\* What the channels of the device sample.
Wanted(doc) ==
    UNION {ToSet(n.refs) : n \in {n \in ToSet(doc.nodes) : n.kind = "channel" /\ Len(n.path) = 1}}

Named(doc, id) == {n \in IdMapped(doc.nodes) : n.id = id}

\* ncl_root_node_parse: each id they sample must name a point.  Of nodes that share
\* an id the last entered counts; with a component among them it is left open here
\* whether the document is accepted.
MayParse(doc) == \A id \in Wanted(doc) : \E n \in Named(doc, id) : n.kind # "component"

Parses(doc) ==
    MayParse(doc) /\ \A id \in Wanted(doc) : \A n \in Named(doc, id) : n.kind # "component"

VARIABLES
    given,      \* what the host is given: adapter, model or NoModel, file tool or not
    pc,         \* how far ncl_host_create_with_modules is
    doc,        \* the model document of the host
    root,       \* server->root_node: a document, and its METHODS items
    bindings,   \* server->bindings, a registration of a point at a time
    tool_at, point_at,  \* the next point to be registered
    methods_dirty,
    work,       \* what each handler is doing
    model_file, \* the file ncl_server_save_model writes, or EmptyRoot
    held,       \* the last model a client was told
    sets,
    raced       \* two threads were at the METHODS item, or one at it and one at the table

host == <<given, pc, doc, tool_at, point_at>>
vars == <<host, root, bindings, methods_dirty, work, model_file, held, sets, raced>>

Idle == [kind |-> "idle"]
EmptyRoot == [doc |-> NoModel, methods |-> <<>>]
Bare(d) == [doc |-> d, methods |-> <<>>]

Tools == IF given.file THEN <<given.adapter, FileTool>> ELSE <<given.adapter>>

\* What can be called, as the METHODS item tells it.
Operations(table) ==
    UNION {{[tool |-> table[k].tool, path |-> table[k].path, op |-> op] : op \in table[k].ops} :
               k \in DOMAIN table}

Init ==
    /\ given \in [adapter : Adapters, model : SiteModels \cup {NoModel}, file : BOOLEAN]
    /\ pc = "document" /\ doc = NoModel /\ root = EmptyRoot
    /\ bindings = <<>> /\ tool_at = 1 /\ point_at = 1 /\ methods_dirty = FALSE
    /\ work = [h \in Handlers |-> Idle]
    /\ model_file = EmptyRoot /\ held = EmptyRoot /\ sets = 0 /\ raced = FALSE

(***************************************************************************)
(* The METHODS item.                                                       *)
(***************************************************************************)
\* The id of the k-th attempt, "methods", "methods1" and so on.
MethodsId(k) == <<"methods", k>>

Taken(d, k) == \E n \in ToSet(d.nodes) : n.id = MethodsId(k)

\* The first id that no node of the model has; the last one if all are taken.
FreeMethodsId(d) ==
    MethodsId(CHOOSE k \in 0..(MaxIds - 1) :
                  /\ ~Taken(d, k) \/ k = MaxIds - 1
                  /\ \A j \in 0..(k - 1) : Taken(d, j))

\* The second half of ncl_server_refresh_methods: the value goes into the item
\* of the model that is there now, an item is made if there is none.
Refreshed(r, value) ==
    [r EXCEPT !.methods = IF @ = <<>> THEN <<[id |-> FreeMethodsId(r.doc), value |-> value]>>
                          ELSE [@ EXCEPT ![1].value = value]]

\* Handlers that have taken the value or the item out and have yet to put it back.
Writing == {h \in Handlers : work[h].kind \in {"refresh", "save"}}

(***************************************************************************)
(* The host.                                                               *)
(***************************************************************************)
\* ncl_host_free; what becomes of requests in progress is ServerCalls' matter.
HostFree ==
    /\ pc' = "failed" /\ root' = EmptyRoot /\ bindings' = <<>>
    /\ work' = [h \in Handlers |-> Idle]
    /\ UNCHANGED <<given, doc, tool_at, point_at, methods_dirty, model_file, held, sets, raced>>

\* The document the configuration names, or the one of the declaration.
BuildDocument ==
    /\ pc = "document"
    /\ \/ /\ given.model # NoModel
          /\ doc' = given.model /\ pc' = "server"
       \/ /\ given.model = NoModel /\ Valid(given.adapter)
          /\ doc' = ToolModel(given.adapter)
          /\ pc' = IF given.file THEN "file" ELSE "server"
    /\ UNCHANGED <<given, root, bindings, tool_at, point_at, methods_dirty, work, model_file,
                   held, sets, raced>>

AddFileTool ==
    /\ pc = "file" /\ doc.device = FileTool.device
    /\ doc' = Joined(doc, FileTool) /\ pc' = "server"
    /\ UNCHANGED <<given, root, bindings, tool_at, point_at, methods_dirty, work, model_file,
                   held, sets, raced>>

DocumentFails ==
    /\ \/ pc = "document" /\ given.model = NoModel /\ ~Valid(given.adapter)
       \/ pc = "file" /\ doc.device # FileTool.device
    /\ HostFree

\* A document that does not parse leaves the server without a model.
CreateServer ==
    /\ pc = "server"
    /\ \/ MayParse(doc) /\ root' = Refreshed(Bare(doc), {})
       \/ ~Parses(doc) /\ root' = EmptyRoot
    /\ pc' = "open"
    /\ UNCHANGED <<given, doc, bindings, tool_at, point_at, methods_dirty, work, model_file,
                   held, sets, raced>>

\* ncl_tool_register checks the declaration and opens the connection, once.
OpenTool ==
    /\ pc = "open" /\ Valid(Tools[tool_at])
    /\ pc' = "points" /\ point_at' = 1
    /\ UNCHANGED <<given, doc, root, bindings, tool_at, methods_dirty, work, model_file, held,
                   sets, raced>>

OpenFails == pc = "open" /\ HostFree

\* The path a client addresses: the device, then what the declaration says.
ModelPath(device, path) == <<device>> \o path

\* One row stands for the methods of a point and for the bindings of its path.
Row(tool, i) ==
    [tool |-> tool.name, path |-> ModelPath(tool.device, tool.points[i].path),
     ops |-> tool.points[i].ops, point |-> i, bound |-> TRUE]

RegisterPoint ==
    /\ pc = "points"
    /\ LET tool == Tools[tool_at]
           last == point_at = Len(tool.points)
       IN  /\ bindings' = Append(bindings, Row(tool, point_at))
           /\ point_at' = IF last THEN 1 ELSE point_at + 1
           /\ tool_at' = IF last /\ tool_at < Len(Tools) THEN tool_at + 1 ELSE tool_at
           /\ pc' = IF ~last THEN "points" ELSE IF tool_at < Len(Tools) THEN "open" ELSE "up"
    /\ methods_dirty' = TRUE /\ raced' = (raced \/ Writing # {})
    /\ UNCHANGED <<given, doc, root, work, model_file, held, sets>>

Builtin(method) ==
    [tool |-> "nclinkServer", path |-> <<method>>, ops |-> {"func_call"},
     point |-> 1, bound |-> FALSE]

\* main registers the built in tool when the host is up.
RegisterBuiltin ==
    /\ pc = "up"
    /\ bindings' = bindings \o <<Builtin("addSample"), Builtin("removeSample")>>
    /\ methods_dirty' = TRUE /\ raced' = (raced \/ Writing # {})
    /\ pc' = "running"
    /\ UNCHANGED <<given, doc, root, tool_at, point_at, work, model_file, held, sets>>

(***************************************************************************)
(* The handlers.                                                           *)
(***************************************************************************)
Serving == pc \in {"open", "points", "up", "running"}

\* ncl_server_resolve_path.  Of nodes that share the id any may be found.
PathsOf(q) ==
    IF q.kind = "id"
    THEN {ModelPath(root.doc.device, n.path) : n \in {n \in ToSet(root.doc.nodes) : n.id = q.id}}
    ELSE {q.path}

Resolve(h, q) ==
    /\ Serving /\ work[h] = Idle
    /\ \E path \in PathsOf(q) :
          work' = [work EXCEPT ![h] = [kind |-> "lookup", q |-> q, path |-> path]]
    /\ UNCHANGED <<host, root, bindings, methods_dirty, model_file, held, sets, raced>>

\* Mistake: the key is the path alone.
ServesPath(row, path, op) == row.bound /\ row.path = path

\* ncl_server_lookup: does this row have the key "<operation>#<path>"?
Serves(row, path, op) == row.bound /\ row.path = path /\ op \in row.ops

\* ncl_server_find_method: the tool may be left out, a method is a point and an operation.
Names(row, tool, path, op) == tool \in {"any", row.tool} /\ row.path = path /\ op \in row.ops

Fits(row, q, path) ==
    IF q.kind = "name" THEN Names(row, q.tool, path, q.op) ELSE Serves(row, path, q.op)

\* k is the first row that fits, 0 if there is none.
Found(k, q, path) ==
    \/ k = 0 /\ \A j \in DOMAIN bindings : ~Fits(bindings[j], q, path)
    \/ /\ k # 0 /\ Fits(bindings[k], q, path)
       /\ \A j \in 1..(k - 1) : ~Fits(bindings[j], q, path)

\* The binding is called; the answer says which point ran, 0 for "not found".
Invoke(h) ==
    /\ work[h].kind = "lookup"
    /\ \E k \in 0..Len(bindings) :
          /\ Found(k, work[h].q, work[h].path)
          /\ work' = [work EXCEPT ![h] =
                        [kind |-> "answer", q |-> work[h].q, path |-> work[h].path,
                         tool |-> IF k = 0 THEN "none" ELSE bindings[k].tool,
                         point |-> IF k = 0 THEN 0 ELSE bindings[k].point,
                         all |-> pc = "running"]]
    /\ UNCHANGED <<host, root, bindings, methods_dirty, model_file, held, sets, raced>>

Answer(h) ==
    /\ work[h].kind = "answer"
    /\ work' = [work EXCEPT ![h] = Idle]
    /\ UNCHANGED <<host, root, bindings, methods_dirty, model_file, held, sets, raced>>

\* A probe query of a model whose item is up to date.
ProbeQuery(h) ==
    /\ Serving /\ work[h] = Idle /\ root # EmptyRoot /\ ~methods_dirty
    /\ held' = root
    /\ UNCHANGED <<host, root, bindings, methods_dirty, work, model_file, sets, raced>>

\* ncl_server_flush_methods, first half: what can be called is collected.
BeginRefresh(h) ==
    /\ Serving /\ work[h] = Idle /\ root # EmptyRoot /\ methods_dirty
    /\ work' = [work EXCEPT ![h] =
                   [kind |-> "refresh", value |-> Operations(bindings), set |-> FALSE]]
    /\ raced' = (raced \/ Writing # {})
    /\ UNCHANGED <<host, root, bindings, methods_dirty, model_file, held, sets>>

\* Mistake: a model that is put in place is not given its METHODS item.
SetOnly(h, r) ==
    /\ Serving /\ work[h] = Idle /\ sets < MaxSets
    /\ root' = r /\ sets' = sets + 1 /\ raced' = (raced \/ Writing # {})
    /\ UNCHANGED <<host, bindings, methods_dirty, work, model_file, held>>

\* A probe set: ncl_server_set_model puts the model in place and refreshes.
ProbeSet(h, r) ==
    /\ Serving /\ work[h] = Idle /\ sets < MaxSets
    /\ root' = r /\ sets' = sets + 1 /\ raced' = (raced \/ Writing # {})
    /\ work' = [work EXCEPT ![h] =
                   [kind |-> "refresh", value |-> Operations(bindings), set |-> TRUE]]
    /\ UNCHANGED <<host, bindings, methods_dirty, model_file, held>>

\* The second half.  A probe query then answers; after a probe set the item is
\* taken out of the model while ncl_server_save_model writes the file.
EndRefresh(h) ==
    /\ work[h].kind = "refresh"
    /\ methods_dirty' = FALSE
    /\ LET r == Refreshed(root, work[h].value)
           saves == work[h].set /\ model_file = EmptyRoot
       IN  /\ root' = IF saves THEN [r EXCEPT !.methods = Tail(@)] ELSE r
           /\ work' = [work EXCEPT ![h] = IF saves THEN [kind |-> "save", item |-> r.methods[1]]
                                          ELSE Idle]
           /\ held' = IF work[h].set THEN held ELSE r
    /\ UNCHANGED <<host, bindings, model_file, sets, raced>>

EndSave(h) ==
    /\ work[h].kind = "save"
    /\ model_file' = root
    /\ root' = [root EXCEPT !.methods = Append(@, work[h].item)]
    /\ work' = [work EXCEPT ![h] = Idle]
    /\ UNCHANGED <<host, bindings, methods_dirty, held, sets, raced>>

Next ==
    \/ BuildDocument \/ AddFileTool \/ DocumentFails \/ CreateServer
    \/ OpenTool \/ OpenFails \/ RegisterPoint \/ RegisterBuiltin
    \/ \E h \in Handlers :
          \/ \E q \in Questions : Resolve(h, q)
          \/ Invoke(h) \/ Answer(h) \/ ProbeQuery(h) \/ BeginRefresh(h)
          \/ EndRefresh(h) \/ EndSave(h)
          \/ \E d \in {d \in SiteModels : MayParse(d)} :
                 ProbeSet(h, Bare(d))
          \/ held # EmptyRoot /\ ProbeSet(h, held)

Spec == Init /\ [][Next]_vars

(***************************************************************************)
(* Properties.                                                             *)
(***************************************************************************)
TypeOK ==
    /\ pc \in {"document", "file", "server", "open", "points", "up", "running", "failed"}
    /\ tool_at \in DOMAIN Tools
    /\ pc = "points" => point_at \in DOMAIN Tools[tool_at].points
    /\ methods_dirty \in BOOLEAN /\ raced \in BOOLEAN /\ sets \in 0..MaxSets
    /\ \A h \in Handlers :
         work[h].kind \in {"idle", "lookup", "answer", "refresh", "save"}

\* The document the host built from declarations.
Built == given.model = NoModel /\ pc \notin {"document", "file", "failed"}

\* "a model is looked up by id": no two nodes of the document share one.
IdsUnique ==
    LET ids == [k \in DOMAIN doc.nodes |-> doc.nodes[k].id] IN IsInjective(ids)

\* Every point with a value is one node of the model, at its path and of its kind.
PointsPlaced ==
    \A t \in DOMAIN Tools : \A p \in ToSet(Tools[t].points) :
        ~IsMethod(p) =>
            \E n \in ToSet(doc.nodes) :
                /\ n.kind = (IF p.config THEN "config" ELSE "item") /\ n.path = p.path
                /\ \A m \in ToSet(doc.nodes) : m.path = p.path => m = n

\* A channel finds the points that were declared sampled, all of them data items.
ChannelsFind ==
    \A c \in ToSet(doc.nodes) : c.kind = "channel" =>
        {<<n.kind, n.path>> : n \in {n \in ToSet(doc.nodes) : n.id \in ToSet(c.refs)}}
            = {<<"item", p.path>> : p \in {p \in ToSet(given.adapter.points) : p.sampled}}

\* The walk meets the highest id of each letter.  It does for the adapters of the
\* repository; a component below the first level that is numbered last is not met.
NumbersMet(decl) ==
    LET nodes == ToolModel(decl).nodes IN
    \A n \in ToSet(nodes) : \E id \in Met(nodes) : id[1] = n.id[1] /\ id[2] >= n.id[2]

\* The model of the declarations says where each point is, whichever tool it comes
\* from, and the server accepts it; ids and sampled points are right as well, but
\* for a declaration that is joined to another and has numbers the walk misses.
DocumentSound ==
    /\ TypeOK
    /\ Built => PointsPlaced /\ Parses(doc)
    /\ Built /\ (given.file => NumbersMet(given.adapter)) => IdsUnique /\ ChannelsFind

Declared(tool, i, path, op) ==
    /\ i \in DOMAIN tool.points /\ op \in tool.points[i].ops
    /\ path = ModelPath(tool.device, tool.points[i].path)

\* The tools a question is for.
Asks(q, t) == q.kind # "name" \/ q.tool \in {"any", Tools[t].name}

AnswerRight(a) ==
    /\ a.point # 0 /\ a.tool # "nclinkServer" =>
          \E t \in DOMAIN Tools :
              /\ Asks(a.q, t) /\ Tools[t].name = a.tool
              /\ Declared(Tools[t], a.point, a.path, a.q.op)
    /\ a.point = 0 /\ a.all =>
          \A t \in {t \in DOMAIN Tools : Asks(a.q, t)} : \A i \in DOMAIN Tools[t].points :
              ~Declared(Tools[t], i, a.path, a.q.op)

\* A request runs the point that declares the operation at the path it was
\* resolved to, and is told "not found" only if none does, whatever is registered
\* and whichever model is put in place in between.
RightPoint == \A h \in Handlers : work[h].kind = "answer" => AnswerRight(work[h])

\* METHODS tells of nothing that cannot be called.
OnlyBound ==
    \A k \in DOMAIN root.methods : root.methods[k].value \subseteq Operations(bindings)

\* "what can be called right now": a model that is up to date has one item, under
\* an id of its own, with exactly the operations that are bound.
UpToDate ==
    root # EmptyRoot /\ ~methods_dirty /\ Writing = {} =>
        /\ Len(root.methods) = 1
        /\ root.methods[1].value = Operations(bindings)
        /\ \A n \in ToSet(root.doc.nodes) : n.id # root.methods[1].id

\* The file stays "what the site handed us", without METHODS.
FileIsTheSites == model_file.methods = <<>>

\* The documents a server can be given, and the assumption of the code that each
\* leaves METHODS one of the ids that are tried.
Documents ==
    SiteModels \cup {ToolModel(a) : a \in Adapters}
               \cup {Joined(ToolModel(a), FileTool) : a \in Adapters}

HasRoom(d) == \E k \in 0..(MaxIds - 1) : ~Taken(d, k)
Room == \A d \in Documents : HasRoom(d)

\* What the declarations keep to: a point with a value has a path of its own that is
\* neither a component of another nor the channel, and no tool is called like an id.
ValuePaths(decl) == {decl.points[i].path : i \in Values(decl)}

WellNamed(decl) ==
    /\ decl.name \notin {"p", "c"}
    /\ \A path \in ValuePaths(decl) :
          path \in Seq(STRING) /\ path \notin {<<>>, <<"SAMPLE_CHANNEL">>}
    /\ \A v, w \in ValuePaths(decl) : IsPrefix(v, w) => v = w

\* The file tool says nothing of what the adapter has.
Joinable(decl) ==
    \A v \in ValuePaths(decl), w \in ValuePaths(FileTool) : ~IsPrefix(v, w) /\ ~IsPrefix(w, v)

\* The file tool is flat, and has no channel.
Declarable ==
    /\ Valid(FileTool) /\ WellNamed(FileTool) /\ Channel(FileTool) = <<>>
    /\ \A path \in ValuePaths(FileTool) : Len(path) <= 2
    /\ \A a \in Adapters :
          Valid(a) => WellNamed(a) /\ (a.device = FileTool.device => Joinable(a))

\* However models come and go, as long as one thread at a time is at the item.
CapabilitiesTold == OnlyBound /\ (~raced => UpToDate /\ FileIsTheSites)

=============================================================================
