------------------------- MODULE DeviceModelProofs -------------------------
(* Theorems about DeviceModel, for any declarations, models and handlers. *)
EXTENDS DeviceModel, SequenceTheorems, FiniteSetTheorems, WellFoundedInduction, TLAPS

Phases == {"document", "file", "server", "open", "points", "up", "running", "failed"}

\* Every row that can ever be in the table.
ToolRows == UNION {{Row(Tools[t], i) : i \in DOMAIN Tools[t].points} : t \in DOMAIN Tools}
AllRows  == ToolRows \cup {Builtin("addSample"), Builtin("removeSample")}

HostInv ==
    /\ given \in [adapter : Adapters, model : SiteModels \cup {NoModel}, file : BOOLEAN]
    /\ pc \in Phases
    /\ tool_at \in DOMAIN Tools
    /\ pc = "points" => point_at \in DOMAIN Tools[tool_at].points

TableInv == bindings \in Seq(AllRows)

\* How far the registration is.
Registered(t, i) ==
    \/ t < tool_at
    \/ pc \in {"up", "running"}
    \/ pc = "points" /\ t = tool_at /\ i < point_at

\* The table has what the registration has passed.
Complete ==
    pc # "failed" =>
        \A t \in DOMAIN Tools : \A i \in DOMAIN Tools[t].points :
            Registered(t, i) => \E k \in DOMAIN bindings : bindings[k] = Row(Tools[t], i)

WorkInv == work = [h \in Handlers |-> work[h]]

IInv == HostInv /\ TableInv /\ Complete /\ WorkInv /\ RightPoint

\* What METHODS can say, and the trees it is in.
Items == [id : {MethodsId(k) : k \in 0..(MaxIds - 1)}, value : SUBSET Operations(bindings)]
Trees == [doc : Documents \cup {NoModel}, methods : Seq(Items)]

\* Until there is a server there is nothing to be told.
Unborn ==
    pc \in {"document", "file", "server"} =>
        root = EmptyRoot /\ held = EmptyRoot /\ bindings = <<>> /\ Writing = {}

DocInv ==
    /\ pc = "file" => \E a \in Adapters : doc = ToolModel(a)
    /\ pc = "server" => doc \in Documents

\* What is told, and what is about to be told, can be called.
Told ==
    /\ root \in Trees
    /\ pc # "failed" => held \in Trees
    /\ \A h \in Handlers :
          /\ work[h].kind = "refresh" => work[h].value \subseteq Operations(bindings)
          /\ work[h].kind = "save" => work[h].item \in Items

\* At most one item, under an id of its own.
OneItem(r) ==
    /\ Len(r.methods) <= 1
    /\ Len(r.methods) = 1 => \A n \in ToSet(r.doc.nodes) : n.id # r.methods[1].id

\* The one handler that is at the item holds what has to be put back.
Alone ==
    /\ \A g, h \in Writing : g = h
    /\ OneItem(root) /\ OneItem(held)
    /\ model_file.methods = <<>>
    /\ \A h \in Writing :
          /\ work[h].kind = "refresh" => work[h].value = Operations(bindings)
          /\ work[h].kind = "save" =>
                /\ root.methods = <<>> /\ work[h].item.value = Operations(bindings)
                /\ \A n \in ToSet(root.doc.nodes) : n.id # work[h].item.id
    /\ root # EmptyRoot /\ ~methods_dirty /\ Writing = {} =>
          Len(root.methods) = 1 /\ root.methods[1].value = Operations(bindings)

CapInv == Unborn /\ DocInv /\ Told /\ (~raced /\ Room => Alone)

-----------------------------------------------------------------------------
(* Tools and rows                                                          *)

\* There are one or two tools, and their points are numbered from 1.
LEMMA ToolsShape ==
    ASSUME HostInv
    PROVE  /\ Len(Tools) \in {1, 2} /\ DOMAIN Tools = 1..Len(Tools)
           /\ \A t \in DOMAIN Tools :
                 /\ Len(Tools[t].points) \in Nat
                 /\ DOMAIN Tools[t].points = 1..Len(Tools[t].points)
<1>1. given.adapter \in Adapters /\ given.file \in BOOLEAN
  BY DEF HostInv
<1>2. CASE given.file
  <2>1. Tools = <<given.adapter, FileTool>>
    BY <1>2 DEF Tools
  <2> QED BY <1>1, <2>1, DeviceAssumption DEF DeviceAssumption
<1>3. CASE ~given.file
  <2>1. Tools = <<given.adapter>>
    BY <1>3 DEF Tools
  <2> QED BY <1>1, <2>1, DeviceAssumption DEF DeviceAssumption
<1> QED BY <1>1, <1>2, <1>3

\* What a row of a tool says, and what one of the built in tool says.
LEMMA RowShape ==
    ASSUME HostInv, NEW r \in AllRows
    PROVE  /\ r.point # 0
           /\ \/ r.tool = "nclinkServer"
              \/ \E t \in DOMAIN Tools : \E i \in DOMAIN Tools[t].points :
                     r = Row(Tools[t], i)
<1>1. CASE r \in {Builtin("addSample"), Builtin("removeSample")}
  BY <1>1 DEF Builtin
<1>2. CASE r \in ToolRows
  <2>1. PICK t \in DOMAIN Tools : r \in {Row(Tools[t], i) : i \in DOMAIN Tools[t].points}
    BY <1>2 DEF ToolRows
  <2>2. PICK i \in DOMAIN Tools[t].points : r = Row(Tools[t], i)
    BY <2>1
  <2>3. i # 0
    BY ToolsShape
  <2>4. r.point # 0
    BY <2>2, <2>3 DEF Row
  <2> QED BY <2>2, <2>4
<1> QED BY <1>1, <1>2 DEF AllRows

-----------------------------------------------------------------------------
(* Steps                                                                   *)

\* Steps that leave the table and the progress of the host alone.
LEMMA HostStays ==
    ASSUME HostInv, TableInv, Complete, UNCHANGED <<host, bindings>>
    PROVE  HostInv' /\ TableInv' /\ Complete'
<1>1. /\ Tools' = Tools /\ given' = given /\ pc' = pc /\ tool_at' = tool_at
      /\ point_at' = point_at /\ bindings' = bindings
  BY DEF host, Tools
<1>2. HostInv'
  BY <1>1 DEF HostInv
<1>3. TableInv'
  BY <1>1 DEF TableInv, AllRows, ToolRows, Row, ModelPath, Builtin
<1>4. Complete'
  BY <1>1 DEF Complete, Registered, Row, ModelPath
<1> QED BY <1>2, <1>3, <1>4

\* What a handler was told stays right while the tools stay the same.
LEMMA AnswersStay ==
    ASSUME RightPoint, given' = given, work' = work
    PROVE  RightPoint'
<1>1. Tools' = Tools
  BY DEF Tools
<1>2. \A q, t : Asks(q, t)' <=> Asks(q, t)
  BY <1>1 DEF Asks
<1>3. \A tool, i, path, op : Declared(tool, i, path, op)' <=> Declared(tool, i, path, op)
  BY DEF Declared, ModelPath
<1> QED BY <1>1, <1>2, <1>3 DEF RightPoint, AnswerRight

\* A handler that does something other than answer.
LEMMA HandlerMoves ==
    ASSUME IInv, UNCHANGED <<host, bindings>>, NEW h \in Handlers, NEW v,
           work' = [work EXCEPT ![h] = v], v.kind = "answer" => AnswerRight(v)
    PROVE  IInv'
<1>1. HostInv' /\ TableInv' /\ Complete'
  BY HostStays DEF IInv
<1>2. WorkInv'
  BY DEF IInv, WorkInv
<1>3. RightPoint'
  <2> SUFFICES ASSUME NEW x \in Handlers, work'[x].kind = "answer"
               PROVE  AnswerRight(work[x])'
    BY DEF RightPoint
  <2>1. Tools' = Tools
    BY DEF host, Tools
  <2>2. PICK a : a = work'[x] /\ AnswerRight(a)
    <3>1. CASE x = h
      <4>1. work'[x] = v
        BY <3>1 DEF IInv, WorkInv
      <4> QED BY <4>1
    <3>2. CASE x # h
      <4>1. work'[x] = work[x]
        BY <3>2
      <4> QED BY <4>1 DEF IInv, RightPoint
    <3> QED BY <3>1, <3>2
  <2>3. \A q, t : Asks(q, t)' <=> Asks(q, t)
    BY <2>1 DEF Asks
  <2>4. \A tool, i, path, op : Declared(tool, i, path, op)' <=> Declared(tool, i, path, op)
    BY DEF Declared, ModelPath
  <2> QED BY <2>1, <2>2, <2>3, <2>4 DEF AnswerRight
<1> QED BY <1>1, <1>2, <1>3 DEF IInv

\* The binding that is called is the one the tools declare.
LEMMA Called ==
    ASSUME IInv, NEW q, NEW path, NEW k \in 0..Len(bindings), Found(k, q, path),
           NEW a, a.q = q, a.path = path, a.all <=> pc = "running",
           a.tool = IF k = 0 THEN "none" ELSE bindings[k].tool,
           a.point = IF k = 0 THEN 0 ELSE bindings[k].point
    PROVE  AnswerRight(a)
<1>1. CASE k = 0
  <2>1. SUFFICES ASSUME pc = "running",
                        NEW t \in DOMAIN Tools, Asks(q, t),
                        NEW i \in DOMAIN Tools[t].points,
                        Declared(Tools[t], i, path, q.op)
                 PROVE  FALSE
    BY <1>1 DEF AnswerRight
  <2>2. PICK j \in DOMAIN bindings : bindings[j] = Row(Tools[t], i)
    BY <2>1 DEF IInv, Complete, Registered
  <2>3. Fits(Row(Tools[t], i), q, path)
    BY <2>1 DEF Fits, Names, Serves, Row, Asks, Declared
  <2> QED BY <1>1, <2>2, <2>3 DEF Found
<1>2. CASE k # 0
  <2>1. bindings[k] \in AllRows /\ Fits(bindings[k], q, path)
    BY <1>2 DEF IInv, TableInv, Found
  <2>2. a.point # 0 /\ a.tool = bindings[k].tool /\ a.point = bindings[k].point
    BY <1>2, <2>1, RowShape DEF IInv
  <2>3. SUFFICES ASSUME a.tool # "nclinkServer"
                 PROVE  \E t \in DOMAIN Tools :
                           /\ Asks(q, t) /\ Tools[t].name = a.tool
                           /\ Declared(Tools[t], a.point, path, q.op)
    BY <2>2 DEF AnswerRight
  <2>7. PICK t \in DOMAIN Tools : \E i \in DOMAIN Tools[t].points : bindings[k] = Row(Tools[t], i)
    BY <2>1, <2>2, <2>3, RowShape DEF IInv
  <2>4. PICK i \in DOMAIN Tools[t].points : bindings[k] = Row(Tools[t], i)
    BY <2>7
  <2>5. a.tool = Tools[t].name /\ a.point = i
    BY <2>2, <2>4 DEF Row
  <2>6. Asks(q, t) /\ Declared(Tools[t], i, path, q.op)
    BY <2>1, <2>4 DEF Fits, Names, Serves, Row, Asks, Declared
  <2> QED BY <2>5, <2>6
<1> QED BY <1>1, <1>2

\* The host gives up: nothing is bound and nobody is being answered.
LEMMA FreeKeeps == ASSUME IInv, HostFree PROVE IInv'
  BY DEF IInv, HostFree, HostInv, TableInv, Complete, WorkInv, RightPoint, Phases, Tools,
         Idle

\* The host goes on without touching table or registration.
LEMMA HostMoves ==
    ASSUME IInv, UNCHANGED <<given, bindings, tool_at, work>>,
           pc' \in {"file", "server", "open"}, pc \in {"document", "file", "server"}
    PROVE  IInv'
<1>0. Tools' = Tools
  BY DEF Tools
<1>1. HostInv' /\ TableInv'
  <2>1. HostInv'
    BY <1>0 DEF IInv, HostInv, Phases
  <2>2. AllRows' = AllRows
    BY <1>0 DEF AllRows, ToolRows, Row, ModelPath, Builtin
  <2> QED BY <2>1, <2>2 DEF IInv, TableInv
<1>2. Complete'
  <2>1. \A t \in DOMAIN Tools : \A i \in DOMAIN Tools[t].points :
           Registered(t, i)' => Registered(t, i)
    BY DEF Registered
  <2>2. pc # "failed"
    OBVIOUS
  <2> QED BY <1>0, <2>1, <2>2 DEF IInv, Complete, Row, ModelPath
<1>3. WorkInv' /\ RightPoint'
  BY AnswersStay DEF IInv, WorkInv
<1> QED BY <1>1, <1>2, <1>3 DEF IInv

\* A tool that is opened has points, by its declaration.
LEMMA OpenKeeps == ASSUME IInv, OpenTool PROVE IInv'
<1>1. Tools' = Tools
  BY DEF OpenTool, Tools
<1>2. 1 \in DOMAIN Tools[tool_at].points
  BY ToolsShape DEF IInv, HostInv, OpenTool, Valid
<1>3. HostInv'
  BY <1>1, <1>2 DEF IInv, HostInv, OpenTool, Phases
<1>4. TableInv'
  BY <1>1 DEF IInv, TableInv, OpenTool, AllRows, ToolRows, Row, ModelPath, Builtin
<1>5. Complete'
  <2> SUFFICES ASSUME NEW t \in DOMAIN Tools, NEW i \in DOMAIN Tools[t].points,
                      Registered(t, i)'
               PROVE  \E k \in DOMAIN bindings : bindings[k] = Row(Tools[t], i)
    BY <1>1 DEF Complete, OpenTool, Row, ModelPath
  <2>1. i \in Nat \ {0}
    BY ToolsShape DEF IInv
  <2>2. pc' = "points" /\ point_at' = 1 /\ tool_at' = tool_at
    BY DEF OpenTool, host
  <2>3. ~(i < 1)
    BY <2>1
  <2>4. t < tool_at
    BY <2>2, <2>3 DEF Registered
  <2> QED BY <2>4 DEF IInv, Complete, Registered, OpenTool
<1>6. WorkInv' /\ RightPoint'
  BY AnswersStay DEF IInv, WorkInv, OpenTool
<1> QED BY <1>3, <1>4, <1>5, <1>6 DEF IInv

\* A point is registered: its row is new, the others are still there.
LEMMA RegisterKeeps == ASSUME IInv, RegisterPoint PROVE IInv'
<1> DEFINE last == point_at = Len(Tools[tool_at].points)
<1>1. Tools' = Tools
  BY DEF RegisterPoint, Tools
<1>2. /\ Len(Tools) \in {1, 2} /\ DOMAIN Tools = 1..Len(Tools)
      /\ \A t \in DOMAIN Tools : /\ Len(Tools[t].points) \in Nat
                                 /\ DOMAIN Tools[t].points = 1..Len(Tools[t].points)
  BY ToolsShape DEF IInv
<1>3. /\ pc = "points" /\ tool_at \in 1..Len(Tools)
      /\ point_at \in 1..Len(Tools[tool_at].points)
      /\ point_at' = IF last THEN 1 ELSE point_at + 1
      /\ tool_at' = IF last /\ tool_at < Len(Tools) THEN tool_at + 1 ELSE tool_at
      /\ pc' = IF ~last THEN "points" ELSE IF tool_at < Len(Tools) THEN "open" ELSE "up"
      /\ bindings' = Append(bindings, Row(Tools[tool_at], point_at))
      /\ given' = given /\ work' = work
  BY <1>2 DEF IInv, HostInv, RegisterPoint
<1>4. HostInv'
  <2>1. given' \in [adapter : Adapters, model : SiteModels \cup {NoModel}, file : BOOLEAN]
    BY <1>3 DEF IInv, HostInv
  <2>2. pc' \in Phases
    BY <1>3 DEF Phases
  <2>3. tool_at' \in DOMAIN Tools
    BY <1>2, <1>3
  <2>4. pc' = "points" => point_at' \in DOMAIN Tools[tool_at'].points
    BY <1>2, <1>3
  <2> QED BY <1>1, <2>1, <2>2, <2>3, <2>4 DEF HostInv
<1>5. Row(Tools[tool_at], point_at) \in AllRows
  <2>1. tool_at \in DOMAIN Tools /\ point_at \in DOMAIN Tools[tool_at].points
    BY <1>2, <1>3
  <2>2. Row(Tools[tool_at], point_at) \in
            {Row(Tools[tool_at], i) : i \in DOMAIN Tools[tool_at].points}
    BY <2>1
  <2> QED BY <2>1, <2>2 DEF AllRows, ToolRows
<1>6. TableInv'
  <2>1. AllRows' = AllRows
    BY <1>1 DEF AllRows, ToolRows, Row, ModelPath, Builtin
  <2> QED BY <1>3, <1>5, <2>1 DEF IInv, TableInv
<1>7. Complete'
  <2> SUFFICES ASSUME NEW t \in DOMAIN Tools, NEW i \in DOMAIN Tools[t].points,
                      Registered(t, i)'
               PROVE  \E k \in DOMAIN bindings' : bindings'[k] = Row(Tools[t], i)
    BY <1>1 DEF Complete, Row, ModelPath
  <2>1. bindings \in Seq(AllRows)
    BY DEF IInv, TableInv
  <2>2. CASE t = tool_at /\ i = point_at
    <3>1. /\ Len(bindings) + 1 \in DOMAIN bindings'
          /\ bindings'[Len(bindings) + 1] = Row(Tools[tool_at], point_at)
      BY <1>3, <1>5, <2>1
    <3> QED BY <2>2, <3>1
  <2>3. CASE ~(t = tool_at /\ i = point_at)
    <3>1. t \in 1..Len(Tools) /\ i \in 1..Len(Tools[t].points)
      BY <1>2
    <3>2. t < tool_at \/ (t = tool_at /\ i < point_at)
      BY <1>2, <1>3, <2>3, <3>1 DEF Registered
    <3>3. PICK k \in DOMAIN bindings : bindings[k] = Row(Tools[t], i)
      BY <1>3, <3>2 DEF IInv, Complete, Registered
    <3>4. k \in DOMAIN bindings' /\ bindings'[k] = bindings[k]
      BY <1>3, <1>5, <2>1, <3>3
    <3> QED BY <3>3, <3>4
  <2> QED BY <2>2, <2>3
<1>8. WorkInv' /\ RightPoint'
  BY <1>3, AnswersStay DEF IInv, WorkInv
<1> QED BY <1>4, <1>6, <1>7, <1>8 DEF IInv

\* The built in tool comes last.
LEMMA BuiltinKeeps == ASSUME IInv, RegisterBuiltin PROVE IInv'
<1>1. Tools' = Tools
  BY DEF RegisterBuiltin, Tools
<1>2. bindings \in Seq(AllRows) /\ Builtin("addSample") \in AllRows
         /\ Builtin("removeSample") \in AllRows
  BY DEF IInv, TableInv, AllRows
<1>3. HostInv'
  BY <1>1 DEF IInv, HostInv, RegisterBuiltin, Phases
<1>4. TableInv'
  <2>1. AllRows' = AllRows
    BY <1>1 DEF AllRows, ToolRows, Row, ModelPath, Builtin
  <2> QED BY <1>2, <2>1 DEF TableInv, RegisterBuiltin
<1>5. Complete'
  <2> SUFFICES ASSUME NEW t \in DOMAIN Tools, NEW i \in DOMAIN Tools[t].points
               PROVE  \E k \in DOMAIN bindings' : bindings'[k] = Row(Tools[t], i)
    BY <1>1 DEF Complete, Row, ModelPath
  <2>1. PICK k \in DOMAIN bindings : bindings[k] = Row(Tools[t], i)
    BY DEF IInv, Complete, Registered, RegisterBuiltin
  <2>2. k \in DOMAIN bindings' /\ bindings'[k] = bindings[k]
    BY <1>2 DEF RegisterBuiltin
  <2> QED BY <2>1, <2>2
<1>6. WorkInv' /\ RightPoint'
  BY AnswersStay DEF IInv, WorkInv, RegisterBuiltin
<1> QED BY <1>3, <1>4, <1>5, <1>6 DEF IInv

\* Every step of a handler, the call of a point among them.
LEMMA HandlerKeeps ==
    ASSUME IInv, NEW h \in Handlers,
           \/ \E q \in Questions : Resolve(h, q)
           \/ Invoke(h) \/ Answer(h) \/ ProbeQuery(h) \/ BeginRefresh(h)
           \/ EndRefresh(h) \/ EndSave(h)
           \/ \E r : ProbeSet(h, r)
    PROVE  IInv'
<1>1. ASSUME NEW q \in Questions, Resolve(h, q) PROVE IInv'
  <2>1. PICK path : work' = [work EXCEPT ![h] = [kind |-> "lookup", q |-> q, path |-> path]]
    BY <1>1 DEF Resolve
  <2>2. UNCHANGED <<host, bindings>>
    BY <1>1 DEF Resolve
  <2> QED BY <2>1, <2>2, HandlerMoves
<1>2. ASSUME Invoke(h) PROVE IInv'
  <2>1. PICK k \in 0..Len(bindings) :
            /\ Found(k, work[h].q, work[h].path)
            /\ work' = [work EXCEPT ![h] =
                           [kind |-> "answer", q |-> work[h].q, path |-> work[h].path,
                            tool |-> IF k = 0 THEN "none" ELSE bindings[k].tool,
                            point |-> IF k = 0 THEN 0 ELSE bindings[k].point,
                            all |-> pc = "running"]]
    BY <1>2 DEF Invoke
  <2> DEFINE a == [kind |-> "answer", q |-> work[h].q, path |-> work[h].path,
                   tool |-> IF k = 0 THEN "none" ELSE bindings[k].tool,
                   point |-> IF k = 0 THEN 0 ELSE bindings[k].point,
                   all |-> pc = "running"]
  <2>2. AnswerRight(a)
    BY <2>1, Called
  <2>3. UNCHANGED <<host, bindings>>
    BY <1>2 DEF Invoke
  <2>4. work' = [work EXCEPT ![h] = a]
    BY <2>1
  <2> HIDE DEF a
  <2> QED BY <2>2, <2>3, <2>4, HandlerMoves
<1>3. ASSUME Answer(h) PROVE IInv'
  BY <1>3, HandlerMoves DEF Answer, Idle
<1>4. ASSUME ProbeQuery(h) PROVE IInv'
  <2>1. UNCHANGED <<host, bindings, work>>
    BY <1>4 DEF ProbeQuery
  <2>2. HostInv' /\ TableInv' /\ Complete'
    BY <2>1, HostStays DEF IInv
  <2> QED BY <2>1, <2>2, AnswersStay DEF IInv, WorkInv, host
<1>5. ASSUME BeginRefresh(h) PROVE IInv'
  BY <1>5, HandlerMoves DEF BeginRefresh
<1>6. ASSUME EndRefresh(h) PROVE IInv'
  <2>1. PICK v : /\ work' = [work EXCEPT ![h] = v]
                 /\ v.kind \in {"save", "idle"}
    <3> DEFINE saves == work[h].set /\ model_file = EmptyRoot
               item == Refreshed(root, work[h].value).methods[1]
    <3>1. work' = [work EXCEPT ![h] = IF saves THEN [kind |-> "save", item |-> item] ELSE Idle]
      BY <1>6 DEF EndRefresh
    <3>2. (IF saves THEN [kind |-> "save", item |-> item] ELSE Idle).kind \in {"save", "idle"}
      BY DEF Idle
    <3> QED BY <3>1, <3>2
  <2>2. UNCHANGED <<host, bindings>>
    BY <1>6 DEF EndRefresh
  <2> QED BY <2>1, <2>2, HandlerMoves
<1>7. ASSUME EndSave(h) PROVE IInv'
  BY <1>7, HandlerMoves DEF EndSave, Idle
<1>8. ASSUME NEW r, ProbeSet(h, r) PROVE IInv'
  BY <1>8, HandlerMoves DEF ProbeSet
<1> QED BY <1>1, <1>2, <1>3, <1>4, <1>5, <1>6, <1>7, <1>8

-----------------------------------------------------------------------------
(* Theorems                                                                *)

\* The invariant holds at the start.
LEMMA InitInv == ASSUME Init PROVE IInv
<1>1. HostInv
  BY DEF Init, HostInv, Phases, Tools
<1>2. TableInv /\ WorkInv /\ RightPoint
  BY DEF Init, TableInv, WorkInv, RightPoint, Idle
<1>3. Complete
  BY <1>1, ToolsShape DEF Init, Complete, Registered
<1> QED BY <1>1, <1>2, <1>3 DEF IInv

\* Every step keeps the invariant.
LEMMA StepInv == ASSUME IInv, [Next]_vars PROVE IInv'
<1>1. CASE BuildDocument
  BY <1>1, HostMoves DEF BuildDocument
<1>2. CASE AddFileTool
  BY <1>2, HostMoves DEF AddFileTool
<1>3. CASE DocumentFails
  BY <1>3, FreeKeeps DEF DocumentFails
<1>4. CASE CreateServer
  BY <1>4, HostMoves DEF CreateServer
<1>5. CASE OpenTool
  BY <1>5, OpenKeeps
<1>6. CASE OpenFails
  BY <1>6, FreeKeeps DEF OpenFails
<1>7. CASE RegisterPoint
  BY <1>7, RegisterKeeps
<1>8. CASE RegisterBuiltin
  BY <1>8, BuiltinKeeps
<1>9. ASSUME NEW h \in Handlers,
             \/ \E q \in Questions : Resolve(h, q)
             \/ Invoke(h) \/ Answer(h) \/ ProbeQuery(h) \/ BeginRefresh(h)
             \/ EndRefresh(h) \/ EndSave(h)
             \/ \E d \in {d \in SiteModels : MayParse(d)} : ProbeSet(h, Bare(d))
             \/ held # EmptyRoot /\ ProbeSet(h, held)
      PROVE  IInv'
  BY <1>9, HandlerKeeps
<1>10. CASE UNCHANGED vars
  <2>1. UNCHANGED <<host, bindings, work>>
    BY <1>10 DEF vars
  <2>2. HostInv' /\ TableInv' /\ Complete'
    BY <2>1, HostStays DEF IInv
  <2> QED BY <2>1, <2>2, AnswersStay DEF IInv, WorkInv, host
<1> QED BY <1>1, <1>2, <1>3, <1>4, <1>5, <1>6, <1>7, <1>8, <1>9, <1>10 DEF Next

\* A request runs the point that declares it, or learns that there is none: for
\* any declarations, whatever is registered and replaced meanwhile.
THEOREM RunsRightPoint == Spec => []RightPoint
<1>1. Init => IInv
  BY InitInv
<1>2. IInv /\ [Next]_vars => IInv'
  BY StepInv
<1>3. IInv => RightPoint
  BY DEF IInv
<1> QED BY <1>1, <1>2, <1>3, PTL DEF Spec

-----------------------------------------------------------------------------
(* Ids and items                                                           *)

\* A set of naturals that is not empty has a least element.
LEMMA Least ==
    ASSUME NEW S, S \subseteq Nat, S # {}
    PROVE  \E k \in S : \A j \in S : k <= j
<1>1. PICK k \in S : \A j \in S : ~ (<<j, k>> \in OpToRel(<, Nat))
  BY NatLessThanWellFounded, WFMin, Zenon
<1>2. ASSUME NEW j \in S PROVE k <= j
  <2>1. ~(<<j, k>> \in OpToRel(<, Nat))
    BY <1>1
  <2>2. j \in Nat /\ k \in Nat
    OBVIOUS
  <2>3. ~(j < k)
    BY <2>1, <2>2 DEF OpToRel
  <2> QED BY <2>2, <2>3
<1> QED BY <1>2

\* METHODS gets one of the ids that are tried, a free one if there is one.
LEMMA FreeId ==
    ASSUME NEW d
    PROVE  \E k \in 0..(MaxIds - 1) :
              FreeMethodsId(d) = MethodsId(k) /\ (HasRoom(d) => ~Taken(d, k))
<1> DEFINE Will(k) == /\ ~Taken(d, k) \/ k = MaxIds - 1
                      /\ \A j \in 0..(k - 1) : Taken(d, j)
           S == {k \in 0..(MaxIds - 1) : ~Taken(d, k) \/ k = MaxIds - 1}
<1>1. MaxIds \in Nat \ {0}
  BY DeviceAssumption DEF DeviceAssumption
<1>2. S \subseteq Nat /\ MaxIds - 1 \in S
  BY <1>1
<1>3. PICK k \in S : \A j \in S : k <= j
  <2> HIDE DEF S
  <2> QED BY <1>2, Least
<1>4. k \in 0..(MaxIds - 1) /\ Will(k)
  BY <1>1, <1>3
<1>5. PICK c \in 0..(MaxIds - 1) : FreeMethodsId(d) = MethodsId(c) /\ Will(c)
  <2> DEFINE c == CHOOSE k2 \in 0..(MaxIds - 1) : Will(k2)
  <2>1. c \in 0..(MaxIds - 1) /\ Will(c)
    <3> HIDE DEF Will
    <3> QED BY <1>4
  <2>2. FreeMethodsId(d) = MethodsId(c)
    BY DEF FreeMethodsId
  <2> QED BY <2>1, <2>2
<1>6. ASSUME HasRoom(d), Taken(d, c) PROVE FALSE
  <2>1. PICK m \in 0..(MaxIds - 1) : ~Taken(d, m)
    BY <1>6 DEF HasRoom
  <2>2. c = MaxIds - 1
    BY <1>5, <1>6
  <2>3. m # c => m \in 0..(c - 1)
    BY <1>1, <2>2
  <2> QED BY <1>5, <1>6, <2>1, <2>3
<1> QED BY <1>5, <1>6

\* An item that is refreshed or made says what was collected.
LEMMA RefreshedItem ==
    ASSUME NEW r \in Trees, NEW v, v \subseteq Operations(bindings)
    PROVE  LET q == Refreshed(r, v) IN
           /\ q \in Trees /\ q.doc = r.doc /\ Len(q.methods) >= 1
           /\ q.methods[1] \in Items /\ q.methods[1].value = v
           /\ Len(r.methods) <= 1 => Len(q.methods) = 1
           /\ OneItem(r) /\ HasRoom(r.doc) => OneItem(q)
<1> DEFINE q == Refreshed(r, v)
           made == [id |-> FreeMethodsId(r.doc), value |-> v]
<1>1. /\ r.methods \in Seq(Items) /\ r.doc \in Documents \cup {NoModel}
      /\ r = [doc |-> r.doc, methods |-> r.methods]
  BY DEF Trees
<1>2. CASE r.methods = <<>>
  <2>1. q = [doc |-> r.doc, methods |-> <<made>>]
    BY <1>1, <1>2 DEF Refreshed
  <2>2. PICK k \in 0..(MaxIds - 1) :
            FreeMethodsId(r.doc) = MethodsId(k) /\ (HasRoom(r.doc) => ~Taken(r.doc, k))
    BY FreeId
  <2>3. made \in Items
    BY <2>2 DEF Items
  <2>4. /\ q.doc = r.doc /\ q.methods = <<made>> /\ q.methods \in Seq(Items)
        /\ Len(q.methods) = 1 /\ q.methods[1] = made /\ made.value = v
        /\ made.id = MethodsId(k)
    <3> HIDE DEF made
    <3>1. q.methods = <<made>> /\ q.doc = r.doc
      BY <2>1
    <3>2. made.value = v /\ made.id = MethodsId(k)
      BY <2>2 DEF made
    <3> QED BY <2>3, <3>1, <3>2
  <2>5. q \in Trees
    BY <1>1, <2>1, <2>4 DEF Trees
  <2>6. HasRoom(r.doc) => \A n \in ToSet(r.doc.nodes) : n.id # MethodsId(k)
    BY <2>2 DEF Taken
  <2> HIDE DEF q, made
  <2>7. HasRoom(r.doc) => OneItem(q)
    BY <2>4, <2>6 DEF OneItem
  <2> QED BY <2>3, <2>4, <2>5, <2>7 DEF q
<1>3. CASE r.methods # <<>>
  <2> DEFINE item == [r.methods[1] EXCEPT !.value = v]
  <2>1. Len(r.methods) >= 1 /\ r.methods[1] \in Items
    BY <1>1, <1>3
  <2>2. item \in Items /\ item.value = v /\ item.id = r.methods[1].id
    BY <2>1 DEF Items
  <2>3. q = [doc |-> r.doc, methods |-> [r.methods EXCEPT ![1] = item]]
    <3>1. q = [r EXCEPT !.methods = [r.methods EXCEPT ![1].value = v]]
      BY <1>3 DEF Refreshed
    <3>2. [r.methods EXCEPT ![1].value = v] = [r.methods EXCEPT ![1] = item]
      OBVIOUS
    <3> HIDE DEF q, item
    <3>3. q = [r EXCEPT !.methods = [r.methods EXCEPT ![1] = item]]
      BY <3>1, <3>2
    <3> QED BY <1>1, <3>3
  <2> HIDE DEF item, q
  <2>4. q.doc = r.doc /\ q.methods = [r.methods EXCEPT ![1] = item]
    BY <2>3
  <2>5. /\ q.methods \in Seq(Items) /\ Len(q.methods) = Len(r.methods)
        /\ q.methods[1] = item
    BY <1>1, <2>1, <2>2, <2>4
  <2>6. q \in Trees
    BY <1>1, <2>3, <2>5 DEF Trees
  <2>7. OneItem(r) => OneItem(q)
    <3>1. Len(q.methods) \in Nat
      BY <2>5
    <3> QED BY <2>1, <2>2, <2>4, <2>5, <3>1 DEF OneItem
  <2>8. /\ q.methods[1] \in Items /\ q.methods[1].value = v /\ Len(q.methods) >= 1
        /\ Len(r.methods) <= 1 => Len(q.methods) = 1
    <3>1. PICK n \in Nat : n = Len(r.methods)
      BY <1>1
    <3>2. q.methods[1] = item /\ Len(q.methods) = Len(r.methods)
      BY <2>5
    <3>3. q.methods[1] \in Items /\ q.methods[1].value = v
      BY <2>2, <3>2, Zenon
    <3>5. n >= 1 /\ Len(r.methods) = n /\ Len(q.methods) = n
      BY <2>1, <3>1, <3>2, Zenon
    <3>4. Len(q.methods) >= 1 /\ (Len(r.methods) <= 1 => Len(q.methods) = 1)
      BY <3>5
    <3> QED BY <3>3, <3>4
  <2> QED BY <2>4, <2>6, <2>7, <2>8 DEF q
<1> QED BY <1>2, <1>3

\* What could be called still can be when more is registered.
LEMMA OperationsGrow ==
    ASSUME NEW R, bindings \in Seq(R), NEW more \in Seq(R), bindings' = bindings \o more
    PROVE  Operations(bindings) \subseteq Operations(bindings')
<1> SUFFICES ASSUME NEW x \in Operations(bindings)
             PROVE  x \in Operations(bindings')
  OBVIOUS
<1> DEFINE Of(row) == {[tool |-> row.tool, path |-> row.path, op |-> op] : op \in row.ops}
<1>1. PICK k \in DOMAIN bindings : x \in Of(bindings[k])
  BY DEF Operations
<1>2. k \in DOMAIN bindings' /\ bindings'[k] = bindings[k]
  <2>1. k \in 1..Len(bindings) /\ Len(more) \in Nat
    OBVIOUS
  <2> QED BY <2>1
<1>3. x \in Of(bindings'[k])
  BY <1>1, <1>2
<1> QED BY <1>2, <1>3 DEF Operations

-----------------------------------------------------------------------------
(* What each step does to the item                                         *)

AtItem == {"refresh", "save"}

\* The same table allows the same items.
LEMMA ItemsStay == ASSUME bindings' = bindings PROVE Items' = Items /\ Trees' = Trees
  BY DEF Items, Trees

\* The tree without a model is a tree.
LEMMA NothingTold == EmptyRoot \in Trees /\ OneItem(EmptyRoot)
  BY DEF EmptyRoot, Trees, OneItem

\* Steps that touch neither the tree, nor the table, nor a handler at the item.
LEMMA CapStays ==
    ASSUME CapInv, Unborn', DocInv', pc' # "failed" => pc # "failed",
           UNCHANGED <<root, bindings, methods_dirty, model_file, held, raced>>,
           \A h \in Handlers :
              work[h].kind \in AtItem \/ work'[h].kind \in AtItem => work'[h] = work[h]
    PROVE  CapInv'
<1>1. Writing' = Writing
  BY DEF Writing, AtItem
<1>2. Items' = Items /\ Trees' = Trees
  BY ItemsStay
<1>3. Told'
  <2> SUFFICES ASSUME NEW h \in Handlers
               PROVE  /\ work'[h].kind = "refresh" =>
                            work'[h].value \subseteq Operations(bindings)
                      /\ work'[h].kind = "save" => work'[h].item \in Items
    BY <1>2 DEF CapInv, Told
  <2>1. work'[h].kind \in AtItem => work'[h] = work[h]
    OBVIOUS
  <2> QED BY <2>1 DEF CapInv, Told, AtItem
<1>4. ~raced' /\ Room => Alone'
  <2> SUFFICES ASSUME Alone, Room PROVE Alone'
    BY DEF CapInv
  <2>1. \A h \in Writing : work'[h] = work[h]
    BY DEF Writing, AtItem
  <2>2. OneItem(root)' /\ OneItem(held)'
    BY DEF Alone, OneItem
  <2>3. \A h \in Writing :
          /\ work'[h].kind = "refresh" => work'[h].value = Operations(bindings)
          /\ work'[h].kind = "save" =>
                /\ root.methods = <<>> /\ work'[h].item.value = Operations(bindings)
                /\ \A n \in ToSet(root.doc.nodes) : n.id # work'[h].item.id
    BY <2>1 DEF Alone
  <2> QED BY <1>1, <2>2, <2>3 DEF Alone
<1> QED BY <1>3, <1>4 DEF CapInv

\* The host gives up: nothing is told and nobody is at the item.
LEMMA CapFree == ASSUME CapInv, HostFree PROVE CapInv'
<1>1. /\ pc' = "failed" /\ root' = EmptyRoot /\ bindings' = <<>>
      /\ \A h \in Handlers : work'[h] = Idle
      /\ held' = held /\ model_file' = model_file /\ raced' = raced
  BY DEF HostFree
<1>2. Writing' = {}
  BY <1>1 DEF Writing, Idle
<1>3. Unborn' /\ DocInv'
  BY <1>1 DEF Unborn, DocInv
<1>4. Told'
  <2>1. EmptyRoot \in Trees'
    BY DEF EmptyRoot, Trees
  <2> QED BY <1>1, <2>1 DEF Told, Idle
<1>5. ~raced' /\ Room => Alone'
  <2> SUFFICES ASSUME Alone, Room PROVE Alone'
    BY <1>1 DEF CapInv
  <2>1. OneItem(root)'
    BY <1>1, NothingTold DEF OneItem
  <2>2. OneItem(held)'
    BY <1>1 DEF Alone, OneItem
  <2>3. model_file'.methods = <<>>
    BY <1>1 DEF Alone
  <2> QED BY <1>1, <1>2, <2>1, <2>2, <2>3 DEF Alone
<1> QED BY <1>3, <1>4, <1>5 DEF CapInv

\* A document is made; there is no server yet.
LEMMA CapDocument == ASSUME IInv, CapInv, BuildDocument \/ AddFileTool PROVE CapInv'
<1>1. /\ UNCHANGED <<root, bindings, methods_dirty, model_file, held, raced, work>>
      /\ pc \in {"document", "file"} /\ pc' \in {"file", "server"}
  BY DEF BuildDocument, AddFileTool
<1>2. Unborn'
  BY <1>1 DEF CapInv, Unborn, Writing
<1>3. DocInv'
  <2>1. given.adapter \in Adapters /\ given.model \in SiteModels \cup {NoModel}
    BY DEF IInv, HostInv
  <2>2. CASE BuildDocument
    <3>1. \/ given.model # NoModel /\ doc' = given.model /\ pc' = "server"
          \/ doc' = ToolModel(given.adapter)
      BY <2>2 DEF BuildDocument
    <3> QED BY <2>1, <3>1 DEF DocInv, Documents
  <2>3. CASE AddFileTool
    <3>1. pc = "file" /\ doc' = Joined(doc, FileTool) /\ pc' = "server"
      BY <2>3 DEF AddFileTool
    <3>2. PICK a \in Adapters : doc = ToolModel(a)
      BY <3>1 DEF CapInv, DocInv
    <3> QED BY <3>1, <3>2 DEF DocInv, Documents
  <2> QED BY <2>2, <2>3
<1> QED BY <1>1, <1>2, <1>3, CapStays

\* Documents have room for the item.
LEMMA TreesHaveRoom == ASSUME Room, NEW r \in Trees PROVE HasRoom(r.doc)
<1>1. HasRoom(NoModel)
  <2>1. 0 \in 0..(MaxIds - 1)
    BY DeviceAssumption DEF DeviceAssumption
  <2>2. ToSet(NoModel.nodes) = {}
    BY DEF ToSet, NoModel
  <2> QED BY <2>1, <2>2 DEF HasRoom, Taken
<1> QED BY <1>1 DEF Trees, Room

\* The server is made: the item is there, and empty.
LEMMA CapCreate == ASSUME CapInv, CreateServer PROVE CapInv'
<1>1. /\ pc = "server" /\ pc' = "open" /\ bindings' = bindings /\ work' = work
      /\ held' = held /\ model_file' = model_file /\ raced' = raced
      /\ methods_dirty' = methods_dirty
      /\ root' = Refreshed(Bare(doc), {}) \/ root' = EmptyRoot
  BY DEF CreateServer
<1>2. /\ doc \in Documents /\ held = EmptyRoot /\ bindings = <<>> /\ Writing = {}
  BY <1>1 DEF CapInv, DocInv, Unborn
<1>3. Operations(bindings) = {}
  BY <1>2 DEF Operations
<1>4. /\ Bare(doc) \in Trees /\ OneItem(Bare(doc)) /\ Len(Bare(doc).methods) <= 1
  BY <1>2 DEF Bare, Trees, OneItem
<1>5. /\ root' \in Trees /\ (Room => OneItem(root'))
      /\ root' # EmptyRoot => Len(root'.methods) = 1 /\ root'.methods[1].value = {}
  <2>1. CASE root' = EmptyRoot
    BY <2>1, NothingTold
  <2>2. CASE root' = Refreshed(Bare(doc), {})
    BY <1>3, <1>4, <2>2, RefreshedItem, TreesHaveRoom
  <2> QED BY <1>1, <2>1, <2>2
<1>6. Items' = Items /\ Trees' = Trees /\ Writing' = {}
  BY <1>1, <1>2, ItemsStay DEF Writing
<1>7. Unborn' /\ DocInv'
  BY <1>1 DEF Unborn, DocInv
<1>8. Told'
  BY <1>1, <1>5, <1>6 DEF CapInv, Told
<1>9. ~raced' /\ Room => Alone'
  <2> SUFFICES ASSUME Alone, Room PROVE Alone'
    BY <1>1 DEF CapInv
  <2>1. OneItem(root)' /\ OneItem(held)' /\ model_file'.methods = <<>>
    BY <1>1, <1>5 DEF Alone, OneItem
  <2> QED BY <1>1, <1>3, <1>5, <1>6, <2>1 DEF Alone
<1> QED BY <1>7, <1>8, <1>9 DEF CapInv

\* A connection is opened.
LEMMA CapOpen == ASSUME CapInv, OpenTool PROVE CapInv'
<1>1. /\ UNCHANGED <<root, bindings, methods_dirty, model_file, held, raced, work>>
      /\ pc = "open" /\ pc' = "points"
  BY DEF OpenTool
<1>2. Unborn' /\ DocInv'
  BY <1>1 DEF Unborn, DocInv
<1> QED BY <1>1, <1>2, CapStays

\* More is registered: what was told can still be called.
LEMMA CapGrow ==
    ASSUME IInv, CapInv, NEW more \in Seq(AllRows), bindings' = bindings \o more,
           UNCHANGED <<root, work, model_file, held>>, methods_dirty' = TRUE,
           raced' = (raced \/ Writing # {}),
           pc \notin {"failed", "document", "file", "server"},
           pc' \notin {"failed", "document", "file", "server"}
    PROVE  CapInv'
<1>1. Operations(bindings) \subseteq Operations(bindings')
  BY OperationsGrow DEF IInv, TableInv
<1>2. Items \subseteq Items'
  BY <1>1 DEF Items
<1>3. Trees \subseteq Trees'
  <2>1. Seq(Items) \subseteq Seq(Items')
    BY <1>2
  <2> QED BY <2>1 DEF Trees
<1>4. Told'
  <2>1. root' \in Trees' /\ held' \in Trees'
    BY <1>3 DEF CapInv, Told
  <2>2. ASSUME NEW h \in Handlers
        PROVE  /\ work[h].kind = "refresh" => work[h].value \subseteq Operations(bindings')
               /\ work[h].kind = "save" => work[h].item \in Items'
    BY <1>1, <1>2 DEF CapInv, Told
  <2> QED BY <2>1, <2>2 DEF Told
<1>5. ~raced' /\ Room => Alone'
  <2> SUFFICES ASSUME Alone, Writing = {} PROVE Alone'
    BY DEF CapInv
  <2>1. Writing' = {}
    BY DEF Writing
  <2>2. OneItem(root)' /\ OneItem(held)' /\ model_file'.methods = <<>>
    BY DEF Alone, OneItem
  <2> QED BY <2>1, <2>2 DEF Alone
<1>6. Unborn' /\ DocInv'
  BY DEF Unborn, DocInv
<1> QED BY <1>4, <1>5, <1>6 DEF CapInv

\* A handler that is not at the item and does not come to it.
LEMMA CapElsewhere ==
    ASSUME IInv, CapInv, NEW h \in Handlers, NEW v, v.kind \notin AtItem,
           work[h].kind \notin AtItem, work' = [work EXCEPT ![h] = v],
           UNCHANGED <<host, root, bindings, methods_dirty, model_file, held, raced>>
    PROVE  CapInv'
<1>1. \A x \in Handlers : work'[x] = IF x = h THEN v ELSE work[x]
  BY DEF IInv, WorkInv
<1>2. Writing' = Writing
  BY <1>1 DEF Writing, AtItem
<1>3. Unborn' /\ DocInv'
  BY <1>2 DEF CapInv, Unborn, DocInv, host
<1>4. pc' = pc
  BY DEF host
<1> QED BY <1>1, <1>3, <1>4, CapStays

\* A client is told the tree as it is.
LEMMA CapProbe == ASSUME CapInv, NEW h \in Handlers, ProbeQuery(h) PROVE CapInv'
<1>1. /\ UNCHANGED <<root, bindings, methods_dirty, model_file, raced, work>>
      /\ held' = root /\ pc' = pc /\ doc' = doc /\ Serving
  BY DEF ProbeQuery, host
<1>2. Items' = Items /\ Trees' = Trees /\ Writing' = Writing
  BY <1>1, ItemsStay DEF Writing
<1>3. Unborn' /\ DocInv'
  BY <1>1 DEF CapInv, Unborn, DocInv, Serving
<1>4. Told'
  BY <1>1, <1>2 DEF CapInv, Told
<1>5. ~raced' /\ Room => Alone'
  <2> SUFFICES ASSUME Alone, Room PROVE Alone'
    BY <1>1 DEF CapInv
  <2>1. OneItem(root)' /\ OneItem(held)'
    BY <1>1 DEF Alone, OneItem
  <2> QED BY <1>1, <1>2, <2>1 DEF Alone
<1> QED BY <1>3, <1>4, <1>5 DEF CapInv

\* A handler comes to the item: what can be called is collected, and the tree may
\* be replaced by another.
LEMMA CapCollect ==
    ASSUME IInv, CapInv, NEW h \in Handlers, NEW set, Serving,
           root' \in Trees, Alone => OneItem(root'),
           work' = [work EXCEPT ![h] = [kind |-> "refresh", value |-> Operations(bindings),
                                        set |-> set]],
           UNCHANGED <<host, bindings, methods_dirty, model_file, held>>,
           raced' = (raced \/ Writing # {})
    PROVE  CapInv'
<1> DEFINE v == [kind |-> "refresh", value |-> Operations(bindings), set |-> set]
<1>1. /\ v.kind = "refresh" /\ v.value = Operations(bindings)
      /\ \A x \in Handlers : work'[x] = IF x = h THEN v ELSE work[x]
  BY DEF IInv, WorkInv
<1> HIDE DEF v
<1>2. Items' = Items /\ Trees' = Trees /\ pc' = pc /\ doc' = doc
  BY ItemsStay DEF host
<1>3. Unborn' /\ DocInv'
  BY <1>2 DEF CapInv, Unborn, DocInv, Serving
<1>4. Told'
  <2>1. root' \in Trees' /\ (pc' # "failed" => held' \in Trees')
    BY <1>2 DEF CapInv, Told
  <2>2. ASSUME NEW x \in Handlers
        PROVE  /\ work'[x].kind = "refresh" => work'[x].value \subseteq Operations(bindings)
               /\ work'[x].kind = "save" => work'[x].item \in Items
    BY <1>1 DEF CapInv, Told
  <2> QED BY <1>2, <2>1, <2>2 DEF Told
<1>5. ~raced' /\ Room => Alone'
  <2> SUFFICES ASSUME Alone, Writing = {} PROVE Alone'
    BY DEF CapInv
  <2>1. Writing' = {h}
    BY <1>1 DEF Writing
  <2>2. OneItem(root)' /\ OneItem(held)' /\ model_file'.methods = <<>>
    BY DEF Alone, OneItem
  <2>3. work'[h].kind = "refresh" /\ work'[h].value = Operations(bindings')
    BY <1>1
  <2> QED BY <2>1, <2>2, <2>3 DEF Alone
<1> QED BY <1>3, <1>4, <1>5 DEF CapInv

\* What was collected goes into the item; after a probe set the item is taken out.
LEMMA CapRefreshed == ASSUME IInv, CapInv, NEW h \in Handlers, EndRefresh(h) PROVE CapInv'
<1> DEFINE v == work[h].value
           r == Refreshed(root, v)
           saves == work[h].set /\ model_file = EmptyRoot
           after == IF saves THEN [kind |-> "save", item |-> r.methods[1]] ELSE Idle
<1>1. /\ work[h].kind = "refresh" /\ methods_dirty' = FALSE
      /\ root' = IF saves THEN [r EXCEPT !.methods = Tail(@)] ELSE r
      /\ held' = held \/ held' = r
      /\ UNCHANGED <<host, bindings, model_file, raced>>
  BY DEF EndRefresh
<1>2. \A x \in Handlers : work'[x] = IF x = h THEN after ELSE work[x]
  BY DEF EndRefresh, IInv, WorkInv
<1>3. root \in Trees /\ v \subseteq Operations(bindings)
  BY <1>1 DEF CapInv, Told
<1>4. /\ r \in Trees /\ r.doc = root.doc /\ Len(r.methods) >= 1
      /\ r.methods[1] \in Items /\ r.methods[1].value = v
      /\ Len(root.methods) <= 1 => Len(r.methods) = 1
      /\ Room /\ OneItem(root) => OneItem(r)
  BY <1>3, RefreshedItem, TreesHaveRoom
<1>5. after.kind = "refresh" => FALSE
  BY DEF Idle
<1>6. saves => after.kind = "save" /\ after.item = r.methods[1]
  OBVIOUS
<1>7. ~saves => after.kind = "idle"
  BY DEF Idle
<1> HIDE DEF r, v, after, saves
<1>8. r.methods \in Seq(Items) /\ r = [doc |-> r.doc, methods |-> r.methods]
  BY <1>4 DEF Trees
<1>9. /\ saves => root' = [doc |-> root.doc, methods |-> Tail(r.methods)]
      /\ ~saves => root' = r
  BY <1>1, <1>4, <1>8
<1>10. root' \in Trees /\ (held' = held \/ held' \in Trees)
  <2>1. r.methods # <<>>
    BY <1>4, <1>8
  <2>2. Tail(r.methods) \in Seq(Items)
    BY <1>8, <2>1
  <2>3. root.doc \in Documents \cup {NoModel}
    BY <1>3 DEF Trees
  <2> QED BY <1>1, <1>4, <1>9, <2>2, <2>3 DEF Trees
<1>11. Items' = Items /\ Trees' = Trees /\ pc' = pc /\ doc' = doc
  BY <1>1, ItemsStay DEF host
<1>12. h \in Writing
  BY <1>1 DEF Writing
<1>13. Unborn' /\ DocInv'
  BY <1>11, <1>12 DEF CapInv, Unborn, DocInv
<1>14. Told'
  <2>1. root' \in Trees' /\ (pc' # "failed" => held' \in Trees')
    BY <1>10, <1>11 DEF CapInv, Told
  <2>2. ASSUME NEW x \in Handlers
        PROVE  /\ work'[x].kind = "refresh" => work'[x].value \subseteq Operations(bindings)
               /\ work'[x].kind = "save" => work'[x].item \in Items
    BY <1>2, <1>4, <1>5, <1>6, <1>7 DEF CapInv, Told
  <2> QED BY <1>1, <1>11, <2>1, <2>2 DEF Told
<1>15. ~raced' /\ Room => Alone'
  <2> SUFFICES ASSUME Alone, Room PROVE Alone'
    BY <1>1 DEF CapInv
  <2>1. /\ OneItem(root) /\ OneItem(held) /\ model_file.methods = <<>>
        /\ v = Operations(bindings) /\ \A g \in Writing : g = h
    BY <1>1, <1>12 DEF Alone, v
  <2>2. OneItem(r) /\ Len(r.methods) = 1
    BY <1>4, <2>1 DEF OneItem
  <2>3. \A g \in Handlers \ {h} : g \notin Writing /\ work'[g] = work[g]
    BY <1>2, <2>1
  <2>4. Writing' = IF saves THEN {h} ELSE {}
    BY <1>2, <1>6, <1>7, <2>3 DEF Writing
  <2>5. OneItem(held)'
    BY <1>1, <2>1, <2>2 DEF OneItem
  <2>6. CASE saves
    <3>1. Tail(r.methods) = <<>>
      <4>1. r.methods # <<>>
        BY <1>4, <1>8
      <4>2. Tail(r.methods) \in Seq(Items) /\ Len(Tail(r.methods)) = Len(r.methods) - 1
        BY <1>8, <4>1, HeadTailProperties
      <4>3. Len(Tail(r.methods)) = 0
        BY <2>2, <4>2
      <4> QED BY <4>2, <4>3, EmptySeq
    <3>7. root' = [doc |-> r.doc, methods |-> <<>>]
      BY <1>4, <1>9, <2>6, <3>1, Zenon
    <3>2. root'.methods = <<>> /\ root'.doc = r.doc
      BY <3>7
    <3>3. OneItem(root)'
      BY <3>2 DEF OneItem
    <3>4. work'[h].kind = "save" /\ work'[h].item = r.methods[1]
      BY <1>2, <1>6, <2>6
    <3>5. \A n \in ToSet(root'.doc.nodes) : n.id # r.methods[1].id
      BY <2>2, <3>2 DEF OneItem
    <3>6. Writing' = {h}
      BY <2>4, <2>6
    <3> QED BY <1>1, <1>4, <2>1, <2>5, <3>2, <3>3, <3>4, <3>5, <3>6 DEF Alone
  <2>7. CASE ~saves
    <3>1. root' = r /\ Writing' = {}
      BY <1>9, <2>4, <2>7
    <3>2. OneItem(root)'
      BY <2>2, <3>1 DEF OneItem
    <3> QED BY <1>1, <1>4, <2>1, <2>2, <2>5, <3>1, <3>2 DEF Alone
  <2> QED BY <2>6, <2>7
<1> QED BY <1>13, <1>14, <1>15 DEF CapInv

\* The file is written and the item is put back.
LEMMA CapSaved == ASSUME IInv, CapInv, NEW h \in Handlers, EndSave(h) PROVE CapInv'
<1> DEFINE item == work[h].item
<1>1. /\ work[h].kind = "save" /\ model_file' = root
      /\ root' = [root EXCEPT !.methods = Append(root.methods, item)]
      /\ UNCHANGED <<host, bindings, methods_dirty, held, raced>>
  BY DEF EndSave
<1>2. \A x \in Handlers : work'[x] = IF x = h THEN Idle ELSE work[x]
  BY DEF EndSave, IInv, WorkInv
<1>3. root \in Trees /\ item \in Items
  BY <1>1 DEF CapInv, Told
<1>4. /\ root.methods \in Seq(Items) /\ root.doc \in Documents \cup {NoModel}
      /\ root = [doc |-> root.doc, methods |-> root.methods]
  BY <1>3 DEF Trees
<1> HIDE DEF item
<1>5. /\ root' = [doc |-> root.doc, methods |-> Append(root.methods, item)]
      /\ root' \in Trees
  <2>1. root' = [doc |-> root.doc, methods |-> Append(root.methods, item)]
    BY <1>1, <1>4
  <2>2. Append(root.methods, item) \in Seq(Items)
    BY <1>3, <1>4
  <2> QED BY <1>4, <2>1, <2>2 DEF Trees
<1>6. Items' = Items /\ Trees' = Trees /\ pc' = pc /\ doc' = doc
  BY <1>1, ItemsStay DEF host
<1>7. h \in Writing
  BY <1>1 DEF Writing
<1>8. Unborn' /\ DocInv'
  BY <1>6, <1>7 DEF CapInv, Unborn, DocInv
<1>9. Told'
  <2>1. root' \in Trees' /\ (pc' # "failed" => held' \in Trees')
    BY <1>1, <1>5, <1>6 DEF CapInv, Told
  <2>2. ASSUME NEW x \in Handlers
        PROVE  /\ work'[x].kind = "refresh" => work'[x].value \subseteq Operations(bindings)
               /\ work'[x].kind = "save" => work'[x].item \in Items
    BY <1>2 DEF CapInv, Told, Idle
  <2> QED BY <1>1, <1>6, <2>1, <2>2 DEF Told
<1>10. ~raced' /\ Room => Alone'
  <2> SUFFICES ASSUME Alone, Room PROVE Alone'
    BY <1>1 DEF CapInv
  <2>1. /\ OneItem(held) /\ root.methods = <<>> /\ item.value = Operations(bindings)
        /\ \A n \in ToSet(root.doc.nodes) : n.id # item.id
        /\ \A g \in Writing : g = h
    BY <1>1, <1>7 DEF Alone, item
  <2>2. Writing' = {}
    BY <1>2, <2>1 DEF Writing, Idle
  <2>3. /\ Len(root'.methods) = 1 /\ root'.methods[1] = item /\ root'.doc = root.doc
    BY <1>3, <1>5, <2>1
  <2>4. OneItem(root)'
    BY <2>1, <2>3 DEF OneItem
  <2>5. OneItem(held)'
    BY <1>1, <2>1 DEF OneItem
  <2>6. model_file'.methods = <<>>
    BY <1>1, <2>1
  <2> QED BY <1>1, <2>1, <2>2, <2>3, <2>4, <2>5, <2>6 DEF Alone
<1> QED BY <1>8, <1>9, <1>10 DEF CapInv

-----------------------------------------------------------------------------
(* METHODS                                                                 *)

\* Nothing is told at the start.
LEMMA CapInit == ASSUME Init PROVE CapInv
<1>1. Writing = {}
  BY DEF Init, Writing, Idle
<1>2. Unborn /\ DocInv
  BY <1>1 DEF Init, Unborn, DocInv
<1>3. Told
  BY NothingTold DEF Init, Told, Idle
<1>4. Alone
  <2>1. model_file.methods = <<>>
    BY DEF Init, EmptyRoot
  <2> QED BY <1>1, <2>1, NothingTold DEF Init, Alone
<1> QED BY <1>2, <1>3, <1>4 DEF CapInv

\* Every step of a handler.
LEMMA CapHandler ==
    ASSUME IInv, CapInv, NEW h \in Handlers,
           \/ \E q \in Questions : Resolve(h, q)
           \/ Invoke(h) \/ Answer(h) \/ ProbeQuery(h) \/ BeginRefresh(h)
           \/ EndRefresh(h) \/ EndSave(h)
           \/ \E d \in {d \in SiteModels : MayParse(d)} : ProbeSet(h, Bare(d))
           \/ held # EmptyRoot /\ ProbeSet(h, held)
    PROVE  CapInv'
<1>1. ASSUME NEW q \in Questions, Resolve(h, q) PROVE CapInv'
  <2>1. PICK path : work' = [work EXCEPT ![h] = [kind |-> "lookup", q |-> q, path |-> path]]
    BY <1>1 DEF Resolve
  <2>2. /\ UNCHANGED <<host, root, bindings, methods_dirty, model_file, held, raced>>
        /\ work[h].kind \notin AtItem
    BY <1>1 DEF Resolve, Idle, AtItem
  <2> QED BY <2>1, <2>2, CapElsewhere DEF AtItem
<1>2. ASSUME Invoke(h) PROVE CapInv'
  <2>1. PICK k \in 0..Len(bindings) :
            work' = [work EXCEPT ![h] =
                        [kind |-> "answer", q |-> work[h].q, path |-> work[h].path,
                         tool |-> IF k = 0 THEN "none" ELSE bindings[k].tool,
                         point |-> IF k = 0 THEN 0 ELSE bindings[k].point,
                         all |-> pc = "running"]]
    BY <1>2 DEF Invoke
  <2>2. /\ UNCHANGED <<host, root, bindings, methods_dirty, model_file, held, raced>>
        /\ work[h].kind \notin AtItem
    BY <1>2 DEF Invoke, AtItem
  <2> QED BY <2>1, <2>2, CapElsewhere DEF AtItem
<1>3. ASSUME Answer(h) PROVE CapInv'
  BY <1>3, CapElsewhere DEF Answer, AtItem, Idle
<1>4. CASE ProbeQuery(h)
  BY <1>4, CapProbe
<1>5. CASE BeginRefresh(h)
  <2>1. root \in Trees /\ (Alone => OneItem(root))
    BY DEF CapInv, Told, Alone
  <2> QED BY <1>5, <2>1, CapCollect DEF BeginRefresh
<1>6. CASE EndRefresh(h)
  BY <1>6, CapRefreshed
<1>7. CASE EndSave(h)
  BY <1>7, CapSaved
<1>8. ASSUME NEW d \in SiteModels, ProbeSet(h, Bare(d)) PROVE CapInv'
  <2>1. Bare(d) \in Trees /\ OneItem(Bare(d))
    BY DEF Bare, Trees, Documents, OneItem
  <2> QED BY <1>8, <2>1, CapCollect DEF ProbeSet
<1>9. ASSUME ProbeSet(h, held) PROVE CapInv'
  <2>1. Serving /\ held \in Trees /\ (Alone => OneItem(held))
    BY <1>9 DEF ProbeSet, Serving, CapInv, Told, Alone
  <2> QED BY <1>9, <2>1, CapCollect DEF ProbeSet
<1> QED BY <1>1, <1>2, <1>3, <1>4, <1>5, <1>6, <1>7, <1>8, <1>9

\* Every step.
LEMMA CapStep == ASSUME IInv, CapInv, [Next]_vars PROVE CapInv'
<1>1. CASE BuildDocument \/ AddFileTool
  BY <1>1, CapDocument
<1>2. CASE DocumentFails \/ OpenFails
  BY <1>2, CapFree DEF DocumentFails, OpenFails
<1>3. CASE CreateServer
  BY <1>3, CapCreate
<1>4. CASE OpenTool
  BY <1>4, CapOpen
<1>5. CASE RegisterPoint
  <2>1. Row(Tools[tool_at], point_at) \in AllRows
    <3>1. /\ tool_at \in DOMAIN Tools /\ point_at \in DOMAIN Tools[tool_at].points
      BY <1>5 DEF RegisterPoint, IInv, HostInv
    <3>2. Row(Tools[tool_at], point_at) \in
              {Row(Tools[tool_at], i) : i \in DOMAIN Tools[tool_at].points}
      BY <3>1
    <3> QED BY <3>1, <3>2 DEF AllRows, ToolRows
  <2>2. bindings \in Seq(AllRows)
    BY DEF IInv, TableInv
  <2>3. /\ UNCHANGED <<root, work, model_file, held>> /\ methods_dirty' = TRUE
        /\ raced' = (raced \/ Writing # {})
        /\ pc = "points" /\ pc' \in {"points", "open", "up"}
        /\ bindings' = Append(bindings, Row(Tools[tool_at], point_at))
    BY <1>5 DEF RegisterPoint
  <2> DEFINE row == Row(Tools[tool_at], point_at)
  <2>4. <<row>> \in Seq(AllRows)
    BY <2>1
  <2>5. bindings' = bindings \o <<row>>
    <3> HIDE DEF row
    <3>1. bindings' = Append(bindings, row)
      BY <2>3 DEF row
    <3> QED BY <2>2, <3>1, AppendIsConcat DEF row
  <2> HIDE DEF row
  <2> QED BY <2>3, <2>4, <2>5, CapGrow
<1>6. CASE RegisterBuiltin
  <2>1. <<Builtin("addSample"), Builtin("removeSample")>> \in Seq(AllRows)
    BY DEF AllRows
  <2>2. /\ UNCHANGED <<root, work, model_file, held>> /\ methods_dirty' = TRUE
        /\ raced' = (raced \/ Writing # {}) /\ pc = "up" /\ pc' = "running"
        /\ bindings' = bindings \o <<Builtin("addSample"), Builtin("removeSample")>>
    BY <1>6 DEF RegisterBuiltin
  <2> QED BY <2>1, <2>2, CapGrow
<1>7. ASSUME NEW h \in Handlers,
             \/ \E q \in Questions : Resolve(h, q)
             \/ Invoke(h) \/ Answer(h) \/ ProbeQuery(h) \/ BeginRefresh(h)
             \/ EndRefresh(h) \/ EndSave(h)
             \/ \E d \in {d \in SiteModels : MayParse(d)} : ProbeSet(h, Bare(d))
             \/ held # EmptyRoot /\ ProbeSet(h, held)
      PROVE  CapInv'
  BY <1>7, CapHandler
<1>8. CASE UNCHANGED vars
  <2>1. UNCHANGED <<host, root, bindings, methods_dirty, model_file, held, raced, work>>
    BY <1>8 DEF vars
  <2>2. pc' = pc /\ doc' = doc
    BY <2>1 DEF host
  <2>3. Unborn' /\ DocInv'
    BY <2>1, <2>2 DEF CapInv, Unborn, DocInv, Writing
  <2> QED BY <2>1, <2>2, <2>3, CapStays
<1> QED BY <1>1, <1>2, <1>3, <1>4, <1>5, <1>6, <1>7, <1>8 DEF Next

\* The items of a tree tell of what is bound.
LEMMA BoundItems == ASSUME CapInv PROVE OnlyBound
<1>1. root.methods \in Seq(Items)
  BY DEF CapInv, Told, Trees
<1>2. \A k \in DOMAIN root.methods : root.methods[k] \in Items
  BY <1>1
<1> QED BY <1>2 DEF OnlyBound, Items

\* METHODS tells of nothing that cannot be called: for any declarations, models
\* and handlers, also where handlers are at the item at once.
THEOREM TellsOnlyBound == Spec => []OnlyBound
<1>1. Init => IInv /\ CapInv
  BY InitInv, CapInit
<1>2. IInv /\ CapInv /\ [Next]_vars => IInv' /\ CapInv'
  BY StepInv, CapStep
<1>3. CapInv => OnlyBound
  BY BoundItems
<1> QED BY <1>1, <1>2, <1>3, PTL DEF Spec

\* As long as one thread at a time is at the item METHODS tells of everything that
\* can be called, in one item, under an id of its own, and what is saved is the
\* model of the site, if each document leaves one of the ids that are tried.
THEOREM TellsCapabilities ==
    ASSUME Room
    PROVE  Spec => []CapabilitiesTold
<1>1. Init => IInv /\ CapInv
  BY InitInv, CapInit
<1>2. IInv /\ CapInv /\ [Next]_vars => IInv' /\ CapInv'
  BY StepInv, CapStep
<1>3. CapInv => CapabilitiesTold
  <2> SUFFICES ASSUME CapInv PROVE CapabilitiesTold
    OBVIOUS
  <2>1. ~raced => UpToDate /\ FileIsTheSites
    BY DEF CapInv, Alone, OneItem, UpToDate, FileIsTheSites
  <2> QED BY <2>1, BoundItems DEF CapabilitiesTold
<1> QED BY <1>1, <1>2, <1>3, PTL DEF Spec

-----------------------------------------------------------------------------
(* Types                                                                   *)

Kinds == {"idle", "lookup", "answer", "refresh", "save"}

Rest ==
    /\ methods_dirty \in BOOLEAN /\ raced \in BOOLEAN /\ sets \in 0..MaxSets
    /\ \A h \in Handlers : work[h].kind \in Kinds

\* A handler goes on to something a handler does.
LEMMA RestMoves ==
    ASSUME IInv, Rest, NEW h \in Handlers, NEW v, v.kind \in Kinds,
           work' = work \/ work' = [work EXCEPT ![h] = v],
           methods_dirty' \in BOOLEAN, raced' \in BOOLEAN, sets' \in 0..MaxSets
    PROVE  Rest'
<1>1. \A x \in Handlers : work'[x] = work[x] \/ work'[x] = v
  BY DEF IInv, WorkInv
<1> QED BY <1>1 DEF Rest

\* Every step of a handler.
LEMMA RestHandler ==
    ASSUME IInv, Rest, NEW h \in Handlers,
           \/ \E q \in Questions : Resolve(h, q)
           \/ Invoke(h) \/ Answer(h) \/ ProbeQuery(h) \/ BeginRefresh(h)
           \/ EndRefresh(h) \/ EndSave(h)
           \/ \E r : ProbeSet(h, r)
    PROVE  Rest'
<1>1. methods_dirty \in BOOLEAN /\ raced \in BOOLEAN /\ sets \in 0..MaxSets /\ MaxSets \in Nat
  BY DeviceAssumption DEF Rest, DeviceAssumption
<1>2. methods_dirty' \in BOOLEAN /\ raced' \in BOOLEAN
  BY <1>1 DEF Resolve, Invoke, Answer, ProbeQuery, BeginRefresh, EndRefresh, EndSave, ProbeSet
<1>3. sets' \in 0..MaxSets
  <2>1. sets' = sets \/ (sets < MaxSets /\ sets' = sets + 1)
    BY DEF Resolve, Invoke, Answer, ProbeQuery, BeginRefresh, EndRefresh, EndSave, ProbeSet
  <2> QED BY <1>1, <2>1
<1>4. PICK v : v.kind \in Kinds /\ (work' = work \/ work' = [work EXCEPT ![h] = v])
  <2>1. ASSUME NEW q \in Questions, Resolve(h, q)
        PROVE  \E v : v.kind \in Kinds /\ work' = [work EXCEPT ![h] = v]
    <3>1. PICK path :
              work' = [work EXCEPT ![h] = [kind |-> "lookup", q |-> q, path |-> path]]
      BY <2>1 DEF Resolve
    <3>2. [kind |-> "lookup", q |-> q, path |-> path].kind \in Kinds
      BY DEF Kinds
    <3> QED BY <3>1, <3>2
  <2>2. ASSUME Invoke(h)
        PROVE  \E v : v.kind \in Kinds /\ work' = [work EXCEPT ![h] = v]
    <3>1. PICK k \in 0..Len(bindings) :
              work' = [work EXCEPT ![h] =
                          [kind |-> "answer", q |-> work[h].q, path |-> work[h].path,
                           tool |-> IF k = 0 THEN "none" ELSE bindings[k].tool,
                           point |-> IF k = 0 THEN 0 ELSE bindings[k].point,
                           all |-> pc = "running"]]
      BY <2>2 DEF Invoke
    <3> DEFINE v == [kind |-> "answer", q |-> work[h].q, path |-> work[h].path,
                     tool |-> IF k = 0 THEN "none" ELSE bindings[k].tool,
                     point |-> IF k = 0 THEN 0 ELSE bindings[k].point,
                     all |-> pc = "running"]
    <3>2. v.kind \in Kinds
      BY DEF Kinds
    <3>3. work' = [work EXCEPT ![h] = v]
      BY <3>1
    <3> HIDE DEF v
    <3> QED BY <3>2, <3>3
  <2>3. ASSUME EndRefresh(h)
        PROVE  \E v : v.kind \in Kinds /\ work' = [work EXCEPT ![h] = v]
    <3> DEFINE saves == work[h].set /\ model_file = EmptyRoot
               v == IF saves THEN [kind |-> "save",
                                   item |-> Refreshed(root, work[h].value).methods[1]]
                    ELSE Idle
    <3>1. work' = [work EXCEPT ![h] = v]
      BY <2>3 DEF EndRefresh
    <3>2. v.kind \in Kinds
      BY DEF Kinds, Idle
    <3> HIDE DEF v
    <3> QED BY <3>1, <3>2
  <2>4. Answer(h) \/ EndSave(h) => work' = [work EXCEPT ![h] = Idle]
    BY DEF Answer, EndSave
  <2>5. ProbeQuery(h) => work' = work
    BY DEF ProbeQuery
  <2>6. ASSUME BeginRefresh(h) \/ \E r : ProbeSet(h, r)
        PROVE  \E v : v.kind \in Kinds /\ work' = [work EXCEPT ![h] = v]
    <3>1. PICK set : work' = [work EXCEPT ![h] =
                        [kind |-> "refresh", value |-> Operations(bindings), set |-> set]]
      BY <2>6 DEF BeginRefresh, ProbeSet
    <3>2. [kind |-> "refresh", value |-> Operations(bindings), set |-> set].kind \in Kinds
      BY DEF Kinds
    <3> QED BY <3>1, <3>2
  <2>7. Idle.kind \in Kinds
    BY DEF Idle, Kinds
  <2> QED BY <2>1, <2>2, <2>3, <2>4, <2>5, <2>6, <2>7
<1> QED BY <1>2, <1>3, <1>4, RestMoves

\* Every step.
LEMMA RestStep == ASSUME IInv, Rest, [Next]_vars PROVE Rest'
<1>1. CASE BuildDocument \/ AddFileTool \/ CreateServer \/ OpenTool \/ UNCHANGED vars
  BY <1>1 DEF BuildDocument, AddFileTool, CreateServer, OpenTool, vars, Rest
<1>2. CASE RegisterPoint \/ RegisterBuiltin
  BY <1>2 DEF RegisterPoint, RegisterBuiltin, Rest
<1>3. CASE DocumentFails \/ OpenFails
  BY <1>3 DEF DocumentFails, OpenFails, HostFree, Rest, Idle, Kinds
<1>4. ASSUME NEW h \in Handlers,
             \/ \E q \in Questions : Resolve(h, q)
             \/ Invoke(h) \/ Answer(h) \/ ProbeQuery(h) \/ BeginRefresh(h)
             \/ EndRefresh(h) \/ EndSave(h)
             \/ \E d \in {d \in SiteModels : MayParse(d)} : ProbeSet(h, Bare(d))
             \/ held # EmptyRoot /\ ProbeSet(h, held)
      PROVE  Rest'
  BY <1>4, RestHandler
<1> QED BY <1>1, <1>2, <1>3, <1>4 DEF Next

\* Every variable keeps to its type.
THEOREM TypeCorrect == Spec => []TypeOK
<1>1. Init => IInv /\ Rest
  <2> SUFFICES ASSUME Init PROVE Rest
    BY InitInv
  <2>1. 0 \in 0..MaxSets
    BY DeviceAssumption DEF DeviceAssumption
  <2>2. \A h \in Handlers : work[h].kind = "idle"
    BY DEF Init, Idle
  <2>3. methods_dirty = FALSE /\ raced = FALSE /\ sets = 0
    BY DEF Init
  <2> QED BY <2>1, <2>2, <2>3 DEF Rest, Kinds
<1>2. IInv /\ Rest /\ [Next]_vars => IInv' /\ Rest'
  BY StepInv, RestStep
<1>3. IInv /\ Rest => TypeOK
  BY DEF IInv, HostInv, Rest, TypeOK, Phases, Kinds
<1> QED BY <1>1, <1>2, <1>3, PTL DEF Spec

-----------------------------------------------------------------------------
(* Sets put in order                                                       *)

\* Ordered has every member of the set once.
LEMMA OrderedAll ==
    ASSUME NEW S, IsFiniteSet(S), NEW before,
           \A x \in S : <<x, x>> \notin before,
           \A x, y \in S : x # y => <<x, y>> \in before \/ <<y, x>> \in before,
           \A x, y, z \in S : <<x, y>> \in before /\ <<y, z>> \in before => <<x, z>> \in before
    PROVE  /\ Cardinality(S) \in Nat /\ DOMAIN Ordered(S, before) = 1..Cardinality(S)
           /\ Ordered(S, before) \in [1..Cardinality(S) -> S]
           /\ \A x \in S : \E k \in 1..Cardinality(S) : Ordered(S, before)[k] = x
           /\ \A j, k \in 1..Cardinality(S) :
                 Ordered(S, before)[j] = Ordered(S, before)[k] => j = k
<1> DEFINE n == Cardinality(S)
           Under(x) == {y \in S : <<y, x>> \in before}
           rank == [x \in S |-> Cardinality(Under(x))]
           o == Ordered(S, before)
<1>1. n \in Nat
  BY FS_CardinalityType
<1>2. ASSUME NEW x \in S PROVE IsFiniteSet(Under(x)) /\ Cardinality(Under(x)) \in 0..(n - 1)
  <2>1. Under(x) \in SUBSET S /\ x \notin Under(x)
    OBVIOUS
  <2> HIDE DEF Under
  <2>2. IsFiniteSet(Under(x)) /\ Cardinality(Under(x)) <= n /\ Cardinality(Under(x)) # n
    BY <2>1, FS_Subset
  <2>3. Cardinality(Under(x)) \in Nat
    BY <2>2, FS_CardinalityType
  <2> HIDE DEF n
  <2> QED BY <1>1, <2>2, <2>3
<1>3. ASSUME NEW x \in S, NEW y \in S, <<x, y>> \in before
      PROVE  Cardinality(Under(x)) # Cardinality(Under(y))
  <2>1. Under(x) \in SUBSET Under(y) /\ x \in Under(y) /\ x \notin Under(x)
    BY <1>3
  <2>2. IsFiniteSet(Under(y))
    BY <1>2
  <2> HIDE DEF Under
  <2> QED BY <2>1, <2>2, FS_Subset
<1>4. rank \in Injection(S, 0..(n - 1))
  <2>1. rank \in [S -> 0..(n - 1)]
    BY <1>2
  <2>2. ASSUME NEW x \in S, NEW y \in S, rank[x] = rank[y] PROVE x = y
    <3>1. Cardinality(Under(x)) = Cardinality(Under(y))
      BY <2>2
    <3>2. <<x, y>> \notin before /\ <<y, x>> \notin before
      <4> HIDE DEF Under
      <4> QED BY <1>3, <3>1
    <3> QED BY <3>2
  <2> HIDE DEF rank
  <2>3. DOMAIN rank = S
    BY <2>1
  <2>4. IsInjective(rank)
    BY <2>2, <2>3 DEF IsInjective
  <2> QED BY <2>1, <2>4 DEF Injection
<1>5. rank \in Surjection(S, 0..(n - 1))
  <2>1. IsFiniteSet(0..(n - 1)) /\ Cardinality(0..(n - 1)) = n
    <3> HIDE DEF n
    <3>1. 0 \in Int /\ n - 1 \in Int /\ (n - 1) - 0 + 1 = n /\ (0 > n - 1 => n = 0)
      BY <1>1
    <3> QED BY <3>1, FS_Interval
  <2> HIDE DEF rank
  <2> QED BY <1>4, <2>1, FS_Injection
<1>6. ASSUME NEW k \in 1..n PROVE o[k] \in S /\ rank[o[k]] = k - 1
  <2>1. k - 1 \in 0..(n - 1)
    <3> HIDE DEF n
    <3> QED BY <1>1
  <2>2. \E x \in S : rank[x] = k - 1
    <3> HIDE DEF rank
    <3> QED BY <1>5, <2>1 DEF Surjection
  <2>3. o[k] = CHOOSE x \in S : Cardinality(Under(x)) = k - 1
    BY DEF Ordered
  <2> HIDE DEF Under, o
  <2> QED BY <2>2, <2>3
<1>7. DOMAIN o = 1..n /\ o \in [1..n -> S]
  <2>1. o = [k \in 1..n |-> CHOOSE x \in S : Cardinality(Under(x)) = k - 1]
    BY DEF Ordered
  <2>2. DOMAIN o = 1..n /\ o = [k \in 1..n |-> o[k]]
    <3> HIDE DEF o, n, Under
    <3> QED BY <2>1
  <2> HIDE DEF o, n
  <2> QED BY <1>6, <2>2
<1>8. ASSUME NEW x \in S PROVE \E k \in 1..n : o[k] = x
  <2>1. rank[x] \in 0..(n - 1)
    <3> HIDE DEF rank
    <3> QED BY <1>4 DEF Injection
  <2>2. rank[x] + 1 \in 1..n /\ (rank[x] + 1) - 1 = rank[x]
    <3> HIDE DEF rank, n
    <3> QED BY <1>1, <2>1
  <2>3. o[rank[x] + 1] \in S /\ rank[o[rank[x] + 1]] = rank[x]
    <3> HIDE DEF rank, o, n
    <3> QED BY <1>6, <2>2
  <2>4. o[rank[x] + 1] = x
    <3> HIDE DEF rank, o, n
    <3>1. rank \in [S -> 0..(n - 1)] /\ IsInjective(rank)
      BY <1>4 DEF Injection
    <3> QED BY <2>3, <3>1 DEF IsInjective
  <2> QED BY <2>2, <2>4
<1>9. ASSUME NEW j \in 1..n, NEW k \in 1..n, o[j] = o[k] PROVE j = k
  <2>1. j - 1 = k - 1
    <3> HIDE DEF rank, o, n
    <3> QED BY <1>6, <1>9
  <2> HIDE DEF n, o
  <2> QED BY <1>1, <2>1
<1> QED BY <1>1, <1>7, <1>8, <1>9

\* What is picked is at one of the places, once, and every place is there.
LEMMA PickedAll ==
    ASSUME NEW n \in Nat, NEW s, NEW places \in SUBSET (1..n)
    PROVE  \E at \in [1..Cardinality(places) -> places] :
              /\ Cardinality(places) \in Nat
              /\ DOMAIN Picked(s, places) = 1..Cardinality(places)
              /\ \A k \in 1..Cardinality(places) : Picked(s, places)[k] = s[at[k]]
              /\ \A i \in places : \E k \in 1..Cardinality(places) : at[k] = i
              /\ \A j, k \in 1..Cardinality(places) : at[j] = at[k] => j = k
              /\ Picked(s, places) = [k \in DOMAIN Picked(s, places) |-> Picked(s, places)[k]]
<1> DEFINE before == {e \in places \X places : e[1] < e[2]}
           at == Ordered(places, before)
<1>1. IsFiniteSet(places)
  <2>1. IsFiniteSet(1..n)
    BY FS_Interval
  <2> QED BY <2>1, FS_Subset
<1>2. /\ \A x \in places : <<x, x>> \notin before
      /\ \A x, y \in places : x # y => <<x, y>> \in before \/ <<y, x>> \in before
      /\ \A x, y, z \in places :
            <<x, y>> \in before /\ <<y, z>> \in before => <<x, z>> \in before
  OBVIOUS
<1>3. /\ Cardinality(places) \in Nat /\ DOMAIN at = 1..Cardinality(places)
      /\ at \in [1..Cardinality(places) -> places]
      /\ \A i \in places : \E k \in 1..Cardinality(places) : at[k] = i
      /\ \A j, k \in 1..Cardinality(places) : at[j] = at[k] => j = k
  <2> HIDE DEF before
  <2> QED BY <1>1, <1>2, OrderedAll
<1>4. Picked(s, places) = [k \in DOMAIN at |-> s[at[k]]]
  BY DEF Picked
<1> HIDE DEF at
<1>5. /\ DOMAIN Picked(s, places) = 1..Cardinality(places)
      /\ \A k \in 1..Cardinality(places) : Picked(s, places)[k] = s[at[k]]
      /\ Picked(s, places) = [k \in DOMAIN Picked(s, places) |-> Picked(s, places)[k]]
  BY <1>3, <1>4
<1> QED BY <1>3, <1>5

-----------------------------------------------------------------------------
(* The document of a declaration                                           *)

Distinct(nodes) == \A j, k \in DOMAIN nodes : nodes[j].id = nodes[k].id => j = k

\* A node that stands for a component of a declaration.
ComponentOf(decl, n) ==
    /\ n.kind = "component" /\ n.path \in Ways(decl) /\ n.refs = <<>>
    /\ \E k \in 1..Cardinality(Ways(decl)) : n.id = <<"c", k - 1>>

\* A declaration as the assumption and the checks leave it.
Checked(decl) ==
    /\ decl \in Adapters \cup {FileTool} /\ Valid(decl) /\ WellNamed(decl)

\* The values of a finite function are finitely many.
LEMMA RangeFinite ==
    ASSUME NEW S, IsFiniteSet(S), NEW f, DOMAIN f = S, f = [x \in S |-> f[x]]
    PROVE  IsFiniteSet(ToSet(f))
<1>1. f \in Surjection(S, ToSet(f))
  BY DEF Surjection, ToSet
<1> QED BY <1>1, FS_Surjection

\* A list of nodes is a sequence.
LEMMA Listed ==
    ASSUME NEW n \in Nat, NEW f, DOMAIN f = 1..n, f = [k \in 1..n |-> f[k]]
    PROVE  f \in Seq(ToSet(f)) /\ Len(f) = n
<1>1. f \in [1..n -> ToSet(f)]
  BY DEF ToSet
<1> QED BY <1>1, LenProperties, SeqDef

\* The points of a declaration are numbered, and those with a value have paths.
LEMMA Points ==
    ASSUME NEW decl, Checked(decl)
    PROVE  /\ Len(decl.points) \in Nat /\ DOMAIN decl.points = 1..Len(decl.points)
           /\ Values(decl) \in SUBSET (1..Len(decl.points)) /\ IsFiniteSet(Values(decl))
           /\ Sampled(decl) \in SUBSET Values(decl)
           /\ \A i \in Values(decl) :
                 /\ decl.points[i].path \in Seq(STRING) /\ Len(decl.points[i].path) \in Nat \ {0}
                 /\ decl.points[i].path # <<"SAMPLE_CHANNEL">>
                 /\ \A j \in Values(decl) :
                       IsPrefix(decl.points[i].path, decl.points[j].path) => i = j
<1>1. Len(decl.points) \in Nat /\ DOMAIN decl.points = 1..Len(decl.points)
  BY DeviceAssumption DEF Checked, DeviceAssumption
<1>2. Values(decl) \in SUBSET (1..Len(decl.points))
  BY <1>1 DEF Values
<1>3. IsFiniteSet(Values(decl))
  <2>1. IsFiniteSet(1..Len(decl.points))
    BY <1>1, FS_Interval
  <2> QED BY <1>2, <2>1, FS_Subset
<1>4. ASSUME NEW i \in Sampled(decl) PROVE i \in Values(decl)
  <2>1. i \in DOMAIN decl.points /\ decl.points[i].sampled
    BY DEF Sampled
  <2>2. "get_value" \in decl.points[i].ops
    BY <2>1 DEF Checked, Valid
  <2>3. "get_value" \in ValueOps
    BY DEF ValueOps
  <2> QED BY <2>1, <2>2, <2>3 DEF Values, IsMethod
<1>5. ASSUME NEW i \in Values(decl)
      PROVE  /\ decl.points[i].path \in Seq(STRING) /\ Len(decl.points[i].path) \in Nat \ {0}
             /\ decl.points[i].path # <<"SAMPLE_CHANNEL">>
  <2> DEFINE path == decl.points[i].path
  <2>1. path \in ValuePaths(decl)
    BY DEF ValuePaths
  <2>2. path \in Seq(STRING) /\ path # <<>> /\ path # <<"SAMPLE_CHANNEL">>
    BY <2>1 DEF Checked, WellNamed
  <2>3. Len(path) \in Nat \ {0}
    <3> HIDE DEF path
    <3> QED BY <2>2, EmptySeq
  <2> QED BY <2>2, <2>3
<1>6. ASSUME NEW i \in Values(decl), NEW j \in Values(decl),
             IsPrefix(decl.points[i].path, decl.points[j].path)
      PROVE  i = j
  <2>1. decl.points[i].path = decl.points[j].path
    BY <1>6 DEF Checked, WellNamed, ValuePaths
  <2>2. \A k \in DOMAIN decl.points : \A m \in 1..(k - 1) :
            decl.points[m].path # decl.points[k].path
    BY DEF Checked, Valid
  <2>3. i \in 1..Len(decl.points) /\ j \in 1..Len(decl.points)
    BY <1>2
  <2>4. ~(i < j) /\ ~(j < i)
    <3>1. i < j => i \in 1..(j - 1)
      BY <1>1, <2>3
    <3>2. j < i => j \in 1..(i - 1)
      BY <1>1, <2>3
    <3> QED BY <1>1, <2>1, <2>2, <2>3, <3>1, <3>2
  <2> QED BY <1>1, <2>3, <2>4
<1> QED BY <1>1, <1>2, <1>3, <1>4, <1>5, <1>6

\* What is on the way to a point.
LEMMA OnTheWay ==
    ASSUME NEW path \in Seq(STRING), Len(path) \in Nat \ {0}
    PROVE  /\ IsFiniteSet(ToSet(Chain(path)))
           /\ \A c \in ToSet(Chain(path)) :
                 /\ Len(c) \in 1..(Len(path) - 1) /\ c = SubSeq(path, 1, Len(c))
                 /\ IsPrefix(c, path) /\ c # path
<1> DEFINE n == Len(path) - 1
<1>1. n \in Nat
  OBVIOUS
<1>2. IsFiniteSet(ToSet(Chain(path)))
  <2>1. DOMAIN Chain(path) = 1..n /\ Chain(path) = [k \in 1..n |-> Chain(path)[k]]
    BY DEF Chain
  <2>2. IsFiniteSet(1..n)
    BY <1>1, FS_Interval
  <2> HIDE DEF n
  <2> QED BY <2>1, <2>2, RangeFinite
<1>3. ASSUME NEW c \in ToSet(Chain(path))
      PROVE  /\ Len(c) \in 1..n /\ c = SubSeq(path, 1, Len(c))
             /\ IsPrefix(c, path) /\ c # path
  <2>1. PICK k \in 1..n : c = SubSeq(path, 1, k)
    BY DEF ToSet, Chain
  <2>2. Len(c) = k
    BY <2>1
  <2>3. c = SubSeq(c, 1, Len(c))
    BY <2>1, <2>2
  <2> QED BY <2>1, <2>2, <2>3 DEF IsPrefix
<1> QED BY <1>2, <1>3

\* Every component has the point that makes it.
LEMMA MakerIs ==
    ASSUME NEW decl, Checked(decl), NEW c \in Ways(decl)
    PROVE  /\ Maker(decl, c) \in Values(decl) /\ Maker(decl, c) \in Nat
           /\ LET path == decl.points[Maker(decl, c)].path IN
              c \in ToSet(Chain(path)) /\ Len(c) \in Nat /\ c = SubSeq(path, 1, Len(c))
<1>1. Through(decl, c) \subseteq Nat /\ Through(decl, c) # {}
  <2>1. Through(decl, c) \subseteq Values(decl)
    BY DEF Through
  <2>2. PICK i \in Values(decl) : c \in ToSet(Chain(decl.points[i].path))
    BY DEF Ways
  <2>3. i \in Through(decl, c)
    BY <2>2 DEF Through
  <2> QED BY <2>1, <2>3, Points
<1>2. Maker(decl, c) \in Through(decl, c)
  <2> DEFINE S == Through(decl, c)
  <2>1. \E k \in S : \A j \in S : k <= j
    BY <1>1, Least
  <2>2. Min(S) = CHOOSE x \in S : \A y \in S : x <= y
    BY DEF Min
  <2>3. Min(S) \in S
    <3> HIDE DEF S
    <3> QED BY <2>1, <2>2
  <2> QED BY <2>3 DEF Maker
<1> DEFINE i == Maker(decl, c)
<1>3. i \in Values(decl) /\ i \in Nat /\ c \in ToSet(Chain(decl.points[i].path))
  BY <1>1, <1>2 DEF Through
<1>4. Len(c) \in Nat /\ c = SubSeq(decl.points[i].path, 1, Len(c))
  <2> DEFINE path == decl.points[i].path
  <2>1. path \in Seq(STRING) /\ Len(path) \in Nat \ {0} /\ c \in ToSet(Chain(path))
    <3> HIDE DEF i
    <3> QED BY <1>3, Points
  <2> HIDE DEF path
  <2>2. Len(c) \in 1..(Len(path) - 1) /\ c = SubSeq(path, 1, Len(c))
    BY <2>1, OnTheWay
  <2>3. Len(c) \in Nat
    BY <2>1, <2>2
  <2> QED BY <2>2, <2>3 DEF path
<1> QED BY <1>3, <1>4

\* The components of a declaration can be put in the order they are made in.
LEMMA WaysFinite ==
    ASSUME NEW decl, Checked(decl)
    PROVE  IsFiniteSet(Ways(decl))
<1> DEFINE f == [i \in Values(decl) |-> ToSet(Chain(decl.points[i].path))]
<1>1. IsFiniteSet(ToSet(f))
  <2>1. DOMAIN f = Values(decl) /\ f = [i \in Values(decl) |-> f[i]]
    OBVIOUS
  <2>2. IsFiniteSet(Values(decl))
    BY Points
  <2> HIDE DEF f
  <2> QED BY <2>1, <2>2, RangeFinite
<1>2. \A T \in ToSet(f) : IsFiniteSet(T)
  <2> SUFFICES ASSUME NEW i \in Values(decl)
               PROVE  IsFiniteSet(ToSet(Chain(decl.points[i].path)))
    BY DEF ToSet
  <2>1. decl.points[i].path \in Seq(STRING) /\ Len(decl.points[i].path) \in Nat \ {0}
    BY Points
  <2> QED BY <2>1, OnTheWay
<1>3. Ways(decl) = UNION ToSet(f)
  BY DEF Ways, ToSet
<1> HIDE DEF f
<1> QED BY <1>1, <1>2, <1>3, FS_UNION

LEMMA MadeInOrder ==
    ASSUME NEW decl, Checked(decl)
    PROVE  LET before == MadeBefore(decl)
               S == Ways(decl)
           IN  /\ \A x \in S : <<x, x>> \notin before
               /\ \A x, y \in S : x # y => <<x, y>> \in before \/ <<y, x>> \in before
               /\ \A x, y, z \in S :
                     <<x, y>> \in before /\ <<y, z>> \in before => <<x, z>> \in before
<1> DEFINE S == Ways(decl)
           before == MadeBefore(decl)
           m(c) == Maker(decl, c)
<1>1. ASSUME NEW c \in S PROVE m(c) \in Nat /\ Len(c) \in Nat
  BY MakerIs
<1>2. ASSUME NEW c \in S, NEW d \in S
      PROVE  <<c, d>> \in before <=> m(c) < m(d) \/ (m(c) = m(d) /\ Len(c) < Len(d))
  BY DEF MadeBefore
<1>3. ASSUME NEW c \in S, NEW d \in S, m(c) = m(d), Len(c) = Len(d) PROVE c = d
  BY <1>3, MakerIs
<1> HIDE DEF S, before, m
<1>4. \A x \in S : <<x, x>> \notin before
  BY <1>1, <1>2
<1>5. ASSUME NEW x \in S, NEW y \in S, x # y
      PROVE  <<x, y>> \in before \/ <<y, x>> \in before
  <2>1. m(x) \in Nat /\ m(y) \in Nat /\ Len(x) \in Nat /\ Len(y) \in Nat
    BY <1>1
  <2>2. m(x) # m(y) \/ Len(x) # Len(y)
    BY <1>3, <1>5
  <2>3. \/ m(x) < m(y) \/ m(y) < m(x)
        \/ m(x) = m(y) /\ Len(x) < Len(y)
        \/ m(y) = m(x) /\ Len(y) < Len(x)
    BY <2>1, <2>2
  <2> QED BY <1>2, <2>3
<1>6. ASSUME NEW x \in S, NEW y \in S, NEW z \in S, <<x, y>> \in before, <<y, z>> \in before
      PROVE  <<x, z>> \in before
  <2>1. /\ m(x) \in Nat /\ m(y) \in Nat /\ m(z) \in Nat
        /\ Len(x) \in Nat /\ Len(y) \in Nat /\ Len(z) \in Nat
    BY <1>1
  <2>2. /\ m(x) < m(y) \/ (m(x) = m(y) /\ Len(x) < Len(y))
        /\ m(y) < m(z) \/ (m(y) = m(z) /\ Len(y) < Len(z))
    BY <1>2, <1>6
  <2>3. m(x) < m(z) \/ (m(x) = m(z) /\ Len(x) < Len(z))
    BY <2>1, <2>2
  <2> QED BY <1>2, <2>3
<1> QED BY <1>4, <1>5, <1>6 DEF S, before

\* The components of the document are those of the declaration.
LEMMA ComponentsAre ==
    ASSUME NEW decl, Checked(decl)
    PROVE  /\ Cardinality(Ways(decl)) \in Nat
           /\ DOMAIN Components(decl) = 1..Cardinality(Ways(decl))
           /\ Components(decl) \in Seq(ToSet(Components(decl)))
           /\ Distinct(Components(decl))
           /\ \A n \in ToSet(Components(decl)) : ComponentOf(decl, n)
<1> DEFINE S == Ways(decl)
           paths == Ordered(S, MadeBefore(decl))
           nodes == Components(decl)
           N == Cardinality(S)
<1>1. N \in Nat /\ DOMAIN paths = 1..N /\ paths \in [1..N -> S]
  <2> HIDE DEF S
  <2>1. IsFiniteSet(S)
    BY WaysFinite DEF S
  <2>2. /\ \A x \in S : <<x, x>> \notin MadeBefore(decl)
        /\ \A x, y \in S : x # y => <<x, y>> \in MadeBefore(decl) \/ <<y, x>> \in MadeBefore(decl)
        /\ \A x, y, z \in S :
              <<x, y>> \in MadeBefore(decl) /\ <<y, z>> \in MadeBefore(decl) =>
                  <<x, z>> \in MadeBefore(decl)
    BY MadeInOrder, Zenon DEF S
  <2> QED BY <2>1, <2>2, OrderedAll
<1>2. nodes = [k \in 1..N |-> [kind |-> "component", path |-> paths[k],
                               id |-> <<"c", k - 1>>, refs |-> <<>>]]
  <2>1. nodes = [k \in DOMAIN paths |-> [kind |-> "component", path |-> paths[k],
                                         id |-> <<"c", k - 1>>, refs |-> <<>>]]
    BY DEF Components
  <2> HIDE DEF paths, N, nodes
  <2> QED BY <1>1, <2>1
<1> HIDE DEF S, paths, nodes, N
<1>3. DOMAIN nodes = 1..N /\ nodes \in Seq(ToSet(nodes))
  <2>1. DOMAIN nodes = 1..N /\ nodes = [k \in 1..N |-> nodes[k]]
    BY <1>2
  <2> QED BY <1>1, <2>1, Listed
<1>4. Distinct(nodes)
  <2> SUFFICES ASSUME NEW j \in 1..N, NEW k \in 1..N, nodes[j].id = nodes[k].id
               PROVE  j = k
    BY <1>3 DEF Distinct
  <2>1. nodes[j].id = <<"c", j - 1>> /\ nodes[k].id = <<"c", k - 1>>
    BY <1>2
  <2>2. <<"c", j - 1>>[2] = <<"c", k - 1>>[2]
    BY <2>1
  <2> QED BY <1>1, <2>2
<1>5. ASSUME NEW n \in ToSet(nodes) PROVE ComponentOf(decl, n)
  <2>1. PICK k \in 1..N : n = nodes[k]
    BY <1>3 DEF ToSet
  <2>2. n = [kind |-> "component", path |-> paths[k], id |-> <<"c", k - 1>>, refs |-> <<>>]
    BY <1>2, <2>1
  <2>3. paths[k] \in S
    BY <1>1
  <2> QED BY <2>2, <2>3 DEF ComponentOf, S, N
<1> QED BY <1>1, <1>3, <1>4, <1>5 DEF nodes, N, S

\* What is picked out of a list of nodes.
LEMMA PickedNodes ==
    ASSUME NEW n \in Nat, NEW s, NEW places \in SUBSET (1..n)
    PROVE  /\ Picked(s, places) \in Seq(ToSet(Picked(s, places)))
           /\ ToSet(Picked(s, places)) = {s[i] : i \in places}
           /\ (\A i, j \in places : s[i].id = s[j].id => i = j) => Distinct(Picked(s, places))
<1> DEFINE p == Picked(s, places)
           N == Cardinality(places)
<1>1. PICK at \in [1..Cardinality(places) -> places] :
         /\ Cardinality(places) \in Nat
         /\ DOMAIN Picked(s, places) = 1..Cardinality(places)
         /\ \A k \in 1..Cardinality(places) : Picked(s, places)[k] = s[at[k]]
         /\ \A i \in places : \E k \in 1..Cardinality(places) : at[k] = i
         /\ \A j, k \in 1..Cardinality(places) : at[j] = at[k] => j = k
         /\ Picked(s, places) = [k \in DOMAIN Picked(s, places) |-> Picked(s, places)[k]]
  BY PickedAll
<1>2. /\ DOMAIN p = 1..N /\ \A k \in 1..N : at[k] \in places /\ p[k] = s[at[k]]
      /\ \A i \in places : \E k \in 1..N : at[k] = i
      /\ \A j, k \in 1..N : at[j] = at[k] => j = k
  BY <1>1
<1> HIDE DEF p, N
<1>3. p \in Seq(ToSet(p))
  <2>1. N \in Nat /\ p = [k \in 1..N |-> p[k]]
    BY <1>1 DEF N, p
  <2> QED BY <1>2, <2>1, Listed
<1>4. ToSet(p) = {s[i] : i \in places}
  <2>1. ASSUME NEW k \in 1..N PROVE p[k] \in {s[i] : i \in places}
    <3>1. at[k] \in places /\ p[k] = s[at[k]]
      BY <1>2
    <3> QED BY <3>1
  <2>2. ASSUME NEW i \in places PROVE \E k \in 1..N : p[k] = s[i]
    <3>1. PICK k \in 1..N : at[k] = i
      BY <1>2
    <3> QED BY <1>2, <3>1
  <2>3. ToSet(p) = {p[k] : k \in 1..N}
    BY <1>2 DEF ToSet
  <2>4. ASSUME NEW x \in {p[k] : k \in 1..N} PROVE x \in {s[i] : i \in places}
    BY <2>1
  <2>5. ASSUME NEW x \in {s[i] : i \in places} PROVE x \in {p[k] : k \in 1..N}
    BY <2>2
  <2> QED BY <2>3, <2>4, <2>5
<1>5. ASSUME \A i, j \in places : s[i].id = s[j].id => i = j
      PROVE  Distinct(p)
  <2> SUFFICES ASSUME NEW j \in 1..N, NEW k \in 1..N, p[j].id = p[k].id
               PROVE  j = k
    BY <1>2 DEF Distinct
  <2>1. at[j] \in places /\ at[k] \in places /\ s[at[j]].id = s[at[k]].id
    BY <1>2
  <2>2. at[j] = at[k]
    BY <1>5, <2>1
  <2>3. \A x, y \in 1..N : at[x] = at[y] => x = y
    BY <1>2
  <2> QED BY <2>2, <2>3
<1> QED BY <1>3, <1>4, <1>5 DEF p

\* One list of nodes after another.
LEMMA Together ==
    ASSUME NEW a, NEW b, a \in Seq(ToSet(a)), b \in Seq(ToSet(b))
    PROVE  /\ a \o b \in Seq(ToSet(a \o b)) /\ ToSet(a \o b) = ToSet(a) \cup ToSet(b)
           /\ Distinct(a) /\ Distinct(b) /\ (\A m \in ToSet(a), n \in ToSet(b) : m.id # n.id)
                 => Distinct(a \o b)
<1> DEFINE S == ToSet(a) \cup ToSet(b)
           c == a \o b
<1>1. a \in Seq(S) /\ b \in Seq(S)
  BY SeqMonotonic
<1>2. /\ c \in Seq(S) /\ Len(c) = Len(a) + Len(b)
      /\ \A i \in 1..(Len(a) + Len(b)) : c[i] = IF i <= Len(a) THEN a[i] ELSE b[i - Len(a)]
  <2> HIDE DEF S
  <2> QED BY <1>1, ConcatProperties
<1> DEFINE la == Len(a)
           lb == Len(b)
<1>3. la \in Nat /\ lb \in Nat /\ DOMAIN a = 1..la /\ DOMAIN b = 1..lb
  <2> HIDE DEF S
  <2> QED BY <1>1
<1>4. DOMAIN c = 1..(la + lb)
  <2> HIDE DEF S, c
  <2> QED BY <1>2
<1> HIDE DEF S, c, la, lb
<1>5. \A i \in 1..la : i \in 1..(la + lb) /\ c[i] = a[i]
  BY <1>2, <1>3 DEF la, lb
<1>6. \A i \in 1..lb : la + i \in 1..(la + lb) /\ c[la + i] = b[i]
  <2> TAKE i \in 1..lb
  <2>1. la + i \in 1..(la + lb) /\ ~(la + i <= la) /\ (la + i) - la = i
    BY <1>3
  <2> QED BY <1>2, <2>1 DEF la, lb
<1>7. \A i \in 1..(la + lb) : i \in 1..la \/ (i - la \in 1..lb /\ i = la + (i - la))
  BY <1>3
<1>8. ToSet(c) = S
  <2>1. ASSUME NEW i \in 1..(la + lb) PROVE c[i] \in S
    <3>1. CASE i \in 1..la
      BY <1>3, <1>5, <3>1 DEF ToSet, S
    <3>2. CASE i - la \in 1..lb /\ i = la + (i - la)
      <4>1. c[i] = b[i - la]
        BY <1>6, <3>2
      <4> QED BY <1>3, <3>2, <4>1 DEF ToSet, S
    <3> QED BY <1>7, <3>1, <3>2
  <2>2. ASSUME NEW x \in S PROVE x \in ToSet(c)
    <3>1. CASE x \in ToSet(a)
      <4>1. PICK i \in 1..la : x = a[i]
        BY <1>3, <3>1 DEF ToSet
      <4> QED BY <1>4, <1>5, <4>1 DEF ToSet
    <3>2. CASE x \in ToSet(b)
      <4>1. PICK i \in 1..lb : x = b[i]
        BY <1>3, <3>2 DEF ToSet
      <4> QED BY <1>4, <1>6, <4>1 DEF ToSet
    <3> QED BY <3>1, <3>2 DEF S
  <2> QED BY <1>4, <2>1, <2>2 DEF ToSet
<1>9. ASSUME Distinct(a), Distinct(b), \A m \in ToSet(a), n \in ToSet(b) : m.id # n.id
      PROVE  Distinct(c)
  <2>1. ASSUME NEW i \in 1..la, NEW j \in 1..lb PROVE a[i].id # b[j].id
    BY <1>3, <1>9 DEF ToSet
  <2> SUFFICES ASSUME NEW i \in 1..(la + lb), NEW j \in 1..(la + lb), c[i].id = c[j].id
               PROVE  i = j
    BY <1>4 DEF Distinct
  <2>2. CASE i \in 1..la /\ j \in 1..la
    BY <1>3, <1>5, <1>9, <2>2 DEF Distinct
  <2>3. CASE /\ i - la \in 1..lb /\ i = la + (i - la)
             /\ j - la \in 1..lb /\ j = la + (j - la)
    <3>1. c[i] = b[i - la] /\ c[j] = b[j - la]
      BY <1>6, <2>3
    <3>2. i - la = j - la
      BY <1>3, <1>9, <2>3, <3>1 DEF Distinct
    <3> QED BY <2>3, <3>2
  <2>4. CASE i \in 1..la /\ j - la \in 1..lb /\ j = la + (j - la)
    <3>1. c[i] = a[i] /\ c[j] = b[j - la]
      BY <1>5, <1>6, <2>4
    <3> QED BY <2>1, <2>4, <3>1
  <2>5. CASE j \in 1..la /\ i - la \in 1..lb /\ i = la + (i - la)
    <3>1. c[j] = a[j] /\ c[i] = b[i - la]
      BY <1>5, <1>6, <2>5
    <3> QED BY <2>1, <2>5, <3>1
  <2> QED BY <1>7, <2>2, <2>3, <2>4, <2>5
<1> QED BY <1>2, <1>8, <1>9 DEF S, c

\* One node for each point with a value.
LEMMA DataNodesAre ==
    ASSUME NEW decl, Checked(decl)
    PROVE  /\ DataNodes(decl) \in Seq(ToSet(DataNodes(decl))) /\ Distinct(DataNodes(decl))
           /\ ToSet(DataNodes(decl)) = {DataNode(decl, i) : i \in Values(decl)}
<1> DEFINE n == Len(decl.points)
           s == [i \in DOMAIN decl.points |-> DataNode(decl, i)]
<1>1. n \in Nat /\ DOMAIN decl.points = 1..n /\ Values(decl) \in SUBSET (1..n)
  BY Points
<1>2. \A i \in 1..n : s[i] = DataNode(decl, i) /\ s[i].id = <<"p", i - 1>>
  BY <1>1 DEF DataNode, PointId
<1>3. DataNodes(decl) = Picked(s, Values(decl))
  BY DEF DataNodes
<1> HIDE DEF n, s
<1>4. ASSUME NEW i \in Values(decl), NEW j \in Values(decl), s[i].id = s[j].id
      PROVE  i = j
  <2>1. i \in 1..n /\ j \in 1..n
    BY <1>1
  <2>2. <<"p", i - 1>>[2] = <<"p", j - 1>>[2]
    BY <1>2, <1>4, <2>1
  <2> QED BY <1>1, <2>1, <2>2
<1>5. /\ Picked(s, Values(decl)) \in Seq(ToSet(Picked(s, Values(decl))))
      /\ ToSet(Picked(s, Values(decl))) = {s[i] : i \in Values(decl)}
      /\ Distinct(Picked(s, Values(decl)))
  <2> DEFINE places == Values(decl)
  <2>1. \A i, j \in places : s[i].id = s[j].id => i = j
    BY <1>4
  <2>2. n \in Nat /\ places \in SUBSET (1..n)
    BY <1>1
  <2> HIDE DEF places
  <2>3. /\ Picked(s, places) \in Seq(ToSet(Picked(s, places)))
        /\ ToSet(Picked(s, places)) = {s[i] : i \in places}
        /\ Distinct(Picked(s, places))
    BY <2>1, <2>2, PickedNodes
  <2> QED BY <2>3 DEF places
<1>6. {s[i] : i \in Values(decl)} = {DataNode(decl, i) : i \in Values(decl)}
  BY <1>1, <1>2
<1> QED BY <1>3, <1>5, <1>6

\* The channel, if there is one, names the points that are sampled.
LEMMA ChannelIs ==
    ASSUME NEW decl, Checked(decl)
    PROVE  /\ Channel(decl) \in Seq(ToSet(Channel(decl))) /\ Distinct(Channel(decl))
           /\ \A n \in ToSet(Channel(decl)) :
                 /\ n.kind = "channel" /\ n.path = <<"SAMPLE_CHANNEL">> /\ n.id = <<decl.name, 0>>
                 /\ ToSet(n.refs) = {PointId(i) : i \in Sampled(decl)}
<1> DEFINE s == [i \in DOMAIN decl.points |-> PointId(i)]
           refs == Picked(s, Sampled(decl))
           c == [kind |-> "channel", path |-> <<"SAMPLE_CHANNEL">>, id |-> <<decl.name, 0>>,
                 refs |-> refs]
<1>1. ToSet(refs) = {PointId(i) : i \in Sampled(decl)}
  <2>1. Len(decl.points) \in Nat /\ Sampled(decl) \in SUBSET (1..Len(decl.points))
    BY Points
  <2>2. ToSet(refs) = {s[i] : i \in Sampled(decl)}
    <3> HIDE DEF s
    <3> QED BY <2>1, PickedNodes
  <2>3. \A i \in Sampled(decl) : s[i] = PointId(i)
    BY DEF Sampled
  <2> HIDE DEF s, refs
  <2> QED BY <2>2, <2>3
<1>2. Channel(decl) = <<>> \/ Channel(decl) = <<c>>
  BY DEF Channel
<1> HIDE DEF refs
<1>3. CASE Channel(decl) = <<>>
  <2>1. DOMAIN Channel(decl) = {} /\ ToSet(Channel(decl)) = {}
    BY <1>3 DEF ToSet
  <2> QED BY <1>3, <2>1 DEF Distinct
<1>4. CASE Channel(decl) = <<c>>
  <2>1. /\ c.kind = "channel" /\ c.path = <<"SAMPLE_CHANNEL">> /\ c.id = <<decl.name, 0>>
        /\ c.refs = refs
    OBVIOUS
  <2> HIDE DEF c
  <2>2. DOMAIN Channel(decl) = {1} /\ Channel(decl)[1] = c
    BY <1>4
  <2>3. ToSet(Channel(decl)) = {c}
    BY <2>2 DEF ToSet
  <2> QED BY <1>1, <1>4, <2>1, <2>2, <2>3 DEF Distinct
<1> QED BY <1>2, <1>3, <1>4

\* What the document of a declaration consists of, each node under its own id.
LEMMA ToolModelIs ==
    ASSUME NEW decl, Checked(decl)
    PROVE  LET nodes == ToolModel(decl).nodes IN
           /\ nodes \in Seq(ToSet(nodes)) /\ Distinct(nodes)
           /\ ToSet(nodes) = ToSet(Components(decl))
                 \cup {DataNode(decl, i) : i \in Values(decl)} \cup ToSet(Channel(decl))
<1> DEFINE a == Components(decl)
           b == DataNodes(decl)
           c == Channel(decl)
<1>1. ToolModel(decl).nodes = (a \o b) \o c
  BY DEF ToolModel
<1>2. ToSet(b) = {DataNode(decl, i) : i \in Values(decl)}
  BY DataNodesAre
<1>3. \A m \in ToSet(a) : m.id[1] = "c"
  BY ComponentsAre DEF ComponentOf
<1>4. \A m \in ToSet(b) : m.id[1] = "p"
  BY <1>2 DEF DataNode, PointId
<1>5. \A m \in ToSet(c) : m.id[1] \notin {"p", "c"}
  BY ChannelIs DEF Checked, WellNamed
<1>6. /\ a \in Seq(ToSet(a)) /\ b \in Seq(ToSet(b)) /\ c \in Seq(ToSet(c))
      /\ Distinct(a) /\ Distinct(b) /\ Distinct(c)
  BY ComponentsAre, DataNodesAre, ChannelIs
<1> HIDE DEF a, b, c
<1> DEFINE d == a \o b
<1>7. d \in Seq(ToSet(d)) /\ ToSet(d) = ToSet(a) \cup ToSet(b) /\ Distinct(d)
  <2>1. \A m \in ToSet(a), n \in ToSet(b) : m.id # n.id
    BY <1>3, <1>4
  <2> QED BY <1>6, <2>1, Together
<1> HIDE DEF d
<1>8. /\ d \o c \in Seq(ToSet(d \o c)) /\ ToSet(d \o c) = ToSet(d) \cup ToSet(c)
      /\ Distinct(d \o c)
  <2>1. \A m \in ToSet(d), n \in ToSet(c) : m.id # n.id
    BY <1>3, <1>4, <1>5, <1>7
  <2> QED BY <1>6, <1>7, <2>1, Together
<1> QED BY <1>1, <1>2, <1>7, <1>8 DEF a, c, d

\* A finite set of numbers has a greatest member.
LEMMA MaxIs ==
    ASSUME NEW b \in Nat, NEW S \in SUBSET (0..b), S # {}
    PROVE  Max(S) \in S /\ \A y \in S : y <= Max(S)
<1> DEFINE D == {b - x : x \in S}
<1>1. D \subseteq Nat /\ D # {}
  <2>1. \A x \in S : b - x \in Nat
    OBVIOUS
  <2>2. PICK x \in S : TRUE
    OBVIOUS
  <2> QED BY <2>1, <2>2
<1>2. PICK k \in D : \A j \in D : k <= j
  <2> HIDE DEF D
  <2> QED BY <1>1, Least
<1>3. PICK x \in S : k = b - x
  BY <1>2
<1>4. \A y \in S : b - x <= b - y
  BY <1>2, <1>3
<1>5. \A y \in S : x >= y
  <2> TAKE y \in S
  <2>1. b - x <= b - y /\ x \in Int /\ y \in Int
    BY <1>4
  <2> QED BY <2>1
<1>6. Max(S) = CHOOSE z \in S : \A y \in S : z >= y
  BY DEF Max
<1>7. Max(S) \in S /\ \A y \in S : Max(S) >= y
  BY <1>5, <1>6
<1>8. \A y \in S : y <= Max(S)
  BY <1>7
<1> QED BY <1>7, <1>8

\* The ids of the document, and those its channel names.
LEMMA IdShapes ==
    ASSUME NEW decl, Checked(decl), NEW n \in ToSet(ToolModel(decl).nodes),
           NEW id \in {n.id} \cup ToSet(n.refs)
    PROVE  \/ \E k \in 1..Cardinality(Ways(decl)) : id = <<"c", k - 1>>
           \/ \E i \in 1..Len(decl.points) : id = <<"p", i - 1>>
           \/ id = <<decl.name, 0>>
<1>1. ToSet(<<>>) = {}
  <2>1. DOMAIN <<>> = {}
    OBVIOUS
  <2> QED BY <2>1 DEF ToSet
<1>2. CASE n \in ToSet(Components(decl))
  <2>1. ComponentOf(decl, n)
    BY <1>2, ComponentsAre
  <2> QED BY <1>1, <2>1 DEF ComponentOf
<1>3. CASE n \in {DataNode(decl, i) : i \in Values(decl)}
  <2>1. PICK i \in Values(decl) : n = DataNode(decl, i)
    BY <1>3
  <2>2. n.id = <<"p", i - 1>> /\ n.refs = <<>>
    BY <2>1 DEF DataNode, PointId
  <2>3. i \in 1..Len(decl.points)
    BY Points
  <2> QED BY <1>1, <2>2, <2>3
<1>4. CASE n \in ToSet(Channel(decl))
  <2>1. n.id = <<decl.name, 0>> /\ ToSet(n.refs) = {PointId(i) : i \in Sampled(decl)}
    BY <1>4, ChannelIs
  <2>2. Sampled(decl) \subseteq 1..Len(decl.points)
    BY Points
  <2> QED BY <2>1, <2>2 DEF PointId
<1> QED BY <1>2, <1>3, <1>4, ToolModelIs

\* The walk comes out above every id of the document, if it meets the highest.
LEMMA OffsetAbove ==
    ASSUME NEW decl, Checked(decl), NEW letter \in {"p", "c"}
    PROVE  LET nodes == ToolModel(decl).nodes IN
           /\ Offset(nodes, letter) \in Nat
           /\ NumbersMet(decl) =>
                 \A n \in ToSet(nodes) : n.id[1] = letter => n.id[2] < Offset(nodes, letter)
<1> DEFINE nodes == ToolModel(decl).nodes
           ids == {id \in Met(nodes) : id[1] = letter}
           S == {0} \cup {id[2] + 1 : id \in ids}
           L == Len(decl.points)
           N == Cardinality(Ways(decl))
<1>1. L \in Nat /\ N \in Nat
  BY Points, ComponentsAre
<1>2. ASSUME NEW id \in ids PROVE id[2] \in Nat /\ id[2] + 1 \in 0..(L + N)
  <2>1. PICK k \in DOMAIN nodes : id \in {nodes[k].id} \cup ToSet(nodes[k].refs)
    BY DEF Met
  <2> DEFINE n == nodes[k]
  <2>2. n \in ToSet(nodes) /\ id \in {n.id} \cup ToSet(n.refs)
    BY <2>1 DEF ToSet
  <2>3. \/ \E j \in 1..N : id = <<"c", j - 1>>
        \/ \E i \in 1..L : id = <<"p", i - 1>>
        \/ id = <<decl.name, 0>>
    <3> HIDE DEF n
    <3> QED BY <2>2, IdShapes
  <2>4. id # <<decl.name, 0>>
    BY DEF Checked, WellNamed
  <2>5. ASSUME NEW j \in 1..N, id = <<"c", j - 1>> PROVE id[2] = j - 1
    BY <2>5
  <2>6. ASSUME NEW i \in 1..L, id = <<"p", i - 1>> PROVE id[2] = i - 1
    BY <2>6
  <2> HIDE DEF L, N
  <2>7. ASSUME NEW j \in 1..N, id[2] = j - 1
        PROVE  id[2] \in Nat /\ id[2] + 1 \in 0..(L + N)
    BY <1>1, <2>7
  <2>8. ASSUME NEW i \in 1..L, id[2] = i - 1
        PROVE  id[2] \in Nat /\ id[2] + 1 \in 0..(L + N)
    BY <1>1, <2>8
  <2> QED BY <2>3, <2>4, <2>5, <2>6, <2>7, <2>8
<1>3. S \in SUBSET (0..(L + N)) /\ S # {} /\ L + N \in Nat
  <2>1. 0 \in 0..(L + N) /\ L + N \in Nat
    <3> HIDE DEF L, N
    <3> QED BY <1>1
  <2>2. \A id \in ids : id[2] + 1 \in 0..(L + N)
    BY <1>2
  <2> HIDE DEF L, N, ids
  <2> QED BY <2>1, <2>2
<1>4. Offset(nodes, letter) = Max(S)
  BY DEF Offset
<1>5. Max(S) \in S /\ \A y \in S : y <= Max(S)
  <2> HIDE DEF S, L, N
  <2> QED BY <1>3, MaxIs
<1>6. Max(S) \in Nat
  <2> DEFINE m == Max(S)
             b == L + N
  <2>1. m \in 0..b /\ b \in Nat
    <3> HIDE DEF S, L, N
    <3> QED BY <1>3, <1>5
  <2> HIDE DEF m, b
  <2>2. m \in Nat
    BY <2>1
  <2> QED BY <2>2 DEF m
<1>7. ASSUME NumbersMet(decl), NEW n \in ToSet(nodes), n.id[1] = letter
      PROVE  n.id[2] < Max(S)
  <2>1. PICK id \in Met(nodes) : id[1] = n.id[1] /\ id[2] >= n.id[2]
    BY <1>7 DEF NumbersMet
  <2>2. id[2] \in Nat /\ id[2] + 1 <= Max(S)
    <3>1. id \in ids /\ id[2] + 1 \in S
      BY <1>7, <2>1
    <3> HIDE DEF S, ids
    <3> QED BY <1>2, <1>5, <3>1
  <2>3. n.id[2] \in Nat
    <3>1. \/ \E j \in 1..N : n.id = <<"c", j - 1>>
          \/ \E i \in 1..L : n.id = <<"p", i - 1>>
          \/ n.id = <<decl.name, 0>>
      BY IdShapes
    <3> HIDE DEF N, L
    <3>2. \A j \in 1..N : j - 1 \in Nat
      BY <1>1
    <3>3. \A i \in 1..L : i - 1 \in Nat
      BY <1>1
    <3> QED BY <3>1, <3>2, <3>3
  <2> HIDE DEF S
  <2> QED BY <1>6, <2>1, <2>2, <2>3
<1> QED BY <1>4, <1>6, <1>7

\* A node of the file tool as it comes into the document.
LEMMA ShiftedIs ==
    ASSUME NEW decl, Checked(decl), Joinable(decl), Checked(FileTool), Declarable,
           NEW n \in ToSet(ToolModel(FileTool).nodes)
    PROVE  LET nodes == ToolModel(decl).nodes
               s == Shifted(n, nodes)
           IN  /\ s.kind = n.kind /\ s.path = n.path /\ s.kind \in {"component", "item", "config"}
               /\ n.id = <<n.id[1], n.id[2]>> /\ n.id[1] \in {"p", "c"} /\ n.id[2] \in Nat
               /\ s.id = <<n.id[1], n.id[2] + Offset(nodes, n.id[1])>>
<1> DEFINE nodes == ToolModel(decl).nodes
           s == Shifted(n, nodes)
<1>1. ToSet(Channel(FileTool)) = {}
  <2>1. Channel(FileTool) = <<>> /\ DOMAIN <<>> = {}
    BY DEF Declarable
  <2> QED BY <2>1 DEF ToSet
<1>2. n \in ToSet(Components(FileTool)) \/ n \in {DataNode(FileTool, i) : i \in Values(FileTool)}
  BY <1>1, ToolModelIs
<1>3. \A i \in Values(FileTool) :
         /\ FileTool.points[i].path \in Seq(STRING)
         /\ Len(FileTool.points[i].path) \in Nat \ {0} /\ Len(FileTool.points[i].path) <= 2
  BY Points DEF Declarable, ValuePaths
<1>4. CASE n \in ToSet(Components(FileTool))
  <2>1. ComponentOf(FileTool, n)
    BY <1>4, ComponentsAre
  <2>2. PICK i \in Values(FileTool) : n.path \in ToSet(Chain(FileTool.points[i].path))
    BY <2>1 DEF ComponentOf, Ways
  <2>3. Len(n.path) \in 1..(Len(FileTool.points[i].path) - 1)
    BY <1>3, <2>2, OnTheWay
  <2>4. Len(n.path) <= 1
    <3> DEFINE len == Len(FileTool.points[i].path)
    <3>1. len \in Nat /\ len <= 2 /\ Len(n.path) \in 1..(len - 1)
      BY <1>3, <2>3
    <3> HIDE DEF len
    <3> QED BY <3>1
  <2>5. Walked(n)
    BY <2>1, <2>4 DEF Walked, ComponentOf
  <2>6. PICK k \in 1..Cardinality(Ways(FileTool)) : n.id = <<"c", k - 1>>
    BY <2>1 DEF ComponentOf
  <2>7. k - 1 \in Nat
    BY ComponentsAre
  <2>8. n.id = <<n.id[1], n.id[2]>> /\ n.id[1] = "c" /\ n.id[2] \in Nat
    BY <2>6, <2>7
  <2>9. n.kind = "component"
    BY <2>1 DEF ComponentOf
  <2> QED BY <2>5, <2>8, <2>9 DEF Shifted, ShiftedId
<1>5. CASE n \in {DataNode(FileTool, i) : i \in Values(FileTool)}
  <2>1. PICK i \in Values(FileTool) : n = DataNode(FileTool, i)
    BY <1>5
  <2>2. n.kind \in {"item", "config"} /\ n.path = FileTool.points[i].path /\ n.id = <<"p", i - 1>>
    BY <2>1 DEF DataNode, PointId
  <2>3. Walked(n)
    BY <1>3, <2>2 DEF Walked
  <2>4. i - 1 \in Nat
    <3>1. i \in 1..Len(FileTool.points) /\ Len(FileTool.points) \in Nat
      BY Points
    <3> QED BY <3>1
  <2>5. n.id = <<n.id[1], n.id[2]>> /\ n.id[1] = "p" /\ n.id[2] \in Nat
    BY <2>2, <2>4
  <2> QED BY <2>2, <2>3, <2>5 DEF Shifted, ShiftedId
<1> QED BY <1>2, <1>4, <1>5

\* What the file tool adds to the document of an adapter.
Joining(decl) ==
    LET nodes == ToolModel(decl).nodes IN
    {s \in {Shifted(n, nodes) : n \in ToSet(ToolModel(FileTool).nodes)} : Joins(s, nodes)}

\* The nodes of two tools in one document, each under its own id if the numbers of
\* the first are met.
LEMMA JoinedIs ==
    ASSUME NEW decl, Checked(decl), Joinable(decl), Checked(FileTool), Declarable
    PROVE  LET nodes == Joined(ToolModel(decl), FileTool).nodes IN
           /\ nodes \in Seq(ToSet(nodes)) /\ (NumbersMet(decl) => Distinct(nodes))
           /\ ToSet(nodes) = ToSet(ToolModel(decl).nodes) \cup Joining(decl)
<1> DEFINE a == ToolModel(decl).nodes
           f == ToolModel(FileTool).nodes
           shifted == [k \in DOMAIN f |-> Shifted(f[k], a)]
           joining == {k \in DOMAIN shifted : Joins(shifted[k], a)}
           p == Picked(shifted, joining)
<1>1. Joined(ToolModel(decl), FileTool).nodes = a \o p
  <2> DEFINE d == ToolModel(decl)
             q == Picked([k \in DOMAIN f |-> Shifted(f[k], d.nodes)],
                         {k \in DOMAIN [l \in DOMAIN f |-> Shifted(f[l], d.nodes)] :
                              Joins([l \in DOMAIN f |-> Shifted(f[l], d.nodes)][k], d.nodes)})
  <2>1. Joined(d, FileTool) = [d EXCEPT !.nodes = d.nodes \o q]
    BY DEF Joined
  <2>2. d = [device |-> d.device, nodes |-> d.nodes]
    BY DEF ToolModel
  <2>3. q = p
    OBVIOUS
  <2> HIDE DEF d, q
  <2>4. [d EXCEPT !.nodes = d.nodes \o q].nodes = d.nodes \o q
    BY <2>2
  <2> QED BY <2>1, <2>3, <2>4 DEF d
<1>2. /\ a \in Seq(ToSet(a)) /\ Distinct(a) /\ f \in Seq(ToSet(f)) /\ Distinct(f)
  BY ToolModelIs
<1>3. \A k \in DOMAIN f : f[k] \in ToSet(f)
  BY DEF ToSet
<1>4. ASSUME NEW n \in ToSet(f)
      PROVE  /\ n.id = <<n.id[1], n.id[2]>> /\ n.id[1] \in {"p", "c"} /\ n.id[2] \in Nat
             /\ Shifted(n, a).id = <<n.id[1], n.id[2] + Offset(a, n.id[1])>>
             /\ Offset(a, n.id[1]) \in Nat
  <2>1. /\ n.id = <<n.id[1], n.id[2]>> /\ n.id[1] \in {"p", "c"} /\ n.id[2] \in Nat
        /\ Shifted(n, a).id = <<n.id[1], n.id[2] + Offset(a, n.id[1])>>
    BY ShiftedIs
  <2>2. Offset(a, n.id[1]) \in Nat
    BY <2>1, OffsetAbove
  <2> QED BY <2>1, <2>2
<1>5. ASSUME NumbersMet(decl), NEW m \in ToSet(a), NEW n \in ToSet(f)
      PROVE  m.id # Shifted(n, a).id
  <2> SUFFICES ASSUME m.id = Shifted(n, a).id PROVE FALSE
    OBVIOUS
  <2> DEFINE letter == n.id[1]
             number == n.id[2]
             offset == Offset(a, letter)
  <2>1. m.id[1] = letter /\ m.id[2] = number + offset /\ number \in Nat /\ offset \in Nat
    BY <1>4
  <2>2. m.id[2] < offset
    BY <1>4, <1>5, <2>1, OffsetAbove
  <2> HIDE DEF number, offset
  <2> QED BY <2>1, <2>2
<1>6. ASSUME NEW m \in ToSet(f), NEW n \in ToSet(f), Shifted(m, a).id = Shifted(n, a).id
      PROVE  m.id = n.id
  <2>1. m.id[1] = n.id[1] /\ m.id[2] + Offset(a, m.id[1]) = n.id[2] + Offset(a, n.id[1])
    BY <1>4, <1>6
  <2> DEFINE x == m.id[2]
             y == n.id[2]
             offset == Offset(a, n.id[1])
  <2>2. x + offset = y + offset /\ x \in Nat /\ y \in Nat /\ offset \in Nat
    BY <1>4, <2>1
  <2>3. x = y
    <3> HIDE DEF x, y, offset
    <3> QED BY <2>2
  <2>4. m.id = <<m.id[1], m.id[2]>> /\ n.id = <<n.id[1], n.id[2]>>
    BY <1>4
  <2> QED BY <2>1, <2>3, <2>4
<1>7. \A k \in DOMAIN f : shifted[k] = Shifted(f[k], a)
  OBVIOUS
<1>8. DOMAIN f = 1..Len(f) /\ Len(f) \in Nat /\ joining \in SUBSET DOMAIN f
  <2>1. DOMAIN f = 1..Len(f) /\ Len(f) \in Nat
    <3> HIDE DEF f
    <3> QED BY <1>2
  <2> QED BY <2>1
<1>9. ToSet(f) = {f[k] : k \in DOMAIN f}
  BY DEF ToSet
<1>10. joining = {k \in DOMAIN f : Joins(Shifted(f[k], a), a)}
  OBVIOUS
<1>11. Joining(decl) = {s \in {Shifted(n, a) : n \in ToSet(f)} : Joins(s, a)}
  BY DEF Joining
<1> HIDE DEF a, f, shifted, joining
<1>12. /\ p \in Seq(ToSet(p)) /\ ToSet(p) = {shifted[k] : k \in joining}
       /\ Distinct(p)
  <2>1. ASSUME NEW j \in joining, NEW k \in joining, shifted[j].id = shifted[k].id
        PROVE  j = k
    <3>1. j \in DOMAIN f /\ k \in DOMAIN f
      BY <1>8
    <3>2. f[j].id = f[k].id
      BY <1>3, <1>6, <1>7, <2>1, <3>1
    <3> QED BY <1>2, <3>1, <3>2 DEF Distinct
  <2> DEFINE n == Len(f)
  <2>2. n \in Nat /\ joining \in SUBSET (1..n)
    BY <1>8
  <2>3. \A i, j \in joining : shifted[i].id = shifted[j].id => i = j
    BY <2>1
  <2> HIDE DEF n, p
  <2>4. /\ Picked(shifted, joining) \in Seq(ToSet(Picked(shifted, joining)))
        /\ ToSet(Picked(shifted, joining)) = {shifted[i] : i \in joining}
        /\ (\A i, j \in joining : shifted[i].id = shifted[j].id => i = j)
              => Distinct(Picked(shifted, joining))
    BY <2>2, PickedNodes
  <2>5. Distinct(Picked(shifted, joining))
    BY <2>3, <2>4
  <2> QED BY <2>4, <2>5 DEF p
<1>13. ToSet(p) = Joining(decl)
  <2>1. ASSUME NEW k \in joining PROVE shifted[k] \in Joining(decl)
    <3>1. k \in DOMAIN f /\ Joins(Shifted(f[k], a), a) /\ f[k] \in ToSet(f)
      BY <1>3, <1>10
    <3> QED BY <1>7, <1>11, <3>1
  <2>2. ASSUME NEW s \in Joining(decl) PROVE \E k \in joining : s = shifted[k]
    <3>1. PICK n \in ToSet(f) : s = Shifted(n, a) /\ Joins(s, a)
      BY <1>11
    <3>2. PICK k \in DOMAIN f : n = f[k]
      BY <1>9
    <3>3. k \in joining
      BY <1>10, <3>1, <3>2
    <3> QED BY <1>7, <3>1, <3>2, <3>3
  <2> HIDE DEF p
  <2> QED BY <1>12, <2>1, <2>2
<1>14. ASSUME NumbersMet(decl), NEW m \in ToSet(a), NEW n \in ToSet(p) PROVE m.id # n.id
  <2>1. n \in Joining(decl)
    BY <1>13
  <2>2. PICK o \in ToSet(f) : n = Shifted(o, a)
    BY <1>11, <2>1
  <2> QED BY <1>5, <1>14, <2>2
<1>15. /\ a \o p \in Seq(ToSet(a \o p)) /\ ToSet(a \o p) = ToSet(a) \cup ToSet(p)
       /\ NumbersMet(decl) => Distinct(a \o p)
  <2> HIDE DEF p
  <2> QED BY <1>2, <1>12, <1>14, Together
<1> QED BY <1>1, <1>13, <1>15 DEF a

-----------------------------------------------------------------------------
(* The document is sound                                                   *)

\* Every node but the channel is on the way to a point, or the point itself.
LEMMA Leading ==
    ASSUME NEW decl, Checked(decl), NEW n \in ToSet(ToolModel(decl).nodes)
    PROVE  \/ n \in ToSet(Channel(decl))
           \/ /\ \E i \in Values(decl) : IsPrefix(n.path, decl.points[i].path)
              /\ n.kind \in {"component", "item", "config"}
<1>1. CASE n \in ToSet(Components(decl))
  <2>1. ComponentOf(decl, n)
    BY <1>1, ComponentsAre
  <2>2. PICK i \in Values(decl) : n.path \in ToSet(Chain(decl.points[i].path))
    BY <2>1 DEF ComponentOf, Ways
  <2>3. decl.points[i].path \in Seq(STRING) /\ Len(decl.points[i].path) \in Nat \ {0}
    BY Points
  <2>4. IsPrefix(n.path, decl.points[i].path)
    BY <2>2, <2>3, OnTheWay
  <2> QED BY <2>1, <2>4 DEF ComponentOf
<1>2. CASE n \in {DataNode(decl, i) : i \in Values(decl)}
  <2>1. PICK i \in Values(decl) : n = DataNode(decl, i)
    BY <1>2
  <2>2. n.path = decl.points[i].path /\ n.kind \in {"item", "config"}
    BY <2>1 DEF DataNode
  <2>3. decl.points[i].path \in Seq(STRING)
    BY Points
  <2>4. IsPrefix(n.path, decl.points[i].path)
    BY <2>2, <2>3 DEF IsPrefix
  <2> QED BY <2>2, <2>4
<1> QED BY <1>1, <1>2, ToolModelIs

\* In the document of a declaration the path of a point is that of its node alone.
LEMMA OwnPath ==
    ASSUME NEW decl, Checked(decl), NEW n \in ToSet(ToolModel(decl).nodes),
           NEW i \in Values(decl), n.path = decl.points[i].path
    PROVE  n = DataNode(decl, i)
<1> DEFINE path == decl.points[i].path
<1>1. path \in Seq(STRING) /\ path # <<"SAMPLE_CHANNEL">>
  BY Points
<1>2. CASE n \in ToSet(Components(decl))
  <2>1. ComponentOf(decl, n)
    BY <1>2, ComponentsAre
  <2>2. PICK j \in Values(decl) : n.path \in ToSet(Chain(decl.points[j].path))
    BY <2>1 DEF ComponentOf, Ways
  <2>3. decl.points[j].path \in Seq(STRING) /\ Len(decl.points[j].path) \in Nat \ {0}
    BY Points
  <2>4. IsPrefix(n.path, decl.points[j].path) /\ n.path # decl.points[j].path
    BY <2>2, <2>3, OnTheWay
  <2>5. i = j
    BY <2>4, Points
  <2> QED BY <2>4, <2>5
<1>3. CASE n \in {DataNode(decl, j) : j \in Values(decl)}
  <2>1. PICK j \in Values(decl) : n = DataNode(decl, j)
    BY <1>3
  <2>2. decl.points[j].path = path
    BY <2>1 DEF DataNode
  <2>3. IsPrefix(path, decl.points[j].path)
    BY <1>1, <2>2 DEF IsPrefix
  <2>4. i = j
    BY <2>3, Points
  <2> QED BY <2>1, <2>4
<1>4. CASE n \in ToSet(Channel(decl))
  BY <1>1, <1>4, ChannelIs
<1> QED BY <1>2, <1>3, <1>4, ToolModelIs

\* Two nodes of a document with one id are one.
LEMMA SameNode ==
    ASSUME NEW nodes, Distinct(nodes), NEW m \in ToSet(nodes), NEW n \in ToSet(nodes),
           m.id = n.id
    PROVE  m = n
<1>1. PICK j \in DOMAIN nodes : m = nodes[j]
  BY DEF ToSet
<1>2. PICK k \in DOMAIN nodes : n = nodes[k]
  BY DEF ToSet
<1> QED BY <1>1, <1>2 DEF Distinct

\* A document that has all of a declaration and no other channel.
Holds(nodes, decl) ==
    /\ nodes \in Seq(ToSet(nodes))
    /\ \A n \in ToSet(ToolModel(decl).nodes) : n \in ToSet(nodes)
    /\ \A n \in ToSet(nodes) : n.kind = "channel" => n \in ToSet(Channel(decl))
    /\ \A n \in ToSet(nodes) : n.kind = "component" => n.id[1] = "c"
    /\ \A i \in Values(decl), n \in ToSet(nodes) :
          n.path = decl.points[i].path => n = DataNode(decl, i)

\* What is sampled is an item of the document.
LEMMA SampledItem ==
    ASSUME NEW decl, Checked(decl), NEW nodes, Holds(nodes, decl), NEW i \in Sampled(decl)
    PROVE  /\ i \in Values(decl) /\ DataNode(decl, i) \in ToSet(nodes)
           /\ DataNode(decl, i).kind = "item" /\ DataNode(decl, i).id = PointId(i)
           /\ DataNode(decl, i).path = decl.points[i].path
<1>1. i \in Values(decl)
  BY Points
<1>2. i \in DOMAIN decl.points /\ decl.points[i].sampled
  BY DEF Sampled
<1>3. ~decl.points[i].config
  BY <1>2 DEF Checked, Valid
<1>4. DataNode(decl, i) \in ToSet(ToolModel(decl).nodes)
  BY <1>1, ToolModelIs
<1> QED BY <1>1, <1>3, <1>4 DEF DataNode, Holds

\* What a channel samples is in the id map, and no component is there in its place,
\* even where ids are shared.
LEMMA HoldsParses ==
    ASSUME NEW decl, Checked(decl), NEW d, Holds(d.nodes, decl)
    PROVE  Parses(d)
<1> DEFINE nodes == d.nodes
<1> SUFFICES ASSUME NEW r \in Wanted(d)
             PROVE  /\ \E n \in IdMapped(nodes) : n.id = r /\ n.kind # "component"
                    /\ \A n \in IdMapped(nodes) : n.id = r => n.kind # "component"
  BY DEF Parses, MayParse, Named
<1>1. PICK c \in ToSet(nodes) : c.kind = "channel" /\ r \in ToSet(c.refs)
  BY DEF Wanted
<1>2. PICK i \in Sampled(decl) : r = PointId(i)
  <2>1. c \in ToSet(Channel(decl))
    BY <1>1 DEF Holds
  <2>2. ToSet(c.refs) = {PointId(i) : i \in Sampled(decl)}
    BY <2>1, ChannelIs
  <2> QED BY <1>1, <2>2
<1>3. /\ i \in Values(decl) /\ DataNode(decl, i) \in ToSet(nodes)
      /\ DataNode(decl, i).kind = "item" /\ DataNode(decl, i).id = r
      /\ DataNode(decl, i).path = decl.points[i].path
  BY <1>2, SampledItem
<1> DEFINE S == {j \in DOMAIN nodes : nodes[j] = DataNode(decl, i)}
<1>4. DOMAIN nodes = 1..Len(nodes) /\ Len(nodes) \in Nat
  <2>1. nodes \in Seq(ToSet(nodes))
    BY DEF Holds
  <2> HIDE DEF nodes
  <2> QED BY <2>1
<1>5. PICK j \in S : \A k \in S : k <= j
  <2>1. S # {}
    BY <1>3 DEF ToSet
  <2>2. S \in SUBSET (0..Len(nodes))
    BY <1>4
  <2> HIDE DEF S, nodes
  <2> QED BY <1>4, <2>1, <2>2, MaxIs
<1>6. ~Shadowed(nodes, j)
  <2> SUFFICES ASSUME NEW l \in DOMAIN nodes, nodes[l].path = nodes[j].path,
                      \/ Rank(nodes[l]) > Rank(nodes[j])
                      \/ Rank(nodes[l]) = Rank(nodes[j]) /\ l > j
               PROVE  FALSE
    BY DEF Shadowed
  <2>1. nodes[l] \in ToSet(nodes)
    BY DEF ToSet
  <2>2. nodes[l] = DataNode(decl, i) /\ nodes[j] = DataNode(decl, i)
    BY <1>3, <2>1 DEF Holds
  <2>3. l \in S
    BY <2>2
  <2>4. l <= j /\ l \in Int /\ j \in Int
    BY <1>4, <1>5, <2>3
  <2>5. Rank(nodes[j]) = 3 /\ Rank(nodes[l]) = 3
    BY <1>3, <2>2 DEF Rank
  <2> HIDE DEF S, nodes
  <2> QED BY <2>4, <2>5
<1>7. nodes[j] \in IdMapped(nodes) /\ nodes[j] = DataNode(decl, i)
  BY <1>6 DEF IdMapped
<1>8. ASSUME NEW n \in IdMapped(nodes), n.id = r PROVE n.kind # "component"
  <2>1. n \in ToSet(nodes)
    BY DEF IdMapped, ToSet
  <2>2. n.id[1] = "p"
    BY <1>2, <1>8 DEF PointId
  <2> QED BY <2>1, <2>2 DEF Holds
<1> HIDE DEF nodes
<1> QED BY <1>3, <1>7, <1>8

LEMMA HoldsFinds ==
    ASSUME Checked(given.adapter), Holds(doc.nodes, given.adapter), Distinct(doc.nodes)
    PROVE  ChannelsFind
<1> DEFINE decl == given.adapter
           nodes == doc.nodes
<1> SUFFICES ASSUME NEW c \in ToSet(nodes), c.kind = "channel"
             PROVE  {<<n.kind, n.path>> : n \in {n \in ToSet(nodes) : n.id \in ToSet(c.refs)}}
                       = {<<"item", p.path>> : p \in {p \in ToSet(decl.points) : p.sampled}}
  BY DEF ChannelsFind
<1> DEFINE found == {n \in ToSet(nodes) : n.id \in ToSet(c.refs)}
           sampled == {p \in ToSet(decl.points) : p.sampled}
<1>1. ToSet(c.refs) = {PointId(i) : i \in Sampled(decl)}
  <2>1. c \in ToSet(Channel(decl))
    BY DEF Holds
  <2> QED BY <2>1, ChannelIs
<1>2. ASSUME NEW i \in Sampled(decl)
      PROVE  /\ DataNode(decl, i) \in ToSet(nodes) /\ DataNode(decl, i).kind = "item"
             /\ DataNode(decl, i).id = PointId(i)
             /\ DataNode(decl, i).path = decl.points[i].path
  BY SampledItem
<1>3. ASSUME NEW n \in found PROVE \E p \in sampled : <<n.kind, n.path>> = <<"item", p.path>>
  <2>1. PICK i \in Sampled(decl) : n.id = PointId(i)
    BY <1>1
  <2>2. n = DataNode(decl, i)
    <3>1. n \in ToSet(nodes) /\ DataNode(decl, i) \in ToSet(nodes) /\ n.id = DataNode(decl, i).id
      BY <1>2, <2>1
    <3>2. Distinct(nodes)
      OBVIOUS
    <3> HIDE DEF nodes
    <3> QED BY <3>1, <3>2, SameNode
  <2>3. decl.points[i] \in sampled
    BY DEF Sampled, ToSet
  <2> QED BY <1>2, <2>2, <2>3
<1>4. ASSUME NEW p \in sampled PROVE \E n \in found : <<n.kind, n.path>> = <<"item", p.path>>
  <2>1. PICK i \in DOMAIN decl.points : p = decl.points[i]
    BY DEF ToSet
  <2>2. i \in Sampled(decl)
    BY <2>1 DEF Sampled
  <2>3. DataNode(decl, i) \in found
    BY <1>1, <1>2, <2>2
  <2> QED BY <1>2, <2>1, <2>2, <2>3
<1> HIDE DEF found, sampled
<1> QED BY <1>3, <1>4 DEF found, sampled

\* The ids of components are told from those of points.
LEMMA ComponentIds ==
    ASSUME NEW decl, Checked(decl), NEW n \in ToSet(ToolModel(decl).nodes),
           n.kind = "component"
    PROVE  n.id[1] = "c"
<1>1. CASE n \in ToSet(Components(decl))
  BY <1>1, ComponentsAre DEF ComponentOf
<1>2. CASE n \in {DataNode(decl, i) : i \in Values(decl)}
  BY <1>2 DEF DataNode
<1>3. CASE n \in ToSet(Channel(decl))
  BY <1>3, ChannelIs
<1> QED BY <1>1, <1>2, <1>3, ToolModelIs

\* The document of one tool.
LEMMA HoldsAlone ==
    ASSUME NEW decl, Checked(decl)
    PROVE  Holds(ToolModel(decl).nodes, decl)
<1> DEFINE nodes == ToolModel(decl).nodes
<1>1. nodes \in Seq(ToSet(nodes)) /\ Distinct(nodes)
  BY ToolModelIs
<1>2. \A n \in ToSet(nodes) : n.kind = "channel" => n \in ToSet(Channel(decl))
  BY Leading
<1>3. \A i \in Values(decl), n \in ToSet(nodes) :
         n.path = decl.points[i].path => n = DataNode(decl, i)
  BY OwnPath
<1> QED BY <1>1, <1>2, <1>3, ComponentIds DEF Holds

\* Paths of the two tools do not meet.
LEMMA PathsApart ==
    ASSUME NEW decl, Checked(decl), Joinable(decl), Checked(FileTool),
           NEW n \in ToSet(ToolModel(decl).nodes), NEW s \in Joining(decl), Declarable
    PROVE  /\ \A i \in Values(decl) : s.path # decl.points[i].path
           /\ \A i \in Values(FileTool) : n.path # FileTool.points[i].path
<1>1. PICK f \in ToSet(ToolModel(FileTool).nodes) : s = Shifted(f, ToolModel(decl).nodes)
  BY DEF Joining
<1>2. s.path = f.path
  BY <1>1, ShiftedIs
<1>3. f \notin ToSet(Channel(FileTool))
  <2>1. Channel(FileTool) = <<>> /\ DOMAIN <<>> = {}
    BY DEF Declarable
  <2> QED BY <2>1 DEF ToSet
<1>4. PICK j \in Values(FileTool) : IsPrefix(s.path, FileTool.points[j].path)
  BY <1>2, <1>3, Leading
<1>5. ASSUME NEW i \in Values(decl) PROVE s.path # decl.points[i].path
  BY <1>4 DEF Joinable, ValuePaths
<1>6. ASSUME NEW i \in Values(FileTool) PROVE n.path # FileTool.points[i].path
  <2>1. CASE n \in ToSet(Channel(decl))
    <3>1. n.path = <<"SAMPLE_CHANNEL">>
      BY <2>1, ChannelIs
    <3> QED BY <3>1, Points
  <2>2. CASE \E k \in Values(decl) : IsPrefix(n.path, decl.points[k].path)
    BY <2>2 DEF Joinable, ValuePaths
  <2> QED BY <2>1, <2>2, Leading
<1> QED BY <1>5, <1>6

\* The document of two tools.
LEMMA HoldsJoined ==
    ASSUME NEW decl, Checked(decl), Joinable(decl), Checked(FileTool), Declarable
    PROVE  Holds(Joined(ToolModel(decl), FileTool).nodes, decl)
<1> DEFINE nodes == Joined(ToolModel(decl), FileTool).nodes
           own == ToolModel(decl).nodes
<1>1. /\ nodes \in Seq(ToSet(nodes))
      /\ ToSet(nodes) = ToSet(own) \cup Joining(decl)
  BY JoinedIs
<1>2. /\ \A n \in ToSet(own) : n.kind = "channel" => n \in ToSet(Channel(decl))
      /\ \A n \in ToSet(own) : n.kind = "component" => n.id[1] = "c"
      /\ \A i \in Values(decl), n \in ToSet(own) :
            n.path = decl.points[i].path => n = DataNode(decl, i)
  BY HoldsAlone DEF Holds
<1>3. ASSUME NEW s \in Joining(decl)
      PROVE  s.kind # "channel" /\ (s.kind = "component" => s.id[1] = "c")
  <2>1. PICK f \in ToSet(ToolModel(FileTool).nodes) : s = Shifted(f, own)
    BY DEF Joining
  <2>2. s.kind = f.kind /\ s.kind # "channel" /\ s.id[1] = f.id[1]
    BY <2>1, ShiftedIs
  <2> QED BY <2>2, ComponentIds
<1>4. ASSUME NEW s \in Joining(decl), NEW i \in Values(decl) PROVE s.path # decl.points[i].path
  <2>1. PICK i0 \in Values(decl) : TRUE
    OBVIOUS
  <2>2. DataNode(decl, i0) \in ToSet(own)
    BY ToolModelIs
  <2> QED BY <2>2, PathsApart
<1> HIDE DEF nodes, own
<1>5. \A n \in ToSet(nodes) : n.kind = "channel" => n \in ToSet(Channel(decl))
  BY <1>1, <1>2, <1>3
<1>6. \A i \in Values(decl), n \in ToSet(nodes) :
         n.path = decl.points[i].path => n = DataNode(decl, i)
  BY <1>1, <1>2, <1>4
<1>7. \A n \in ToSet(own) : n \in ToSet(nodes)
  BY <1>1
<1>8. \A n \in ToSet(nodes) : n.kind = "component" => n.id[1] = "c"
  BY <1>1, <1>2, <1>3
<1> QED BY <1>1, <1>5, <1>6, <1>7, <1>8 DEF Holds, nodes, own

\* A point of the file tool has its node too.
LEMMA FilePlaced ==
    ASSUME NEW decl, Checked(decl), Joinable(decl), Checked(FileTool), Declarable,
           NEW i \in Values(FileTool)
    PROVE  LET nodes == Joined(ToolModel(decl), FileTool).nodes
               p == FileTool.points[i]
           IN  \E n \in ToSet(nodes) :
                  /\ n.kind = (IF p.config THEN "config" ELSE "item") /\ n.path = p.path
                  /\ \A m \in ToSet(nodes) : m.path = p.path => m = n
<1> DEFINE nodes == Joined(ToolModel(decl), FileTool).nodes
           own == ToolModel(decl).nodes
           p == FileTool.points[i]
           d == DataNode(FileTool, i)
           n == Shifted(d, own)
<1>1. d \in ToSet(ToolModel(FileTool).nodes) /\ d.path = p.path
      /\ d.kind = (IF p.config THEN "config" ELSE "item")
  BY ToolModelIs DEF DataNode
<1>2. n.kind = d.kind /\ n.path = d.path
  BY <1>1, ShiftedIs
<1>3. n \in Joining(decl)
  <2>1. Len(p.path) <= 2
    BY DEF Declarable, ValuePaths
  <2>2. n.kind # "component" /\ Len(n.path) <= 2
    BY <1>1, <1>2, <2>1
  <2> QED BY <1>1, <2>2 DEF Joining, Joins
<1>4. ToSet(nodes) = ToSet(own) \cup Joining(decl)
  BY JoinedIs
<1>5. ASSUME NEW m \in ToSet(nodes), m.path = p.path PROVE m = n
  <2>1. CASE m \in ToSet(own)
    BY <1>3, <1>5, <2>1, PathsApart
  <2>2. CASE m \in Joining(decl)
    <3>1. PICK f \in ToSet(ToolModel(FileTool).nodes) : m = Shifted(f, own)
      BY <2>2 DEF Joining
    <3>2. f.path = p.path
      BY <1>5, <3>1, ShiftedIs
    <3>3. f = d
      BY <3>2, OwnPath
    <3> QED BY <3>1, <3>3
  <2> QED BY <1>4, <2>1, <2>2
<1> HIDE DEF nodes, n
<1> QED BY <1>1, <1>2, <1>3, <1>4, <1>5 DEF nodes

\* And so has one of the adapter.
LEMMA AdapterPlaced ==
    ASSUME NEW decl, Checked(decl), NEW nodes, Holds(nodes, decl), NEW i \in Values(decl)
    PROVE  LET p == decl.points[i] IN
           \E n \in ToSet(nodes) :
              /\ n.kind = (IF p.config THEN "config" ELSE "item") /\ n.path = p.path
              /\ \A m \in ToSet(nodes) : m.path = p.path => m = n
<1> DEFINE d == DataNode(decl, i)
<1>1. d \in ToSet(nodes)
  BY ToolModelIs DEF Holds
<1>2. /\ d.kind = (IF decl.points[i].config THEN "config" ELSE "item")
      /\ d.path = decl.points[i].path
  BY DEF DataNode
<1>3. \A m \in ToSet(nodes) : m.path = decl.points[i].path => m = d
  BY DEF Holds
<1> HIDE DEF d
<1> QED BY <1>1, <1>2, <1>3

\* How the document came about.
DocBuilt ==
    /\ given.adapter \in Adapters
    /\ pc = "file" =>
          /\ given.file /\ given.model = NoModel /\ Valid(given.adapter)
          /\ doc = ToolModel(given.adapter)
    /\ Built =>
          /\ Valid(given.adapter)
          /\ given.file => /\ given.adapter.device = FileTool.device
                           /\ doc = Joined(ToolModel(given.adapter), FileTool)
          /\ ~given.file => doc = ToolModel(given.adapter)

DocPlaced ==
    /\ Built => PointsPlaced /\ Parses(doc)
    /\ Built /\ (given.file => NumbersMet(given.adapter)) => IdsUnique /\ ChannelsFind

LEMMA BuiltPlaced == ASSUME Declarable, DocBuilt PROVE DocPlaced
<1> SUFFICES ASSUME Built
             PROVE  /\ PointsPlaced /\ Parses(doc)
                    /\ (given.file => NumbersMet(given.adapter)) => IdsUnique /\ ChannelsFind
  BY DEF DocPlaced
<1> DEFINE decl == given.adapter
<1>1. Checked(decl) /\ (decl.device = FileTool.device => Joinable(decl))
  BY DEF DocBuilt, Checked, Declarable
<1>2. Checked(FileTool)
  BY DEF Checked, Declarable
<1>3. given.file => Joinable(decl) /\ doc = Joined(ToolModel(decl), FileTool)
  BY <1>1 DEF DocBuilt
<1>4. ~given.file => doc = ToolModel(decl)
  BY DEF DocBuilt
<1>5. Holds(doc.nodes, decl)
  BY <1>1, <1>2, <1>3, <1>4, HoldsAlone, HoldsJoined
<1>6. ASSUME given.file => NumbersMet(decl) PROVE Distinct(doc.nodes)
  BY <1>1, <1>2, <1>3, <1>4, <1>6, ToolModelIs, JoinedIs
<1>10. (given.file => NumbersMet(decl)) => IdsUnique
  BY <1>6 DEF IdsUnique, IsInjective, Distinct
<1>7. PointsPlaced
  <2>1. ASSUME NEW q \in ToSet(decl.points), ~IsMethod(q)
        PROVE  \E n \in ToSet(doc.nodes) :
                  /\ n.kind = (IF q.config THEN "config" ELSE "item") /\ n.path = q.path
                  /\ \A m \in ToSet(doc.nodes) : m.path = q.path => m = n
    <3>1. PICK i \in DOMAIN decl.points : q = decl.points[i]
      BY DEF ToSet
    <3>2. i \in Values(decl)
      BY <2>1, <3>1 DEF Values
    <3> HIDE DEF decl
    <3> QED BY <1>1, <1>5, <3>1, <3>2, AdapterPlaced
  <2>2. ASSUME given.file, NEW q \in ToSet(FileTool.points), ~IsMethod(q)
        PROVE  \E n \in ToSet(doc.nodes) :
                  /\ n.kind = (IF q.config THEN "config" ELSE "item") /\ n.path = q.path
                  /\ \A m \in ToSet(doc.nodes) : m.path = q.path => m = n
    <3>1. PICK i \in DOMAIN FileTool.points : q = FileTool.points[i]
      BY DEF ToSet
    <3>2. i \in Values(FileTool)
      BY <2>2, <3>1 DEF Values
    <3> HIDE DEF decl
    <3> QED BY <1>1, <1>2, <1>3, <2>2, <3>1, <3>2, FilePlaced
  <2>3. \A t \in DOMAIN Tools :
           Tools[t] = decl \/ (given.file /\ Tools[t] = FileTool)
    <3>1. CASE given.file
      <4>1. Tools = <<decl, FileTool>>
        BY <3>1 DEF Tools
      <4> QED BY <3>1, <4>1
    <3>2. CASE ~given.file
      <4>1. Tools = <<decl>>
        BY <3>2 DEF Tools
      <4> QED BY <4>1
    <3> QED BY <3>1, <3>2
  <2> SUFFICES ASSUME NEW t \in DOMAIN Tools, NEW q \in ToSet(Tools[t].points), ~IsMethod(q)
               PROVE  \E n \in ToSet(doc.nodes) :
                         /\ n.kind = (IF q.config THEN "config" ELSE "item") /\ n.path = q.path
                         /\ \A m \in ToSet(doc.nodes) : m.path = q.path => m = n
    BY DEF PointsPlaced
  <2>4. CASE Tools[t] = decl
    BY <2>1, <2>4
  <2>5. CASE given.file /\ Tools[t] = FileTool
    BY <2>2, <2>5
  <2> QED BY <2>3, <2>4, <2>5
<1>8. (given.file => NumbersMet(decl)) => ChannelsFind
  BY <1>1, <1>5, <1>6, HoldsFinds
<1>9. Parses(doc)
  BY <1>1, <1>5, HoldsParses
<1> QED BY <1>7, <1>8, <1>9, <1>10

LEMMA DocBuiltInit == ASSUME Init PROVE DocBuilt
  BY DEF Init, DocBuilt, Built

LEMMA DocBuiltStep == ASSUME DocBuilt, [Next]_vars PROVE DocBuilt'
<1>1. CASE BuildDocument
  <2>1. /\ pc = "document" /\ given' = given
        /\ \/ given.model # NoModel /\ pc' = "server"
           \/ /\ given.model = NoModel /\ Valid(given.adapter)
              /\ doc' = ToolModel(given.adapter)
              /\ pc' = IF given.file THEN "file" ELSE "server"
    BY <1>1 DEF BuildDocument
  <2> QED BY <2>1 DEF DocBuilt, Built
<1>2. CASE AddFileTool
  <2>1. /\ pc = "file" /\ pc' = "server" /\ given' = given
        /\ doc.device = FileTool.device /\ doc' = Joined(doc, FileTool)
    BY <1>2 DEF AddFileTool
  <2>2. ToolModel(given.adapter).device = given.adapter.device
    BY DEF ToolModel
  <2> QED BY <2>1, <2>2 DEF DocBuilt, Built
<1>3. CASE DocumentFails \/ OpenFails
  <2>1. pc' = "failed" /\ given' = given
    BY <1>3 DEF DocumentFails, OpenFails, HostFree
  <2> QED BY <2>1 DEF DocBuilt, Built
<1>4. ASSUME UNCHANGED <<given, doc>>,
             \/ UNCHANGED pc
             \/ /\ pc \in {"server", "open", "points", "up"}
                /\ pc' \in {"open", "points", "up", "running"}
      PROVE  DocBuilt'
  BY <1>4 DEF DocBuilt, Built
<1>5. CASE CreateServer \/ OpenTool \/ RegisterPoint \/ RegisterBuiltin
  BY <1>4, <1>5 DEF CreateServer, OpenTool, RegisterPoint, RegisterBuiltin
<1>6. ASSUME NEW h \in Handlers,
             \/ \E q \in Questions : Resolve(h, q)
             \/ Invoke(h) \/ Answer(h) \/ ProbeQuery(h) \/ BeginRefresh(h)
             \/ EndRefresh(h) \/ EndSave(h)
             \/ \E r : ProbeSet(h, r)
      PROVE  DocBuilt'
  <2>1. UNCHANGED host
    BY <1>6 DEF Resolve, Invoke, Answer, ProbeQuery, BeginRefresh, EndRefresh, EndSave, ProbeSet
  <2> QED BY <1>4, <2>1 DEF host
<1>7. CASE UNCHANGED vars
  BY <1>4, <1>7 DEF vars, host
<1> QED BY <1>1, <1>2, <1>3, <1>5, <1>6, <1>7 DEF Next

\* The model the host builds of the declarations says where each point is, whichever
\* tool it comes from, and the server accepts it (ncl_tool_model, ncl_tool_model_add,
\* ncl_root_node_parse).  Ids are unique and the channels sample what was declared,
\* except of an adapter that is joined with the file tool and has numbers the walk
\* of the join does not meet (NumbersMet).  The hypothesis is about names and paths.
THEOREM PlacesEveryPoint == ASSUME Declarable PROVE Spec => []DocumentSound
<1>1. Init => DocBuilt
  BY DocBuiltInit
<1>2. DocBuilt /\ [Next]_vars => DocBuilt'
  BY DocBuiltStep
<1>3. DocBuilt => DocPlaced
  BY BuiltPlaced
<1>4. DocPlaced /\ TypeOK => DocumentSound
  BY DEF DocPlaced, DocumentSound
<1> QED BY <1>1, <1>2, <1>3, <1>4, TypeCorrect, PTL DEF Spec
=============================================================================
