--------------------------- MODULE MCDeviceModel ---------------------------
(* Instances of DeviceModel for TLC: adapters as the plug-ins declare them. *)
EXTENDS DeviceModel

CONSTANTS h1, h2

TwoHandlers == {h1, h2}

Point(path, ops, config, sampled) ==
    [path |-> path, ops |-> ops, config |-> config, sampled |-> sampled]

Status   == Point(<<"STATUS">>, {"get_value"}, FALSE, TRUE)
Reset    == Point(<<"RESET">>, {"func_call"}, FALSE, FALSE)
Screw    == Point(<<"AXIS@X", "SCREW", "POSITION">>, {"get_value"}, FALSE, FALSE)
AxisX    == Point(<<"AXIS@X", "POSITION">>, {"get_value"}, FALSE, TRUE)
Tooling  == Point(<<"CONTROLLER", "TOOL">>, {"get_value", "add"}, TRUE, FALSE)
WriteOnly == Point(<<"CONTROLLER", "PROGRAM">>, {"set_value"}, FALSE, FALSE)
SampledConfig == Point(<<"TOOL">>, {"get_value"}, TRUE, TRUE)

Tool(name, device, period, points) ==
    [name |-> name, device |-> device, period |-> period, points |-> points]

File == Tool("file", "MACHINE", 0,
             << Point(<<"CONTROLLER", "FILE">>, {"get_value", "add", "func_call"}, TRUE, FALSE) >>)

\* No adapter of the repository: a nested component, and its point, have the highest
\* numbers, and the file tool takes both for its own.
NestedLast == Tool("axis", "MACHINE", 1, <<AxisX, Screw, Reset>>)

\* With the component the file tool shares and without, with methods in between and
\* nested components numbered before others, and declarations that are refused.
AllAdapters ==
    { Tool("cnc", "MACHINE", 1, <<Status, Reset, Screw, Tooling>>),
      Tool("flat", "MACHINE", 1, <<AxisX, Reset, Status>>),
      Tool("robot", "ROBOT", 1, <<Status>>),
      Tool("blind", "MACHINE", 1, <<Status, WriteOnly>>),
      Tool("config", "MACHINE", 1, <<Status, SampledConfig>>),
      Tool("twice", "MACHINE", 1, <<Status, Reset, Status>>),
      NestedLast }

Node(kind, path, id, refs) == [kind |-> kind, path |-> path, id |-> id, refs |-> refs]

\* A model tuned by a site, with an id METHODS would take, and one that is broken.
Tuned == [device |-> "MACHINE",
          nodes |-> << Node("item", <<"STATUS">>, <<"methods", 0>>, <<>>),
                       Node("channel", <<"SAMPLE_CHANNEL">>, <<"fast", 0>>,
                            << <<"methods", 0>> >>) >>]
Broken == [device |-> "MACHINE",
           nodes |-> << Node("channel", <<"SAMPLE_CHANNEL">>, <<"cnc", 0>>, << <<"p", 9>> >>) >>]
Models == {Tuned, Broken}

ById(id, op) == [kind |-> "id", tool |-> "any", id |-> id, path |-> <<>>, op |-> op]
AtPath(path, op) ==
    [kind |-> "path", tool |-> "any", id |-> <<"", 0>>, path |-> path, op |-> op]
Call(tool, path, op) ==
    [kind |-> "name", tool |-> tool, id |-> <<"", 0>>, path |-> path, op |-> op]

Asked ==
    { ById(<<"p", 0>>, "get_value"), ById(<<"p", 4>>, "add"), ById(<<"methods", 0>>, "get_value"),
      AtPath(<<"MACHINE", "CONTROLLER", "TOOL">>, "get_keys"),
      Call("any", <<"MACHINE", "RESET">>, "func_call") }

ASSUME SomeIdIsFree == Room
ASSUME AllDeclarable == Declarable

Alike == Permutations(Handlers)
=============================================================================
