----------------------------- MODULE MCFixtures -----------------------------
(***************************************************************************)
(* What runs in the Python process of a test, for TLC: an emitted module   *)
(* that is imported and called, or one of the stateful fixtures; and the   *)
(* serializer example. Each session is a process of its own.               *)
(***************************************************************************)
EXTENDS Extension, DateExt, JsonExt, SmallExts,
        KVStore, EchoServer, Diamond, TomlFix, SimdDoc, Serde, TLC

Sessions == {"extension", "leveldb", "httplib", "taskflow", "tomlplusplus", "simdjson", "serde"}

VARIABLE session

\* The eight emitted modules; the order of shapes_ext's list is also tried reversed.
Emitted ==
  [ date |-> date_ext, json |-> json_ext, tinyobjloader |-> tinyobjloader_ext,
    shapes |-> shapes_ext,
    shapes_reversed |-> [shapes_ext EXCEPT !.calls = Reverse(shapes_ext.calls)],
    pod_fixture |-> pod_fixture_ext, tree |-> tree_ext,
    linalg |-> linalg_ext, glm |-> glm_ext ]

MCExts == DOMAIN Emitted

MCExt ==
  [e \in MCExts |->
     [functions |-> {Emitted[e].defs.module[i].name : i \in DOMAIN Emitted[e].defs.module}]
     @@ Emitted[e]]

MCDepth ==
  [e \in MCExts |-> [t \in DOMAIN Emitted[e].classes |-> Len(Emitted[e].classes[t].bases)]]

MCRequest(method, path, body, contentType) ==
  [method |-> method, path |-> path, body |-> body, type |-> contentType, q |-> "v", probe |-> "p"]

MCRequests ==
  { MCRequest("GET", "/echo", <<>>, ""), MCRequest("GET", "/param", <<>>, ""),
    MCRequest("GET", "/teapot", <<>>, ""), MCRequest("GET", "/missing", <<>>, ""),
    MCRequest("POST", "/echo", <<"hello", "world">>, ""),
    MCRequest("POST", "/echo", <<>>, "application/json"),
    MCRequest("PUT", "/echo", <<"payload">>, "text/plain"), MCRequest("DELETE", "/echo", <<>>, "") }

\* Vec3 and Entity of the example, and aggregates that nest deeper, are empty or end in one.
Type(fields)      == <<>> :> Aggregate("", fields)
F(path, name, n)  == path :> Scalar(name, n)
Vec3Fields(path)  == F(path \o <<1>>, "x", 8) @@ F(path \o <<2>>, "y", 8) @@ F(path \o <<3>>, "z", 8)
Pair(path)        == F(path \o <<1>>, "a", 1) @@ F(path \o <<2>>, "b", 2)
MCTypes ==
  { Type(3) @@ Vec3Fields(<<>>),
    Type(4) @@ F(<<1>>, "id", 4) @@ F(<<2>>, "alive", 1) @@ <<3>> :> Aggregate("position", 3)
            @@ Vec3Fields(<<3>>) @@ F(<<4>>, "health", 4),
    Type(0),
    Type(2) @@ <<1>> :> Aggregate("none", 0) @@ F(<<2>>, "b", 2),
    Type(3) @@ F(<<1>>, "a", 2) @@ <<2>> :> Aggregate("b", 3) @@ F(<<2, 1>>, "a", 1)
            @@ <<2, 2>> :> Aggregate("b", 1) @@ F(<<2, 2, 1>>, "a", 4) @@ F(<<2, 3>>, "c", 2) @@ F(<<3>>, "c", 1),
    Type(2) @@ <<1>> :> Aggregate("first", 2) @@ <<2>> :> Aggregate("second", 2) @@ Pair(<<1>>) @@ Pair(<<2>>) }

\* The other scalar is as a NaN is: not equal to itself.
MCEqual == {<<Zero, Zero>>}
MCTextOf == [s \in Scalars |-> ToString(s)]

\* Texts with empty and quoted keys, a key that looks like a path, mixed and empty arrays, and
\* numbers that are converted, or would be rounded.
A == <<"a">>
E == <<>>
TopTable == E :> Table
MCDocuments ==
  { Broken, TopTable,
    TopTable @@ <<A>> :> Leaf("integer") @@ <<E>> :> Table @@ <<E, A>> :> Leaf("string") @@ <<E, E>> :> Leaf("date"),
    TopTable @@ <<A>> :> Table @@ <<A, A>> :> Leaf("boolean") @@ <<A, E>> :> Leaf("time")
         @@ <<<<"a", ".", "a">>>> :> Leaf("integer"),
    TopTable @@ <<A>> :> Leaf("floating_point") @@ <<E>> :> Node_(Element("floating_point", FALSE), <<>>)
         @@ <<<<".">>>> :> Node_(Element("integer", FALSE), <<>>),
    TopTable @@ <<A>> :> Array(<<Element("integer", TRUE), Element("string", TRUE),
                                 Element("floating_point", TRUE), Element("floating_point", FALSE),
                                 Element("boolean", TRUE), Element("integer", FALSE)>>)
         @@ <<E>> :> Table @@ <<E, E>> :> Table @@ <<E, E, E>> :> Array(<<>>) }
MCPaths == UNION {[1 .. n -> {"a", "."}] : n \in 0 .. 4}

Num(t) == Scalar_(t)
MCSources ==
  { Malformed,
    Object(<<Field("a", Array_(<<Num("int64"), Num("double")>>)), Field("b", Object(<<Field("a", Num("string"))>>))>>),
    Array_(<<Object(<<Field("b", Num("negative")), Field("b", Num("bool"))>>), Num("uint64")>>) }

NoExtension == /\ ext = "tree" /\ returned = 0 /\ stack = <<>> /\ registered = {}
               /\ attrs = [n \in {} |-> "function"] /\ ready = FALSE /\ lastCall = NoCall /\ py = NoObject
NoToml  == /\ document = Broken /\ key_path = <<>> /\ answer = [call |-> "none", said |-> FALSE]
NoSerde == /\ type = Type(0) /\ obj = <<>> /\ phase = "done" /\ at = <<>> /\ out = <<>> /\ first = <<>>
           /\ buf = <<>> /\ back = <<>> /\ cur = 1 /\ other = <<>> /\ same = TRUE

FixturesInit ==
  /\ session \in Sessions
  /\ KVInit /\ EchoInit /\ DiamondInit /\ SimdInit
  /\ IF session = "extension" THEN Init ELSE NoExtension
  /\ IF session = "tomlplusplus" THEN TomlInit ELSE NoToml
  /\ IF session = "serde" THEN SerdeInit ELSE NoSerde

fixtureVars == <<kvVars, echoVars, diamondVars, tomlVars, simdVars, serdeVars>>

AllVars == <<vars, fixtureVars, session>>

DriveExtension == session = "extension" /\ Next /\ UNCHANGED <<fixtureVars, session>>
DriveKVStore == /\ session = "leveldb" /\ KVNext
                /\ UNCHANGED <<vars, echoVars, diamondVars, tomlVars, simdVars, serdeVars, session>>
DriveServer  == /\ session = "httplib" /\ EchoNext
                /\ UNCHANGED <<vars, kvVars, diamondVars, tomlVars, simdVars, serdeVars, session>>
DriveDiamond == /\ session = "taskflow" /\ DiamondNext
                /\ UNCHANGED <<vars, kvVars, echoVars, tomlVars, simdVars, serdeVars, session>>
DriveToml    == /\ session = "tomlplusplus" /\ TomlNext
                /\ UNCHANGED <<vars, kvVars, echoVars, diamondVars, simdVars, serdeVars, session>>
DriveDoc     == /\ session = "simdjson" /\ SimdNext
                /\ UNCHANGED <<vars, kvVars, echoVars, diamondVars, tomlVars, serdeVars, session>>
DriveSerde   == /\ session = "serde" /\ SerdeNext
                /\ UNCHANGED <<vars, kvVars, echoVars, diamondVars, tomlVars, simdVars, session>>

FixturesNext ==
  \/ DriveExtension \/ DriveKVStore \/ DriveServer \/ DriveDiamond \/ DriveToml \/ DriveDoc
  \/ DriveSerde

FixturesSpec ==
  /\ FixturesInit /\ [][FixturesNext]_AllVars
  /\ WF_echoVars(session = "httplib" /\ Returning) /\ WF_echoVars(session = "httplib" /\ Serving)
  /\ WF_diamondVars(session = "taskflow" /\ Main) /\ WF_diamondVars(session = "taskflow" /\ Work)
=============================================================================
