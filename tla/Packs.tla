-------------------------------- MODULE Packs --------------------------------
(***************************************************************************)
(* The packs of corpus/runs, but that of eigen: each with what it lists,   *)
(* selects or excludes, and what its comments say becomes of it. The       *)
(* libraries are submodules: a world holds the entities that the pack, its *)
(* comments and its fixture name, and a signature for each of the mentions *)
(* that they speak of.                                                     *)
(***************************************************************************)
EXTENDS EigenPack

In(ns, names) == {Plain(ns \o <<n>>) : n \in names}
Classes(es)   == AreAll("class", {e.path : e \in es})

\* The class that mentions others, each in a signature of its own.
Mentions(owner, es) == owner.path :> [Declared("class") EXCEPT !.signatures = {{e} : e \in es}]

Fixture(name) == AreAll("namespace", {<<name>>})

EntitiesOf(es) == FoldSet(LAMBDA e, pack : Append(pack, entity_(e)), <<>>, es)

\* A pack that lists classes and the namespace of its fixture, and excludes what they mention.
ListedPack(listed, mentions, fixture, excluded, preds) ==
  Case_(mentions @@ Classes(listed) @@ Fixture(fixture) @@ Classes(excluded),
        EntitiesOf(listed) \o <<entity_(Plain(<<fixture>>)), exclude_(excluded, preds)>>,
        {SetClaim(listed, excluded)})

-----------------------------------------------------------------------------
\* Every box2d type is global; what b2World keeps inside is opaque.
Box2d ==
  LET b2(names) == In(<<>>, names)
      inner == b2({"b2ContactManager", "b2Profile", "b2Color", "b2BlockAllocator", "b2BroadPhase"})
      listed == b2({"b2Vec2", "b2Vec3", "b2Mat22", "b2Rot", "b2Transform", "b2MassData",
                    "b2World", "b2Body", "b2Fixture", "b2BodyDef", "b2BodyType", "b2FixtureDef",
                    "b2Filter", "b2Shape", "b2PolygonShape", "b2CircleShape"})
  IN  Case_(Mentions(Plain(<<"b2World">>), inner) @@ Classes(listed) @@ Classes(inner),
            EntitiesOf(listed) \o <<exclude_(inner, {})>>, {SetClaim(listed, inner)})

\* has_ptr_to_ptr_param: how many pointers deep each parameter is.
CliMembers ==
  { [name |-> "parse", params |-> <<0, 2>>, template |-> FALSE],
    [name |-> "parse", params |-> <<0>>, template |-> FALSE],
    [name |-> "ensure_utf8", params |-> <<2>>, template |-> FALSE],
    [name |-> "add_option", params |-> <<0, 0>>, template |-> TRUE] }

has_ptr_to_ptr_param(member) == \E i \in DOMAIN member.params : member.params[i] >= 2

CliMember(m) == Plain(<<"CLI", "App", m.name, ToString(m.params)>>)

cli_excluded_marker ==
  exclude_({CliMember(m) : m \in {x \in CliMembers : ~x.template /\ has_ptr_to_ptr_param(x)}}, {})

Cli11 ==
  LET listed == In(<<"CLI">>, {"App", "Option", "Error", "ParseError", "RequiredError",
                               "ExtrasError", "ArgumentMismatch", "ConversionError"})
      member(name, params) == Plain(<<"CLI", "App", name, ToString(params)>>)
  IN  Case_(Mentions(Plain(<<"CLI", "App">>), {CliMember(m) : m \in CliMembers}) @@ Classes(listed),
            EntitiesOf(listed) \o <<cli_excluded_marker>>,
            {SetClaim(listed \cup {member("parse", <<0>>)},
                      {member("parse", <<0, 2>>), member("ensure_utf8", <<2>>)})})

\* cq_excluded_marker: the static variables of both queues, declared and never defined.
CqMembers ==
  [name : {"constant " \o ToString(i) : i \in 1 .. 7}, static : {TRUE}, variable : {TRUE}]
  \cup {[name |-> "enqueue", static |-> FALSE, variable |-> FALSE],
        [name |-> "is_lock_free", static |-> TRUE, variable |-> FALSE]}

CqMember(m) == Plain(<<"moodycamel", "ConcurrentQueue", m.name>>)

cq_excluded_marker == exclude_({CqMember(m) : m \in {x \in CqMembers : x.static /\ x.variable}}, {})

ConcurrentQueue ==
  LET queue(type) == Specialised(<<"moodycamel", "ConcurrentQueue">>, << <<type>> >>)
  IN  Case_(<<"moodycamel", "ConcurrentQueue">> :>
              [Declared("template") EXCEPT !.signatures = {{CqMember(m)} : m \in CqMembers}]
              @@ Fixture("cqtest"),
            <<entity_(queue("int")), entity_(queue("std::string")), cq_excluded_marker,
              entity_(Plain(<<"cqtest">>))>>,
            {SetClaim({queue("int"), queue("std::string")}
                        \cup {CqMember(m) : m \in {x \in CqMembers : ~x.variable}},
                      {CqMember(m) : m \in {x \in CqMembers : x.variable}})})

(* A callback is a std::function, which its caster converts: the members   *)
(* that take a progress function are bound, and so are those that take a   *)
(* ContentProvider, though the DataSink it is called with is excluded.     *)
Httplib ==
  LET here(names) == In(<<"httplib">>, names)
      sink == Plain(<<"httplib", "DataSink">>)
      callback(type) == Specialised(<<"std", "function">>, << <<type>> >>)
      member(name, params) == Plain(<<"httplib", "Client", name, params>>)
      calls == { {member("Get", "path, Progress"), callback("bool (size_t, size_t)")},
                 {member("Post", "path, Headers"), Plain(<<"std", "unordered_multimap">>)},
                 {member("Post", "path, ContentProvider"), callback("bool (size_t, size_t, DataSink &)")} }
      excluded == here({"MultipartFormData", "UploadFormData", "FormDataProvider", "DataSink",
                        "ContentReader", "Stream", "UserData", "ClientImpl", "Range"})
                  \cup In(<<"std">>, {"multimap", "unordered_multimap"})
                  \cup In(<<"std", "chrono">>, {"time_point"})
      listed == here({"Request", "Response", "Result", "Client", "Error", "StatusCode"})
      pack == ListedPack(listed,
                Mentions(Plain(<<"httplib", "Request">>), excluded)
                  @@ <<"httplib", "Client">> :> [Declared("class") EXCEPT !.signatures = calls]
                  @@ AreAll("caster", {<<"std", "function">>})
                  @@ AreAll("function type", {<<"bool (size_t, size_t)">>})
                  @@ <<"bool (size_t, size_t, DataSink &)">> :>
                       [Declared("function type") EXCEPT !.signatures = {{sink}}],
                "httptest", excluded, {})
  IN  [pack EXCEPT !.claims = @ \cup
         {SetClaim({member("Get", "path, Progress"), member("Post", "path, ContentProvider")},
                   {member("Post", "path, Headers"), sink} \cup {e \in UNION calls : e.args # <<>>})}]

Immer ==
  LET of(n, args) == Specialised(<<"immer", n>>, args)
      rbtree == Plain(<<"immer", "detail", "rbts", "rbtree">>)
      champ  == Plain(<<"immer", "detail", "hamts", "champ">>)
      world(n, e) == <<"immer", n>> :> [Declared("template") EXCEPT !.signatures = {{e}}]
  IN  Case_(world("vector", rbtree) @@ world("map", champ) @@ world("set", champ)
              @@ AreAll("namespace", {<<"immer">>, <<"immer", "detail">>,
                                      <<"immer", "detail", "rbts">>, <<"immer", "detail", "hamts">>})
              @@ Classes({rbtree, champ}),
            <<entity_(of("vector", << <<"int">> >>)), entity_(of("vector", << <<"std::string">> >>)),
              entity_(of("map", << <<"int">>, <<"int">> >>)), entity_(of("set", << <<"int">> >>)),
              exclude_({Plain(<<"immer", "detail">>)}, {})>>,
            {SetClaim({of("vector", << <<"int">> >>), of("set", << <<"int">> >>)}, {rbtree, champ})})

Leveldb ==
  LET here(names) == In(<<"leveldb">>, names)
      excluded == here({"Comparator", "Env", "Cache", "FilterPolicy", "Logger", "Snapshot"})
                  \cup In(<<"leveldb", "WriteBatch">>, {"Handler"})
  IN  ListedPack(here({"Status", "Slice", "Options", "ReadOptions", "WriteOptions", "WriteBatch",
                       "CompressionType"}),
                 Mentions(Plain(<<"leveldb", "Options">>), excluded), "leveldbtest", excluded, {})

Simdjson ==
  LET dom(names) == In(<<"simdjson", "dom">>, names)
      excluded == In(<<"simdjson">>, {"simdjson_result", "padded_string", "padded_string_view"})
                  \cup dom({"parser", "document", "document_stream", "key_value_pair"})
                  \cup In(<<"simdjson", "internal">>, {"tape_ref"}) \cup In(<<"std">>, {"basic_ostream"})
  IN  ListedPack(dom({"element", "array", "object", "element_type"})
                   \cup In(<<"simdjson">>, {"error_code"}),
                 Mentions(Plain(<<"simdjson", "dom", "element">>), excluded), "simdjsontest", excluded, {})

Sqlitecpp ==
  LET here(names) == In(<<"SQLite">>, names)
      column(name) == Plain(<<"SQLite", "Column", name>>)
      excluded == In(<<>>, {"sqlite3", "sqlite3_stmt", "sqlite3_context", "sqlite3_value"})
                  \cup In(<<"std">>, {"basic_ostream"}) \cup In(<<"std", "filesystem">>, {"path"})
                  \cup {column("getBlob")} \cup here({"Header"})
  IN  ListedPack(here({"Database", "Statement", "Column", "Transaction", "Exception",
                       "TransactionBehavior"}),
                 Mentions(Plain(<<"SQLite", "Column">>), {column("getBlob"), column("getInt")})
                   @@ <<"SQLite", "Database">> :>
                        [Declared("class") EXCEPT !.signatures =
                           {{Plain(<<"SQLite", "Database", "getHeaderInfo">>), Plain(<<"SQLite", "Header">>)}}],
                 "sqlfix", excluded, {})

Taskflow ==
  LET here(names) == In(<<"tf">>, names)
      excluded == here({"Future", "WorkerInterface", "Graph", "FlowBuilder"})
                  \cup In(<<"std">>, {"basic_ostream"})
      future == Specialised(<<"tf", "Future">>, << <<"void">> >>)
  IN  ListedPack(here({"Taskflow", "Task", "Executor"}),
                 Mentions(Plain(<<"tf", "Executor">>), excluded \cup {future}), "tftest", excluded, {})

Tomlplusplus ==
  LET path == Specialised(<<"std", "shared_ptr">>, << <<"std", "string">> >>)
  IN  ListedPack(In(<<"toml">>, {"node_type", "date", "time", "time_offset", "date_time",
                                 "source_position", "source_region", "parse_error"}),
                 Mentions(Plain(<<"toml", "source_region">>),
                          {path, Plain(<<"toml", "impl", "table_proxy_pair">>)}), "tomlfix",
                 {Plain(<<"std", "shared_ptr">>), Plain(<<"toml", "impl">>)}, {})

Yamlcpp ==
  LET excluded == In(<<"YAML", "detail">>, {"node", "node_data", "iterator_value", "shared_memory_holder"})
                  \cup In(<<"YAML">>, {"Emitter"}) \cup In(<<"std">>, {"basic_ostream", "basic_istream"})
  IN  ListedPack(In(<<"YAML">>, {"Node", "Mark", "Dump", "Clone"})
                   \cup {Plain(<<"YAML", s, "value">>) : s \in {"NodeType", "EmitterStyle"}},
                 Mentions(Plain(<<"YAML", "Node">>), excluded), "yamlfix", excluded, {})

\* Seven globs, against pImpl structs, streams, iterators, walkers and xpath.
Pugixml ==
  LET pugi(names) == In(<<"pugi">>, names)
      hidden == pugi({"xml_node_struct", "xml_attribute_struct", "xml_node_iterator", "xml_object_range",
                      "xml_tree_walker", "xml_writer", "xml_writer_file", "xpath_node", "xpath_variable"})
                \cup In(<<"std">>, {"basic_ostream", "basic_istream"})
      listed == pugi({"xml_node", "xml_attribute", "xml_document", "xml_text", "xml_parse_result",
                      "xml_node_type", "xml_encoding", "xml_parse_status"})
      globs == any_of_(<<named_("xpath_*"), named_("*_iterator"), named_("*_struct"),
                         named_("xml_writer*"), named_("xml_object_range"), named_("xml_tree_walker"),
                         named_("basic_?stream")>>)
  IN  Case_(Mentions(Plain(<<"pugi", "xml_node">>), hidden) @@ Classes(listed) @@ Classes(hidden)
              @@ Fixture("pugitest"),
            EntitiesOf(listed) \o <<entity_(Plain(<<"pugitest">>)), exclude_({}, {globs})>>,
            {SetClaim(listed, hidden)})

ExclusionCases ==
  "box2d" :> Box2d @@ "cli11" :> Cli11 @@ "concurrentqueue" :> ConcurrentQueue @@ "httplib" :> Httplib
  @@ "immer" :> Immer @@ "leveldb" :> Leveldb @@ "simdjson" :> Simdjson @@ "sqlitecpp" :> Sqlitecpp
  @@ "taskflow" :> Taskflow @@ "tomlplusplus" :> Tomlplusplus @@ "yamlcpp" :> Yamlcpp
  @@ "pugixml" :> Pugixml

-----------------------------------------------------------------------------
\* One matcher selects the calendar classes; days and its like are durations.
Date ==
  LET here(names) == In(<<"date">>, names)
      family == {"day", "month", "year", "weekday", "weekday_indexed", "weekday_last", "month_day",
                 "month_day_last", "year_month", "year_month_day", "year_month_day_last", "last_spec"}
      duration == Specialised(<<"std", "chrono", "duration">>, << <<"int">> >>)
      durations == [p \in {<<"date", n>> : n \in {"days", "months", "years"}} |->
                      [Declared("alias") EXCEPT !.of = duration]]
  IN  Case_(Classes(here(family)) @@ durations @@ Classes({Plain(<<"date", "detail", "format">>)})
              @@ AreAll("namespace", {<<"date">>, <<"date", "detail">>})
              @@ AreAll("function", {<<"date", "operator/">>, <<"date", "days_in_month">>})
              @@ AreAll("template", {<<"std", "chrono", "duration">>}) @@ Fixture("datefix"),
            <<match_(<<"date">>,
                all_of_(<<is_class_, any_of_(<<named_("day"), named_("month*"), named_("year*"),
                                               named_("weekday*"), named_("last_spec")>>)>>)),
              entity_(Plain(<<"datefix">>))>>,
            {SeedClaim(1, here(family), {duration}, Cardinality(family))})

\* Every enum of fmt proper; those of fmt::detail are real declarations and stay out. The one that
\* has no name, the size of the inline buffer, is matched and then skipped.
Fmt ==
  LET here(names) == In(<<"fmt">>, names)
      enums == here({"color", "terminal_color", "emphasis", "presentation_type", "align", "sign",
                     "arg_id_kind", "range_format"})
      unnamed == here({""})
      inner == In(<<"fmt", "detail">>, {"type", "state", "dragon"})
      to_string(type) == Specialised(<<"fmt", "to_string">>, << <<type>> >>)
      listed == here({"format_int"}) \cup {to_string(t) : t \in {"int", "double", "long long"}}
  IN  Case_(AreAll("enum", {e.path : e \in enums \cup unnamed \cup inner}) @@ Classes(here({"format_int"}))
              @@ AreAll("namespace", {<<"fmt">>, <<"fmt", "detail">>})
              @@ AreAll("template", {<<"fmt", "to_string">>}) @@ Fixture("fmttest"),
            <<match_(<<"fmt">>, all_of_(<<kind_("enum"), not_(in_namespace_(<<"fmt", "detail">>))>>))>>
              \o EntitiesOf(listed) \o <<entity_(Plain(<<"fmttest">>))>>,
            {SeedClaim(1, enums \cup unnamed, inner, Cardinality(enums) + 1),
             SetClaim(enums \cup listed, inner \cup unnamed)})

\* A grid of six, two of which the aliases vec3 and vec4 name as well.
Glm ==
  LET vec(l, t) == Specialised(<<"glm", "vec">>, << <<l>>, <<t>>, <<"packed_highp">> >>)
      alias(n, l) == <<"glm", n>> :> [Declared("alias") EXCEPT !.of = vec(l, "float")]
      grid == {vec(l, t) : l \in {"2", "3", "4"}, t \in {"float", "double"}}
  IN  Case_(alias("vec3", "3") @@ alias("vec4", "4") @@ AreAll("template", {<<"glm", "vec">>})
              @@ AreAll("namespace", {<<"glm">>}),
            <<entity_(Plain(<<"glm", "vec3">>)), entity_(Plain(<<"glm", "vec4">>)),
              instantiate_(<<"glm", "vec">>,
                product_(<<Types({"2", "3", "4"}), Types({"float", "double"}), Types({"packed_highp"})>>))>>,
            {SeedClaim(3, grid, {}, 6), SeedClaim(0, grid, {}, 6)})

\* The exact name keeps out the aliases, all of which stand for vec and mat themselves.
Linalg ==
  LET vec(t, m) == Specialised(<<"linalg", "vec">>, << <<t>>, <<m>> >>)
      mat(m, n) == Specialised(<<"linalg", "mat">>, << <<"float">>, <<m>>, <<n>> >>)
      sides == {"2", "3", "4"}
      alias(n, e) == <<"linalg", "aliases", n>> :> [Declared("alias") EXCEPT !.of = e]
  IN  Case_(Classes(In(<<"linalg">>, {"identity_t"})) @@ AreAll("template", {<<"linalg", "vec">>, <<"linalg", "mat">>})
              @@ AreAll("namespace", {<<"linalg">>, <<"linalg", "aliases">>})
              @@ alias("float3", vec("float", "3")) @@ alias("short2", vec("short", "2"))
              @@ alias("double4x4", Specialised(<<"linalg", "mat">>, << <<"double">>, <<"4">>, <<"4">> >>)),
            <<entity_(vec("float", "3")), match_(<<"linalg">>, named_("identity_t")),
              instantiate_matched_(named_("vec"), product_(<<Types({"float", "double", "int"}), Types(sides)>>)),
              instantiate_(<<"linalg", "mat">>, product_(<<Types({"float"}), Types(sides), Types(sides)>>))>>,
            {SeedClaim(2, In(<<"linalg">>, {"identity_t"}), {}, 1),
             SeedClaim(3, {vec("float", "3"), vec("int", "4")}, {}, 9),
             SeedClaim(4, {mat("2", "4")}, {}, 9), SeedClaim(0, {}, {vec("short", "2")}, 19)})

\* The sinks, by what they derive from; the stream sink is left out by name, and
\* the base that only a listing can reach is listed.
Spdlog ==
  LET sink(n) == Plain(<<"spdlog", "sinks", n>>)
      of(n, mutex) == Specialised(<<"spdlog", "sinks", n>>, << <<mutex>> >>)
      derived(n, base) == <<"spdlog", "sinks", n>> :>
                            [Declared("template") EXCEPT !.bases = {<<"spdlog", "sinks", base>>}]
      alias(n, e) == <<"spdlog", "sinks", n>> :> [Declared("alias") EXCEPT !.of = e]
      listed == In(<<"spdlog">>, {"logger", "level", "pattern_time_type", "color_mode"})
                \cup {of("stdout_sink_base", "console_mutex")}
  IN  Case_(derived("stdout_sink_base", "sink") @@ Classes(listed \cup {sink("sink")})
              @@ derived("stdout_sink", "stdout_sink_base") @@ derived("ansicolor_sink", "sink")
              @@ derived("base_sink", "sink") @@ derived("ostream_sink", "base_sink")
              @@ alias("stdout_sink_mt", of("stdout_sink", "console_mutex"))
              @@ alias("ansicolor_sink_mt", of("ansicolor_sink", "console_mutex"))
              @@ alias("ostream_sink_mt", of("ostream_sink", "mutex"))
              @@ AreAll("namespace", {<<"spdlog">>, <<"spdlog", "sinks">>}) @@ Fixture("logtest"),
            <<match_(<<"spdlog", "sinks">>,
                all_of_(<<derived_from_(<<"spdlog", "sinks", "sink">>), not_(named_("ostream_sink*"))>>))>>
              \o EntitiesOf(listed) \o <<entity_(Plain(<<"logtest">>))>>,
            {SeedClaim(1, {sink("sink"), of("stdout_sink", "console_mutex"), of("ansicolor_sink", "console_mutex")},
                       {of("stdout_sink_base", "console_mutex")}, 3),
             SetClaim(listed, {of("ostream_sink", "mutex"), of("stdout_sink_base", "null_mutex")})})

\* Three tuples, each taken as it is listed.
AbseilContainers ==
  LET inlined(t, n) == << <<t>>, <<n>> >>
      tuples == {inlined("int", "4"), inlined("double", "2"), inlined("std::string", "4")}
  IN  Case_(AreAll("template", {<<"absl", "InlinedVector">>}),
            <<instantiate_(<<"absl", "InlinedVector">>, with_(tuples))>>,
            {SeedClaim(0, {Specialised(<<"absl", "InlinedVector">>, t) : t \in tuples}, {}, 3)})

SelectionCases ==
  "date" :> Date @@ "fmt" :> Fmt @@ "glm" :> Glm @@ "linalg" :> Linalg @@ "spdlog" :> Spdlog
  @@ "abseil_containers" :> AbseilContainers

-----------------------------------------------------------------------------
(* The packs that only list. Each brings the functions of its fixture,     *)
(* and nothing comes into the bind set that it does not list: whatever     *)
(* those functions mention is in the list.                                 *)

\* A function of the fixture: its name, and the listed entities it mentions.
Functions_(fixture, mentions) ==
  [p \in {<<fixture, f>> : f \in DOMAIN mentions} |->
     [Declared("function") EXCEPT !.signatures = {mentions[p[2]]}]]

PlainPack(world, listed, fixture, mentions) ==
  LET functions == {Plain(p) : p \in DOMAIN Functions_(fixture, mentions)}
  IN  Case_(world @@ Fixture(fixture) @@ Functions_(fixture, mentions),
            EntitiesOf(listed) \o <<entity_(Plain(<<fixture>>))>>,
            {SeedClaim(0, listed \cup functions, {}, Cardinality(listed) + Cardinality(functions))})

Absl(names) == In(<<"absl">>, names)

AbseilNumeric ==
  LET ints == Absl({"int128", "uint128"})
  IN  Case_(Classes(ints), EntitiesOf(ints), {SeedClaim(0, ints, {}, 2)})

AbseilCrc ==
  LET crc == Absl({"crc32c_t"})
  IN  PlainPack(Classes(crc), crc, "crctest", "compute" :> crc @@ "eq" :> crc @@ "value" :> crc)

AbseilStatus ==
  LET listed == Absl({"Status", "StatusCode"})
  IN  Case_(Mentions(Plain(<<"absl", "Status">>), listed) @@ Classes(listed), EntitiesOf(listed),
            {SeedClaim(0, listed, {}, 2)})

AbseilStrings ==
  LET cord == Absl({"Cord"})
  IN  PlainPack(Classes(cord), cord, "strtest", "cord_str" :> cord @@ "cat2" :> {})

AbseilTime ==
  LET duration == Absl({"Duration"})  time == Absl({"Time"})
  IN  PlainPack(Classes(duration \cup time), duration \cup time, "timetest",
                "seconds" :> duration @@ "to_unix_seconds" :> time)

\* A map from int to string, and a set of int.
MapOf(ns, n) == Specialised(ns \o <<n>>, << <<"int">>, <<"std", "string">> >>)
SetOf(ns, n) == Specialised(ns \o <<n>>, << <<"int">> >>)

AbseilBtree ==
  LET map == MapOf(<<"absl">>, "btree_map")  set == SetOf(<<"absl">>, "btree_set")
  IN  PlainPack(AreAll("template", {map.path, set.path}), {map, set}, "bttest",
                "put" :> {map} @@ "add" :> {set} @@ "first_key" :> {map} @@ "first_elem" :> {set})

UnorderedDense ==
  LET dense == <<"ankerl", "unordered_dense">>
      map == MapOf(dense, "map")  set == SetOf(dense, "set")
  IN  PlainPack(AreAll("template", {map.path, set.path}), {map, set}, "udtest",
                "put" :> {map} @@ "add" :> {set})

\* Only what the signatures reach comes along of the tables' internals: not the policies.
AbseilHash ==
  LET map == MapOf(<<"absl">>, "flat_hash_map")  node == MapOf(<<"absl">>, "node_hash_map")
      set == SetOf(<<"absl">>, "flat_hash_set")
      inner(n) == Plain(<<"absl", "container_internal", n>>)
      reaches(e, names) == e.path :> [Declared("template") EXCEPT !.signatures = {{inner(n)} : n \in names}]
      internals == {inner(n) : n \in {"raw_hash_map", "raw_hash_set", "node_handle"}}
      policies  == {inner(n) : n \in {"FlatHashMapPolicy", "FlatHashSetPolicy", "NodeHashMapPolicy"}}
  IN  Case_(reaches(map, {"raw_hash_map", "node_handle"}) @@ reaches(node, {"raw_hash_map", "node_handle"})
              @@ reaches(set, {"raw_hash_set", "node_handle"})
              @@ Mentions(inner("raw_hash_map"), {inner("raw_hash_set")})
              @@ Classes(internals \cup policies) @@ Fixture("hmtest")
              @@ Functions_("hmtest", "put" :> {map} @@ "add" :> {set} @@ "put_node" :> {node}),
            EntitiesOf({map, node, set}) \o <<entity_(Plain(<<"hmtest">>))>>,
            {SetClaim({map, node, set} \cup internals \cup In(<<"hmtest">>, {"put", "add", "put_node"}),
                      policies)})

\* A status and two of its codes: every function of sotest goes from one of these to a value.
AbseilStatusor ==
  LET of(type) == Specialised(<<"absl", "StatusOr">>, << <<type>> >>)
      codes == Absl({"Status", "StatusCode"})
  IN  PlainPack(<<"absl", "StatusOr">> :> [Declared("template") EXCEPT !.signatures = {Absl({"Status"})}]
                  @@ Classes(codes),
                {of("int"), of("std::string"), of("double")} \cup codes, "sotest",
                "ok_int" :> {of("int")} @@ "err_str" :> {of("std::string")} \cup Absl({"StatusCode"})
                  @@ "get_dbl" :> {of("double")})

\* The civil types are aliases of one template, at three granularities.
AbseilCivilTz ==
  LET civil(tag) == Specialised(<<"absl", "civil_time">>, << <<tag>> >>)
      alias(n, tag) == <<"absl", n>> :> [Declared("alias") EXCEPT !.of = civil(tag)]
      classes == Absl({"TimeZone", "Time", "Duration"}) \cup In(<<"absl", "TimeZone">>, {"CivilInfo"})
      aliases == Absl({"CivilSecond", "CivilDay", "CivilYear"})
      civils  == {civil(t) : t \in {"second", "day", "year"}}
  IN  Case_(Mentions(Plain(<<"absl", "TimeZone">>), classes \cup Absl({"CivilSecond"})) @@ Classes(classes)
              @@ AreAll("template", {<<"absl", "civil_time">>}) @@ alias("CivilSecond", "second")
              @@ alias("CivilDay", "day") @@ alias("CivilYear", "year") @@ Fixture("tztest"),
            EntitiesOf(classes \cup aliases) \o <<entity_(Plain(<<"tztest">>))>>,
            {SetClaim(classes \cup civils, {})})

Tinyobjloader ==
  LET here(names) == In(<<"tinyobj">>, names)
      listed == here({"index_t", "mesh_t", "shape_t", "attrib_t", "material_t"})
      result == Plain(<<"objtest", "LoadResult">>)
  IN  Case_(Classes(listed) @@ Mentions(result, here({"attrib_t", "shape_t", "material_t"}))
              @@ Fixture("objtest") @@ Functions_("objtest", "parse_obj" :> {result}),
            EntitiesOf(listed) \o <<entity_(Plain(<<"objtest">>))>>,
            {SeedClaim(0, listed \cup {result, Plain(<<"objtest", "parse_obj">>)}, {}, 7)})

\* The specialisations of expected, the roles of value and error swapped in two of them.
Expected ==
  LET tl(n, args) == Specialised(<<"tl", n>>, args)
      int == <<"int">>  string == <<"std", "string">>
      expected == {tl("expected", <<int, string>>), tl("expected", <<string, int>>),
                   tl("expected", << <<"void">>, string>>)}
      unexpected == {tl("unexpected", <<string>>), tl("unexpected", <<int>>)}
  IN  PlainPack(AreAll("template", {<<"tl", n>> : n \in {"expected", "unexpected", "bad_expected_access"}}),
                expected \cup unexpected \cup {tl("bad_expected_access", <<string>>)}, "extest",
                "ok_int" :> {tl("expected", <<int, string>>)}
                  @@ "ok_void" :> {tl("expected", << <<"void">>, string>>)}
                  @@ "from_unexpected" :> {tl("expected", <<int, string>>), tl("unexpected", <<string>>)})

FastFloat ==
  LET here(n) == Specialised(<<"fast_float", n>>, << <<"char">> >>)
      format == Plain(<<"fast_float", "chars_format">>)
      parsed(type) == Plain(<<"fixture", type>>)
      specialised == {here("parse_options_t"), here("from_chars_result_t")}
  IN  Case_(AreAll("enum", {format.path}) @@ AreAll("template", {e.path : e \in specialised})
              @@ Classes({parsed("ParseDouble"), parsed("ParseInt"), parsed("ParseUInt")}) @@ Fixture("fixture")
              @@ Functions_("fixture", "parse_double" :> {parsed("ParseDouble"), format}
                                       @@ "parse_int" :> {parsed("ParseInt")}),
            EntitiesOf({format} \cup specialised) \o <<entity_(Plain(<<"fixture">>))>>,
            {SeedClaim(0, {format} \cup specialised, {}, 8)})

\* The signatures of json bring in its references and pointers, the iterators that
\* are not skipped, over constant values and others, and these what they stand for.
Json ==
  LET detail(n) == Plain(<<"nlohmann", "detail", n>>)
      enums == {detail("value_t"), detail("error_handler_t")}
      json  == Specialised(<<"nlohmann", "basic_json">>, << <<"std::map">> >>)
      over(n) == {Specialised(<<"nlohmann", "detail", n>>, << <<c>> >>) : c \in {"iter_impl", "const iter_impl"}}
      once  == {detail("json_ref"), Plain(<<"nlohmann", "json_pointer">>)}
      found == once \cup over("json_reverse_iterator") \cup over("iteration_proxy")
      world(p, es) == p :> [Declared("template") EXCEPT !.signatures = {{e} : e \in es}]
  IN  Case_(<<"nlohmann", "json">> :> [Declared("alias") EXCEPT !.of = json]
              @@ world(<<"nlohmann", "basic_json">>, found)
              @@ world(<<"nlohmann", "detail", "iteration_proxy">>, over("iteration_proxy_value"))
              @@ AreAll("enum", {e.path : e \in enums}) @@ Classes(once) @@ Fixture("jsontest")
              @@ Functions_("jsontest", "parse" :> {json}),
            EntitiesOf({Plain(<<"nlohmann", "json">>)} \cup enums) \o <<entity_(Plain(<<"jsontest">>))>>,
            {SeedClaim(0, {json} \cup enums \cup found \cup over("iteration_proxy_value"), {}, 12)})

Pod ==
  LET here(names) == In(<<"podfix">>, names)
  IN  Case_(Classes(here({"Point", "Axis"})) @@ Fixture("podfix")
              @@ Functions_("podfix", "add" :> here({"Point"}) @@ "dot" :> here({"Point"})),
            <<entity_(Plain(<<"podfix">>))>>, {SeedClaim(0, here({"Point", "Axis", "add", "dot"}), {}, 4)})

\* A class that mentions itself is bound once.
Recursive ==
  LET node == Plain(<<"tree", "Node">>)
  IN  Case_(Mentions(node, {node}), <<entity_(node)>>, {SeedClaim(0, {node}, {}, 1)})

\* trampoline_all_ is configuration: it brings no seed.
trampoline_all_ == exclude_({}, {})

Virtual ==
  LET here(names) == In(<<"shapes">>, names)
  IN  Case_(Classes(here({"Shape", "Circle"})) @@ Fixture("shapes")
              @@ Functions_("shapes", "call_area" :> here({"Shape"}) @@ "call_name" :> here({"Shape"})),
            <<entity_(Plain(<<"shapes">>)), trampoline_all_>>,
            {SeedClaim(0, here({"Shape", "Circle", "call_area", "call_name"}), {}, 4), SeedClaim(2, {}, {}, 0)})

PlainPacks ==
  "abseil_numeric" :> AbseilNumeric @@ "abseil_crc" :> AbseilCrc @@ "abseil_status" :> AbseilStatus
  @@ "abseil_strings" :> AbseilStrings @@ "abseil_time" :> AbseilTime @@ "abseil_btree" :> AbseilBtree
  @@ "unordered_dense" :> UnorderedDense @@ "abseil_hash" :> AbseilHash @@ "abseil_statusor" :> AbseilStatusor
  @@ "abseil_civil_tz" :> AbseilCivilTz @@ "tinyobjloader" :> Tinyobjloader @@ "expected" :> Expected
  @@ "fast_float" :> FastFloat @@ "json" :> Json @@ "_fixture_pod" :> Pod @@ "_fixture_recursive" :> Recursive
  @@ "_fixture_virtual" :> Virtual

PackCases == ProbeCases @@ EigenCases @@ ExclusionCases @@ SelectionCases @@ PlainPacks
=============================================================================
