------------------------------- MODULE JsonExt -------------------------------
(***************************************************************************)
(* The emitted module of the json run:                                     *)
(* corpus/runs/json/binding/build-emit/binding.gen.cpp.                    *)
(*                                                                         *)
(* Types are named by what they are in nlohmann::json: json is the         *)
(* basic_json specialization, iter and citer its iterators (not bound),    *)
(* riter and criter the reverse iterators, proxy and cproxy the iteration  *)
(* proxies, pval and cpval their values. Printing (__str__) is left out.   *)
(***************************************************************************)
EXTENDS Overloads

(* A member with a const and a non-const form gives two overloads.         *)
Twice(name, params, ret, cret) ==
    << Def(name, params, ret), Def(name, params, cret) >>

BasicJsonBasics ==
    Ctors("json", << <<"value_t">>, <<"none">>, <<"init_list", "bool", "value_t">>,
                     <<"int", "json">>, <<"json">> >>)
    \o << Def("get_allocator", <<>>, "allocator"), Def("meta", <<>>, "json"),
          Def("binary", <<"bytes_list">>, "json"), Def("binary", <<"bytes_list", "int">>, "json"),
          Def("binary", <<"bytes_list">>, "json"), Def("binary", <<"bytes_list", "int">>, "json"),
          Def("array", <<"init_list">>, "json"), Def("object", <<"init_list">>, "json"),
          Def("dump", <<"json", "int", "str", "bool", "error_handler_t">>, "str"),
          Def("type", <<"json">>, "value_t") >>
    \o Getters("json", [i \in 1 .. 13 |->
           << << "is_primitive", "is_structured", "is_null", "is_boolean", "is_number",
                 "is_number_integer", "is_number_unsigned", "is_number_float",
                 "is_object", "is_array", "is_string", "is_binary", "is_discarded" >>[i],
              "bool" >>])

BasicJsonAccess ==
    << Def("get_binary", <<"json">>, "byte_container"),
       Def("get_binary", <<"json">>, "byte_container") >>
    \o Twice("at", <<"json", "int">>, "json", "json")
    \o Twice("at", <<"json", "str">>, "json", "json")
    \o Twice("__getitem__", <<"json", "int">>, "json", "json")
    \o Twice("__getitem__", <<"json", "str">>, "json", "json")
    \o << Def("front", <<"json">>, "json"), Def("front", <<"json">>, "json"),
          Def("back", <<"json">>, "json"), Def("back", <<"json">>, "json"),
          Def("erase", <<"json", "str">>, "int"), Def("erase", <<"json", "int">>, "void"),
          Def("find", <<"json", "str">>, "iter"), Def("find", <<"json", "str">>, "citer"),
          Def("count", <<"json", "str">>, "int"), Def("contains", <<"json", "str">>, "bool"),
          Def("contains", <<"json", "json_pointer">>, "bool") >>

BasicJsonIterators ==
    Getters("json", << <<"begin", "iter">>, <<"begin", "citer">>, <<"cbegin", "citer">>,
                       <<"end", "iter">>, <<"end", "citer">>, <<"cend", "citer">>,
                       <<"rbegin", "riter">>, <<"rbegin", "criter">>,
                       <<"rend", "riter">>, <<"rend", "criter">>,
                       <<"crbegin", "criter">>, <<"crend", "criter">>,
                       <<"iterator_wrapper", "proxy">>, <<"iterator_wrapper", "cproxy">>,
                       <<"items", "proxy">>, <<"items", "cproxy">>,
                       <<"empty", "bool">>, <<"size", "int">>, <<"max_size", "int">> >>)

BasicJsonChanges ==
    LET PushBack(arg) == << Def("push_back", <<"json", arg>>, "void"),
                            Def("__iadd__", <<"json", arg>>, "json") >>
        Insert(args, ret) == << Def("insert", <<"json">> \o args, ret) >>
        Swap(arg) == << Def("swap", <<"json", arg>>, "void") >>
    IN  << Def("clear", <<"json">>, "void") >>
        \o PushBack("json") \o PushBack("json") \o PushBack("json_pair")
        \o PushBack("init_list")
        \o Insert(<<"citer", "json">>, "iter") \o Insert(<<"citer", "json">>, "iter")
        \o Insert(<<"citer", "int", "json">>, "iter")
        \o Insert(<<"citer", "citer", "citer">>, "iter")
        \o Insert(<<"citer", "init_list">>, "iter") \o Insert(<<"citer", "citer">>, "void")
        \o << Def("update", <<"json", "json", "bool">>, "void"),
              Def("update", <<"json", "citer", "citer", "bool">>, "void") >>
        \o Swap("json") \o Swap("json_list") \o Swap("json_map") \o Swap("str")
        \o Swap("byte_container") \o Swap("bytes_list")
        \o Compare("json", Eq2)

BasicJsonFormats ==
    LET Writer(name, flags) ==
            << Def(name, <<"json">> \o flags, "bytes_list"),
               Def(name, <<"json", "byte_output">> \o flags, "void"),
               Def(name, <<"json", "char_output">> \o flags, "void") >>
        Reader(name, more) == << Def(name, <<"span_input">> \o more, "json") >>
    IN  Reader("parse", <<"parse_callback", "bool", "bool">>)
        \o << Def("accept", <<"span_input", "bool">>, "bool"),
              Def("type_name", <<"json">>, "str") >>
        \o Writer("to_cbor", <<>>) \o Writer("to_msgpack", <<>>)
        \o Writer("to_ubjson", <<"bool", "bool">>) \o Writer("to_bjdata", <<"bool", "bool">>)
        \o Writer("to_bson", <<>>)
        \o Reader("from_cbor", <<"bool", "bool", "cbor_tag_handler_t">>)
        \o Reader("from_msgpack", <<"bool", "bool">>) \o Reader("from_ubjson", <<"bool", "bool">>)
        \o Reader("from_bson", <<"bool", "bool">>)

BasicJsonPointers ==
    Twice("__getitem__", <<"json", "json_pointer">>, "json", "json")
    \o Twice("at", <<"json", "json_pointer">>, "json", "json")
    \o << Def("flatten", <<"json">>, "json"), Def("unflatten", <<"json">>, "json"),
          Def("patch_inplace", <<"json", "json">>, "void"),
          Def("patch", <<"json", "json">>, "json"),
          Def("diff", <<"json", "json", "str">>, "json"),
          Def("merge_patch", <<"json", "json">>, "void") >>

JsonRefDefs ==
    Ctors("json_ref", << <<"json">>, <<"json">>, <<"init_list">> >>)
    \o << Def("moved_or_copied", <<"json_ref">>, "json") >>

JsonPointerDefs ==
    LET P == "json_pointer"
    IN  Ctors(P, << <<"str">>, <<P>> >>)
        \o << Def("to_string", <<P>>, "str"), Def("__itruediv__", <<P, P>>, P),
              Def("__itruediv__", <<P, "str">>, P), Def("__itruediv__", <<P, "int">>, P),
              Def("parent_pointer", <<P>>, P), Def("pop_back", <<P>>, "void"),
              Def("back", <<P>>, "str"), Def("push_back", <<P, "str">>, "void"),
              Def("push_back", <<P, "str">>, "void"), Def("empty", <<P>>, "bool"),
              Def("__eq__", <<P, "str">>, "bool") >>

\* Fault: the inherited operators are emitted before the class's own.
ReverseIteratorInheritedFirst(R, I, base) ==
    Ctors(R, << <<I>>, <<base>>, <<R>> >>)
    \o << Def("__add__", <<R, "int">>, base), Def("__iadd__", <<R, "int">>, base),
          Def("__sub__", <<R, "int">>, base), Def("__isub__", <<R, "int">>, base),
          Def("__iadd__", <<R, "int">>, R), Def("__add__", <<R, "int">>, R),
          Def("__sub__", <<R, "int">>, R), Def("__sub__", <<R, R>>, "int") >>

(* json_reverse_iterator, and what it inherits from std::reverse_iterator: *)
(* the inherited operators return the base, which is not bound.            *)
ReverseIteratorDefs(R, I, base) ==
    Ctors(R, << <<I>>, <<base>>, <<R>> >>)
    \o << Def("__iadd__", <<R, "int">>, R), Def("__add__", <<R, "int">>, R),
          Def("__sub__", <<R, "int">>, R), Def("__sub__", <<R, R>>, "int"),
          Def("__getitem__", <<R, "int">>, "json"), Def("key", <<R>>, "str"),
          Def("value", <<R>>, "json"), Def("base", <<R>>, I),
          Def("__add__", <<R, "int">>, base), Def("__iadd__", <<R, "int">>, base),
          Def("__sub__", <<R, "int">>, base), Def("__isub__", <<R, "int">>, base),
          Def("__getitem__", <<R, "int">>, "json") >>

ProxyDefs(P, V) ==
    Ctors(P, << <<>>, <<"json">>, <<P>> >>) \o Getters(P, << <<"begin", V>>, <<"end", V>> >>)

ProxyValueDefs(V, I) ==
    Ctors(V, << <<>>, <<I, "int">>, <<V>> >>) \o Compare(V, Eq2)
    \o Getters(V, << <<"key", "str">>, <<"value", "json">> >>)

JsonFunctions ==
    LET Make(name, params) == Def(name, params, "json")
    IN  << Make("null_value", <<>>), Make("boolean", <<"bool">>), Make("integer", <<"int">>),
           Make("number", <<"float">>), Make("text", <<"str">>), Make("parse", <<"str">>),
           Make("array_123", <<>>), Make("object_ab", <<>>),
           Def("to_int", <<"json">>, "int"), Def("to_double", <<"json">>, "float"),
           Def("to_text", <<"json">>, "str") >>

(* Both forms of an iterator class have one Python name, and one fallback. *)
JsonClasses ==
    LET Named(name) == Class(name, "detail_" \o name, <<>>)
    IN  [ json |-> Class("basic_json", "json_abi_v3_11_3_basic_json", <<>>),
          json_ref |-> Named("json_ref"),
          json_pointer |-> Class("json_pointer", "json_abi_v3_11_3_json_pointer", <<>>),
          riter |-> Named("json_reverse_iterator"), criter |-> Named("json_reverse_iterator"),
          proxy |-> Named("iteration_proxy"), cproxy |-> Named("iteration_proxy"),
          pval |-> Named("iteration_proxy_value"), cpval |-> Named("iteration_proxy_value"),
          value_t |-> Named("value_t"), error_handler_t |-> Named("error_handler_t") ]

JsonReachable == << "json", "json_ref", "json_pointer", "riter", "criter",
                    "proxy", "cproxy", "pval", "cpval" >>

(* The pack's three elements, each with all it reaches; what is bound      *)
(* already is met again and again.                                         *)
JsonCalls == JsonReachable \o JsonReachable \o << "json", "value_t", "error_handler_t" >>

json_ext ==
    [ classes |-> JsonClasses,
      vectors |-> [ json_list |-> "json", json_map |-> "json", json_pair |-> "json" ],
      calls   |-> JsonCalls,
      defs    |-> [ json |-> BasicJsonBasics \o BasicJsonAccess \o BasicJsonIterators
                             \o BasicJsonChanges \o BasicJsonFormats \o BasicJsonPointers,
                    json_ref |-> JsonRefDefs, json_pointer |-> JsonPointerDefs,
                    riter |-> ReverseIteratorDefs("riter", "iter", "std_riter"),
                    criter |-> ReverseIteratorDefs("criter", "citer", "std_criter"),
                    proxy |-> ProxyDefs("proxy", "pval"), cproxy |-> ProxyDefs("cproxy", "cpval"),
                    pval |-> ProxyValueDefs("pval", "iter"),
                    cpval |-> ProxyValueDefs("cpval", "citer"),
                    value_t |-> <<>>, error_handler_t |-> <<>>,
                    module |-> JsonFunctions ] ]
=============================================================================
