---------------------------- MODULE MatcherPacks ----------------------------
(***************************************************************************)
(* The packs of probes 12 and 13 and what their static_asserts claim of    *)
(* the seeds and the bind set.                                             *)
(***************************************************************************)
EXTENDS MatcherTables

Types(names) == {<<n>> : n \in names}
AreAll(kind, paths) == [p \in paths |-> Declared(kind)]

xifns ==
  Scope(<<"xifns">>,
    AreAll("class", {<<"Keep">>, <<"DropMe">>, <<"internal", "Hidden">>,
                     <<"internal", "AlsoHidden">>, <<"internal", "AlsoHidden", "Nested">>})
    @@ AreAll("namespace", {<<>>, <<"internal">>})
    @@ <<"Wrap">> :> Declared("template")
    @@ <<"Api">> :> [Declared("class") EXCEPT !.signatures =
         { {Specialised(<<"xifns", "Wrap">>, << <<"xifns", "Keep">> >>)},
           {Specialised(<<"xifns", "Wrap">>, << <<"xifns", "DropMe">> >>)},
           {Plain(<<"xifns", "internal", "Hidden">>)} }])

Xif(name)    == Plain(<<"xifns", name>>)
Hidden(name) == Plain(<<"xifns", "internal", name>>)
WrapOf(name) == Specialised(<<"xifns", "Wrap">>, << <<"xifns", name>> >>)

PACK_NS  == entity_(Plain(<<"xifns">>))
X_DROP   == exclude_({}, {named_("Drop*")})
X_NESTED == exclude_({}, X_DROP.preds)
X_INTERN == exclude_({}, {in_namespace_(<<"xifns", "internal">>)})

ExcludeIfCases ==
  "direct_hits" :>
     Case_(xifns, <<PACK_NS, X_DROP, X_INTERN>>,
           {SetClaim({Xif("Keep"), Xif("Api")},
                     {Xif("DropMe"), Hidden("Hidden"),
                      Plain(<<"xifns", "internal", "AlsoHidden", "Nested">>)})})
  @@ "nested_placement" :>
     Case_(xifns, <<PACK_NS, X_NESTED>>, {SetClaim({Xif("Keep")}, {Xif("DropMe")})})
  @@ "namespace_name_pred" :>
     Case_(xifns, <<PACK_NS, exclude_({}, {named_("internal")})>>,
           {SetClaim({Xif("Keep")}, {Hidden("Hidden")})})
  @@ "bind_set_shape" :>
     Case_(xifns, <<PACK_NS, X_DROP, X_INTERN>>,
           {SetClaim({Xif("Keep"), Xif("Api"), WrapOf("Keep")},
                     {Xif("DropMe"), WrapOf("DropMe"), Hidden("Hidden")})})
  @@ "no_marker_baseline" :>
     Case_(xifns, <<PACK_NS>>,
           {SetClaim({Xif("DropMe"), Hidden("Hidden"), WrapOf("DropMe")}, {})})

-----------------------------------------------------------------------------
mins ==
  Scope(<<"mins">>,
    AreAll("class", {<<"VecA">>, <<"VecB">>, <<"Scalar">>, <<"impl", "VecHidden">>,
                     <<"mathy", "Inner">>, <<"mathy", "Other">>})
    @@ AreAll("namespace", {<<>>, <<"impl">>, <<"mathy">>})
    @@ AreAll("function", {<<"vec_count">>, <<"other_fn">>})
    @@ AreAll("template", {<<"Grid">>, <<"NeedsDefault">>, <<"VecLike">>, <<"OtherTmpl">>})
    @@ <<"Mode">> :> Declared("enum")
    @@ <<"NoVoid">> :> [Declared("template") EXCEPT !.refuses = {<< <<"void">> >>}])

Min_(name)      == Plain(<<"mins", name>>)
VecHidden       == Plain(<<"mins", "impl", "VecHidden">>)
Grid(type, n)   == Specialised(<<"mins", "Grid">>, << <<type>>, <<n>> >>)
Tmpl(name, type) == Specialised(<<"mins", name>>, << <<type>> >>)
Mins            == entity_(Plain(<<"mins">>))
MatchMins(m)    == match_(<<"mins">>, m)

\* Elements that seed themselves or nothing.
PlainCases ==
  "plain elements" :>
     Case_(mins, <<Mins, entity_(Min_("VecA")), exclude_({Min_("Scalar")}, {}),
                   exclude_({}, {named_("x")})>>,
           {SeedClaim(1, {Plain(<<"mins">>)}, {}, 1), SeedClaim(2, {Min_("VecA")}, {}, 1),
            SeedClaim(3, {}, {}, 0), SeedClaim(4, {}, {}, 0)})

MatchCases ==
  "match_basics" :>
     Case_(mins, <<MatchMins(named_("Vec*"))>>,
           {SeedClaim(1, {Min_("VecA"), Min_("VecB"), VecHidden},
                      {Min_("Scalar"), Min_("Mode"), Min_("VecLike"), Min_("vec_count")}, NoCount)})
  @@ "match_functions_and_enums" :>
     Case_(mins, <<MatchMins(kind_("function")), MatchMins(kind_("enum"))>>,
           {SeedClaim(1, {Min_("vec_count"), Min_("other_fn")}, {Min_("VecA")}, NoCount),
            SeedClaim(2, {Min_("Mode")}, {}, 1)})
  @@ "match_whole_namespace" :>
     Case_(mins, <<MatchMins(named_("mathy"))>>, {SeedClaim(1, {Min_("mathy")}, {}, 1)})
  @@ "match_respects_exclusion" :>
     Case_(mins, <<MatchMins(named_("Vec*")),
                   exclude_({}, {in_namespace_(<<"mins", "impl">>)})>>,
           {SeedClaim(1, {Min_("VecA")}, {VecHidden}, NoCount)})

InstantiateCases ==
  "instantiate_with" :>
     Case_(mins, <<instantiate_(<<"mins", "Grid">>, with_({<< <<"int">>, <<"2">> >>}))>>,
           {SeedClaim(1, {Grid("int", "2")}, {}, 1)})
  @@ "instantiate_product" :>
     Case_(mins, <<instantiate_(<<"mins", "Grid">>,
                     product_(<<Types({"float", "double"}), Types({"3", "4"})>>))>>,
           {SeedClaim(1, {Grid(t, n) : t \in {"float", "double"}, n \in {"3", "4"}}, {}, 4)})
  @@ "product_invalid_corner_skipped" :>
     Case_(mins, <<instantiate_(<<"mins", "NoVoid">>, product_(<<Types({"int", "void"})>>))>>,
           {SeedClaim(1, {Tmpl("NoVoid", "int")}, {}, 1)})
  @@ "instantiate_matcher_target" :>
     Case_(mins, <<instantiate_matched_(named_("Vec*"), with_({<< <<"int">> >>})), Mins>>,
           {SeedClaim(1, {Tmpl("VecLike", "int")}, {}, 1)})
  @@ "instantiate_matcher_target_via_match_scope" :>
     Case_(mins, <<instantiate_matched_(named_("Other*"), with_({<< <<"double">> >>})),
                   MatchMins(kind_("enum"))>>,
           {SeedClaim(1, {Tmpl("OtherTmpl", "double")}, {}, 1)})
  @@ "bind_set_integration" :>
     Case_(mins, <<MatchMins(named_("Vec?")),
                   instantiate_(<<"mins", "Grid">>, product_(<<Types({"float"}), Types({"3"})>>))>>,
           {SetClaim({Min_("VecA"), Min_("VecB"), Grid("float", "3")}, {Min_("Scalar")})})

ProbeCases == ExcludeIfCases @@ PlainCases @@ MatchCases @@ InstantiateCases
=============================================================================
