--------------------------- MODULE MatcherTables ---------------------------
(***************************************************************************)
(* What probes 10 and 11 assert of the matchers, one row per static_assert *)
(* and grouped as they group them: the names, the leaves, the combinators. *)
(* The entities are those of the namespaces fix and fixns.                 *)
(***************************************************************************)
EXTENDS Matchers

Scope(ns, kinds) == [p \in {ns \o n : n \in DOMAIN kinds} |->
                       kinds[SubSeq(p, Len(ns) + 1, Len(p))]]

fix ==
  Scope(<<"fix">>,
    <<>> :> Declared("namespace") @@ <<"VecA">> :> Declared("class")
    @@ <<"VecB">> :> Declared("class") @@ <<"Scalar">> :> Declared("class")
    @@ <<"detail_probe">> :> Declared("namespace"))

fixns ==
  Scope(<<"fixns">>,
    <<>> :> Declared("namespace")
    @@ [n \in {<<"VecA">>, <<"VecB">>, <<"VecB", "Nested">>, <<"Scalar">>, <<"BaseC">>,
               <<"inner", "Deep">>, <<"inner", "deeper", "Deepest">>, <<"Reopened">>} |->
          Declared("class")]
    @@ <<"Color">> :> Declared("enum")
    @@ <<"counter">> :> Declared("variable")
    @@ <<"free_fn">> :> Declared("function")
    @@ <<"Box">> :> Declared("template")
    @@ <<"BoxInt">> :> [Declared("alias") EXCEPT !.of = Specialised(<<"fixns", "Box">>, <<<<"int">>>>)]
    @@ [n \in {<<"inner">>, <<"inner", "deeper">>} |-> Declared("namespace")]
    @@ <<"ForwardOnly">> :> Declared("incomplete")
    @@ <<"MidC">> :> [Declared("class") EXCEPT !.bases = {<<"fixns", "BaseC">>}]
    @@ <<"DerC">> :> [Declared("class") EXCEPT !.bases = {<<"fixns", "MidC">>}]
    @@ <<"PrivDer">> :> [Declared("class") EXCEPT !.bases = {<<"fixns", "BaseC">>}])

Fix(name) == Plain(<<"fixns", name>>)
BoxOfInt  == Specialised(<<"fixns", "Box">>, <<<<"int">>>>)
Deep      == Plain(<<"fixns", "inner", "Deep">>)
Deepest   == Plain(<<"fixns", "inner", "deeper", "Deepest">>)
Nested    == Plain(<<"fixns", "VecB", "Nested">>)
Fixns     == Plain(<<"fixns">>)
Builtin   == Plain(<<"int">>)
Global    == Plain(<<>>)

\* <<pattern, name, answer>>
GlobTable ==
  { <<"Vec*", "VecA", TRUE>>, <<"*View", "SparseView", TRUE>>, <<"?at", "mat", TRUE>>,
    <<"Vec*", "Scalar", FALSE>>, <<"*", "", TRUE>>, <<"?", "", FALSE>> }

HeaderGlobTable ==
  { <<"Vec*", "VecA", TRUE>>, <<"Vec*", "Vec", TRUE>>, <<"Vec*", "Scalar", FALSE>>,
    <<"*View", "SparseView", TRUE>>, <<"*View", "View", TRUE>>, <<"*View", "Viewer", FALSE>>,
    <<"?at", "mat", TRUE>>, <<"?at", "at", FALSE>>,
    <<"a*b*c", "aXXbYYc", TRUE>>, <<"a*b*c", "aXXbYY", FALSE>>,
    <<"*", "", TRUE>>, <<"", "", TRUE>>, <<"", "x", FALSE>>, <<"exact", "exact", TRUE>> }

Rows(matcher, entities, answer) == {<<matcher, e, answer>> : e \in entities}

Positives ==
       Rows(is_class_, {Fix("VecA"), Fix("BoxInt")}, TRUE)
  \cup Rows(kind_("enum"), {Fix("Color")}, TRUE)
  \cup Rows(kind_("function"), {Fix("free_fn")}, TRUE)
  \cup Rows(kind_("template"), {Fix("Box")}, TRUE)
  \cup Rows(named_("Vec?"), {Fix("VecA")}, TRUE)
  \cup Rows(named_("Box"), {BoxOfInt, Fix("BoxInt")}, TRUE)
  \cup Rows(named_("free*"), {Fix("free_fn")}, TRUE)
  \cup Rows(in_namespace_(<<"fixns">>),
            {Fix("VecA"), Deep, Fix("Reopened"), Fix("free_fn"), Fix("Box"), Fix("counter")}, TRUE)
  \cup Rows(in_namespace_(<<"fixns", "inner">>), {Deepest}, TRUE)
  \cup Rows(derived_from_(<<"fixns", "BaseC">>),
            {Fix("BaseC"), Fix("MidC"), Fix("DerC"), Fix("PrivDer")}, TRUE)

Negatives ==
       Rows(is_class_, {Fix("Color"), Fixns, Builtin, Fix("free_fn")}, FALSE)
  \cup Rows(kind_("enum"), {Fix("VecA")}, FALSE)
  \cup Rows(kind_("function"), {Fix("VecA")}, FALSE)
  \cup Rows(kind_("template"), {BoxOfInt}, FALSE)
  \cup Rows(named_("Vec*"), {Fix("Scalar"), Builtin}, FALSE)
  \cup Rows(named_("x"), {Global}, FALSE)
  \cup Rows(in_namespace_(<<"fixns">>), {Fixns, Builtin}, FALSE)
  \cup Rows(in_namespace_(<<"fixns", "inner">>), {Fix("VecA"), Nested}, FALSE)
  \cup Rows(in_namespace_(<<"fixns">>), {Nested}, TRUE)
  \cup Rows(derived_from_(<<"fixns", "BaseC">>),
            {Fix("Scalar"), Fix("ForwardOnly"), Fixns, Builtin}, FALSE)

Combinators ==
       Rows(all_of_(<<is_class_, named_("Vec*"), in_namespace_(<<"fixns">>)>>),
            {Fix("VecA")}, TRUE)
  \cup Rows(all_of_(<<is_class_, named_("Vec*")>>), {Fix("Scalar")}, FALSE)
  \cup Rows(any_of_(<<named_("Sca*"), named_("Vec*")>>), {Fix("Scalar")}, TRUE)
  \cup Rows(any_of_(<<named_("X"), named_("Y")>>), {Fix("Scalar")}, FALSE)
  \cup Rows(not_(kind_("enum")), {Fix("VecA")}, TRUE)
  \cup Rows(not_(is_class_), {Fix("VecA")}, FALSE)
  \cup Rows(all_of_(<<>>), {Fix("VecA")}, TRUE)
  \cup Rows(any_of_(<<>>), {Fix("VecA")}, FALSE)

\* build_preds of probe 10, and the walk of its round trip over match_<^^fix, "Vec?">.
build_preds == {named_type_("Vec*"), is_class_}

Selected == MembersAccepted(fix, <<"fix">>, {named_type_("Vec?")})

\* Every static_assert of probes 10 and 11.
Asserted ==
  /\ \A row \in GlobTable \cup HeaderGlobTable : Matches(row[1], row[2]) = row[3]
  /\ \A row \in Positives \cup Negatives \cup Combinators :
       Accepts(fixns, row[1], row[2]) = row[3]
  /\ Cardinality(MembersAccepted(fix, <<"fix">>, build_preds)) = 3
  /\ Selected = {<<"fix", "VecA">>, <<"fix", "VecB">>}
  /\ AnyAccepts(fix, {named_type_("Sca*")}, Plain(<<"fix", "Scalar">>))
  /\ ~AnyAccepts(fix, {named_type_("Sca*")}, Plain(<<"fix", "VecA">>))
=============================================================================
