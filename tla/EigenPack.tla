----------------------------- MODULE EigenPack -----------------------------
(***************************************************************************)
(* The pack of corpus/runs/eigen/binding/binding_args.h: the exclusion     *)
(* that makes the facades of four matrix types bindable. The facades, the  *)
(* members and the arities are Eigen's, as the file's comments name them.  *)
(***************************************************************************)
EXTENDS MatcherPacks

Eigen(names) == {<<"Eigen", n>> : n \in names}

\* The bases of a matrix, nearest first: where Python looks a name up.
Facades == <<"Matrix", "PlainObjectBase", "MatrixBase", "DenseBase", "DenseCoeffsBase", "EigenBase">>

Size     == "Vec3" :> 3 @@ "Mat3" :> 9 @@ "CVec1" :> 1 @@ "CVec3" :> 3
Matrices == DOMAIN Size

Member(facade, name, arities) == {[facade |-> facade, name |-> name, arity |-> a] : a \in arities}

Nullary(facade, names) == UNION {Member(facade, n, {0}) : n \in names}

Members ==
       UNION {Member("PlainObjectBase", n, {1, 2}) : n \in {"setZero", "setOnes", "setRandom"}}
  \cup Member("PlainObjectBase", "setConstant", {2, 3})
  \cup Member("PlainObjectBase", "resize", {1, 2})
  \cup Member("PlainObjectBase", "conservativeResize", {1, 2})
  \cup Nullary("DenseBase", {"setZero", "setOnes", "setRandom", "value", "trace", "begin", "end"})
  \cup Member("DenseBase", "setConstant", {1})
  \cup Nullary("MatrixBase", {"eulerAngles", "isSkewSymmetric", "UnitX", "eigenvalues",
                              "operatorNorm", "unitOrthogonal", "trace"})
  \cup Nullary("DenseCoeffsBase", {"x", "y", "z", "w"})
  \cup Member("DenseCoeffsBase", "__getitem__", {1})

Constructors == [scalars : 1 .. 4, pointer : {FALSE}] \cup {[scalars |-> 0, pointer |-> TRUE]}

Entity(M, m) == Plain(<<"Eigen", m.facade, M, m.name, ToString(m.arity)>>)
Ctor(M, c)   == Plain(<<"Eigen", "Matrix", M, "ctor", IF c.pointer THEN "*" ELSE ToString(c.scalars)>>)

-----------------------------------------------------------------------------
collect_bad_matrix_ctors(M) ==
  {Ctor(M, c) : c \in {d \in Constructors : d.pointer \/ (d.scalars \in 1 .. 4 /\ d.scalars # Size[M])}}

All == {0, 1, 2, 3}

collect_members_named(M, name, arities) ==
  {Entity(M, m) : m \in {x \in Members : x.name = name /\ x.arity \in arities}}

eigen_machinery ==
  all_of_(<<in_namespace_(<<"Eigen">>),
            any_of_(<<named_("Cwise*"), named_("*View"), named_("*Wrapper"), named_("Permutation*"),
                      named_("*Solver"), named_("*SVD"), named_("*QR"), named_("*PivLU"),
                      named_("*Schur"), named_("*Decomposition"), named_("Householder*")>>)>>)

PlumbingTemplates ==
  {"Transpose", "Diagonal", "Block", "VectorBlock", "Reverse", "Replicate", "Reshaped",
   "NestByValue", "Map", "Ref", "CommaInitializer", "WithFormat", "Select", "VectorwiseOp",
   "Homogeneous", "Solve", "Inverse", "Product", "PartialReduxExpr", "ForceAlignedAccess",
   "NoAlias", "LLT", "LDLT", "Tridiagonalization", "RealQZ", "JacobiRotation"}

AnyArity ==
  {"eulerAngles", "canonicalEulerAngles", "isSkewSymmetric", "Unit", "UnitX", "UnitY", "UnitZ",
   "UnitW", "eigenvalues", "operatorNorm", "intCast", "value", "setUnit", "setLinSpaced",
   "setEqualSpaced", "unitOrthogonal", "resizeLike", "conservativeResize",
   "conservativeResizeLike", "begin", "end", "cbegin", "cend", "rbegin", "rend", "crbegin", "crend"}

\* Fault: only the forms that resize one dimension are dropped.
BadMembersOfOneSize(M) ==
  UNION {collect_members_named(M, n, All) : n \in AnyArity}
  \cup UNION {collect_members_named(M, n, {1}) : n \in {"setZero", "setOnes", "setRandom"}}
  \cup collect_members_named(M, "setConstant", {2})

BadMembers(M) ==
  UNION {collect_members_named(M, n, All) : n \in AnyArity}
  \cup UNION {collect_members_named(M, n, {1, 2}) : n \in {"setZero", "setOnes", "setRandom"}}
  \cup collect_members_named(M, "setConstant", {2, 3})

\* DenseBase declares a trace that Eigen never defines.
DeadTrace(M) == {Entity(M, m) : m \in Member("DenseBase", "trace", {0})}

\* exclude_member_: by the name the member has in Python.
ByName(M) ==
  {"w", "resize"} \cup (CASE M = "Mat3" -> {"x", "y", "z", "__getitem__"}
                          [] M = "CVec1" -> {"y", "z"}
                          [] OTHER -> {})

eigen_excluded_marker ==
  exclude_({Plain(<<"Eigen", "internal">>)}
           \cup {Plain(t) : t \in Eigen(PlumbingTemplates)}
           \cup UNION {collect_bad_matrix_ctors(M) \cup BadMembers(M) \cup DeadTrace(M) : M \in Matrices}
           \cup UNION {UNION {collect_members_named(M, n, All) : n \in ByName(M)} : M \in Matrices},
           {eigen_machinery})

-----------------------------------------------------------------------------
\* The machinery that the facades' signatures reach, one of each family.
Machinery ==
  {"CwiseUnaryOp", "TriangularView", "ArrayWrapper", "PermutationMatrix", "EigenSolver",
   "JacobiSVD", "HouseholderQR", "FullPivLU", "RealSchur", "HessenbergDecomposition",
   "HouseholderSequence", "Transpose", "Block", "Inverse", "LLT"}

\* The declaration of eigenvalues brings in a complex vector, though it is not bound.
EigenvaluesOf(M) ==
  CASE M = "Vec3" -> {{Plain(<<"Eigen", "CVec1">>)}}
    [] M = "Mat3" -> {{Plain(<<"Eigen", "CVec3">>)}}
    [] OTHER -> {}

\* A matrix is its facades in one: each member is a signature of its own.
EigenWorld ==
  AreAll("template", Eigen(Range(Facades) \cup Machinery))
  @@ AreAll("namespace", {<<"Eigen">>, <<"Eigen", "internal">>, <<"eigentest">>})
  @@ [M \in Eigen(Matrices) |->
        [Declared("class") EXCEPT !.signatures =
           {{Entity(M[2], m)} : m \in Members} \cup {{Ctor(M[2], c)} : c \in Constructors}
           \cup {{Plain(t)} : t \in Eigen(Machinery)} \cup EigenvaluesOf(M[2])]]

Earlier(facade) == {Facades[i] : i \in {j \in DOMAIN Facades :
                                           \E k \in DOMAIN Facades : j < k /\ Facades[k] = facade}}

\* A form resolves in Python if no facade before its own binds the name: nanobind
\* does not merge the overloads of a base into those of a derived class.
Resolves(M, m) ==
  SetClaim({Entity(M, m)},
           {Entity(M, n) : n \in {x \in Members : x.name = m.name /\ x.facade \in Earlier(m.facade)}})

UsefulForms ==
  Nullary("DenseBase", {"setZero", "setOnes", "setRandom"}) \cup Member("DenseBase", "setConstant", {1})
  \cup Nullary("MatrixBase", {"trace"})

EigenCases ==
  "eigen" :>
    Case_(EigenWorld,
          <<entity_(Plain(<<"Eigen", "Vec3">>)), entity_(Plain(<<"Eigen", "Mat3">>)),
            eigen_excluded_marker, entity_(Plain(<<"eigentest">>))>>,
          {Resolves(M, m) : M \in Matrices, m \in UsefulForms}
          \cup {SetClaim({Ctor(M, c) : c \in {d \in Constructors : d.scalars = Size[M]}},
                         {Ctor(M, c) : c \in {d \in Constructors : d.scalars # Size[M]}})
                : M \in Matrices}
          \cup {SetClaim({Entity(M, m) : m \in Nullary("DenseCoeffsBase", {"x", "y", "z"})}, {})
                : M \in {"Vec3", "CVec3"}}
          \cup {SetClaim({}, DeadTrace(M) \cup {Plain(t) : t \in Eigen(Machinery)}) : M \in Matrices})
=============================================================================
