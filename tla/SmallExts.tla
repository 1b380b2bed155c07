------------------------------ MODULE SmallExts ------------------------------
(***************************************************************************)
(* The other emitted modules of the corpus: corpus/runs/{tinyobjloader,    *)
(* _fixture_virtual, _fixture_pod, _fixture_recursive, linalg, glm}        *)
(* /binding/build-emit/binding.gen.cpp.                                    *)
(***************************************************************************)
EXTENDS Overloads

Plain(name, namespace) == Class(name, namespace \o "_" \o name, <<>>)

(* A plain aggregate: default and copy constructor, and its attributes.    *)
AggregateDefs(T) == Ctors(T, << <<>>, <<T>> >>)

-----------------------------------------------------------------------------
(* tinyobjloader: the parse result and the structs it is made of. *)

MeshDefs ==
    AggregateDefs("mesh_t") \o Attrs("mesh_t", "index_list", <<"indices">>)
    \o Attrs("mesh_t", "int_list",
             <<"num_face_vertices", "material_ids", "smoothing_group_ids">>)
    \o Attrs("mesh_t", "tag_list", <<"tags">>)

ShapeDefs ==
    AggregateDefs("shape_t") \o Attrs("shape_t", "str", <<"name">>)
    \o Attrs("shape_t", "mesh_t", <<"mesh">>) \o Attrs("shape_t", "path_t", <<"path">>)

(* Every texture has its name and its options.                             *)
MaterialDefs ==
    LET M == "material_t"
        textures == << "ambient", "diffuse", "specular", "specular_highlight", "bump",
                       "displacement", "alpha", "reflection", "roughness", "metallic",
                       "sheen", "emissive", "normal" >>
    IN  AggregateDefs(M)
        \o Attrs(M, "str", <<"name">> \o [i \in DOMAIN textures |-> textures[i] \o "_texname"])
        \o Attrs(M, "texture_option_t", [i \in DOMAIN textures |-> textures[i] \o "_texopt"])
        \o Attrs(M, "float", << "shininess", "ior", "dissolve", "roughness", "metallic",
                                "sheen", "clearcoat_thickness", "clearcoat_roughness",
                                "anisotropy", "anisotropy_rotation", "pad0" >>)
        \o Attrs(M, "int", <<"illum", "dummy", "pad2">>)
        \o Attrs(M, "str_map", <<"unknown_parameter">>)

LoadResultDefs ==
    LET R == "LoadResult"
    IN  AggregateDefs(R) \o Attrs(R, "bool", <<"success">>) \o Attrs(R, "str", <<"warn", "err">>)
        \o Attrs(R, "attrib_t", <<"attrib">>) \o Attrs(R, "shape_list", <<"shapes">>)
        \o Attrs(R, "material_list", <<"materials">>)

TinyobjCalls == << "index_t", "mesh_t", "shape_t", "attrib_t", "material_t", "LoadResult" >>

tinyobjloader_ext ==
    [ classes |-> [c \in ToSet(TinyobjCalls) |->
                      Plain(c, IF c = "LoadResult" THEN "objtest" ELSE "tinyobj")],
      vectors |-> [ index_list |-> "index_t", shape_list |-> "shape_t",
                    material_list |-> "material_t", tag_list |-> "tag_t" ],
      calls   |-> TinyobjCalls,
      defs    |-> [ index_t |-> AggregateDefs("index_t")
                        \o Attrs("index_t", "int",
                                 <<"vertex_index", "normal_index", "texcoord_index">>),
                    mesh_t |-> MeshDefs, shape_t |-> ShapeDefs,
                    attrib_t |-> AggregateDefs("attrib_t")
                        \o Attrs("attrib_t", "float_list",
                                 <<"vertices", "normals", "texcoords", "colors">>),
                    material_t |-> MaterialDefs, LoadResult |-> LoadResultDefs,
                    module |-> << Def("parse_obj", <<"str", "bool">>, "LoadResult") >> ] ]

-----------------------------------------------------------------------------
(* _fixture_virtual: Circle's bind function calls Shape's first. *)

shapes_ext ==
    LET Virtuals(T) == Getters(T, << <<"area", "float">>, <<"name", "str">> >>)
    IN  [ classes |-> [ Shape  |-> Class("Shape", "shapes_Shape", <<>>),
                        Circle |-> Class("Circle", "shapes_Circle", <<"Shape">>) ],
          vectors |-> <<>>,
          calls   |-> << "Shape", "Circle" >>,
          defs    |-> [ Shape  |-> Ctors("Shape", << <<>> >>) \o Virtuals("Shape"),
                        Circle |-> Ctors("Circle", << <<>>, <<"float">> >>)
                                   \o Attrs("Circle", "float", <<"r">>) \o Virtuals("Circle"),
                        module |-> << Def("call_area", <<"Shape">>, "float"),
                                      Def("call_name", <<"Shape">>, "str") >> ] ]

-----------------------------------------------------------------------------
(* The POD and the self-referential fixture. *)

pod_fixture_ext ==
    LET P == "Point"
    IN  [ classes |-> [ Point |-> Plain(P, "podfix"), Axis |-> Plain("Axis", "podfix") ],
          vectors |-> <<>>,
          calls   |-> << P, "Axis" >>,
          defs    |-> [ Point |-> Ctors(P, << <<>>, <<"float", "float">>, <<P>> >>)
                            \o Attrs(P, "float", <<"x", "y">>)
                            \o << Def("norm2", <<P>>, "float"),
                                  Def("scale", <<P, "float">>, "void"),
                                  Def("origin", <<>>, P) >>,
                        Axis |-> <<>>,
                        module |-> << Def("add", <<P, P>>, P), Def("dot", <<P, P>>, "float") >> ] ]

tree_ext ==
    LET N == "Node"
    IN  [ classes |-> [ Node |-> Plain(N, "tree") ],
          vectors |-> [ node_list |-> N ],
          calls   |-> << N >>,
          defs    |-> [ Node |-> Ctors(N, << <<>>, <<"int">>, <<N>> >>)
                            \o Attrs(N, "int", <<"value">>) \o Attrs(N, "node_list", <<"children">>)
                            \o << Def("add", <<N, N>>, "void"), Def("count", <<N>>, "int"),
                                  Def("total", <<N>>, "int") >>,
                        module |-> <<>> ] ]

-----------------------------------------------------------------------------
(* linalg and glm: vectors, whose instances are called for more than once. *)

Indexing(T) ==
    << Def("__getitem__", <<T, "int">>, "float"), Def("__getitem__", <<T, "int">>, "float") >>

linalg_ext ==
    LET V3 == "vecFloat3"
        V2 == "vecFloat2"
    IN  [ classes |-> [ vecFloat3 |-> Plain(V3, "linalg"), vecFloat2 |-> Plain(V2, "linalg") ],
          vectors |-> <<>>,
          calls   |-> << V3, V2, V3 >>,
          defs    |-> [ vecFloat3 |-> Ctors(V3, << <<>>, <<"float", "float", "float">>,
                                                   <<V2, "float">>, <<"float">>,
                                                   <<"float_ptr">>, <<V3>> >>)
                            \o Attrs(V3, "float", <<"x", "y", "z">>) \o Indexing(V3)
                            \o << Def("xy", <<V3>>, V2), Def("xy", <<V3>>, V2) >>,
                        vecFloat2 |-> Ctors(V2, << <<>>, <<"float", "float">>, <<"float">>,
                                                   <<"float_ptr">>, <<V2>> >>)
                            \o Attrs(V2, "float", <<"x", "y">>) \o Indexing(V2),
                        module |-> <<>> ] ]

glm_ext ==
    LET V3 == "vec3Float"
        V4 == "vec4Float"
        Vec(T, n) == Ctors(T, << <<>>, <<"float">>, [i \in 1 .. n |-> "float"], <<T>> >>)
                     \o << Def("length", <<>>, "int") >> \o Indexing(T)
    IN  [ classes |-> [ vec3Float |-> Plain(V3, "glm"), vec4Float |-> Plain(V4, "glm") ],
          vectors |-> <<>>,
          calls   |-> << V3, V4, V3, V4 >>,
          defs    |-> [ vec3Float |-> Vec(V3, 3), vec4Float |-> Vec(V4, 4), module |-> <<>> ] ]
=============================================================================
