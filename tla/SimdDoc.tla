------------------------------ MODULE SimdDoc ------------------------------
(***************************************************************************)
(* simdjsontest.h, the fixture of the simdjson run: a Doc owns a parser    *)
(* and what it parsed, and Python navigates with handles that point into   *)
(* the parser's tape. simdjson is external: a tape is a tree of nodes, an  *)
(* object's fields in document order, and a query is answered by a node or *)
(* by an error code, which unwrap throws.                                  *)
(***************************************************************************)
EXTENDS Integers, SequencesExt, FiniteSets

CONSTANTS
  Docs,       \* the Doc objects Python makes, each once
  Sources,    \* what the parser makes of a text: a tree, or Malformed
  MaxHandles  \* bound: handles that Python holds at once

Field(key, node) == [key |-> key, node |-> node]
Scalar_(type)    == [type |-> type, fields |-> <<>>]
Object(fields)   == [type |-> "object", fields |-> fields]
Array_(nodes)    == [type |-> "array", fields |-> [i \in DOMAIN nodes |-> Field("", nodes[i])]]

Malformed == Scalar_("malformed")
NoTape    == Scalar_("none")

VARIABLES
  doc,      \* of each Doc: "unmade", "ok" or "error", or "dropped" when Python let go of it
  tape,     \* of each Doc's parser: the tree on its tape
  handles,  \* element, array and object handles: the kind, the parser, the place on its tape,
            \* and history: the node that was there when Python got it
  code      \* how the last call ended: the error_code a QueryError carries, or SUCCESS

simdVars == <<doc, tape, handles, code>>

Points(kind, parser, at, node) == [kind |-> kind, parser |-> parser, at |-> at, node |-> node]

SimdInit ==
  /\ doc = [d \in Docs |-> "unmade"] /\ tape = [d \in Docs |-> NoTape] /\ handles = {} /\ code = "SUCCESS"

\* The nodes on the way from the root to a place of the tape, the root first.
Way(root, at) ==
  LET node[n \in 0 .. Len(at)] == IF n = 0 THEN root ELSE node[n - 1].fields[at[n]].node
  IN  node

NodeAt(root, at) == Way(root, at)[Len(at)]
Read(h) == NodeAt(tape[h.parser], h.at)

-----------------------------------------------------------------------------
\* Fault: one parser serves all Docs, and each parse writes over its tape.
OnSharedTape(d, tree) == [p \in Docs |-> tree]

\* parse writes the tape of the parser that this Doc made.
OnItsTape(d, tree) == [tape EXCEPT ![d] = tree]

MakeDoc(d, tree) ==
  /\ doc[d] = "unmade"
  /\ doc' = [doc EXCEPT ![d] = IF tree = Malformed THEN "error" ELSE "ok"]
  /\ tape' = IF tree = Malformed THEN tape ELSE OnItsTape(d, tree)
  /\ UNCHANGED <<handles, code>>

Throw(error) == code' = error /\ UNCHANGED <<doc, tape, handles>>

Give(gives) ==
  /\ Cardinality(handles \cup gives) <= MaxHandles
  /\ handles' = handles \cup gives /\ code' = "SUCCESS"
  /\ UNCHANGED <<doc, tape>>

Root(d) ==
  \/ doc[d] = "error" /\ Throw("TAPE_ERROR")
  \/ doc[d] = "ok" /\ Give({Points("element", d, <<>>, tape[d])})

-----------------------------------------------------------------------------
(* A query on a handle, which Python makes while it keeps the Doc: what is *)
(* on the tape at its place decides.                                       *)
Usable(h, kinds) == doc[h.parser] = "ok" /\ h.kind \in kinds

Child(h, i) == Points("element", h.parser, Append(h.at, i), Read(h).fields[i].node)

\* unwrap of a query that only nodes of one type answer.
OfType(h, type, Answer) == IF Read(h).type = type THEN Answer ELSE Throw("INCORRECT_TYPE")

\* at_key and object_at: the first field of the key.
AtKey(h, key) ==
  LET i == SelectInSeq(Read(h).fields, LAMBDA f : f.key = key) IN
  /\ Usable(h, {"element", "object"})
  /\ OfType(h, "object", IF i = 0 THEN Throw("NO_SUCH_FIELD") ELSE Give({Child(h, i)}))

\* at_index and array_at, from 0.
AtIndex(h, n) ==
  /\ Usable(h, {"element", "array"})
  /\ OfType(h, "array", IF n >= Len(Read(h).fields) THEN Throw("INDEX_OUT_OF_BOUNDS")
                        ELSE Give({Child(h, n + 1)}))

\* as_array and as_object: the same place, by its kind.
As(h, kind) ==
  /\ Usable(h, {"element"})
  /\ OfType(h, kind, Give({Points(kind, h.parser, h.at, Read(h))}))

\* The scalar coercions: an integer has the range of the tape's type it is stored as.
Coerced ==
  [as_int64 |-> {"int64", "negative"}, as_uint64 |-> {"int64", "uint64"},
   as_double |-> {"int64", "negative", "uint64", "double"}, as_bool |-> {"bool"}, as_string |-> {"string"}]

ScalarAs(h, call) ==
  /\ Usable(h, {"element"})
  /\ IF Read(h).type \in Coerced[call] THEN Give({})
     ELSE Throw(IF call \in {"as_int64", "as_uint64"} /\ Read(h).type \in Coerced.as_double \ {"double"}
                THEN "NUMBER_OUT_OF_RANGE" ELSE "INCORRECT_TYPE")

\* array_values: a handle for each child.
ArrayValues(h) == Usable(h, {"array"}) /\ Give({Child(h, i) : i \in DOMAIN Read(h).fields})

\* object_keys copies the keys.
ObjectKeys(h) == Usable(h, {"object"}) /\ Give({})

\* Python lets go of a Doc: no handle keeps it. The parser dies, and its tape with it.
DropDoc(d) ==
  /\ doc[d] \in {"ok", "error"}
  /\ doc' = [doc EXCEPT ![d] = "dropped"] /\ tape' = [tape EXCEPT ![d] = NoTape]
  /\ UNCHANGED <<handles, code>>

DropHandle(h) == handles' = handles \ {h} /\ UNCHANGED <<doc, tape, code>>

SimdKeys == {"a", "b"}

SimdNext ==
  \/ \E d \in Docs : Root(d) \/ DropDoc(d) \/ \E tree \in Sources : MakeDoc(d, tree)
  \/ \E h \in handles :
       \/ \E key \in SimdKeys : AtKey(h, key)
       \/ \E n \in 0 .. 2 : AtIndex(h, n)
       \/ \E kind \in {"array", "object"} : As(h, kind)
       \/ \E call \in DOMAIN Coerced : ScalarAs(h, call)
       \/ ArrayValues(h) \/ ObjectKeys(h) \/ DropHandle(h)

SimdSpec == SimdInit /\ [][SimdNext]_simdVars

-----------------------------------------------------------------------------
(* A handle reads what it was given for as long as Python keeps the Doc it *)
(* came from, whatever other Docs are made, fail to parse or are dropped   *)
(* meanwhile: the Doc is the lifetime anchor of its handles and of no      *)
(* others. No handle ever points at a Doc that did not parse, and a typed  *)
(* handle points at a node of its type. (Doc simdjsontest.h:65-86,         *)
(* "exactly what Python cannot own" :63-64.)                               *)
HandlesReadTheirDoc ==
  \A h \in handles :
    /\ doc[h.parser] \in {"ok", "dropped"}
    /\ doc[h.parser] = "ok" => Read(h) = h.node
    /\ h.kind # "element" => h.node.type = h.kind
=============================================================================
