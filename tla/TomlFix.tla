------------------------------ MODULE TomlFix ------------------------------
(***************************************************************************)
(* tomlfix.h, the fixture of the tomlplusplus run: the document tree has   *)
(* no binding, so each call parses the text again and walks to one node.   *)
(* toml++ is external: what parse gives is a tree of nodes, given as the   *)
(* function from the keys that lead to a node to its type, the types of    *)
(* value it is retrieved as, and the same of an array's elements. A key,   *)
(* and a dotted path of keys, is a sequence of characters; a quoted key    *)
(* may be empty or hold a dot itself.                                      *)
(***************************************************************************)
EXTENDS Integers, Sequences, FiniteSets

CONSTANTS
  Documents,  \* what parse makes of a text: the nodes of the root table, or Broken
  Paths       \* the dotted paths Python asks for

Dot == "."

(* node::value<T>(), the permissive retrieval: a value of the node's own   *)
(* type, and a number or boolean as another where nothing is lost. Exact   *)
(* are an integer that a double can hold and a double that is an integer.  *)
RetrievedAs(node_type, exact) ==
  {node_type} \cup CASE node_type = "integer" -> IF exact THEN {"boolean", "floating_point"} ELSE {"boolean"}
                     [] node_type = "floating_point" /\ exact -> {"integer"}
                     [] node_type = "boolean" -> {"integer"}
                     [] OTHER -> {}

Element(node_type, exact) == [type |-> node_type, as |-> RetrievedAs(node_type, exact)]
Node_(element, items)     == [type |-> element.type, as |-> element.as, items |-> items]

Leaf(node_type) == Node_(Element(node_type, TRUE), <<>>)
Table           == Leaf("table")
Array(elements) == Node_(Element("array", TRUE), elements)

nullptr == Leaf("nullptr")
Broken  == [keys \in {} |-> nullptr]

\* What leads to a node are the keys of the tables on the way to it.
ASSUME DocumentsAreTrees ==
  /\ Paths \subseteq Seq(STRING)
  /\ \A doc \in Documents \ {Broken} :
       /\ <<>> \in DOMAIN doc /\ doc[<<>>].type = "table"
       /\ \A keys \in DOMAIN doc :
            /\ keys \in Seq(Seq(STRING)) /\ doc[keys].items \in Seq([type : STRING, as : SUBSET STRING])
            /\ \A i \in 0 .. Len(keys) - 1 :
                 SubSeq(keys, 1, i) \in DOMAIN doc /\ doc[SubSeq(keys, 1, i)].type = "table"

\* The type each accessor asks value<T>() for.
Retrieved ==
  [get_int |-> "integer", get_float |-> "floating_point", get_bool |-> "boolean",
   get_string |-> "string", get_date |-> "date", get_time |-> "time", get_datetime |-> "date_time"]

-----------------------------------------------------------------------------
\* The next dot of a path, 0 if there is none.
FindDot(dotted, start) ==
  LET dots == {i \in start .. Len(dotted) : dotted[i] = Dot}
  IN  IF dots = {} THEN 0 ELSE CHOOSE i \in dots : \A j \in dots : i <= j

\* as_table, and get: a node that is no table has no member.
HasMember(doc, cur, key) == doc[cur].type = "table" /\ Append(cur, key) \in DOMAIN doc

\* Where the loop is: it goes on, has found a node or gives a null.
At(cur, start, state) == [cur |-> cur, start |-> start, state |-> state]

Looked(doc, dotted, at) ==
  LET dot  == FindDot(dotted, at.start)
      part == SubSeq(dotted, at.start, IF dot = 0 THEN Len(dotted) ELSE dot - 1)
  IN  IF HasMember(doc, at.cur, part)
      THEN At(Append(at.cur, part), dot + 1, IF dot = 0 THEN "found" ELSE "going")
      ELSE At(at.cur, at.start, "null")

\* Fault: the loop ends one position early, so that an empty last key is never looked up.
TurnUnlessAtEnd(doc, dotted, at) ==
  IF at.state # "going" THEN at
  ELSE IF at.start > Len(dotted) THEN At(at.cur, at.start, "found")
  ELSE Looked(doc, dotted, at)

(* One turn of resolve's loop, on cur and start: the key up to the next    *)
(* dot, an empty one included, is looked up in cur.                        *)
Turn(doc, dotted, at) ==
  IF at.state # "going" THEN at
  ELSE IF at.start > Len(dotted) + 1 THEN At(at.cur, at.start, "found")
  ELSE Looked(doc, dotted, at)

\* Each turn but the last passes a dot.
Turns(doc, dotted) ==
  LET after[n \in 0 .. Len(dotted) + 1] ==
        IF n = 0 THEN At(<<>>, 1, "going") ELSE Turn(doc, dotted, after[n - 1])
  IN  after

resolve(doc, dotted) ==
  LET end == Turns(doc, dotted)[Len(dotted) + 1]
  IN  IF end.state = "null" THEN nullptr ELSE doc[end.cur]

-----------------------------------------------------------------------------
(* The accessors. Each parses, and answers as if there were no node when   *)
(* the text does not parse.                                                *)
Node(doc, key) == IF doc = Broken THEN nullptr ELSE resolve(doc, key)

type_of(doc, key) == Node(doc, key).type
Value(getter, doc, key) ==
  IF Retrieved[getter] \in Node(doc, key).as THEN Node(doc, key) ELSE nullptr
top_keys(doc)   == {keys[1] : keys \in DOMAIN doc \ {<<>>}}
table_size(doc) == IF doc = Broken THEN -1 ELSE Cardinality(top_keys(doc))
array_size(doc, key) ==
  IF Node(doc, key).type = "array" THEN Len(Node(doc, key).items) ELSE -1
Elements(doc, key)    == IF Node(doc, key).type = "array" THEN Node(doc, key).items ELSE <<>>
array_types(doc, key) == [i \in DOMAIN Elements(doc, key) |-> Elements(doc, key)[i].type]
\* The elements that are retrieved, by their places.
int_array(doc, key)   == {i \in DOMAIN Elements(doc, key) : "integer" \in Elements(doc, key)[i].as}

VARIABLES document, key_path, answer  \* the text, the path of the last call, and what it said

tomlVars == <<document, key_path, answer>>

\* parse_ok and parse_error_of.
TomlInit ==
  /\ document \in Documents /\ key_path = <<>>
  /\ answer = [call |-> "parse_ok", said |-> document # Broken]

Answer(key, call, said) ==
  key_path' = key /\ answer' = [call |-> call, said |-> said] /\ UNCHANGED document

AskType(key)          == Answer(key, "type_of", type_of(document, key))
AskValue(key, getter) == Answer(key, getter, Value(getter, document, key).type)
AskArray(key) ==
  Answer(key, "array", [size  |-> array_size(document, key), types |-> array_types(document, key),
                        ints  |-> int_array(document, key)])
AskTable == Answer(<<>>, "table", [size |-> table_size(document), keys |-> top_keys(document)])

TomlNext ==
  \/ \E key \in Paths : AskType(key) \/ AskArray(key)
  \/ \E key \in Paths, getter \in DOMAIN Retrieved : AskValue(key, getter)
  \/ AskTable

TomlSpec == TomlInit /\ [][TomlNext]_tomlVars

-----------------------------------------------------------------------------
(* Reference: keys without a dot, joined by dots. The cuts of the dotted   *)
(* path are the places of its dots, with one before and one behind it all. *)
Joined(keys, dotted) ==
  \E cut \in [0 .. Len(keys) -> 0 .. Len(dotted) + 1] :
    /\ cut[0] = 0 /\ cut[Len(keys)] = Len(dotted) + 1
    /\ \A n \in 1 .. Len(keys) : cut[n - 1] < cut[n]
    /\ \A n \in 1 .. Len(keys) :
         /\ keys[n] = SubSeq(dotted, cut[n - 1] + 1, cut[n] - 1)
         /\ \A i \in cut[n - 1] + 1 .. cut[n] - 1 : dotted[i] # Dot
         /\ n < Len(keys) => dotted[cut[n]] = Dot

Named(doc, dotted) == {keys \in DOMAIN doc : Joined(keys, dotted)}

TheNode(doc, dotted) ==
  IF Named(doc, dotted) = {} THEN nullptr ELSE doc[CHOOSE keys \in Named(doc, dotted) : TRUE]

(* A dotted path names at most one node, the one its keys lead to, empty   *)
(* keys at either end and a key of the path alone included, and what every *)
(* accessor says is about that node: no node, a text that does not parse   *)
(* and a node of another type are told from an empty array by its size     *)
(* alone, no element of an array is lost from its types, and its integers  *)
(* are those elements that value<int64_t>() converts. (resolve             *)
(* tomlfix.h:46-60, accessors :75-159.)                                    *)
PathsReachTheirNodes ==
  LET node == TheNode(document, key_path) IN
    /\ \A x, y \in Named(document, key_path) : x = y
    /\ answer.call = "type_of" => answer.said = node.type
    /\ answer.call \in DOMAIN Retrieved =>
         answer.said = IF Retrieved[answer.call] \in node.as THEN node.type ELSE "nullptr"
    /\ answer.call = "array" =>
         /\ answer.said.size = -1 <=> node.type # "array"
         /\ node.type = "array" =>
              /\ answer.said.types = [i \in DOMAIN node.items |-> node.items[i].type]
              /\ answer.said.ints = {i \in DOMAIN node.items : "integer" \in node.items[i].as}
         /\ node.type # "array" => answer.said.types = <<>> /\ answer.said.ints = {}
    /\ answer.call = "table" => answer.said.size = -1 \/ answer.said.size = Cardinality(answer.said.keys)
=============================================================================
