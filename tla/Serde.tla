------------------------------- MODULE Serde -------------------------------
(***************************************************************************)
(* serialize_poc.cpp: a serializer that reflection writes for every        *)
(* aggregate. A type is the function from the paths of its fields, the     *)
(* places of a field and of those it is nested in from the outermost, to   *)
(* what a field is; the empty path is the type itself. An object holds a   *)
(* scalar for each scalar field. A type's to_json, write, read and equal   *)
(* are the same loop over its fields with a call of itself in the place of *)
(* a nested aggregate: `at`, the places of the loops that run, is the call *)
(* stack, and one step is one turn of the innermost loop, or its end.      *)
(***************************************************************************)
EXTENDS Integers, Sequences

CONSTANTS
  Types,   \* the types of the objects
  Scalars, \* what a scalar field may hold
  Zero,    \* what it holds in an object that T obj{} makes
  Equal,   \* the pairs of scalars of which == is true: a NaN is not equal to itself, -0.0 is to 0.0
  TextOf   \* what true/false or std::to_string makes of it: two doubles may have one text

\* A scalar has a size in bytes, an aggregate a number of fields.
Scalar(name, size)      == [name |-> name, size |-> size, fields |-> 0]
Aggregate(name, fields) == [name |-> name, size |-> 0, fields |-> fields]

is_scalar(field) == field.size > 0

Punctuation == {"{", "}", ",", ":"}

ASSUME TypesAreTrees ==
  \A t \in Types :
    /\ <<>> \in DOMAIN t /\ ~is_scalar(t[<<>>])
    /\ \A p \in DOMAIN t :
         /\ p \in Seq(Nat \ {0}) /\ t[p].size \in Nat /\ t[p].fields \in Nat
         /\ is_scalar(t[p]) => t[p].fields = 0
         /\ \A i \in 1 .. t[p].fields : Append(p, i) \in DOMAIN t
         /\ \A n \in 1 .. Len(p) : LET above == SubSeq(p, 1, n - 1)
                                  IN  above \in DOMAIN t /\ p[n] <= t[above].fields

\* A name stands in quotes, and the text of a number, true or nan is no punctuation.
ASSUME TokensDiffer ==
  /\ Zero \in Scalars
  /\ \A s \in Scalars : TextOf[s] \notin Punctuation
  /\ \A t \in Types : \A p \in DOMAIN t : t[p].name \notin Punctuation

Fields(t)  == DOMAIN t \ {<<>>}
Leaves(t)  == {p \in Fields(t) : is_scalar(t[p])}
Objects(t) == [Leaves(t) -> Scalars]
Cleared(t) == [p \in Leaves(t) |-> Zero]  \* T obj{}

VARIABLES
  type, obj,    \* the type T and the object
  phase,        \* the call that main is in: "json", "write", "read", "compare", or "done"
  at,           \* the places of the loops over the fields; <<>> when the outermost call has returned
  out, first,   \* to_json: the text, a token for a name with its quotes or a number; first of each call
  buf,          \* write: the bytes
  back, cur,    \* read: the object, and the cursor
  other, same   \* equal: what the object is compared with, and eq

serdeVars == <<type, obj, phase, at, out, first, buf, back, cur, other, same>>

-----------------------------------------------------------------------------
(* template for: the next field of the innermost loop; and back in the     *)
(* loop of the caller, the one after the aggregate that was nested.        *)
After(p)    == [p EXCEPT ![Len(p)] = @ + 1]
Caller(p)   == SubSeq(p, 1, Len(p) - 1)
Returned(p) == IF Len(p) = 1 THEN <<>> ELSE After(Caller(p))

\* The recursive call for a nested aggregate begins at its first field.
Walked(t, p) ==
  IF p \notin DOMAIN t THEN Returned(p)
  ELSE IF is_scalar(t[p]) THEN After(p) ELSE Append(p, 1)

\* main makes the next call.
Calls(next) == phase' = next /\ at' = IF next = "done" THEN <<>> ELSE <<1>>

-----------------------------------------------------------------------------
\* What a call of to_json has before it puts a field's value: a comma unless it is the first.
Prefixed(text, isFirst, name) ==
  Append(Append(IF isFirst THEN text ELSE Append(text, ","), name), ":")

\* Fault: first is cleared beside the text of a scalar, and not after a nested aggregate.
JsonTurnLateFlag ==
  /\ phase = "json" /\ at \in Fields(type)
  /\ LET named == Prefixed(out, first[Len(first)], type[at].name) IN
       IF is_scalar(type[at])
       THEN /\ out' = Append(named, TextOf[obj[at]])
            /\ first' = [first EXCEPT ![Len(first)] = FALSE]
       ELSE /\ out' = Append(named, "{")
            /\ first' = Append(first, TRUE)
  /\ at' = Walked(type, at)
  /\ UNCHANGED <<type, obj, phase, buf, back, cur, other, same>>

(* to_json and json_value: a comma before each field but the first of its  *)
(* object, the name, and the value: a text or, in braces, a nested object. *)
JsonTurn ==
  /\ phase = "json" /\ at \in Fields(type)
  /\ LET named  == Prefixed(out, first[Len(first)], type[at].name)
         passed == [first EXCEPT ![Len(first)] = FALSE] IN
       IF is_scalar(type[at])
       THEN out' = Append(named, TextOf[obj[at]]) /\ first' = passed
       ELSE out' = Append(named, "{") /\ first' = Append(passed, TRUE)
  /\ at' = Walked(type, at)
  /\ UNCHANGED <<type, obj, phase, buf, back, cur, other, same>>

JsonEnd ==
  /\ phase = "json" /\ at \notin DOMAIN type
  /\ out' = Append(out, "}") /\ first' = Caller(first)
  /\ at' = Walked(type, at)
  /\ UNCHANGED <<type, obj, phase, buf, back, cur, other, same>>

-----------------------------------------------------------------------------
\* A byte of a scalar: which value it is part of, and which byte of it.
Bytes(value, size) == [i \in 1 .. size |-> <<value, i, size>>]

\* to_bytes and write: the scalars of the fields, nested aggregates in their place.
CallWrite ==
  /\ phase = "json" /\ at = <<>> /\ Calls("write") /\ buf' = <<>>
  /\ UNCHANGED <<type, obj, out, first, back, cur, other, same>>

WriteTurn ==
  /\ phase = "write" /\ at # <<>>
  /\ buf' = IF at \in Leaves(type) THEN buf \o Bytes(obj[at], type[at].size) ELSE buf
  /\ at' = Walked(type, at)
  /\ UNCHANGED <<type, obj, phase, out, first, back, cur, other, same>>

Garbage == "garbage"

\* memcpy of size bytes at the cursor: bytes beyond end are whatever lies there.
Copied(bytes, from, size) ==
  IF from + size - 1 > Len(bytes) THEN Garbage
  ELSE LET seen == SubSeq(bytes, from, from + size - 1)
       IN  IF seen = Bytes(seen[1][1], size) THEN seen[1][1] ELSE Garbage

\* from_bytes: T obj{}, and a cursor at the first byte.
CallRead ==
  /\ phase = "write" /\ at = <<>> /\ Calls("read")
  /\ back' = Cleared(type) /\ cur' = 1
  /\ UNCHANGED <<type, obj, out, first, buf, other, same>>

\* Fault: a nested read has the cursor by value, and moves its own.
ReadTurnByValue ==
  /\ phase = "read" /\ at # <<>>
  /\ IF at \in Leaves(type)
     THEN /\ back' = [back EXCEPT ![at] = Copied(buf, cur, type[at].size)]
          /\ cur' = IF Len(at) = 1 THEN cur + type[at].size ELSE cur
     ELSE UNCHANGED <<back, cur>>
  /\ at' = Walked(type, at)
  /\ UNCHANGED <<type, obj, phase, out, first, buf, other, same>>

(* read: the same walk, with one cursor for all calls that moves by the    *)
(* size of each scalar. It is never compared with the end.                 *)
ReadTurn ==
  /\ phase = "read" /\ at # <<>>
  /\ IF at \in Leaves(type)
     THEN /\ back' = [back EXCEPT ![at] = Copied(buf, cur, type[at].size)]
          /\ cur' = cur + type[at].size
     ELSE UNCHANGED <<back, cur>>
  /\ at' = Walked(type, at)
  /\ UNCHANGED <<type, obj, phase, out, first, buf, other, same>>

\* equal: main compares with the object that was read; any other may be compared.
CallEqual ==
  /\ phase = "read" /\ at = <<>> /\ Calls("compare")
  /\ other' \in {back} \cup Objects(type) /\ same' = TRUE
  /\ UNCHANGED <<type, obj, out, first, buf, back, cur>>

\* eq is not asked again once it is false: a nested equal is not called then.
CompareTurn ==
  /\ phase = "compare" /\ at # <<>>
  /\ same' = (same /\ (at \in Leaves(type) => <<obj[at], other[at]>> \in Equal))
  /\ at' = IF at \in Fields(type) /\ ~same THEN After(at) ELSE Walked(type, at)
  /\ UNCHANGED <<type, obj, phase, out, first, buf, back, cur, other>>

Finish ==
  /\ phase = "compare" /\ at = <<>> /\ Calls("done")
  /\ UNCHANGED <<type, obj, out, first, buf, back, cur, other, same>>

-----------------------------------------------------------------------------
\* main has an object and calls to_json, which opens a brace.
SerdeInit ==
  /\ type \in Types /\ obj \in Objects(type) /\ phase = "json" /\ at = <<1>>
  /\ out = <<"{">> /\ first = <<TRUE>>
  /\ buf = <<>> /\ back = Cleared(type) /\ cur = 1 /\ other = Cleared(type) /\ same = FALSE

SerdeNext ==
  \/ JsonTurn \/ JsonEnd
  \/ CallWrite \/ WriteTurn
  \/ CallRead \/ ReadTurn
  \/ CallEqual \/ CompareTurn \/ Finish

SerdeSpec == SerdeInit /\ [][SerdeNext]_serdeVars

-----------------------------------------------------------------------------
(* The bytes of an object have no reader but the walk that wrote them:     *)
(* read stops at the very end of what write wrote, though it never looks,  *)
(* hands out nothing from beyond it, and gives the object back, however    *)
(* the aggregates nest and wherever a scalar follows a nested one; equal   *)
(* compares every scalar of the two objects, also where it stops early, so *)
(* that it says no of what was read only when a scalar is not equal to     *)
(* itself. (read serialize_poc.cpp:105-117, equal :134-149.)               *)
SerdeRoundTrips ==
  /\ phase \in {"compare", "done"} => back = obj /\ cur = Len(buf) + 1
  /\ phase = "done" => same <=> \A p \in Leaves(type) : <<obj[p], other[p]>> \in Equal

(* A reader of JSON, for reference: `path` is the place of the member it   *)
(* is in, from the outermost, `members` what it read of each, and `want`   *)
(* what the next token is.                                                 *)
Reader(path, want, name, members) ==
  [path |-> path, want |-> want, name |-> name, members |-> members]

Start == Reader(<<>>, "object", "none", <<>>)

Closed(r) == IF Len(r.path) = 1 THEN Reader(<<>>, "end", "none", r.members)
             ELSE Reader(Caller(r.path), "more", "none", r.members)

With(members, path, member) ==
  [p \in DOMAIN members \cup {path} |-> IF p = path THEN member ELSE members[p]]

Accepted(r, token) ==
  CASE r.want = "object" /\ token = "{" -> Reader(<<1>>, "first", "none", r.members)
    [] r.want = "first" /\ token = "}" -> Closed(r)
    [] r.want \in {"first", "name"} /\ token \notin Punctuation -> Reader(r.path, "colon", token, r.members)
    [] r.want = "colon" /\ token = ":" -> Reader(r.path, "value", r.name, r.members)
    [] r.want = "value" /\ token = "{" ->
         Reader(Append(r.path, 1), "first", "none", With(r.members, r.path, <<r.name, "object">>))
    [] r.want = "value" /\ token \notin Punctuation ->
         Reader(r.path, "more", "none", With(r.members, r.path, <<r.name, token>>))
    [] r.want = "more" /\ token = "," -> Reader(After(r.path), "name", "none", r.members)
    [] r.want = "more" /\ token = "}" -> Closed(r)
    [] OTHER -> Reader(<<>>, "error", "none", <<>>)

Reading(text) ==
  LET after[n \in 0 .. Len(text)] ==
        IF n = 0 THEN Start ELSE Accepted(after[n - 1], text[n])
  IN  after

(* The text has the structure of one JSON object that names every field    *)
(* once, in the order of declaration, with the text of its value, and      *)
(* nests as the aggregates do: the commas are right for an empty aggregate,*)
(* a nested first member and a scalar after a nested one. What a scalar is *)
(* written as is not looked at: a double that is no number has no JSON.    *)
(* (to_json serialize_poc.cpp:65-77.)                                      *)
JsonIsTheObject ==
  phase = "json" /\ at = <<>> =>
    LET read == Reading(out)[Len(out)]
    IN  /\ read.want = "end"
        /\ read.members =
             [p \in Fields(type) |->
                <<type[p].name, IF is_scalar(type[p]) THEN TextOf[obj[p]] ELSE "object">>]
=============================================================================
