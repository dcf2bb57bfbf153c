---------------------------- MODULE StructuredResult ----------------------------
(***************************************************************************)
(* The result contracts of the agents (agent_runtime/structured.py): which  *)
(* values a JSON Schema accepts, and which object is taken from the text an  *)
(* agent answers with.                                                      *)
(*                                                                         *)
(* A value is <<"null">>, <<"bool", b>>, <<"num", n>> where n counts        *)
(* halves, <<"str", s>> where s is a sequence of characters, <<"arr", s>>   *)
(* or <<"obj", r>> where r is a function from the names of the properties.  *)
(* A schema is a function from the keywords it has.  type is a set of type  *)
(* names, required a set of names, allOf, anyOf and oneOf sequences of      *)
(* schemas, pattern the set of strings it matches, $ref the name of an      *)
(* entry of the root's $defs, and additionalProperties <<"allowed">>,        *)
(* <<"forbidden">> or <<"schema", s>>.  A keyword whose value has the wrong shape    *)
(* has the value Malformed.                                                 *)
(***************************************************************************)
EXTENDS Integers, Sequences, FiniteSets, SequencesExt

CONSTANTS Malformed, None

Supported ==
    {"$schema", "$defs", "$ref", "additionalProperties", "allOf", "anyOf", "const", "default",
     "description", "enum", "items", "maxItems", "maxLength", "maximum", "minItems", "minLength",
     "minimum", "not", "oneOf", "pattern", "properties", "required", "title", "type", "uniqueItems"}

Tag(value) == value[1]
Has(schema, keyword) == keyword \in DOMAIN schema
Get(schema, keyword, otherwise) == IF Has(schema, keyword) THEN schema[keyword] ELSE otherwise

(***************************************************************************)
(* The schema itself                                                       *)
(***************************************************************************)
\* Every schema below this one.
Children(schema) ==
    LET Named(k) == IF Has(schema, k) THEN {schema[k][name] : name \in DOMAIN schema[k]} ELSE {}
        Listed(k) == IF Has(schema, k) THEN {schema[k][i] : i \in DOMAIN schema[k]} ELSE {}
        One(k) == IF Has(schema, k) THEN {schema[k]} ELSE {}
        additional == Get(schema, "additionalProperties", <<"allowed">>)
    IN  Named("properties") \cup Named("$defs") \cup Listed("allOf") \cup Listed("anyOf")
        \cup Listed("oneOf") \cup One("items") \cup One("not")
        \cup (IF Tag(additional) = "schema" THEN {additional[2]} ELSE {})

\* _validate_schema_shape
RECURSIVE SchemaShape(_)
SchemaShape(schema) ==
    /\ DOMAIN schema \subseteq Supported
    /\ \A keyword \in DOMAIN schema : schema[keyword] # Malformed
    /\ \A child \in Children(schema) : SchemaShape(child)

(***************************************************************************)
(* Values                                                                  *)
(***************************************************************************)
\* What Python's equality makes of nested values: True and 1 are the same.
RECURSIVE PythonEqual(_, _)
PythonEqual(left, right) ==
    LET Number(v) == IF Tag(v) = "bool" THEN (IF v[2] THEN 2 ELSE 0) ELSE v[2]
        numeric == {"bool", "num"}
    IN  CASE Tag(left) \in numeric /\ Tag(right) \in numeric -> Number(left) = Number(right)
          [] Tag(left) = "arr" /\ Tag(right) = "arr" ->
                /\ Len(left[2]) = Len(right[2])
                /\ \A i \in DOMAIN left[2] : PythonEqual(left[2][i], right[2][i])
          [] Tag(left) = "obj" /\ Tag(right) = "obj" ->
                /\ DOMAIN left[2] = DOMAIN right[2]
                /\ \A n \in DOMAIN left[2] : PythonEqual(left[2][n], right[2][n])
          [] OTHER -> Tag(left) = Tag(right) /\ left = right

\* _json_equal: a Boolean is compared strictly, as far as it is not nested.
JsonEqual(left, right) ==
    IF "bool" \in {Tag(left), Tag(right)} THEN Tag(left) = Tag(right) /\ left = right
    ELSE PythonEqual(left, right)

IsJsonType(value, type) ==
    CASE type = "array"   -> Tag(value) = "arr"
      [] type = "boolean" -> Tag(value) = "bool"
      [] type = "integer" -> Tag(value) = "num" /\ value[2] % 2 = 0
      [] type = "null"    -> Tag(value) = "null"
      [] type = "number"  -> Tag(value) = "num"
      [] type = "object"  -> Tag(value) = "obj"
      [] type = "string"  -> Tag(value) = "str"
      [] OTHER -> FALSE

Unique(items) ==
    \A i, j \in DOMAIN items : i < j => ~JsonEqual(items[i], items[j])

InRange(size, schema, low, high) ==
    /\ size >= Get(schema, low, 0)
    /\ Has(schema, high) => size <= schema[high]

(***************************************************************************)
(* Validation                                                              *)
(***************************************************************************)
\* _validate_value, with _validate_object, _validate_array and the others in line.
\* A reference that does not resolve rejects, and replaces what stands beside it.
RECURSIVE Matches(_, _, _)
Matches(value, schema, root) ==
    LET Agreeing(keyword) ==
            {i \in DOMAIN schema[keyword] : Matches(value, schema[keyword][i], root)}
        properties == Get(schema, "properties", <<>>)
        additional == Get(schema, "additionalProperties", <<"allowed">>)
        Property(name) ==
            IF name \in DOMAIN properties THEN Matches(value[2][name], properties[name], root)
            ELSE IF Tag(additional) = "schema" THEN Matches(value[2][name], additional[2], root)
            ELSE Tag(additional) = "allowed"
    IN  IF Has(schema, "$ref")
        THEN LET defs == Get(root, "$defs", <<>>)
             IN  schema["$ref"] \in DOMAIN defs /\ Matches(value, defs[schema["$ref"]], root)
        ELSE
        /\ Has(schema, "allOf") => Agreeing("allOf") = DOMAIN schema["allOf"]
        /\ Has(schema, "anyOf") => Agreeing("anyOf") # {}
        /\ Has(schema, "oneOf") => Cardinality(Agreeing("oneOf")) = 1
        /\ Has(schema, "not") => ~Matches(value, schema["not"], root)
        /\ Has(schema, "const") => JsonEqual(value, schema["const"])
        /\ Has(schema, "enum") => \E candidate \in schema["enum"] : JsonEqual(value, candidate)
        /\ Has(schema, "type") => \E type \in schema["type"] : IsJsonType(value, type)
        /\ Tag(value) = "obj" =>
              /\ Get(schema, "required", {}) \subseteq DOMAIN value[2]
              /\ \A name \in DOMAIN value[2] : Property(name)
        /\ Tag(value) = "arr" =>
              /\ InRange(Len(value[2]), schema, "minItems", "maxItems")
              /\ Get(schema, "uniqueItems", FALSE) => Unique(value[2])
              /\ Has(schema, "items") =>
                    \A i \in DOMAIN value[2] : Matches(value[2][i], schema["items"], root)
        /\ Tag(value) = "str" =>
              /\ InRange(Len(value[2]), schema, "minLength", "maxLength")
              /\ Has(schema, "pattern") => value[2] \in schema["pattern"]
        /\ Tag(value) = "num" =>
              /\ Has(schema, "minimum") => value[2] >= schema["minimum"]
              /\ Has(schema, "maximum") => value[2] <= schema["maximum"]

\* validate_structured_result: an unsupported keyword anywhere rejects everything.
Accepts(schema, payload) == SchemaShape(schema) /\ Matches(payload, schema, schema)

(***************************************************************************)
(* Finding the result in a text                                            *)
(***************************************************************************)
\* The objects and arrays within a value, the outer ones first.  The order of the
\* properties of an object is left open, and brackets within strings are left out.
RECURSIVE Brackets(_)
Brackets(value) ==
    CASE Tag(value) = "arr" -> <<value>> \o FlattenSeq([i \in DOMAIN value[2] |-> Brackets(value[2][i])])
      [] Tag(value) = "obj" ->
            <<value>> \o FlattenSeq([i \in 1..Cardinality(DOMAIN value[2]) |->
                                       Brackets(value[2][SetToSeq(DOMAIN value[2])[i]])])
      [] OTHER -> <<>>

\* _json_candidates: a text is a list of [fenced, value] with prose around unless it
\* is one value that is not fenced.  What is inside a value counts as well.
Candidates(text, prose) ==
    IF Len(text) = 1 /\ ~prose /\ ~text[1].fenced /\ Brackets(text[1].value) # <<>>
    THEN <<text[1].value>>
    ELSE LET Structured(part) == Brackets(part.value) # <<>>
             fenced == SelectSeq(text, LAMBDA part : part.fenced /\ Structured(part))
         IN  [i \in DOMAIN fenced |-> fenced[i].value]
             \o FlattenSeq([i \in DOMAIN text |-> Brackets(text[i].value)])

ExtractJson(text, prose) ==
    IF Candidates(text, prose) = <<>> THEN None ELSE Head(Candidates(text, prose))

\* extract_structured_result
Extract(text, prose, schema) ==
    LET fitting == SelectSeq(Candidates(text, prose), LAMBDA value : Tag(value) = "obj" /\ Accepts(schema, value))
    IN  IF fitting = <<>> THEN None ELSE Head(fitting)
=================================================================================
