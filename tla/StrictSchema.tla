------------------------------ MODULE StrictSchema ------------------------------
(***************************************************************************)
(* The schema that Codex is given in place of a result contract             *)
(* (agent_runtime/codex.py): its transport wants every property required    *)
(* and knows few keywords.  Optional properties are made nullable on the    *)
(* way out, and the nulls that stand for them are taken away on the way in. *)
(***************************************************************************)
EXTENDS StructuredResult

Unsupported ==
    {"$schema", "title", "default", "minLength", "maxLength", "pattern", "minimum", "maximum",
     "minItems", "maxItems", "uniqueItems"}

Without(schema, keywords) == [k \in DOMAIN schema \ keywords |-> schema[k]]
With(schema, keyword, value) ==
    [k \in DOMAIN schema \cup {keyword} |-> IF k = keyword THEN value ELSE schema[k]]
Null == <<"null">>
NullType == [type |-> {"null"}]

(***************************************************************************)
(* Normalisation                                                           *)
(***************************************************************************)
Compositions == {"allOf", "anyOf", "not", "oneOf"}
ObjectKeywords == {"properties", "required", "additionalProperties"}
IsObject(schema) == "object" \in Get(schema, "type", {})

\* _make_nullable, which is given a schema that is normalised already.
OrNull(schema) == [anyOf |-> <<schema, NullType>>]
MakeNullable(schema) ==
    LET widened == IF Has(schema, "enum") THEN With(schema, "enum", schema["enum"] \cup {Null}) ELSE schema
    IN  CASE Has(schema, "const") -> OrNull(schema)
          [] ~Has(schema, "const") /\ Has(schema, "type") -> With(widened, "type", schema["type"] \cup {"null"})
          [] ~Has(schema, "const") /\ ~Has(schema, "type") /\ Has(schema, "enum") -> widened
          [] ~Has(schema, "const") /\ ~Has(schema, "type") /\ ~Has(schema, "enum") -> OrNull(schema)

\* What cannot be expressed: the schema goes into the prompt instead.
RECURSIVE Expressible(_)
Expressible(schema) ==
    /\ DOMAIN schema \cap Compositions = {}
    /\ IF IsObject(schema)
       THEN Has(schema, "properties") /\ Get(schema, "additionalProperties", <<"allowed">>) = <<"forbidden">>
       ELSE DOMAIN schema \cap ObjectKeywords = {}
    /\ \A child \in Children(schema) : Expressible(child)

\* _normalize_for_openai_strict's walk
RECURSIVE Normal(_)
Normal(schema) ==
    LET kept == Without(schema, Unsupported)
        Walked(k) == [name \in DOMAIN schema[k] |-> Normal(schema[k][name])]
        required == Get(schema, "required", {})
        Closed(properties) ==
            [name \in DOMAIN properties |->
                IF name \in required THEN properties[name] ELSE MakeNullable(properties[name])]
        Translated(k) ==
            CASE k = "$defs"      -> Walked(k)
              [] k = "items"      -> Normal(schema[k])
              [] k = "properties" -> Closed(Walked(k))
              [] k = "required"   -> DOMAIN schema["properties"]
              [] OTHER            -> schema[k]
        keywords == DOMAIN kept \cup (IF IsObject(schema) THEN {"required"} ELSE {})
    IN  [k \in keywords |-> Translated(k)]

\* None when the contract has to be prompted for.
Normalize(schema) ==
    IF Expressible(schema) /\ Get(schema, "type", {}) = {"object"} THEN Normal(schema) ELSE None

(***************************************************************************)
(* The way back                                                            *)
(***************************************************************************)
Resolve(schema, root) ==
    IF Has(schema, "$ref") /\ schema["$ref"] \in DOMAIN Get(root, "$defs", <<>>)
    THEN root["$defs"][schema["$ref"]] ELSE schema

AcceptsNull(schema, root) ==
    LET node == Resolve(schema, root)
    IN  \/ "null" \in Get(node, "type", {})
        \/ Has(node, "const") /\ node["const"] = Null
        \/ IF Has(node, "enum") THEN Null \in node["enum"]
           ELSE ~Has(node, "type") /\ ~Has(node, "const")

\* _strip_optional_nulls
RECURSIVE Strip(_, _, _)
Strip(value, schema, root) ==
    LET node == Resolve(schema, root)
        properties == Get(node, "properties", <<>>)
        Placeholder(name) ==
            /\ value[2][name] = Null /\ name \in DOMAIN properties
            /\ name \notin Get(node, "required", {})
            /\ ~AcceptsNull(properties[name], root)
    IN  CASE Tag(value) = "obj" ->
              <<"obj", [name \in {n \in DOMAIN value[2] : ~Placeholder(n)} |->
                          IF name \in DOMAIN properties THEN Strip(value[2][name], properties[name], root)
                          ELSE value[2][name]]>>
          [] Tag(value) = "arr" /\ Has(node, "items") ->
              <<"arr", [i \in DOMAIN value[2] |-> Strip(value[2][i], node["items"], root)]>>
          [] OTHER -> value

(***************************************************************************)
(* What the transport leaves to the local validation                       *)
(***************************************************************************)
RECURSIVE Relaxed(_)
Relaxed(schema) ==
    LET Over(k) == [name \in DOMAIN schema[k] |-> Relaxed(schema[k][name])]
    IN  [k \in DOMAIN schema \ Unsupported |->
            CASE k \in {"properties", "$defs"} -> Over(k)
              [] k = "items" -> Relaxed(schema[k])
              [] OTHER -> schema[k]]

RECURSIVE Padded(_, _, _)
Padded(value, schema, root) ==
    LET node == Resolve(schema, root)
        properties == Get(node, "properties", <<>>)
    IN  CASE Tag(value) = "obj" ->
              <<"obj", [name \in DOMAIN value[2] \cup DOMAIN properties |->
                          IF name \notin DOMAIN value[2] THEN Null
                          ELSE IF name \in DOMAIN properties
                               THEN Padded(value[2][name], properties[name], root)
                          ELSE value[2][name]]>>
          [] Tag(value) = "arr" /\ Has(node, "items") ->
              <<"arr", [i \in DOMAIN value[2] |-> Padded(value[2][i], node["items"], root)]>>
          [] OTHER -> value
=================================================================================
