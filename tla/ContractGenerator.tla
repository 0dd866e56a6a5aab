-------------------------- MODULE ContractGenerator -------------------------
(***************************************************************************)
(* The generator of the contract package (codegen.py) over a contract that *)
(* people edit: which documents it refuses, what of a schema it carries    *)
(* into the models, and what it leaves on disk.                            *)
(*                                                                         *)
(* The document has a schema of an object with one field, one of a         *)
(* primitive and one of an enumeration; a node of it is its type, what it  *)
(* refers to, and the other keywords it has.  Four keywords stand for the  *)
(* ten that bound a value.  Names, wording and layout are left out, and    *)
(* the field is required.                                                  *)
(***************************************************************************)
EXTENDS Naturals, Sequences

CONSTANTS Fields,      \* the nodes the field may be, each with its items
          Operations,  \* the operations the document may declare
          MaxEdits,    \* bound: edits of the document
          Nothing      \* no file yet

VARIABLES schemas,    \* site -> node, of the contract
          operation,  \* the operation of the contract
          files,      \* file -> the document it was generated from
          outcome,    \* of the last run
          edits

vars == <<schemas, operation, files, outcome, edits>>

document == [schemas |-> schemas, operation |-> operation]

Bounds == {"minimum", "minLength", "minItems", "pattern"}
Supported == Bounds \union {"enum", "format", "additionalProperties"}
Keywords == Supported \union {"unread"}

Node(type, ref, has) == [type |-> type, ref |-> ref, has |-> has]
Plain(type) == Node(type, "none", {})
RefersTo(name) == Node("none", name, {})

\* A node that refers has no type of its own, and refers to a schema by its name.
Nodes ==
  {node \in [type : {"none", "object", "array", "string", "integer", "number", "boolean"},
             ref : {"none", "primitive", "enumeration"}, has : SUBSET Keywords] :
     node.ref # "none" => node.type = "none"}

Sites == {"object", "field", "items", "primitive", "enumeration"}

Init ==
  /\ \E field \in Fields, type \in {"string", "integer"} :
       schemas = [object |-> Node("object", "none", {"additionalProperties"}),
                  field |-> field.node, items |-> field.items,
                  primitive |-> Plain(type),
                  enumeration |-> Node("string", "none", {"enum"})]
  /\ operation \in Operations
  /\ files = [file \in {"models", "client"} |-> Nothing]
  /\ outcome = "none"
  /\ edits = 0

-----------------------------------------------------------------------------
\* The contract is edited: a keyword comes or goes, or the operation changes.
EditKeyword ==
  /\ edits < MaxEdits
  /\ edits' = edits + 1
  /\ \E site \in Sites, keyword \in Keywords :
       schemas' = [schemas EXCEPT ![site].has =
                     IF keyword \in @ THEN @ \ {keyword} ELSE @ \union {keyword}]
  /\ UNCHANGED <<operation, files, outcome>>

EditOperation ==
  /\ edits < MaxEdits
  /\ edits' = edits + 1
  /\ \E other \in Operations \ {operation} : operation' = other
  /\ UNCHANGED <<schemas, files, outcome>>

-----------------------------------------------------------------------------
IsObject(node) == node.type = "object"
IsEnum(node) == "enum" \in node.has /\ ~IsObject(node)
IsClass(node) == IsEnum(node) \/ IsObject(node)

\* _check_supported and _constraints: the bounds, whatever the type.
IsRead(node) == node.has \subseteq Supported
Refused == [type |-> "refused", format |-> FALSE, bounds |-> {}]
Annotated(node, type, format) ==
  IF IsRead(node)
  THEN [type |-> type, format |-> format, bounds |-> node.has \intersect Bounds]
  ELSE Refused

\* _annotation, of a node without a reference whose items are annotated so.
Direct(node, items) ==
  IF "enum" \in node.has THEN Annotated(node, "Literal", FALSE)
  ELSE IF node.type = "array"
       THEN IF items.type = "refused" \/ items.bounds # {} THEN Refused
            ELSE Annotated(node, items.type, items.format)
  ELSE IF node.type = "string" THEN Annotated(node, "str", "format" \in node.has)
  ELSE IF node.type = "integer" THEN Annotated(node, "int", FALSE)
  ELSE Refused

\* A reference to a class is its name; to a primitive, what the primitive is.
\* Whatever stands beside the reference is not looked at.
Annotation(of, node, items) ==
  IF node.ref = "none" THEN Direct(node, items)
  ELSE IF IsClass(of[node.ref])
       THEN [type |-> node.ref, format |-> FALSE, bounds |-> {}]
       ELSE Direct(of[node.ref], Refused)

FieldOf(of) == Annotation(of, of.field, Annotation(of, of.items, Refused))

\* _schema_block of each schema: a class, or nothing for a primitive.
BlockRefused(of, node) ==
  IF IsEnum(node) THEN ~IsRead(node) \/ node.type # "string"
  ELSE IF IsObject(node)
       THEN \/ ~IsRead(node)
            \/ "additionalProperties" \notin node.has
            \/ FieldOf(of).type = "refused"
       ELSE ~IsRead(node)

ModelsRefused == \E name \in {"object", "primitive", "enumeration"} : BlockRefused(schemas, schemas[name])

\* _operation: an operationId, parameters in path and header, a body that is required,
\* one success, and an answer that is a class, or an array of anything named.
ClientRefused ==
  \/ ~operation.named
  \/ \E n \in DOMAIN operation.parameters : operation.parameters[n] \notin {"path", "header"}
  \/ operation.body = "optional"
  \/ operation.successes # 1
  \/ operation.answer \notin {"named", "array"}
  \/ operation.answer = "named" /\ ~IsClass(schemas[operation.of])

\* ruff, over the files written: a call that gives its headers twice is no Python.
RuffRefuses == Len(SelectSeq(operation.parameters, LAMBDA location : location = "header")) > 1

\* generate: all the sources are made before the first file is written.
\* Mutant: each file is written as it is made.
GenerateFileByFile ==
  /\ files' = [models |-> IF ModelsRefused THEN files.models ELSE document,
               client |-> IF ModelsRefused \/ ClientRefused THEN files.client ELSE document]
  /\ outcome' = IF ModelsRefused \/ ClientRefused THEN "refused" ELSE "generated"
  /\ UNCHANGED <<schemas, operation, edits>>

Generate ==
  /\ IF ModelsRefused \/ ClientRefused
     THEN outcome' = "refused" /\ UNCHANGED files
     ELSE /\ outcome' = IF RuffRefuses THEN "refused by ruff" ELSE "generated"
          /\ files' = [file \in DOMAIN files |-> document]
  /\ UNCHANGED <<schemas, operation, edits>>

Next == EditKeyword \/ EditOperation \/ Generate

Spec == Init /\ [][Next]_vars

-----------------------------------------------------------------------------
\* What a value of the field has to satisfy: what its type reads of its own keywords,
\* of those of what it refers to, and of its items'; an enumeration's values are those
\* it lists.  Of a keyword outside the subset nobody knows.
ReadBy(type) ==
  IF type = "string" THEN {"minLength", "pattern", "format"}
  ELSE IF type = "integer" THEN {"minimum"}
  ELSE IF type = "array" THEN {"minItems"}
  ELSE {}

Demands(has, type) ==
  has \intersect ({"unread"} \union (IF "enum" \in has THEN {"enum"} ELSE ReadBy(type)))

Meant(of, node) ==
  IF node.ref = "none" THEN Demands(node.has, node.type)
  ELSE Demands(node.has \union of[node.ref].has, of[node.ref].type)

FieldMeant(of) ==
  Meant(of, of.field)
    \union (IF of.field.type = "array" /\ "enum" \notin of.field.has THEN Meant(of, of.items) ELSE {})

Enforced(of, annotation) ==
  annotation.bounds
    \union (IF annotation.format THEN {"format"} ELSE {})
    \union (IF annotation.type = "Literal" \/ (annotation.type \in Sites /\ IsEnum(of[annotation.type]))
             THEN {"enum"} ELSE {})

Ignored(of) == FieldMeant(of) \ Enforced(of, FieldOf(of))

\* The files on disk are of one contract, all of them or none, whatever was edited and
\* refused in between (codegen.py, GENERATED_FILES: "all three or none"); and what that
\* contract asks of the field, the models ask, but for what stands beside a reference.
AllFilesOrNone ==
  /\ files.models = files.client
  /\ files.models # Nothing =>
       LET of == files.models.schemas
       IN  (\A site \in {"field", "items"} : of[site].ref # "none" => of[site].has = {}) => Ignored(of) = {}

\* A construct added to the contract fails the build rather than being quietly ignored
\* (docs/adr/0004-contract-first-surrounding-systems.md:64-65): the models of a build
\* that passed, ruff included, ask all that their contract asks.
NothingIsIgnored == outcome = "generated" => Ignored(files.models.schemas) = {}
=============================================================================
