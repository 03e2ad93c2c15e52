------------------------------ MODULE CommandSchema ------------------------------
(***************************************************************************)
(* compile_command_schema: a declared schema is expanded, its references   *)
(* replaced by what they refer to, within limits; the work this counts     *)
(* bounds what a validation with it costs.                                 *)
(*                                                                         *)
(* A schema is a JSON tree of nodes, named by their JSON pointers, some of *)
(* which refer to others.  A compilation is a record: the stack of the     *)
(* calls of expand, each with the pointer it expands and those it has yet  *)
(* to, the active pointers, work and size so far, and the verdict.         *)
(***************************************************************************)
EXTENDS Naturals, FiniteSets, Sequences, SequencesExt, FiniteSetsExt

CONSTANTS
    Pointers,         \* JSON pointers of schema nodes
    Root,             \* the pointer of the whole schema
    Children,         \* each pointer's children in the JSON tree
    Schemas,          \* each schema's nodes
    NoSchema,         \* where none is declared
    MaxExpanded,      \* MAX_COMMAND_EXPANDED_SCHEMA_BYTES
    MaxSchemaWork     \* MAX_COMMAND_SCHEMA_WORK

(* A JSON document is finite, and a pointer leads to one place of it.      *)
ASSUME SchemaAssumption ==
    /\ IsFiniteSet(Pointers) /\ Root \in Pointers
    /\ Children \in [Pointers -> Seq(Pointers)]
    /\ \A p \in Pointers : IsInjective(Children[p])
    /\ NoSchema \notin Schemas
    /\ \A schema \in Schemas : \A p \in Pointers :
         /\ schema[p].kind \in {"boolean", "literal", "object", "reference"}
         /\ schema[p].pattern \in Nat
    /\ MaxExpanded \in Nat /\ MaxSchemaWork \in Nat

(* How much the members of a set weigh together, unit by unit.             *)
Units(weight, set) == UNION {{<<x, k>> : k \in 1..weight[x]} : x \in set}
Total(weight, set) == Cardinality(Units(weight, set))

-----------------------------------------------------------------------------
(* validate_schema_node_policy: references hide what stands beside them.   *)
NodeWork(node) == 1 + node.pattern

(* Mutation: the work of a node that is referred to is not counted.        *)
UncountedWork(work, node, active) == IF active = {} THEN work + NodeWork(node) ELSE work

(* add_work.                                                               *)
AddWork(work, node, active) == work + NodeWork(node)

(* What expand is called for below a node, in order.                       *)
Below(schema, pointer) ==
    CASE schema[pointer].kind = "object" -> Children[pointer]
      [] schema[pointer].kind = "reference" -> <<schema[pointer].to>>
      [] OTHER -> <<>>

(* The pointers from the root to the node that is expanded now.            *)
Walk(stack) == [k \in DOMAIN stack |-> stack[k].at]

(* expand is called.  A recursive reference is one whose pointer is active *)
(* already.                                                                *)
Call(c, pointer) ==
    LET node == c.schema[pointer]
        refers == node.kind = "reference"
        work == AddWork(c.work, node, c.active)
    IN  IF \/ node.kind = "literal" \/ work > MaxSchemaWork
           \/ refers /\ (node.to \in c.active \/ node.to \notin Pointers)
          THEN [c EXCEPT !.verdict = "refused"]
          ELSE [c EXCEPT !.work = work,
                         !.size = IF refers THEN @ ELSE @ + 1,
                         !.active = IF refers THEN @ \union {node.to} ELSE @,
                         !.stack = Append(@, [at |-> pointer, todo |-> Below(c.schema, pointer)]),
                         !.visited = @ \union {Append(Walk(c.stack), pointer)}]

(* expand returns; with the outermost call the schema is expanded.         *)
Return(c) ==
    LET node == c.schema[Last(c.stack).at]
    IN  [c EXCEPT !.stack = Front(@),
                  !.active = IF node.kind = "reference" THEN @ \ {node.to} ELSE @,
                  !.verdict = IF Len(c.stack) > 1 THEN "expanding"
                              ELSE IF c.size <= MaxExpanded THEN "good" ELSE "refused"]

(* One step of expand_schema_references.                                   *)
Expand(c) ==
    LET top == Last(c.stack)
    IN  IF top.todo = <<>> THEN Return(c)
        ELSE Call([c EXCEPT !.stack = Append(Front(@), [top EXCEPT !.todo = Tail(@)])],
                  Head(top.todo))

(* compile_command_schema begins.  visited is a history: all walks so far. *)
Compile(schema) ==
    LET c == [schema |-> schema, stack |-> <<>>, active |-> {}, work |-> 0, size |-> 0,
              visited |-> {}, verdict |-> "expanding"]
    IN  IF schema = NoSchema THEN [c EXCEPT !.verdict = "good"] ELSE Call(c, Root)

-----------------------------------------------------------------------------
(* What a validator visits: walks from the root along children and         *)
(* references.                                                             *)
After(schema, pointer) ==
    CASE schema[pointer].kind = "object" -> Range(Children[pointer])
      [] schema[pointer].kind = "reference" -> {schema[pointer].to} \intersect Pointers
      [] OTHER -> {}

IsWalk(schema, w) ==
    w[1] = Root /\ \A i \in 2..Len(w) : w[i] \in After(schema, w[i - 1])

(* One pointer more than there are, so that every cycle shows.             *)
Walks(schema) ==
    UNION {{w \in [1..n -> Pointers] : IsWalk(schema, w)} : n \in 1..Cardinality(Pointers) + 1}

(* What walks cost, by the nodes they end at.                              *)
WorkOf(schema, walks) == Total([w \in walks |-> NodeWork(schema[w[Len(w)]])], walks)

(* Those that add a node to the expanded schema.                           *)
Expansion(schema, walks) == {w \in walks : schema[w[Len(w)]].kind # "reference"}

Visits(schema) == WorkOf(schema, Walks(schema))

(* A schema that needs bounded time: no reference leads back to itself or  *)
(* nowhere, and all walks together stay within the limits.                 *)
Bounded(schema) ==
    LET walks == Walks(schema)
    IN  /\ \A w \in walks :
             /\ Len(w) <= Cardinality(Pointers)
             /\ schema[w[Len(w)]].kind # "literal"
             /\ schema[w[Len(w)]].kind = "reference" => schema[w[Len(w)]].to \in Pointers
        /\ WorkOf(schema, walks) <= MaxSchemaWork
        /\ Cardinality(Expansion(schema, walks)) <= MaxExpanded
=============================================================================
