--------------------------- MODULE MCCommandRegistry ---------------------------
(* Directories of three entries of every kind that matters to loading, and *)
(* of one definition with every schema over a tree of four nodes.          *)
EXTENDS CommandRegistry

MCNoSchema == [pointer \in {} |-> 0]

Trusted == [owner |-> "root", writable |-> "owner", sticky |-> FALSE]
Shared == [owner |-> "root", writable |-> "everybody", sticky |-> TRUE]
Foreign == [owner |-> "guest", writable |-> "owner", sticky |-> FALSE]
Group == [owner |-> "root", writable |-> "group", sticky |-> TRUE]

Place(dirs, writable, executable) ==
    [dirs |-> dirs, owner |-> "agent", writable |-> writable, executable |-> executable]

MCLocations == [
    commands |-> Place(<<Trusted, Trusted>>, FALSE, FALSE),
    below_shared |-> Place(<<Trusted, Shared, Trusted>>, FALSE, TRUE),
    in_shared |-> Place(<<Trusted, Shared>>, FALSE, TRUE),
    group |-> Place(<<Group, Trusted>>, FALSE, TRUE),
    foreign |-> Place(<<Foreign, Trusted>>, FALSE, TRUE),
    writable |-> Place(<<Trusted>>, TRUE, TRUE)]

MCPointers == {"root", "a", "b", "c"}
MCChildren == [root |-> <<"a", "b">>, a |-> <<"c">>, b |-> <<>>, c |-> <<>>]

Node(kind, to, pattern) == [kind |-> kind, to |-> to, pattern |-> pattern]
Nodes == {Node("boolean", "", 0), Node("literal", "", 0), Node("object", "", 0),
          Node("object", "", 2)}
         \union {Node("reference", p, 0) : p \in MCPointers \union {"elsewhere"}}

Definition(name, size) ==
    [toml |-> TRUE, place |-> "commands", malformed |-> FALSE, command |-> name,
     handler |-> <<"below_shared">>, input |-> MCNoSchema, output |-> MCNoSchema,
     bytes |-> size, published |-> size]

(* A root without anything below it is of no interest.                     *)
MCSchemas ==
    {schema \in [MCPointers -> Nodes] :
       schema.root.kind \in {"object", "reference"} /\ schema.c.pattern = 0}

WithInput(schema) == [Definition("x", 1) EXCEPT !.input = schema, !.output = MCNoSchema]
Whole == [p \in MCPointers |-> Node("object", "", 0)]

Some == {
    Definition("x", 1), Definition("x", 3), Definition("y", 2),
    [Definition("x", 1) EXCEPT !.toml = FALSE],
    [Definition("x", 1) EXCEPT !.malformed = TRUE],
    [Definition("x", 1) EXCEPT !.place = "foreign"],
    [Definition("y", 2) EXCEPT !.handler = <<"missing", "writable", "below_shared">>],
    [Definition("y", 1) EXCEPT !.output = Whole]}

MCEdits == {Definition("y", 1), [Definition("x", 1) EXCEPT !.malformed = TRUE]}

MCDirectories ==
    {[place |-> "commands", files |-> files] : files \in UNION {[1..n -> Some] : n \in 0..3}}
    \union {[place |-> place, files |-> <<Definition("x", 1)>>] :
              place \in {"missing", "in_shared", "group", "foreign"}}
    \union {[place |-> "commands", files |-> [i \in 1..4 |->
               [Definition("x", 1) EXCEPT !.toml = i = 1]]]}
    \union {[place |-> "commands", files |-> <<WithInput(schema)>>] : schema \in MCSchemas}

MCValues == {[nodes |-> 1, bytes |-> 0], [nodes |-> 2, bytes |-> 5]}
=============================================================================
