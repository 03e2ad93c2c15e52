----------------------------- MODULE CommandRegistry -----------------------------
(***************************************************************************)
(* CommandRegistry::load_external and what the commands it loads are used  *)
(* for: their declared schemas judge the values of invocations.  The agent *)
(* lists the commands directory once, then opens one definition after the  *)
(* other while somebody may edit them, and never loads them again.         *)
(*                                                                         *)
(* A definition stands for its parsed content; one that does not parse, is *)
(* too large or has a bad name is malformed.                               *)
(***************************************************************************)
EXTENDS CommandSchema

CONSTANTS
    Directories,      \* what the commands directory may be
    Edits,            \* what a definition may be replaced with
    Locations,        \* each place of the file system: directories and file
    Values,           \* what a command is invoked with: nodes and bytes
    MaxEntries,       \* MAX_COMMAND_DIRECTORY_ENTRIES
    MaxDefinitions,   \* MAX_COMMAND_DEFINITIONS
    MaxRegistry,      \* MAX_COMMAND_REGISTRY_BYTES
    MaxManifest,      \* MAX_COMMAND_MANIFEST_BYTES
    MaxValidation,    \* MAX_COMMAND_VALIDATION_WORK_BYTES
    MaxEdits          \* bound: definitions replaced

(* All definitions there may ever be.                                      *)
Definitions == Edits \union UNION {Range(d.files) : d \in Directories}

(* Bytes are counted in usize, and a definition keeps its file name when   *)
(* it is edited.                                                           *)
ASSUME RegistryAssumption ==
    /\ {MaxEntries, MaxDefinitions, MaxRegistry, MaxManifest, MaxValidation} \subseteq Nat
    /\ \A d \in Directories :
         /\ d = [place |-> d.place, files |-> d.files]
         /\ d.files \in Seq(Range(d.files))
    /\ \A file \in Definitions :
         /\ file.bytes \in Nat
         /\ {file.input, file.output} \subseteq Schemas \union {NoSchema}
    /\ \A file \in Edits : file.toml = TRUE
    /\ \A value \in Values : value.bytes \in Nat /\ value.nodes \in Nat

VARIABLES
    directory,  \* the commands directory
    edits,      \* definitions replaced so far
    stage,      \* "list", "load", "input", "output", "ready"
    names,      \* the listed definitions that are not opened yet
    opening,    \* the definition that is loaded now, and its compiled input
    compiling,  \* the schema that is compiled now
    commands,   \* the registry: each command's definition and its schemas' work
    bytes,      \* bytes of the registry
    seen,       \* history: each definition as it was when it was opened
    validated   \* history: what the last validation was for

registryVars == <<directory, edits, stage, names, opening, compiling, commands,
                  bytes, seen, validated>>

Empty == [name \in {} |-> 0]

RegistryInit ==
    /\ directory \in Directories /\ edits = 0
    /\ stage = "list" /\ names = <<>>
    /\ opening = <<>> /\ compiling = <<>>
    /\ commands = Empty /\ bytes = 0
    /\ seen = Empty /\ validated = <<>>

-----------------------------------------------------------------------------
(* Trust in a place of the file system.                                    *)

(* open_secure_directory: every directory on the way belongs to somebody   *)
(* trusted and is writable for its owner only, or is root's, sticky and    *)
(* writable for everybody, and not the last.                               *)
SecureDirectory(dirs) ==
    \A i \in DOMAIN dirs :
        /\ dirs[i].owner \in {"root", "agent"}
        /\ dirs[i].writable # "owner" =>
             /\ dirs[i].writable = "everybody" /\ dirs[i].sticky
             /\ dirs[i].owner = "root" /\ i < Len(dirs)

(* open_trusted_regular_file, on the path behind all links.                *)
TrustedFile(place) ==
    /\ place \in DOMAIN Locations
    /\ SecureDirectory(Locations[place].dirs)
    /\ Locations[place].owner \in {"root", "agent"} /\ ~Locations[place].writable

(* resolve_handler_program: the first entry found is taken, good or not.   *)
Resolved(candidates) ==
    LET found == {i \in DOMAIN candidates : candidates[i] \in DOMAIN Locations}
    IN  IF found = {} THEN "nowhere" ELSE candidates[Min(found)]

ValidExecutable(candidates) ==
    TrustedFile(Resolved(candidates)) /\ Locations[Resolved(candidates)].executable

-----------------------------------------------------------------------------
(* Loading.                                                                *)

(* read_bounded_definition and validate_command_definition.                *)
WellFormed(file) == ~file.malformed

(* load_command_registry: the agent goes on without commands.              *)
Fail == stage' = "ready" /\ commands' = Empty /\ names' = <<>>

(* Mutation: the names are not in order.                                   *)
Reversed(set) ==
    CHOOSE s \in [1..Cardinality(set) -> set] : \A i, j \in DOMAIN s : i < j => s[i] > s[j]

(* names.sort().                                                           *)
Sorted(set) ==
    CHOOSE s \in [1..Cardinality(set) -> set] : \A i, j \in DOMAIN s : i < j => s[i] < s[j]

(* The entries that count: their extension is toml.                        *)
Listed == {i \in DOMAIN directory.files : directory.files[i].toml}

(* What the registry publishes, in bytes.                                  *)
Manifest(registry) ==
    MapThenSumSet(LAMBDA c : registry[c].definition.published, DOMAIN registry)

(* open_command_directory.  A directory that is missing has no commands; a *)
(* bad one, or too many entries, and the agent goes on without commands.   *)
List ==
    /\ stage = "list"
    /\ IF /\ directory.place \in DOMAIN Locations
          /\ SecureDirectory(Locations[directory.place].dirs)
          /\ Len(directory.files) + 2 <= MaxEntries \* counts . and ..
          /\ Cardinality(Listed) <= MaxDefinitions
         THEN names' = Sorted(Listed) /\ stage' = "load" /\ UNCHANGED commands
         ELSE Fail
    /\ UNCHANGED <<directory, edits, opening, compiling, bytes, seen, validated>>

(* load_external_command opens the next definition; an invalid one is      *)
(* skipped.                                                                *)
OpenNext ==
    /\ stage = "load" /\ names # <<>>
    /\ LET i == Head(names)
           file == directory.files[i]
       IN  /\ seen' = [j \in DOMAIN seen \union {i} |-> IF j = i THEN file ELSE seen[j]]
           /\ IF TrustedFile(file.place) /\ WellFormed(file) /\ ValidExecutable(file.handler)
                THEN /\ opening' = <<file>> /\ compiling' = Compile(file.input)
                     /\ stage' = "input"
                ELSE UNCHANGED <<opening, compiling, stage>>
    /\ names' = Tail(names)
    /\ UNCHANGED <<directory, edits, commands, bytes, validated>>

ExpandMore ==
    /\ stage \in {"input", "output"} /\ compiling.verdict = "expanding"
    /\ compiling' = Expand(compiling)
    /\ UNCHANGED <<directory, edits, stage, names, opening, commands, bytes, seen, validated>>

(* One of its schemas is not acceptable: the definition is skipped.        *)
Skip ==
    /\ stage \in {"input", "output"} /\ compiling.verdict = "refused"
    /\ stage' = "load" /\ opening' = <<>> /\ compiling' = <<>>
    /\ UNCHANGED <<directory, edits, names, commands, bytes, seen, validated>>

CompileOutput ==
    /\ stage = "input" /\ compiling.verdict = "good"
    /\ stage' = "output" /\ opening' = Append(opening, compiling)
    /\ compiling' = Compile(opening[1].output)
    /\ UNCHANGED <<directory, edits, names, commands, bytes, seen, validated>>

(* A valid definition counts, and is kept if it is the first of its name.  *)
Keep ==
    /\ stage = "output" /\ compiling.verdict = "good"
    /\ LET file == opening[1]
           more == bytes + file.bytes + opening[2].size + compiling.size
           loaded == [definition |-> file, input |-> opening[2].work, output |-> compiling.work]
       IN  /\ bytes' = more
           /\ \/ more > MaxRegistry /\ Fail
              \/ /\ more <= MaxRegistry
                 /\ commands' = [c \in DOMAIN commands \union {file.command} |->
                                   IF c \in DOMAIN commands THEN commands[c] ELSE loaded]
                 /\ stage' = "load" /\ UNCHANGED names
    /\ opening' = <<>> /\ compiling' = <<>>
    /\ UNCHANGED <<directory, edits, seen, validated>>

(* validate_manifest_size.                                                 *)
LoadEnds ==
    /\ stage = "load" /\ names = <<>>
    /\ IF Manifest(commands) <= MaxManifest
         THEN stage' = "ready" /\ UNCHANGED <<commands, names>>
         ELSE Fail
    /\ UNCHANGED <<directory, edits, opening, compiling, bytes, seen, validated>>

(* Somebody replaces a definition.                                         *)
Edit ==
    /\ edits < MaxEdits
    /\ edits' = edits + 1
    /\ \E i \in DOMAIN directory.files, file \in Edits :
         directory.files[i].toml /\ directory' = [directory EXCEPT !.files[i] = file]
    /\ UNCHANGED <<stage, names, opening, compiling, commands, bytes, seen, validated>>

-----------------------------------------------------------------------------
(* Use.                                                                    *)

(* validate_command_instance; a value too deep or too large is refused.    *)
InstanceWork(value) == value.bytes + 64 * value.nodes

(* validate_declared_schema: the input or the output of a loaded command   *)
(* is validated, on a thread of its own, unless that may take too long.    *)
Validate(schema, work, value) ==
    /\ stage = "ready" /\ schema # NoSchema
    /\ work * InstanceWork(value) <= MaxValidation
    /\ validated' = <<schema, value>>
    /\ UNCHANGED <<directory, edits, stage, names, opening, compiling, commands, bytes, seen>>

RegistryNext ==
    \/ List \/ OpenNext \/ ExpandMore \/ Skip \/ CompileOutput \/ Keep \/ LoadEnds \/ Edit
    \/ \E name \in DOMAIN commands, value \in Values :
         \/ Validate(commands[name].definition.input, commands[name].input, value)
         \/ Validate(commands[name].definition.output, commands[name].output, value)

RegistrySpec == RegistryInit /\ [][RegistryNext]_registryVars

-----------------------------------------------------------------------------
(* A definition that deserves to be loaded, and what it takes of the limit.*)
GoodSchema(schema) == schema = NoSchema \/ Bounded(schema)
ExpandedSize(schema) ==
    IF schema = NoSchema THEN 0 ELSE Cardinality(Expansion(schema, Walks(schema)))
SchemaWork(schema) == IF schema = NoSchema THEN 0 ELSE Visits(schema)

Valid(file) ==
    /\ TrustedFile(file.place) /\ WellFormed(file) /\ ValidExecutable(file.handler)
    /\ GoodSchema(file.input) /\ GoodSchema(file.output)

Size(file) == file.bytes + ExpandedSize(file.input) + ExpandedSize(file.output)

Loaded(file) ==
    [definition |-> file, input |-> SchemaWork(file.input), output |-> SchemaWork(file.output)]

Usable(opened) == {i \in DOMAIN opened : Valid(opened[i])}

(* The bytes of all usable definitions.                                    *)
Bytes(opened) == Total([i \in Usable(opened) |-> Size(opened[i])], Usable(opened))

(* The first usable definition of each name.                               *)
FirstUsable(opened) ==
    [c \in {opened[i].command : i \in Usable(opened)} |->
       Loaded(opened[Min({i \in Usable(opened) : opened[i].command = c})])]

Fits(opened) ==
    Bytes(opened) <= MaxRegistry /\ Manifest(FirstUsable(opened)) <= MaxManifest

(* However the directory is listed and edited meanwhile, a loaded registry *)
(* has exactly the first usable definition of each name, as it was when it *)
(* was opened, with its schemas' work; a definition is usable only with    *)
(* schemas that need bounded time.  The registry is empty if all the       *)
(* usable ones exceed a limit; if it has any command, every definition of  *)
(* the directory was opened.                                               *)
LoadsFirstValid ==
    stage = "ready" =>
      /\ commands = IF Fits(seen) THEN FirstUsable(seen) ELSE Empty
      /\ commands # Empty => DOMAIN seen = Listed

(* Whatever is declared, no validation visits more than the budget: the    *)
(* nodes of the expanded schema for each part of the value.                *)
ValidationAffordable ==
    validated # <<>> => Visits(validated[1]) * InstanceWork(validated[2]) <= MaxValidation
=============================================================================
