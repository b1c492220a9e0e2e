----------------------------- MODULE TypeRegistry -----------------------------
(***************************************************************************)
(* The registry of sources and document types (app/db/type_registry.py):   *)
(* a table when DATABASE_URL names a database that answers at import, a    *)
(* JSON file and the memory of each process otherwise.  The server's       *)
(* endpoints add names; the pipeline, in the server and in the retry       *)
(* command, rejects a document of a name that is not there.                *)
(*                                                                         *)
(* Which of the two a process uses is decided when it starts, and holds    *)
(* until it ends.  An endpoint is a coroutine that awaits nothing, so the  *)
(* server's endpoints do not interleave; but the file is truncated and     *)
(* then written, and the server may end, or the command start, in between. *)
(***************************************************************************)
CONSTANTS
    Sources,            \* names of sources, in the form they are stored
    DocumentTypes,      \* names of document types, in the form they are stored
    BuiltIn,            \* _DEFAULT_SOURCES and _DEFAULT_DOCUMENT_TYPES
    Shipped,            \* the names in the file that comes with the code
    Spellings,          \* names as requests spell them
    Canonical,          \* the stored form of each: stripped, lower case, no alias
    Processes,          \* the server and the retry command
    Server,             \* the one that has the endpoints
    HasDatabase,        \* DATABASE_URL is set
    Faults,             \* subset of {"connect", "disk", "crash"}
    NoName

Names == Sources \cup DocumentTypes
Modes == {"database", "file"}

\* A file that is not JSON.
Unreadable == {NoName}

ASSUME NamesAssumption ==
    /\ Sources \cap DocumentTypes = {}
    /\ BuiltIn \subseteq Shipped /\ Shipped \subseteq Names
    /\ NoName \notin Names
ASSUME SpellingAssumption == Canonical \in [Spellings -> Names]
ASSUME ProcessAssumption == Server \in Processes

VARIABLES
    table,      \* the rows of type_registry
    file,       \* type_registry.json
    mode,       \* where each process keeps the registry, while it runs
    memory,     \* _SOURCES and _DOCUMENT_TYPES of each process
    adding,     \* the name the server adds: the file is open, and empty
    promised    \* by mode, the names the server has answered 201 for, but for
                \* those that an unreadable file has taken with it

vars == <<table, file, mode, memory, adding, promised>>

Init ==
    /\ table = {}
    /\ file = Shipped
    /\ mode = [p \in Processes |-> "down"]
    /\ memory = [p \in Processes |-> {}]
    /\ adding = NoName
    /\ promised = [m \in Modes |-> {}]

-----------------------------------------------------------------------------
\* Mutant: what cannot be read has no names.
LoadedAsIs(stored) == IF stored = Unreadable THEN {} ELSE stored

\* _load_registry: without names of a kind, the defaults of that kind.
Loaded(stored) ==
    IF stored = Unreadable
    THEN BuiltIn
    ELSE UNION {IF stored \cap kind = {} THEN BuiltIn \cap kind ELSE stored \cap kind :
                kind \in {Sources, DocumentTypes}}

\* is_valid_source and is_valid_document_type.
Valid(p, name) ==
    IF mode[p] = "database" THEN name \in table ELSE name \in memory[p]

Starts(p, m) ==
    /\ mode[p] = "down"
    /\ mode' = [mode EXCEPT ![p] = m]

\* A process imports the module and reaches its database: the table is created
\* and gets the built-in names.
StartOnDatabase(p) ==
    /\ HasDatabase
    /\ Starts(p, "database")
    /\ table' = table \cup BuiltIn
    /\ memory' = [memory EXCEPT ![p] = Loaded(table')]
    /\ UNCHANGED <<file, adding, promised>>

\* It has no database, or does not reach it, and reads the file as it is now.
StartOnFile(p) ==
    /\ HasDatabase => "connect" \in Faults
    /\ Starts(p, "file")
    /\ memory' = [memory EXCEPT ![p] = Loaded(file)]
    /\ UNCHANGED <<table, file, adding, promised>>

\* The command is done, or is stopped; it has written nothing.
EndCommand(p) ==
    /\ p # Server
    /\ mode[p] # "down"
    /\ mode' = [mode EXCEPT ![p] = "down"]
    /\ memory' = [memory EXCEPT ![p] = {}]
    /\ UNCHANGED <<table, file, adding, promised>>

\* The server ends, perhaps in the midst of a write.
EndServer ==
    /\ adding # NoName => "crash" \in Faults
    /\ mode[Server] # "down"
    /\ mode' = [mode EXCEPT ![Server] = "down"]
    /\ memory' = [memory EXCEPT ![Server] = {}]
    /\ adding' = NoName
    /\ promised' = IF file = Unreadable THEN [promised EXCEPT !["file"] = {}] ELSE promised
    /\ UNCHANGED <<table, file>>

-----------------------------------------------------------------------------
\* An endpoint lets a name in that the registry has not got; otherwise 409.
CanAdd(name, m) ==
    /\ mode[Server] = m
    /\ adding = NoName
    /\ ~Valid(Server, name)

\* Mutant: the table is not what the new row goes to.
AddToTableUncommitted(spelling) ==
    LET name == Canonical[spelling]
    IN  /\ CanAdd(name, "database")
        /\ memory' = [memory EXCEPT ![Server] = @ \cup {name}]
        /\ promised' = [promised EXCEPT !["database"] = @ \cup {name}]
        /\ UNCHANGED <<table, file, mode, adding>>

\* add_source or add_document_type with a database: one INSERT, then 201.
AddToTable(spelling) ==
    LET name == Canonical[spelling]
    IN  /\ CanAdd(name, "database")
        /\ table' = table \cup {name}
        /\ promised' = [promised EXCEPT !["database"] = @ \cup {name}]
        /\ UNCHANGED <<file, mode, memory, adding>>

Remember(name) == memory' = [memory EXCEPT ![Server] = @ \cup {name}]

\* Without one: the memory has the name, then the file is opened, which empties it.
OpenFile(spelling) ==
    LET name == Canonical[spelling]
    IN  /\ CanAdd(name, "file")
        /\ Remember(name)
        /\ file' = Unreadable
        /\ adding' = name
        /\ UNCHANGED <<table, mode, promised>>

\* The file cannot be opened: 500, and the memory keeps the name.
OpenFails(spelling) ==
    LET name == Canonical[spelling]
    IN  /\ "disk" \in Faults
        /\ CanAdd(name, "file")
        /\ Remember(name)
        /\ UNCHANGED <<table, file, mode, adding, promised>>

\* Mutant: the text was made before the name was added.
WriteFileAsItWas ==
    /\ adding # NoName
    /\ file' = memory[Server] \ {adding}
    /\ adding' = NoName
    /\ promised' = [promised EXCEPT !["file"] = @ \cup {adding}]
    /\ UNCHANGED <<table, mode, memory>>

\* The whole memory is written; 201.
WriteFile ==
    /\ adding # NoName
    /\ file' = memory[Server]
    /\ adding' = NoName
    /\ promised' = [promised EXCEPT !["file"] = @ \cup {adding}]
    /\ UNCHANGED <<table, mode, memory>>

\* The disk is full: 500, and the file stays empty.
WriteFails ==
    /\ "disk" \in Faults
    /\ adding # NoName
    /\ adding' = NoName
    /\ UNCHANGED <<table, file, mode, memory, promised>>

Next ==
    \/ \E p \in Processes : StartOnDatabase(p) \/ StartOnFile(p) \/ EndCommand(p)
    \/ EndServer
    \/ \E s \in Spellings : AddToTable(s) \/ OpenFile(s) \/ OpenFails(s)
    \/ WriteFile \/ WriteFails

Spec == Init /\ [][Next]_vars

-----------------------------------------------------------------------------
\* Every variable has its type, and the file is being written by a server that
\* uses it.
TypeOK ==
    /\ table \subseteq Names
    /\ file \in (SUBSET Names) \cup {Unreadable}
    /\ mode \in [Processes -> Modes \cup {"down"}]
    /\ memory \in [Processes -> SUBSET Names]
    /\ adding \in Names \cup {NoName}
    /\ adding # NoName => (mode[Server] = "file" /\ file = Unreadable)
    /\ promised \in [Modes -> SUBSET Names]

\* The pipeline of no process rejects a document of the webhooks: whatever was
\* added, wherever a write broke off and whichever store a process found when it
\* started, it knows the built-in names.
BuiltInsStay ==
    \A p \in Processes, name \in BuiltIn : mode[p] # "down" => Valid(p, name)

\* The server knows every name it has answered 201 for while it used the same store,
\* before or after it was started again; only a file that cannot be read when
\* it ends loses any.
ServerRemembers ==
    \A m \in Modes, name \in Names :
        (mode[Server] = m /\ name \in promised[m]) => Valid(Server, name)

\* So does each process when it starts, the retry command too, unless it reads the
\* file when that cannot be read: then it has only the built-in names.
KnownAtStart ==
    [][\A p \in Processes, m \in Modes :
         (Starts(p, m) /\ (m = "file" => file # Unreadable)) =>
             \A name \in promised[m] : Valid(p, name)']_vars
=============================================================================
