-------------------------- MODULE TypeRegistryProofs --------------------------
(***************************************************************************)
(* For any names, spellings, processes and faults.                         *)
(***************************************************************************)
EXTENDS TypeRegistry, TLAPS

\* Wherever a process may read the registry from, the built-in names are there.
BuiltInOK ==
    /\ file # Unreadable => BuiltIn \subseteq file
    /\ \A p \in Processes : mode[p] # "down" => BuiltIn \subseteq memory[p]
    /\ \A p \in Processes : mode[p] = "database" => BuiltIn \subseteq table

\* So are the promised ones: in the memory of a server that uses the file, in the
\* file unless that server has emptied it, and in the table.
PromisesOK ==
    /\ promised["database"] \subseteq table
    /\ mode[Server] = "file" => promised["file"] \subseteq memory[Server]
    /\ mode[Server] # "file" => promised["file"] \subseteq file
    /\ file # Unreadable => promised["file"] \subseteq file
    /\ adding # NoName => adding \in memory[Server]

Inv == TypeOK /\ BuiltInOK /\ PromisesOK

USE NamesAssumption, SpellingAssumption, ProcessAssumption

-----------------------------------------------------------------------------
\* A registry that can be read is not taken for one that cannot.
LEMMA NamesAreReadable == ASSUME NEW s \in SUBSET Names PROVE s # Unreadable
  BY DEF Unreadable

\* What is read are names, the built-in ones among them if the store has them.
LEMMA LoadedNames ==
    ASSUME NEW s \in (SUBSET Names) \cup {Unreadable},
           s # Unreadable => BuiltIn \subseteq s
    PROVE  Loaded(s) \in SUBSET Names /\ BuiltIn \subseteq Loaded(s)
  <1>1. CASE s = Unreadable
    BY <1>1 DEF Loaded
  <1>2. CASE s # Unreadable
    <2> DEFINE Part(kind) == IF s \cap kind = {} THEN BuiltIn \cap kind ELSE s \cap kind
    <2>1. Loaded(s) = UNION {Part(kind) : kind \in {Sources, DocumentTypes}}
      BY <1>2 DEF Loaded
    <2>2. Loaded(s) = Part(Sources) \cup Part(DocumentTypes)
      BY <2>1
    <2>3. BuiltIn \subseteq s
      BY <1>2
    <2> QED BY <2>2, <2>3 DEF Names
  <1> QED BY <1>1, <1>2

\* Nothing that can be read is left out.
LEMMA LoadedKeeps ==
    ASSUME NEW s \in SUBSET Names
    PROVE  s \subseteq Loaded(s)
  <1> DEFINE Part(kind) == IF s \cap kind = {} THEN BuiltIn \cap kind ELSE s \cap kind
  <1>1. Loaded(s) = UNION {Part(kind) : kind \in {Sources, DocumentTypes}}
    BY NamesAreReadable DEF Loaded
  <1>2. Loaded(s) = Part(Sources) \cup Part(DocumentTypes)
    BY <1>1
  <1> QED BY <1>2 DEF Names

-----------------------------------------------------------------------------
LEMMA InitInv == Init => Inv
  <1> SUFFICES ASSUME Init PROVE Inv
    OBVIOUS
  <1>1. TypeOK
    BY DEF Init, TypeOK, Modes
  <1>2. BuiltInOK
    BY DEF Init, BuiltInOK
  <1>3. PromisesOK
    BY DEF Init, PromisesOK, Modes
  <1> QED BY <1>1, <1>2, <1>3 DEF Inv

LEMMA NextInv == Inv /\ [Next]_vars => Inv'
  <1> SUFFICES ASSUME Inv, [Next]_vars PROVE Inv'
    OBVIOUS
  <1> USE DEF Inv, Modes
  <1>1. ASSUME NEW p \in Processes, StartOnDatabase(p) PROVE Inv'
    <2>1. table' \in SUBSET Names /\ BuiltIn \subseteq table'
      BY <1>1 DEF StartOnDatabase, TypeOK
    <2>2. Loaded(table') \in SUBSET Names /\ BuiltIn \subseteq Loaded(table')
      BY <2>1, LoadedNames
    <2>3. mode[p] = "down" /\ mode' = [mode EXCEPT ![p] = "database"]
      BY <1>1 DEF StartOnDatabase, Starts
    <2>4. TypeOK'
      BY <1>1, <2>1, <2>2, <2>3 DEF StartOnDatabase, TypeOK
    <2>5. BuiltInOK'
      BY <1>1, <2>1, <2>2, <2>3 DEF StartOnDatabase, TypeOK, BuiltInOK
    <2>6. PromisesOK'
      BY <1>1, <2>3 DEF StartOnDatabase, TypeOK, PromisesOK
    <2> QED BY <2>4, <2>5, <2>6
  <1>2. ASSUME NEW p \in Processes, StartOnFile(p) PROVE Inv'
    <2>1. Loaded(file) \in SUBSET Names /\ BuiltIn \subseteq Loaded(file)
      BY LoadedNames DEF TypeOK, BuiltInOK
    <2>2. mode[p] = "down" /\ mode' = [mode EXCEPT ![p] = "file"]
      BY <1>2 DEF StartOnFile, Starts
    <2>3. p = Server => promised["file"] \subseteq Loaded(file)
      <3>1. CASE file = Unreadable
        BY <2>2, <3>1 DEF PromisesOK, TypeOK, Unreadable
      <3>2. CASE file # Unreadable
        BY <3>2, LoadedKeeps DEF PromisesOK, TypeOK
      <3> QED BY <3>1, <3>2
    <2>4. TypeOK'
      BY <1>2, <2>1, <2>2 DEF StartOnFile, TypeOK
    <2>5. BuiltInOK'
      BY <1>2, <2>1, <2>2 DEF StartOnFile, TypeOK, BuiltInOK
    <2>6. PromisesOK'
      BY <1>2, <2>2, <2>3 DEF StartOnFile, TypeOK, PromisesOK
    <2> QED BY <2>4, <2>5, <2>6
  <1>3. ASSUME NEW p \in Processes, EndCommand(p) PROVE Inv'
    <2>1. TypeOK'
      BY <1>3 DEF EndCommand, TypeOK
    <2>2. BuiltInOK'
      BY <1>3 DEF EndCommand, TypeOK, BuiltInOK
    <2>3. PromisesOK'
      BY <1>3 DEF EndCommand, TypeOK, PromisesOK
    <2> QED BY <2>1, <2>2, <2>3
  <1>4. ASSUME EndServer PROVE Inv'
    <2>1. TypeOK'
      BY <1>4 DEF EndServer, TypeOK
    <2>2. BuiltInOK'
      BY <1>4 DEF EndServer, TypeOK, BuiltInOK
    <2>3. promised'["file"] \subseteq file /\ promised'["database"] = promised["database"]
      BY <1>4 DEF EndServer, TypeOK, PromisesOK
    <2>4. PromisesOK'
      BY <1>4, <2>3 DEF EndServer, TypeOK, PromisesOK
    <2> QED BY <2>1, <2>2, <2>4
  <1>5. ASSUME NEW s \in Spellings, AddToTable(s) PROVE Inv'
    <2>1. TypeOK'
      BY <1>5 DEF AddToTable, CanAdd, TypeOK
    <2>2. BuiltInOK'
      BY <1>5 DEF AddToTable, CanAdd, TypeOK, BuiltInOK
    <2>3. PromisesOK'
      BY <1>5 DEF AddToTable, CanAdd, TypeOK, PromisesOK
    <2> QED BY <2>1, <2>2, <2>3
  <1>6. ASSUME NEW s \in Spellings, OpenFile(s) PROVE Inv'
    <2>1. TypeOK'
      BY <1>6 DEF OpenFile, CanAdd, Remember, TypeOK
    <2>2. BuiltInOK'
      BY <1>6 DEF OpenFile, CanAdd, Remember, TypeOK, BuiltInOK
    <2>3. PromisesOK'
      BY <1>6 DEF OpenFile, CanAdd, Remember, TypeOK, PromisesOK
    <2> QED BY <2>1, <2>2, <2>3
  <1>7. ASSUME NEW s \in Spellings, OpenFails(s) PROVE Inv'
    <2>1. TypeOK'
      BY <1>7 DEF OpenFails, CanAdd, Remember, TypeOK
    <2>2. BuiltInOK'
      BY <1>7 DEF OpenFails, CanAdd, Remember, TypeOK, BuiltInOK
    <2>3. PromisesOK'
      BY <1>7 DEF OpenFails, CanAdd, Remember, TypeOK, PromisesOK
    <2> QED BY <2>1, <2>2, <2>3
  <1>8. CASE WriteFile
    <2>1. /\ mode[Server] = "file" /\ adding \in memory[Server]
          /\ file' = memory[Server] /\ memory' = memory /\ mode' = mode /\ table' = table
          /\ adding' = NoName
          /\ promised' = [promised EXCEPT !["file"] = @ \cup {adding}]
      BY <1>8 DEF WriteFile, TypeOK, PromisesOK
    <2>2. TypeOK'
      BY <2>1 DEF TypeOK
    <2>3. BuiltInOK'
      BY <2>1 DEF TypeOK, BuiltInOK
    <2>4. PromisesOK'
      BY <2>1 DEF TypeOK, PromisesOK
    <2> QED BY <2>2, <2>3, <2>4
  <1>9. CASE WriteFails
    BY <1>9 DEF WriteFails, TypeOK, BuiltInOK, PromisesOK
  <1>10. CASE UNCHANGED vars
    BY <1>10 DEF vars, TypeOK, BuiltInOK, PromisesOK, Valid
  <1> QED
    BY <1>1, <1>2, <1>3, <1>4, <1>5, <1>6, <1>7, <1>8, <1>9, <1>10 DEF Next

THEOREM Invariance == Spec => []Inv
  BY InitInv, NextInv, PTL DEF Spec

-----------------------------------------------------------------------------
\* Every variable keeps its type.
THEOREM TypeCorrect == Spec => []TypeOK
  BY Invariance, PTL DEF Inv

\* No process is ever without a built-in name.
THEOREM BuiltIns == Spec => []BuiltInsStay
  <1>1. Inv => BuiltInsStay
    BY DEF Inv, TypeOK, BuiltInOK, BuiltInsStay, Valid
  <1> QED BY <1>1, Invariance, PTL

\* The server keeps its promises from one start to the next.
THEOREM Remembered == Spec => []ServerRemembers
  <1>1. Inv => ServerRemembers
    BY DEF Inv, TypeOK, PromisesOK, ServerRemembers, Valid, Modes
  <1> QED BY <1>1, Invariance, PTL

\* Each process that starts, and can read the registry, knows what was promised.
THEOREM StartsKnowing == Spec => KnownAtStart
  <1> DEFINE A == \A p \in Processes, m \in Modes :
                     (Starts(p, m) /\ (m = "file" => file # Unreadable)) =>
                         \A name \in promised[m] : Valid(p, name)'
  <1>1. ASSUME Inv, [Next]_vars PROVE [A]_vars
    <2> SUFFICES ASSUME Next, NEW p \in Processes, NEW m \in Modes, Starts(p, m),
                        m = "file" => file # Unreadable, NEW name \in promised[m]
                 PROVE  Valid(p, name)'
      BY <1>1
    <2>1. mode[p] = "down" /\ mode'[p] = m /\ m \in {"database", "file"}
      BY <1>1 DEF Starts, Inv, TypeOK, Modes
    <2>2. StartOnDatabase(p) \/ StartOnFile(p)
      <3>1. ASSUME NEW q \in Processes, StartOnDatabase(q) \/ StartOnFile(q) PROVE q = p
        BY <1>1, <2>1, <3>1 DEF StartOnDatabase, StartOnFile, Starts, Inv, TypeOK
      <3>2. ASSUME NEW q \in Processes, EndCommand(q) PROVE FALSE
        BY <1>1, <2>1, <3>2 DEF EndCommand, Inv, TypeOK
      <3>3. ~EndServer
        BY <1>1, <2>1 DEF EndServer, Inv, TypeOK
      <3>4. ASSUME NEW s \in Spellings, AddToTable(s) \/ OpenFile(s) \/ OpenFails(s)
            PROVE  FALSE
        BY <2>1, <3>4 DEF AddToTable, OpenFile, OpenFails
      <3>5. ~WriteFile /\ ~WriteFails
        BY <2>1 DEF WriteFile, WriteFails
      <3> QED BY <3>1, <3>2, <3>3, <3>4, <3>5 DEF Next
    <2>3. CASE StartOnDatabase(p)
      BY <1>1, <2>1, <2>3 DEF StartOnDatabase, Starts, Inv, TypeOK, PromisesOK, Valid
    <2>4. CASE StartOnFile(p)
      <3>1. m = "file"
        BY <1>1, <2>1, <2>4 DEF StartOnFile, Starts, Inv, TypeOK
      <3>2. file \in SUBSET Names /\ file # Unreadable
        BY <1>1, <3>1 DEF Inv, TypeOK
      <3>3. name \in Loaded(file)
        BY <1>1, <3>1, <3>2, LoadedKeeps DEF Inv, PromisesOK
      <3>4. memory'[p] = Loaded(file)
        BY <1>1, <2>4 DEF StartOnFile, Inv, TypeOK
      <3> QED BY <2>1, <3>1, <3>3, <3>4 DEF Valid
    <2> QED BY <2>2, <2>3, <2>4
  <1>2. Spec => [][A]_vars
    BY <1>1, Invariance, PTL DEF Spec
  <1> QED BY <1>2 DEF KnownAtStart
=============================================================================
