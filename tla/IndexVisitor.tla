---------------------------- MODULE IndexVisitor ----------------------------
(***************************************************************************)
(* What IndexVisitor adds to the index for one node of slang's AST, and    *)
(* where it goes from there.  A node keeps of a symbol or an expression    *)
(* what a handler looks at:                                                *)
(*   name     the token that declares it, label the one after its end;     *)
(*   mentions the tokens that name other symbols, with the tokens that     *)
(*            declare these; ports: the same of the named connections of   *)
(*            an instance;                                                 *)
(*   special  the exceptional case of its kind (see the handlers);         *)
(*   type     its type; operands: expressions and symbols that a handler   *)
(*            visits by hand; members: those that visitDefault visits.     *)
(* A token is a range of a buffer.  Lines and characters, compared in that *)
(* order, are one number.                                                  *)
(***************************************************************************)
EXTENDS Naturals, Sequences

CONSTANTS
  Nodes,      \* [names of nodes -> nodes]
  Types,      \* [names of types -> types]
  Conditions, \* [names of the conditions of generate blocks -> nodes' names]
  Here,       \* current_file_buffer_
  NoToken     \* a token that is not there, or whose location is invalid

Token == {t \in [buffer : STRING, start : Nat, end : Nat] : t.start < t.end}
Mention == [at : Token \cup {NoToken}, to : Token \cup {NoToken}]
NodeNames == DOMAIN Nodes
TypeNames == DOMAIN Types
Node ==
  [kind : STRING, name : Token \cup {NoToken}, label : Token \cup {NoToken},
   mentions : Seq(Mention), ports : Seq(Mention), special : BOOLEAN,
   type : Seq(TypeNames), conditions : Seq(DOMAIN Conditions),
   operands : Seq(NodeNames), members : Seq(NodeNames)]
Type ==
  [kind : STRING, syntax : STRING, mentions : Seq(Mention), type : Seq(TypeNames),
   operands : Seq(NodeNames), members : Seq(NodeNames)]

\* The ast is closed, and no name is empty.
ASSUME AstAssumption ==
  /\ Nodes \in [NodeNames -> Node]
  /\ Types \in [TypeNames -> Type]
  /\ Conditions \in [DOMAIN Conditions -> NodeNames]
  /\ NoToken \notin Token

Entry(token, definition, isDefinition) ==
  [start |-> token.start, end |-> token.end, buffer |-> token.buffer,
   def_loc |-> definition, is_definition |-> isDefinition]

AddDefinition(token) ==
  IF token = NoToken THEN <<>> ELSE <<Entry(token, token, TRUE)>>

\* Mutant: a reference to nothing.
AddReference_AnyTarget(mention) ==
  IF mention.at = NoToken \/ mention.at.buffer # Here THEN <<>>
  ELSE <<Entry(mention.at, mention.to, FALSE)>>

AddReference(mention) ==
  IF mention.at = NoToken \/ mention.to = NoToken \/ mention.at.buffer # Here
  THEN <<>> ELSE <<Entry(mention.at, mention.to, FALSE)>>

\* A definition, and the label after its end, which refers to it.
Declared(n) == AddDefinition(n.name) \o AddReference([at |-> n.label, to |-> n.name])

-----------------------------------------------------------------------------
(***************************************************************************)
(* The handlers.  Each gives the entries it adds, and the work it goes on  *)
(* with: nodes to visit, types to traverse, conditions that the blocks of  *)
(* one generate statement share, mentions to refer to, and connections of  *)
(* an unresolved instance.                                                 *)
(***************************************************************************)
Items(tag, s) == [i \in DOMAIN s |-> <<tag, s[i]>>]
Visit(names) == Items("node", names)
Traverse(names) == Items("type", names)
Refer(mentions) == Items("mention", mentions)
Handled(adds, work) == [adds |-> adds, work |-> work]

VisitDefault(n) == Visit(n.operands) \o Visit(n.members)
TypeAndMembers(n) == Traverse(n.type) \o VisitDefault(n)

\* Formal arguments, variables, parameters, subroutines and prototypes;
\* special: a variable of the compiler, a parameter that is a genvar's value.
HandleValue(n) == Handled(IF n.special THEN <<>> ELSE Declared(n), TypeAndMembers(n))

\* Type aliases, enum values, fields, nets and properties of classes.
HandleMember(n) == Handled(Declared(n), TypeAndMembers(n))

\* The header of a module, an interface or a program.
HandleDefinition(n) ==
  Handled(Declared(n), IF n.kind = "Interface" THEN <<>> ELSE VisitDefault(n))

HandleImport(n) == Handled(<<>>, Refer(n.mentions) \o VisitDefault(n))

\* The members of the class are those of its default specialization.
HandleGenericClassDef(n) == Handled(Declared(n), Refer(n.mentions) \o VisitDefault(n))

\* special: the specialization of a generic class, whose name is indexed.
HandleClassType(n) ==
  IF n.special THEN Handled(<<>>, VisitDefault(n))
  ELSE Handled(Declared(n), Refer(n.mentions) \o VisitDefault(n))

HandleInterfacePort(n) ==
  IF n.name = NoToken THEN Handled(<<>>, <<>>)
  ELSE Handled(Declared(n), Visit(n.operands) \o Refer(n.mentions))

HandleModport(n) == Handled(Declared(n), VisitDefault(n))
HandleModportPort(n) == Handled(<<>>, Refer(n.mentions))

\* Of the elements, their connections among them, nothing is visited.
HandleInstanceArray(n) == Handled(Declared(n), Visit(n.operands) \o Refer(n.mentions))

\* An element of an array has no name.  The body of an instance is a copy of
\* that of its definition; it is visited if the instance stands in no module,
\* but in the compilation unit.
HandleInstance(n) ==
  IF n.name = NoToken THEN Handled(<<>>, <<>>)
  ELSE Handled(Declared(n), Refer(n.mentions) \o Refer(n.ports) \o Visit(n.operands)
                            \o (IF n.kind = "UnitInstance" THEN VisitDefault(n) ELSE <<>>))

\* The first of the blocks of a loop stands for all.
HandleGenerateBlockArray(n) ==
  Handled(<<>>, Refer(n.mentions) \o Visit(n.operands)
                \o Visit(IF n.members = <<>> THEN <<>> ELSE <<Head(n.members)>>))

HandleGenerateBlock(n) ==
  Handled(Declared(n), Items("condition", n.conditions) \o VisitDefault(n))

\* Genvars, packages and named statement blocks.
HandleScope(n) == Handled(Declared(n), VisitDefault(n))

HandleUninstantiatedDef(n) ==
  Handled(Declared(n), Visit(n.operands) \o Items("connection", n.operands)
                       \o Refer(n.mentions) \o Refer(n.ports))

\* A connection that is an interface has been visited, and is added once more.
HandleConnection(n) ==
  Handled(<<>>, IF n.kind = "ArbitrarySymbol" /\ n.special THEN Refer(n.mentions) ELSE <<>>)

HandleNamedValue(n) == Handled(<<>>, Refer(n.mentions) \o VisitDefault(n))
HandleArbitrarySymbol(n) == Handled(<<>>, Refer(n.mentions) \o VisitDefault(n))

\* special: a call of a system task, or in an argument of another file.
HandleCall(n) ==
  Handled(<<>>, (IF n.special THEN <<>> ELSE Refer(n.mentions)) \o VisitDefault(n))

\* special: a conversion that nobody wrote.
HandleConversion(n) ==
  Handled(<<>>, IF n.special THEN VisitDefault(n) ELSE TypeAndMembers(n))

HandleMemberAccess(n) == Handled(<<>>, Refer(n.mentions) \o VisitDefault(n))
HandleAssignmentPattern(n) ==
  Handled(<<>>, Traverse(n.type) \o Refer(n.mentions) \o VisitDefault(n))

Handle(n) ==
  CASE n.kind \in {"FormalArgument", "Variable", "Parameter", "Subroutine",
                   "MethodPrototype"} -> HandleValue(n)
    [] n.kind \in {"TypeAlias", "EnumValue", "Field", "Net", "ClassProperty"} ->
         HandleMember(n)
    [] n.kind \in {"Definition", "Interface"} -> HandleDefinition(n)
    [] n.kind \in {"WildcardImport", "ExplicitImport"} -> HandleImport(n)
    [] n.kind = "GenericClassDef" -> HandleGenericClassDef(n)
    [] n.kind = "ClassType" -> HandleClassType(n)
    [] n.kind = "InterfacePort" -> HandleInterfacePort(n)
    [] n.kind = "Modport" -> HandleModport(n)
    [] n.kind = "ModportPort" -> HandleModportPort(n)
    [] n.kind = "InstanceArray" -> HandleInstanceArray(n)
    [] n.kind \in {"Instance", "UnitInstance"} -> HandleInstance(n)
    [] n.kind = "GenerateBlockArray" -> HandleGenerateBlockArray(n)
    [] n.kind = "GenerateBlock" -> HandleGenerateBlock(n)
    [] n.kind \in {"Genvar", "Package", "StatementBlock"} -> HandleScope(n)
    [] n.kind = "UninstantiatedDef" -> HandleUninstantiatedDef(n)
    [] n.kind = "NamedValue" -> HandleNamedValue(n)
    [] n.kind = "ArbitrarySymbol" -> HandleArbitrarySymbol(n)
    [] n.kind = "Call" -> HandleCall(n)
    [] n.kind \in {"Conversion", "DataType"} -> HandleConversion(n)
    [] n.kind \in {"MemberAccess", "HierarchicalValue"} -> HandleMemberAccess(n)
    [] n.kind = "StructuredAssignmentPattern" -> HandleAssignmentPattern(n)
    [] OTHER -> Handled(<<>>, VisitDefault(n))

-----------------------------------------------------------------------------
(***************************************************************************)
(* Types: what their syntax refers to, the expressions of their            *)
(* dimensions, the enum values or fields they declare, the types they are  *)
(* made of.  A class is entered through its definition only.               *)
(***************************************************************************)
TraverseType(t) ==
  CASE t.kind = "TypeReference" -> Handled(<<>>, Refer(t.mentions) \o Visit(t.operands))
    [] t.kind \in {"PackedArray", "UnpackedArray", "DynamicArray", "Queue",
                   "AssociativeArray", "TypeAlias"} ->
         Handled(<<>>, Visit(t.operands) \o Traverse(t.type))
    [] t.kind \in {"Enum", "Struct", "Union"} ->
         Handled(<<>>, Traverse(t.type) \o Visit(t.members))
    [] OTHER -> Handled(<<>>, <<>>)
=============================================================================
