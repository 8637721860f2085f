-------------------------- MODULE MCSemanticIndex --------------------------
(***************************************************************************)
(* A file with a package, two modules, an interface and members of the     *)
(* compilation unit, and what slang makes of them.  The k-th name of the   *)
(* file is T(k); P(k) and X(k) are names in the preamble and in an         *)
(* included file.                                                          *)
(***************************************************************************)
EXTENDS IndexedFile

TokenOf(b, k) == [buffer |-> b, start |-> 3 * k, end |-> 3 * k + 2]
T(k) == TokenOf("here", k)
P(k) == TokenOf("preamble", k)
X(k) == TokenOf("included", k)
Wide(k, l) == [T(k) EXCEPT !.end = 3 * l + 2]
To(at, to) == [at |-> at, to |-> to]

N(kind, fields) ==
  fields @@ [kind |-> kind, name |-> NoToken, label |-> NoToken, mentions |-> <<>>,
             ports |-> <<>>, special |-> FALSE, type |-> <<>>, conditions |-> <<>>,
             operands |-> <<>>, members |-> <<>>]
Ty(kind, fields) ==
  fields @@ [kind |-> kind, syntax |-> "none", mentions |-> <<>>, type |-> <<>>,
             operands |-> <<>>, members |-> <<>>]
Value(k, to) == N("NamedValue", [mentions |-> <<To(T(k), to)>>])

MCTypes ==
  [state_t |-> Ty("Enum", [syntax |-> "state_t", members |-> <<"A", "B">>, type |-> <<"bits">>]),
   pair_t |-> Ty("Struct", [syntax |-> "pair_t", members |-> <<"first">>]),
   stateRef |-> Ty("TypeReference", [syntax |-> "stateRef",
                  mentions |-> <<To(T(17), T(1)), To(T(18), T(6))>>]),
   castRef |-> Ty("TypeReference", [syntax |-> "castRef", mentions |-> <<To(T(48), T(6))>>]),
   bits |-> Ty("PackedArray", [syntax |-> "bits", operands |-> <<"widthOfBits">>]),
   self |-> Ty("Class", [syntax |-> "C", members |-> <<"next">>])]

PackageNodes ==
  [Pkg |-> N("Package", [name |-> T(1), label |-> T(10), members |-> <<"W", "alias", "x", "y">>]),
   W |-> N("Parameter", [name |-> T(2)]),
   alias |-> N("TypeAlias", [name |-> T(6), type |-> <<"state_t">>]),
   widthOfBits |-> Value(3, T(2)),
   A |-> N("EnumValue", [name |-> T(4)]),
   B |-> N("EnumValue", [name |-> T(5)]),
   first |-> N("Field", [name |-> T(7)]),
   x |-> N("Variable", [name |-> T(8), type |-> <<"pair_t">>]),
   y |-> N("Variable", [name |-> T(9), type |-> <<"pair_t">>]),
   PkgOfPreamble |-> N("Package", [name |-> P(1), members |-> <<>>])]

ModuleNodes ==
  [M |-> N("Definition", [name |-> T(11), label |-> T(60)]),
   Depth |-> N("Parameter", [name |-> T(12), operands |-> <<"pkgW">>]),
   pkgW |-> N("NamedValue", [mentions |-> <<To(T(13), T(1)), To(T(14), T(2))>>]),
   clk |-> N("Variable", [name |-> T(15)]),
   v |-> N("Variable", [name |-> T(16), type |-> <<"stateRef">>]),
   bus |-> N("InterfacePort", [name |-> T(22), operands |-> <<"lanes">>,
             mentions |-> <<To(T(19), P(2)), To(T(20), P(3))>>]),
   lanes |-> Value(23, T(12)),
   f |-> N("Subroutine", [name |-> T(24), label |-> T(26), members |-> <<"result", "arg">>]),
   result |-> N("Variable", [name |-> T(24), special |-> TRUE]),
   arg |-> N("FormalArgument", [name |-> T(25), type |-> <<"stateRef">>]),
   callF |-> N("Call", [mentions |-> <<To(T(27), T(24))>>, operands |-> <<"default">>]),
   default |-> N("NamedValue", [mentions |-> <<To(P(4), P(5))>>]),
   loop |-> N("GenerateBlockArray", [operands |-> <<"g", "limit">>, members |-> <<"step1", "step2">>]),
   g |-> N("Genvar", [name |-> T(28)]),
   limit |-> Value(29, T(12)),
   step1 |-> N("GenerateBlock", [name |-> T(30), label |-> T(32), members |-> <<"inLoop1">>]),
   step2 |-> N("GenerateBlock", [name |-> T(30), label |-> T(32), members |-> <<"inLoop2">>]),
   inLoop1 |-> N("Net", [name |-> T(31)]),
   inLoop2 |-> N("Net", [name |-> T(31)]),
   then |-> N("GenerateBlock", [name |-> T(34), conditions |-> <<"enabled">>]),
   else |-> N("GenerateBlock", [conditions |-> <<"enabled">>, members |-> <<"named">>]),
   enabled |-> Value(33, T(12)),
   named |-> N("StatementBlock", [name |-> T(35)])]

InstanceNodes ==
  [u |-> N("Instance", [name |-> T(38), mentions |-> <<To(T(36), T(61)), To(T(37), T(62))>>,
           ports |-> <<To(T(39), T(63))>>, operands |-> <<"override", "implicit">>,
           members |-> <<"sizeCopy", "inCopy">>]),
   override |-> N("NamedValue", [mentions |-> <<To(P(6), P(7))>>]),
   implicit |-> Value(39, T(15)),     \* .clk, the port and what it is connected to
   sizeCopy |-> N("Parameter", [name |-> T(62)]),
   inCopy |-> N("Variable", [name |-> T(63)]),
   row |-> N("InstanceArray", [name |-> T(41), mentions |-> <<To(T(40), T(61))>>,
             ports |-> <<To(T(43), T(63))>>, operands |-> <<"count">>, members |-> <<"element">>]),
   count |-> Value(42, T(12)),
   element |-> N("Instance", [operands |-> <<"connected">>]),
   connected |-> Value(44, T(15)),
   lost |-> N("UninstantiatedDef", [name |-> T(46), mentions |-> <<To(T(45), P(8))>>,
              operands |-> <<"busOf">>]),
   busOf |-> N("ArbitrarySymbol", [special |-> TRUE, mentions |-> <<To(T(47), T(22))>>]),
   cast |-> N("Conversion", [type |-> <<"castRef">>, members |-> <<"widen">>]),
   widen |-> N("Conversion", [special |-> TRUE, type |-> <<"castRef">>, members |-> <<"path">>]),
   path |-> N("HierarchicalValue", [mentions |-> <<To(T(49), T(22)), To(T(50), P(9))>>]),
   lane |-> N("ArbitrarySymbol", [mentions |-> <<To(Wide(51, 53), T(22))>>, operands |-> <<"index">>]),
   index |-> Value(52, T(12)),
   pattern |-> N("StructuredAssignmentPattern", [mentions |-> <<To(T(54), T(7))>>,
                 members |-> <<"access">>]),
   access |-> N("MemberAccess", [mentions |-> <<To(T(55), T(7))>>]),
   included |-> N("Variable", [name |-> X(16)]),
   initial |-> N("Other", [members |-> <<"callF", "cast", "lane", "pattern">>]),
   NDef |-> N("Definition", [name |-> T(61)]),
   size |-> N("Parameter", [name |-> T(62)]),
   in |-> N("Variable", [name |-> T(63)])]

UnitNodes ==
  [J |-> N("Interface", [name |-> T(64)]),
   addr |-> N("Net", [name |-> T(65), type |-> <<"bits">>]),
   host |-> N("Modport", [name |-> T(66), members |-> <<"hostAddr">>]),
   hostAddr |-> N("ModportPort", [mentions |-> <<To(T(67), T(65))>>]),
   C |-> N("GenericClassDef", [name |-> T(68), label |-> T(72), operands |-> <<"wOfC">>,
           members |-> <<"special">>]),
   special |-> N("ClassType", [name |-> T(68), special |-> TRUE, members |-> <<"next", "run">>]),
   wOfC |-> Value(69, T(2)),
   next |-> N("ClassProperty", [name |-> T(70), type |-> <<"self">>]),
   run |-> N("MethodPrototype", [name |-> T(71)]),
   D |-> N("ClassType", [name |-> T(73), mentions |-> <<To(T(74), T(68))>>]),
   all |-> N("WildcardImport", [mentions |-> <<To(T(75), T(1))>>]),
   one |-> N("ExplicitImport", [mentions |-> <<To(T(76), T(1)), To(T(77), NoToken)>>]),
   K |-> N("Interface", [name |-> T(78)]),
   top |-> N("UnitInstance", [name |-> T(80), mentions |-> <<To(T(79), T(78))>>, members |-> <<"req">>]),
   req |-> N("Net", [name |-> T(81)]),
   checker |-> N("Other", [special |-> TRUE])]
MCNodes == PackageNodes @@ ModuleNodes @@ InstanceNodes @@ UnitNodes
MCConditions == [enabled |-> "enabled"]

RootOf(kind, node, body) ==
  [kind |-> kind, node |-> node, body |-> body, overlay |-> TRUE, here |-> TRUE, defaults |-> TRUE]
Module ==
  RootOf("Definition", "M",
       <<"Depth", "clk", "v", "bus", "f", "loop", "then", "else", "u", "row", "lost", "initial">>)
Package == RootOf("Package", "Pkg", <<>>)
Definitions ==
  {Module, RootOf("Definition", "NDef", <<"size", "in">>), RootOf("Checker", "checker", <<>>)}
Members == {RootOf("GenericClassDef", "C", <<>>), RootOf("ClassType", "D", <<>>), Package}

MCCompilations ==
  {[definitions |-> Definitions, packages |-> {Package}, members |-> Members, included |-> {}],
   [definitions |-> {[Module EXCEPT !.defaults = FALSE], RootOf("Definition", "J", <<"addr", "host">>),
                     [RootOf("Definition", "K", <<"req">>) EXCEPT !.defaults = FALSE]},
    packages |-> {Package, [RootOf("Package", "PkgOfPreamble", <<>>) EXCEPT !.overlay = FALSE]},
    members |-> {Package, RootOf("WildcardImport", "all", <<>>), RootOf("ExplicitImport", "one", <<>>),
                 RootOf("Instance", "top", <<>>)},
    included |-> {}],
   [definitions |-> {[Module EXCEPT !.body = SubSeq(@, 1, 9) \o <<"included">>]},
    packages |-> {}, members |-> {[RootOf("ClassType", "D", <<>>) EXCEPT !.here = FALSE]},
    included |-> {"included"}]}
MCPositions == 0..250

\* What the visitor reaches from the roots of the file, and that this AST is
\* as the theorems on the index assume of slang's.
Steps == 20
Reach(c) ==
  FoldLeft(LAMBDA W, step : W \cup UNION {Range(Leads(w)) : w \in W},
           UNION {Range(Leads(s)) : s \in Starts(c)}, [step \in 1..Steps |-> step])
ASSUME AstIsAsAssumed ==
  /\ SyntaxIsShared
  /\ \A c \in Compilations :
       /\ Closed(c, Reach(c))
       /\ NamesAreOwn(c, Reach(c)) /\ OnePlace(c, Reach(c)) /\ OneMeaning(Reach(c))
=============================================================================
