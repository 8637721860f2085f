------------------------ MODULE SemanticIndexProofs ------------------------
(***************************************************************************)
(* Whatever the file is: the entries of the index are ranges that are not  *)
(* empty, a lookup answers with an entry around the position and misses    *)
(* none if the validation is silent, and the validation, which compares    *)
(* neighbours, is silent only if no two entries overlap.  And what is      *)
(* entered: all that the roots of the file lead to, nothing else, and once.*)
(***************************************************************************)
EXTENDS IndexedFile, FiniteSetTheorems, WellFoundedInduction, TLAPS

\* What a handler returns: entries to add, and work.
Result == [adds : Seq(Entries), work : Seq(Work)]

\* Tagged items are work if what they carry fits the tag.
LEMMA ItemsAreWork ==
  /\ \A s \in Seq(NodeNames) : Items("node", s) \in Seq(Work) /\ Items("connection", s) \in Seq(Work)
  /\ \A s \in Seq(TypeNames) : Items("type", s) \in Seq(Work)
  /\ \A s \in Seq(DOMAIN Conditions) : Items("condition", s) \in Seq(Work)
  /\ \A s \in Seq(Mention) : Items("mention", s) \in Seq(Work)
<1>1. ASSUME NEW S, NEW tag, \A x \in S : <<tag, x>> \in Work, NEW s \in Seq(S)
      PROVE  Items(tag, s) \in Seq(Work)
  <2>1. \A i \in DOMAIN s : s[i] \in S /\ <<tag, s[i]>> \in Work
    BY <1>1
  <2>2. Items(tag, s) \in [1 .. Len(s) -> Work]
    BY <2>1, <1>1 DEF Items
  <2> QED
    BY <2>2, <1>1
<1>2. /\ \A x \in NodeNames : <<"node", x>> \in Work /\ <<"connection", x>> \in Work
      /\ \A x \in TypeNames : <<"type", x>> \in Work
      /\ \A x \in DOMAIN Conditions : <<"condition", x>> \in Work
      /\ \A x \in Mention : <<"mention", x>> \in Work
  BY DEF Work
<1>3. \A s \in Seq(NodeNames) : Items("node", s) \in Seq(Work)
  BY <1>1, <1>2
<1>4. \A s \in Seq(NodeNames) : Items("connection", s) \in Seq(Work)
  BY <1>1, <1>2
<1>5. \A s \in Seq(TypeNames) : Items("type", s) \in Seq(Work)
  BY <1>1, <1>2
<1>6. \A s \in Seq(DOMAIN Conditions) : Items("condition", s) \in Seq(Work)
  BY <1>1, <1>2
<1>7. \A s \in Seq(Mention) : Items("mention", s) \in Seq(Work)
  BY <1>1, <1>2
<1> QED
  BY <1>3, <1>4, <1>5, <1>6, <1>7

\* A definition and a reference are at most one entry each, of ranges that
\* are not empty.
LEMMA AddsAreEntries ==
  /\ \A m \in Mention : AddReference(m) \in Seq(Entries)
  /\ \A n \in Node : Declared(n) \in Seq(Entries)
<1>1. ASSUME NEW a \in Token, NEW b \in Token, NEW d \in BOOLEAN
      PROVE  Entry(a, b, d) \in Entries
  BY DEF Entry, Entries, Token
<1>2. \A e \in Entries : <<e>> \in Seq(Entries)
  OBVIOUS
<1>3. <<>> \in Seq(Entries)
  OBVIOUS
<1>4. ASSUME NEW m \in Mention PROVE AddReference(m) \in Seq(Entries)
  <2>1. CASE m.at = NoToken \/ m.to = NoToken \/ m.at.buffer # Here
    <3>1. AddReference(m) = <<>>
      BY <2>1, Zenon DEF AddReference
    <3> QED
      BY <3>1, <1>3
  <2>2. CASE ~(m.at = NoToken \/ m.to = NoToken \/ m.at.buffer # Here)
    <3>1. m.at \in Token /\ m.to \in Token
      BY <2>2 DEF Mention
    <3>2. Entry(m.at, m.to, FALSE) \in Entries
      BY <3>1, <1>1
    <3>3. AddReference(m) = <<Entry(m.at, m.to, FALSE)>>
      BY <2>2, Zenon DEF AddReference
    <3> QED
      BY <3>2, <3>3, <1>2
  <2> QED
    BY <2>1, <2>2
<1>5. ASSUME NEW n \in Node PROVE Declared(n) \in Seq(Entries)
  <2>1. AddDefinition(n.name) \in Seq(Entries)
    <3>1. CASE n.name = NoToken
      BY <3>1, <1>3 DEF AddDefinition
    <3>2. CASE n.name # NoToken
      <4>1. n.name \in Token
        BY <3>2 DEF Node
      <4>2. Entry(n.name, n.name, TRUE) \in Entries
        BY <4>1, <1>1
      <4> QED
        BY <3>2, <4>2, <1>2 DEF AddDefinition
    <3> QED
      BY <3>1, <3>2
  <2>2. [at |-> n.label, to |-> n.name] \in Mention
    BY DEF Node, Mention
  <2>3. AddReference([at |-> n.label, to |-> n.name]) \in Seq(Entries)
    BY <2>2, <1>4
  <2> QED
    BY <2>1, <2>3 DEF Declared
<1> QED
  BY <1>4, <1>5

\* Every handler returns entries and work.
LEMMA HandlersReturnWork ==
  /\ \A n \in Node : Handle(n) \in Result /\ HandleConnection(n) \in Result
  /\ \A t \in Type : TraverseType(t) \in Result
<1>1. ASSUME NEW n \in Node
      PROVE  Handle(n) \in Result /\ HandleConnection(n) \in Result
  <2>1. /\ Visit(n.operands) \in Seq(Work) /\ Visit(n.members) \in Seq(Work)
        /\ Items("connection", n.operands) \in Seq(Work)
        /\ Traverse(n.type) \in Seq(Work)
        /\ Items("condition", n.conditions) \in Seq(Work)
        /\ Refer(n.mentions) \in Seq(Work) /\ Refer(n.ports) \in Seq(Work)
    BY ItemsAreWork DEF Node, Visit, Traverse, Refer
  <2>2. Declared(n) \in Seq(Entries)
    BY AddsAreEntries
  <2>3. <<>> \in Seq(Entries) /\ <<>> \in Seq(Work)
    OBVIOUS
  <2>4. \A s, t \in Seq(Work) : s \o t \in Seq(Work)
    OBVIOUS
  <2>5. VisitDefault(n) \in Seq(Work) /\ TypeAndMembers(n) \in Seq(Work)
    BY <2>1, <2>4 DEF VisitDefault, TypeAndMembers
  <2>6. \A adds \in Seq(Entries), work \in Seq(Work) : Handled(adds, work) \in Result
    BY DEF Handled, Result
  <2>7. Visit(IF n.members = <<>> THEN <<>> ELSE <<Head(n.members)>>) \in Seq(Work)
    <3>1. (IF n.members = <<>> THEN <<>> ELSE <<Head(n.members)>>) \in Seq(NodeNames)
      BY DEF Node
    <3> QED
      BY <3>1, ItemsAreWork DEF Visit
  <2>8. /\ HandleValue(n) \in Result /\ HandleMember(n) \in Result
        /\ HandleDefinition(n) \in Result /\ HandleImport(n) \in Result
    BY <2>1, <2>2, <2>3, <2>4, <2>5, <2>6
    DEF HandleValue, HandleMember, HandleDefinition, HandleImport
  <2>9. /\ HandleGenericClassDef(n) \in Result /\ HandleClassType(n) \in Result
        /\ HandleInterfacePort(n) \in Result
    BY <2>1, <2>2, <2>3, <2>4, <2>5, <2>6
    DEF HandleGenericClassDef, HandleClassType, HandleInterfacePort
  <2>10. /\ HandleModport(n) \in Result /\ HandleModportPort(n) \in Result
         /\ HandleInstanceArray(n) \in Result /\ HandleInstance(n) \in Result
    BY <2>1, <2>2, <2>3, <2>4, <2>5, <2>6
    DEF HandleModport, HandleModportPort, HandleInstanceArray, HandleInstance
  <2>11. HandleGenerateBlockArray(n) \in Result
    BY <2>1, <2>2, <2>3, <2>4, <2>6, <2>7 DEF HandleGenerateBlockArray
  <2>12. HandleGenerateBlock(n) \in Result /\ HandleScope(n) \in Result
    BY <2>1, <2>2, <2>3, <2>4, <2>5, <2>6 DEF HandleGenerateBlock, HandleScope
  <2>13. HandleUninstantiatedDef(n) \in Result /\ HandleConnection(n) \in Result
    BY <2>1, <2>2, <2>3, <2>4, <2>6 DEF HandleUninstantiatedDef, HandleConnection
  <2>14. /\ HandleNamedValue(n) \in Result /\ HandleArbitrarySymbol(n) \in Result
         /\ HandleCall(n) \in Result
    BY <2>1, <2>3, <2>4, <2>5, <2>6 DEF HandleNamedValue, HandleArbitrarySymbol, HandleCall
  <2>15. /\ HandleConversion(n) \in Result /\ HandleMemberAccess(n) \in Result
         /\ HandleAssignmentPattern(n) \in Result
    BY <2>1, <2>3, <2>4, <2>5, <2>6
    DEF HandleConversion, HandleMemberAccess, HandleAssignmentPattern
  <2>16. Handled(<<>>, VisitDefault(n)) \in Result
    BY <2>3, <2>5, <2>6
  <2> QED
    BY <2>8, <2>9, <2>10, <2>11, <2>12, <2>13, <2>14, <2>15, <2>16 DEF Handle
<1>2. ASSUME NEW t \in Type PROVE TraverseType(t) \in Result
  <2>1. /\ Visit(t.operands) \in Seq(Work) /\ Visit(t.members) \in Seq(Work)
        /\ Traverse(t.type) \in Seq(Work) /\ Refer(t.mentions) \in Seq(Work)
    BY ItemsAreWork DEF Type, Visit, Traverse, Refer
  <2>2. <<>> \in Seq(Entries) /\ <<>> \in Seq(Work)
    OBVIOUS
  <2>3. \A s, u \in Seq(Work) : s \o u \in Seq(Work)
    OBVIOUS
  <2>4. \A adds \in Seq(Entries), work \in Seq(Work) : Handled(adds, work) \in Result
    BY DEF Handled, Result
  <2> QED
    BY <2>1, <2>2, <2>3, <2>4 DEF TraverseType
<1> QED
  BY <1>1, <1>2

-----------------------------------------------------------------------------
\* The paths keep to the roots of the compilation, the visitor to the nodes
\* and types of the AST, and the index to entries that are not empty.
THEOREM TypeCorrect == Spec => []TypeOK
<1> USE DEF TypeOK
<1>1. Init => TypeOK
  <2> SUFFICES ASSUME Init PROVE TypeOK
    OBVIOUS
  <2>1. compilation.definitions \subseteq Root
    <3>1. compilation["definitions"] \subseteq Root
      BY CompilationsAssumption DEF Init, Paths
    <3> QED
      BY <3>1
  <2>2. <<>> \in Seq(Work) /\ <<>> \in Seq(Entries)
    OBVIOUS
  <2> QED
    BY <2>1, <2>2 DEF Init, Paths
<1>2. ASSUME TypeOK, [Next]_vars PROVE TypeOK'
  <2>1. ASSUME NEW root \in todo, NEW work \in Seq(NodeNames), Take(root, work), path \in Paths
        PROVE  TypeOK'
    <3>1. Visit(work) \in Seq(Work) /\ <<>> \in Seq(Work)
      BY ItemsAreWork DEF Visit
    <3>2. stack' \in Seq(Work)
      BY <2>1, <3>1 DEF Take
    <3>3. path' = path /\ path \notin {"sort", "published"}
      BY <2>1 DEF Take, Paths
    <3> QED
      BY <1>2, <2>1, <3>2, <3>3 DEF Take
  <2>2. ASSUME NEW result \in Result, Add(result), stack # <<>> PROVE TypeOK'
    <3>1. entries' \in Seq(Entries)
      BY <1>2, <2>2 DEF Add, Result
    <3>2. result.work \in Seq(Work) /\ Tail(stack) \in Seq(Work)
      BY <1>2, <2>2 DEF Result
    <3>3. stack' \in Seq(Work)
      BY <3>2, <2>2 DEF Add
    <3> QED
      BY <1>2, <2>2, <3>1, <3>3 DEF Add
  <2>3. ASSUME stack # <<>>
        PROVE  /\ At("node") \/ At("connection") => Item \in NodeNames
               /\ At("type") => Item \in TypeNames
               /\ At("condition") => Item \in DOMAIN Conditions
               /\ At("mention") => Item \in Mention
    <3>1. Head(stack) \in Work
      BY <1>2, <2>3
    <3> QED
      BY <3>1 DEF At, Item, Work
  <2>4. \A n \in NodeNames : Nodes[n] \in Node
    BY AstAssumption
  <2>5. \A n \in TypeNames : Types[n] \in Type
    BY AstAssumption
  <2>6. Handled(<<>>, <<>>) \in Result
    BY DEF Handled, Result
  <2>7. CASE IndexDefinition
    <3>1. PICK root \in todo :
            Take(root, IF root.kind # "Definition" THEN <<>>
                       ELSE <<root.node>> \o (IF root.defaults THEN root.body ELSE <<>>))
      BY <2>7 DEF IndexDefinition
    <3>2. root \in Root
      BY <1>2
    <3>3. <<root.node>> \in Seq(NodeNames) /\ root.body \in Seq(NodeNames)
      BY <3>2 DEF Root
    <3>4. (IF root.kind # "Definition" THEN <<>>
           ELSE <<root.node>> \o (IF root.defaults THEN root.body ELSE <<>>)) \in Seq(NodeNames)
      BY <3>3
    <3> QED
      BY <2>1, <2>7, <3>1, <3>4 DEF IndexDefinition, Paths
  <2>8. CASE IndexPackage
    <3>1. PICK root \in todo : Take(root, <<root.node>>)
      BY <2>8 DEF IndexPackage
    <3>2. <<root.node>> \in Seq(NodeNames)
      BY <1>2 DEF Root
    <3> QED
      BY <2>1, <2>8, <3>1, <3>2 DEF IndexPackage, Paths
  <2>9. CASE IndexMember
    <3>1. PICK root \in todo : Take(root, IF root.kind = "Package" THEN <<>> ELSE <<root.node>>)
      BY <2>9 DEF IndexMember
    <3>2. (IF root.kind = "Package" THEN <<>> ELSE <<root.node>>) \in Seq(NodeNames)
      BY <1>2 DEF Root
    <3> QED
      BY <2>1, <2>9, <3>1, <3>2 DEF IndexMember, Paths
  <2>10. CASE NextPath
    <3>1. compilation["definitions"] \subseteq Root /\ compilation["packages"] \subseteq Root
          /\ compilation["members"] \subseteq Root
      BY <1>2, CompilationsAssumption DEF Paths
    <3>2. CASE path = "definitions"
      BY <1>2, <2>10, <3>1, <3>2 DEF NextPath, After, Paths
    <3>3. CASE path = "packages"
      BY <1>2, <2>10, <3>1, <3>3 DEF NextPath, After, Paths
    <3>4. CASE path = "members"
      BY <1>2, <2>10, <3>4 DEF NextPath, After, Paths
    <3> QED
      BY <2>10, <3>2, <3>3, <3>4 DEF NextPath, Paths
  <2>11. CASE VisitNode
    <3>1. Handle(Nodes[Item]) \in Result
      BY <2>3, <2>4, <2>11, HandlersReturnWork DEF VisitNode, At
    <3> QED
      BY <2>2, <2>11, <3>1 DEF VisitNode, At
  <2>12. CASE VisitMention
    <3>1. Handled(AddReference(Item), <<>>) \in Result
      BY <2>3, <2>12, AddsAreEntries DEF VisitMention, At, Handled, Result
    <3> QED
      BY <2>2, <2>12, <3>1 DEF VisitMention, At
  <2>13. CASE VisitConnection
    <3>1. HandleConnection(Nodes[Item]) \in Result
      BY <2>3, <2>4, <2>13, HandlersReturnWork DEF VisitConnection, At
    <3> QED
      BY <2>2, <2>13, <3>1 DEF VisitConnection, At
  <2>14. CASE VisitType
    <3>1. TraverseType(Types[Item]) \in Result
      BY <2>3, <2>5, <2>14, HandlersReturnWork DEF VisitType, At
    <3>2. (IF Types[Item].syntax \in visited THEN Handled(<<>>, <<>>)
           ELSE TraverseType(Types[Item])) \in Result
      BY <2>6, <3>1
    <3> QED
      BY <2>2, <2>14, <3>2 DEF VisitType, At
  <2>15. CASE VisitCondition
    <3>1. Item \in DOMAIN Conditions
      BY <2>3, <2>15 DEF VisitCondition, At
    <3>2. <<Conditions[Item]>> \in Seq(NodeNames)
      BY <3>1, AstAssumption
    <3>3. Visit(<<Conditions[Item]>>) \in Seq(Work)
      BY <3>2, ItemsAreWork DEF Visit
    <3>4. /\ <<>> \in Seq(Entries)
          /\ <<>> \in Seq(Work)
      OBVIOUS
    <3>5. (IF Item \in visited THEN <<>> ELSE Visit(<<Conditions[Item]>>)) \in Seq(Work)
      BY <3>3, <3>4
    <3>6. Handled(<<>>, IF Item \in visited THEN <<>> ELSE Visit(<<Conditions[Item]>>)) \in Result
      BY <3>4, <3>5 DEF Handled, Result
    <3> QED
      BY <2>2, <2>15, <3>6 DEF VisitCondition, At
  <2>16. CASE Sort
    <3>1. entries' \in Seq(Range(entries))
      BY <2>16 DEF Sort, Sortings, Rearranged
    <3>2. Range(entries) \subseteq Entries
      BY <1>2 DEF Range
    <3>3. entries' \in Seq(Entries)
      BY <3>1, <3>2
    <3> QED
      BY <1>2, <2>16, <3>3 DEF Sort, Paths
  <2>17. CASE UNCHANGED vars
    BY <1>2, <2>17 DEF vars
  <2> QED
    BY <1>2, <2>7, <2>8, <2>9, <2>10, <2>11, <2>12, <2>13, <2>14, <2>15, <2>16, <2>17 DEF Next
<1> QED
  BY <1>1, <1>2, PTL DEF Spec

-----------------------------------------------------------------------------
\* What the proofs below need of a published index: std::sort has been.
PublishedIsSorted == Published => Sorted(entries)

\* Nothing is entered after the sort.
LEMMA SortedWhenPublished == Spec => []PublishedIsSorted
<1>1. Init => PublishedIsSorted
  BY DEF Init, PublishedIsSorted, Published
<1>2. ASSUME TypeOK, PublishedIsSorted, [Next]_vars PROVE PublishedIsSorted'
  <2> USE DEF PublishedIsSorted, Published
  <2>1. CASE Sort
    BY <2>1 DEF Sort, Sortings
  <2>2. CASE NextPath
    BY <2>2 DEF NextPath, After, Paths
  <2>3. CASE IndexDefinition \/ IndexPackage \/ IndexMember
    BY <2>3 DEF IndexDefinition, IndexPackage, IndexMember, Take
  <2>4. CASE VisitNode \/ VisitMention \/ VisitConnection \/ VisitType \/ VisitCondition
    <3>1. path' = path /\ stack # <<>>
      BY <2>4 DEF VisitNode, VisitMention, VisitConnection, VisitType, VisitCondition, Add, At
    <3> QED
      BY <1>2, <3>1 DEF TypeOK, Paths
  <2>5. CASE UNCHANGED vars
    BY <1>2, <2>5 DEF vars
  <2> QED
    BY <1>2, <2>1, <2>2, <2>3, <2>4, <2>5 DEF Next
<1> QED
  BY <1>1, <1>2, TypeCorrect, PTL DEF Spec

\* In a sorted index whose neighbours do not overlap an entry ends before
\* the next one, and so any later one, starts.
LEMMA EndsBeforeLater ==
  ASSUME NEW s \in Seq(Entries), Sorted(s), ValidateNoRangeOverlaps(s),
         NEW i \in DOMAIN s, NEW j \in DOMAIN s, i < j
  PROVE  s[i].end <= s[j].start
<1>1. i + 1 \in DOMAIN s /\ i \in Nat /\ j \in Nat /\ i + 1 <= j
  OBVIOUS
<1>2. s[i] \in Entries /\ s[i + 1] \in Entries /\ s[j] \in Entries
  BY <1>1
<1>3. ~Overlap(s[i], s[i + 1])
  <2>1. ~Overlap(s[(i + 1) - 1], s[i + 1])
    BY <1>1 DEF ValidateNoRangeOverlaps
  <2>2. (i + 1) - 1 = i
    BY <1>1
  <2> QED
    BY <2>1, <2>2
<1>4. s[i].start <= s[i + 1].start
  BY <1>1, <1>2 DEF Sorted, StartsBefore, Entries
<1>5. s[i].end <= s[i + 1].start
  BY <1>2, <1>3, <1>4 DEF Overlap, Entries
<1>6. s[i + 1].start <= s[j].start
  <2>1. CASE i + 1 = j
    BY <2>1, <1>2 DEF Entries
  <2>2. CASE i + 1 < j
    BY <2>2, <1>1, <1>2 DEF Sorted, StartsBefore, Entries
  <2> QED
    BY <1>1, <2>1, <2>2
<1> QED
  BY <1>2, <1>5, <1>6 DEF Entries

\* A lookup answers with entries around the position only; if the validation
\* of the index is silent it finds whatever is there.  The entry before the
\* upper bound is enough, because every later one starts after the position
\* and, in a silent index, every earlier one has ended.
THEOREM LookupIsRight == Spec => []LookupFinds
<1>1. TypeOK /\ PublishedIsSorted => LookupFinds
  <2> SUFFICES ASSUME TypeOK, Sorted(entries), NEW position \in Positions
               PROVE  LET around == {e \in Range(entries) : position \in e.start .. e.end - 1}
                          found == LookupDefinitionAt(entries, position)
                      IN  /\ found \subseteq {e.def_loc : e \in around}
                          /\ ValidateNoRangeOverlaps(entries) => found = {e.def_loc : e \in around}
    BY DEF LookupFinds, PublishedIsSorted
  <2> DEFINE around == {e \in Range(entries) : position \in e.start .. e.end - 1}
             found == LookupDefinitionAt(entries, position)
  <2>1. entries \in Seq(Entries) /\ position \in Nat
    BY PositionsAssumption DEF TypeOK
  <2>2. \A i \in DOMAIN entries : entries[i] \in Entries /\ entries[i] \in Range(entries)
    BY <2>1 DEF Range
  <2>3. \A i \in DOMAIN entries :
          RangeContains(entries[i], position) <=> entries[i] \in around
    BY <2>1, <2>2 DEF RangeContains, Entries
  <2>4. found \subseteq {e.def_loc : e \in around}
    <3>1. ASSUME NEW d \in found PROVE \E e \in around : d = e.def_loc
      <4>1. PICK i \in Candidate(entries, position) :
              RangeContains(entries[i], position) /\ d = entries[i].def_loc
        BY <3>1 DEF LookupDefinitionAt
      <4>2. i \in DOMAIN entries
        BY <4>1 DEF Candidate
      <4> QED
        BY <4>1, <4>2, <2>3
    <3> QED
      BY <3>1
  <2>5. ASSUME ValidateNoRangeOverlaps(entries), NEW e \in around PROVE e.def_loc \in found
    <3>1. PICK i \in DOMAIN entries : entries[i] = e
      BY DEF Range
    <3>2. RangeContains(entries[i], position)
      BY <2>3, <3>1, <2>5
    <3>3. \A j \in DOMAIN entries : i < j => position < entries[j].start
      <4> SUFFICES ASSUME NEW j \in DOMAIN entries, i < j PROVE position < entries[j].start
        OBVIOUS
      <4>1. entries[i].end <= entries[j].start
        BY <2>1, <2>5, EndsBeforeLater
      <4> QED
        BY <2>1, <2>2, <3>2, <4>1 DEF RangeContains, Entries
    <3>4. i \in Candidate(entries, position)
      BY <3>2, <3>3 DEF Candidate, RangeContains
    <3> QED
      BY <3>1, <3>2, <3>4 DEF LookupDefinitionAt
  <2>6. ValidateNoRangeOverlaps(entries) => found = {e.def_loc : e \in around}
    BY <2>4, <2>5
  <2> QED
    BY <2>4, <2>6
<1> QED
  BY <1>1, TypeCorrect, SortedWhenPublished, PTL

\* The validation looks at neighbours; in a sorted index of ranges that are
\* not empty any two that overlap have neighbours between them that do.
THEOREM NeighboursAreEnough == Spec => []OverlapsAreSeen
<1>1. TypeOK /\ PublishedIsSorted => OverlapsAreSeen
  <2> SUFFICES ASSUME TypeOK, Sorted(entries)
               PROVE  ValidateNoRangeOverlaps(entries)
                        <=> \A i, j \in DOMAIN entries : i # j => ~Overlap(entries[i], entries[j])
    BY DEF OverlapsAreSeen, PublishedIsSorted
  <2>1. entries \in Seq(Entries)
    BY DEF TypeOK
  <2>2. ASSUME ValidateNoRangeOverlaps(entries),
               NEW i \in DOMAIN entries, NEW j \in DOMAIN entries, i # j
        PROVE  ~Overlap(entries[i], entries[j])
    <3>1. entries[i] \in Entries /\ entries[j] \in Entries /\ i \in Nat /\ j \in Nat
      BY <2>1
    <3>2. CASE i < j
      <4>1. entries[i].end <= entries[j].start
        BY <2>1, <2>2, <3>2, EndsBeforeLater
      <4> QED
        BY <3>1, <4>1 DEF Overlap, Entries
    <3>3. CASE j < i
      <4>1. entries[j].end <= entries[i].start
        BY <2>1, <2>2, <3>3, EndsBeforeLater
      <4> QED
        BY <3>1, <4>1 DEF Overlap, Entries
    <3> QED
      BY <2>2, <3>1, <3>2, <3>3
  <2>3. ASSUME \A i, j \in DOMAIN entries : i # j => ~Overlap(entries[i], entries[j])
        PROVE  ValidateNoRangeOverlaps(entries)
    <3> SUFFICES ASSUME NEW i \in DOMAIN entries, i > 1
                 PROVE  ~Overlap(entries[i - 1], entries[i])
      BY DEF ValidateNoRangeOverlaps
    <3>1. i - 1 \in DOMAIN entries /\ i - 1 # i
      BY <2>1
    <3> QED
      BY <2>3, <3>1
  <2> QED
    BY <2>2, <2>3
<1> QED
  BY <1>1, TypeCorrect, SortedWhenPublished, PTL

-----------------------------------------------------------------------------
(***************************************************************************)
(* What is entered, whatever the AST is: FileWork is all that the visitor  *)
(* reaches from the roots of the file, the smallest set of items that      *)
(* holds the roots and is closed under Done.                               *)
(***************************************************************************)
FileWork(c) == {w \in Work : \A W \in SUBSET Work : Closed(c, W) => w \in W}
Entered(c) == UNION {Range(Done(w).adds) : w \in FileWork(c)}

\* An item of the work leads to entries and to work.
LEMMA DoneIsResult == \A w \in Work : Done(w) \in Result
<1> SUFFICES ASSUME NEW w \in Work PROVE Done(w) \in Result
  OBVIOUS
<1>1. CASE w \in {"node"} \X NodeNames
  <2>1. w[1] = "node" /\ Nodes[w[2]] \in Node
    BY <1>1, AstAssumption
  <2>2. Done(w) = Handle(Nodes[w[2]])
    BY <2>1 DEF Done
  <2> QED
    BY <2>1, <2>2, HandlersReturnWork
<1>2. CASE w \in {"connection"} \X NodeNames
  <2>1. w[1] = "connection" /\ Nodes[w[2]] \in Node
    BY <1>2, AstAssumption
  <2>2. Done(w) = HandleConnection(Nodes[w[2]])
    BY <2>1 DEF Done
  <2> QED
    BY <2>1, <2>2, HandlersReturnWork
<1>3. CASE w \in {"type"} \X TypeNames
  <2>1. w[1] = "type" /\ Types[w[2]] \in Type
    BY <1>3, AstAssumption
  <2>2. Done(w) = TraverseType(Types[w[2]])
    BY <2>1 DEF Done
  <2> QED
    BY <2>1, <2>2, HandlersReturnWork
<1>4. CASE w \in {"condition"} \X DOMAIN Conditions
  <2>1. w[1] = "condition" /\ <<Conditions[w[2]]>> \in Seq(NodeNames)
    BY <1>4, AstAssumption
  <2>2. Done(w) = Handled(<<>>, Visit(<<Conditions[w[2]]>>))
    BY <2>1 DEF Done
  <2>3. Visit(<<Conditions[w[2]]>>) \in Seq(Work)
    BY <2>1, ItemsAreWork DEF Visit
  <2>4. <<>> \in Seq(Entries)
    OBVIOUS
  <2> QED
    BY <2>2, <2>3, <2>4 DEF Handled, Result
<1>5. CASE w \in {"mention"} \X Mention
  <2>1. w[1] = "mention" /\ w[2] \in Mention
    BY <1>5
  <2>2. Done(w) = Handled(AddReference(w[2]), <<>>)
    BY <2>1 DEF Done
  <2>3. AddReference(w[2]) \in Seq(Entries) /\ <<>> \in Seq(Work)
    BY <2>1, AddsAreEntries
  <2> QED
    BY <2>2, <2>3 DEF Handled, Result
<1> QED
  BY <1>1, <1>2, <1>3, <1>4, <1>5 DEF Work

\* From a root of a path the visitor starts with nodes.
LEMMA RootsAreWork ==
  \A p \in Paths : \A root \in Root : Visit(RootNodes(p, root)) \in Seq(Work)
<1> SUFFICES ASSUME NEW p \in Paths, NEW root \in Root
             PROVE  Visit(RootNodes(p, root)) \in Seq(Work)
  OBVIOUS
<1>1. <<root.node>> \in Seq(NodeNames) /\ root.body \in Seq(NodeNames)
  BY DEF Root
<1>2. RootNodes(p, root) \in Seq(NodeNames)
  <2>1. CASE p = "definitions"
    BY <1>1, <2>1 DEF RootNodes
  <2>2. CASE p = "packages"
    BY <1>1, <2>2 DEF RootNodes
  <2>3. CASE p = "members"
    BY <1>1, <2>3 DEF RootNodes
  <2> QED
    BY <2>1, <2>2, <2>3 DEF Paths
<1> QED
  BY <1>2, ItemsAreWork DEF Visit

\* What is reached from the roots of a file holds them and is closed.
LEMMA FileWorkIsClosed == \A c \in Compilations : Closed(c, FileWork(c))
<1> SUFFICES ASSUME NEW c \in Compilations PROVE Closed(c, FileWork(c))
  OBVIOUS
<1>1. ASSUME NEW p \in Paths, NEW root \in c[p], NEW w \in RootWork(c, p, root)
      PROVE  w \in FileWork(c)
  <2>1. root \in Root
    BY CompilationsAssumption
  <2>2. w \in Range(Visit(RootNodes(p, root)))
    BY <1>1 DEF RootWork
  <2>3. w \in Work
    BY <2>1, <2>2, RootsAreWork DEF Range
  <2>4. \A W \in SUBSET Work : Closed(c, W) => w \in W
    BY <1>1 DEF Closed
  <2> QED
    BY <2>3, <2>4 DEF FileWork
<1>2. ASSUME NEW w \in FileWork(c), NEW v \in Range(Done(w).work)
      PROVE  v \in FileWork(c)
  <2>1. w \in Work /\ Done(w).work \in Seq(Work)
    BY DoneIsResult DEF FileWork, Result
  <2>2. v \in Work
    BY <2>1 DEF Range
  <2>3. \A W \in SUBSET Work : Closed(c, W) => v \in W
    <3> SUFFICES ASSUME NEW W \in SUBSET Work, Closed(c, W) PROVE v \in W
      OBVIOUS
    <3>1. w \in W
      BY DEF FileWork
    <3> QED
      BY <3>1 DEF Closed
  <2> QED
    BY <2>2, <2>3 DEF FileWork
<1> QED
  BY <1>1, <1>2 DEF Closed

\* The elements of two sequences in a row are those of both.
LEMMA RangeOfBoth ==
  ASSUME NEW S, NEW s \in Seq(S), NEW t \in Seq(S)
  PROVE  Range(s \o t) = Range(s) \cup Range(t)
<1>1. ASSUME NEW x \in Range(s \o t) PROVE x \in Range(s) \cup Range(t)
  <2>1. PICK i \in DOMAIN (s \o t) : x = (s \o t)[i]
    BY <1>1 DEF Range
  <2>2. i \in 1 .. Len(s) \/ i - Len(s) \in 1 .. Len(t)
    BY <2>1
  <2>3. CASE i \in 1 .. Len(s)
    BY <2>1, <2>3 DEF Range
  <2>4. CASE i - Len(s) \in 1 .. Len(t) /\ i \notin 1 .. Len(s)
    <3>1. x = t[i - Len(s)] /\ i - Len(s) \in DOMAIN t
      BY <2>1, <2>4
    <3> QED
      BY <3>1, Zenon DEF Range
  <2> QED
    BY <2>2, <2>3, <2>4
<1>2. ASSUME NEW x \in Range(s) PROVE x \in Range(s \o t)
  <2>1. PICK i \in DOMAIN s : x = s[i]
    BY <1>2 DEF Range
  <2>2. i \in DOMAIN (s \o t) /\ (s \o t)[i] = x
    BY <2>1
  <2> QED
    BY <2>2, Zenon DEF Range
<1>3. ASSUME NEW x \in Range(t) PROVE x \in Range(s \o t)
  <2>1. PICK i \in DOMAIN t : x = t[i]
    BY <1>3 DEF Range
  <2>2. i + Len(s) \in DOMAIN (s \o t) /\ (s \o t)[i + Len(s)] = x
    BY <2>1
  <2> QED
    BY <2>2, Zenon DEF Range
<1> QED
  BY <1>1, <1>2, <1>3

\* A sequence is its first element and the rest.
LEMMA RangeOfHeadAndTail ==
  ASSUME NEW S, NEW s \in Seq(S), s # <<>>
  PROVE  Range(s) = {Head(s)} \cup Range(Tail(s)) /\ Head(s) \in S /\ Tail(s) \in Seq(S)
<1>1. Head(s) \in S /\ Tail(s) \in Seq(S) /\ <<Head(s)>> \in Seq(S)
  OBVIOUS
<1>2. s = <<Head(s)>> \o Tail(s)
  OBVIOUS
<1>3. Range(<<Head(s)>>) = {Head(s)}
  BY DEF Range
<1>4. Range(<<Head(s)>> \o Tail(s)) = Range(<<Head(s)>>) \cup Range(Tail(s))
  BY <1>1, RangeOfBoth
<1> QED
  BY <1>1, <1>2, <1>3, <1>4, Zenon

\* A path takes one of its roots, and starts with the nodes of it.
LEMMA RootStep ==
  ASSUME TypeOK, IndexDefinition \/ IndexPackage \/ IndexMember
  PROVE  /\ path \in Paths /\ stack = <<>>
         /\ UNCHANGED <<compilation, path, visited, entries>>
         /\ \E root \in todo :
              /\ root \in compilation[path] /\ todo' = todo \ {root}
              /\ stack' = IF IsInCurrentFile(root) THEN Visit(RootNodes(path, root)) ELSE <<>>
              /\ Range(stack') = RootWork(compilation, path, root)
<1>1. path \in Paths /\ stack = <<>>
  BY DEF IndexDefinition, IndexPackage, IndexMember, Paths
<1>2. PICK root \in todo : Take(root, RootNodes(path, root))
  <2>1. CASE IndexDefinition
    BY <2>1 DEF IndexDefinition, RootNodes
  <2>2. CASE IndexPackage
    BY <2>2 DEF IndexPackage, RootNodes
  <2>3. CASE IndexMember
    BY <2>3 DEF IndexMember, RootNodes
  <2> QED
    BY <2>1, <2>2, <2>3
<1>3. root \in compilation[path] /\ Range(<<>>) = {}
  BY <1>1 DEF TypeOK, Range
<1>4. Range(stack') = RootWork(compilation, path, root)
  BY <1>2, <1>3 DEF Take, RootWork
<1> QED
  BY <1>1, <1>2, <1>3, <1>4 DEF Take

\* Type syntaxes and conditions that were visited are not visited again.
Skipped ==
  \/ At("type") /\ Types[Item].syntax \in visited
  \/ At("condition") /\ Item \in visited

\* The visitor does what Done says of an item, or skips it and knows nothing
\* new; what it has not skipped it knows from then on.
LEMMA ItemEffect ==
  ASSUME VisitNode \/ VisitMention \/ VisitConnection \/ VisitType \/ VisitCondition
  PROVE  /\ \/ ~Skipped /\ Add(Done(Head(stack)))
            \/ Skipped /\ Add(Handled(<<>>, <<>>)) /\ visited' \subseteq visited
         /\ visited \subseteq visited'
         /\ At("type") /\ Types[Item].syntax # "none" => Types[Item].syntax \in visited'
         /\ At("condition") => Item \in visited'
<1>1. CASE VisitNode
  BY <1>1 DEF VisitNode, At, Item, Done, Skipped
<1>2. CASE VisitMention
  BY <1>2 DEF VisitMention, At, Item, Done, Skipped
<1>3. CASE VisitConnection
  BY <1>3 DEF VisitConnection, At, Item, Done, Skipped
<1>4. CASE VisitType
  <2>1. /\ At("type") /\ ~At("condition")
        /\ visited' = visited \cup ({Types[Item].syntax} \ {"none"})
    BY <1>4 DEF VisitType, At
  <2>2. CASE Types[Item].syntax \in visited
    <3>1. Add(Handled(<<>>, <<>>))
      BY <1>4, <2>2 DEF VisitType
    <3> QED
      BY <2>1, <2>2, <3>1 DEF Skipped
  <2>3. CASE Types[Item].syntax \notin visited
    <3>1. Add(TraverseType(Types[Item]))
      BY <1>4, <2>3 DEF VisitType
    <3>2. Add(Done(Head(stack)))
      BY <2>1, <3>1 DEF At, Item, Done
    <3> QED
      BY <2>1, <2>3, <3>2 DEF Skipped
  <2> QED
    BY <2>2, <2>3
<1>5. CASE VisitCondition
  <2>1. At("condition") /\ ~At("type") /\ visited' = visited \cup {Item}
    BY <1>5 DEF VisitCondition, At
  <2>2. CASE Item \in visited
    <3>1. Add(Handled(<<>>, <<>>))
      BY <1>5, <2>2 DEF VisitCondition
    <3> QED
      BY <2>1, <2>2, <3>1 DEF Skipped
  <2>3. CASE Item \notin visited
    <3>1. Add(Handled(<<>>, Visit(<<Conditions[Item]>>)))
      BY <1>5, <2>3 DEF VisitCondition
    <3>2. Add(Done(Head(stack)))
      BY <2>1, <3>1 DEF At, Item, Done
    <3> QED
      BY <2>1, <2>3, <3>2 DEF Skipped
  <2> QED
    BY <2>2, <2>3
<1> QED
  BY <1>1, <1>2, <1>3, <1>4, <1>5

\* A step of the visitor takes the first item of its work; it does what Done
\* says or, if it knows the item, nothing.
LEMMA ItemStep ==
  ASSUME TypeOK, VisitNode \/ VisitMention \/ VisitConnection \/ VisitType \/ VisitCondition
  PROVE  /\ stack # <<>> /\ Head(stack) \in Work /\ Tail(stack) \in Seq(Work)
         /\ Range(stack) = {Head(stack)} \cup Range(Tail(stack))
         /\ UNCHANGED <<compilation, path, todo>>
         /\ \/ /\ Range(entries') = Range(entries) \cup Range(Done(Head(stack)).adds)
               /\ Range(stack') = Range(Done(Head(stack)).work) \cup Range(Tail(stack))
            \/ /\ Skipped /\ visited' \subseteq visited
               /\ entries' = entries /\ stack' = Tail(stack)
<1>1. stack # <<>> /\ stack \in Seq(Work) /\ entries \in Seq(Entries)
  BY DEF VisitNode, VisitMention, VisitConnection, VisitType, VisitCondition, At, TypeOK
<1>2. /\ Head(stack) \in Work /\ Tail(stack) \in Seq(Work)
      /\ Range(stack) = {Head(stack)} \cup Range(Tail(stack))
  BY <1>1, RangeOfHeadAndTail
<1>3. UNCHANGED <<compilation, path, todo>>
  BY DEF VisitNode, VisitMention, VisitConnection, VisitType, VisitCondition, Add
<1>4. \/ Add(Done(Head(stack)))
      \/ Skipped /\ Add(Handled(<<>>, <<>>)) /\ visited' \subseteq visited
  BY ItemEffect
<1>5. CASE Add(Done(Head(stack)))
  <2>1. Done(Head(stack)).adds \in Seq(Entries) /\ Done(Head(stack)).work \in Seq(Work)
    BY <1>2, DoneIsResult DEF Result
  <2>2. entries' = entries \o Done(Head(stack)).adds /\ stack' = Done(Head(stack)).work \o Tail(stack)
    BY <1>5 DEF Add
  <2>3. Range(entries') = Range(entries) \cup Range(Done(Head(stack)).adds)
    BY <1>1, <2>1, <2>2, RangeOfBoth
  <2>4. \A a, b \in Seq(Work) : Range(a \o b) = Range(a) \cup Range(b)
    BY RangeOfBoth
  <2>5. Range(stack') = Range(Done(Head(stack)).work) \cup Range(Tail(stack))
    BY <1>2, <2>1, <2>2, <2>4
  <2> QED
    BY <1>1, <1>2, <1>3, <2>3, <2>5
<1>6. CASE Skipped /\ Add(Handled(<<>>, <<>>)) /\ visited' \subseteq visited
  <2>1. entries' = entries \o <<>> /\ stack' = <<>> \o Tail(stack)
    BY <1>6 DEF Add, Handled
  <2>2. entries' = entries /\ stack' = Tail(stack)
    BY <1>1, <1>2, <2>1
  <2> QED
    BY <1>1, <1>2, <1>3, <1>6, <2>2
<1> QED
  BY <1>4, <1>5, <1>6

\* std::sort moves the entries and does no more.
LEMMA SortKeepsEntries ==
  ASSUME TypeOK, Sort
  PROVE  /\ entries' \in Seq(Entries) /\ Range(entries') = Range(entries)
         /\ \A e \in Range(entries) : Times(e, entries') = Times(e, entries)
         /\ UNCHANGED <<compilation, todo, stack, visited>>
<1>1. /\ Rearranged(entries', entries) /\ entries \in Seq(Entries)
      /\ UNCHANGED <<compilation, todo, stack, visited>>
  BY DEF Sort, Sortings, TypeOK
<1>2. entries' \in Seq(Range(entries)) /\ Range(entries) \subseteq Entries
  BY <1>1 DEF Rearranged, Range
<1>3. entries' \in Seq(Entries) /\ Range(entries') \subseteq Range(entries)
  BY <1>2 DEF Range
<1>4. ASSUME NEW e \in Range(entries) PROVE e \in Range(entries')
  <2> DEFINE before == {i \in DOMAIN entries : entries[i] = e}
             after == {i \in DOMAIN entries' : entries'[i] = e}
  <2>1. Cardinality(after) = Cardinality(before)
    BY <1>1 DEF Rearranged, Times
  <2>2. IsFiniteSet(before) /\ before # {}
    <3>1. before \subseteq 1 .. Len(entries) /\ Len(entries) \in Nat /\ before # {}
      BY <1>1 DEF Range
    <3>2. IsFiniteSet(1 .. Len(entries))
      BY <3>1, FS_Interval
    <3> HIDE DEF before
    <3> QED
      BY <3>1, <3>2, FS_Subset
  <2> HIDE DEF before
  <2>3. Cardinality(after) # 0
    BY <2>1, <2>2, FS_EmptySet
  <2>4. after # {}
    BY <2>3, FS_EmptySet
  <2> QED
    BY <2>4 DEF Range
<1> QED
  BY <1>1, <1>3, <1>4 DEF Rearranged

-----------------------------------------------------------------------------
(***************************************************************************)
(* Nothing but the file: the visitor never leaves what is reached from its *)
(* roots.                                                                  *)
(***************************************************************************)
Reached ==
  /\ Range(stack) \subseteq FileWork(compilation)
  /\ Range(entries) \subseteq Entered(compilation)

\* Every entry is one that an item of the file adds: nothing of the
\* preamble's compilation, of another file's roots or of a declaration that
\* the handlers do not visit is ever entered, in whatever order the hash
\* tables give the roots.
THEOREM NothingElseIsEntered == Spec => []Reached
<1>1. Init => Reached
  <2> SUFFICES ASSUME Init PROVE Reached
    OBVIOUS
  <2>1. Range(stack) = {} /\ Range(entries) = {}
    BY DEF Init, Range
  <2> QED
    BY <2>1 DEF Reached
<1>2. ASSUME TypeOK, Reached, [Next]_vars PROVE Reached'
  <2>1. compilation \in Compilations /\ Closed(compilation, FileWork(compilation))
    BY <1>2, FileWorkIsClosed DEF TypeOK
  <2>2. CASE IndexDefinition \/ IndexPackage \/ IndexMember
    <3>1. PICK root \in todo :
            root \in compilation[path] /\ Range(stack') = RootWork(compilation, path, root)
      BY <1>2, <2>2, RootStep
    <3>2. path \in Paths /\ compilation' = compilation /\ entries' = entries
      BY <1>2, <2>2, RootStep
    <3>3. Range(stack') \subseteq FileWork(compilation)
      BY <2>1, <3>1, <3>2, Zenon DEF Closed
    <3> QED
      BY <1>2, <3>2, <3>3 DEF Reached
  <2>3. CASE VisitNode \/ VisitMention \/ VisitConnection \/ VisitType \/ VisitCondition
    <3> DEFINE w == Head(stack)
    <3>1. /\ compilation' = compilation
          /\ Range(stack) = {w} \cup Range(Tail(stack))
          /\ \/ /\ Range(entries') = Range(entries) \cup Range(Done(w).adds)
                /\ Range(stack') = Range(Done(w).work) \cup Range(Tail(stack))
             \/ entries' = entries /\ stack' = Tail(stack)
      BY <1>2, <2>3, ItemStep
    <3> HIDE DEF w
    <3>2. w \in FileWork(compilation) /\ Range(Tail(stack)) \subseteq FileWork(compilation)
      BY <1>2, <3>1 DEF Reached
    <3>3. Range(Done(w).work) \subseteq FileWork(compilation)
      BY <2>1, <3>2 DEF Closed
    <3>4. Range(Done(w).adds) \subseteq Entered(compilation)
      BY <3>2 DEF Entered
    <3>5. Range(stack') \subseteq FileWork(compilation)
      BY <3>1, <3>2, <3>3
    <3>6. Range(entries') \subseteq Entered(compilation)
      BY <1>2, <3>1, <3>4 DEF Reached
    <3> QED
      BY <3>1, <3>5, <3>6 DEF Reached
  <2>4. CASE NextPath
    BY <1>2, <2>4 DEF NextPath, Reached
  <2>5. CASE Sort
    <3>1. entries' \in Seq(Range(entries)) /\ stack' = stack /\ compilation' = compilation
      BY <2>5 DEF Sort, Sortings, Rearranged
    <3>2. Range(entries') \subseteq Range(entries)
      BY <3>1 DEF Range
    <3> QED
      BY <1>2, <3>1, <3>2 DEF Reached
  <2>6. CASE UNCHANGED vars
    BY <1>2, <2>6 DEF vars, Reached
  <2> QED
    BY <1>2, <2>2, <2>3, <2>4, <2>5, <2>6 DEF Next
<1> QED
  BY <1>1, <1>2, TypeCorrect, PTL DEF Spec

\* No handler adds anything but the declaration of its node.
LEMMA HandlersDeclare ==
  ASSUME NEW n \in Node
  PROVE  Handle(n).adds \in {<<>>, Declared(n)} /\ HandleConnection(n).adds = <<>>
<1>1. /\ HandleValue(n).adds \in {<<>>, Declared(n)} /\ HandleMember(n).adds = Declared(n)
      /\ HandleDefinition(n).adds = Declared(n) /\ HandleImport(n).adds = <<>>
  BY DEF HandleValue, HandleMember, HandleDefinition, HandleImport, Handled
<1>2. /\ HandleGenericClassDef(n).adds = Declared(n)
      /\ HandleClassType(n).adds \in {<<>>, Declared(n)}
      /\ HandleInterfacePort(n).adds \in {<<>>, Declared(n)}
  BY DEF HandleGenericClassDef, HandleClassType, HandleInterfacePort, Handled
<1>3. /\ HandleModport(n).adds = Declared(n) /\ HandleModportPort(n).adds = <<>>
      /\ HandleInstanceArray(n).adds = Declared(n)
      /\ HandleInstance(n).adds \in {<<>>, Declared(n)}
  BY DEF HandleModport, HandleModportPort, HandleInstanceArray, HandleInstance, Handled
<1>4. /\ HandleGenerateBlockArray(n).adds = <<>> /\ HandleGenerateBlock(n).adds = Declared(n)
      /\ HandleScope(n).adds = Declared(n) /\ HandleUninstantiatedDef(n).adds = Declared(n)
  BY DEF HandleGenerateBlockArray, HandleGenerateBlock, HandleScope, HandleUninstantiatedDef, Handled
<1>5. /\ HandleConnection(n).adds = <<>> /\ HandleNamedValue(n).adds = <<>>
      /\ HandleArbitrarySymbol(n).adds = <<>> /\ HandleCall(n).adds = <<>>
  BY DEF HandleConnection, HandleNamedValue, HandleArbitrarySymbol, HandleCall, Handled
<1>6. /\ HandleConversion(n).adds = <<>> /\ HandleMemberAccess(n).adds = <<>>
      /\ HandleAssignmentPattern(n).adds = <<>> /\ Handled(<<>>, VisitDefault(n)).adds = <<>>
  BY DEF HandleConversion, HandleMemberAccess, HandleAssignmentPattern, Handled
<1> QED
  BY <1>1, <1>2, <1>3, <1>4, <1>5, <1>6 DEF Handle

\* An entry is a reference written in the file, or the definition of a node
\* that was visited.
LEMMA EntryKinds ==
  ASSUME NEW w \in Work, NEW e \in Range(Done(w).adds), e.buffer # Here
  PROVE  /\ e.is_definition
         /\ \E n \in NodeNames : /\ w = <<"node", n>>
                                 /\ Nodes[n].name \in Token /\ e.buffer = Nodes[n].name.buffer
<1>0. (\A a : Range(<<a>>) = {a}) /\ \A a \in Entries : <<a>> \in Seq(Entries)
  BY DEF Range
<1>1. ASSUME NEW m \in Mention, NEW x \in Range(AddReference(m)) PROVE x.buffer = Here
  <2>1. AddReference(m) # <<>>
    BY <1>1 DEF Range
  <2>2. m.at.buffer = Here /\ AddReference(m) = <<Entry(m.at, m.to, FALSE)>>
    BY <2>1, Zenon DEF AddReference
  <2>3. x = Entry(m.at, m.to, FALSE)
    BY <1>0, <1>1, <2>2
  <2> QED
    BY <2>2, <2>3 DEF Entry
<1>2. ASSUME NEW n \in Node, NEW x \in Range(Declared(n)), x.buffer # Here
      PROVE  n.name \in Token /\ x = Entry(n.name, n.name, TRUE)
  <2>1. [at |-> n.label, to |-> n.name] \in Mention
    BY DEF Node, Mention
  <2>2. AddReference([at |-> n.label, to |-> n.name]) \in Seq(Entries)
    BY <2>1, AddsAreEntries
  <2>3. AddDefinition(n.name) \in Seq(Entries)
    <3>1. CASE n.name = NoToken
      BY <3>1 DEF AddDefinition
    <3>2. CASE n.name # NoToken
      <4>1. n.name \in Token
        BY <3>2 DEF Node
      <4>2. Entry(n.name, n.name, TRUE) \in Entries
        BY <4>1 DEF Entry, Entries, Token
      <4> QED
        BY <1>0, <3>2, <4>2 DEF AddDefinition
    <3> QED
      BY <3>1, <3>2
  <2>4. Range(Declared(n)) = Range(AddDefinition(n.name))
                             \cup Range(AddReference([at |-> n.label, to |-> n.name]))
    BY <2>2, <2>3, RangeOfBoth DEF Declared
  <2>5. x \in Range(AddDefinition(n.name))
    BY <1>1, <1>2, <2>1, <2>4
  <2>6. n.name # NoToken /\ x = Entry(n.name, n.name, TRUE)
    <3>1. n.name # NoToken
      BY <2>5 DEF AddDefinition, Range
    <3>2. AddDefinition(n.name) = <<Entry(n.name, n.name, TRUE)>>
      BY <3>1, Zenon DEF AddDefinition
    <3> QED
      BY <1>0, <2>5, <3>1, <3>2
  <2> QED
    BY <2>6 DEF Node
<1>3. Range(<<>>) = {}
  BY DEF Range
<1>4. CASE w \in {"node"} \X NodeNames
  <2>1. /\ w[1] = "node" /\ w[2] \in NodeNames /\ w = <<"node", w[2]>>
        /\ Nodes[w[2]] \in Node
    BY <1>4, AstAssumption
  <2>2. Done(w) = Handle(Nodes[w[2]])
    BY <2>1 DEF Done
  <2>3. e \in Range(Declared(Nodes[w[2]]))
    BY <1>3, <2>1, <2>2, HandlersDeclare
  <2>4. Nodes[w[2]].name \in Token /\ e = Entry(Nodes[w[2]].name, Nodes[w[2]].name, TRUE)
    BY <1>2, <2>1, <2>3
  <2>5. e.is_definition /\ e.buffer = Nodes[w[2]].name.buffer
    BY <2>4 DEF Entry
  <2> QED
    BY <2>1, <2>4, <2>5
<1>5. CASE w \in {"connection"} \X NodeNames
  <2>1. w[1] = "connection" /\ Nodes[w[2]] \in Node
    BY <1>5, AstAssumption
  <2>2. Done(w) = HandleConnection(Nodes[w[2]])
    BY <2>1 DEF Done
  <2> QED
    BY <1>3, <2>1, <2>2, HandlersDeclare
<1>6. CASE w \in {"type"} \X TypeNames
  <2>1. w[1] = "type"
    BY <1>6
  <2>2. Done(w).adds = <<>>
    BY <2>1 DEF Done, TraverseType, Handled
  <2> QED
    BY <1>3, <2>2
<1>7. CASE w \in {"condition"} \X DOMAIN Conditions
  <2>1. w[1] = "condition"
    BY <1>7
  <2>2. Done(w).adds = <<>>
    BY <2>1 DEF Done, Handled
  <2> QED
    BY <1>3, <2>2
<1>8. CASE w \in {"mention"} \X Mention
  <2>1. w[1] = "mention" /\ w[2] \in Mention
    BY <1>8
  <2>2. Done(w).adds = AddReference(w[2])
    BY <2>1 DEF Done, Handled
  <2> QED
    BY <1>1, <2>1, <2>2
<1> QED
  BY <1>4, <1>5, <1>6, <1>7, <1>8 DEF Work

\* The index is not only about one file, though its header says so: what has
\* the coordinates of another is entered if a member that is included into a
\* body declares it there, and it is not entered otherwise.
ForeignAreIncluded ==
  \A e \in Range(entries) :
    e.buffer # Here => e.is_definition /\ e.buffer \in compilation.included

\* If what slang declares below the roots of a file stands in it or in what it
\* includes, an entry with the coordinates of another file is a definition of
\* an included file (a reference is entered only where it stands in the file,
\* also if slang copied its expression from elsewhere).
THEOREM ForeignIsIncluded ==
  ASSUME \A c \in Compilations : NamesAreOwn(c, FileWork(c))
  PROVE  Spec => []ForeignAreIncluded
<1>1. TypeOK /\ Reached => ForeignAreIncluded
  <2> SUFFICES ASSUME TypeOK, Reached, NEW e \in Range(entries), e.buffer # Here
               PROVE  e.is_definition /\ e.buffer \in compilation.included
    BY DEF ForeignAreIncluded
  <2>1. PICK w \in FileWork(compilation) : e \in Range(Done(w).adds)
    BY DEF Reached, Entered
  <2>2. w \in Work
    BY DEF FileWork
  <2>3. e.is_definition
    BY <2>1, <2>2, EntryKinds
  <2>4. PICK n \in NodeNames : /\ w = <<"node", n>>
                               /\ Nodes[n].name \in Token /\ e.buffer = Nodes[n].name.buffer
    BY <2>1, <2>2, EntryKinds
  <2>5. e.buffer \in {Here} \cup compilation.included
    BY <2>1, <2>4 DEF NamesAreOwn, TypeOK
  <2> QED
    BY <2>3, <2>5
<1> QED
  BY <1>1, TypeCorrect, NothingElseIsEntered, PTL

-----------------------------------------------------------------------------
(***************************************************************************)
(* All of the file: an item that was done has its entries in the index,    *)
(* and what it led to is done or still to be done; so are the roots that   *)
(* were taken, and whatever the visitor takes for known.                   *)
(***************************************************************************)
Before == [definitions |-> {}, packages |-> {"definitions"},
           members |-> {"definitions", "packages"}, sort |-> Paths, published |-> Paths]
Taken(p) ==
  {root \in compilation[p] : p \in Before[path] \/ (p = path /\ root \notin todo)}

KnownSyntax(D, s) == s # "none" /\ \E t \in TypeNames : Types[t].syntax = s /\ <<"type", t>> \in D
KnownCondition(D, s) == s \in DOMAIN Conditions /\ <<"condition", s>> \in D

Accounted(D) ==
  /\ \A w \in D : Range(Done(w).adds) \subseteq Range(entries)
  /\ \A w \in D : Range(Done(w).work) \subseteq D \cup Range(stack)
  /\ \A p \in Paths : \A root \in Taken(p) :
       RootWork(compilation, p, root) \subseteq D \cup Range(stack)
  /\ \A s \in visited : KnownSyntax(D, s) \/ KnownCondition(D, s)

WorkInv == \E D \in SUBSET Work : Accounted(D)

\* An item that the visitor skips leads to nothing that is not done or still
\* to be done.
LEMMA SkippedIsKnown ==
  ASSUME SyntaxIsShared, TypeOK, NEW D \in SUBSET Work, Accounted(D), Skipped, stack # <<>>
  PROVE  /\ Range(Done(Head(stack)).adds) = {}
         /\ Range(Done(Head(stack)).work) \subseteq D \cup Range(stack)
<1>1. Head(stack) \in Work
  BY DEF TypeOK
<1>2. Range(<<>>) = {}
  BY DEF Range
<1>3. CASE At("type") /\ Types[Item].syntax \in visited
  <2>1. Item \in TypeNames /\ Head(stack)[1] = "type" /\ Head(stack)[2] = Item
    BY <1>1, <1>3 DEF At, Item, Work
  <2>2. Done(Head(stack)) = TraverseType(Types[Item])
    BY <2>1 DEF Done
  <2>3. KnownSyntax(D, Types[Item].syntax)
    BY <1>3, <2>1 DEF Accounted, SyntaxIsShared, KnownCondition
  <2>4. PICK t \in TypeNames : Types[t].syntax = Types[Item].syntax /\ <<"type", t>> \in D
    BY <2>3 DEF KnownSyntax
  <2>5. Range(TraverseType(Types[t]).work) = Range(TraverseType(Types[Item]).work)
    BY <2>1, <2>3, <2>4 DEF SyntaxIsShared, KnownSyntax
  <2>6. Done(<<"type", t>>) = TraverseType(Types[t])
    BY DEF Done
  <2>7. Range(Done(<<"type", t>>).work) \subseteq D \cup Range(stack)
    BY <2>4 DEF Accounted
  <2>8. TraverseType(Types[Item]).adds = <<>>
    BY DEF TraverseType, Handled
  <2> QED
    BY <1>2, <2>2, <2>5, <2>6, <2>7, <2>8
<1>4. CASE At("condition") /\ Item \in visited
  <2>1. Item \in DOMAIN Conditions /\ Head(stack)[1] = "condition" /\ Head(stack) = <<"condition", Item>>
    BY <1>1, <1>4 DEF At, Item, Work
  <2>2. KnownCondition(D, Item)
    BY <1>4, <2>1 DEF Accounted, SyntaxIsShared, KnownSyntax
  <2>3. Head(stack) \in D
    BY <2>1, <2>2 DEF KnownCondition
  <2>4. Range(Done(Head(stack)).work) \subseteq D \cup Range(stack)
    BY <2>3 DEF Accounted
  <2>5. Done(Head(stack)).adds = <<>>
    BY <2>1 DEF Done, Handled
  <2> QED
    BY <1>2, <2>4, <2>5
<1> QED
  BY <1>3, <1>4 DEF Skipped

\* What is new among the known is what the visitor has just done.
LEMMA KnownStays ==
  ASSUME TypeOK, NEW D \in SUBSET Work, Accounted(D), stack # <<>>,
         VisitNode \/ VisitMention \/ VisitConnection \/ VisitType \/ VisitCondition,
         NEW s \in visited'
  PROVE  KnownSyntax(D \cup {Head(stack)}, s) \/ KnownCondition(D \cup {Head(stack)}, s)
<1>1. Head(stack) \in Work
  BY DEF TypeOK
<1>2. CASE s \in visited
  BY <1>2 DEF Accounted, KnownSyntax, KnownCondition
<1>3. CASE s \notin visited
  <2>1. CASE VisitType
    <3>1. s = Types[Item].syntax /\ s # "none" /\ At("type")
      BY <1>3, <2>1 DEF VisitType
    <3>2. Item \in TypeNames /\ Head(stack) = <<"type", Item>>
      BY <1>1, <3>1 DEF At, Item, Work
    <3> QED
      BY <3>1, <3>2 DEF KnownSyntax
  <2>2. CASE VisitCondition
    <3>1. s = Item /\ At("condition")
      BY <1>3, <2>2 DEF VisitCondition
    <3>2. Item \in DOMAIN Conditions /\ Head(stack) = <<"condition", Item>>
      BY <1>1, <3>1 DEF At, Item, Work
    <3> QED
      BY <3>1, <3>2 DEF KnownCondition
  <2>3. CASE VisitNode \/ VisitMention \/ VisitConnection
    BY <1>3, <2>3 DEF VisitNode, VisitMention, VisitConnection
  <2> QED
    BY <2>1, <2>2, <2>3
<1> QED
  BY <1>2, <1>3

\* When a path has taken all its roots the next one has taken none.
LEMMA TakenSoFar ==
  ASSUME TypeOK
  PROVE  /\ IndexDefinition \/ IndexPackage \/ IndexMember
              => \A p \in Paths : \A root \in Taken(p)' :
                   root \in Taken(p) \/ (p = path /\ root \in todo /\ root \notin todo')
         /\ NextPath \/ Sort => \A p \in Paths : Taken(p)' \subseteq Taken(p)
<1>1. ASSUME IndexDefinition \/ IndexPackage \/ IndexMember
      PROVE  \A p \in Paths : \A root \in Taken(p)' :
               root \in Taken(p) \/ (p = path /\ root \in todo /\ root \notin todo')
  BY <1>1, RootStep DEF Taken
<1>2. ASSUME NextPath PROVE \A p \in Paths : Taken(p)' \subseteq Taken(p)
  <2>1. compilation' = compilation /\ todo = {} /\ path \in Paths /\ path' = After[path]
    BY <1>2 DEF NextPath
  <2>2. path # "members" => todo' = compilation[path']
    BY <1>2 DEF NextPath
  <2>3. CASE path = "definitions"
    BY <2>1, <2>2, <2>3 DEF Taken, Before, Paths, After
  <2>4. CASE path = "packages"
    BY <2>1, <2>2, <2>4 DEF Taken, Before, Paths, After
  <2>5. CASE path = "members"
    BY <2>1, <2>5 DEF Taken, Before, Paths, After
  <2> QED
    BY <2>1, <2>3, <2>4, <2>5 DEF Paths
<1>3. ASSUME Sort PROVE \A p \in Paths : Taken(p)' \subseteq Taken(p)
  BY <1>3 DEF Sort, Taken, Before, Paths
<1> QED
  BY <1>1, <1>2, <1>3

\* At every moment some set of items is done, and accounts for the entries
\* and for the work.
LEMMA WorkIsAccounted ==
  ASSUME SyntaxIsShared
  PROVE  Spec => []WorkInv
<1>1. Init => WorkInv
  <2> SUFFICES ASSUME Init PROVE Accounted({})
    BY DEF WorkInv
  <2>1. \A p \in Paths : Taken(p) = {}
    BY DEF Init, Taken, Before, Paths
  <2> QED
    BY <2>1 DEF Init, Accounted
<1>2. ASSUME TypeOK, WorkInv, [Next]_vars PROVE WorkInv'
  <2>0. PICK D \in SUBSET Work : Accounted(D)
    BY <1>2 DEF WorkInv
  <2>1. CASE IndexDefinition \/ IndexPackage \/ IndexMember
    <3>1. stack = <<>> /\ UNCHANGED <<compilation, path, visited, entries>> /\ path \in Paths
      BY <1>2, <2>1, RootStep
    <3>2. PICK taken \in todo :
            todo' = todo \ {taken} /\ Range(stack') = RootWork(compilation, path, taken)
      BY <1>2, <2>1, RootStep
    <3>3. Range(stack) = {}
      BY <3>1 DEF Range
    <3>4. ASSUME NEW p \in Paths, NEW root \in Taken(p)'
          PROVE  RootWork(compilation, p, root)' \subseteq D \cup Range(stack')
      <4>1. RootWork(compilation, p, root)' = RootWork(compilation, p, root)
        BY <3>1 DEF RootWork
      <4>2. CASE root \in Taken(p)
        <5>1. RootWork(compilation, p, root) \subseteq D \cup Range(stack)
          BY <2>0, <4>2 DEF Accounted
        <5> QED
          BY <3>3, <4>1, <5>1
      <4>3. CASE p = path /\ root \in todo /\ root \notin todo'
        <5>1. root = taken
          BY <3>2, <4>3
        <5> QED
          BY <3>2, <4>1, <4>3, <5>1
      <4> QED
        BY <1>2, <2>1, <4>2, <4>3, TakenSoFar
    <3>5. \A w \in D : /\ Range(Done(w).adds) \subseteq Range(entries')
                       /\ Range(Done(w).work) \subseteq D \cup Range(stack')
      BY <2>0, <3>1, <3>3 DEF Accounted
    <3>6. \A s \in visited' : KnownSyntax(D, s) \/ KnownCondition(D, s)
      BY <2>0, <3>1 DEF Accounted
    <3>7. Accounted(D)'
      BY <3>4, <3>5, <3>6 DEF Accounted
    <3> QED
      BY <3>7 DEF WorkInv
  <2>2. CASE VisitNode \/ VisitMention \/ VisitConnection \/ VisitType \/ VisitCondition
    <3> DEFINE w == Head(stack)
               E == D \cup {w}
    <3>1. /\ stack # <<>> /\ w \in Work
          /\ Range(stack) = {w} \cup Range(Tail(stack))
          /\ UNCHANGED <<compilation, path, todo>>
      BY <1>2, <2>2, ItemStep
    <3>2. \/ /\ Range(entries') = Range(entries) \cup Range(Done(w).adds)
             /\ Range(stack') = Range(Done(w).work) \cup Range(Tail(stack))
          \/ Skipped /\ entries' = entries /\ stack' = Tail(stack)
      BY <1>2, <2>2, ItemStep
    <3>3. \A s \in visited' : KnownSyntax(E, s) \/ KnownCondition(E, s)
      BY <1>2, <2>0, <2>2, <3>1, KnownStays
    <3>4. Skipped => /\ Range(Done(w).adds) = {}
                     /\ Range(Done(w).work) \subseteq D \cup Range(stack)
      BY <1>2, <2>0, <3>1, SkippedIsKnown
    <3> HIDE DEF w
    <3>5. /\ Range(entries) \subseteq Range(entries')
          /\ Range(Done(w).adds) \subseteq Range(entries')
          /\ D \cup Range(stack) \subseteq E \cup Range(stack')
          /\ Range(Done(w).work) \subseteq E \cup Range(stack')
      BY <3>1, <3>2, <3>4
    <3>6. \A v \in E : /\ Range(Done(v).adds) \subseteq Range(entries')
                       /\ Range(Done(v).work) \subseteq E \cup Range(stack')
      <4> SUFFICES ASSUME NEW v \in E
                   PROVE  /\ Range(Done(v).adds) \subseteq Range(entries')
                          /\ Range(Done(v).work) \subseteq E \cup Range(stack')
        OBVIOUS
      <4>1. CASE v = w
        BY <3>5, <4>1
      <4>2. CASE v \in D
        <5>1. /\ Range(Done(v).adds) \subseteq Range(entries)
              /\ Range(Done(v).work) \subseteq D \cup Range(stack)
          BY <2>0, <4>2 DEF Accounted
        <5> QED
          BY <3>5, <5>1
      <4> QED
        BY <4>1, <4>2
    <3>7. ASSUME NEW p \in Paths, NEW root \in Taken(p)'
          PROVE  RootWork(compilation, p, root)' \subseteq E \cup Range(stack')
      <4>1. RootWork(compilation, p, root)' = RootWork(compilation, p, root) /\ root \in Taken(p)
        BY <3>1, <3>7 DEF RootWork, Taken
      <4>2. RootWork(compilation, p, root) \subseteq D \cup Range(stack)
        BY <2>0, <4>1 DEF Accounted
      <4> QED
        BY <3>5, <4>1, <4>2
    <3>8. E \in SUBSET Work
      BY <3>1
    <3> HIDE DEF E
    <3>9. PICK F \in SUBSET Work : F = E
      BY <3>8
    <3>10. Accounted(F)'
      BY <3>3, <3>6, <3>7, <3>9 DEF Accounted
    <3> QED
      BY <3>10 DEF WorkInv
  <2>3. CASE NextPath \/ Sort
    <3>1. /\ UNCHANGED <<compilation, stack, visited>>
          /\ Range(entries) \subseteq Range(entries')
      <4>1. CASE NextPath
        BY <4>1 DEF NextPath
      <4>2. CASE Sort
        BY <1>2, <4>2, SortKeepsEntries DEF Sort
      <4> QED
        BY <2>3, <4>1, <4>2
    <3>2. ASSUME NEW p \in Paths, NEW root \in Taken(p)'
          PROVE  RootWork(compilation, p, root)' \subseteq D \cup Range(stack')
      <4>1. RootWork(compilation, p, root)' = RootWork(compilation, p, root) /\ root \in Taken(p)
        BY <1>2, <2>3, <3>1, <3>2, TakenSoFar DEF RootWork
      <4>2. RootWork(compilation, p, root) \subseteq D \cup Range(stack)
        BY <2>0, <4>1 DEF Accounted
      <4> QED
        BY <3>1, <4>1, <4>2
    <3>3. \A w \in D : /\ Range(Done(w).adds) \subseteq Range(entries')
                       /\ Range(Done(w).work) \subseteq D \cup Range(stack')
      BY <2>0, <3>1 DEF Accounted
    <3>4. \A s \in visited' : KnownSyntax(D, s) \/ KnownCondition(D, s)
      BY <2>0, <3>1 DEF Accounted
    <3>5. Accounted(D)'
      BY <3>2, <3>3, <3>4 DEF Accounted
    <3> QED
      BY <3>5 DEF WorkInv
  <2>4. CASE UNCHANGED vars
    <3>1. Accounted(D)'
      BY <2>0, <2>4 DEF vars, Accounted, Taken, RootWork
    <3> QED
      BY <3>1 DEF WorkInv
  <2> QED
    BY <1>2, <2>1, <2>2, <2>3, <2>4 DEF Next
<1> QED
  BY <1>1, <1>2, TypeCorrect, PTL DEF Spec

\* The published index holds all that the items of the file add, and nothing
\* else: no root, and nothing below one, is forgotten, although syntaxes and
\* conditions are visited once only.
IndexIsOfFile == Published => Range(entries) = Entered(compilation)

\* In whatever order the hash tables give the roots, the published entries
\* are the same set.
THEOREM NothingIsForgotten ==
  ASSUME SyntaxIsShared
  PROVE  Spec => []IndexIsOfFile
<1>1. TypeOK /\ Reached /\ WorkInv => IndexIsOfFile
  <2> SUFFICES ASSUME TypeOK, Reached, WorkInv, Published
               PROVE  Entered(compilation) \subseteq Range(entries)
    BY DEF IndexIsOfFile, Reached
  <2>1. PICK D \in SUBSET Work : Accounted(D)
    BY DEF WorkInv
  <2>2. stack = <<>> /\ path = "published"
    BY DEF TypeOK, Published, Paths
  <2>3. Range(stack) = {}
    BY <2>2 DEF Range
  <2>4. \A p \in Paths : Taken(p) = compilation[p]
    BY <2>2 DEF Taken, Before
  <2>5. Closed(compilation, D)
    BY <2>1, <2>3, <2>4 DEF Accounted, Closed
  <2>6. FileWork(compilation) \subseteq D
    BY <2>5 DEF FileWork
  <2>7. \A w \in FileWork(compilation) : Range(Done(w).adds) \subseteq Range(entries)
    BY <2>1, <2>6 DEF Accounted
  <2> QED
    BY <2>7 DEF Entered
<1> QED
  BY <1>1, TypeCorrect, NothingElseIsEntered, WorkIsAccounted, PTL

\* A set of naturals that is not empty has a least one.
LEMMA LeastNumber ==
  ASSUME NEW T \in SUBSET Nat, T # {}
  PROVE  \E m \in T : \A n \in T : m <= n
<1>1. PICK m \in T : \A n \in T : <<n, m>> \notin OpToRel(<, Nat)
  BY NatLessThanWellFounded, WFMin
<1>2. SUFFICES ASSUME NEW n \in T, n < m PROVE FALSE
  OBVIOUS
<1>3. <<n, m>> \in {pair \in Nat \X Nat : pair[1] < pair[2]}
  BY <1>2
<1> QED
  BY <1>1, <1>3 DEF OpToRel

\* A lookup where an entry starts answers, and with what some entry that
\* starts there leads to.
EntriesAreFound ==
  Published =>
    \A e \in Entered(compilation) :
      LET found == LookupDefinitionAt(entries, e.start)
      IN  /\ found # {}
          /\ found \subseteq {f.def_loc : f \in {g \in Entered(compilation) : g.start = e.start}}

\* So every name of the file that was entered leads somewhere from its first
\* character, and only where the file says: nested ranges, entries that start
\* together and overlaps the validation warns of take no name away.
THEOREM EnteredNamesResolve ==
  ASSUME SyntaxIsShared
  PROVE  Spec => []EntriesAreFound
<1>1. TypeOK /\ PublishedIsSorted /\ IndexIsOfFile => EntriesAreFound
  <2> SUFFICES ASSUME TypeOK, Published, Sorted(entries), NEW e \in Range(entries),
                      Range(entries) = Entered(compilation)
               PROVE  LET found == LookupDefinitionAt(entries, e.start)
                      IN  /\ found # {}
                          /\ found \subseteq {f.def_loc : f \in {g \in Range(entries) : g.start = e.start}}
    BY DEF EntriesAreFound, PublishedIsSorted, IndexIsOfFile
  <2> DEFINE same == {j \in DOMAIN entries : entries[j].start = e.start}
  <2>1. entries \in Seq(Entries)
    BY DEF TypeOK
  <2>2. \A i \in DOMAIN entries : entries[i] \in Entries /\ entries[i] \in Range(entries)
    BY <2>1 DEF Range
  <2>3. PICK i \in DOMAIN entries : entries[i] = e
    BY DEF Range
  <2>4. PICK last \in same : \A j \in same : j <= last
    <3>1. same \subseteq 1 .. Len(entries) /\ Len(entries) \in Nat /\ i \in same
      BY <2>1, <2>3
    <3> HIDE DEF same
    <3> DEFINE after == {Len(entries) - j : j \in same}
    <3>2. after \in SUBSET Nat /\ after # {}
      BY <3>1
    <3> HIDE DEF after
    <3>3. PICK n \in after : \A m \in after : n <= m
      BY <3>2, LeastNumber
    <3> USE DEF after
    <3>4. PICK last \in same : n = Len(entries) - last
      OBVIOUS
    <3>5. \A j \in same : Len(entries) - last <= Len(entries) - j
      BY <3>3, <3>4
    <3>6. \A j \in same : j <= last
      BY <3>1, <3>5
    <3> QED
      BY <3>6
  <2>5. last \in DOMAIN entries /\ entries[last].start = e.start
    OBVIOUS
  <2>6. entries[last] \in Entries /\ last \in Nat
    BY <2>1, <2>2, <2>5
  <2>7. ASSUME NEW j \in DOMAIN entries, last < j PROVE e.start < entries[j].start
    <3>1. entries[j] \in Entries /\ j \in Nat /\ j \notin same
      BY <2>1, <2>2, <2>4, <2>6, <2>7
    <3>2. entries[j].start # e.start
      BY <3>1
    <3>3. ~(entries[j].start < entries[last].start)
      BY <2>5, <2>7 DEF Sorted, StartsBefore
    <3> QED
      BY <2>5, <2>6, <3>1, <3>2, <3>3 DEF Entries
  <2> HIDE DEF same
  <2>8. last \in Candidate(entries, e.start)
    BY <2>5, <2>6, <2>7 DEF Candidate, Entries
  <2>9. RangeContains(entries[last], e.start)
    BY <2>5, <2>6 DEF RangeContains, Entries
  <2>10. entries[last].def_loc \in LookupDefinitionAt(entries, e.start)
    BY <2>8, <2>9 DEF LookupDefinitionAt
  <2>11. ASSUME NEW d \in LookupDefinitionAt(entries, e.start)
         PROVE  d \in {f.def_loc : f \in {g \in Range(entries) : g.start = e.start}}
    <3>1. PICK c \in Candidate(entries, e.start) : d = entries[c].def_loc
      BY <2>11 DEF LookupDefinitionAt
    <3>2. c \in DOMAIN entries /\ entries[c] \in Entries /\ c \in Nat
      BY <2>1, <2>2, <3>1 DEF Candidate
    <3>3. entries[c].start <= e.start /\ (c < last => e.start < entries[last].start)
      BY <2>5, <3>1 DEF Candidate
    <3>4. ~(c < last)
      BY <2>5, <2>6, <3>3 DEF Entries
    <3>5. last < c => e.start < entries[c].start
      BY <2>7, <3>2
    <3>6. c = last
      BY <2>5, <2>6, <3>2, <3>3, <3>4, <3>5 DEF Entries
    <3>7. entries[last] \in {g \in Range(entries) : g.start = e.start}
      BY <2>2, <2>5
    <3> QED
      BY <3>1, <3>6, <3>7
  <2> QED
    BY <2>10, <2>11
<1> QED
  BY <1>1, TypeCorrect, SortedWhenPublished, NothingIsForgotten, PTL

-----------------------------------------------------------------------------
(***************************************************************************)
(* Once: what the visitor comes to again is skipped, or is a connection of *)
(* an unresolved instance.                                                 *)
(***************************************************************************)
\* Of every file, the AST is a tree but for types, conditions and connections,
\* and no two items of it enter the same.
AstIsTree == \A c \in Compilations : OnePlace(c, FileWork(c)) /\ OneMeaning(FileWork(c))

TakenStarts == {s \in Starts(compilation) : s[2][2] \in Taken(s[2][1])}

\* The items that were done and not skipped account for the entries and, with
\* the roots, for the work; none of them is still to be done, unless it may be
\* done again.
DoneOnce(D) ==
  /\ \A w \in D : Repeats(w) \/ w \notin Range(stack)
  /\ Unrepeated(stack)
  /\ \A e \in Range(entries) : \E w \in D : e \in Range(Done(w).adds)
  /\ \A x \in D \cup Range(stack) :
       Repeats(x) \/ \E s \in D \cup TakenStarts : x \in Range(Leads(s))
  /\ \A w \in D : /\ w[1] = "type" /\ Types[w[2]].syntax # "none" => Types[w[2]].syntax \in visited
                  /\ w[1] = "condition" => w[2] \in visited
  /\ EachNameOnce
OnceInv == \E D \in SUBSET FileWork(compilation) : DoneOnce(D)

\* What one item adds is a definition, and perhaps a reference to it.
LEMMA AddsDiffer ==
  ASSUME NEW w \in Work, NEW i \in DOMAIN Done(w).adds, NEW j \in DOMAIN Done(w).adds, i # j
  PROVE  Done(w).adds[i] # Done(w).adds[j]
<1>1. ASSUME NEW m \in Mention
      PROVE  \/ AddReference(m) = <<>>
             \/ AddReference(m) = <<Entry(m.at, m.to, FALSE)>>
  BY Zenon DEF AddReference
<1>2. ASSUME NEW n \in Node, NEW k \in DOMAIN Declared(n), NEW l \in DOMAIN Declared(n), k # l
      PROVE  Declared(n)[k] # Declared(n)[l]
  <2> DEFINE label == [at |-> n.label, to |-> n.name]
             d == Entry(n.name, n.name, TRUE)
             r == Entry(label.at, label.to, FALSE)
  <2>1. d.is_definition /\ ~r.is_definition
    BY DEF Entry
  <2>2. AddDefinition(n.name) = <<>> \/ AddDefinition(n.name) = <<d>>
    BY Zenon DEF AddDefinition
  <2>3. label \in Mention
    BY DEF Node, Mention
  <2>4. AddReference(label) = <<>> \/ AddReference(label) = <<r>>
    BY <1>1, <2>3
  <2>5. Declared(n) = AddDefinition(n.name) \o AddReference(label)
    BY DEF Declared
  <2> HIDE DEF d, r, label
  <2>6. Declared(n) \in {<<>>, <<d>>, <<r>>, <<d>> \o <<r>>}
    <3>1. <<d>> \in Seq({d, r}) /\ <<r>> \in Seq({d, r})
      OBVIOUS
    <3>2. <<>> \o <<>> = <<>> /\ <<>> \o <<r>> = <<r>> /\ <<d>> \o <<>> = <<d>>
      BY <3>1
    <3> QED
      BY <2>2, <2>4, <2>5, <3>2, Zenon
  <2>7. DOMAIN <<>> = {} /\ DOMAIN <<d>> = {1} /\ DOMAIN <<r>> = {1}
    OBVIOUS
  <2>8. DOMAIN (<<d>> \o <<r>>) = 1 .. 2
    OBVIOUS
  <2>9. (<<d>> \o <<r>>)[1] = d /\ (<<d>> \o <<r>>)[2] = r
    OBVIOUS
  <2>10. Declared(n) = <<d>> \o <<r>> /\ {k, l} = {1, 2}
    BY <1>2, <2>6, <2>7, <2>8
  <2> QED
    BY <1>2, <2>1, <2>9, <2>10
<1>3. CASE w \in {"node"} \X NodeNames
  <2>1. w[1] = "node" /\ Nodes[w[2]] \in Node
    BY <1>3, AstAssumption
  <2>2. Done(w).adds \in {<<>>, Declared(Nodes[w[2]])}
    BY <2>1, HandlersDeclare DEF Done
  <2>3. DOMAIN <<>> = {}
    OBVIOUS
  <2> QED
    BY <1>2, <2>1, <2>2, <2>3
<1>4. CASE w \in {"mention"} \X Mention
  <2>1. w[1] = "mention" /\ w[2] \in Mention
    BY <1>4
  <2>2. Done(w).adds = AddReference(w[2])
    BY <2>1 DEF Done, Handled
  <2> DEFINE r == Entry(w[2].at, w[2].to, FALSE)
  <2>3. Done(w).adds = <<>> \/ Done(w).adds = <<r>>
    BY <1>1, <2>1, <2>2
  <2> HIDE DEF r
  <2>4. DOMAIN <<>> = {} /\ DOMAIN <<r>> = {1}
    OBVIOUS
  <2> QED
    BY <2>3, <2>4
<1>5. CASE w \in ({"connection"} \X NodeNames) \cup ({"type"} \X TypeNames)
                 \cup ({"condition"} \X DOMAIN Conditions)
  <2>1. CASE w \in {"connection"} \X NodeNames
    <3>1. w[1] = "connection" /\ Nodes[w[2]] \in Node
      BY <2>1, AstAssumption
    <3> QED
      BY <3>1, HandlersDeclare DEF Done
  <2>2. CASE w \in {"type"} \X TypeNames
    <3>1. w[1] = "type"
      BY <2>2
    <3>2. Done(w).adds = <<>>
      BY <3>1 DEF Done, TraverseType, Handled
    <3> QED
      BY <3>2
  <2>3. CASE w \in {"condition"} \X DOMAIN Conditions
    BY <2>3 DEF Done, Handled
  <2> QED
    BY <1>5, <2>1, <2>2, <2>3
<1> QED
  BY <1>3, <1>4, <1>5 DEF Work

\* Where nothing but what repeats is twice, the first is not in the rest.
LEMMA HeadIsOnce ==
  ASSUME NEW S, NEW s \in Seq(S), s # <<>>, Unrepeated(s)
  PROVE  Unrepeated(Tail(s)) /\ (Repeats(Head(s)) \/ Head(s) \notin Range(Tail(s)))
<1>1. /\ Tail(s) \in Seq(S) /\ Head(s) = s[1] /\ 1 \in DOMAIN s
      /\ \A i \in DOMAIN Tail(s) : i + 1 \in DOMAIN s /\ Tail(s)[i] = s[i + 1] /\ i + 1 # 1
      /\ \A i, j \in DOMAIN Tail(s) : i # j => i + 1 # j + 1
  OBVIOUS
<1>2. Unrepeated(Tail(s))
  BY <1>1 DEF Unrepeated
<1>3. ASSUME Head(s) \in Range(Tail(s)) PROVE Repeats(Head(s))
  <2>1. PICK i \in DOMAIN Tail(s) : Tail(s)[i] = Head(s)
    BY <1>3 DEF Range
  <2>2. i + 1 \in DOMAIN s /\ s[i + 1] = s[1] /\ i + 1 # 1
    BY <1>1, <2>1
  <2> QED
    BY <1>1, <2>2 DEF Unrepeated
<1> QED
  BY <1>2, <1>3

\* An element of two sequences in a row is one of the first or of the second.
LEMMA ElementOfBoth ==
  ASSUME NEW S, NEW s \in Seq(S), NEW t \in Seq(S), NEW k \in DOMAIN (s \o t)
  PROVE  \/ k \in DOMAIN s /\ (s \o t)[k] = s[k]
         \/ k - Len(s) \in DOMAIN t /\ (s \o t)[k] = t[k - Len(s)] /\ Len(s) < k
  OBVIOUS

\* So in two sequences in a row, if they have in common only what repeats.
LEMMA BothUnrepeated ==
  ASSUME NEW S, NEW s \in Seq(S), NEW t \in Seq(S), Unrepeated(s), Unrepeated(t),
         \A x \in Range(s) \cap Range(t) : Repeats(x)
  PROVE  Unrepeated(s \o t)
<1> SUFFICES ASSUME NEW i \in DOMAIN (s \o t), NEW j \in DOMAIN (s \o t), i # j,
                    (s \o t)[i] = (s \o t)[j]
             PROVE  Repeats((s \o t)[i])
  BY DEF Unrepeated
<1>1. ASSUME NEW k \in DOMAIN (s \o t)
      PROVE  \/ k \in DOMAIN s /\ (s \o t)[k] = s[k] /\ s[k] \in Range(s)
             \/ /\ k - Len(s) \in DOMAIN t /\ (s \o t)[k] = t[k - Len(s)]
                /\ t[k - Len(s)] \in Range(t)
  <2>1. \/ k \in DOMAIN s /\ (s \o t)[k] = s[k]
        \/ k - Len(s) \in DOMAIN t /\ (s \o t)[k] = t[k - Len(s)]
    BY ElementOfBoth
  <2>2. (\A l \in DOMAIN s : s[l] \in Range(s)) /\ \A l \in DOMAIN t : t[l] \in Range(t)
    BY DEF Range
  <2> QED
    BY <2>1, <2>2
<1>2. i \in Nat /\ j \in Nat /\ Len(s) \in Nat /\ i - Len(s) # j - Len(s)
  OBVIOUS
<1>3. CASE (s \o t)[i] \in Range(s) \cap Range(t)
  BY <1>3
<1>4. CASE /\ i \in DOMAIN s /\ (s \o t)[i] = s[i]
           /\ j \in DOMAIN s /\ (s \o t)[j] = s[j]
  BY <1>4 DEF Unrepeated
<1>5. CASE /\ i - Len(s) \in DOMAIN t /\ (s \o t)[i] = t[i - Len(s)]
           /\ j - Len(s) \in DOMAIN t /\ (s \o t)[j] = t[j - Len(s)]
  BY <1>2, <1>5 DEF Unrepeated
<1> QED
  BY <1>1, <1>3, <1>4, <1>5

\* What an item leads to and may not be done again is neither done nor among
\* the work already.
LEMMA NewWork ==
  ASSUME AstIsTree, TypeOK, Reached, NEW D \in SUBSET FileWork(compilation), DoneOnce(D),
         stack # <<>>, ~Skipped, NEW x \in Range(Done(Head(stack)).work)
  PROVE  Repeats(x) \/ x \notin D \cup Range(stack)
<1> DEFINE w == Head(stack)
<1>1. w \in Work /\ w \in Range(stack) /\ w \in FileWork(compilation) /\ compilation \in Compilations
  BY RangeOfHeadAndTail DEF TypeOK, Reached
<1>2. w[1] \in {"node", "connection", "type", "condition", "mention"}
  BY <1>1 DEF Work
<1>3. Leads(w) = Done(w).work
  BY <1>2 DEF Leads
<1> SUFFICES ASSUME ~Repeats(x), x \in D \cup Range(stack) PROVE FALSE
  OBVIOUS
<1>4. PICK s \in D \cup TakenStarts : x \in Range(Leads(s))
  BY DEF DoneOnce
<1>5. s \in FileWork(compilation) \cup Starts(compilation)
  BY DEF TakenStarts
<1>6. s = w \/ SameSyntax(s, w)
  BY <1>1, <1>3, <1>4, <1>5 DEF AstIsTree, OnePlace
<1>7. s \in D
  <2>1. \A r \in Starts(compilation) : r[1] = "root"
    BY DEF Starts
  <2>2. s[1] # "root"
    BY <1>2, <1>6 DEF SameSyntax
  <2> QED
    BY <1>4, <2>1, <2>2 DEF TakenStarts
<1>8. CASE s = w /\ w[1] = "condition"
  <2>1. At("condition") /\ Item = w[2]
    BY <1>8 DEF At, Item
  <2>2. Item \in visited
    BY <1>7, <1>8, <2>1 DEF DoneOnce
  <2> QED
    BY <2>1, <2>2 DEF Skipped
<1>9. CASE w[1] = "type"
  <2>1. At("type") /\ Item = w[2]
    BY <1>9 DEF At, Item
  <2>2. Types[w[2]].syntax # "none"
    BY <1>1, <1>3, <1>9 DEF AstIsTree, OnePlace
  <2>3. s[1] = "type" /\ Types[s[2]].syntax = Types[w[2]].syntax
    BY <1>6, <1>9 DEF SameSyntax
  <2>4. Types[Item].syntax \in visited
    BY <1>7, <2>1, <2>2, <2>3 DEF DoneOnce
  <2> QED
    BY <2>1, <2>4 DEF Skipped
<1>10. CASE w[1] = "mention"
  <2>1. Done(w).work = <<>>
    BY <1>10 DEF Done, Handled
  <2> QED
    BY <2>1 DEF Range
<1>11. CASE s = w /\ w[1] \in {"node", "connection"}
  <2>1. ~Repeats(w)
    BY <1>11 DEF Repeats
  <2> QED
    BY <1>1, <1>7, <1>11, <2>1 DEF DoneOnce
<1> QED
  BY <1>2, <1>6, <1>8, <1>9, <1>10, <1>11 DEF SameSyntax

\* An item that is done again adds only what may be doubled.
LEMMA AddedAgain ==
  ASSUME NEW w, Repeats(w), NEW e \in Range(Done(w).adds)
  PROVE  Reconnected(e) /\ ~e.is_definition
<1>1. Range(<<>>) = {} /\ \A a : Range(<<a>>) = {a}
  BY DEF Range
<1>2. CASE w[1] = "type"
  <2>1. Done(w).adds = <<>>
    BY <1>2 DEF Done, TraverseType, Handled
  <2> QED
    BY <1>1, <2>1
<1>3. CASE w[1] = "condition"
  <2>1. Done(w).adds = <<>>
    BY <1>3 DEF Done, Handled
  <2> QED
    BY <1>1, <2>1
<1>4. CASE w[1] = "mention" /\ \A f \in Range(AddReference(w[2])) : Reconnected(f)
  <2>1. Done(w).adds = AddReference(w[2])
    BY <1>4 DEF Done, Handled
  <2> DEFINE r == Entry(w[2].at, w[2].to, FALSE)
  <2>2. AddReference(w[2]) = <<r>>
    BY <1>1, <2>1, Zenon DEF AddReference
  <2>3. ~r.is_definition
    BY DEF Entry
  <2> HIDE DEF r
  <2>4. e = r
    <3>1. Range(<<r>>) = {r}
      BY <1>1
    <3> QED
      BY <2>1, <2>2, <3>1
  <2> QED
    BY <1>4, <2>1, <2>3, <2>4
<1> QED
  BY <1>2, <1>3, <1>4 DEF Repeats

\* What an item adds is new to the index, or may be doubled.
LEMMA NamesStayOnce ==
  ASSUME AstIsTree, TypeOK, Reached, NEW D \in SUBSET FileWork(compilation), DoneOnce(D),
         stack # <<>>, entries' = entries \o Done(Head(stack)).adds
  PROVE  EachNameOnce'
<1> DEFINE w == Head(stack)
           adds == Done(w).adds
<1>1. w \in Work /\ w \in Range(stack) /\ w \in FileWork(compilation) /\ compilation \in Compilations
  BY RangeOfHeadAndTail DEF TypeOK, Reached
<1>2. entries \in Seq(Entries) /\ adds \in Seq(Entries) /\ entries' = entries \o adds
  BY <1>1, DoneIsResult DEF TypeOK, Result
<1>3. (\A i \in DOMAIN entries : entries[i] \in Range(entries))
      /\ \A i \in DOMAIN adds : adds[i] \in Range(adds)
  BY DEF Range
<1>4. \A i, j \in DOMAIN adds : i # j => adds[i] # adds[j]
  BY <1>1, AddsDiffer
<1>5. ASSUME NEW a \in Range(adds), NEW b \in Range(adds), Same(a, b) PROVE a = b
  BY <1>1, <1>5 DEF AstIsTree, OneMeaning
<1>6. ASSUME NEW a \in Range(entries), NEW b \in Range(adds), Same(a, b)
      PROVE  Reconnected(a) /\ ~a.is_definition
  <2>1. PICK v \in D : a \in Range(Done(v).adds)
    BY DEF DoneOnce
  <2>2. v = w /\ a = b
    BY <1>1, <1>6, <2>1 DEF AstIsTree, OneMeaning
  <2>3. Repeats(w)
    BY <1>1, <2>1, <2>2 DEF DoneOnce
  <2> QED
    BY <2>2, <2>3, AddedAgain
<1> HIDE DEF adds, w
<1> SUFFICES ASSUME NEW i \in DOMAIN entries', NEW j \in DOMAIN entries', i < j,
                    Same(entries'[i], entries'[j])
             PROVE  Reconnected(entries'[i]) /\ ~entries'[i].is_definition
  BY DEF EachNameOnce
<1>7. ASSUME NEW k \in DOMAIN entries'
      PROVE  \/ k \in DOMAIN entries /\ entries'[k] = entries[k]
             \/ /\ k - Len(entries) \in DOMAIN adds /\ entries'[k] = adds[k - Len(entries)]
                /\ Len(entries) < k
  BY <1>2, ElementOfBoth
<1>8. i \in Nat /\ j \in Nat /\ Len(entries) \in Nat /\ DOMAIN entries = 1 .. Len(entries)
  BY <1>2
<1>9. CASE i \in DOMAIN entries /\ entries'[i] = entries[i] /\ j \in DOMAIN entries /\ entries'[j] = entries[j]
  BY <1>9 DEF DoneOnce, EachNameOnce
<1>10. CASE /\ i \in DOMAIN entries /\ entries'[i] = entries[i]
            /\ j - Len(entries) \in DOMAIN adds /\ entries'[j] = adds[j - Len(entries)]
  BY <1>3, <1>6, <1>10
<1>11. CASE /\ i - Len(entries) \in DOMAIN adds /\ entries'[i] = adds[i - Len(entries)]
            /\ j - Len(entries) \in DOMAIN adds /\ entries'[j] = adds[j - Len(entries)]
  <2>1. i - Len(entries) # j - Len(entries)
    BY <1>8
  <2> QED
    BY <1>3, <1>4, <1>5, <1>11, <2>1
<1>12. CASE Len(entries) < i /\ j \in DOMAIN entries
  BY <1>8, <1>12
<1> QED
  BY <1>7, <1>9, <1>10, <1>11, <1>12

\* A thing that is in an index twice is in it twice after the sort.
LEMMA SortKeepsOnce ==
  ASSUME AstIsTree, TypeOK, Reached, EachNameOnce, Sort
  PROVE  EachNameOnce'
<1>1. /\ entries \in Seq(Entries) /\ entries' \in Seq(Entries) /\ Range(entries') = Range(entries)
      /\ \A e \in Range(entries) : Times(e, entries') = Times(e, entries)
  BY SortKeepsEntries DEF TypeOK
<1> SUFFICES ASSUME NEW i \in DOMAIN entries', NEW j \in DOMAIN entries', i < j,
                    Same(entries'[i], entries'[j])
             PROVE  Reconnected(entries'[i]) /\ ~entries'[i].is_definition
  BY DEF EachNameOnce
<1> DEFINE e == entries'[i]
           before == {k \in DOMAIN entries : entries[k] = e}
           after == {k \in DOMAIN entries' : entries'[k] = e}
<1>2. e \in Range(entries) /\ entries'[j] \in Range(entries)
  BY <1>1 DEF Range
<1>3. entries'[j] = e
  <2>1. e \in Entered(compilation) /\ entries'[j] \in Entered(compilation)
    BY <1>2 DEF Reached
  <2> QED
    BY <2>1 DEF AstIsTree, OneMeaning, Entered, TypeOK
<1>4. IsFiniteSet(before) /\ IsFiniteSet(after)
  <2>1. /\ before \subseteq 1 .. Len(entries) /\ Len(entries) \in Int
        /\ after \subseteq 1 .. Len(entries') /\ Len(entries') \in Int
    BY <1>1
  <2>2. IsFiniteSet(1 .. Len(entries)) /\ IsFiniteSet(1 .. Len(entries'))
    BY <2>1, FS_Interval
  <2> HIDE DEF before, after
  <2> QED
    BY <2>1, <2>2, FS_Subset
<1>5. Cardinality(after) = Cardinality(before)
  BY <1>1, <1>2 DEF Times
<1>6. i \in after /\ j \in after /\ i # j
  BY <1>1, <1>3
<1> HIDE DEF after
<1>7. PICK k \in before, l \in before : k # l
  <2> HIDE DEF before
  <2>1. before # {}
    BY <1>4, <1>5, <1>6, FS_EmptySet
  <2>2. PICK k \in before : TRUE
    BY <2>1
  <2>3. before # {k}
    <3>1. SUFFICES ASSUME before = {k} PROVE FALSE
      OBVIOUS
    <3>2. Cardinality(after) = 1
      BY <1>5, <3>1, FS_Singleton
    <3>3. \E x : after = {x}
      BY <1>4, <3>2, FS_Singleton
    <3> QED
      BY <1>6, <3>3
  <2> QED
    BY <2>2, <2>3
<1>8. k \in Nat /\ l \in Nat /\ k \in DOMAIN entries /\ l \in DOMAIN entries
      /\ entries[k] = e /\ entries[l] = e
  BY <1>1
<1>9. Same(entries[k], entries[l]) /\ Same(entries[l], entries[k])
  BY <1>8 DEF Same
<1> HIDE DEF e
<1>10. k < l \/ l < k
  BY <1>7, <1>8
<1>11. Reconnected(e) /\ ~e.is_definition
  BY <1>8, <1>9, <1>10 DEF EachNameOnce
<1> QED
  BY <1>11 DEF e

\* A step of the visitor keeps the account.
LEMMA ItemKeepsOnce ==
  ASSUME AstIsTree, TypeOK, Reached, OnceInv,
         VisitNode \/ VisitMention \/ VisitConnection \/ VisitType \/ VisitCondition
  PROVE  OnceInv'
<1>0. PICK D \in SUBSET FileWork(compilation) : DoneOnce(D)
  BY DEF OnceInv
<1> DEFINE w == Head(stack)
           work == Done(w).work
<1>1. /\ stack # <<>> /\ stack \in Seq(Work) /\ w \in Work /\ Tail(stack) \in Seq(Work)
      /\ Range(stack) = {w} \cup Range(Tail(stack))
      /\ UNCHANGED <<compilation, path, todo>>
  BY ItemStep DEF TypeOK
<1>2. /\ w \in FileWork(compilation) /\ compilation \in Compilations
      /\ work \in Seq(Work) /\ Done(w).adds \in Seq(Entries) /\ Leads(w) = work
  <2>1. w[1] # "root"
    BY <1>1 DEF Work
  <2> QED
    BY <1>1, <2>1, DoneIsResult DEF TypeOK, Reached, Result, Leads
<1>3. Unrepeated(Tail(stack)) /\ (Repeats(w) \/ w \notin Range(Tail(stack)))
  BY <1>0, <1>1, HeadIsOnce DEF DoneOnce
<1>4. TakenStarts' = TakenStarts
  BY <1>1 DEF TakenStarts, Taken
<1>5. CASE Skipped
  <2>1. stack' = Tail(stack) /\ entries' = entries /\ visited \subseteq visited'
    <3>1. Add(Handled(<<>>, <<>>)) /\ visited \subseteq visited'
      BY <1>5, ItemEffect
    <3>2. entries' = entries \o <<>> /\ stack' = <<>> \o Tail(stack) /\ entries \in Seq(Entries)
      BY <3>1 DEF Add, Handled, TypeOK
    <3>3. entries' = entries /\ stack' = Tail(stack)
      BY <1>1, <3>2
    <3> QED
      BY <3>1, <3>3
  <2>2. Range(stack') \subseteq Range(stack)
    BY <1>1, <2>1
  <2>3. EachNameOnce'
    BY <1>0, <2>1 DEF DoneOnce, EachNameOnce
  <2>4. DoneOnce(D)'
    BY <1>0, <1>3, <1>4, <2>1, <2>2, <2>3 DEF DoneOnce
  <2> QED
    BY <1>1, <2>4 DEF OnceInv
<1>6. CASE ~Skipped
  <2> DEFINE E == D \cup {w}
  <2>1. entries' = entries \o Done(w).adds /\ stack' = work \o Tail(stack)
    BY <1>6, ItemEffect DEF Add
  <2>2. /\ Range(entries') = Range(entries) \cup Range(Done(w).adds)
        /\ Range(stack') = Range(work) \cup Range(Tail(stack))
    <3>1. Range(entries \o Done(w).adds) = Range(entries) \cup Range(Done(w).adds)
      BY <1>2, RangeOfBoth DEF TypeOK
    <3>2. \A a, b \in Seq(Work) : Range(a \o b) = Range(a) \cup Range(b)
      BY RangeOfBoth
    <3> QED
      BY <1>1, <1>2, <2>1, <3>1, <3>2
  <2>3. \A x \in Range(work) : Repeats(x) \/ x \notin D \cup Range(stack)
    BY <1>0, <1>1, <1>6, NewWork
  <2>4. Unrepeated(work)
    BY <1>2 DEF AstIsTree, OnePlace
  <2>5. EachNameOnce'
    BY <1>0, <1>1, <2>1, NamesStayOnce
  <2>6. ASSUME NEW v \in E
        PROVE  /\ v[1] = "type" /\ Types[v[2]].syntax # "none" => Types[v[2]].syntax \in visited'
               /\ v[1] = "condition" => v[2] \in visited'
    <3>1. CASE v \in D
      BY <1>0, <3>1, ItemEffect DEF DoneOnce
    <3>2. CASE v = w
      BY <3>2, <1>1, ItemEffect DEF At, Item
    <3> QED
      BY <3>1, <3>2
  <2> HIDE DEF w, work
  <2>7. Unrepeated(stack')
    <3>1. \A x \in Range(work) \cap Range(Tail(stack)) : Repeats(x)
      BY <1>1, <2>3
    <3> QED
      BY <1>1, <1>2, <1>3, <2>1, <2>4, <3>1, BothUnrepeated
  <2>8. ASSUME NEW v \in E PROVE Repeats(v) \/ v \notin Range(stack')
    <3>1. CASE v = w
      BY <1>1, <1>3, <2>2, <2>3, <3>1
    <3>2. CASE v \in D
      BY <1>0, <1>1, <2>2, <2>3, <3>2 DEF DoneOnce
    <3> QED
      BY <3>1, <3>2
  <2>9. ASSUME NEW e \in Range(entries') PROVE \E v \in E : e \in Range(Done(v).adds)
    <3>1. CASE e \in Range(entries)
      BY <1>0, <3>1 DEF DoneOnce
    <3>2. CASE e \in Range(Done(w).adds)
      BY <3>2
    <3> QED
      BY <2>2, <2>9, <3>1, <3>2
  <2>10. ASSUME NEW x \in E \cup Range(stack')
         PROVE  Repeats(x) \/ \E s \in E \cup TakenStarts' : x \in Range(Leads(s))
    <3>1. CASE x \in D \cup Range(stack)
      BY <1>0, <1>4, <3>1 DEF DoneOnce
    <3>2. CASE x \in Range(work)
      BY <1>2, <3>2
    <3> QED
      BY <1>1, <2>2, <2>10, <3>1, <3>2
  <2>11. E \in SUBSET FileWork(compilation)
    BY <1>2
  <2> HIDE DEF E
  <2>12. PICK F \in SUBSET FileWork(compilation) : F = E
    BY <2>11
  <2>13. DoneOnce(F)'
    BY <2>5, <2>6, <2>7, <2>8, <2>9, <2>10, <2>12 DEF DoneOnce
  <2> QED
    BY <1>1, <2>13 DEF OnceInv
<1> QED
  BY <1>5, <1>6

\* A root that a path takes leads to nothing that is known.
LEMMA RootKeepsOnce ==
  ASSUME AstIsTree, TypeOK, Reached, OnceInv, IndexDefinition \/ IndexPackage \/ IndexMember
  PROVE  OnceInv'
<1>0. PICK D \in SUBSET FileWork(compilation) : DoneOnce(D)
  BY DEF OnceInv
<1>1. /\ path \in Paths /\ stack = <<>>
      /\ UNCHANGED <<compilation, path, visited, entries>>
  BY RootStep
<1>2. PICK root \in todo :
        /\ root \in compilation[path] /\ todo' = todo \ {root}
        /\ stack' = IF IsInCurrentFile(root) THEN Visit(RootNodes(path, root)) ELSE <<>>
  BY RootStep
<1> DEFINE start == <<"root", <<path, root>>>>
<1>3. Range(stack) = {} /\ Range(<<>>) = {} /\ Unrepeated(<<>>)
  BY <1>1 DEF Range, Unrepeated
<1>4. TakenStarts \subseteq TakenStarts' /\ start \notin TakenStarts
  BY <1>1, <1>2 DEF TakenStarts, Taken, Before, Paths
<1>5. EachNameOnce'
  BY <1>0, <1>1 DEF DoneOnce, EachNameOnce
<1>6. CASE ~IsInCurrentFile(root)
  <2>1. stack' = <<>>
    BY <1>2, <1>6
  <2>2. DoneOnce(D)'
    BY <1>0, <1>1, <1>3, <1>4, <1>5, <2>1 DEF DoneOnce
  <2> QED
    BY <1>1, <2>2 DEF OnceInv
<1>7. CASE IsInCurrentFile(root)
  <2>1. stack' = Leads(start) /\ compilation \in Compilations
    BY <1>2, <1>7 DEF Leads, TypeOK
  <2>2. start \in Starts(compilation)
    BY <1>1, <1>2, <1>7 DEF Starts
  <2>3. start \in TakenStarts'
    BY <1>1, <1>2, <2>2 DEF TakenStarts, Taken
  <2>4. Unrepeated(stack')
    BY <2>1, <2>2 DEF AstIsTree, OnePlace
  <2>5. ASSUME NEW x \in Range(stack') PROVE Repeats(x) \/ x \notin D
    <3> SUFFICES ASSUME ~Repeats(x), x \in D PROVE FALSE
      OBVIOUS
    <3>1. PICK s \in D \cup TakenStarts : x \in Range(Leads(s))
      BY <1>0 DEF DoneOnce
    <3>2. s \in FileWork(compilation) \cup Starts(compilation)
      BY DEF TakenStarts
    <3>3. s = start \/ SameSyntax(s, start)
      BY <2>1, <2>2, <2>5, <3>1, <3>2 DEF AstIsTree, OnePlace
    <3>4. s = start
      BY <3>3 DEF SameSyntax
    <3>5. start \notin D
      BY DEF FileWork, Work
    <3> QED
      BY <1>4, <3>1, <3>4, <3>5
  <2>6. ASSUME NEW x \in D \cup Range(stack')
        PROVE  Repeats(x) \/ \E s \in D \cup TakenStarts' : x \in Range(Leads(s))
    BY <1>0, <1>4, <2>1, <2>3, <2>6 DEF DoneOnce
  <2> HIDE DEF start
  <2>7. DoneOnce(D)'
    BY <1>0, <1>1, <1>5, <2>4, <2>5, <2>6 DEF DoneOnce
  <2> QED
    BY <1>1, <2>7 DEF OnceInv
<1> QED
  BY <1>6, <1>7

\* A definition is entered once, as the outline shows it, and a reference
\* once, unless it is a connection of an unresolved instance: in whatever
\* order the roots come, and whatever is shared between the three paths, types
\* and conditions, the visitor does nothing twice that enters something.
THEOREM NamesAreOnce ==
  ASSUME AstIsTree
  PROVE  Spec => []EachNameOnce
<1>1. Init => OnceInv
  <2> SUFFICES ASSUME Init PROVE DoneOnce({})
    BY DEF OnceInv
  <2>1. stack = <<>> /\ entries = <<>> /\ Range(<<>>) = {}
    BY DEF Init, Range
  <2> QED
    BY <2>1 DEF DoneOnce, Unrepeated, EachNameOnce
<1>2. ASSUME TypeOK, Reached, OnceInv, [Next]_vars PROVE OnceInv'
  <2>0. PICK D \in SUBSET FileWork(compilation) : DoneOnce(D)
    BY <1>2 DEF OnceInv
  <2>1. CASE IndexDefinition \/ IndexPackage \/ IndexMember
    BY <1>2, <2>1, RootKeepsOnce
  <2>2. CASE VisitNode \/ VisitMention \/ VisitConnection \/ VisitType \/ VisitCondition
    BY <1>2, <2>2, ItemKeepsOnce
  <2>3. CASE NextPath \/ Sort
    <3>1. UNCHANGED <<compilation, stack, visited>> /\ Range(entries') = Range(entries)
      <4>1. CASE NextPath
        BY <4>1 DEF NextPath
      <4>2. CASE Sort
        BY <1>2, <4>2, SortKeepsEntries
      <4> QED
        BY <2>3, <4>1, <4>2
    <3>2. EachNameOnce'
      <4>1. CASE NextPath
        BY <2>0, <4>1 DEF NextPath, DoneOnce, EachNameOnce
      <4>2. CASE Sort
        BY <1>2, <2>0, <4>2, SortKeepsOnce DEF DoneOnce
      <4> QED
        BY <2>3, <4>1, <4>2
    <3>3. ASSUME NEW s \in TakenStarts PROVE s \in TakenStarts'
      <4>1. s[2][1] \in Paths /\ s[2][2] \in Taken(s[2][1]) /\ s \in Starts(compilation)
        BY DEF TakenStarts, Starts
      <4>2. PICK p \in Paths : p = s[2][1]
        BY <4>1
      <4>3. Taken(p) \subseteq Taken(p)'
        <5>1. CASE NextPath
          <6>1. path \in Paths /\ todo = {} /\ path' = After[path] /\ compilation' = compilation
            BY <5>1 DEF NextPath
          <6> QED
            BY <6>1 DEF Taken, Before, After, Paths
        <5>2. CASE Sort
          <6>1. path = "sort" /\ path' = "published" /\ UNCHANGED <<compilation, todo>>
            BY <5>2 DEF Sort
          <6> QED
            BY <6>1 DEF Taken, Before
        <5> QED
          BY <2>3, <5>1, <5>2
      <4> QED
        BY <3>1, <4>1, <4>2, <4>3 DEF TakenStarts
    <3>4. DoneOnce(D)'
      BY <2>0, <3>1, <3>2, <3>3 DEF DoneOnce
    <3> QED
      BY <3>1, <3>4 DEF OnceInv
  <2>4. CASE UNCHANGED vars
    <3>1. DoneOnce(D)'
      BY <2>0, <2>4 DEF vars, DoneOnce, EachNameOnce, TakenStarts, Taken
    <3> QED
      BY <2>4, <3>1 DEF vars, OnceInv
  <2> QED
    BY <1>2, <2>1, <2>2, <2>3, <2>4 DEF Next
<1>3. OnceInv => EachNameOnce
  BY DEF OnceInv, DoneOnce
<1> QED
  BY <1>1, <1>2, <1>3, TypeCorrect, NothingElseIsEntered, PTL DEF Spec
=============================================================================
