--------------------------- MODULE SemanticIndex ---------------------------
(***************************************************************************)
(* SemanticIndex::FromCompilation: the definitions, the packages and the   *)
(* members of the compilation units of one file, visited one after the     *)
(* other in the order of slang's hash tables, the entries sorted and       *)
(* validated, and the lookup in what is published.                         *)
(***************************************************************************)
EXTENDS IndexVisitor, SequencesExt, TLC

CONSTANTS
  Compilations,  \* what slang has made of the file, its includes and the
                 \* preamble: three sets of roots, and the buffers included
  Positions      \* where one may ask for a definition

Root ==
  [kind : STRING, node : NodeNames, body : Seq(NodeNames),
   overlay : BOOLEAN,    \* not a symbol of the preamble's compilation
   here : BOOLEAN,       \* its location is in the file
   defaults : BOOLEAN]   \* every parameter of the definition has a default
Paths == {"definitions", "packages", "members"}

ASSUME CompilationsAssumption ==
  \A c \in Compilations : \A p \in Paths : c[p] \subseteq Root

ASSUME PositionsAssumption == Positions \subseteq Nat

VARIABLES
  compilation,
  path,      \* the path being traversed, or what comes after the three
  todo,      \* the roots the path has not come to yet
  stack,     \* the visitor's work, the next item first
  visited,   \* visited_type_syntaxes_, visited_generate_conditions_
  entries    \* semantic_entries_
vars == <<compilation, path, todo, stack, visited, entries>>

Init ==
  /\ compilation \in Compilations
  /\ path = "definitions"
  /\ todo = compilation.definitions
  /\ stack = <<>> /\ visited = {} /\ entries = <<>>

-----------------------------------------------------------------------------
(***************************************************************************)
(* The three paths.                                                        *)
(***************************************************************************)
IsInCurrentFile(root) == root.here /\ root.overlay

After == [definitions |-> "packages", packages |-> "members", members |-> "sort"]


Take(root, work) ==
  /\ todo' = todo \ {root}
  /\ stack' = IF IsInCurrentFile(root) THEN Visit(work) ELSE <<>>
  /\ UNCHANGED <<compilation, path, visited, entries>>

\* Path 1.  Checkers are among the definitions and are not indexed; a body
\* can be made only if no parameter needs a value.
IndexDefinition ==
  /\ path = "definitions" /\ stack = <<>>
  /\ \E root \in todo :
       Take(root, IF root.kind # "Definition" THEN <<>>
                  ELSE <<root.node>> \o (IF root.defaults THEN root.body ELSE <<>>))

IndexPackage ==
  /\ path = "packages" /\ stack = <<>>
  /\ \E root \in todo : Take(root, <<root.node>>)

\* Path 3.  Packages have been visited.  The tests for members of packages
\* and of classes never apply: the scope of a unit's member is the unit.
IndexMember ==
  /\ path = "members" /\ stack = <<>>
  /\ \E root \in todo : Take(root, IF root.kind = "Package" THEN <<>> ELSE <<root.node>>)

NextPath ==
  /\ path \in Paths /\ todo = {} /\ stack = <<>>
  /\ path' = After[path]
  /\ todo' = IF path = "members" THEN {} ELSE compilation[After[path]]
  /\ UNCHANGED <<compilation, stack, visited, entries>>

-----------------------------------------------------------------------------
(***************************************************************************)
(* One item of the visitor's work.                                         *)
(***************************************************************************)
At(tag) == stack # <<>> /\ Head(stack)[1] = tag
Item == Head(stack)[2]

Add(handled) ==
  /\ entries' = entries \o handled.adds
  /\ stack' = handled.work \o Tail(stack)
  /\ UNCHANGED <<compilation, path, todo>>

VisitNode == At("node") /\ Add(Handle(Nodes[Item])) /\ UNCHANGED visited
VisitMention == At("mention") /\ Add(Handled(AddReference(Item), <<>>)) /\ UNCHANGED visited
VisitConnection == At("connection") /\ Add(HandleConnection(Nodes[Item])) /\ UNCHANGED visited

\* Several variables share the syntax of their type.  A type without syntax
\* is traversed every time.
VisitType_Again == At("type") /\ Add(TraverseType(Types[Item])) /\ UNCHANGED visited
VisitType ==
  /\ At("type")
  /\ LET type == Types[Item]
     IN  /\ Add(IF type.syntax \in visited THEN Handled(<<>>, <<>>) ELSE TraverseType(type))
         /\ visited' = visited \cup ({type.syntax} \ {"none"})

\* The branches of a generate statement share its condition.
VisitCondition ==
  /\ At("condition")
  /\ Add(Handled(<<>>, IF Item \in visited THEN <<>> ELSE Visit(<<Conditions[Item]>>)))
  /\ visited' = visited \cup {Item}

-----------------------------------------------------------------------------
(***************************************************************************)
(* std::sort: entries that start at the same place come in any order; here *)
(* in the order they were added, or in the opposite one.                   *)
(* The two errors FromCompilation could still report do not occur: nothing *)
(* is ever put into indexing_errors_, and no entry is added whose location *)
(* could not be converted.                                                 *)
(***************************************************************************)
StartsBefore(a, b) == a.start < b.start
Sorted(s) == \A i, j \in DOMAIN s : i < j => ~StartsBefore(s[j], s[i])
Arrangements(s) == {SortSeq(s, StartsBefore), SortSeq(Reverse(s), StartsBefore)}
Times(e, s) == Cardinality({i \in DOMAIN s : s[i] = e})
Rearranged(t, s) == t \in Seq(Range(s)) /\ \A e \in Range(s) : Times(e, t) = Times(e, s)
Sortings(s) == {t \in Arrangements(s) : Rearranged(t, s) /\ Sorted(t)}

Sort ==
  /\ path = "sort"
  /\ entries' \in Sortings(entries)
  /\ path' = "published"
  /\ UNCHANGED <<compilation, todo, stack, visited>>

Next ==
  \/ IndexDefinition \/ IndexPackage \/ IndexMember \/ NextPath
  \/ VisitNode \/ VisitMention \/ VisitConnection \/ VisitType \/ VisitCondition
  \/ Sort
Spec == Init /\ [][Next]_vars

-----------------------------------------------------------------------------
(***************************************************************************)
(* LookupDefinitionAt, at most one definition, and the validation that     *)
(* looks at neighbours.                                                    *)
(***************************************************************************)
RangeContains_Closed(range, position) == range.start <= position /\ position <= range.end
RangeContains(range, position) == range.start <= position /\ position < range.end

\* The entry before the upper bound of the position.
Candidate_LowerBound(s, position) ==
  {i \in DOMAIN s : s[i].start < position /\ \A j \in DOMAIN s : i < j => ~(s[j].start < position)}
Candidate(s, position) ==
  {i \in DOMAIN s : s[i].start <= position /\ \A j \in DOMAIN s : i < j => position < s[j].start}

LookupDefinitionAt(s, position) ==
  {s[i].def_loc : i \in {c \in Candidate(s, position) : RangeContains(s[c], position)}}

Overlap(a, b) == a.start < b.end /\ b.start < a.end
ValidateNoRangeOverlaps_Ties(s) ==
  \A i \in DOMAIN s : i > 1 => ~(s[i - 1].start < s[i].start /\ s[i].start < s[i - 1].end)
ValidateNoRangeOverlaps(s) == \A i \in DOMAIN s : i > 1 => ~Overlap(s[i - 1], s[i])

Published == path = "published"

-----------------------------------------------------------------------------
(***************************************************************************)
(* Properties.                                                             *)
(***************************************************************************)
Work ==
  ({"node", "connection"} \X NodeNames) \cup ({"type"} \X TypeNames)
  \cup ({"condition"} \X DOMAIN Conditions) \cup ({"mention"} \X Mention)
Entries ==
  {e \in [start : Nat, end : Nat, buffer : STRING, def_loc : Token, is_definition : BOOLEAN] :
     e.start < e.end}

\* The paths come one after the other, and an entry is a range that is not
\* empty and leads to a token some source declares.
TypeOK ==
  /\ compilation \in Compilations
  /\ path \in Paths \cup {"sort", "published"}
  /\ todo \subseteq Root
  /\ path \in Paths => todo \subseteq compilation[path]
  /\ path \notin Paths => todo = {} /\ stack = <<>>
  /\ stack \in Seq(Work)
  /\ entries \in Seq(Entries)

\* A definition is entered once, as the outline shows it, however often the
\* AST has it: variables share types, elements and iterations are copies, a
\* body has its instances, a package is a member of its unit.  References are
\* doubled only where a connection of an unresolved instance is added again.
Same(a, b) == a.start = b.start /\ a.end = b.end /\ a.buffer = b.buffer /\ a.def_loc = b.def_loc
Reconnected(e) ==
  \E n \in Range(Nodes) : /\ n.kind = "UninstantiatedDef"
                          /\ \E operand \in Range(n.operands) : \E m \in Range(Nodes[operand].mentions) :
                               e = Entry(m.at, m.to, FALSE)
EachNameOnce ==
  \A i, j \in DOMAIN entries :
    i < j /\ Same(entries[i], entries[j]) => Reconnected(entries[i]) /\ ~entries[i].is_definition

\* What a reader of the file sees: the nodes below the roots of the file, but
\* for the bodies slang cannot make, those of instances in modules, and the
\* elements of arrays of instances.
Depth == 6
TypesOf(n) ==
  LET direct == Range(n.type)
  IN  {t \in direct \cup UNION {Range(Types[t].type) : t \in direct} : Types[t].kind # "Class"}
Below(n) ==
  Range(n.operands) \cup {Conditions[c] : c \in Range(n.conditions)}
  \cup (IF n.kind \in {"Instance", "InstanceArray"} THEN {} ELSE Range(n.members))
  \cup UNION {Range(Types[t].members \o Types[t].operands) : t \in TypesOf(n)}
Roots(c) ==
  LET Seen(roots) == {r \in roots : r.overlay /\ r.here /\ r.kind # "Checker"}
  IN  {r.node : r \in Seen(c.definitions \cup c.packages \cup c.members)}
      \cup UNION {Range(r.body) : r \in {d \in Seen(c.definitions) : d.defaults}}
InFile(c) ==
  LET reach[d \in 0..Depth] ==
        IF d = 0 THEN Roots(c)
        ELSE reach[d - 1] \cup UNION {Below(Nodes[n]) : n \in reach[d - 1]}
  IN  {n \in {Nodes[name] : name \in reach[Depth]} : n.special => n.kind = "ArbitrarySymbol"}

\* The names in it that resolve: what it mentions, its labels, what it declares.
Mentioned(n) ==
  Range(n.mentions) \cup {[at |-> n.label, to |-> n.name]}
  \cup (IF n.kind = "InstanceArray" THEN {} ELSE Range(n.ports))
  \cup UNION {Range(Types[t].mentions) : t \in TypesOf(n)}
Names(c) ==
  LET all == UNION {Mentioned(n) \cup {[at |-> n.name, to |-> n.name]} : n \in InFile(c)}
  IN  {name \in all : name.at # NoToken /\ name.to # NoToken}

\* Every name of the file that resolves leads to what it means from its
\* first character, though ranges may be nested and entries may be tied; a
\* name with two meanings leads to one of them.  (An included definition with
\* the same coordinates may hide it.)
NamesResolve ==
  Published =>
    \A name \in Names(compilation) :
      /\ name.at.buffer = Here
      /\ \A e \in Range(entries) : e.start = name.at.start => e.buffer = Here
      => LET found == LookupDefinitionAt(entries, name.at.start)
         IN  /\ found # {}
             /\ found \subseteq {other.to : other \in {o \in Names(compilation) :
                                   o.at.buffer = Here /\ o.at.start = name.at.start}}


\* A lookup answers with an entry that contains the position, and if the
\* validation has nothing to warn of it finds every such entry.
LookupFinds ==
  Published =>
    \A position \in Positions :
      LET around == {e \in Range(entries) : position \in e.start .. e.end - 1}
          found == LookupDefinitionAt(entries, position)
      IN  /\ found \subseteq {e.def_loc : e \in around}
          /\ ValidateNoRangeOverlaps(entries) => found = {e.def_loc : e \in around}

\* To look at neighbours is enough: if any two entries overlap, two
\* neighbours do.
OverlapsAreSeen ==
  Published =>
    (ValidateNoRangeOverlaps(entries)
       <=> \A i, j \in DOMAIN entries : i # j => ~Overlap(entries[i], entries[j]))
=============================================================================
