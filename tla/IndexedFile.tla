---------------------------- MODULE IndexedFile ----------------------------
(***************************************************************************)
(* Of which items of slang's AST the index of one file is made, and what   *)
(* of slang's AST the theorems on that index rely on, stated of a set W of *)
(* items.                                                                  *)
(***************************************************************************)
EXTENDS SemanticIndex

(***************************************************************************)
(* Done is what the visitor does with an item of its work, RootNodes where *)
(* a path starts at a root, Starts the roots of the file, Leads the work   *)
(* that an item or a root leads to.  A set of items is closed if it holds  *)
(* all that its items and the roots lead to.                               *)
(***************************************************************************)
Done(w) ==
  CASE w[1] = "node" -> Handle(Nodes[w[2]])
    [] w[1] = "mention" -> Handled(AddReference(w[2]), <<>>)
    [] w[1] = "connection" -> HandleConnection(Nodes[w[2]])
    [] w[1] = "type" -> TraverseType(Types[w[2]])
    [] w[1] = "condition" -> Handled(<<>>, Visit(<<Conditions[w[2]]>>))

RootNodes(p, root) ==
  CASE p = "definitions" ->
         IF root.kind # "Definition" THEN <<>>
         ELSE <<root.node>> \o (IF root.defaults THEN root.body ELSE <<>>)
    [] p = "packages" -> <<root.node>>
    [] p = "members" -> IF root.kind = "Package" THEN <<>> ELSE <<root.node>>

RootWork(c, p, root) ==
  IF root \in c[p] /\ IsInCurrentFile(root) THEN Range(Visit(RootNodes(p, root))) ELSE {}

Closed(c, W) ==
  /\ \A p \in Paths : \A root \in c[p] : RootWork(c, p, root) \subseteq W
  /\ \A w \in W : Range(Done(w).work) \subseteq W

Starts(c) == UNION {{<<"root", <<p, root>>>> : root \in {r \in c[p] : IsInCurrentFile(r)}} : p \in Paths}
Leads(s) == IF s[1] = "root" THEN Visit(RootNodes(s[2][1], s[2][2])) ELSE Done(s).work

-----------------------------------------------------------------------------
\* What slang declares below the roots of a file stands in the file or in a
\* file that it includes; where the names of the file lead, and what is
\* mentioned in it, may be anywhere.
NamesAreOwn(c, W) ==
  \A n \in NodeNames :
    <<"node", n>> \in W /\ Nodes[n].name \in Token => Nodes[n].name.buffer \in {Here} \cup c.included

\* A syntax that several types share leads to the same work, and no syntax
\* of a type is the condition of a generate statement.
SyntaxIsShared ==
  /\ \A t, u \in TypeNames :
       Types[t].syntax = Types[u].syntax /\ Types[t].syntax # "none"
         => Range(TraverseType(Types[t]).work) = Range(TraverseType(Types[u]).work)
  /\ \A t \in TypeNames : Types[t].syntax \notin DOMAIN Conditions

\* Of types and conditions the visitor knows which it has visited; mentions of
\* connections are added again.
Repeats(w) ==
  \/ w[1] \in {"type", "condition"}
  \/ w[1] = "mention" /\ \A e \in Range(AddReference(w[2])) : Reconnected(e)
Unrepeated(s) == \A i, j \in DOMAIN s : i # j /\ s[i] = s[j] => Repeats(s[i])

SameSyntax(u, v) ==
  /\ u[1] = "type" /\ v[1] = "type"
  /\ Types[u[2]].syntax = Types[v[2]].syntax /\ Types[u[2]].syntax # "none"

\* The AST is a tree but for what is shared: from two places of it the
\* visitor comes to the same thing only if that is a type or a condition, or
\* the places are types of one syntax, or it is a connection.  A type without
\* syntax, which is traversed every time, leads to types only.
OnePlace(c, W) ==
  LET places == W \cup Starts(c)
  IN  /\ \A s \in places : Unrepeated(Leads(s))
      /\ \A s, t \in places : \A x \in Range(Leads(s)) \cap Range(Leads(t)) :
           Repeats(x) \/ s = t \/ SameSyntax(s, t)
      /\ \A s \in W : s[1] = "type" /\ Types[s[2]].syntax = "none" =>
           \A x \in Range(Leads(s)) : Repeats(x)

\* No two items declare the same name, or mention the same thing at the same
\* place of a text: copies, iterations and the bodies of instances are not
\* among what the visitor reaches.
OneMeaning(W) ==
  \A u, v \in W :
    \A a \in Range(Done(u).adds), b \in Range(Done(v).adds) : Same(a, b) => u = v /\ a = b
=============================================================================
