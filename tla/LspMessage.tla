----------------------------- MODULE LspMessage -----------------------------
(***************************************************************************)
(* One message: a value of one of the types of the protocol is written to  *)
(* JSON, travels, and is read.  The peer at the other end of the wire may  *)
(* be another implementation (the client is): it may spell an absent       *)
(* optional member as null, an empty object as {}, and add members that    *)
(* this code does not know.                                                *)
(***************************************************************************)
EXTENDS LspCodec

VARIABLES
  type,      \* the type of the message
  value,     \* what the writer holds
  wire,      \* the JSON on the wire, Absent before it is written
  read       \* what the reader got: a value, Throws, or <<"pending">>
vars == <<type, value, wire, read>>

Pending == <<"pending">>

(***************************************************************************)
(* The values of a type: everything optional absent, everything present,   *)
(* and each member varied alone, down to a depth.                          *)
(***************************************************************************)
Depth == 4

RECURSIVE Sample(_, _, _)
\* One value; with "full" the optional members are there and the lists are
\* not empty.
Sample(t, full, depth) ==
  CASE t[1] = "optional" -> IF full /\ depth > 0 THEN Sample(t[2], full, depth) ELSE Absent
    [] t[1] = "vector" -> <<"vector", IF full /\ depth > 0 THEN <<Sample(t[2], full, depth)>> ELSE <<>>>>
    [] t[1] = "map" -> <<"map", IF full THEN [file |-> Sample(t[2], full, depth)] ELSE NoFields>>
    [] t[1] = "kind" -> <<"text", t[2]>>
    [] t[1] = "bool" -> <<"bool", TRUE>>
    [] t[1] = "int" -> <<"int", 7>>
    [] t[1] \in {"text", "json"} -> <<t[1], "x">>
    [] t[1] \in DOMAIN Enumerators -> <<"enum", t[1], CHOOSE e \in DOMAIN Enumerators[t[1]] : TRUE>>
    [] t[1] \in DOMAIN NumberEnums -> <<"number", CHOOSE n \in NumberEnums[t[1]] : TRUE>>
    [] t[1] \in DOMAIN Alternatives -> Sample(CHOOSE a \in Alternatives[t[1]] : TRUE, full, depth)
    [] OTHER -> Struct(t[1], [f \in DOMAIN Fields[t[1]] |-> Sample(Fields[t[1]][f], full, depth - 1)])

RECURSIVE Samples(_, _)
Samples(t, depth) ==
  CASE depth = 0 -> {Sample(t, FALSE, 0)}
    [] t[1] = "optional" -> {Absent} \cup Samples(t[2], depth)
    [] t[1] = "vector" -> {<<"vector", <<>>>>} \cup {<<"vector", <<v>>>> : v \in Samples(t[2], depth)}
    [] t[1] = "map" -> {<<"map", NoFields>>} \cup {<<"map", [file |-> v]>> : v \in Samples(t[2], depth)}
    [] t[1] \in DOMAIN Enumerators -> {<<"enum", t[1], e>> : e \in DOMAIN Enumerators[t[1]]}
    [] t[1] \in DOMAIN NumberEnums -> {<<"number", n>> : n \in NumberEnums[t[1]]}
    [] t[1] \in DOMAIN Alternatives -> UNION {Samples(a, depth) : a \in Alternatives[t[1]]}
    [] t[1] \in DOMAIN Fields ->
         LET least == Sample(t, FALSE, depth)
         IN  {least, Sample(t, TRUE, depth)} \cup
             UNION {{[least EXCEPT ![3][f] = v] : v \in Samples(Fields[t[1]][f], depth - 1)} :
                    f \in DOMAIN Fields[t[1]]}
    [] OTHER -> {Sample(t, FALSE, depth)}

NavigationResults == {Absent} \cup Samples(A("Location"), Depth)
  \cup Samples(List(A("Location")), Depth) \cup Samples(List(A("LocationLink")), Depth)

Messages ==
  [name \in DOMAIN Fields \cup DOMAIN Arms |-> Samples(A(name), Depth)] @@
  [name \in DOMAIN OptionalResults |-> {Absent} \cup Samples(Results[name], Depth)] @@
  [NavigationResult |-> NavigationResults,
   DocumentSymbolResult |-> {Absent} \cup UNION {Samples(List(A(symbol)), Depth) :
                              symbol \in {"DocumentSymbol", "SymbolInformation"}}]

Init ==
  /\ \E t \in DOMAIN Messages : type = t /\ value \in Messages[t]
  /\ wire = Absent
  /\ read = Pending

WriteMessage ==
  /\ wire = Absent
  /\ wire' = ToJson(type, value)
  /\ UNCHANGED <<type, value, read>>

\* The other implementation's spelling of the same struct.
Respell ==
  /\ type \in DOMAIN Fields /\ wire # Absent /\ read = Pending
  /\ LET members == IF wire = Null THEN NoFields ELSE wire[2]
         unset == {f \in DOMAIN Fields[type] : Fields[type][f][1] = "optional"} \ DOMAIN members
     IN  wire' = <<"object", members @@ Each(unset \cup {"other"}, Null)>>
  /\ UNCHANGED <<type, value, read>>

ReadMessage ==
  /\ wire # Absent /\ read = Pending
  /\ read' = FromJson(type, wire)
  /\ UNCHANGED <<type, value, wire>>

Next == WriteMessage \/ Respell \/ ReadMessage
Spec == Init /\ [][Next]_vars

(***************************************************************************)
(* Properties                                                              *)
(***************************************************************************)
\* The structs inside a value.
RECURSIVE Parts(_)
Parts(v) ==
  CASE v[1] = "struct" -> {v} \cup UNION {Parts(v[3][f]) : f \in DOMAIN v[3]}
    [] v[1] \in {"vector", "map"} -> UNION {Parts(v[2][i]) : i \in DOMAIN v[2]}
    [] OTHER -> {}

\* What from_json refuses although to_json wrote it: an edit of a document in
\* a list of changes, which has no "kind"; synchronisation options without
\* "openClose"; the reports of the workspace, whose to_json forgets "kind"; and
\* a result of symbol informations, which is read as one of document symbols.
RefusedPart(part) ==
  \/ part[2] \in {"TextDocumentEdit", "WorkspaceFullDocumentDiagnosticReport",
                  "WorkspaceUnchangedDocumentDiagnosticReport"}
  \/ part[2] = "SymbolInformation" /\ type = "DocumentSymbolResult"
  \/ part[2] = "TextDocumentSyncOptions" /\ part[3]["openClose"] = Absent

Refused(v) == \E part \in Parts(v) : RefusedPart(part)

\* Every message this code writes, its own readers accept, whatever dialect the
\* peer speaks, but for the four kinds named above.
EveryMessageIsRead == read = Throws => Refused(value)

\* The members that the functions are known to lose.
Lost == [
  ClientFileOperations |-> {"didDelete", "willDelete"},
  WorkspaceClientCapabilities |-> {"inlineValue", "inlayHint", "diagnostics"},
  InitializeParams |-> {"workDoneToken"},
  ExecuteCommandParams |-> {"workDoneToken"},
  DocumentSymbolParams |-> Tokens, WorkspaceSymbolParams |-> Tokens,
  DocumentDiagnosticParams |-> Tokens, WorkspaceDiagnosticParams |-> Tokens,
  RelatedFullDocumentDiagnosticReport |-> {"relatedDocuments"},
  RelatedUnchangedDocumentDiagnosticReport |-> {"relatedDocuments"},
  WorkspaceFullDocumentDiagnosticReport |-> {"kind", "items", "resultId"},
  WorkspaceUnchangedDocumentDiagnosticReport |-> {"kind", "resultId"}]
LostOf(name) == IF name \in DOMAIN Lost THEN Lost[name] ELSE {}

\* What a value says, but for the lost members: a struct that says nothing is
\* as good as an absent one.
RECURSIVE Meaning(_)
Meaning(v) ==
  CASE v[1] = "struct" ->
         LET says == [f \in DOMAIN v[3] \ LostOf(v[2]) |-> Meaning(v[3][f])]
         IN  IF \A f \in DOMAIN says : says[f] = Absent THEN Absent ELSE Struct(v[2], says)
    [] v[1] \in {"vector", "map"} -> <<v[1], [i \in DOMAIN v[2] |-> Meaning(v[2][i])]>>
    [] OTHER -> v

\* A message that is read says what was written: no key is spelt differently
\* or forgotten on one side, no alternative of a variant is taken for another,
\* no enumerator for another, and null, {} and unknown members change nothing.
\* The reader of navigation results, which looks at their shape only, is left out.
NothingElseLost ==
  \/ read \in {Pending, Throws}
  \/ type = "NavigationResult"
  \/ Meaning(read) = Meaning(value)
=============================================================================
