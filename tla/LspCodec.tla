------------------------------ MODULE LspCodec ------------------------------
(***************************************************************************)
(* What the to_json and from_json functions of src/src/lsp do with the     *)
(* types of LspTypes, and a message that travels from a writer to a        *)
(* reader.  A member is lost when no function names its key, or when only  *)
(* to_json does; an alternative of a variant is lost when from_json cannot *)
(* tell it apart.                                                          *)
(*                                                                         *)
(* JSON values and C++ values are tagged tuples; texts, numbers, flags and *)
(* raw JSON look the same on both sides, everything else does not.         *)
(***************************************************************************)
EXTENDS LspTypes, FiniteSets, Sequences

(***************************************************************************)
(* The keys that both functions of a struct handle.                        *)
(***************************************************************************)
PositionKeys == {"textDocument", "position"}

TextKeys == [
  CancelParams |-> {"id"},
  ProgressParams |-> {"token", "value"},
  RegularExpressionsClientCapabilities |-> {"engine", "version"},
  Position |-> {"line", "character"},
  Range |-> {"start", "end"},
  TextDocumentItem |-> {"uri", "languageId", "version", "text"},
  TextDocumentIdentifier |-> {"uri"},
  VersionedTextDocumentIdentifier |-> {"uri", "version"},
  OptionalVersionedTextDocumentIdentifier |-> {"uri", "version"},
  TextDocumentPositionParams |-> PositionKeys]

DiagnosticKeys == [
  DocumentFilter |-> {"language", "scheme", "pattern"},
  TextEdit |-> {"range", "newText"},
  ChangeAnnotation |-> {"label", "needsConfirmation", "description"},
  AnnotatedTextEdit |-> {"range", "newText", "annotationId"},
  TextDocumentEdit |-> {"edits", "textDocument"},
  Location |-> {"uri", "range"},
  LocationLink |-> {"targetUri", "targetRange", "targetSelectionRange", "originSelectionRange"},
  CodeDescription |-> {"href"},
  DiagnosticRelatedInformation |-> {"location", "message"}]

FileEditKeys == [
  Diagnostic |-> {"range", "message", "severity", "code", "codeDescription", "source",
                  "tags", "relatedInformation", "data"},
  Command |-> {"title", "command", "arguments"},
  MarkupContent |-> {"kind", "value"},
  MarkdownClientCapabilities |-> {"parser", "version", "allowedTags"},
  CreateFileOptions |-> {"overwrite", "ignoreIfExists"},
  CreateFile |-> {"kind", "uri", "options", "annotationId"},
  RenameFileOptions |-> {"overwrite", "ignoreIfExists"},
  RenameFile |-> {"kind", "oldUri", "newUri", "options", "annotationId"},
  DeleteFileOptions |-> {"recursive", "ignoreIfNotExists"}]

WorkspaceEditKeys == [
  DeleteFile |-> {"kind", "uri", "options", "annotationId"},
  WorkspaceEdit |-> {"changes", "documentChanges", "changeAnnotations"},
  ChangeAnnotationSupport |-> {"groupsOnLabel"},
  WorkspaceEditClientCapabilities |->
    {"documentChanges", "resourceOperations", "failureHandling", "normalizesLineEndings",
     "changeAnnotationSupport"}]

ProgressKeys == [
  WorkDoneProgressBegin |-> {"kind", "title", "cancellable", "message", "percentage"},
  WorkDoneProgressReport |-> {"kind", "cancellable", "message", "percentage"},
  WorkDoneProgressEnd |-> {"kind", "message"},
  WorkDoneProgressParams |-> {"workDoneToken"},
  WorkDoneProgressOptions |-> {"workDoneProgress"},
  PartialResultParams |-> {"partialResultToken"},
  WorkspaceFolder |-> {"uri", "name"}]

\* The functions of the empty capability structs name nothing.
EmptyKeys == [Empty |-> {}]

WorkspaceCapabilityKeys == [
  DidChangeWatchedFilesClientCapabilities |-> {"dynamicRegistration", "relativePatternSupport"},
  ClientFileOperations |-> {"dynamicRegistration", "didCreate", "willCreate", "didRename",
                            "willRename", "didDelete", "willDelete"},
  WorkspaceClientCapabilities |->
    {"applyEdit", "workspaceEdit", "didChangeConfiguration", "didChangeWatchedFiles",
     "symbol", "executeCommand", "workspaceFolders", "configuration", "semanticTokens",
     "codeLens", "fileOperations", "inlineValue", "inlayHint", "diagnostics"}]

\* A seeded fault: a key is forgotten in one of the from_json functions.
Unread_Forgets == [
  ClientFileOperations |-> {"didDelete", "willDelete"},
  WorkspaceClientCapabilities |-> {"inlineValue", "inlayHint", "diagnostics"},
  DidSaveTextDocumentParams |-> {"text"}]

\* The keys above that from_json does not name.
Unread == [
  ClientFileOperations |-> {"didDelete", "willDelete"},
  WorkspaceClientCapabilities |-> {"inlineValue", "inlayHint", "diagnostics"}]

TextDocumentCapabilityKeys ==
  [TextDocumentClientCapabilities |-> TextDocumentCapabilities]

ClientCapabilityKeys == [
  NotebookDocumentClientCapabilities |-> {"synchronization"},
  WindowClientCapabilities |-> {"workDoneProgress", "showMessage", "showDocument"},
  StaleRequestSupport |-> {"cancel", "retryOnContentModified"},
  GeneralClientCapabilities |->
    {"staleRequestSupport", "regularExpressions", "markdown", "positionEncodings"},
  ClientCapabilities |->
    {"workspace", "textDocument", "notebookDocument", "window", "general", "experimental"}]

SyncOptionKeys == [
  SaveOptions |-> {"includeText"},
  TextDocumentSyncOptions |-> {"openClose", "change", "willSave", "willSaveWaitUntil", "save"}]

RegistrationOptionKeys == [RegistrationOptions |-> {}]

WorkspaceFolderKeys ==
  [WorkspaceFoldersServerCapabilities |-> {"supported", "changeNotifications"}]

ServerCapabilityKeys == [
  ServerFileOperations |->
    {"didCreate", "willCreate", "didRename", "willRename", "didDelete", "willDelete"},
  ServerWorkspace |-> {"workspaceFolders", "fileOperations"},
  ServerCapabilities |->
    OptionProviders \cup FlagProviders \cup RegisteredProviders \cup
    {"positionEncoding", "textDocumentSync", "notebookDocumentSync", "workspace",
     "experimental"}]

LifecycleKeys == [
  ClientInfo |-> {"name", "version"},
  InitializeParams |-> {"processId", "clientInfo", "locale", "rootPath", "rootUri",
    "initializationOptions", "capabilities", "trace", "workspaceFolders"},
  ServerInfo |-> {"name", "version"},
  InitializeResult |-> {"capabilities", "serverInfo"},
  Registration |-> {"id", "method", "registerOptions"},
  RegistrationParams |-> {"registrations"},
  StaticRegistrationOptions |-> {"id"},
  Unregistration |-> {"id", "method"},
  UnregistrationParams |-> {"unregistrations"},
  SetTraceParams |-> {"value"},
  LogTraceParams |-> {"message", "verbose"}]

DocumentSyncKeys == [
  DidOpenTextDocumentParams |-> {"textDocument"},
  PartialChangeEvent |-> {"range", "text", "rangeLength"},
  FullChangeEvent |-> {"text"},
  DidChangeTextDocumentParams |-> {"textDocument", "contentChanges"},
  WillSaveTextDocumentParams |-> {"textDocument", "reason"},
  WillSaveTextDocumentResult |-> {"textEdits"},
  DidSaveTextDocumentParams |-> {"textDocument", "text"},
  DidCloseTextDocumentParams |-> {"textDocument"}]

Tokens == {"workDoneToken", "partialResultToken"}

NavigationKeys ==
  Each({"DeclarationParams", "DefinitionParams", "TypeDefinitionParams",
        "ImplementationParams"}, PositionKeys \cup Tokens) @@
  [ReferenceContext |-> {"includeDeclaration"},
   ReferenceParams |-> PositionKeys \cup Tokens \cup {"context"}]

SymbolKeys == [
  DocumentSymbolParams |-> {"textDocument"},
  DocumentSymbol |-> {"name", "detail", "kind", "tags", "deprecated", "range",
                      "selectionRange", "children"},
  SymbolInformation |-> {"name", "kind", "tags", "deprecated", "location", "containerName"}]

WatcherKeys == [
  RelativePattern |-> {"baseUri", "pattern"},
  FileSystemWatcher |-> {"globPattern", "kind"},
  WatchedFilesRegistrationOptions |-> {"watchers"}]

FullReportKeys == {"kind", "items", "resultId"}
UnchangedReportKeys == {"kind", "resultId"}

ReportKeys == [
  PublishDiagnosticsParams |-> {"uri", "diagnostics", "version"},
  DocumentDiagnosticParams |-> {"textDocument", "identifier", "previousResultId"},
  FullDocumentDiagnosticReport |-> FullReportKeys,
  UnchangedDocumentDiagnosticReport |-> UnchangedReportKeys,
  RelatedFullDocumentDiagnosticReport |-> FullReportKeys,
  RelatedUnchangedDocumentDiagnosticReport |-> UnchangedReportKeys,
  DiagnosticServerCancellationData |-> {"retriggerRequest"},
  PreviousResultId |-> {"uri", "value"},
  WorkspaceDiagnosticParams |-> {"identifier", "previousResultIds"}]

WorkspaceReportKeys == [
  WorkspaceFullDocumentDiagnosticReport |-> {"uri", "version"},
  WorkspaceUnchangedDocumentDiagnosticReport |-> {"uri", "version"},
  WorkspaceDiagnosticReport |-> {"items"}]

WorkspaceKeys == [
  WorkspaceSymbolParams |-> {"query"},
  WorkspaceSymbol |-> {"name", "kind", "tags", "containerName", "location", "data"},
  ConfigurationItem |-> {"scopeUri", "section"},
  ConfigurationParams |-> {"items"},
  DidChangeConfigurationParams |-> {"settings"},
  WorkspaceFoldersChangeEvent |-> {"added", "removed"},
  DidChangeWorkspaceFoldersParams |-> {"event"},
  FileCreate |-> {"uri"},
  CreateFilesParams |-> {"files"}]

FileOperationKeys == [
  FileRename |-> {"oldUri", "newUri"},
  RenameFilesParams |-> {"files"},
  FileDelete |-> {"uri"},
  DeleteFilesParams |-> {"files"},
  FileEvent |-> {"uri", "type"},
  DidChangeWatchedFilesParams |-> {"changes"},
  ExecuteCommandParams |-> {"command", "arguments"},
  ApplyWorkspaceEditParams |-> {"label", "edit"},
  ApplyWorkspaceEditResult |-> {"applied", "failureReason", "failedChange"}]

Keys ==
  TextKeys @@ DiagnosticKeys @@ FileEditKeys @@ WorkspaceEditKeys @@ ProgressKeys @@
  EmptyKeys @@ WorkspaceCapabilityKeys @@ TextDocumentCapabilityKeys @@
  ClientCapabilityKeys @@ SyncOptionKeys @@ RegistrationOptionKeys @@
  WorkspaceFolderKeys @@ ServerCapabilityKeys @@ LifecycleKeys @@ DocumentSyncKeys @@
  NavigationKeys @@ SymbolKeys @@ WatcherKeys @@ ReportKeys @@ WorkspaceReportKeys @@
  WorkspaceKeys @@ FileOperationKeys

(***************************************************************************)
(* How from_json tells the alternatives of a variant apart: the first arm  *)
(* whose test holds; when none does it throws.                             *)
(***************************************************************************)
Arm(test, arg, t) == [test |-> test, arg |-> arg, type |-> t]
Else(t) == Arm("always", "", t)
FlagOr(t) == <<Arm("is", "bool", Bool), Else(t)>>
FlagOrRegistered ==
  <<Arm("is", "bool", Bool), Arm("has", "documentSelector", A("RegistrationOptions")),
    Else(Empty)>>

EditArms == [
  TextEditVariant |-> <<Arm("has", "annotationId", A("AnnotatedTextEdit")),
                        Else(A("TextEdit"))>>,
  TextDocumentContentChangeEvent |-> <<Arm("has", "range", A("PartialChangeEvent")),
                                       Else(A("FullChangeEvent"))>>]

DocumentChangeArms == [
  DocumentChange |-> <<Arm("kind", "create", A("CreateFile")),
                       Arm("kind", "rename", A("RenameFile")),
                       Arm("kind", "delete", A("DeleteFile"))>>]

GlobArms == [GlobPattern |-> <<Arm("is", "text", Text), Arm("is", "object", A("RelativePattern"))>>]

LocationArms == [LocationOrUri |-> <<Arm("is", "text", Text), Else(A("Location"))>>]

DocumentReportArms == [DocumentDiagnosticReport |->
  <<Arm("kind", "full", A("RelatedFullDocumentDiagnosticReport")),
    Arm("kind", "unchanged", A("RelatedUnchangedDocumentDiagnosticReport"))>>]

WorkspaceReportArms == [WorkspaceDocumentDiagnosticReport |->
  <<Arm("kind", "full", A("WorkspaceFullDocumentDiagnosticReport")),
    Arm("kind", "unchanged", A("WorkspaceUnchangedDocumentDiagnosticReport"))>>]

\* A change notification that is neither a string nor a boolean leaves the
\* variant with its default.
SyncArms == [
  Save |-> FlagOr(A("SaveOptions")),
  ChangeNotifications |-> <<Arm("is", "text", Text), Arm("is", "bool", Bool),
                           Else(<<"default", Text>>)>>,
  TextDocumentSync |-> <<Arm("has", "openClose", A("TextDocumentSyncOptions")),
                         Else(A("TextDocumentSyncKind"))>>,
  NotebookDocumentSync |-> <<Arm("has", "id", A("RegistrationOptions")), Else(Empty)>>]

NavigationProviderArms ==
  Each({"hoverProvider", "definitionProvider", "referencesProvider",
        "documentHighlightProvider", "documentSymbolProvider", "codeActionProvider"},
       FlagOr(Empty)) @@
  Each({"declarationProvider", "typeDefinitionProvider", "implementationProvider",
        "colorProvider"}, FlagOrRegistered)

FormattingProviderArms ==
  Each({"documentFormattingProvider", "documentRangeFormattingProvider",
        "renameProvider"}, FlagOr(Empty)) @@
  Each({"foldingRangeProvider", "selectionRangeProvider", "linkedEditingRangeProvider",
        "callHierarchyProvider"}, FlagOrRegistered)

TokenProviderArms ==
  Each({"semanticTokensProvider", "monikerProvider", "typeHierarchyProvider",
        "inlineValueProvider", "inlayHintProvider", "diagnosticProvider"}, FlagOrRegistered) @@
  [workspaceSymbolProvider |-> FlagOr(Empty)]

Arms ==
  EditArms @@ DocumentChangeArms @@ GlobArms @@ LocationArms @@ DocumentReportArms @@
  WorkspaceReportArms @@ SyncArms @@ NavigationProviderArms @@ FormattingProviderArms @@
  TokenProviderArms

(***************************************************************************)
(* Values.  A struct is <<"struct", its type, its members>>.               *)
(***************************************************************************)
Absent == <<"absent">>
Throws == <<"throws">>
Null == <<"null">>
Struct(name, members) == <<"struct", name, members>>
Default(t) ==
  CASE t[1] = "optional" -> Absent
    [] t[1] = "vector" -> <<"vector", <<>>>>
    [] t[1] = "kind" -> <<"text", t[2]>>
    [] OTHER -> <<t[1], "">>

ReadKeys(name) == IF name \in DOMAIN Unread THEN Keys[name] \ Unread[name] ELSE Keys[name]

\* A json value that no function assigns to stays null.
RECURSIVE Write(_)
Write(v) ==
  CASE v = Absent -> Null
    [] v[1] = "struct" ->
         LET keys == {k \in Keys[v[2]] : v[3][k] # Absent}
         IN  IF keys = {} THEN Null ELSE <<"object", [k \in keys |-> Write(v[3][k])]>>
    [] v[1] = "vector" -> <<"array", [i \in DOMAIN v[2] |-> Write(v[2][i])]>>
    [] v[1] = "map" -> <<"object", [k \in DOMAIN v[2] |-> Write(v[2][k])]>>
    [] v[1] = "enum" -> <<"text", Enumerators[v[2]][v[3]]>>
    [] v[1] = "number" -> <<"int", v[2]>>
    [] OTHER -> v

Has(j, key) == j[1] = "object" /\ key \in DOMAIN j[2]

\* A seeded fault: null is not taken for absent.
Present_Null(j, key) == Has(j, key)
Present(j, key) == Has(j, key) /\ j[2][key] # Null
Passes(arm, j) ==
  CASE arm.test = "is" -> j[1] = arm.arg
    [] arm.test = "has" -> Has(j, arm.arg)
    [] arm.test = "kind" -> Has(j, "kind") /\ j[2]["kind"] = <<"text", arm.arg>>
    [] OTHER -> TRUE

\* An exception while reading a part is an exception of the whole.
Whole(tag, parts) ==
  IF \E i \in DOMAIN parts : parts[i] = Throws THEN Throws ELSE Append(tag, parts)

RECURSIVE Read(_, _)
ReadMember(t, j, key) ==
  CASE t[1] = "optional" -> IF Present(j, key) THEN Read(t[2], j[2][key]) ELSE Absent
    [] OTHER -> IF Has(j, key) THEN Read(t, j[2][key]) ELSE Throws
Read(t, j) ==
  CASE t[1] \in {"text", "int", "bool"} -> IF j[1] = t[1] THEN j ELSE Throws
    [] t[1] = "kind" -> IF j[1] = "text" THEN j ELSE Throws
    [] t[1] = "json" -> j
    [] t[1] = "default" -> Default(t[2])
    [] t[1] = "vector" ->
         IF j[1] = "array"
         THEN Whole(<<"vector">>, [i \in DOMAIN j[2] |-> Read(t[2], j[2][i])]) ELSE Throws
    [] t[1] = "map" ->
         IF j[1] = "object"
         THEN Whole(<<"map">>, [k \in DOMAIN j[2] |-> Read(t[2], j[2][k])]) ELSE Throws
    [] t[1] \in DOMAIN Enumerators ->
         LET spelt == {e \in DOMAIN Enumerators[t[1]] : <<"text", Enumerators[t[1]][e]>> = j}
         IN  IF spelt = {} THEN Throws ELSE <<"enum", t[1], CHOOSE e \in spelt : TRUE>>
    [] t[1] \in DOMAIN NumberEnums -> IF j[1] = "int" THEN <<"number", j[2]>> ELSE Throws
    [] t[1] \in DOMAIN Arms ->
         LET arms == SelectSeq(Arms[t[1]], LAMBDA arm : Passes(arm, j))
         IN  IF arms = <<>> THEN Throws ELSE Read(Head(arms).type, j)
    [] t[1] \in DOMAIN Fields ->
         Whole(<<"struct", t[1]>>,
               [f \in DOMAIN Fields[t[1]] |->
                  IF f \in ReadKeys(t[1]) THEN ReadMember(Fields[t[1]][f], j, f)
                                          ELSE Default(Fields[t[1]][f])])

(***************************************************************************)
(* The results that are optional as a whole.                               *)
(***************************************************************************)
OptionalResults == [
  WorkspaceSymbolResult |-> List(A("WorkspaceSymbol")),
  WorkspaceFolderResult |-> List(A("WorkspaceFolder")),
  WorkspaceEditResult |-> A("WorkspaceEdit")]

\* to_json writes both alternatives, lists of symbols of either kind; from_json
\* reads every array as document symbols.
SymbolResults == [DocumentSymbolResult |-> List(A("DocumentSymbol"))]

\* The result of the declaration, definition, type definition and
\* implementation requests has one codec.  to_json writes nothing for links.
WriteNavigationResult(v) ==
  IF v[1] = "vector" /\ v[2] # <<>> /\ Head(v[2])[2] = "LocationLink" THEN Null ELSE Write(v)

\* from_json looks at the shape of the value and at nothing in it.
BlankPosition == Struct("Position", Each({"line", "character"}, <<"int", 0>>))
BlankLocation == Struct("Location",
  [uri |-> <<"text", "">>, range |-> Struct("Range", Each({"start", "end"}, BlankPosition))])
ReadNavigationResult(j) ==
  CASE j[1] = "array" -> <<"vector", <<>>>>
    [] j[1] = "object" -> BlankLocation
    [] OTHER -> Absent

Results == OptionalResults @@ SymbolResults

ToJson(type, v) == IF type = "NavigationResult" THEN WriteNavigationResult(v) ELSE Write(v)
FromJson(type, j) ==
  CASE type = "NavigationResult" -> ReadNavigationResult(j)
    [] type \in DOMAIN Results -> IF j = Null THEN Absent ELSE Read(Results[type], j)
    [] OTHER -> Read(A(type), j)
=============================================================================
