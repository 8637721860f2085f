------------------------------ MODULE LspTypes ------------------------------
(***************************************************************************)
(* The message types that src/include/lsp declares: the members of every   *)
(* struct (tables named ...Fields), the enumerators and the JSON value of  *)
(* each (...Enums), the alternatives of the variants.  LspCodec says which *)
(* of these members to_json and from_json handle.                          *)
(***************************************************************************)
EXTENDS Naturals, TLC

Text == <<"text">>
Number == <<"int">>
Bool == <<"bool">>
Json == <<"json">>
Opt(t) == <<"optional", t>>
List(t) == <<"vector", t>>
Map(t) == <<"map", t>>
Kind(s) == <<"kind", s>>       \* a discriminator that keeps its initialiser
A(name) == <<name>>            \* a type of the tables below
Each(names, t) == [n \in names |-> t]
NoFields == Each({}, Json)

(***************************************************************************)
(* The members of the structs.                                             *)
(***************************************************************************)
Token == [workDoneToken |-> Opt(Text)]
PartialToken == [partialResultToken |-> Opt(Text)]
InDocument == [textDocument |-> A("TextDocumentIdentifier")]
AtPosition == InDocument @@ [position |-> A("Position")]
AtRange == [range |-> A("Range")]

TextFields == [
  CancelParams |-> [id |-> Text],
  ProgressParams |-> [token |-> Text, value |-> Json],
  RegularExpressionsClientCapabilities |-> [engine |-> Text, version |-> Opt(Text)],
  Position |-> Each({"line", "character"}, Number),
  Range |-> Each({"start", "end"}, A("Position")),
  TextDocumentItem |-> [version |-> Number] @@ Each({"uri", "languageId", "text"}, Text),
  TextDocumentIdentifier |-> [uri |-> Text],
  VersionedTextDocumentIdentifier |-> [uri |-> Text, version |-> Number],
  OptionalVersionedTextDocumentIdentifier |-> [uri |-> Text, version |-> Opt(Number)],
  TextDocumentPositionParams |-> AtPosition,
  DocumentFilter |-> Each({"language", "scheme", "pattern"}, Opt(Text))]

DiagnosticFields == [
  TextEdit |-> AtRange @@ [newText |-> Text],
  ChangeAnnotation |->
    [label |-> Text, needsConfirmation |-> Opt(Bool), description |-> Opt(Text)],
  AnnotatedTextEdit |-> AtRange @@ [newText |-> Text, annotationId |-> Text],
  TextDocumentEdit |-> [textDocument |-> Opt(A("VersionedTextDocumentIdentifier")),
                        edits |-> List(A("TextEditVariant"))],
  Location |-> AtRange @@ [uri |-> Text],
  LocationLink |-> [originSelectionRange |-> Opt(A("Range")), targetUri |-> Text]
                   @@ Each({"targetRange", "targetSelectionRange"}, A("Range")),
  CodeDescription |-> [href |-> Text],
  DiagnosticRelatedInformation |-> [location |-> A("Location"), message |-> Text],
  Diagnostic |-> AtRange @@ [message |-> Text, severity |-> Opt(A("DiagnosticSeverity")),
                  code |-> Opt(Text), source |-> Opt(Text), data |-> Opt(Json),
                  codeDescription |-> Opt(A("CodeDescription")),
                  tags |-> Opt(List(A("DiagnosticTag"))),
                  relatedInformation |-> Opt(List(A("DiagnosticRelatedInformation")))],
  Command |-> [title |-> Text, command |-> Text, arguments |-> Opt(Json)],
  MarkupContent |-> [kind |-> A("MarkupKind"), value |-> Text],
  MarkdownClientCapabilities |->
    [parser |-> Text, version |-> Opt(Text), allowedTags |-> Opt(List(Text))],
  CreateFileOptions |-> Each({"overwrite", "ignoreIfExists"}, Opt(Bool))]

EditFields == [
  CreateFile |-> [kind |-> Kind("create"), uri |-> Text,
                  options |-> Opt(A("CreateFileOptions")), annotationId |-> Opt(Text)],
  RenameFileOptions |-> Each({"overwrite", "ignoreIfExists"}, Opt(Bool)),
  RenameFile |-> [kind |-> Kind("rename"), oldUri |-> Text, newUri |-> Text,
                  options |-> Opt(A("RenameFileOptions")), annotationId |-> Opt(Text)],
  DeleteFileOptions |-> Each({"recursive", "ignoreIfNotExists"}, Opt(Bool)),
  DeleteFile |-> [kind |-> Kind("delete"), uri |-> Text,
                  options |-> Opt(A("DeleteFileOptions")), annotationId |-> Opt(Text)],
  WorkspaceEdit |-> [changes |-> Opt(Map(List(A("TextEdit")))),
                     documentChanges |-> Opt(List(A("DocumentChange"))),
                     changeAnnotations |-> Opt(Map(A("ChangeAnnotation")))],
  ChangeAnnotationSupport |-> [groupsOnLabel |-> Opt(Bool)],
  WorkspaceEditClientCapabilities |->
    Each({"documentChanges", "normalizesLineEndings"}, Opt(Bool)) @@
    [resourceOperations |-> Opt(List(A("ResourceOperationKind"))),
     failureHandling |-> Opt(A("FailureHandlingKind")),
     changeAnnotationSupport |-> Opt(A("ChangeAnnotationSupport"))],
  WorkDoneProgressBegin |-> [kind |-> Kind("begin"), title |-> Text,
    cancellable |-> Opt(Bool), message |-> Opt(Text), percentage |-> Opt(Number)],
  WorkDoneProgressReport |-> [kind |-> Kind("report"),
    cancellable |-> Opt(Bool), message |-> Opt(Text), percentage |-> Opt(Number)],
  WorkDoneProgressEnd |-> [kind |-> Kind("end"), message |-> Opt(Text)],
  WorkDoneProgressParams |-> Token,
  WorkDoneProgressOptions |-> [workDoneProgress |-> Opt(Bool)],
  PartialResultParams |-> PartialToken,
  WorkspaceFolder |-> [uri |-> Text, name |-> Text]]

\* The members of TextDocumentClientCapabilities, and most of those of the
\* workspace, window and notebook capabilities, have empty structs for types:
\* one empty type, Empty, stands for them.
Empty == A("Empty")

WorkspaceCapabilityFields == [
  Empty |-> NoFields,
  DidChangeWatchedFilesClientCapabilities |->
    Each({"dynamicRegistration", "relativePatternSupport"}, Opt(Bool)),
  ClientFileOperations |->
    Each({"dynamicRegistration", "didCreate", "willCreate", "didRename",
          "willRename", "didDelete", "willDelete"}, Opt(Bool)),
  WorkspaceClientCapabilities |->
    Each({"applyEdit", "workspaceFolders", "configuration"}, Opt(Bool)) @@
    Each({"didChangeConfiguration", "symbol", "executeCommand", "semanticTokens",
          "codeLens", "inlineValue", "inlayHint", "diagnostics"}, Opt(Empty)) @@
    [workspaceEdit |-> Opt(A("WorkspaceEditClientCapabilities")),
     didChangeWatchedFiles |-> Opt(A("DidChangeWatchedFilesClientCapabilities")),
     fileOperations |-> Opt(A("ClientFileOperations"))]]

TextDocumentCapabilities ==
  {"synchronization", "completion", "hover", "signatureHelp", "declaration",
   "definition", "typeDefinition", "implementation", "references",
   "documentHighlight", "documentSymbol", "codeAction", "codeLens",
   "documentLink", "colorProvider", "formatting", "rangeFormatting",
   "onTypeFormatting", "rename", "publishDiagnostics", "foldingRange",
   "selectionRange", "linkedEditingRange", "callHierarchy", "semanticTokens",
   "moniker", "typeHierarchy", "inlineValue", "inlayHint", "diagnostic"}

ClientCapabilityFields == [
  TextDocumentClientCapabilities |-> Each(TextDocumentCapabilities, Opt(Empty)),
  NotebookDocumentClientCapabilities |-> [synchronization |-> Opt(Empty)],
  WindowClientCapabilities |-> [workDoneProgress |-> Opt(Bool)]
                               @@ Each({"showMessage", "showDocument"}, Opt(Empty)),
  StaleRequestSupport |-> [cancel |-> Bool, retryOnContentModified |-> List(Text)],
  GeneralClientCapabilities |->
    [staleRequestSupport |-> Opt(A("StaleRequestSupport")),
     regularExpressions |-> Opt(A("RegularExpressionsClientCapabilities")),
     markdown |-> Opt(A("MarkdownClientCapabilities")),
     positionEncodings |-> Opt(List(A("PositionEncodingKind")))],
  ClientCapabilities |->
    [workspace |-> Opt(A("WorkspaceClientCapabilities")),
     textDocument |-> Opt(A("TextDocumentClientCapabilities")),
     notebookDocument |-> Opt(A("NotebookDocumentClientCapabilities")),
     window |-> Opt(A("WindowClientCapabilities")),
     general |-> Opt(A("GeneralClientCapabilities")),
     experimental |-> Opt(Json)]]

\* Of the ServerCapabilities: plain options, options or a flag, and options, a
\* flag or registration options.
OptionProviders == {"completionProvider", "signatureHelpProvider", "codeLensProvider",
  "documentLinkProvider", "documentOnTypeFormattingProvider", "executeCommandProvider"}
FlagProviders == {"hoverProvider", "definitionProvider", "referencesProvider",
  "documentHighlightProvider", "documentSymbolProvider", "codeActionProvider",
  "documentFormattingProvider", "documentRangeFormattingProvider", "renameProvider",
  "workspaceSymbolProvider"}
RegisteredProviders == {"declarationProvider", "typeDefinitionProvider",
  "implementationProvider", "colorProvider", "foldingRangeProvider",
  "selectionRangeProvider", "linkedEditingRangeProvider", "callHierarchyProvider",
  "semanticTokensProvider", "monikerProvider", "typeHierarchyProvider",
  "inlineValueProvider", "inlayHintProvider", "diagnosticProvider"}

SyncOptionFields == [
  SaveOptions |-> [includeText |-> Opt(Bool)],
  TextDocumentSyncOptions |->
    Each({"openClose", "willSave", "willSaveWaitUntil"}, Opt(Bool)) @@
    [change |-> Opt(A("TextDocumentSyncKind")), save |-> Opt(A("Save"))]]

\* The options and registration options of the providers have no members either;
\* Empty stands for the options too.
RegistrationOptionFields == [RegistrationOptions |-> NoFields]

ServerCapabilityFields == [
  WorkspaceFoldersServerCapabilities |->
    [supported |-> Opt(Bool), changeNotifications |-> Opt(A("ChangeNotifications"))],
  ServerFileOperations |->
    Each({"didCreate", "willCreate", "didRename", "willRename", "didDelete",
          "willDelete"}, Opt(A("RegistrationOptions"))),
  ServerWorkspace |->
    [workspaceFolders |-> Opt(A("WorkspaceFoldersServerCapabilities")),
     fileOperations |-> Opt(A("ServerFileOperations"))],
  ServerCapabilities |->
    Each(OptionProviders, Opt(Empty)) @@
    [p \in FlagProviders \cup RegisteredProviders |-> Opt(A(p))] @@
    [positionEncoding |-> Opt(A("PositionEncodingKind")),
     textDocumentSync |-> Opt(A("TextDocumentSync")),
     notebookDocumentSync |-> Opt(A("NotebookDocumentSync")),
     workspace |-> Opt(A("ServerWorkspace")), experimental |-> Opt(Json)]]

LifecycleFields == [
  ClientInfo |-> [name |-> Text, version |-> Opt(Text)],
  InitializeParams |-> Token @@ Each({"locale", "rootPath", "rootUri"}, Opt(Text)) @@
    [processId |-> Opt(Number), clientInfo |-> Opt(A("ClientInfo")),
     initializationOptions |-> Opt(Json), trace |-> Opt(A("TraceValue")),
     capabilities |-> Opt(A("ClientCapabilities")),
     workspaceFolders |-> Opt(List(A("WorkspaceFolder")))],
  ServerInfo |-> [name |-> Text, version |-> Opt(Text)],
  InitializeResult |-> [capabilities |-> A("ServerCapabilities"),
                        serverInfo |-> Opt(A("ServerInfo"))],
  Registration |-> [id |-> Text, method |-> Text, registerOptions |-> Opt(Json)],
  RegistrationParams |-> [registrations |-> List(A("Registration"))],
  StaticRegistrationOptions |-> [id |-> Opt(Text)],
  Unregistration |-> [id |-> Text, method |-> Text],
  UnregistrationParams |-> [unregistrations |-> List(A("Unregistration"))],
  SetTraceParams |-> [value |-> A("TraceValue")],
  LogTraceParams |-> [message |-> Text, verbose |-> Opt(Text)]]

DocumentSyncFields == [
  DidOpenTextDocumentParams |-> [textDocument |-> A("TextDocumentItem")],
  PartialChangeEvent |-> AtRange @@ [rangeLength |-> Opt(Number), text |-> Text],
  FullChangeEvent |-> [text |-> Text],
  DidChangeTextDocumentParams |->
    [textDocument |-> A("VersionedTextDocumentIdentifier"),
     contentChanges |-> List(A("TextDocumentContentChangeEvent"))],
  WillSaveTextDocumentParams |-> InDocument @@ [reason |-> A("TextDocumentSaveReason")],
  WillSaveTextDocumentResult |-> [textEdits |-> Opt(List(A("TextEdit")))],
  DidSaveTextDocumentParams |-> InDocument @@ [text |-> Opt(Text)],
  DidCloseTextDocumentParams |-> InDocument]

NavigationFields ==
  Each({"DeclarationParams", "DefinitionParams", "TypeDefinitionParams",
        "ImplementationParams"}, AtPosition @@ Token @@ PartialToken) @@
  [ReferenceContext |-> [includeDeclaration |-> Bool],
   ReferenceParams |-> AtPosition @@ Token @@ PartialToken
                       @@ [context |-> A("ReferenceContext")]]

SymbolFields == [
  DocumentSymbolParams |-> InDocument @@ Token @@ PartialToken,
  DocumentSymbol |-> Each({"range", "selectionRange"}, A("Range")) @@
    [name |-> Text, detail |-> Opt(Text), kind |-> A("SymbolKind"),
     tags |-> Opt(List(A("SymbolTag"))), deprecated |-> Opt(Bool),
     children |-> Opt(List(A("DocumentSymbol")))],
  SymbolInformation |->
    [name |-> Text, kind |-> A("SymbolKind"), tags |-> Opt(List(A("SymbolTag"))),
     deprecated |-> Opt(Bool), location |-> A("Location"), containerName |-> Opt(Text)]]

WatcherFields == [
  RelativePattern |-> [baseUri |-> A("WorkspaceFolder"), pattern |-> Text],
  FileSystemWatcher |-> [globPattern |-> A("GlobPattern"), kind |-> Opt(A("WatchKind"))],
  WatchedFilesRegistrationOptions |-> [watchers |-> List(A("FileSystemWatcher"))]]

FullReport == [kind |-> Kind("full"), resultId |-> Opt(Text), items |-> List(A("Diagnostic"))]
UnchangedReport == [kind |-> Kind("unchanged"), resultId |-> Text]
Related == [relatedDocuments |-> Opt(Map(A("RelatedReport")))]
OfFile == [uri |-> Text, version |-> Opt(Number)]

ReportFields == [
  PublishDiagnosticsParams |-> OfFile @@ [diagnostics |-> List(A("Diagnostic"))],
  DocumentDiagnosticParams |-> InDocument @@ Token @@ PartialToken
                               @@ Each({"identifier", "previousResultId"}, Opt(Text)),
  FullDocumentDiagnosticReport |-> FullReport,
  UnchangedDocumentDiagnosticReport |-> UnchangedReport,
  RelatedFullDocumentDiagnosticReport |-> FullReport @@ Related,
  RelatedUnchangedDocumentDiagnosticReport |-> UnchangedReport @@ Related,
  DiagnosticServerCancellationData |-> [retriggerRequest |-> Bool],
  PreviousResultId |-> [uri |-> Text, value |-> Text],
  WorkspaceDiagnosticParams |-> Token @@ PartialToken @@
    [identifier |-> Opt(Text), previousResultIds |-> List(A("PreviousResultId"))],
  WorkspaceFullDocumentDiagnosticReport |-> FullReport @@ OfFile,
  WorkspaceUnchangedDocumentDiagnosticReport |-> UnchangedReport @@ OfFile,
  WorkspaceDiagnosticReport |-> [items |-> List(A("WorkspaceDocumentDiagnosticReport"))]]

WorkspaceFields == [
  WorkspaceSymbolParams |-> Token @@ PartialToken @@ [query |-> Text],
  WorkspaceSymbol |->
    [name |-> Text, kind |-> A("SymbolKind"), tags |-> Opt(List(A("SymbolTag"))),
     containerName |-> Opt(Text), location |-> A("LocationOrUri"), data |-> Opt(Json)],
  ConfigurationItem |-> [scopeUri |-> Opt(Text), section |-> Opt(Text)],
  ConfigurationParams |-> [items |-> List(A("ConfigurationItem"))],
  DidChangeConfigurationParams |-> [settings |-> Json],
  WorkspaceFoldersChangeEvent |-> Each({"added", "removed"}, List(A("WorkspaceFolder"))),
  DidChangeWorkspaceFoldersParams |-> [event |-> A("WorkspaceFoldersChangeEvent")],
  FileCreate |-> [uri |-> Text],
  CreateFilesParams |-> [files |-> List(A("FileCreate"))],
  FileRename |-> [oldUri |-> Text, newUri |-> Text],
  RenameFilesParams |-> [files |-> List(A("FileRename"))],
  FileDelete |-> [uri |-> Text],
  DeleteFilesParams |-> [files |-> List(A("FileDelete"))],
  FileEvent |-> [uri |-> Text, type |-> A("FileChangeType")],
  DidChangeWatchedFilesParams |-> [changes |-> List(A("FileEvent"))],
  ExecuteCommandParams |-> Token @@ [command |-> Text, arguments |-> Opt(List(Json))],
  ApplyWorkspaceEditParams |-> [label |-> Opt(Text), edit |-> A("WorkspaceEdit")],
  ApplyWorkspaceEditResult |->
    [applied |-> Bool, failureReason |-> Opt(Text), failedChange |-> Opt(Number)]]

Fields ==
  TextFields @@ DiagnosticFields @@ EditFields @@ WorkspaceCapabilityFields @@
  ClientCapabilityFields @@ SyncOptionFields @@ RegistrationOptionFields @@
  ServerCapabilityFields @@
  LifecycleFields @@ DocumentSyncFields @@ NavigationFields @@ SymbolFields @@
  WatcherFields @@ ReportFields @@ WorkspaceFields

(***************************************************************************)
(* The enumerations that travel as text, with the text of each enumerator. *)
(***************************************************************************)
TextEnums == [
  PositionEncodingKind |-> [kUtf8 |-> "utf-8", kUtf16 |-> "utf-16", kUtf32 |-> "utf-32"]]

MarkupEnums == [
  MarkupKind |-> [kPlainText |-> "plaintext", kMarkdown |-> "markdown"]]

EditEnums == [
  ResourceOperationKind |-> [kCreate |-> "create", kRename |-> "rename", kDelete |-> "delete"],
  FailureHandlingKind |-> [kAbort |-> "abort", kTransactional |-> "transactional",
    kUndo |-> "undo", kTextOnlyTransactional |-> "textOnlyTransactional"]]

TraceEnums == [
  TraceValue |-> [kOff |-> "off", kMessages |-> "messages", kVerbose |-> "verbose"]]

\* The enumerations that travel as their number.
NumberEnums == [
  DiagnosticSeverity |-> 1..4, DiagnosticTag |-> 1..2, SymbolKind |-> 1..26,
  SymbolTag |-> {1}, TextDocumentSyncKind |-> 0..2, TextDocumentSaveReason |-> 1..3,
  WatchKind |-> {1, 2, 4}, FileChangeType |-> 1..3]

Enumerators == TextEnums @@ MarkupEnums @@ EditEnums @@ TraceEnums

(***************************************************************************)
(* The alternatives of the variants, from the headers.                     *)
(***************************************************************************)
Alternatives ==
  Each(FlagProviders, {Bool, Empty}) @@
  Each(RegisteredProviders, {Bool, Empty, A("RegistrationOptions")}) @@
  [TextEditVariant |-> {A("TextEdit"), A("AnnotatedTextEdit")},
   DocumentChange |-> {A("TextDocumentEdit"), A("CreateFile"), A("RenameFile"), A("DeleteFile")},
   TextDocumentContentChangeEvent |-> {A("PartialChangeEvent"), A("FullChangeEvent")},
   GlobPattern |-> {Text, A("RelativePattern")},
   LocationOrUri |-> {A("Location"), Text},
   Save |-> {Bool, A("SaveOptions")},
   ChangeNotifications |-> {Text, Bool},
   TextDocumentSync |-> {A("TextDocumentSyncOptions"), A("TextDocumentSyncKind")},
   NotebookDocumentSync |-> {Empty, A("RegistrationOptions")},
   RelatedReport |->
     {A("FullDocumentDiagnosticReport"), A("UnchangedDocumentDiagnosticReport")},
   DocumentDiagnosticReport |->
     {A("RelatedFullDocumentDiagnosticReport"), A("RelatedUnchangedDocumentDiagnosticReport")},
   WorkspaceDocumentDiagnosticReport |->
     {A("WorkspaceFullDocumentDiagnosticReport"),
      A("WorkspaceUnchangedDocumentDiagnosticReport")}]
=============================================================================
