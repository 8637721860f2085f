--------------------------- MODULE ProjectLayout ---------------------------
(***************************************************************************)
(* What ProjectLayoutService computes: the source files of a project, from *)
(* its configuration and the file system.  A path is the sequence of its   *)
(* names from the root of the file system; a pattern of the configuration  *)
(* is the set of the relative paths it matches, or not a valid regular     *)
(* expression.  A vector of files whose order nobody reads is a set.       *)
(***************************************************************************)
EXTENDS Integers, SequencesExt

CONSTANTS
    Root,                 \* workspace_root_
    CurrentPath,          \* the current directory of the process
    SystemVerilogNames,   \* names with an extension of SystemVerilog
    HiddenNames,          \* names that start with a dot
    Settings,             \* texts of a .slangd that load: name -> what they set
    ListLines             \* the .f files: path -> lines

-----------------------------------------------------------------------------
(* Paths *)

\* A path as it is written: absolute, or relative to some directory.
Resolve(base, written) ==
    IF written.absolute THEN written.names ELSE base \o written.names

IsSystemVerilogFile(path) == Last(path) \in SystemVerilogNames

InWorkspace(path) == IsStrictPrefix(Root, path)
Relative(path) ==
    IF InWorkspace(path) THEN SubSeq(path, Len(Root) + 1, Len(path))
                         ELSE <<"..">> \o path

\* "this" is below "other".  The comparison runs on the names of "other"; when
\* "this" is the shorter one it reads past its end and meets no equal name.
IsSubPathOf(this, other) == IsPrefix(other, this)

-----------------------------------------------------------------------------
(* SlangdConfigFile *)

DefaultConfig == [
    files        |-> <<>>,
    listPaths    |-> <<>>,   listsAbsolute |-> FALSE,
    match        |-> <<>>,   exclude       |-> <<>>,
    autoDiscover |-> TRUE,   discoverDirs  |-> <<>>]

\* A text that is missing or malformed loads nothing; what a text does not set
\* keeps its default.
Loads(text) == text \in DOMAIN Settings
LoadFromFile(text) == Settings[text] @@ DefaultConfig
ConfigOf(text) == IF Loads(text) THEN LoadFromFile(text) ELSE DefaultConfig

\* The patterns that decide: those up to the first that matches or is invalid.
Deciding(patterns, path) ==
    {i \in DOMAIN patterns : patterns[i].valid => path \in patterns[i].matches}
FirstIs(patterns, path, valid) ==
    LET hits == Deciding(patterns, path)
    IN  /\ hits # {}
        /\ patterns[Min(hits)].valid = valid

Fails(patterns, path)   == FirstIs(patterns, path, FALSE)
Matches(patterns, path) == FirstIs(patterns, path, TRUE)

\* "Fail open": an invalid pattern includes the file.
ShouldIncludeFile(config, path) ==
    \/ Fails(config.match, path)
    \/ /\ config.match = <<>> \/ Matches(config.match, path)
       /\ ~Matches(config.exclude, path)

-----------------------------------------------------------------------------
(* Discovery *)

\* Directories below the one searched are entered unless they are hidden.
FindSystemVerilogFilesInDirectory(directory, disk) ==
    {path \in disk :
        /\ IsStrictPrefix(directory, path)
        /\ IsSystemVerilogFile(path)
        /\ \A i \in Len(directory) + 1 .. Len(path) - 1 :
              path[i] \notin HiddenNames}

DiscoveredFiles(config, disk) ==
    IF config.discoverDirs = <<>>
      THEN FindSystemVerilogFilesInDirectory(Root, disk)
      ELSE UNION {FindSystemVerilogFilesInDirectory(Resolve(Root, dir), disk) :
                     dir \in Range(config.discoverDirs)}

\* One line: blank lines and comments are skipped, and so is any line that
\* starts with a slash; a line that goes on is kept for the next one.
ReadLine(state, line) ==
    CASE line.kind = "skipped" \/ line.path.absolute -> state
      [] line.kind = "continued" ->
           [state EXCEPT !.accumulated = @ \o line.path.names]
      [] OTHER ->
           [accumulated |-> <<>>,
            files |-> Append(state.files, state.accumulated \o line.path.names)]

\* What is accumulated when the file ends is dropped; a file that cannot be
\* read has no lines.
ProcessFileList(list, absolute) ==
    LET lines == IF list \in DOMAIN ListLines THEN ListLines[list] ELSE <<>>
        read  == FoldLeft(ReadLine, [accumulated |-> <<>>, files |-> <<>>], lines)
        base  == IF absolute THEN CurrentPath ELSE Front(list)
    IN  {base \o names : names \in Range(read.files)}

\* The files of the section Files, if they exist, and those of the lists.
NamedFiles(config) ==
    {Resolve(CurrentPath, file) : file \in Range(config.files)}
ListedFiles(config) ==
    UNION {ProcessFileList(Resolve(IF config.listsAbsolute THEN CurrentPath
                                                           ELSE Root, list),
                           config.listsAbsolute) :
              list \in Range(config.listPaths)}
ExplicitFiles(config, disk) == (NamedFiles(config) \cap disk) \cup ListedFiles(config)

\* All sources together, filtered.
BuildFromConfig(config, disk) ==
    {path \in (IF config.autoDiscover THEN DiscoveredFiles(config, disk) ELSE {})
                  \cup ExplicitFiles(config, disk) :
        ShouldIncludeFile(config, Relative(path))}
=============================================================================
