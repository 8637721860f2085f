--------------------------- MODULE MCSlangdServer ---------------------------
(***************************************************************************)
(* A small workspace: a source in rtl, a generated one, one in a hidden    *)
(* directory and one outside of the folder; configurations that discover,  *)
(* filter and name them.                                                   *)
(***************************************************************************)
EXTENDS SlangdServer

MCRoot == <<"ws">>
Rtl    == <<"ws", "rtl", "a.sv">>
Gen    == <<"ws", "gen", "a.sv">>
Hidden == <<"ws", ".git", "a.sv">>
Extern == <<"ip", "a.sv">>

MCPaths == {Rtl, Gen, Hidden, Extern}
MCChanging == {Rtl, Gen}
Written(path) == [absolute |-> TRUE, names |-> path]
Below(names)  == [absolute |-> FALSE, names |-> names]
Line(kind, path) == [kind |-> kind, path |-> path]

\* A pattern that matches the given files, and one that cannot be compiled.
Pattern(files) == [valid |-> TRUE, matches |-> {Relative(file) : file \in files}]
Invalid == [valid |-> FALSE, matches |-> {}]

\* Two of the texts: one that discovers in rtl, excludes what is there and
\* names a file outside of the folder; one that names its files only.
MCSettings == [
  filtered |-> [discoverDirs |-> <<Below(<<"rtl">>)>>,
                match        |-> <<Pattern({Rtl}), Pattern({Gen, Extern})>>,
                exclude      |-> <<Pattern({Rtl}), Invalid>>,
                files        |-> <<Written(Extern)>>],
  named    |-> [autoDiscover |-> FALSE,
                files        |-> <<Below(<<"gen", "a.sv">>)>>,
                listPaths    |-> <<Below(<<"ws.f">>)>>]]

\* "# comment", "rtl/ \" continued by "a.sv", "/ip/a.sv".
MCListLines == (<<"ws", "ws.f">> :> <<
  Line("skipped", Below(<<>>)),
  Line("continued", Below(<<"rtl">>)),
  Line("path", Below(<<"a.sv">>)),
  Line("path", Written(Extern))>>)

MCTexts == {"missing", "filtered", "named"}
=============================================================================
