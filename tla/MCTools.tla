------------------------------- MODULE MCTools -------------------------------
(***************************************************************************)
(* A small instance of ToolCalls for TLC.                                  *)
(***************************************************************************)
EXTENDS ToolCalls

\* mcp.yaml: a server, one that is off, and one that never says a word.
ConfigSeq ==
    << [name |-> "files", enabled |-> TRUE, server |-> "s1"],
       [name |-> "old", enabled |-> FALSE, server |-> "s1"],
       [name |-> "git", enabled |-> TRUE, server |-> "s2"] >>

AnnouncedBy == [s \in {"s1", "s2"} |-> {"read"}]

\* The default policy, and a rule on working directories.
NotPattern == [field |-> "none"]
RuleSeq ==
    << [tool |-> <<"shell.run">>, prefix |-> NotPattern, onFail |-> "require_approval",
        matches |-> [field |-> "command",
                     pattern |-> [anchored |-> TRUE, supported |-> TRUE, alts |-> {<<"rm">>, <<"del">>}]]],
       [tool |-> <<"shell.run">>, prefix |-> [field |-> "cwd", of |-> <<"workspace_root">>],
        matches |-> NotPattern, onFail |-> "deny"] >>

AsksOf == [c \in BootAndTasks |-> IF c = Boot THEN 3 ELSE 2]
SaidBy == [s \in {"s1", "s2"} |-> IF s = "s1" THEN 3 ELSE 0]

RootPath == <<"ws">>

RequestSet ==
    { [tool |-> <<"mcp", "files", "read">>, input |-> [path |-> <<"a">>]],
      [tool |-> <<"shell.run">>, input |-> [command |-> <<"rm", "a">>, cwd |-> <<"ws">>]] }

=============================================================================
