-------------------------- MODULE MCPolicyPipeline ---------------------------
(* Model-checking instance of PolicyPipeline: entries of policy.toml cut   *)
(* down to the words below, an older table that lacks some of them, and    *)
(* every command line up to a length for each binary.                      *)
EXTENDS PolicyPipeline, TLC

CONSTANTS FindLen, AptLen, LsLen, AwsLen  \* longest argv for each binary

MCWord == {"/etc", "/tmp", "-name", "*.key", "-exec", "-mtime", "-7", "a;b",
           "-print", "list", "--installed", "nano", "-l", "-a", "-la", "-ln",
           "-n", "aux", "iam", "get-user", "get-a;b", "--output", "json"}

Plain == [dashes |-> 0, letters |-> <<>>, chars |-> {}, size |-> "fits",
          sign |-> FALSE, digits |-> 0, tail |-> "other", prefixes |-> {}]
Dashed == [Plain EXCEPT !.dashes = 1, !.sign = TRUE]

\* Multi-letter long options such as -name spell letters nobody declares.
MCShape ==
  [w \in MCWord |->
    CASE w = "/etc" -> [Plain EXCEPT !.prefixes = {"/"}]
      [] w = "/tmp" -> [Plain EXCEPT !.prefixes = {"/"}, !.chars = {"backtick"}]
      [] w = "-7" -> [Dashed EXCEPT !.digits = 1, !.tail = "none", !.letters = <<"-7">>]
      [] w = "a;b" -> [Plain EXCEPT !.chars = {"semi"}]
      [] w \in {"-l", "-a", "-n"} -> [Dashed EXCEPT !.letters = <<w>>]
      [] w = "-la" -> [Dashed EXCEPT !.letters = <<"-l", "-a">>]
      [] w = "-ln" -> [Dashed EXCEPT !.letters = <<"-l", "-n">>]
      [] w \in {"-name", "-exec", "-mtime", "-print"} ->
           [Dashed EXCEPT !.letters = <<"-n", "-7">>]
      [] w \in {"--installed", "--output"} -> [Dashed EXCEPT !.dashes = 2]
      [] w = "get-user" -> [Plain EXCEPT !.prefixes = {"get-"}]
      [] w = "get-a;b" -> [Plain EXCEPT !.prefixes = {"get-"}, !.chars = {"semi"}]
      [] OTHER -> Plain]

MCPrefix == {"/", "get-"}
MCBinary == {"find", "apt", "ls", "aws", "ps"}
MCPath == {"/usr/bin/x", "/opt/x"}

MCCommand == {"find", "apt", "ls", "aws", "ps", "Kls", "lé", "./ls", "l$"}
MCCmdShape ==
  [c \in MCCommand |->
    [slash |-> c = "./ls",
     script |-> CASE c = "Kls" -> "folds" [] c = "lé" -> "foreign"
                  [] c = "l$" -> "symbols" [] OTHER -> "ascii",
     name |-> IF c \in MCBinary THEN c ELSE "ls"]]

Kind(k) == [kind |-> k, values |-> {}, prefixes |-> {}]
Enum(vs) == [kind |-> "enum", values |-> vs, prefixes |-> {}]
FlagOf(n, v) == [name |-> n, value |-> v]
Lit(w) == [glob |-> FALSE, word |-> w, prefix |-> {}]
Glob(q) == [glob |-> TRUE, word |-> "json", prefix |-> {q}]

FindPolicy ==
  [positional |-> [kind |-> Kind("fs_path"), min |-> 1, max |-> 2, restrict |-> {"/"}],
   flags |-> {FlagOf("-name", Kind("glob")), FlagOf("-mtime", Kind("duration")),
              FlagOf("-print", Kind("none"))},
   forbidden |-> {"-exec"}, required |-> FALSE, subcommands |-> {},
   paths |-> <<"/usr/bin/x", "/opt/x">>]
AptPolicy ==
  [positional |-> [kind |-> Kind("string"), min |-> 0, max |-> 1, restrict |-> {}],
   flags |-> {FlagOf("--installed", Kind("none"))},
   forbidden |-> {}, required |-> TRUE,
   subcommands |-> {<<Lit("list")>>, <<Lit("list"), Lit("--installed")>>},
   paths |-> <<"/usr/bin/x">>]
LsPolicy ==
  [positional |-> NoPositional,
   flags |-> {FlagOf("-l", Kind("none")), FlagOf("-a", Kind("none")),
              FlagOf("-n", Kind("uint"))},
   forbidden |-> {}, required |-> FALSE, subcommands |-> {},
   paths |-> <<"/usr/bin/x">>]
AwsPolicy ==
  [positional |-> NoPositional,
   flags |-> {FlagOf("--output", Enum({"json"}))},
   forbidden |-> {}, required |-> TRUE,
   subcommands |-> {<<Lit("iam"), Glob("get-")>>},
   paths |-> <<"/usr/bin/x">>]
\* [binary.ps] lists "aux" among its flags.
PsPolicy == [LsPolicy EXCEPT !.flags = @ \union {FlagOf("aux", Kind("none"))}]

NewTable == [b \in MCBinary |->
  CASE b = "find" -> FindPolicy [] b = "apt" -> AptPolicy [] b = "ls" -> LsPolicy
    [] b = "aws" -> AwsPolicy [] b = "ps" -> PsPolicy]
OldTable == [b \in MCBinary \ {"aws"} |->
  CASE b = "find" ->
         [FindPolicy EXCEPT !.flags = @ \ {FlagOf("-print", Kind("none"))},
                            !.positional.min = 0, !.positional.max = 1]
    [] b = "apt" -> [AptPolicy EXCEPT !.required = FALSE, !.positional.max = 2]
    [] b = "ls" -> [LsPolicy EXCEPT !.flags = @ \ {FlagOf("-a", Kind("none"))}]
    [] OTHER -> NewTable[b]]
MCTables == {NewTable, OldTable}

MCOverride ==
  {[enabled |-> {}, repath |-> <<>>],
   [enabled |-> {"find", "apt"},
    repath |-> [b \in {"find", "apt"} |-> IF b = "apt" THEN <<"/opt/x">> ELSE <<>>]]}

Lines(c, words, n) ==
  {[cmd |-> c, args |-> s] : s \in UNION {[1..k -> words] : k \in 0..n}}

MCRequests ==
  Lines("find", {"/etc", "/tmp", "-name", "*.key", "-exec", "-mtime", "-7",
                 "a;b", "-print"}, FindLen)
    \union Lines("apt", {"list", "--installed", "nano"}, AptLen)
    \union Lines("ls", {"-l", "-la", "-ln", "-n", "aux"}, LsLen)
    \union Lines("aws", {"iam", "get-user", "get-a;b", "--output", "json"}, AwsLen)
    \union UNION {Lines(c, {"-l", "aux"}, 1) : c \in {"ps", "Kls", "lé", "./ls", "l$"}}
==============================================================================
