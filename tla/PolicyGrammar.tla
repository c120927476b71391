---------------------------- MODULE PolicyGrammar ----------------------------
(***************************************************************************)
(* The data both policy engines work on: the grammar of policy.toml, as    *)
(* types.go and types.rs hold it, and the words of a command line.         *)
(*                                                                         *)
(* A word is a value of Word, compared as the code compares strings.       *)
(* Whatever else the code asks of a word's characters is its Shape: how    *)
(* many dashes it starts with, the one-letter flags its letters name, the  *)
(* characters some rule looks for, its length class, the number it spells  *)
(* and the prefixes it starts with.                                        *)
(***************************************************************************)
EXTENDS Naturals, Sequences, FiniteSets

CONSTANTS
  Word,         \* argv words
  Shape,        \* [Word -> ShapeType]
  Prefix,       \* path and subcommand prefixes
  Command,      \* command names as a caller may spell them
  CmdShape,     \* [Command -> CmdShapeType]
  Binary,       \* table names of policy.toml
  Path,         \* canonical paths
  NoPositional  \* a binary without a [positional] entry

\* One value for each class of characters a rule tells apart: "pipe" stands for
\* | & ( ) { }, "dollar" for $ and \, "newline" for LF and CR, "control" for the other
\* control characters but tab and NUL.
Char == {"semi", "pipe", "backtick", "dollar", "space", "tab", "newline", "control",
         "nul"}

ShapeType ==
  [dashes : 0..2, letters : Seq(Word), chars : SUBSET Char,
   size : {"empty", "fits", "long"}, sign : BOOLEAN, digits : Nat,
   tail : {"none", "unit", "other"}, prefixes : SUBSET Prefix]

\* script: "ascii" letters; "folds": a letter outside ASCII whose lower case is
\* an ASCII letter; "foreign": lower-case letters outside ASCII; "symbols":
\* empty, or with a character no rule admits. name is the folded ASCII name.
CmdShapeType ==
  [slash : BOOLEAN, script : {"ascii", "folds", "foreign", "symbols"},
   name : Binary]

SimpleKind == {"none", "string", "glob", "uint", "duration", "fs_path"}

ValueKind ==
  [kind : SimpleKind \union {"enum"}, values : SUBSET Word,
   prefixes : SUBSET Prefix]

FlagSpec == [name : Word, value : ValueKind]

PositionalSpec ==
  [kind : ValueKind, min : Nat, max : Nat, restrict : SUBSET Prefix]

\* A word of a subcommand entry: a literal, or a prefix followed by `*`.
Pattern == [glob : BOOLEAN, word : Word, prefix : SUBSET Prefix]

BinaryPolicy ==
  [positional : PositionalSpec \union {NoPositional}, flags : SUBSET FlagSpec,
   forbidden : SUBSET Word, required : BOOLEAN,
   subcommands : SUBSET Seq(Pattern), paths : Seq(Path)]

\* What the entries of policy.toml look like (the loaders decode the file and check
\* none of this): flag names are unique within a binary, a positional is never of kind
\* none, and the prefixes of a path positional are written beside the kind and not
\* inside it.
WellFormed(p) ==
  /\ p \in BinaryPolicy
  /\ \A f, g \in p.flags : f.name = g.name => f = g
  /\ p.positional # NoPositional =>
       /\ p.positional.kind.kind # "none"
       /\ p.positional.kind.prefixes = {}
  /\ p.paths # <<>>

StartsWithDash(w) == Shape[w].dashes > 0

ASSUME WordAssumption == Shape \in [Word -> ShapeType]
ASSUME CommandAssumption == CmdShape \in [Command -> CmdShapeType]
ASSUME NoPositionalAssumption == NoPositional \notin PositionalSpec

\* An argv under way through a parser: the words not read yet, the subcommand,
\* the flags with their value (at most one word), and the positionals.
Flag == [name : Word, value : Seq(Word)]
Parse ==
  [rest : Seq(Word), sub : Seq(Word), flags : Seq(Flag),
   positionals : Seq(Word)]

ParseOf(args) ==
  [rest |-> args, sub |-> <<>>, flags |-> <<>>, positionals |-> <<>>]
==============================================================================
