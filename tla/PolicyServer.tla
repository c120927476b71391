---------------------------- MODULE PolicyServer -----------------------------
(***************************************************************************)
(* The Go policy engine, mcp/internal/policy/parse.go: one operator per    *)
(* function, named as the source names it. A verdict is "ok" or the code   *)
(* of the PolicyError the function returns. parseArgs is a loop over the   *)
(* words: parseFlag and parsePositional are the two branches of its body.  *)
(***************************************************************************)
EXTENDS PolicyGrammar

lookup(c, binaries) ==
  LET s == CmdShape[c]
  IN  IF s.slash THEN "path_in_command_name"
      ELSE IF s.script = "symbols" THEN "invalid_command_name"
      ELSE IF s.script = "foreign" \/ s.name \notin binaries
           THEN "not_in_allowlist"
      ELSE "ok"

tokenMatches(pattern, w) ==
  IF pattern.glob
  THEN /\ pattern.prefix \subseteq Shape[w].prefixes
       /\ Shape[w].chars \intersect
            {"semi", "pipe", "backtick", "space", "tab", "newline"} = {}
  ELSE pattern.word = w

\* The lengths of the entries that match the front of args.
MatchingEntries(p, args) ==
  {Len(e) : e \in {e \in p.subcommands :
     /\ Len(e) <= Len(args)
     /\ \A k \in 1..Len(e) : tokenMatches(e[k], args[k])}}

\* The number of words the longest matching entry takes; an empty set when none does.
consumeSubcommand(p, args) ==
  {n \in MatchingEntries(p, args) : \A m \in MatchingEntries(p, args) : m <= n}

\* Whether a skill's required_commands entry, a binary and subcommand words, is covered.
AllowsPattern(c, words, table) ==
  /\ lookup(c, DOMAIN table) = "ok"
  /\ LET p == table[CmdShape[c].name]
     IN  IF p.required
         THEN words # <<>> /\ MatchingEntries(p, words) # {}
         ELSE words = <<>>

findFlag(p, w) == {f \in p.flags : f.name = w}

isCombinedShortEligible(w) ==
  Shape[w].dashes = 1 /\ Len(Shape[w].letters) >= 2

combinedShortAdmits(p, w) ==
  \A k \in DOMAIN Shape[w].letters :
    \E f \in findFlag(p, Shape[w].letters[k]) : f.value.kind = "none"

validateString(w) ==
  Shape[w].size # "long" /\ Shape[w].chars \intersect {"nul", "newline", "control"} = {}

validateDuration(w) ==
  Shape[w].digits \in 1..10 /\ Shape[w].tail \in {"none", "unit"}

validateFsPath(v, w) ==
  /\ Shape[w].size # "empty"
  /\ Shape[w].chars \intersect {"nul", "semi", "pipe", "backtick"} = {}
  /\ v.prefixes # {} => v.prefixes \intersect Shape[w].prefixes # {}

validateByKind(v, w) ==
  CASE v.kind = "none"     -> TRUE
    [] v.kind = "string"   -> validateString(w)
    [] v.kind = "glob"     ->
         /\ validateString(w)
         /\ Shape[w].chars \intersect {"semi", "dollar", "backtick"} = {}
    [] v.kind = "uint"     ->
         ~Shape[w].sign /\ Shape[w].digits \in 1..10 /\ Shape[w].tail = "none"
    [] v.kind = "duration" -> validateDuration(w)
    [] v.kind = "enum"     -> w \in v.values
    [] v.kind = "fs_path"  -> validateFsPath(v, w)

validatePositional(pos, w) ==
  validateByKind(
    IF pos.restrict # {} /\ pos.kind.kind = "fs_path"
    THEN [pos.kind EXCEPT !.prefixes = pos.restrict] ELSE pos.kind, w)

\* The branch of parseArgs for a word that starts with a dash.
flagVerdict(p, rest) ==
  LET w == Head(rest)
      spec == findFlag(p, w)
  IN  IF w \in p.forbidden THEN "forbidden_flag"
      ELSE IF spec = {}
           THEN IF isCombinedShortEligible(w) /\ combinedShortAdmits(p, w)
                THEN "ok" ELSE "unknown_flag"
      ELSE IF \E f \in spec : f.value.kind = "none" THEN "ok"
      ELSE IF Len(rest) < 2 THEN "missing_flag_value"
      ELSE IF \A f \in spec : validateByKind(f.value, rest[2])
           THEN "ok" ELSE "bad_flag_value"

takesValue(p, w) == \E f \in findFlag(p, w) : f.value.kind # "none"

parseFlag(p, s) ==
  LET w == Head(s.rest)
      n == IF takesValue(p, w) THEN 2 ELSE 1
  IN  [s EXCEPT !.rest = SubSeq(s.rest, n + 1, Len(s.rest)),
                !.flags = Append(@, [name |-> w, value |-> SubSeq(s.rest, 2, n)])]

\* The branch of parseArgs for every other word.
positionalVerdict(p, s) ==
  IF p.positional = NoPositional THEN "unexpected_positional"
  ELSE IF Len(s.positionals) >= p.positional.max
       THEN "positional_count_out_of_range"
  ELSE IF validatePositional(p.positional, Head(s.rest))
       THEN "ok" ELSE "bad_flag_value"

parsePositional(s) ==
  [s EXCEPT !.rest = Tail(@), !.positionals = Append(@, Head(s.rest))]

\* The check after the loop.
countVerdict(p, s) ==
  IF p.positional # NoPositional /\ Len(s.positionals) < p.positional.min
  THEN "positional_count_out_of_range" ELSE "ok"

\* Mutant of normalisedArgv: a flag without its value.
ArgvWithoutValues(s) ==
  s.sub \o [i \in DOMAIN s.flags |-> s.flags[i].name] \o s.positionals

normalisedArgv(s) ==
  LET flat[i \in 0..Len(s.flags)] ==
        IF i = 0 THEN <<>>
        ELSE flat[i - 1] \o <<s.flags[i].name>> \o s.flags[i].value
  IN  s.sub \o flat[Len(s.flags)] \o s.positionals
==============================================================================
