----------------------------- MODULE PolicyAgent -----------------------------
(***************************************************************************)
(* The Rust policy engine, agent/src/safety/policy: parse.rs, validate.rs, *)
(* overrides.rs and resolver.rs, one operator per function with the        *)
(* source's names. It reads the same grammar as PolicyServer and is        *)
(* written again here because the program writes it twice.                 *)
(***************************************************************************)
EXTENDS PolicyGrammar

CONSTANT Override  \* the contents /etc/puck/policy-overrides.toml may have

\* enabled: the [enabled] list, empty when it is not set. repath: a sequence of
\* candidates for each binary the [paths] section names.
ASSUME OverrideAssumption ==
  \A o \in Override :
    /\ o = [enabled |-> o.enabled, repath |-> o.repath]
    /\ o.enabled \subseteq Binary
    /\ DOMAIN o.repath \subseteq Binary
    /\ o.repath \in [DOMAIN o.repath -> Seq(Path)]

lookup_binary(c, binaries, o) ==
  LET s == CmdShape[c]
  IN  IF s.slash THEN "path_in_command_name"
      ELSE IF s.script # "ascii" THEN "invalid_command_name"
      ELSE IF s.name \notin binaries THEN "not_in_allowlist"
      ELSE IF o.enabled # {} /\ s.name \notin o.enabled
           THEN "policy_disabled_by_override"
      ELSE "ok"

\* overrides::apply to a binary it leaves enabled.
apply(o, b, p) ==
  IF b \in DOMAIN o.repath THEN [p EXCEPT !.paths = o.repath[b]] ELSE p

token_matches(pattern, w) ==
  IF pattern.glob
  THEN /\ pattern.prefix \subseteq Shape[w].prefixes
       /\ Shape[w].chars \intersect
            {"semi", "pipe", "backtick", "space", "tab", "newline"} = {}
  ELSE pattern.word = w

consume_subcommand(p, args) ==
  LET matching == {Len(e) : e \in {e \in p.subcommands :
        /\ Len(e) <= Len(args)
        /\ \A k \in 1..Len(e) : token_matches(e[k], args[k])}}
  IN  {n \in matching : \A m \in matching : m <= n}

needs_value(v) == v.kind # "none"

is_combined_short_eligible(w) ==
  Shape[w].dashes = 1 /\ Len(Shape[w].letters) >= 2

\* Mutant of combined_short_admits: one declared letter is enough.
SomeLetterAdmits(p, w) ==
  \E k \in DOMAIN Shape[w].letters :
    \E f \in p.flags : f.name = Shape[w].letters[k] /\ ~needs_value(f.value)

combined_short_admits(p, w) ==
  \A k \in DOMAIN Shape[w].letters :
    \E f \in p.flags : f.name = Shape[w].letters[k] /\ ~needs_value(f.value)

validate_string(w) ==
  Shape[w].size # "long" /\ Shape[w].chars \intersect {"nul", "newline", "control"} = {}

validate_glob(w) ==
  /\ validate_string(w)
  /\ Shape[w].chars \intersect {"semi", "dollar", "backtick"} = {}

validate_uint(w) ==
  Shape[w].digits \in 1..10 /\ ~Shape[w].sign /\ Shape[w].tail = "none"

validate_duration(w) ==
  Shape[w].digits \in 1..10 /\ Shape[w].tail # "other"

validate_fs_path(w, prefixes) ==
  /\ Shape[w].size # "empty" /\ "nul" \notin Shape[w].chars
  /\ Shape[w].chars \intersect {"semi", "pipe", "backtick"} = {}
  /\ prefixes = {} \/ \E q \in prefixes : q \in Shape[w].prefixes

validate_value(v, w) ==
  CASE v.kind = "none"     -> FALSE
    [] v.kind = "string"   -> validate_string(w)
    [] v.kind = "glob"     -> validate_glob(w)
    [] v.kind = "uint"     -> validate_uint(w)
    [] v.kind = "duration" -> validate_duration(w)
    [] v.kind = "enum"     -> w \in v.values
    [] v.kind = "fs_path"  -> validate_fs_path(w, v.prefixes)

\* A path positional takes its prefixes from beside the kind, an enum error
\* and a "none" kind have a code of their own.
validate_positional(pos, w) ==
  CASE pos.kind.kind = "none" -> "bad_positional"
    [] pos.kind.kind = "enum" ->
         IF w \in pos.kind.values THEN "ok" ELSE "bad_positional"
    [] pos.kind.kind = "fs_path" ->
         IF validate_fs_path(w, IF pos.kind.prefixes = {} THEN pos.restrict
                                ELSE pos.kind.prefixes)
         THEN "ok" ELSE "bad_flag_value"
    [] OTHER -> IF validate_value(pos.kind, w) THEN "ok" ELSE "bad_flag_value"

\* The two branches of the loop of parse_args, and the check after it.
parse_flag_verdict(p, rest) ==
  LET w == Head(rest)
  IN  IF w \in p.forbidden THEN "forbidden_flag"
      ELSE IF \E f \in p.flags : f.name = w /\ ~needs_value(f.value) THEN "ok"
      ELSE IF \E f \in p.flags : f.name = w
           THEN IF Len(rest) < 2 THEN "missing_flag_value"
                ELSE IF \A f \in p.flags :
                          f.name = w => validate_value(f.value, rest[2])
                     THEN "ok" ELSE "bad_flag_value"
      ELSE IF is_combined_short_eligible(w) /\ combined_short_admits(p, w)
           THEN "ok" ELSE "unknown_flag"

parse_flag(p, s) ==
  LET w == Head(s.rest)
      valued == \E f \in p.flags : f.name = w /\ needs_value(f.value)
      n == IF valued THEN 2 ELSE 1
  IN  [s EXCEPT !.rest = SubSeq(s.rest, n + 1, Len(s.rest)),
                !.flags = Append(@, [name |-> w, value |-> SubSeq(s.rest, 2, n)])]

parse_positional_verdict(p, s) ==
  IF p.positional = NoPositional THEN "unexpected_positional"
  ELSE IF Len(s.positionals) >= p.positional.max
       THEN "positional_count_out_of_range"
  ELSE validate_positional(p.positional, Head(s.rest))

parse_positional(s) ==
  [s EXCEPT !.rest = Tail(@), !.positionals = Append(@, Head(s.rest))]

parse_count_verdict(p, s) ==
  IF p.positional # NoPositional /\ Len(s.positionals) < p.positional.min
  THEN "positional_count_out_of_range" ELSE "ok"

\* Mutant of into_normalised_argv: the positionals before the flags.
PositionalsFirst(s) ==
  LET flat[i \in 0..Len(s.flags)] ==
        IF i = 0 THEN <<>>
        ELSE flat[i - 1] \o <<s.flags[i].name>> \o s.flags[i].value
  IN  s.sub \o s.positionals \o flat[Len(s.flags)]

into_normalised_argv(s) ==
  LET flat[i \in 0..Len(s.flags)] ==
        IF i = 0 THEN <<>>
        ELSE flat[i - 1] \o <<s.flags[i].name>> \o s.flags[i].value
  IN  s.sub \o flat[Len(s.flags)] \o s.positionals

\* A candidate as the file system shows it: absent, not a regular file, a file that
\* is or lies under something linked or not owned and written by root alone, or sound.
FileState == {"missing", "irregular", "exposed", "sound"}

ancestors_root_owned_safe(f) == f = "sound"

check_candidate(f, root) ==
  /\ f \notin {"missing", "irregular"}
  /\ root => ancestors_root_owned_safe(f)

\* Mutant of resolve: every candidate that passes.
ResolveAll(paths, fs, root) ==
  {i \in DOMAIN paths : check_candidate(fs[paths[i]], root)}

\* The position of the first candidate that passes; an empty set when none does.
resolve(paths, fs, root) ==
  {i \in DOMAIN paths :
     /\ check_candidate(fs[paths[i]], root)
     /\ \A j \in 1..(i - 1) : ~check_candidate(fs[paths[j]], root)}
==============================================================================
