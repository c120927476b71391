--------------------------- MODULE PolicyPipeline ----------------------------
(***************************************************************************)
(* One command line on its way through both policy engines: the server's   *)
(* Validate (PolicyServer) decides whether it is dispatched and rewrites   *)
(* it, the agent's validate (PolicyAgent) decides again over the rewritten *)
(* words, the resolver picks the executable, and enrichAgentError explains *)
(* a refusal to the operator. The two sides were built with policy tables  *)
(* that need not be the same.                                              *)
(***************************************************************************)
EXTENDS PolicyServer, PolicyAgent

CONSTANTS
  Tables,       \* the policy.toml versions builds may embed: [S -> BinaryPolicy], S \subseteq Binary
  Requests      \* the command lines callers may send: [cmd, args]

Request == [cmd : Command, args : Seq(Word)]

ASSUME RequestsAssumption == Requests \subseteq Request
ASSUME TablesAssumption ==
  \A t \in Tables : DOMAIN t \subseteq Binary /\ \A b \in DOMAIN t : WellFormed(t[b])

\* How the entries of a binary overlap in policy.toml: none is empty, and when a word
\* could match both an entry and the front of a longer one, the rest of the longer
\* entry is flags that take no value (apt's "list" and "list --installed").
EntriesSettled(p) ==
  \A e \in p.subcommands :
    /\ e # <<>>
    /\ \A longer \in p.subcommands :
         /\ Len(longer) > Len(e)
         /\ \A k \in 1..Len(e) : \E w \in Word :
              tokenMatches(e[k], w) /\ tokenMatches(longer[k], w)
         => \A k \in (Len(e) + 1)..Len(longer) :
              /\ ~longer[k].glob /\ StartsWithDash(longer[k].word)
              /\ \A f \in p.flags : f.name = longer[k].word => f.value.kind = "none"

ASSUME EntriesAssumption ==
  \A t \in Tables : \A b \in DOMAIN t : EntriesSettled(t[b])

VARIABLES
  at,           \* where the request is
  request,      \* the caller's command and arguments
  serverTable,  \* the table in the server's build
  agentTable,   \* the table in the agent's build
  parse,        \* the parser at work
  sent,         \* the argv the server forwarded
  override,     \* the agent's overrides
  path,         \* the executable the resolver chose, one or none
  code,         \* the code of the refusal, or "ok"
  reported,     \* the table whose digest the registry holds for the agent, if any
  hint          \* what enrichAgentError appended

vars == <<at, request, serverTable, agentTable, parse, sent, override, path,
          code, reported, hint>>
built == <<request, serverTable, agentTable>>
hinted == <<reported, hint>>

Places ==
  {"received", "server subcommand", "server words", "dispatched",
   "agent subcommand", "agent words", "resolving", "spawned", "refused by server",
   "refused by agent", "answered"}

serverPolicy == serverTable[CmdShape[request.cmd].name]
agentPolicy == apply(override, CmdShape[request.cmd].name,
                     agentTable[CmdShape[request.cmd].name])

NoOverride == [enabled |-> {}, repath |-> <<>>]

Init ==
  /\ at = "received"
  /\ request \in Requests
  /\ serverTable \in Tables
  /\ agentTable \in Tables
  /\ parse = ParseOf(request.args)
  /\ sent = <<>>
  /\ override = NoOverride
  /\ path = {}
  /\ code = "ok"
  /\ reported = {}
  /\ hint = "none"

ServerRefuses(verdict) ==
  /\ at' = "refused by server"
  /\ code' = verdict
  /\ UNCHANGED <<built, parse, sent, override, path, hinted>>

AgentRefuses(verdict) ==
  /\ at' = "refused by agent"
  /\ code' = verdict
  /\ UNCHANGED <<built, parse, sent, path, hinted>>

\* The parser moves on to place, having become s.
Parsed(place, s) ==
  /\ at' = place
  /\ parse' = s
  /\ UNCHANGED <<built, sent, override, path, code, hinted>>

\* Validate: lookup, and whether parseArgs starts with a subcommand.
Validate ==
  /\ at = "received"
  /\ LET verdict == lookup(request.cmd, DOMAIN serverTable)
     IN  \/ verdict # "ok" /\ ServerRefuses(verdict)
         \/ /\ verdict = "ok"
            /\ Parsed(IF serverPolicy.required THEN "server subcommand"
                      ELSE "server words", parse)

ServerSubcommand ==
  /\ at = "server subcommand"
  /\ \/ parse.rest = <<>> /\ ServerRefuses("subcommand_required")
     \/ /\ parse.rest # <<>>
        /\ consumeSubcommand(serverPolicy, parse.rest) = {}
        /\ ServerRefuses("unknown_subcommand")
     \/ /\ parse.rest # <<>>
        /\ \E n \in consumeSubcommand(serverPolicy, parse.rest) :
             Parsed("server words",
               [parse EXCEPT !.sub = SubSeq(parse.rest, 1, n),
                             !.rest = SubSeq(parse.rest, n + 1, Len(parse.rest))])

ServerFlag ==
  /\ at = "server words" /\ parse.rest # <<>> /\ StartsWithDash(Head(parse.rest))
  /\ LET verdict == flagVerdict(serverPolicy, parse.rest)
     IN  \/ verdict # "ok" /\ ServerRefuses(verdict)
         \/ verdict = "ok" /\ Parsed("server words", parseFlag(serverPolicy, parse))

ServerPositional ==
  /\ at = "server words" /\ parse.rest # <<>> /\ ~StartsWithDash(Head(parse.rest))
  /\ LET verdict == positionalVerdict(serverPolicy, parse)
     IN  \/ verdict # "ok" /\ ServerRefuses(verdict)
         \/ verdict = "ok" /\ Parsed("server words", parsePositional(parse))

\* The end of parseArgs; enforcePolicy forwards the caller's command name and the
\* normalised argv.
Forward ==
  /\ at = "server words" /\ parse.rest = <<>>
  /\ LET verdict == countVerdict(serverPolicy, parse)
     IN  \/ verdict # "ok" /\ ServerRefuses(verdict)
         \/ /\ verdict = "ok"
            /\ at' = "dispatched"
            /\ sent' = normalisedArgv(parse)
            /\ UNCHANGED <<built, parse, override, path, code, hinted>>

\* The agent's validate: lookup_binary under the overrides read at its start.
AgentValidate ==
  /\ at = "dispatched"
  /\ \E o \in Override :
       LET verdict == lookup_binary(request.cmd, DOMAIN agentTable, o)
       IN  /\ override' = o
           /\ \/ verdict # "ok" /\ AgentRefuses(verdict)
              \/ /\ verdict = "ok"
                 /\ at' = IF agentTable[CmdShape[request.cmd].name].required
                          THEN "agent subcommand" ELSE "agent words"
                 /\ parse' = ParseOf(sent)
                 /\ UNCHANGED <<built, sent, path, code, hinted>>

AgentSubcommand ==
  /\ at = "agent subcommand"
  /\ \/ /\ parse.rest = <<>>
        /\ AgentRefuses("subcommand_required") /\ UNCHANGED override
     \/ /\ parse.rest # <<>>
        /\ consume_subcommand(agentPolicy, parse.rest) = {}
        /\ AgentRefuses("unknown_subcommand") /\ UNCHANGED override
     \/ /\ parse.rest # <<>>
        /\ \E n \in consume_subcommand(agentPolicy, parse.rest) :
             Parsed("agent words",
               [parse EXCEPT !.sub = SubSeq(parse.rest, 1, n),
                             !.rest = SubSeq(parse.rest, n + 1, Len(parse.rest))])

AgentFlag ==
  /\ at = "agent words" /\ parse.rest # <<>> /\ StartsWithDash(Head(parse.rest))
  /\ LET verdict == parse_flag_verdict(agentPolicy, parse.rest)
     IN  \/ verdict # "ok" /\ AgentRefuses(verdict) /\ UNCHANGED override
         \/ verdict = "ok" /\ Parsed("agent words", parse_flag(agentPolicy, parse))

AgentPositional ==
  /\ at = "agent words" /\ parse.rest # <<>> /\ ~StartsWithDash(Head(parse.rest))
  /\ LET verdict == parse_positional_verdict(agentPolicy, parse)
     IN  \/ verdict # "ok" /\ AgentRefuses(verdict) /\ UNCHANGED override
         \/ verdict = "ok" /\ Parsed("agent words", parse_positional(parse))

AgentParsed ==
  /\ at = "agent words" /\ parse.rest = <<>>
  /\ LET verdict == parse_count_verdict(agentPolicy, parse)
     IN  \/ verdict # "ok" /\ AgentRefuses(verdict) /\ UNCHANGED override
         \/ verdict = "ok" /\ Parsed("resolving", parse)

\* resolver::resolve over the file system as it is now, by an agent that runs as
\* root or not.
Resolve ==
  /\ at = "resolving"
  /\ \E fs \in [Path -> FileState], root \in BOOLEAN :
       LET found == resolve(agentPolicy.paths, fs, root)
       IN  \/ /\ found = {} /\ UNCHANGED override
              /\ AgentRefuses(IF agentPolicy.paths = <<>>
                              THEN "no_executable_for_binary"
                              ELSE "resolver_rejected_all_candidates")
           \/ /\ found # {}
              /\ at' = "spawned"
              /\ path' = {agentPolicy.paths[i] : i \in found}
              /\ UNCHANGED <<built, parse, sent, override, code, hinted>>

\* enrichAgentError: every refusal carries the "policy rejection [" prefix, the
\* resolver's too. The server's digest is compared with the last one the registry
\* was told: of the table the agent has, of one it had before or has since, or none,
\* since RecordPolicyDigest ignores an empty one.
EnrichAgentError ==
  /\ at = "refused by agent"
  /\ at' = "answered"
  /\ reported' \in {{}} \union {{t} : t \in Tables}
  /\ hint' = CASE reported' = {} -> "no digest"
               [] reported' = {serverTable} -> "none"
               [] OTHER -> "drift"
  /\ UNCHANGED <<built, parse, sent, override, path, code>>

Next ==
  \/ Validate \/ ServerSubcommand \/ ServerFlag \/ ServerPositional \/ Forward
  \/ AgentValidate \/ AgentSubcommand \/ AgentFlag \/ AgentPositional
  \/ AgentParsed \/ Resolve \/ EnrichAgentError

Spec == Init /\ [][Next]_vars
------------------------------------------------------------------------------

Codes ==
  {"ok", "path_in_command_name", "invalid_command_name", "not_in_allowlist",
   "policy_disabled_by_override", "subcommand_required", "unknown_subcommand",
   "forbidden_flag", "unknown_flag", "missing_flag_value", "bad_flag_value",
   "bad_positional", "unexpected_positional", "positional_count_out_of_range",
   "no_executable_for_binary", "resolver_rejected_all_candidates"}

TypeOK ==
  /\ at \in Places
  /\ request \in Request /\ serverTable \in Tables /\ agentTable \in Tables
  /\ parse \in Parse
  /\ sent \in Seq(Word)
  /\ override \in Override \union {NoOverride}
  /\ path \subseteq Path /\ \A q, r \in path : q = r
  /\ code \in Codes
  /\ reported \subseteq Tables /\ \A t, u \in reported : t = u
  /\ hint \in {"none", "no digest", "drift"}

\* What the grammar of a binary says of a flag and its value, and of a positional.
FlagConforms(p, f) ==
  /\ StartsWithDash(f.name) /\ f.name \notin p.forbidden
  /\ \/ /\ f.value = <<>>
        /\ Shape[f.name].dashes = 1 /\ Len(Shape[f.name].letters) >= 2
        /\ \A k \in DOMAIN Shape[f.name].letters :
             \E g \in p.flags :
               g.name = Shape[f.name].letters[k] /\ g.value.kind = "none"
     \/ /\ f.value = <<>>
        /\ \E g \in p.flags : g.name = f.name /\ g.value.kind = "none"
     \/ /\ Len(f.value) = 1
        /\ \E g \in p.flags :
             g.name = f.name /\ validate_value(g.value, f.value[1])

PositionalsConform(p, s) ==
  s.positionals # <<>> =>
    /\ p.positional # NoPositional
    /\ Len(s.positionals) <= p.positional.max
    /\ \A i \in DOMAIN s.positionals :
         /\ ~StartsWithDash(s.positionals[i])
         /\ validate_positional(p.positional, s.positionals[i]) = "ok"

SubcommandConforms(p, s) ==
  IF p.required
  THEN \E e \in p.subcommands :
         /\ Len(e) = Len(s.sub)
         /\ \A k \in DOMAIN e : token_matches(e[k], s.sub[k])
  ELSE s.sub = <<>>

\* What the agent spawns is within its own table: each flag is declared, with a
\* value of its kind, and not forbidden; a combined short spells only flags that
\* take no value; positionals are of the declared kind and number; and the
\* executable is a candidate of the table or of the overrides (validate.rs:28,
\* parse.rs:30, resolver.rs:8), whatever the server let through.
SpawnConforms ==
  at = "spawned" =>
    /\ \A i \in DOMAIN parse.flags : FlagConforms(agentPolicy, parse.flags[i])
    /\ PositionalsConform(agentPolicy, parse)
    /\ agentPolicy.positional # NoPositional =>
         Len(parse.positionals) >= agentPolicy.positional.min
    /\ SubcommandConforms(agentPolicy, parse)
    /\ \E i \in DOMAIN agentPolicy.paths : path = {agentPolicy.paths[i]}

\* What the agent has behind it at each point: the binary is in its table, and
\* what it has parsed so far is within the grammar.
AgentInv ==
  LET b == CmdShape[request.cmd].name IN
  /\ at \in {"server subcommand", "server words"} => b \in DOMAIN serverTable
  /\ at \in {"agent subcommand", "agent words", "resolving", "spawned"} =>
       b \in DOMAIN agentTable
  /\ at = "agent subcommand" =>
       agentPolicy.required /\ parse = ParseOf(parse.rest)
  /\ at \in {"agent words", "resolving", "spawned"} =>
       /\ \A i \in DOMAIN parse.flags : FlagConforms(agentPolicy, parse.flags[i])
       /\ PositionalsConform(agentPolicy, parse)
       /\ SubcommandConforms(agentPolicy, parse)
  /\ at \in {"resolving", "spawned"} /\ agentPolicy.positional # NoPositional =>
       Len(parse.positionals) >= agentPolicy.positional.min
  /\ at = "spawned" => \E i \in DOMAIN agentPolicy.paths : path = {agentPolicy.paths[i]}

Occurrences(s, w) == Cardinality({i \in DOMAIN s : s[i] = w})

\* Two rewritings of the argv later, the words spawned are the words asked for,
\* each as often: neither parser drops, repeats or invents one (normalisedArgv,
\* into_normalised_argv).
SpawnedAsAsked ==
  at = "spawned" =>
    \A w \in Word :
      Occurrences(into_normalised_argv(parse), w) = Occurrences(request.args, w)

\* Builds of one policy.toml agree: a subcommand Validate accepts is one AllowsPattern
\* reports covered to the skills, and the agent parses the words it is sent into
\* the same argv, so the server's rewriting changes nothing a second time.  So a
\* refusal that comes back without a hint, while the registry has the digest of the
\* agent's own table, is not one the agent's grammar made: it is the overrides', the
\* resolver's, or a name only the server folds to ASCII (policy_drift.go:30,
\* parse.go:77).
EnginesAgree ==
  /\ at = "server words" => AllowsPattern(request.cmd, parse.sub, serverTable)
  /\ at \in {"resolving", "spawned"} /\ agentTable = serverTable =>
       into_normalised_argv(parse) = sent
  /\ at = "answered" /\ hint = "none" /\ reported = {agentTable} =>
       \/ code \in {"policy_disabled_by_override", "no_executable_for_binary",
                   "resolver_rejected_all_candidates"}
       \/ code = "invalid_command_name" /\ CmdShape[request.cmd].script = "folds"
=============================================================================
