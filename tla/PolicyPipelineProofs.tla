------------------------ MODULE PolicyPipelineProofs -------------------------
(***************************************************************************)
(* Proofs about a command line's way through both policy engines, for all  *)
(* words, policy tables, overrides and command lines.                      *)
(***************************************************************************)
EXTENDS PolicyPipeline, SequenceTheorems, FiniteSetTheorems, WellFoundedInduction, TLAPS

\* Induction over the naturals, stated for a set.
LEMMA Induction ==
  ASSUME NEW T \in SUBSET Nat, 0 \in T, \A n \in T : n + 1 \in T
  PROVE  T = Nat
  <1> SUFFICES ASSUME Nat \ T # {} PROVE FALSE
    OBVIOUS
  <1> DEFINE R == {ss \in Nat \X Nat : ss[1] < ss[2]}
  <1>1. IsWellFoundedOn(R, Nat)
    BY NatLessThanWellFounded DEF OpToRel
  <1>2. \E x \in Nat \ T : \A y \in Nat \ T : ~ (<<y, x>> \in R)
    <2> HIDE DEF R
    <2>1. QED
    BY <1>1, WFMin, Nat \ T \subseteq Nat
  <1>3. PICK x \in Nat \ T : \A y \in Nat \ T : ~(y < x)
    BY <1>2
  <1>4. x # 0 /\ x - 1 \in Nat /\ x - 1 < x
    BY <1>3
  <1>5. x - 1 \in T
    BY <1>3, <1>4
  <1>6. (x - 1) + 1 = x
    BY <1>3
  <1>7. QED
    BY <1>3, <1>5, <1>6

\* The flags of a parse as the two argv functions write them, one after the other.
FlatOf(flags) ==
  LET flat[i \in 0..Len(flags)] ==
        IF i = 0 THEN <<>> ELSE flat[i - 1] \o <<flags[i].name>> \o flags[i].value
  IN  flat

Flat(flags) == FlatOf(flags)[Len(flags)]

AddFlag(words, f) == words \o <<f.name>> \o f.value

\* What the recursive function computes: its equation has a solution, the only one
\* there is, and that is a sequence of words at every point.
LEMMA FlatFacts ==
  ASSUME NEW flags \in Seq(Flag)
  PROVE  /\ FlatOf(flags)[0] = <<>>
         /\ \A i \in 1..Len(flags) : FlatOf(flags)[i] = AddFlag(FlatOf(flags)[i - 1], flags[i])
         /\ \A i \in 0..Len(flags) : FlatOf(flags)[i] \in Seq(Word)
  <1> DEFINE N == Len(flags)
             More(x, i) == x \o <<flags[i].name>> \o flags[i].value
             Solves(g, n) == g \in [0..n -> Seq(Word)] /\ g[0] = <<>>
                             /\ \A i \in 1..n : g[i] = More(g[i - 1], i)
             f == FlatOf(flags)
             T == {n \in Nat : n <= N => \E g : Solves(g, n)}
  <1>1. N \in Nat /\ \A i \in 1..N : flags[i].name \in Word /\ flags[i].value \in Seq(Word)
    <2>1. \A i \in 1..N : flags[i] \in Flag
      BY ElementOfSeq
    <2>2. QED
      BY <2>1, LenProperties DEF Flag
  <1>2. \A x \in Seq(Word), i \in 1..N : More(x, i) \in Seq(Word)
    <2> SUFFICES ASSUME NEW x \in Seq(Word), NEW i \in 1..N PROVE More(x, i) \in Seq(Word)
      OBVIOUS
    <2>1. <<flags[i].name>> \in Seq(Word) /\ flags[i].value \in Seq(Word)
      BY <1>1
    <2>2. x \o <<flags[i].name>> \in Seq(Word)
      BY <2>1, ConcatProperties
    <2>3. QED
      BY <2>1, <2>2, ConcatProperties
  <1>3. \E g : Solves(g, 0)
    <2> DEFINE g == [i \in 0..0 |-> <<>>]
    <2>1. <<>> \in Seq(Word)
      OBVIOUS
    <2>2. Solves(g, 0)
      BY <2>1
    <2>3. QED
      BY <2>2
  <1>4. ASSUME NEW n \in Nat, n + 1 <= N, \E g : Solves(g, n) PROVE \E h : Solves(h, n + 1)
    <2>1. n + 1 \in 1..N
      BY <1>1, <1>4
    <2>2. PICK g : Solves(g, n)
      BY <1>4
    <2> HIDE DEF More, N
    <2> DEFINE h == [i \in 0..(n + 1) |-> IF i = n + 1 THEN More(g[n], n + 1) ELSE g[i]]
    <2>3. More(g[n], n + 1) \in Seq(Word)
      BY <2>1, <2>2, <1>2
    <2>4. h \in [0..(n + 1) -> Seq(Word)]
      BY <2>2, <2>3
    <2>5. h[0] = <<>>
      BY <2>2
    <2>6. ASSUME NEW i \in 1..(n + 1) PROVE h[i] = More(h[i - 1], i)
      <3>1. i - 1 \in 0..n /\ h[i - 1] = g[i - 1]
        OBVIOUS
      <3>2. CASE i = n + 1
        BY <3>1, <3>2
      <3>3. CASE i # n + 1
        <4>1. i \in 1..n /\ h[i] = g[i]
          BY <3>3
        <4>2. QED
          BY <2>2, <3>1, <4>1
      <3>4. QED
        BY <3>2, <3>3
    <2>7. QED
      BY <2>4, <2>5, <2>6
  <1>5. T = Nat
    <2> HIDE DEF Solves, N
    <2>1. T \in SUBSET Nat /\ 0 \in T
      BY <1>3
    <2>2. \A n \in T : n + 1 \in T
      BY <1>1, <1>4
    <2>3. QED
      <3> HIDE DEF T
      <3>1. QED
        BY <2>1, <2>2, Induction
  <1>6. PICK g : Solves(g, N)
    <2> HIDE DEF Solves, N
    <2>1. N <= N
      BY <1>1
    <2>2. N \in T
      <3> HIDE DEF T
      <3>1. QED
        BY <1>1, <1>5, Zenon
    <2>3. QED
      BY <2>1, <2>2, Zenon
  <1>7. g = [i \in 0..N |->
              IF i = 0 THEN <<>> ELSE g[i - 1] \o <<flags[i].name>> \o flags[i].value]
    <2> HIDE DEF N
    <2>1. g = [i \in 0..N |-> g[i]]
      BY <1>6
    <2>2. ASSUME NEW i \in 0..N
          PROVE  g[i] = IF i = 0 THEN <<>>
                        ELSE g[i - 1] \o <<flags[i].name>> \o flags[i].value
      <3>1. CASE i = 0
        BY <1>6, <3>1
      <3>2. CASE i # 0
        <4>1. i \in 1..N
          BY <1>1, <3>2
        <4>2. QED
          BY <1>6, <3>2, <4>1
      <3>3. QED
        BY <3>1, <3>2
    <2>3. QED
      BY <2>1, <2>2
  <1>8. f = [i \in 0..N |->
              IF i = 0 THEN <<>> ELSE f[i - 1] \o <<flags[i].name>> \o flags[i].value]
    BY <1>7 DEF FlatOf
  <1>9. f[0] = <<>> /\ \A i \in 1..N : f[i] = More(f[i - 1], i)
    <2> HIDE DEF f, N
    <2>1. 0 \in 0..N /\ \A i \in 1..N : i \in 0..N /\ i # 0
      BY <1>1
    <2>2. \A i \in 0..N : f[i] = IF i = 0 THEN <<>>
                                 ELSE f[i - 1] \o <<flags[i].name>> \o flags[i].value
      BY <1>8, Zenon
    <2>3. QED
      BY <2>1, <2>2, Zenon
  <1> DEFINE U == {n \in Nat : n <= N => f[n] \in Seq(Word)}
  <1>10. U = Nat
    <2> HIDE DEF f, N, More
    <2>1. U \in SUBSET Nat /\ 0 \in U
      <3>1. f[0] \in Seq(Word)
        BY <1>9
      <3>2. QED
        BY <3>1
    <2>2. ASSUME NEW n \in U PROVE n + 1 \in U
      <3> SUFFICES ASSUME n + 1 <= N PROVE f[n + 1] \in Seq(Word)
        OBVIOUS
      <3>1. f[n + 1] = More(f[n], n + 1) /\ f[n] \in Seq(Word) /\ n + 1 \in 1..N
        BY <1>1, <1>9
      <3>2. QED
        BY <3>1, <1>2
    <2>3. QED
      <3> HIDE DEF U
      <3>1. QED
        BY <2>1, <2>2, Induction
  <1>11. QED
    <2> HIDE DEF f, N
    <2>1. \A i \in 0..N : f[i] \in Seq(Word)
      BY <1>1, <1>10
    <2>2. f[0] = <<>> /\ \A i \in 1..N : f[i] = AddFlag(f[i - 1], flags[i])
      BY <1>9 DEF AddFlag
    <2>3. QED
      BY <2>1, <2>2 DEF f, N

LEMMA FlatType ==
  ASSUME NEW flags \in Seq(Flag)
  PROVE  Flat(flags) \in Seq(Word)
  <1>1. Len(flags) \in 0..Len(flags)
    BY LenProperties
  <1>2. QED
    BY <1>1, FlatFacts DEF Flat

\* Both argv functions: the subcommand, the flags, the positionals.
LEMMA ArgvOf ==
  ASSUME NEW s
  PROVE  /\ normalisedArgv(s) = s.sub \o Flat(s.flags) \o s.positionals
         /\ into_normalised_argv(s) = s.sub \o Flat(s.flags) \o s.positionals
  BY DEF normalisedArgv, into_normalised_argv, Flat, FlatOf

\* The argv the server forwards is one: what its recursive function builds out of
\* a parse is a sequence of words.
LEMMA FlatIsSequence ==
  ASSUME NEW s \in Parse
  PROVE  normalisedArgv(s) \in Seq(Word)
  <1>1. s.sub \in Seq(Word) /\ s.flags \in Seq(Flag) /\ s.positionals \in Seq(Word)
    BY DEF Parse
  <1>2. Flat(s.flags) \in Seq(Word)
    BY <1>1, FlatType
  <1>3. s.sub \o Flat(s.flags) \in Seq(Word)
    BY <1>1, <1>2, ConcatProperties
  <1>4. s.sub \o Flat(s.flags) \o s.positionals \in Seq(Word)
    BY <1>1, <1>3, ConcatProperties
  <1>5. QED
    BY <1>4, ArgvOf

-----------------------------------------------------------------------------
(* Tables, verdicts and parses.                                            *)

LEMMA TablePolicy ==
  ASSUME NEW t \in Tables, NEW b \in DOMAIN t
  PROVE  WellFormed(t[b]) /\ t[b] \in BinaryPolicy
  BY TablesAssumption DEF TablesAssumption, WellFormed

\* Applying the overrides changes nothing of a policy but its paths.
LEMMA AppliedPolicy ==
  ASSUME NEW t \in Tables, NEW b \in DOMAIN t, NEW o \in Override \union {NoOverride}
  PROVE  LET p == apply(o, b, t[b]) IN
         /\ p \in BinaryPolicy
         /\ \A f, g \in p.flags : f.name = g.name => f = g
         /\ p.required = t[b].required
  <1>1. t[b] \in BinaryPolicy /\ (\A f, g \in t[b].flags : f.name = g.name => f = g)
    BY TablePolicy DEF WellFormed
  <1>2. b \in DOMAIN o.repath => o.repath[b] \in Seq(Path)
    <2>1. CASE o \in Override
      BY <2>1, OverrideAssumption DEF OverrideAssumption
    <2>2. CASE o = NoOverride
      BY <2>2 DEF NoOverride
    <2>3. QED
      BY <2>1, <2>2
  <1>3. QED
    BY <1>1, <1>2 DEF apply, BinaryPolicy

LEMMA Verdicts ==
  /\ \A c, B : lookup(c, B) \in Codes
  /\ \A c, B, o : lookup_binary(c, B, o) \in Codes
  /\ \A p, rest : flagVerdict(p, rest) \in Codes /\ parse_flag_verdict(p, rest) \in Codes
  /\ \A p, s : positionalVerdict(p, s) \in Codes /\ countVerdict(p, s) \in Codes
  /\ \A p, s : parse_count_verdict(p, s) \in Codes
  <1>1. \A c, B : lookup(c, B) \in Codes
    BY DEF lookup, Codes
  <1>2. \A c, B, o : lookup_binary(c, B, o) \in Codes
    BY DEF lookup_binary, Codes
  <1>3. \A p, rest : flagVerdict(p, rest) \in Codes
    BY DEF flagVerdict, Codes
  <1>4. \A p, rest : parse_flag_verdict(p, rest) \in Codes
    BY DEF parse_flag_verdict, Codes
  <1>5. \A p, s : positionalVerdict(p, s) \in Codes /\ countVerdict(p, s) \in Codes
    BY DEF positionalVerdict, countVerdict, Codes
  <1>6. \A p, s : parse_count_verdict(p, s) \in Codes
    BY DEF parse_count_verdict, Codes
  <1>7. QED
    BY <1>1, <1>2, <1>3, <1>4, <1>5, <1>6

LEMMA PositionalVerdict == \A p, s : parse_positional_verdict(p, s) \in Codes
  <1>1. \A pos, w : validate_positional(pos, w) \in Codes
    BY DEF validate_positional, Codes
  <1>2. QED
    BY <1>1 DEF parse_positional_verdict, Codes

\* Reading a word and perhaps the one after it as a flag.
LEMMA FlagRead ==
  ASSUME NEW s \in Parse, s.rest # <<>>, NEW n \in {1, 2}, n <= Len(s.rest)
  PROVE  /\ [s EXCEPT !.rest = SubSeq(s.rest, n + 1, Len(s.rest)),
                      !.flags = Append(@, [name |-> Head(s.rest), value |-> SubSeq(s.rest, 2, n)])]
              \in Parse
         /\ n = 1 => SubSeq(s.rest, 2, n) = <<>>
         /\ n = 2 => SubSeq(s.rest, 2, n) = <<s.rest[2]>>
  <1>1. /\ s.rest \in Seq(Word) /\ s.flags \in Seq(Flag) /\ Len(s.rest) \in Nat
        /\ s.sub \in Seq(Word) /\ s.positionals \in Seq(Word)
    BY LenProperties DEF Parse
  <1>2. SubSeq(s.rest, n + 1, Len(s.rest)) \in Seq(Word)
    BY <1>1, SubSeqProperties
  <1>3. SubSeq(s.rest, 2, n) \in Seq(Word)
    BY <1>1, SubSeqProperties
  <1>4. Head(s.rest) \in Word
    BY <1>1, HeadTailProperties
  <1>5. Append(s.flags, [name |-> Head(s.rest), value |-> SubSeq(s.rest, 2, n)]) \in Seq(Flag)
    BY <1>1, <1>3, <1>4, AppendProperties DEF Flag
  <1>6. n = 1 => SubSeq(s.rest, 2, n) = <<>>
    BY <1>1, <1>3, SubSeqProperties, EmptySeq
  <1>7. n = 2 => SubSeq(s.rest, 2, n) = <<s.rest[2]>>
    <2> SUFFICES ASSUME n = 2 PROVE SubSeq(s.rest, 2, 2) = <<s.rest[2]>>
      OBVIOUS
    <2> DEFINE q == SubSeq(s.rest, 2, 2)
    <2>1. \A i \in 2..2 : s.rest[i] \in Word
      BY <1>1, ElementOfSeq
    <2>2. q \in Seq(Word) /\ Len(q) = 1 /\ q[1] = s.rest[2]
      BY <2>1, SubSeqProperties
    <2> HIDE DEF q
    <2>3. q \in [1..1 -> Word]
      BY <2>2, LenProperties
    <2>4. q = <<s.rest[2]>>
      BY <2>2, <2>3
    <2>5. QED
      BY <2>4 DEF q
  <1>8. QED
    BY <1>1, <1>2, <1>5, <1>6, <1>7 DEF Parse

\* Reading a word as a positional.
LEMMA PositionalRead ==
  ASSUME NEW s \in Parse, s.rest # <<>>
  PROVE  [s EXCEPT !.rest = Tail(@), !.positionals = Append(@, Head(s.rest))] \in Parse
  <1>1. /\ s.rest \in Seq(Word) /\ s.flags \in Seq(Flag)
        /\ s.sub \in Seq(Word) /\ s.positionals \in Seq(Word)
    BY DEF Parse
  <1>2. Tail(s.rest) \in Seq(Word) /\ Head(s.rest) \in Word
    BY <1>1, HeadTailProperties
  <1>3. Append(s.positionals, Head(s.rest)) \in Seq(Word)
    BY <1>1, <1>2, AppendProperties
  <1>4. QED
    BY <1>1, <1>2, <1>3 DEF Parse

\* Taking words off the front as the subcommand.
LEMMA SubcommandRead ==
  ASSUME NEW s \in Parse, NEW n \in Nat, n <= Len(s.rest)
  PROVE  /\ [s EXCEPT !.sub = SubSeq(s.rest, 1, n),
                      !.rest = SubSeq(s.rest, n + 1, Len(s.rest))] \in Parse
         /\ Len(SubSeq(s.rest, 1, n)) = n
         /\ \A k \in 1..n : SubSeq(s.rest, 1, n)[k] = s.rest[k]
  <1>1. /\ s.rest \in Seq(Word) /\ s.flags \in Seq(Flag) /\ Len(s.rest) \in Nat
        /\ s.sub \in Seq(Word) /\ s.positionals \in Seq(Word)
    BY LenProperties DEF Parse
  <1>2. \A i \in 1..Len(s.rest) : s.rest[i] \in Word
    BY <1>1, ElementOfSeq
  <1>3. (\A i \in 1..n : s.rest[i] \in Word) /\ \A i \in (n + 1)..Len(s.rest) : s.rest[i] \in Word
    BY <1>1, <1>2
  <1>4. SubSeq(s.rest, n + 1, Len(s.rest)) \in Seq(Word)
    BY <1>1, <1>3, SubSeqProperties
  <1>5. /\ SubSeq(s.rest, 1, n) \in Seq(Word)
        /\ Len(SubSeq(s.rest, 1, n)) = n
        /\ \A k \in 1..n : SubSeq(s.rest, 1, n)[k] = s.rest[k]
    BY <1>1, <1>3, SubSeqProperties
  <1>6. QED
    BY <1>1, <1>4, <1>5 DEF Parse

LEMMA ServerConsumes ==
  ASSUME NEW p \in BinaryPolicy, NEW args \in Seq(Word), NEW n \in consumeSubcommand(p, args)
  PROVE  n \in Nat /\ n <= Len(args)
  <1>1. PICK e \in p.subcommands : n = Len(e) /\ Len(e) <= Len(args)
    BY DEF consumeSubcommand, MatchingEntries
  <1>2. e \in Seq(Pattern)
    BY DEF BinaryPolicy
  <1>3. QED
    BY <1>1, <1>2, LenProperties

LEMMA AgentConsumes ==
  ASSUME NEW p \in BinaryPolicy, NEW args \in Seq(Word), NEW n \in consume_subcommand(p, args)
  PROVE  /\ n \in Nat /\ n <= Len(args)
         /\ \E e \in p.subcommands :
              Len(e) = n /\ DOMAIN e = 1..n /\ \A k \in 1..n : token_matches(e[k], args[k])
  <1>1. PICK e \in p.subcommands : /\ n = Len(e) /\ Len(e) <= Len(args)
                                   /\ \A k \in 1..Len(e) : token_matches(e[k], args[k])
    BY DEF consume_subcommand
  <1>2. e \in Seq(Pattern)
    BY DEF BinaryPolicy
  <1>3. QED
    BY <1>1, <1>2, LenProperties

-----------------------------------------------------------------------------
(* Types.                                                                  *)

Policies ==
  /\ serverTable \in Tables /\ agentTable \in Tables
  /\ override \in Override \union {NoOverride}

LEMMA AgentPolicyType ==
  ASSUME Policies, CmdShape[request.cmd].name \in DOMAIN agentTable
  PROVE  /\ agentPolicy \in BinaryPolicy
         /\ \A f, g \in agentPolicy.flags : f.name = g.name => f = g
         /\ agentPolicy.required = agentTable[CmdShape[request.cmd].name].required
  BY AppliedPolicy DEF Policies, agentPolicy

LEMMA ServerPolicyType ==
  ASSUME Policies, CmdShape[request.cmd].name \in DOMAIN serverTable
  PROVE  serverPolicy \in BinaryPolicy /\ \A f, g \in serverPolicy.flags : f.name = g.name => f = g
  BY TablePolicy DEF Policies, serverPolicy, WellFormed

\* The words a flag takes are there, on either side.
LEMMA ServerFlagReads ==
  ASSUME NEW p \in BinaryPolicy, \A f, g \in p.flags : f.name = g.name => f = g,
         NEW s \in Parse, s.rest # <<>>, flagVerdict(p, s.rest) = "ok"
  PROVE  parseFlag(p, s) \in Parse
  <1> DEFINE n == IF takesValue(p, Head(s.rest)) THEN 2 ELSE 1
  <1>1. Len(s.rest) \in Nat /\ Len(s.rest) >= 1
    BY EmptySeq, LenProperties DEF Parse
  <1>2. takesValue(p, Head(s.rest)) => Len(s.rest) >= 2
    BY <1>1 DEF takesValue, flagVerdict, findFlag
  <1>3. n \in {1, 2} /\ n <= Len(s.rest)
    BY <1>1, <1>2
  <1> HIDE DEF n
  <1>4. QED
    BY <1>3, FlagRead DEF parseFlag, n

LEMMA AgentFlagReads ==
  ASSUME NEW p \in BinaryPolicy, \A f, g \in p.flags : f.name = g.name => f = g,
         NEW s \in Parse, s.rest # <<>>, StartsWithDash(Head(s.rest)),
         parse_flag_verdict(p, s.rest) = "ok"
  PROVE  /\ parse_flag(p, s) \in Parse
         /\ \E f : FlagConforms(p, f) /\ parse_flag(p, s).flags = Append(s.flags, f)
         /\ parse_flag(p, s).positionals = s.positionals /\ parse_flag(p, s).sub = s.sub
  <1> DEFINE w == Head(s.rest)
             valued == \E f \in p.flags : f.name = w /\ needs_value(f.value)
             n == IF valued THEN 2 ELSE 1
             flag == [name |-> w, value |-> SubSeq(s.rest, 2, n)]
  <1>1. Len(s.rest) \in Nat /\ Len(s.rest) >= 1
    BY EmptySeq, LenProperties DEF Parse
  <1>2. valued => Len(s.rest) >= 2
    BY <1>1 DEF parse_flag_verdict
  <1>3. n \in {1, 2} /\ n <= Len(s.rest)
    BY <1>1, <1>2
  <1>4. parse_flag(p, s) = [s EXCEPT !.rest = SubSeq(s.rest, n + 1, Len(s.rest)),
                                     !.flags = Append(@, flag)]
    BY DEF parse_flag
  <1>5. w \notin p.forbidden
    BY DEF parse_flag_verdict
  <1>6. FlagConforms(p, flag)
    <2>1. CASE valued
      <3>1. flag.value = <<s.rest[2]>>
        BY <2>1, <1>3, FlagRead
      <3>2. PICK f \in p.flags : f.name = w /\ needs_value(f.value)
        BY <2>1
      <3>3. validate_value(f.value, s.rest[2])
        BY <3>2, <1>1 DEF parse_flag_verdict
      <3>4. QED
        BY <1>5, <3>1, <3>2, <3>3 DEF FlagConforms
    <2>2. CASE ~valued
      <3>1. flag.value = <<>>
        BY <2>2, <1>3, FlagRead
      <3>2. CASE \E f \in p.flags : f.name = w
        BY <1>5, <2>2, <3>1, <3>2 DEF FlagConforms, needs_value
      <3>3. CASE ~\E f \in p.flags : f.name = w
        <4>1. is_combined_short_eligible(w) /\ combined_short_admits(p, w)
          BY <3>3 DEF parse_flag_verdict
        <4>2. QED
          BY <1>5, <3>1, <4>1
          DEF FlagConforms, is_combined_short_eligible, combined_short_admits, needs_value
      <3>4. QED
        BY <3>2, <3>3
    <2>3. QED
      BY <2>1, <2>2
  <1>7. s \in Parse => [s EXCEPT !.rest = SubSeq(s.rest, n + 1, Len(s.rest)),
                                 !.flags = Append(@, flag)].flags = Append(s.flags, flag)
    BY DEF Parse
  <1>8. [s EXCEPT !.rest = SubSeq(s.rest, n + 1, Len(s.rest)), !.flags = Append(@, flag)] \in Parse
    <2> HIDE DEF n
    <2>1. QED
      BY <1>3, FlagRead
  <1>9. QED
    <2> HIDE DEF flag, n
    <2>1. QED
      BY <1>4, <1>6, <1>7, <1>8 DEF Parse

LEMMA ParseOfType ==
  ASSUME NEW args \in Seq(Word)
  PROVE  /\ ParseOf(args) \in Parse
         /\ ParseOf(args) = ParseOf(ParseOf(args).rest)
  <1>1. <<>> \in Seq(Word) /\ <<>> \in Seq(Flag)
    OBVIOUS
  <1>2. QED
    BY <1>1 DEF ParseOf, Parse

LEMMA InitType == Init => TypeOK /\ AgentInv
  <1> SUFFICES ASSUME Init PROVE TypeOK /\ AgentInv
    OBVIOUS
  <1>1. request \in Request /\ request.args \in Seq(Word)
    BY RequestsAssumption DEF Init, Request, RequestsAssumption
  <1>2. parse \in Parse
    BY <1>1, ParseOfType DEF Init
  <1>3. <<>> \in Seq(Word)
    OBVIOUS
  <1>4. TypeOK
    BY <1>1, <1>2, <1>3 DEF Init, TypeOK, Places, Codes
  <1>5. AgentInv
    BY DEF Init, AgentInv
  <1>6. QED
    BY <1>4, <1>5

\* A step that keeps the tables and the overrides keeps the policies.
LEMMA PoliciesKept ==
  ASSUME UNCHANGED <<built, override>>
  PROVE  UNCHANGED <<request, serverTable, agentTable, serverPolicy, agentPolicy>>
  BY DEF built, serverPolicy, agentPolicy

LEMMA ServerRefusesType ==
  ASSUME TypeOK, NEW v \in Codes, ServerRefuses(v)
  PROVE  TypeOK' /\ AgentInv'
  BY DEF ServerRefuses, TypeOK, AgentInv, Places, built, hinted

LEMMA AgentRefusesType ==
  ASSUME TypeOK, NEW v \in Codes, AgentRefuses(v), override' \in Override \union {NoOverride}
  PROVE  TypeOK' /\ AgentInv'
  BY DEF AgentRefuses, TypeOK, AgentInv, Places, built, hinted

LEMMA ParsedType ==
  ASSUME TypeOK, NEW place \in Places, NEW s \in Parse, Parsed(place, s)
  PROVE  TypeOK'
  BY DEF Parsed, TypeOK, built, hinted

\* A step of the server's parser that goes on with its words.
LEMMA ServerParses ==
  ASSUME TypeOK, AgentInv, at \in {"server subcommand", "server words"},
         NEW s \in Parse, Parsed("server words", s)
  PROVE  TypeOK' /\ AgentInv'
  <1>1. TypeOK'
    BY ParsedType DEF Places
  <1>2. AgentInv'
    BY DEF Parsed, AgentInv, built
  <1>3. QED
    BY <1>1, <1>2

LEMMA ServerSteps ==
  ASSUME TypeOK, AgentInv, Validate \/ ServerSubcommand \/ ServerFlag \/ ServerPositional \/ Forward
  PROVE  TypeOK' /\ AgentInv'
  <1>a. /\ request \in Request /\ Policies /\ parse \in Parse /\ parse.rest \in Seq(Word)
        /\ request.cmd \in Command
    BY DEF TypeOK, Policies, Parse, Request
  <1>b. at \in {"server subcommand", "server words"} =>
          /\ serverPolicy \in BinaryPolicy
          /\ \A f, g \in serverPolicy.flags : f.name = g.name => f = g
    BY <1>a, ServerPolicyType DEF AgentInv
  <1>1. CASE Validate
    <2> DEFINE verdict == lookup(request.cmd, DOMAIN serverTable)
    <2>1. CASE verdict # "ok" /\ ServerRefuses(verdict)
      BY <2>1, Verdicts, ServerRefusesType
    <2>2. CASE verdict = "ok" /\ Parsed(IF serverPolicy.required THEN "server subcommand"
                                         ELSE "server words", parse)
      <3>1. CmdShape[request.cmd].name \in DOMAIN serverTable
        BY <2>2 DEF lookup
      <3>2. TypeOK'
        BY <1>a, <2>2, ParsedType DEF Places
      <3>3. AgentInv'
        BY <2>2, <3>1 DEF Parsed, AgentInv, built
      <3>4. QED
        BY <3>2, <3>3
    <2>3. QED
      BY <1>1, <2>1, <2>2 DEF Validate
  <1>2. CASE ServerSubcommand
    <2>1. ASSUME NEW v \in {"subcommand_required", "unknown_subcommand"}, ServerRefuses(v)
          PROVE  TypeOK' /\ AgentInv'
      BY <2>1, ServerRefusesType DEF Codes
    <2>2. ASSUME NEW n \in consumeSubcommand(serverPolicy, parse.rest),
                 Parsed("server words",
                   [parse EXCEPT !.sub = SubSeq(parse.rest, 1, n),
                                 !.rest = SubSeq(parse.rest, n + 1, Len(parse.rest))])
          PROVE  TypeOK' /\ AgentInv'
      <3>1. at = "server subcommand"
        BY <1>2 DEF ServerSubcommand
      <3>2. n \in Nat /\ n <= Len(parse.rest)
        BY <1>a, <1>b, <3>1, ServerConsumes
      <3>3. QED
        BY <1>a, <2>2, <3>1, <3>2, SubcommandRead, ServerParses
    <2>3. QED
      BY <1>2, <2>1, <2>2 DEF ServerSubcommand
  <1>3. CASE ServerFlag
    <2> DEFINE verdict == flagVerdict(serverPolicy, parse.rest)
    <2>1. CASE verdict # "ok" /\ ServerRefuses(verdict)
      BY <2>1, Verdicts, ServerRefusesType
    <2>2. CASE verdict = "ok" /\ Parsed("server words", parseFlag(serverPolicy, parse))
      <3>1. at = "server words" /\ parse.rest # <<>>
        BY <1>3 DEF ServerFlag
      <3>2. parseFlag(serverPolicy, parse) \in Parse
        BY <1>a, <1>b, <2>2, <3>1, ServerFlagReads
      <3>3. QED
        BY <2>2, <3>1, <3>2, ServerParses
    <2>3. QED
      BY <1>3, <2>1, <2>2 DEF ServerFlag
  <1>4. CASE ServerPositional
    <2> DEFINE verdict == positionalVerdict(serverPolicy, parse)
    <2>1. CASE verdict # "ok" /\ ServerRefuses(verdict)
      BY <2>1, Verdicts, ServerRefusesType
    <2>2. CASE verdict = "ok" /\ Parsed("server words", parsePositional(parse))
      <3>1. at = "server words" /\ parse.rest # <<>>
        BY <1>4 DEF ServerPositional
      <3>2. parsePositional(parse) \in Parse
        BY <1>a, <3>1, PositionalRead DEF parsePositional
      <3>3. QED
        BY <2>2, <3>1, <3>2, ServerParses
    <2>3. QED
      BY <1>4, <2>1, <2>2 DEF ServerPositional
  <1>5. CASE Forward
    <2> DEFINE verdict == countVerdict(serverPolicy, parse)
    <2>1. CASE verdict # "ok" /\ ServerRefuses(verdict)
      BY <2>1, Verdicts, ServerRefusesType
    <2>2. CASE verdict = "ok" /\ at' = "dispatched" /\ sent' = normalisedArgv(parse)
               /\ UNCHANGED <<built, parse, override, path, code, hinted>>
      <3>1. sent' \in Seq(Word)
        BY <1>a, <2>2, FlatIsSequence
      <3>2. QED
        BY <2>2, <3>1 DEF TypeOK, AgentInv, Places, built, hinted
    <2>3. QED
      BY <1>5, <2>1, <2>2 DEF Forward
  <1>6. QED
    BY <1>1, <1>2, <1>3, <1>4, <1>5

-----------------------------------------------------------------------------
(* The agent's side.                                                       *)

\* What the agent has parsed so far is within its grammar.
Conforms(p, s) ==
  /\ \A i \in DOMAIN s.flags : FlagConforms(p, s.flags[i])
  /\ PositionalsConform(p, s)
  /\ SubcommandConforms(p, s)

\* A step of the agent's parser that goes on with its words.
LEMMA AgentParses ==
  ASSUME TypeOK, AgentInv, at \in {"agent subcommand", "agent words"},
         NEW s \in Parse, Parsed("agent words", s), Conforms(agentPolicy, s)
  PROVE  TypeOK' /\ AgentInv'
  <1>1. TypeOK'
    BY ParsedType DEF Places
  <1>2. UNCHANGED <<built, override>> /\ at' = "agent words" /\ parse' = s
    BY DEF Parsed
  <1>3. UNCHANGED <<request, serverTable, agentTable, serverPolicy, agentPolicy>>
    BY <1>2, PoliciesKept
  <1>4. AgentInv'
    BY <1>2, <1>3 DEF AgentInv, Conforms, PositionalsConform, SubcommandConforms
  <1>5. QED
    BY <1>1, <1>4

LEMMA AgentSteps ==
  ASSUME TypeOK, AgentInv, AgentSubcommand \/ AgentFlag \/ AgentPositional
  PROVE  TypeOK' /\ AgentInv'
  <1>a. /\ Policies /\ parse \in Parse /\ parse.rest \in Seq(Word) /\ parse.flags \in Seq(Flag)
        /\ parse.positionals \in Seq(Word)
    BY DEF TypeOK, Policies, Parse
  <1>b. /\ agentPolicy \in BinaryPolicy
        /\ \A f, g \in agentPolicy.flags : f.name = g.name => f = g
    BY <1>a, AgentPolicyType DEF AgentInv, AgentSubcommand, AgentFlag, AgentPositional
  <1>c. ASSUME NEW v \in Codes, AgentRefuses(v), UNCHANGED override PROVE TypeOK' /\ AgentInv'
    BY <1>c, AgentRefusesType DEF TypeOK
  <1>1. CASE AgentSubcommand
    <2>1. ASSUME NEW v \in {"subcommand_required", "unknown_subcommand"}, AgentRefuses(v),
                 UNCHANGED override
          PROVE  TypeOK' /\ AgentInv'
      BY <1>c, <2>1 DEF Codes
    <2>2. ASSUME NEW n \in consume_subcommand(agentPolicy, parse.rest),
                 Parsed("agent words",
                   [parse EXCEPT !.sub = SubSeq(parse.rest, 1, n),
                                 !.rest = SubSeq(parse.rest, n + 1, Len(parse.rest))])
          PROVE  TypeOK' /\ AgentInv'
      <3> DEFINE s == [parse EXCEPT !.sub = SubSeq(parse.rest, 1, n),
                                    !.rest = SubSeq(parse.rest, n + 1, Len(parse.rest))]
      <3>1. at = "agent subcommand" /\ agentPolicy.required /\ parse = ParseOf(parse.rest)
        BY <1>1 DEF AgentSubcommand, AgentInv
      <3>2. /\ n \in Nat /\ n <= Len(parse.rest)
            /\ \E e \in agentPolicy.subcommands :
                 Len(e) = n /\ DOMAIN e = 1..n
                 /\ \A k \in 1..n : token_matches(e[k], parse.rest[k])
        BY <1>a, <1>b, AgentConsumes
      <3>3. /\ s \in Parse /\ Len(SubSeq(parse.rest, 1, n)) = n
            /\ \A k \in 1..n : SubSeq(parse.rest, 1, n)[k] = parse.rest[k]
        BY <1>a, <3>2, SubcommandRead
      <3>4. s.sub = SubSeq(parse.rest, 1, n) /\ s.flags = <<>> /\ s.positionals = <<>>
        <4>1. \A args : ParseOf(args).flags = <<>> /\ ParseOf(args).positionals = <<>>
          BY DEF ParseOf
        <4>2. parse.flags = <<>> /\ parse.positionals = <<>>
          BY <3>1, <4>1, Zenon
        <4>3. QED
          BY <1>a, <4>2 DEF Parse
      <3>5. SubcommandConforms(agentPolicy, s)
        <4> HIDE DEF s
        <4>1. QED
          BY <3>1, <3>2, <3>3, <3>4 DEF SubcommandConforms
      <3>6. Conforms(agentPolicy, s)
        BY <3>4, <3>5 DEF Conforms, PositionalsConform
      <3>7. QED
        BY <2>2, <3>1, <3>3, <3>6, AgentParses
    <2>3. QED
      BY <1>1, <2>1, <2>2 DEF AgentSubcommand
  <1>2. CASE AgentFlag
    <2> DEFINE verdict == parse_flag_verdict(agentPolicy, parse.rest)
               s == parse_flag(agentPolicy, parse)
    <2>1. CASE verdict # "ok" /\ AgentRefuses(verdict) /\ UNCHANGED override
      BY <1>c, <2>1, Verdicts
    <2>2. CASE verdict = "ok" /\ Parsed("agent words", s)
      <3>1. at = "agent words" /\ parse.rest # <<>> /\ StartsWithDash(Head(parse.rest))
        BY <1>2 DEF AgentFlag
      <3>2. /\ s \in Parse
            /\ \E f : FlagConforms(agentPolicy, f) /\ s.flags = Append(parse.flags, f)
            /\ s.positionals = parse.positionals /\ s.sub = parse.sub
        BY <1>a, <1>b, <2>2, <3>1, AgentFlagReads
      <3>3. Conforms(agentPolicy, parse)
        BY <3>1 DEF AgentInv, Conforms
      <3>4. \A i \in DOMAIN s.flags : FlagConforms(agentPolicy, s.flags[i])
        <4> HIDE DEF s
        <4>1. PICK f : FlagConforms(agentPolicy, f) /\ s.flags = Append(parse.flags, f)
          BY <3>2
        <4>2. QED
          BY <1>a, <3>3, <4>1 DEF Conforms
      <3>5. Conforms(agentPolicy, s)
        <4> HIDE DEF s
        <4>1. QED
          BY <3>2, <3>3, <3>4 DEF Conforms, PositionalsConform, SubcommandConforms
      <3>6. QED
        BY <2>2, <3>1, <3>2, <3>5, AgentParses
    <2>3. QED
      BY <1>2, <2>1, <2>2 DEF AgentFlag
  <1>3. CASE AgentPositional
    <2> DEFINE verdict == parse_positional_verdict(agentPolicy, parse)
               s == parse_positional(parse)
               p == agentPolicy
    <2>1. CASE verdict # "ok" /\ AgentRefuses(verdict) /\ UNCHANGED override
      BY <1>c, <2>1, PositionalVerdict
    <2>2. CASE verdict = "ok" /\ Parsed("agent words", s)
      <3>1. at = "agent words" /\ parse.rest # <<>> /\ ~StartsWithDash(Head(parse.rest))
        BY <1>3 DEF AgentPositional
      <3>2. s \in Parse
        BY <1>a, <3>1, PositionalRead DEF parse_positional
      <3>3. /\ s.flags = parse.flags /\ s.sub = parse.sub
            /\ s.positionals = Append(parse.positionals, Head(parse.rest))
        BY <1>a DEF parse_positional, Parse
      <3>4. Conforms(p, parse)
        BY <3>1 DEF AgentInv, Conforms
      <3>5. /\ p.positional # NoPositional /\ ~(Len(parse.positionals) >= p.positional.max)
            /\ validate_positional(p.positional, Head(parse.rest)) = "ok"
        BY <2>2 DEF parse_positional_verdict
      <3>6. PositionalsConform(p, s)
        <4> HIDE DEF s, p
        <4>1. p.positional.max \in Nat /\ Len(parse.positionals) \in Nat
          BY <1>a, <1>b, <3>5, LenProperties DEF BinaryPolicy, PositionalSpec, p
        <4>2. Head(parse.rest) \in Word
          BY <1>a, <3>1, HeadTailProperties
        <4>3. Len(s.positionals) <= p.positional.max
          BY <1>a, <3>3, <3>5, <4>1, <4>2, AppendProperties
        <4>4. ASSUME NEW i \in DOMAIN s.positionals
              PROVE  /\ ~StartsWithDash(s.positionals[i])
                     /\ validate_positional(p.positional, s.positionals[i]) = "ok"
          <5>1. CASE i \in DOMAIN parse.positionals
            <6>1. s.positionals[i] = parse.positionals[i] /\ parse.positionals # <<>>
              BY <1>a, <3>3, <5>1
            <6>2. QED
              BY <3>4, <3>5, <5>1, <6>1 DEF Conforms, PositionalsConform
          <5>2. CASE i \notin DOMAIN parse.positionals
            <6>1. s.positionals[i] = Head(parse.rest)
              BY <1>a, <3>3, <5>2, <4>4
            <6>2. QED
              BY <3>1, <3>5, <6>1
          <5>3. QED
            BY <5>1, <5>2
        <4>5. QED
          BY <3>5, <4>3, <4>4 DEF PositionalsConform
      <3>7. Conforms(p, s)
        <4> HIDE DEF s, p
        <4>1. QED
          BY <3>3, <3>4, <3>6 DEF Conforms, SubcommandConforms
      <3>8. QED
        BY <2>2, <3>1, <3>2, <3>7, AgentParses
    <2>3. QED
      BY <1>3, <2>1, <2>2 DEF AgentPositional
  <1>4. QED
    BY <1>1, <1>2, <1>3

LEMMA ResolveStep == TypeOK /\ AgentInv /\ Resolve => TypeOK' /\ AgentInv'
  <1> SUFFICES ASSUME TypeOK, AgentInv, Resolve PROVE TypeOK' /\ AgentInv'
    OBVIOUS
  <1>1. PICK fs \in [Path -> FileState], root \in BOOLEAN :
          LET found == resolve(agentPolicy.paths, fs, root)
          IN  \/ /\ found = {} /\ UNCHANGED override
                 /\ AgentRefuses(IF agentPolicy.paths = <<>>
                                 THEN "no_executable_for_binary"
                                 ELSE "resolver_rejected_all_candidates")
              \/ /\ found # {}
                 /\ at' = "spawned"
                 /\ path' = {agentPolicy.paths[i] : i \in found}
                 /\ UNCHANGED <<built, parse, sent, override, code, hinted>>
    BY DEF Resolve
  <1> DEFINE found == resolve(agentPolicy.paths, fs, root)
  <1>2. CASE found = {} /\ UNCHANGED override
             /\ AgentRefuses(IF agentPolicy.paths = <<>>
                             THEN "no_executable_for_binary"
                             ELSE "resolver_rejected_all_candidates")
    BY <1>2, AgentRefusesType DEF Codes, TypeOK
  <1>3. CASE found # {} /\ at' = "spawned" /\ path' = {agentPolicy.paths[i] : i \in found}
             /\ UNCHANGED <<built, parse, sent, override, code, hinted>>
    <2>1. UNCHANGED <<request, serverTable, agentTable, serverPolicy, agentPolicy>>
      BY <1>3, PoliciesKept
    <2>2. at = "resolving" /\ agentPolicy.paths \in Seq(Path)
      <3>1. at = "resolving" /\ CmdShape[request.cmd].name \in DOMAIN agentTable /\ Policies
        BY DEF Resolve, AgentInv, TypeOK, Policies
      <3>2. QED
        BY <3>1, AgentPolicyType DEF BinaryPolicy
    <2>3. \A i \in found : i \in DOMAIN agentPolicy.paths /\ agentPolicy.paths[i] \in Path
      BY <2>2, ElementOfSeq, LenProperties DEF resolve
    <2>4. \A i, j \in found : i = j
      <3>1. \A i \in found : /\ i \in Nat \ {0} /\ check_candidate(fs[agentPolicy.paths[i]], root)
                             /\ \A j \in 1..(i - 1) : ~check_candidate(fs[agentPolicy.paths[j]], root)
        BY <2>2, LenProperties DEF resolve
      <3>2. \A i, j \in Nat \ {0} : i = j \/ i \in 1..(j - 1) \/ j \in 1..(i - 1)
        OBVIOUS
      <3>3. QED
        BY <3>1, <3>2
    <2> HIDE DEF found
    <2>5. PICK i \in found : path' = {agentPolicy.paths[i]}
      BY <1>3, <2>4
    <2>6. path' \subseteq Path /\ \A q, r \in path' : q = r
      BY <2>3, <2>5
    <2>7. TypeOK'
      BY <1>3, <2>1, <2>6 DEF TypeOK, Places, hinted
    <2>8. AgentInv'
      BY <1>3, <2>1, <2>2, <2>3, <2>5 DEF AgentInv, PositionalsConform, SubcommandConforms
    <2>9. QED
      BY <2>7, <2>8
  <1>4. QED
    BY <1>1, <1>2, <1>3

LEMMA OtherSteps ==
  ASSUME TypeOK, AgentInv, AgentValidate \/ AgentParsed \/ EnrichAgentError
  PROVE  TypeOK' /\ AgentInv'
  <1>1. CASE AgentValidate
    <2>1. PICK o \in Override :
            LET verdict == lookup_binary(request.cmd, DOMAIN agentTable, o)
            IN  /\ override' = o
                /\ \/ verdict # "ok" /\ AgentRefuses(verdict)
                   \/ /\ verdict = "ok"
                      /\ at' = IF agentTable[CmdShape[request.cmd].name].required
                               THEN "agent subcommand" ELSE "agent words"
                      /\ parse' = ParseOf(sent)
                      /\ UNCHANGED <<built, sent, path, code, hinted>>
      BY <1>1 DEF AgentValidate
    <2> DEFINE verdict == lookup_binary(request.cmd, DOMAIN agentTable, o)
    <2>2. CASE verdict # "ok" /\ AgentRefuses(verdict)
      BY <2>1, <2>2, Verdicts, AgentRefusesType
    <2>3. CASE /\ verdict = "ok"
               /\ at' = IF agentTable[CmdShape[request.cmd].name].required
                        THEN "agent subcommand" ELSE "agent words"
               /\ parse' = ParseOf(sent)
               /\ UNCHANGED <<built, sent, path, code, hinted>>
      <3>1. /\ CmdShape[request.cmd].name \in DOMAIN agentTable
            /\ UNCHANGED <<request, serverTable, agentTable>>
        BY <2>3 DEF lookup_binary, built
      <3>2. parse' \in Parse /\ parse' = ParseOf(parse'.rest)
        BY <2>3, ParseOfType DEF TypeOK
      <3>3. TypeOK'
        BY <2>1, <2>3, <3>1, <3>2 DEF TypeOK, Places, hinted
      <3>4. agentPolicy'.required = agentTable[CmdShape[request.cmd].name].required
        BY <3>1, <2>1, AppliedPolicy, ZenonT(30) DEF TypeOK, agentPolicy
      <3>5. parse'.flags = <<>> /\ parse'.positionals = <<>> /\ parse'.sub = <<>>
        BY <2>3 DEF ParseOf
      <3> DEFINE required == agentTable[CmdShape[request.cmd].name].required
      <3>6. CmdShape[request'.cmd].name \in DOMAIN agentTable'
        BY <3>1
      <3>7. CASE required
        <4>1. at' = "agent subcommand" /\ agentPolicy'.required
          BY <2>3, <3>4, <3>7
        <4>2. AgentInv'
          BY <4>1, <3>2, <3>6 DEF AgentInv
        <4>3. QED
          BY <3>3, <4>2
      <3>8. CASE ~required
        <4>1. at' = "agent words" /\ ~agentPolicy'.required
          BY <2>3, <3>4, <3>8
        <4>2. DOMAIN parse'.flags = {}
          BY <3>5
        <4>3. PositionalsConform(agentPolicy', parse') /\ SubcommandConforms(agentPolicy', parse')
          BY <4>1, <3>5 DEF PositionalsConform, SubcommandConforms
        <4>4. AgentInv'
          BY <4>1, <4>2, <4>3, <3>6 DEF AgentInv
        <4>5. QED
          BY <3>3, <4>4
      <3>9. QED
        BY <3>7, <3>8
    <2>4. QED
      BY <2>1, <2>2, <2>3
  <1>2. CASE AgentParsed
    <2> DEFINE verdict == parse_count_verdict(agentPolicy, parse)
    <2>1. CASE verdict # "ok" /\ AgentRefuses(verdict) /\ UNCHANGED override
      BY <2>1, Verdicts, AgentRefusesType DEF TypeOK
    <2>2. CASE verdict = "ok" /\ Parsed("resolving", parse)
      <3>1. TypeOK'
        BY <2>2, ParsedType DEF TypeOK, Places
      <3>2. UNCHANGED <<request, serverTable, agentTable, serverPolicy, agentPolicy, parse>>
            /\ at' = "resolving" /\ at = "agent words"
        BY <1>2, <2>2, PoliciesKept DEF Parsed, AgentParsed
      <3>3. agentPolicy.positional # NoPositional =>
              ~(Len(parse.positionals) < agentPolicy.positional.min)
        BY <2>2 DEF parse_count_verdict
      <3>4. agentPolicy.positional # NoPositional =>
              Len(parse.positionals) >= agentPolicy.positional.min
        <4>1. agentPolicy \in BinaryPolicy /\ parse.positionals \in Seq(Word)
          BY <3>2, AgentPolicyType DEF AgentInv, TypeOK, Policies, Parse
        <4>2. agentPolicy.positional # NoPositional => agentPolicy.positional.min \in Nat
          BY <4>1 DEF BinaryPolicy, PositionalSpec
        <4>3. QED
          BY <3>3, <4>1, <4>2, LenProperties
      <3>5. AgentInv'
        BY <3>2, <3>4 DEF AgentInv, PositionalsConform, SubcommandConforms
      <3>6. QED
        BY <3>1, <3>5
    <2>3. QED
      BY <1>2, <2>1, <2>2 DEF AgentParsed
  <1>3. CASE EnrichAgentError
    <2>1. /\ at' = "answered" /\ UNCHANGED <<built, parse, sent, override, path, code>>
          /\ reported' \in {{}} \union {{t} : t \in Tables}
          /\ hint' \in {"none", "no digest", "drift"}
      BY <1>3 DEF EnrichAgentError
    <2>2. reported' \subseteq Tables /\ \A t, u \in reported' : t = u
      BY <2>1
    <2>3. QED
      BY <2>1, <2>2 DEF TypeOK, AgentInv, Places, built
  <1>4. QED
    BY <1>1, <1>2, <1>3

LEMMA PipelineInductive == Spec => [](TypeOK /\ AgentInv)
  <1>1. Init => TypeOK /\ AgentInv
    BY InitType
  <1>2. TypeOK /\ AgentInv /\ [Next]_vars => (TypeOK /\ AgentInv)'
    <2> SUFFICES ASSUME TypeOK, AgentInv, [Next]_vars PROVE TypeOK' /\ AgentInv'
      OBVIOUS
    <2>1. CASE UNCHANGED vars
      <3>1. UNCHANGED <<at, request, serverTable, agentTable, parse, sent, override, path,
                        code, reported, hint, serverPolicy, agentPolicy>>
        BY <2>1 DEF vars, serverPolicy, agentPolicy
      <3>2. TypeOK'
        BY <3>1 DEF TypeOK
      <3>3. AgentInv'
        BY <3>1 DEF AgentInv, PositionalsConform, SubcommandConforms
      <3>4. QED
        BY <3>2, <3>3
    <2>2. QED
      BY <2>1, ServerSteps, AgentSteps, ResolveStep, OtherSteps DEF Next
  <1>3. QED
    BY <1>1, <1>2, PTL DEF Spec

\* The pipeline's state is well typed, every refusal carries one of the documented
\* codes, and the resolver settles on one executable at most.
THEOREM PipelineTypeCorrect == Spec => []TypeOK
  <1>1. QED
    BY PipelineInductive, PTL

\* Whatever policy tables the two builds carry, whatever the overrides say and
\* whatever the server let through, what the agent spawns is within the grammar of
\* its own table.
THEOREM SpawnConformsCorrect == Spec => []SpawnConforms
  <1>1. AgentInv => SpawnConforms
    BY DEF AgentInv, SpawnConforms
  <1>2. QED
    BY <1>1, PipelineInductive, PTL
------------------------------------------------------------------------------
(* Flags one after the other.                                              *)

\* (a b) c is a (b c).
Associates(a, b, c) == (a \o b) \o c = a \o (b \o c)

\* Concatenation regroups three parts.
LEMMA ThreeParts ==
  ASSUME NEW a \in Seq(Word), NEW b \in Seq(Word), NEW c \in Seq(Word)
  PROVE  Associates(a, b, c) /\ a \o b \in Seq(Word)
  <1>1. (a \o b) \o c = a \o (b \o c)
    BY ConcatAssociative
  <1>2. a \o b \in Seq(Word)
    BY ConcatProperties
  <1>3. QED
    BY <1>1, <1>2, Zenon DEF Associates

\* Concatenation associates, over four sequences.
LEMMA Regroup ==
  ASSUME NEW u \in Seq(Word), NEW v \in Seq(Word), NEW x \in Seq(Word), NEW y \in Seq(Word)
  PROVE  /\ (u \o v) \o x = u \o (v \o x)
         /\ ((u \o v) \o x) \o y = u \o ((v \o x) \o y)
         /\ u \o v \in Seq(Word) /\ (u \o v) \o x \in Seq(Word)
  <1>1. v \o x \in Seq(Word) /\ u \o v \in Seq(Word)
    BY ConcatProperties
  <1>2. (u \o v) \o x = u \o (v \o x)
    <2>1. Associates(u, v, x)
      BY ThreeParts, Zenon
    <2>2. QED
      BY <2>1, Zenon DEF Associates
  <1>3. (u \o (v \o x)) \o y = u \o ((v \o x) \o y)
    <2>1. Associates(u, v \o x, y)
      BY <1>1, ThreeParts, Zenon
    <2>2. QED
      BY <2>1, Zenon DEF Associates
  <1>4. (u \o v) \o x \in Seq(Word)
    BY <1>1, ConcatProperties
  <1>5. QED
    BY <1>1, <1>2, <1>3, <1>4

\* What a flag adds to the words before it.
LEMMA FlagParts ==
  ASSUME NEW flags \in Seq(Flag), NEW i \in 1..Len(flags)
  PROVE  /\ <<flags[i].name>> \in Seq(Word) /\ flags[i].value \in Seq(Word)
         /\ <<flags[i].name>> \o flags[i].value \in Seq(Word)
  <1>1. flags[i] \in Flag
    BY ElementOfSeq
  <1>2. <<flags[i].name>> \in Seq(Word) /\ flags[i].value \in Seq(Word)
    BY <1>1 DEF Flag
  <1>3. QED
    BY <1>2, ConcatProperties

\* What comes of the first flags does not depend on those after them.
LEMMA FlatPrefix ==
  ASSUME NEW flags \in Seq(Flag), NEW more \in Seq(Flag), NEW n \in Nat,
         n <= Len(flags), n <= Len(more), \A i \in 1..n : flags[i] = more[i]
  PROVE  \A i \in 0..n : FlatOf(flags)[i] = FlatOf(more)[i]
  <1> DEFINE f == FlatOf(flags)
             g == FlatOf(more)
             T == {i \in Nat : i <= n => f[i] = g[i]}
  <1>0. Len(flags) \in Nat /\ Len(more) \in Nat
    BY LenProperties
  <1>1. f[0] = <<>> /\ \A i \in 1..n : f[i] = AddFlag(f[i - 1], flags[i])
    BY <1>0, FlatFacts
  <1>2. g[0] = <<>> /\ \A i \in 1..n : g[i] = AddFlag(g[i - 1], more[i])
    BY <1>0, FlatFacts
  <1> HIDE DEF f, g
  <1>3. T \in SUBSET Nat /\ 0 \in T
    BY <1>1, <1>2
  <1>4. ASSUME NEW i \in T PROVE i + 1 \in T
    <2> SUFFICES ASSUME i + 1 <= n PROVE f[i + 1] = g[i + 1]
      OBVIOUS
    <2>1. i + 1 \in 1..n /\ i <= n /\ i + 1 - 1 = i
      OBVIOUS
    <2>2. f[i] = g[i] /\ flags[i + 1] = more[i + 1]
      BY <2>1
    <2>3. QED
      BY <1>1, <1>2, <2>1, <2>2
  <1>5. T = Nat
    <2> HIDE DEF T
    <2>1. QED
      BY <1>3, <1>4, Induction
  <1>6. QED
    BY <1>5 DEF f, g

\* No flags, no words.
LEMMA FlatEmpty == Flat(<<>>) = <<>>
  <1>1. <<>> \in Seq(Flag) /\ Len(<<>>) = 0
    OBVIOUS
  <1>2. QED
    BY <1>1, FlatFacts DEF Flat

\* The words of the flags read so far, and of one more.
LEMMA FlatAppend ==
  ASSUME NEW flags \in Seq(Flag), NEW f \in Flag
  PROVE  Flat(Append(flags, f)) = Flat(flags) \o (<<f.name>> \o f.value)
  <1> DEFINE N == Len(flags)
             more == Append(flags, f)
  <1>1. N \in Nat /\ more \in Seq(Flag) /\ Len(more) = N + 1 /\ more[N + 1] = f
        /\ \A i \in 1..N : more[i] = flags[i]
    BY AppendProperties, LenProperties
  <1> HIDE DEF more, N
  <1>2. N <= Len(flags) /\ N <= Len(more) /\ \A i \in 1..N : flags[i] = more[i]
    BY <1>1 DEF N
  <1>3. \A i \in 0..N : FlatOf(flags)[i] = FlatOf(more)[i]
    BY <1>1, <1>2, FlatPrefix
  <1>4. FlatOf(more)[N] = Flat(flags)
    BY <1>1, <1>3 DEF Flat, N
  <1>5. FlatOf(more)[N + 1] = FlatOf(more)[N] \o <<f.name>> \o f.value
    <2>1. N + 1 \in 1..Len(more) /\ N + 1 - 1 = N
      BY <1>1
    <2>2. FlatOf(more)[N + 1] = AddFlag(FlatOf(more)[N + 1 - 1], more[N + 1])
      BY <1>1, <2>1, FlatFacts
    <2>3. QED
      BY <1>1, <2>1, <2>2 DEF AddFlag
  <1>6. Flat(flags) \in Seq(Word) /\ <<f.name>> \in Seq(Word) /\ f.value \in Seq(Word)
    <2>1. Flat(flags) \in Seq(Word)
      BY FlatType
    <2>2. <<f.name>> \in Seq(Word) /\ f.value \in Seq(Word)
      BY DEF Flag
    <2>3. QED
      BY <2>1, <2>2
  <1>7. Flat(flags) \o <<f.name>> \o f.value = Flat(flags) \o (<<f.name>> \o f.value)
    <2> DEFINE a == <<f.name>>
               b == f.value
               c == Flat(flags)
    <2>1. a \in Seq(Word) /\ b \in Seq(Word) /\ c \in Seq(Word)
      BY <1>6
    <2> HIDE DEF a, b, c
    <2>2. Associates(c, a, b)
      BY <2>1, ThreeParts, Zenon
    <2>3. (c \o a) \o b = c \o (a \o b)
      BY <2>2, Zenon DEF Associates
    <2>4. QED
      BY <2>3 DEF a, b, c
  <1>8. Flat(more) = FlatOf(more)[N + 1]
    BY <1>1 DEF Flat
  <1>9. QED
    BY <1>4, <1>5, <1>7, <1>8 DEF more

\* The words of the first flag, and of the rest.
LEMMA FlatCons ==
  ASSUME NEW flags \in Seq(Flag), flags # <<>>
  PROVE  /\ Head(flags) \in Flag /\ Tail(flags) \in Seq(Flag)
         /\ Flat(flags) = (<<Head(flags).name>> \o Head(flags).value) \o Flat(Tail(flags))
  <1> DEFINE N == Len(flags)
             rest == Tail(flags)
             W == <<Head(flags).name>> \o Head(flags).value
             f == FlatOf(flags)
             g == FlatOf(rest)
             Same(i) == f[i + 1] = W \o g[i]
             T == {i \in Nat : i + 1 <= N => Same(i)}
  <1>1. /\ N \in Nat /\ N >= 1 /\ rest \in Seq(Flag) /\ Len(rest) = N - 1 /\ Head(flags) \in Flag
        /\ \A i \in 1..(N - 1) : rest[i] = flags[i + 1]
    BY HeadTailProperties, EmptySeq
  <1>2. W \in Seq(Word) /\ Head(flags) = flags[1]
    <2>1. Head(flags) = flags[1] /\ 1 \in 1..N
      BY <1>1
    <2>2. QED
      BY <2>1, FlagParts
  <1>3. f[0] = <<>> /\ \A i \in 1..N : f[i] = AddFlag(f[i - 1], flags[i])
    BY FlatFacts
  <1>4. /\ g[0] = <<>> /\ \A i \in 0..(N - 1) : g[i] \in Seq(Word)
        /\ \A i \in 1..(N - 1) : g[i] = AddFlag(g[i - 1], rest[i])
    <2> HIDE DEF rest, N
    <2>1. QED
      BY <1>1, FlatFacts
  <1>5. \A i \in 1..N : <<flags[i].name>> \in Seq(Word) /\ flags[i].value \in Seq(Word)
    BY FlagParts
  <1>6. f[1] = W \o g[0]
    <2>1. f[1] = f[0] \o <<flags[1].name>> \o flags[1].value
      <3>1. 1 \in 1..N /\ 1 - 1 = 0
        BY <1>1
      <3>2. QED
        BY <1>3, <3>1 DEF AddFlag
    <2>2. f[0] \o <<flags[1].name>> = <<flags[1].name>>
      <3>1. <<flags[1].name>> \in Seq(Word)
        BY <1>1, <1>5
      <3>2. QED
        BY <1>3, <3>1, ConcatEmptySeq
    <2>3. W \o <<>> = W
      BY <1>2, ConcatEmptySeq
    <2>4. QED
      BY <1>2, <1>4, <2>1, <2>2, <2>3
  <1> HIDE DEF f, g, W, N, rest
  <1>7. T \in SUBSET Nat /\ 0 \in T
    BY <1>6
  <1>8. ASSUME NEW i \in T PROVE i + 1 \in T
    <2> SUFFICES ASSUME i + 2 <= N PROVE f[i + 2] = W \o g[i + 1]
      OBVIOUS
    <2> DEFINE a == <<flags[i + 2].name>>
               b == flags[i + 2].value
               c == g[i]
    <2>1. i + 1 <= N /\ i + 2 \in 1..N /\ i + 1 \in 1..(N - 1) /\ i + 2 - 1 = i + 1 /\ i + 1 - 1 = i
          /\ i \in 0..(N - 1) /\ i + 1 + 1 = i + 2
      BY <1>1
    <2>2. f[i + 1] = W \o g[i]
      BY <2>1
    <2>3. f[i + 2] = f[i + 1] \o a \o b
      <3>1. f[i + 2] = AddFlag(f[i + 1], flags[i + 2])
        BY <1>3, <2>1
      <3>2. QED
        BY <3>1 DEF AddFlag
    <2>4. g[i + 1] = g[i] \o a \o b
      <3>1. g[i + 1] = AddFlag(g[i], rest[i + 1]) /\ rest[i + 1] = flags[i + 2]
        BY <1>1, <1>4, <2>1
      <3>2. QED
        BY <3>1 DEF AddFlag
    <2>5. c \in Seq(Word) /\ a \in Seq(Word) /\ b \in Seq(Word)
      BY <1>4, <1>5, <2>1
    <2> HIDE DEF a, b, c, T
    <2>6. ((W \o c) \o a) \o b = W \o ((c \o a) \o b)
      <3>0. W \in Seq(Word) /\ c \o a \in Seq(Word)
        BY <1>2, <2>5, ConcatProperties
      <3>1. (W \o c) \o a = W \o (c \o a)
        <4>1. Associates(W, c, a)
          BY <3>0, <2>5, ThreeParts, Zenon
        <4>2. QED
          BY <4>1, Zenon DEF Associates
      <3>2. (W \o (c \o a)) \o b = W \o ((c \o a) \o b)
        <4> DEFINE d == c \o a
        <4>1. W \in Seq(Word) /\ d \in Seq(Word) /\ b \in Seq(Word)
          BY <3>0, <2>5
        <4> HIDE DEF d
        <4>2. (W \o d) \o b = W \o (d \o b)
          <5>1. Associates(W, d, b)
            BY <4>1, ThreeParts, Zenon
          <5>2. QED
            BY <5>1, Zenon DEF Associates
        <4>3. QED
          BY <4>2 DEF d
      <3>3. QED
        BY <3>1, <3>2
    <2>7. QED
      BY <2>2, <2>3, <2>4, <2>6 DEF c
  <1>9. T = Nat
    <2> HIDE DEF T
    <2>1. QED
      BY <1>7, <1>8, Induction
  <1>10. N - 1 \in Nat /\ N - 1 + 1 = N /\ N <= N
    BY <1>1
  <1>11. f[N] = W \o g[N - 1]
    <2>1. \A i \in Nat : i + 1 <= N => f[i + 1] = W \o g[i]
      BY <1>9
    <2>2. f[N - 1 + 1] = W \o g[N - 1]
      BY <1>10, <2>1
    <2>3. QED
      BY <1>10, <2>2
  <1>12. Flat(flags) = f[N] /\ Flat(rest) = g[N - 1]
    BY <1>1 DEF Flat, f, g, N
  <1>13. QED
    BY <1>1, <1>11, <1>12 DEF W, rest

------------------------------------------------------------------------------
(* How often a word occurs.                                                *)

\* The positions of a sequence are finitely many.
LEMMA Interval == \A n \in Nat : IsFiniteSet(1..n)
  BY FS_Interval, SMT

\* Occurrences counts a finite set.
LEMMA OccurrencesType ==
  ASSUME NEW s \in Seq(Word), NEW w
  PROVE  IsFiniteSet({i \in DOMAIN s : s[i] = w}) /\ Occurrences(s, w) \in Nat
  <1>1. IsFiniteSet(1..Len(s)) /\ DOMAIN s = 1..Len(s)
    BY Interval, LenProperties
  <1>2. {i \in DOMAIN s : s[i] = w} \in SUBSET (1..Len(s))
    BY <1>1
  <1>3. QED
    BY <1>1, <1>2, FS_Subset, FS_CardinalityType DEF Occurrences

\* The occurrences in a concatenation are those in its parts.
LEMMA OccurrencesConcat ==
  ASSUME NEW s \in Seq(Word), NEW t \in Seq(Word), NEW w
  PROVE  Occurrences(s \o t, w) = Occurrences(s, w) + Occurrences(t, w)
  <1> DEFINE S == {i \in DOMAIN s : s[i] = w}
             T == {i \in DOMAIN t : t[i] = w}
             U == {i \in Len(s) + 1 .. Len(s) + Len(t) : t[i - Len(s)] = w}
             f == [i \in T |-> Len(s) + i]
  <1>1. s \o t \in Seq(Word) /\ Len(s \o t) = Len(s) + Len(t)
    OBVIOUS
  <1>2. {i \in DOMAIN (s \o t) : (s \o t)[i] = w} = S \cup U
    <2>1. ASSUME NEW i \in 1 .. Len(s) + Len(t)
          PROVE  (s \o t)[i] = IF i <= Len(s) THEN s[i] ELSE t[i - Len(s)]
      BY <2>1
    <2>2. QED
      BY <1>1, <2>1
  <1>3. S \cap U = {}
    OBVIOUS
  <1>4. f \in Bijection(T, U)
    <2>1. \A i \in T : f[i] \in U
      OBVIOUS
    <2>2. \A j \in U : j - Len(s) \in T /\ f[j - Len(s)] = j
      OBVIOUS
    <2>3. \A i, j \in T : f[i] = f[j] => i = j
      OBVIOUS
    <2>4. f \in [T -> U]
      BY <2>1
    <2>5. \A j \in U : \E i \in T : f[i] = j
      BY <2>2
    <2>6. QED
      BY <2>3, <2>4, <2>5 DEF Bijection, Injection, Surjection, IsInjective
  <1>5. IsFiniteSet(S) /\ IsFiniteSet(T)
    BY OccurrencesType
  <1>6. IsFiniteSet(U) /\ Cardinality(U) = Cardinality(T)
    BY <1>4, <1>5, FS_Bijection DEF ExistsBijection
  <1>7. Cardinality(S) \in Nat /\ Cardinality(T) \in Nat
    BY <1>5, FS_CardinalityType
  <1>8. Cardinality(S \cup U) = Cardinality(S) + Cardinality(T)
    <2>1. Cardinality(S \cap U) = 0
      BY <1>3, FS_EmptySet
    <2>2. Cardinality(S \cup U) = Cardinality(S) + Cardinality(U) - Cardinality(S \cap U)
      <3> HIDE DEF S, T, U
      <3>1. QED
        BY <1>5, <1>6, FS_Union
    <2>3. QED
      BY <2>1, <2>2, <1>6, <1>7
  <1>9. QED
    BY <1>2, <1>8 DEF Occurrences

\* A word does not occur in the empty argv.
LEMMA OccurrencesEmpty == \A w : Occurrences(<<>>, w) = 0
  <1> SUFFICES ASSUME NEW w PROVE Occurrences(<<>>, w) = 0
    OBVIOUS
  <1>1. {i \in DOMAIN <<>> : <<>>[i] = w} = {}
    OBVIOUS
  <1>2. QED
    BY <1>1, FS_EmptySet DEF Occurrences

\* How often a word occurs in everything a parse holds.
Count(s, w) ==
  Occurrences(s.sub, w) + Occurrences(Flat(s.flags), w) + Occurrences(s.positionals, w)
    + Occurrences(s.rest, w)

\* The parts of a parse, and the words of its flags, are sequences.
LEMMA PartsType ==
  ASSUME NEW s \in Parse
  PROVE  /\ s.rest \in Seq(Word) /\ s.sub \in Seq(Word) /\ s.positionals \in Seq(Word)
         /\ s.flags \in Seq(Flag) /\ Flat(s.flags) \in Seq(Word)
  <1>1. s.rest \in Seq(Word) /\ s.sub \in Seq(Word) /\ s.positionals \in Seq(Word)
        /\ s.flags \in Seq(Flag)
    BY DEF Parse
  <1>2. QED
    BY <1>1, FlatType

\* A word occurs in the three parts of an argv together as often as in each.
LEMMA PartsCount ==
  ASSUME NEW s \in Parse, NEW w
  PROVE  /\ Occurrences(s.sub, w) \in Nat /\ Occurrences(Flat(s.flags), w) \in Nat
         /\ Occurrences(s.positionals, w) \in Nat /\ Occurrences(s.rest, w) \in Nat
  BY PartsType, OccurrencesType

\* A word is in the argv as often as in the parse it is made of, once all is read.
LEMMA ArgvCount ==
  ASSUME NEW s \in Parse, s.rest = <<>>, NEW w
  PROVE  /\ Occurrences(normalisedArgv(s), w) = Count(s, w)
         /\ Occurrences(into_normalised_argv(s), w) = Count(s, w)
  <1> DEFINE a == s.sub
             b == Flat(s.flags)
             c == s.positionals
  <1>1. a \in Seq(Word) /\ b \in Seq(Word) /\ c \in Seq(Word)
    BY PartsType
  <1>2. Occurrences((a \o b) \o c, w) = Occurrences(a, w) + Occurrences(b, w) + Occurrences(c, w)
    <2> HIDE DEF a, b, c
    <2>1. a \o b \in Seq(Word)
      BY <1>1, ConcatProperties
    <2>2. Occurrences((a \o b) \o c, w) = Occurrences(a \o b, w) + Occurrences(c, w)
      <3> DEFINE d == a \o b
      <3>1. d \in Seq(Word)
        BY <2>1
      <3> HIDE DEF d
      <3>2. Occurrences(d \o c, w) = Occurrences(d, w) + Occurrences(c, w)
        BY <1>1, <3>1, OccurrencesConcat
      <3>3. QED
        BY <3>2 DEF d
    <2>3. Occurrences(a \o b, w) = Occurrences(a, w) + Occurrences(b, w)
      BY <1>1, OccurrencesConcat
    <2>4. QED
      BY <2>2, <2>3
  <1>3. Occurrences(s.rest, w) = 0
    BY OccurrencesEmpty
  <1>4. Count(s, w) = Occurrences(a, w) + Occurrences(b, w) + Occurrences(c, w)
    BY <1>3, PartsCount DEF Count
  <1>5. QED
    BY <1>2, <1>4, ArgvOf

\* A parse that has read nothing holds its argv.
LEMMA ParseOfCount ==
  ASSUME NEW args \in Seq(Word), NEW w
  PROVE  Count(ParseOf(args), w) = Occurrences(args, w)
  <1>1. Occurrences(args, w) \in Nat
    BY OccurrencesType
  <1>2. QED
    BY <1>1, OccurrencesEmpty, FlatEmpty DEF Count, ParseOf

------------------------------------------------------------------------------
(* Words read off the front of a sequence are what the rest follows.       *)

\* A sequence is its first n elements and the rest.
LEMMA Front ==
  ASSUME NEW words \in Seq(Word), NEW n \in Nat, n <= Len(words)
  PROVE  /\ words = SubSeq(words, 1, n) \o SubSeq(words, n + 1, Len(words))
         /\ SubSeq(words, 1, n) \in Seq(Word) /\ SubSeq(words, n + 1, Len(words)) \in Seq(Word)
  <1>1. Len(words) \in Nat /\ \A i \in 1..Len(words) : words[i] \in Word
    BY LenProperties, ElementOfSeq
  <1>2. 1 \in 1 .. Len(words) + 1 /\ n \in (1 - 1) .. Len(words) /\ Len(words) \in n .. Len(words)
    BY <1>1
  <1>3. SubSeq(words, 1, n) \o SubSeq(words, n + 1, Len(words)) = SubSeq(words, 1, Len(words))
    BY <1>2, ConcatAdjacentSubSeq
  <1>4. SubSeq(words, 1, Len(words)) = words
    BY SubSeqFull
  <1>5. SubSeq(words, 1, n) \in Seq(Word) /\ SubSeq(words, n + 1, Len(words)) \in Seq(Word)
    <2>1. (\A i \in 1..n : words[i] \in Word) /\ \A i \in (n + 1)..Len(words) : words[i] \in Word
      BY <1>1
    <2>2. QED
      BY <1>1, <2>1, SubSeqProperties
  <1>6. QED
    BY <1>3, <1>4, <1>5

\* The words a flag takes off the front are its name and its value.
LEMMA FrontFlag ==
  ASSUME NEW words \in Seq(Word), words # <<>>, NEW n \in Nat \ {0}, n <= Len(words)
  PROVE  /\ SubSeq(words, 1, n) = <<Head(words)>> \o SubSeq(words, 2, n)
         /\ <<Head(words)>> \in Seq(Word) /\ SubSeq(words, 2, n) \in Seq(Word)
  <1>1. Len(words) \in Nat /\ \A i \in 1..Len(words) : words[i] \in Word
    BY LenProperties, ElementOfSeq
  <1>2. 1 \in 1 .. Len(words) /\ n \in 1 .. Len(words) /\ Head(words) = words[1]
    BY <1>1
  <1>3. SubSeq(words, 1, n) = <<words[1]>> \o SubSeq(words, 1 + 1, n)
    BY <1>2, SubSeqRecursiveFirst
  <1>4. <<Head(words)>> \in Seq(Word)
    BY <1>1, <1>2
  <1>5. SubSeq(words, 2, n) \in Seq(Word)
    <2>1. \A i \in 2..n : words[i] \in Word
      BY <1>1
    <2>2. QED
      BY <2>1, SubSeqProperties
  <1>6. QED
    BY <1>2, <1>3, <1>4, <1>5

\* A sequence is its head and its tail.
LEMMA FrontWord ==
  ASSUME NEW words \in Seq(Word), words # <<>>
  PROVE  /\ words = <<Head(words)>> \o Tail(words)
         /\ <<Head(words)>> \in Seq(Word) /\ Tail(words) \in Seq(Word) /\ Head(words) \in Word
  <1>1. Len(words) \in Nat \ {0} /\ \A i \in 1..Len(words) : words[i] \in Word
    BY LenProperties, ElementOfSeq, EmptySeq
  <1>2. 1 \in 1 .. Len(words) /\ Len(words) \in 1 .. Len(words) /\ Head(words) = words[1]
    BY <1>1
  <1>3. SubSeq(words, 1, Len(words)) = <<words[1]>> \o SubSeq(words, 1 + 1, Len(words))
    BY <1>2, SubSeqRecursiveFirst
  <1>4. SubSeq(words, 1, Len(words)) = words /\ Tail(words) = SubSeq(words, 2, Len(words))
    BY SubSeqFull, TailIsSubSeq
  <1>5. Tail(words) \in Seq(Word) /\ Head(words) \in Word
    BY HeadTailProperties
  <1>6. QED
    BY <1>2, <1>3, <1>4, <1>5

\* No step of a parser changes how often a word is in what it holds.
LEMMA SubcommandCount ==
  ASSUME NEW s \in Parse, s.sub = <<>>, NEW n \in Nat, n <= Len(s.rest), NEW w
  PROVE  Count([s EXCEPT !.sub = SubSeq(s.rest, 1, n),
                         !.rest = SubSeq(s.rest, n + 1, Len(s.rest))], w) = Count(s, w)
  <1> DEFINE a == SubSeq(s.rest, 1, n)
             b == SubSeq(s.rest, n + 1, Len(s.rest))
             r == [s EXCEPT !.sub = a, !.rest = b]
  <1>1. s.rest = a \o b /\ a \in Seq(Word) /\ b \in Seq(Word)
    BY PartsType, Front
  <1>2. r.sub = a /\ r.rest = b /\ r.flags = s.flags /\ r.positionals = s.positionals
    BY DEF Parse
  <1> HIDE DEF a, b, r
  <1>3. Occurrences(s.rest, w) = Occurrences(a, w) + Occurrences(b, w)
    BY <1>1, OccurrencesConcat
  <1>4. Occurrences(s.sub, w) = 0
    BY OccurrencesEmpty
  <1>5. Occurrences(a, w) \in Nat /\ Occurrences(b, w) \in Nat
    BY <1>1, OccurrencesType
  <1>6. Count(r, w) = Count(s, w)
    <2>1. /\ Occurrences(s.sub, w) \in Nat /\ Occurrences(Flat(s.flags), w) \in Nat
          /\ Occurrences(s.positionals, w) \in Nat /\ Occurrences(s.rest, w) \in Nat
      BY PartsCount
    <2>2. Count(r, w) = Occurrences(r.sub, w) + Occurrences(Flat(r.flags), w)
                          + Occurrences(r.positionals, w) + Occurrences(r.rest, w)
      BY DEF Count
    <2>3. Count(s, w) = Occurrences(s.sub, w) + Occurrences(Flat(s.flags), w)
                          + Occurrences(s.positionals, w) + Occurrences(s.rest, w)
      BY DEF Count
    <2>4. QED
      BY <1>2, <1>3, <1>4, <1>5, <2>1, <2>2, <2>3
  <1>7. QED
    BY <1>6 DEF r, a, b

\* The parse with a flag read off the front, the flag's value the words up to n.
Read(s, n) ==
  [s EXCEPT !.rest = SubSeq(s.rest, n + 1, Len(s.rest)),
            !.flags = Append(@, [name |-> Head(s.rest), value |-> SubSeq(s.rest, 2, n)])]

\* What a parse is after reading a flag of n words.
LEMMA ReadParts ==
  ASSUME NEW s \in Parse, s.rest # <<>>, NEW n \in {1, 2}, n <= Len(s.rest)
  PROVE  LET f == [name |-> Head(s.rest), value |-> SubSeq(s.rest, 2, n)] IN
         /\ Read(s, n) \in Parse /\ f \in Flag
         /\ s.rest = (<<f.name>> \o f.value) \o Read(s, n).rest
         /\ Read(s, n).flags = Append(s.flags, f)
         /\ Flat(Read(s, n).flags) = Flat(s.flags) \o (<<f.name>> \o f.value)
         /\ Read(s, n).sub = s.sub /\ Read(s, n).positionals = s.positionals
  <1> DEFINE f == [name |-> Head(s.rest), value |-> SubSeq(s.rest, 2, n)]
  <1>1. s.rest \in Seq(Word) /\ s.flags \in Seq(Flag)
    BY PartsType
  <1>2. n \in Nat \ {0}
    OBVIOUS
  <1>3. /\ SubSeq(s.rest, 1, n) = <<Head(s.rest)>> \o SubSeq(s.rest, 2, n)
        /\ SubSeq(s.rest, 2, n) \in Seq(Word)
    BY <1>1, <1>2, FrontFlag
  <1>4. s.rest = SubSeq(s.rest, 1, n) \o SubSeq(s.rest, n + 1, Len(s.rest))
    BY <1>1, <1>2, Front
  <1>5. Head(s.rest) \in Word
    BY <1>1, HeadTailProperties
  <1>6. f \in Flag
    BY <1>3, <1>5 DEF Flag
  <1>7. Read(s, n) \in Parse
    BY FlagRead DEF Read
  <1>8. /\ Read(s, n).rest = SubSeq(s.rest, n + 1, Len(s.rest))
        /\ Read(s, n).flags = Append(s.flags, f)
        /\ Read(s, n).sub = s.sub /\ Read(s, n).positionals = s.positionals
    BY DEF Read, Parse
  <1>9. f.name = Head(s.rest) /\ f.value = SubSeq(s.rest, 2, n)
    OBVIOUS
  <1> HIDE DEF f
  <1>10. Flat(Append(s.flags, f)) = Flat(s.flags) \o (<<f.name>> \o f.value)
    BY <1>1, <1>6, FlatAppend
  <1>11. s.rest = (<<f.name>> \o f.value) \o Read(s, n).rest
    BY <1>3, <1>4, <1>8, <1>9
  <1>12. QED
    BY <1>6, <1>7, <1>8, <1>10, <1>11 DEF f

\* Reading a flag changes no count.
LEMMA FlagCount ==
  ASSUME NEW s \in Parse, s.rest # <<>>, NEW n \in {1, 2}, n <= Len(s.rest), NEW w
  PROVE  Count(Read(s, n), w) = Count(s, w)
  <1> DEFINE f == [name |-> Head(s.rest), value |-> SubSeq(s.rest, 2, n)]
             r == Read(s, n)
             g == <<f.name>> \o f.value
  <1>1. /\ r \in Parse /\ f \in Flag /\ s.rest = g \o r.rest
        /\ Flat(r.flags) = Flat(s.flags) \o g
        /\ r.sub = s.sub /\ r.positionals = s.positionals
    BY ReadParts
  <1>2. g \in Seq(Word)
    <2> HIDE DEF f
    <2>1. <<f.name>> \in Seq(Word) /\ f.value \in Seq(Word)
      BY <1>1 DEF Flag
    <2>2. QED
      BY <2>1, ConcatProperties
  <1>3. r.rest \in Seq(Word) /\ Flat(s.flags) \in Seq(Word)
    BY <1>1, PartsType
  <1> HIDE DEF f, r, g
  <1>4. Occurrences(s.rest, w) = Occurrences(g, w) + Occurrences(r.rest, w)
    BY <1>1, <1>2, <1>3, OccurrencesConcat
  <1>5. Occurrences(Flat(r.flags), w) = Occurrences(Flat(s.flags), w) + Occurrences(g, w)
    BY <1>1, <1>2, <1>3, OccurrencesConcat
  <1>6. Occurrences(g, w) \in Nat /\ Occurrences(r.rest, w) \in Nat
    BY <1>2, <1>3, OccurrencesType
  <1>7. Count(r, w) = Count(s, w)
    <2>1. /\ Occurrences(s.sub, w) \in Nat /\ Occurrences(Flat(s.flags), w) \in Nat
          /\ Occurrences(s.positionals, w) \in Nat /\ Occurrences(s.rest, w) \in Nat
      BY PartsCount
    <2>2. Count(r, w) = Occurrences(r.sub, w) + Occurrences(Flat(r.flags), w)
                          + Occurrences(r.positionals, w) + Occurrences(r.rest, w)
      BY DEF Count
    <2>3. Count(s, w) = Occurrences(s.sub, w) + Occurrences(Flat(s.flags), w)
                          + Occurrences(s.positionals, w) + Occurrences(s.rest, w)
      BY DEF Count
    <2>4. QED
      <3>1. r.sub = s.sub /\ r.positionals = s.positionals
        BY <1>1
      <3>2. QED
        BY <3>1, <1>4, <1>5, <1>6, <2>1, <2>2, <2>3
  <1>8. QED
    BY <1>7 DEF r

\* Reading a positional changes no count.
LEMMA PositionalCount ==
  ASSUME NEW s \in Parse, s.rest # <<>>, NEW w
  PROVE  /\ Count(parsePositional(s), w) = Count(s, w)
         /\ Count(parse_positional(s), w) = Count(s, w)
  <1> DEFINE a == <<Head(s.rest)>>
             b == Tail(s.rest)
             r == parsePositional(s)
  <1>1. /\ s.rest = a \o b /\ a \in Seq(Word) /\ b \in Seq(Word) /\ Head(s.rest) \in Word
        /\ s.positionals \in Seq(Word)
    BY PartsType, FrontWord
  <1>2. /\ r.rest = b /\ r.positionals = Append(s.positionals, Head(s.rest))
        /\ r.sub = s.sub /\ r.flags = s.flags
    BY DEF Parse, parsePositional
  <1>3. r.positionals = s.positionals \o a
    BY <1>1, <1>2, AppendIsConcat
  <1>4. parse_positional(s) = r
    BY DEF parse_positional, parsePositional
  <1> HIDE DEF a, b, r
  <1>5. Occurrences(s.rest, w) = Occurrences(a, w) + Occurrences(b, w)
    BY <1>1, OccurrencesConcat
  <1>6. Occurrences(r.positionals, w) = Occurrences(s.positionals, w) + Occurrences(a, w)
    BY <1>1, <1>3, OccurrencesConcat
  <1>7. Occurrences(a, w) \in Nat /\ Occurrences(b, w) \in Nat
    BY <1>1, OccurrencesType
  <1>8. Count(r, w) = Count(s, w)
    <2>1. /\ Occurrences(s.sub, w) \in Nat /\ Occurrences(Flat(s.flags), w) \in Nat
          /\ Occurrences(s.positionals, w) \in Nat /\ Occurrences(s.rest, w) \in Nat
      BY PartsCount
    <2>2. Count(r, w) = Occurrences(r.sub, w) + Occurrences(Flat(r.flags), w)
                          + Occurrences(r.positionals, w) + Occurrences(r.rest, w)
      BY DEF Count
    <2>3. Count(s, w) = Occurrences(s.sub, w) + Occurrences(Flat(s.flags), w)
                          + Occurrences(s.positionals, w) + Occurrences(s.rest, w)
      BY DEF Count
    <2>4. QED
      BY <1>2, <1>5, <1>6, <1>7, <2>1, <2>2, <2>3
  <1>9. QED
    BY <1>4, <1>8 DEF r

\* parseFlag reads one word, or two when the flag takes a value.
LEMMA ServerFlagIsRead ==
  ASSUME NEW p \in BinaryPolicy, \A f, g \in p.flags : f.name = g.name => f = g,
         NEW s \in Parse, s.rest # <<>>, flagVerdict(p, s.rest) = "ok"
  PROVE  \E n \in {1, 2} : /\ n <= Len(s.rest) /\ parseFlag(p, s) = Read(s, n)
                           /\ n = IF takesValue(p, Head(s.rest)) THEN 2 ELSE 1
  <1> DEFINE n == IF takesValue(p, Head(s.rest)) THEN 2 ELSE 1
  <1>1. Len(s.rest) \in Nat /\ Len(s.rest) >= 1
    BY EmptySeq, LenProperties DEF Parse
  <1>2. takesValue(p, Head(s.rest)) => Len(s.rest) >= 2
    BY <1>1 DEF takesValue, flagVerdict, findFlag
  <1>3. n \in {1, 2} /\ n <= Len(s.rest)
    BY <1>1, <1>2
  <1>4. parseFlag(p, s) = Read(s, n)
    BY DEF parseFlag, Read
  <1>5. QED
    <2> HIDE DEF n
    <2>1. QED
      BY <1>3, <1>4 DEF n

\* parse_flag does too.
LEMMA AgentFlagIsRead ==
  ASSUME NEW p \in BinaryPolicy, \A f, g \in p.flags : f.name = g.name => f = g,
         NEW s \in Parse, s.rest # <<>>, parse_flag_verdict(p, s.rest) = "ok"
  PROVE  \E n \in {1, 2} :
           /\ n <= Len(s.rest) /\ parse_flag(p, s) = Read(s, n)
           /\ n = IF \E f \in p.flags : f.name = Head(s.rest) /\ needs_value(f.value) THEN 2 ELSE 1
  <1> DEFINE valued == \E f \in p.flags : f.name = Head(s.rest) /\ needs_value(f.value)
             n == IF valued THEN 2 ELSE 1
  <1>1. Len(s.rest) \in Nat /\ Len(s.rest) >= 1
    BY EmptySeq, LenProperties DEF Parse
  <1>2. valued => Len(s.rest) >= 2
    BY <1>1 DEF parse_flag_verdict
  <1>3. n \in {1, 2} /\ n <= Len(s.rest)
    BY <1>1, <1>2
  <1>4. parse_flag(p, s) = Read(s, n)
    BY DEF parse_flag, Read
  <1>5. QED
    <2> HIDE DEF n, valued
    <2>1. QED
      BY <1>3, <1>4 DEF n, valued

------------------------------------------------------------------------------
(* The words asked for, at each point.                                     *)

\* Two argvs with the same words, and a parse that holds the words of an argv.
SameWords(q, r) == \A w \in Word : Occurrences(q, w) = Occurrences(r, w)
Holds(s, q) == \A w \in Word : Count(s, w) = Occurrences(q, w)

\* Where the words asked for are, at each place: in the parse under way, or in the
\* argv sent and what is parsed of it.
AsAskedInv ==
  /\ at \in {"received", "server subcommand"} => parse = ParseOf(request.args)
  /\ at = "server words" => Holds(parse, request.args)
  /\ at \in {"dispatched", "agent subcommand", "agent words", "resolving", "spawned"} =>
       SameWords(sent, request.args)
  /\ at = "agent subcommand" => parse = ParseOf(sent)
  /\ at \in {"agent words", "resolving", "spawned"} => Holds(parse, sent)
  /\ at \in {"resolving", "spawned"} => parse.rest = <<>>

\* A request that has just arrived holds its words.
LEMMA InitAsAsked == Init => AsAskedInv
  BY DEF Init, AsAskedInv

\* The places past the server's parser and before the answer.
LEMMA RefusedAsAsked ==
  ASSUME at' \in {"refused by server", "refused by agent", "answered"}
  PROVE  AsAskedInv'
  BY DEF AsAskedInv

\* A step of the server's parser that keeps the words keeps the invariant.
LEMMA ServerWordsAsAsked ==
  ASSUME NEW s, Holds(s, request.args), Parsed("server words", s)
  PROVE  AsAskedInv'
  <1>1. at' = "server words" /\ parse' = s /\ request' = request
    BY DEF Parsed, built
  <1>2. Holds(parse', request'.args)
    BY <1>1
  <1>3. QED
    BY <1>1, <1>2 DEF AsAskedInv

\* A step of the agent's parser that keeps the words keeps the invariant.
LEMMA AgentWordsAsAsked ==
  ASSUME AsAskedInv, at \in {"agent subcommand", "agent words"},
         NEW s, Holds(s, sent), Parsed("agent words", s)
  PROVE  AsAskedInv'
  <1>1. at' = "agent words" /\ parse' = s /\ request' = request /\ sent' = sent
    BY DEF Parsed, built
  <1>2. Holds(parse', sent') /\ SameWords(sent', request'.args)
    BY <1>1 DEF AsAskedInv
  <1>3. QED
    BY <1>1, <1>2 DEF AsAskedInv

\* What a parse starts from.
LEMMA ParsersStart ==
  ASSUME NEW args \in Seq(Word), NEW s, s = ParseOf(args)
  PROVE  /\ Holds(s, args) /\ s.sub = <<>> /\ s.rest = args
         /\ s.flags = <<>> /\ s.positionals = <<>>
  <1>1. Holds(s, args)
    BY ParseOfCount DEF Holds
  <1>2. s.sub = <<>> /\ s.rest = args /\ s.flags = <<>> /\ s.positionals = <<>>
    BY DEF ParseOf
  <1>3. QED
    BY <1>1, <1>2

\* No step loses, repeats or invents a word.
LEMMA NextAsAsked ==
  ASSUME TypeOK, AgentInv, AsAskedInv, [Next]_vars
  PROVE  AsAskedInv'
  <1>a. /\ request \in Request /\ Policies /\ parse \in Parse /\ parse.rest \in Seq(Word)
        /\ request.args \in Seq(Word) /\ sent \in Seq(Word)
    BY DEF TypeOK, Policies, Parse, Request
  <1>b. at \in {"server subcommand", "server words"} =>
          /\ serverPolicy \in BinaryPolicy
          /\ \A f, g \in serverPolicy.flags : f.name = g.name => f = g
    BY <1>a, ServerPolicyType DEF AgentInv
  <1>c. at \in {"agent subcommand", "agent words"} =>
          /\ agentPolicy \in BinaryPolicy
          /\ \A f, g \in agentPolicy.flags : f.name = g.name => f = g
    BY <1>a, AgentPolicyType DEF AgentInv
  <1>d. (\A v : ServerRefuses(v) => AsAskedInv') /\ (\A v : AgentRefuses(v) => AsAskedInv')
    BY RefusedAsAsked DEF ServerRefuses, AgentRefuses
  <1>1. CASE Validate
    <2>1. at = "received" /\ parse = ParseOf(request.args)
      BY <1>1 DEF Validate, AsAskedInv
    <2>2. Holds(parse, request.args)
      BY <1>a, <2>1, ParsersStart
    <2>3. ASSUME Parsed("server subcommand", parse) PROVE AsAskedInv'
      BY <2>1, <2>3 DEF Parsed, built, AsAskedInv
    <2>4. Parsed("server words", parse) => AsAskedInv'
      BY <2>2, ServerWordsAsAsked
    <2>5. QED
      BY <1>1, <1>d, <2>3, <2>4 DEF Validate
  <1>2. CASE ServerSubcommand
    <2>1. at = "server subcommand" /\ parse = ParseOf(request.args)
      BY <1>2 DEF ServerSubcommand, AsAskedInv
    <2>2. ASSUME NEW n \in consumeSubcommand(serverPolicy, parse.rest),
                 Parsed("server words",
                   [parse EXCEPT !.sub = SubSeq(parse.rest, 1, n),
                                 !.rest = SubSeq(parse.rest, n + 1, Len(parse.rest))])
          PROVE  AsAskedInv'
      <3> DEFINE s == [parse EXCEPT !.sub = SubSeq(parse.rest, 1, n),
                                    !.rest = SubSeq(parse.rest, n + 1, Len(parse.rest))]
      <3>1. n \in Nat /\ n <= Len(parse.rest)
        BY <1>a, <1>b, <2>1, ServerConsumes
      <3>2. parse.sub = <<>> /\ Holds(parse, request.args)
        BY <1>a, <2>1, ParsersStart
      <3>3. \A w \in Word : Count(s, w) = Count(parse, w)
        BY <1>a, <3>1, <3>2, SubcommandCount
      <3>4. Holds(s, request.args)
        <4> HIDE DEF s
        <4>1. QED
          BY <3>2, <3>3 DEF Holds
      <3>5. Parsed("server words", s)
        BY <2>2
      <3>6. QED
        <4> HIDE DEF s
        <4>1. QED
          BY <3>4, <3>5, ServerWordsAsAsked
    <2>3. QED
      BY <1>2, <1>d, <2>2 DEF ServerSubcommand
  <1>3. CASE ServerFlag
    <2> DEFINE s == parseFlag(serverPolicy, parse)
    <2>1. at = "server words" /\ parse.rest # <<>> /\ Holds(parse, request.args)
      BY <1>3 DEF ServerFlag, AsAskedInv
    <2>2. ASSUME flagVerdict(serverPolicy, parse.rest) = "ok", Parsed("server words", s)
          PROVE  AsAskedInv'
      <3>1. PICK n \in {1, 2} : n <= Len(parse.rest) /\ s = Read(parse, n)
        BY <1>a, <1>b, <2>1, <2>2, ServerFlagIsRead
      <3>2. \A w \in Word : Count(Read(parse, n), w) = Count(parse, w)
        BY <1>a, <2>1, <3>1, FlagCount
      <3> HIDE DEF s
      <3>3. Holds(s, request.args)
        BY <2>1, <3>1, <3>2 DEF Holds
      <3>4. QED
        BY <2>2, <3>3, ServerWordsAsAsked
    <2>3. QED
      BY <1>3, <1>d, <2>2 DEF ServerFlag
  <1>4. CASE ServerPositional
    <2> DEFINE s == parsePositional(parse)
    <2>1. at = "server words" /\ parse.rest # <<>> /\ Holds(parse, request.args)
      BY <1>4 DEF ServerPositional, AsAskedInv
    <2>2. ASSUME Parsed("server words", s) PROVE AsAskedInv'
      <3>1. \A w \in Word : Count(s, w) = Count(parse, w)
        BY <1>a, <2>1, PositionalCount
      <3> HIDE DEF s
      <3>2. Holds(s, request.args)
        BY <2>1, <3>1 DEF Holds
      <3>3. QED
        BY <2>2, <3>2, ServerWordsAsAsked
    <2>3. QED
      BY <1>4, <1>d, <2>2 DEF ServerPositional
  <1>5. CASE Forward
    <2>1. at = "server words" /\ parse.rest = <<>> /\ Holds(parse, request.args)
      BY <1>5 DEF Forward, AsAskedInv
    <2>2. ASSUME at' = "dispatched", sent' = normalisedArgv(parse), UNCHANGED built
          PROVE  AsAskedInv'
      <3>1. \A w \in Word : Occurrences(normalisedArgv(parse), w) = Count(parse, w)
        BY <1>a, <2>1, ArgvCount
      <3>2. SameWords(normalisedArgv(parse), request.args)
        BY <2>1, <3>1 DEF Holds, SameWords
      <3>3. SameWords(sent', request'.args)
        BY <2>2, <3>2 DEF built
      <3>4. QED
        BY <2>2, <3>3 DEF AsAskedInv
    <2>3. QED
      BY <1>5, <1>d, <2>2 DEF Forward
  <1>6. CASE AgentValidate
    <2>1. at = "dispatched" /\ SameWords(sent, request.args)
      BY <1>6 DEF AgentValidate, AsAskedInv
    <2>2. ASSUME at' \in {"agent subcommand", "agent words"}, parse' = ParseOf(sent),
                 UNCHANGED <<built, sent>>
          PROVE  AsAskedInv'
      <3>1. SameWords(sent', request'.args)
        BY <2>1, <2>2 DEF built
      <3>2. Holds(parse', sent')
        BY <1>a, <2>2, ParsersStart
      <3>3. QED
        BY <2>2, <3>1, <3>2 DEF AsAskedInv
    <2>3. QED
      BY <1>6, <1>d, <2>2 DEF AgentValidate
  <1>7. CASE AgentSubcommand
    <2>1. at = "agent subcommand" /\ parse = ParseOf(sent)
      BY <1>7 DEF AgentSubcommand, AsAskedInv
    <2>2. ASSUME NEW n \in consume_subcommand(agentPolicy, parse.rest),
                 Parsed("agent words",
                   [parse EXCEPT !.sub = SubSeq(parse.rest, 1, n),
                                 !.rest = SubSeq(parse.rest, n + 1, Len(parse.rest))])
          PROVE  AsAskedInv'
      <3> DEFINE s == [parse EXCEPT !.sub = SubSeq(parse.rest, 1, n),
                                    !.rest = SubSeq(parse.rest, n + 1, Len(parse.rest))]
      <3>1. n \in Nat /\ n <= Len(parse.rest)
        BY <1>a, <1>c, <2>1, AgentConsumes
      <3>2. parse.sub = <<>> /\ Holds(parse, sent)
        BY <1>a, <2>1, ParsersStart
      <3>3. \A w \in Word : Count(s, w) = Count(parse, w)
        BY <1>a, <3>1, <3>2, SubcommandCount
      <3>4. Holds(s, sent)
        <4> HIDE DEF s
        <4>1. QED
          BY <3>2, <3>3 DEF Holds
      <3>5. Parsed("agent words", s)
        BY <2>2
      <3>6. QED
        <4> HIDE DEF s
        <4>1. QED
          BY <2>1, <3>4, <3>5, AgentWordsAsAsked
    <2>3. QED
      BY <1>7, <1>d, <2>2 DEF AgentSubcommand
  <1>8. CASE AgentFlag
    <2> DEFINE s == parse_flag(agentPolicy, parse)
    <2>1. at = "agent words" /\ parse.rest # <<>> /\ Holds(parse, sent)
      BY <1>8 DEF AgentFlag, AsAskedInv
    <2>2. ASSUME parse_flag_verdict(agentPolicy, parse.rest) = "ok", Parsed("agent words", s)
          PROVE  AsAskedInv'
      <3>1. PICK n \in {1, 2} : n <= Len(parse.rest) /\ s = Read(parse, n)
        BY <1>a, <1>c, <2>1, <2>2, AgentFlagIsRead
      <3>2. \A w \in Word : Count(Read(parse, n), w) = Count(parse, w)
        BY <1>a, <2>1, <3>1, FlagCount
      <3> HIDE DEF s
      <3>3. Holds(s, sent)
        BY <2>1, <3>1, <3>2 DEF Holds
      <3>4. QED
        BY <2>1, <2>2, <3>3, AgentWordsAsAsked
    <2>3. QED
      BY <1>8, <1>d, <2>2 DEF AgentFlag
  <1>9. CASE AgentPositional
    <2> DEFINE s == parse_positional(parse)
    <2>1. at = "agent words" /\ parse.rest # <<>> /\ Holds(parse, sent)
      BY <1>9 DEF AgentPositional, AsAskedInv
    <2>2. ASSUME Parsed("agent words", s) PROVE AsAskedInv'
      <3>1. \A w \in Word : Count(s, w) = Count(parse, w)
        BY <1>a, <2>1, PositionalCount
      <3> HIDE DEF s
      <3>2. Holds(s, sent)
        BY <2>1, <3>1 DEF Holds
      <3>3. QED
        BY <2>1, <2>2, <3>2, AgentWordsAsAsked
    <2>3. QED
      BY <1>9, <1>d, <2>2 DEF AgentPositional
  <1>10. CASE AgentParsed
    <2>1. at = "agent words" /\ parse.rest = <<>>
      BY <1>10 DEF AgentParsed
    <2>2. Parsed("resolving", parse) => AsAskedInv'
      BY <2>1 DEF Parsed, built, AsAskedInv
    <2>3. QED
      BY <1>10, <1>d, <2>2 DEF AgentParsed
  <1>11. CASE Resolve
    <2>1. at = "resolving"
      BY <1>11 DEF Resolve
    <2>2. at' = "spawned" /\ UNCHANGED <<built, parse, sent>> => AsAskedInv'
      BY <2>1 DEF built, AsAskedInv
    <2>3. QED
      BY <1>11, <1>d, <2>2 DEF Resolve
  <1>12. CASE EnrichAgentError
    BY <1>12, RefusedAsAsked DEF EnrichAgentError
  <1>13. CASE UNCHANGED vars
    BY <1>13 DEF vars, AsAskedInv
  <1>14. QED
    BY <1>1, <1>2, <1>3, <1>4, <1>5, <1>6, <1>7, <1>8, <1>9, <1>10, <1>11, <1>12, <1>13 DEF Next

\* Whatever the tables, the words spawned are the words asked for.
THEOREM SpawnedAsAskedCorrect == Spec => []SpawnedAsAsked
  <1>1. TypeOK /\ AsAskedInv => SpawnedAsAsked
    <2> SUFFICES ASSUME TypeOK, AsAskedInv, at = "spawned", NEW w \in Word
                 PROVE  Occurrences(into_normalised_argv(parse), w) = Occurrences(request.args, w)
      BY DEF SpawnedAsAsked
    <2>1. parse \in Parse /\ parse.rest = <<>> /\ Holds(parse, sent) /\ SameWords(sent, request.args)
      BY DEF TypeOK, AsAskedInv
    <2>2. Occurrences(into_normalised_argv(parse), w) = Count(parse, w)
      BY <2>1, ArgvCount
    <2>3. QED
      BY <2>1, <2>2 DEF Holds, SameWords
  <1>2. TypeOK /\ AgentInv /\ (TypeOK /\ AgentInv)' /\ AsAskedInv /\ [Next]_vars => AsAskedInv'
    BY NextAsAsked
  <1>3. QED
    BY <1>1, <1>2, InitAsAsked, PipelineInductive, PTL DEF Spec

------------------------------------------------------------------------------
(* The two engines over one table.                                         *)

\* What the server's parser makes of a word, where it goes on.
FlagReads(p, f) ==
  /\ StartsWithDash(f.name) /\ f.name \notin p.forbidden
  /\ \/ /\ f.value = <<>>
        /\ \E g \in p.flags : g.name = f.name /\ g.value.kind = "none"
     \/ /\ f.value = <<>> /\ \A g \in p.flags : g.name # f.name
        /\ isCombinedShortEligible(f.name) /\ combinedShortAdmits(p, f.name)
     \/ /\ Len(f.value) = 1
        /\ \E g \in p.flags :
             g.name = f.name /\ g.value.kind # "none" /\ validateByKind(g.value, f.value[1])

\* What the server admits as a positional.
PositionalReads(p, w) ==
  ~StartsWithDash(w) /\ p.positional # NoPositional /\ validatePositional(p.positional, w)

\* What the server admits as a subcommand: the words of an entry of its table.
SubcommandReads(p, sub) ==
  IF p.required
  THEN /\ sub # <<>>
       /\ \E e \in p.subcommands :
            Len(e) = Len(sub) /\ \A k \in 1..Len(e) : tokenMatches(e[k], sub[k])
  ELSE sub = <<>>

\* What the server has read is within the grammar it checks.
ServerReads(p, s) ==
  /\ \A i \in DOMAIN s.flags : FlagReads(p, s.flags[i])
  /\ \A i \in DOMAIN s.positionals : PositionalReads(p, s.positionals[i])
  /\ p.positional # NoPositional => Len(s.positionals) <= p.positional.max
  /\ SubcommandReads(p, s.sub)

\* Both engines check a value of a kind but none alike.
LEMMA ValuesAgree ==
  ASSUME NEW v \in ValueKind, v.kind # "none", NEW w \in Word, validateByKind(v, w)
  PROVE  validate_value(v, w)
  <1>1. Shape[w] \in ShapeType
    BY WordAssumption DEF WordAssumption
  <1>2. Shape[w].tail \in {"none", "unit", "other"}
    BY <1>1 DEF ShapeType
  <1>3. v.kind \in {"string", "glob", "uint", "duration", "fs_path", "enum"}
    BY DEF ValueKind, SimpleKind
  <1>4. CASE v.kind = "string"
    BY <1>4 DEF validateByKind, validate_value, validateString, validate_string
  <1>5. CASE v.kind = "glob"
    BY <1>5 DEF validateByKind, validate_value, validateString, validate_string, validate_glob
  <1>6. CASE v.kind = "uint"
    BY <1>6 DEF validateByKind, validate_value, validate_uint
  <1>7. CASE v.kind = "duration"
    BY <1>2, <1>7 DEF validateByKind, validate_value, validateDuration, validate_duration
  <1>8. CASE v.kind = "enum"
    BY <1>8 DEF validateByKind, validate_value
  <1>9. CASE v.kind = "fs_path"
    BY <1>9 DEF validateByKind, validate_value, validateFsPath, validate_fs_path
  <1>10. QED
    BY <1>3, <1>4, <1>5, <1>6, <1>7, <1>8, <1>9

\* Both engines check a positional alike.
LEMMA PositionalsAgree ==
  ASSUME NEW p, WellFormed(p), NEW w \in Word, PositionalReads(p, w)
  PROVE  validate_positional(p.positional, w) = "ok"
  <1> DEFINE pos == p.positional
             v == IF pos.restrict # {} /\ pos.kind.kind = "fs_path"
                  THEN [pos.kind EXCEPT !.prefixes = pos.restrict] ELSE pos.kind
  <1>1. /\ pos \in PositionalSpec /\ pos.kind.kind # "none" /\ pos.kind.prefixes = {}
        /\ validateByKind(v, w)
    BY DEF PositionalReads, WellFormed, BinaryPolicy, validatePositional
  <1>2. pos.kind \in ValueKind /\ pos.restrict \in SUBSET Prefix
    BY <1>1 DEF PositionalSpec
  <1>3. v \in ValueKind /\ v.kind = pos.kind.kind /\ v.values = pos.kind.values
        /\ v.prefixes = IF pos.kind.kind = "fs_path" THEN pos.restrict ELSE {}
    BY <1>1, <1>2 DEF ValueKind
  <1> HIDE DEF v
  <1>4. validate_value(v, w)
    BY <1>1, <1>3, ValuesAgree
  <1> HIDE DEF pos
  <1>5. CASE pos.kind.kind = "enum"
    BY <1>3, <1>4, <1>5 DEF validate_positional, validate_value, pos
  <1>6. CASE pos.kind.kind = "fs_path"
    BY <1>1, <1>3, <1>4, <1>6 DEF validate_positional, validate_value, pos
  <1>7. CASE pos.kind.kind \notin {"none", "enum", "fs_path"}
    <2>1. v = pos.kind
      BY <1>7 DEF v
    <2>2. validate_value(pos.kind, w)
      BY <1>4, <2>1
    <2>3. QED
      BY <1>7, <2>2 DEF validate_positional, pos
  <1>8. QED
    BY <1>1, <1>5, <1>6, <1>7

\* The overrides change only the paths, so not what the agent's parser does.
LEMMA OverridesKeepGrammar ==
  ASSUME NEW p \in BinaryPolicy, NEW o, NEW b
  PROVE  LET q == apply(o, b, p) IN
         /\ q.flags = p.flags /\ q.forbidden = p.forbidden /\ q.positional = p.positional
         /\ q.subcommands = p.subcommands /\ q.required = p.required
  BY DEF apply, BinaryPolicy

\* The overrides change no verdict of the agent's parser.
LEMMA OverridesKeepParser ==
  ASSUME NEW p \in BinaryPolicy, NEW o, NEW b
  PROVE  LET q == apply(o, b, p) IN
         /\ \A rest : parse_flag_verdict(q, rest) = parse_flag_verdict(p, rest)
         /\ \A rest : consume_subcommand(q, rest) = consume_subcommand(p, rest)
         /\ \A s : parse_flag(q, s) = parse_flag(p, s)
         /\ \A s : parse_positional_verdict(q, s) = parse_positional_verdict(p, s)
         /\ \A s : parse_count_verdict(q, s) = parse_count_verdict(p, s)
  <1> DEFINE q == apply(o, b, p)
  <1>1. /\ q.flags = p.flags /\ q.forbidden = p.forbidden /\ q.positional = p.positional
        /\ q.subcommands = p.subcommands
    BY OverridesKeepGrammar
  <1> HIDE DEF q
  <1>2. \A rest : parse_flag_verdict(q, rest) = parse_flag_verdict(p, rest)
    BY <1>1 DEF parse_flag_verdict, combined_short_admits
  <1>3. \A rest : consume_subcommand(q, rest) = consume_subcommand(p, rest)
    BY <1>1 DEF consume_subcommand
  <1>4. \A s : parse_flag(q, s) = parse_flag(p, s)
    BY <1>1 DEF parse_flag
  <1>5. \A s : parse_positional_verdict(q, s) = parse_positional_verdict(p, s)
    BY <1>1 DEF parse_positional_verdict
  <1>6. \A s : parse_count_verdict(q, s) = parse_count_verdict(p, s)
    BY <1>1 DEF parse_count_verdict
  <1>7. QED
    BY <1>2, <1>3, <1>4, <1>5, <1>6 DEF q

\* A flag the server let through, at the front of what the agent reads: the agent
\* lets it through, with the same value.
LEMMA FlagsAgree ==
  ASSUME NEW p \in BinaryPolicy, \A f, g \in p.flags : f.name = g.name => f = g,
         NEW f \in Flag, FlagReads(p, f),
         NEW rest, Head(rest) = f.name,
         Len(f.value) = 1 => Len(rest) >= 2 /\ rest[2] = f.value[1], Len(rest) \in Nat
  PROVE  /\ parse_flag_verdict(p, rest) = "ok"
         /\ (\E g \in p.flags : g.name = f.name /\ needs_value(g.value)) <=> Len(f.value) = 1
         /\ Len(f.value) # 1 => f.value = <<>>
  <1>1. f.name \notin p.forbidden /\ f.name \in Word /\ f.value \in Seq(Word)
    BY DEF FlagReads, Flag
  <1>2. CASE f.value = <<>> /\ \E g \in p.flags : g.name = f.name /\ g.value.kind = "none"
    <2>1. Len(f.value) # 1
      BY <1>2
    <2>2. QED
      BY <1>1, <1>2, <2>1 DEF parse_flag_verdict, needs_value
  <1>3. CASE /\ f.value = <<>> /\ \A g \in p.flags : g.name # f.name
             /\ isCombinedShortEligible(f.name) /\ combinedShortAdmits(p, f.name)
    <2>1. is_combined_short_eligible(f.name) /\ combined_short_admits(p, f.name)
      BY <1>3 DEF isCombinedShortEligible, is_combined_short_eligible, combinedShortAdmits,
                  combined_short_admits, findFlag, needs_value
    <2>2. Len(f.value) # 1
      BY <1>3
    <2>3. QED
      BY <1>1, <1>3, <2>1, <2>2 DEF parse_flag_verdict, needs_value
  <1>4. CASE /\ Len(f.value) = 1
             /\ \E g \in p.flags :
                  g.name = f.name /\ g.value.kind # "none" /\ validateByKind(g.value, f.value[1])
    <2>1. PICK g \in p.flags :
             g.name = f.name /\ g.value.kind # "none" /\ validateByKind(g.value, f.value[1])
      BY <1>4
    <2>2. f.value[1] \in Word /\ g.value \in ValueKind
      <3>1. 1 \in 1..Len(f.value)
        BY <1>4
      <3>2. g \in FlagSpec
        BY DEF BinaryPolicy
      <3>3. QED
        BY <1>1, <3>1, <3>2, ElementOfSeq DEF FlagSpec
    <2>3. validate_value(g.value, rest[2])
      BY <1>4, <2>1, <2>2, ValuesAgree
    <2>4. Len(rest) >= 2
      BY <1>4
    <2>5. \A h \in p.flags : h.name = f.name => h = g
      BY <2>1
    <2>6. parse_flag_verdict(p, rest) = "ok"
      BY <1>1, <2>1, <2>3, <2>4, <2>5 DEF parse_flag_verdict, needs_value
    <2>7. QED
      BY <1>4, <2>1, <2>6 DEF needs_value
  <1>5. QED
    BY <1>2, <1>3, <1>4 DEF FlagReads

\* A flag parseArgs goes on with is one it admits.
LEMMA ServerFlagIsReadAs ==
  ASSUME NEW p \in BinaryPolicy, \A f, g \in p.flags : f.name = g.name => f = g,
         NEW s \in Parse, s.rest # <<>>, StartsWithDash(Head(s.rest)),
         flagVerdict(p, s.rest) = "ok",
         NEW n \in {1, 2}, n <= Len(s.rest),
         n = IF takesValue(p, Head(s.rest)) THEN 2 ELSE 1
  PROVE  FlagReads(p, [name |-> Head(s.rest), value |-> SubSeq(s.rest, 2, n)])
  <1> DEFINE w == Head(s.rest)
             f == [name |-> w, value |-> SubSeq(s.rest, 2, n)]
  <1>1. w \notin p.forbidden
    BY DEF flagVerdict
  <1>2. CASE takesValue(p, w)
    <2>1. n = 2 /\ f.value = <<s.rest[2]>>
      BY <1>2, FlagRead
    <2>2. PICK g \in p.flags : g.name = w /\ g.value.kind # "none"
      BY <1>2 DEF takesValue, findFlag
    <2>3. \A h \in p.flags : h.name = w => h = g
      BY <2>2
    <2>4. Len(s.rest) \in Nat /\ Len(s.rest) >= 2
      BY <2>1, LenProperties DEF Parse
    <2>5. validateByKind(g.value, s.rest[2])
      BY <2>2, <2>3, <2>4 DEF flagVerdict, findFlag
    <2>6. Len(f.value) = 1 /\ f.value[1] = s.rest[2] /\ f.name = w
      BY <2>1
    <2> HIDE DEF f
    <2>7. QED
      BY <1>1, <2>2, <2>5, <2>6 DEF FlagReads, f
  <1>3. CASE ~takesValue(p, w)
    <2>1. n = 1 /\ f.value = <<>> /\ f.name = w
      BY <1>3, FlagRead
    <2>2. CASE findFlag(p, w) = {}
      <3>1. isCombinedShortEligible(w) /\ combinedShortAdmits(p, w)
        BY <1>1, <2>2 DEF flagVerdict
      <3>2. \A g \in p.flags : g.name # w
        BY <2>2 DEF findFlag
      <3> HIDE DEF f
      <3>3. QED
        BY <1>1, <2>1, <3>1, <3>2 DEF FlagReads, f
    <2>3. CASE findFlag(p, w) # {}
      <3>1. \E g \in p.flags : g.name = w /\ g.value.kind = "none"
        BY <1>3, <2>3 DEF takesValue, findFlag
      <3> HIDE DEF f
      <3>2. QED
        BY <1>1, <2>1, <3>1 DEF FlagReads, f
    <2>4. QED
      BY <2>2, <2>3
  <1>4. QED
    BY <1>2, <1>3

\* After a flag, what the server has read is still within the grammar.
LEMMA ServerReadsFlag ==
  ASSUME NEW p \in BinaryPolicy, \A f, g \in p.flags : f.name = g.name => f = g,
         NEW s \in Parse, s.rest # <<>>, StartsWithDash(Head(s.rest)),
         flagVerdict(p, s.rest) = "ok", ServerReads(p, s)
  PROVE  ServerReads(p, parseFlag(p, s))
  <1>1. PICK n \in {1, 2} : /\ n <= Len(s.rest) /\ parseFlag(p, s) = Read(s, n)
                            /\ n = IF takesValue(p, Head(s.rest)) THEN 2 ELSE 1
    BY ServerFlagIsRead
  <1> DEFINE f == [name |-> Head(s.rest), value |-> SubSeq(s.rest, 2, n)]
             r == Read(s, n)
  <1>2. FlagReads(p, f)
    BY <1>1, ServerFlagIsReadAs
  <1>3. /\ f \in Flag /\ r.flags = Append(s.flags, f)
        /\ r.sub = s.sub /\ r.positionals = s.positionals
    BY <1>1, ReadParts
  <1>4. s.flags \in Seq(Flag)
    BY PartsType
  <1> HIDE DEF f, r
  <1>5. \A i \in DOMAIN r.flags : FlagReads(p, r.flags[i])
    BY <1>2, <1>3, <1>4 DEF ServerReads
  <1>6. ServerReads(p, r)
    BY <1>3, <1>5 DEF ServerReads
  <1>7. QED
    BY <1>1, <1>6 DEF r

\* After a positional too.
LEMMA ServerReadsPositional ==
  ASSUME NEW p \in BinaryPolicy,
         NEW s \in Parse, s.rest # <<>>, ~StartsWithDash(Head(s.rest)),
         positionalVerdict(p, s) = "ok", ServerReads(p, s)
  PROVE  ServerReads(p, parsePositional(s))
  <1> DEFINE r == parsePositional(s)
             w == Head(s.rest)
  <1>1. w \in Word /\ s.positionals \in Seq(Word)
    BY PartsType, HeadTailProperties
  <1>2. r.flags = s.flags /\ r.sub = s.sub /\ r.positionals = Append(s.positionals, w)
    BY DEF parsePositional, Parse
  <1>3. /\ p.positional # NoPositional /\ ~(Len(s.positionals) >= p.positional.max)
        /\ validatePositional(p.positional, w)
    BY DEF positionalVerdict
  <1>4. p.positional.max \in Nat /\ Len(s.positionals) \in Nat
    BY <1>1, <1>3, LenProperties DEF BinaryPolicy, PositionalSpec
  <1>5. PositionalReads(p, w)
    BY <1>3 DEF PositionalReads
  <1> HIDE DEF r, w
  <1>6. Len(r.positionals) <= p.positional.max
    BY <1>1, <1>2, <1>3, <1>4, AppendProperties
  <1>7. \A i \in DOMAIN r.positionals : PositionalReads(p, r.positionals[i])
    BY <1>1, <1>2, <1>5 DEF ServerReads
  <1>8. QED
    BY <1>2, <1>6, <1>7 DEF ServerReads, r

\* After the subcommand too.
LEMMA ServerReadsSubcommand ==
  ASSUME NEW p \in BinaryPolicy, p.required, \A e \in p.subcommands : e # <<>>,
         NEW s \in Parse, s.flags = <<>>, s.positionals = <<>>,
         NEW n \in consumeSubcommand(p, s.rest)
  PROVE  ServerReads(p, [s EXCEPT !.sub = SubSeq(s.rest, 1, n),
                                  !.rest = SubSeq(s.rest, n + 1, Len(s.rest))])
  <1> DEFINE r == [s EXCEPT !.sub = SubSeq(s.rest, 1, n),
                            !.rest = SubSeq(s.rest, n + 1, Len(s.rest))]
  <1>1. PICK e \in p.subcommands : /\ n = Len(e) /\ Len(e) <= Len(s.rest)
                                   /\ \A k \in 1..Len(e) : tokenMatches(e[k], s.rest[k])
    BY DEF consumeSubcommand, MatchingEntries
  <1>2. n \in Nat \ {0} /\ n <= Len(s.rest)
    <2>1. e \in Seq(Pattern) /\ e # <<>>
      BY DEF BinaryPolicy
    <2>2. QED
      BY <1>1, <2>1, EmptySeq
  <1>3. /\ Len(SubSeq(s.rest, 1, n)) = n
        /\ \A k \in 1..n : SubSeq(s.rest, 1, n)[k] = s.rest[k]
    BY <1>2, SubcommandRead
  <1>4. r.sub = SubSeq(s.rest, 1, n) /\ r.flags = <<>> /\ r.positionals = <<>>
    BY DEF Parse
  <1> HIDE DEF r
  <1>5. r.sub # <<>>
    <2>1. Len(r.sub) # 0
      BY <1>2, <1>3, <1>4
    <2>2. QED
      BY <2>1
  <1>6. SubcommandReads(p, r.sub)
    <2>1. Len(e) = Len(r.sub) /\ \A k \in 1..Len(e) : tokenMatches(e[k], r.sub[k])
      BY <1>1, <1>3, <1>4
    <2>2. QED
      BY <1>5, <2>1 DEF SubcommandReads
  <1>7. DOMAIN r.flags = {} /\ DOMAIN r.positionals = {} /\ Len(r.positionals) = 0
    BY <1>4
  <1>8. p.positional # NoPositional => Len(r.positionals) <= p.positional.max
    BY <1>7 DEF BinaryPolicy, PositionalSpec
  <1>9. ServerReads(p, r)
    BY <1>6, <1>7, <1>8 DEF ServerReads
  <1>10. QED
    BY <1>9 DEF r

\* A binary without subcommands starts within the grammar.
LEMMA ServerReadsNothing ==
  ASSUME NEW p \in BinaryPolicy, ~p.required, NEW args
  PROVE  ServerReads(p, ParseOf(args))
  <1>1. /\ ParseOf(args).flags = <<>> /\ ParseOf(args).positionals = <<>>
        /\ ParseOf(args).sub = <<>>
    BY DEF ParseOf
  <1>2. DOMAIN ParseOf(args).flags = {} /\ DOMAIN ParseOf(args).positionals = {}
        /\ Len(ParseOf(args).positionals) = 0
    BY <1>1
  <1>3. p.positional # NoPositional => Len(ParseOf(args).positionals) <= p.positional.max
    BY <1>2 DEF BinaryPolicy, PositionalSpec
  <1>4. QED
    BY <1>1, <1>2, <1>3 DEF ServerReads, SubcommandReads

------------------------------------------------------------------------------
(* What follows the front of a sequence.                                   *)

\* What follows the first part of a concatenation is its second.
LEMMA After ==
  ASSUME NEW a \in Seq(Word), NEW b \in Seq(Word)
  PROVE  /\ SubSeq(a \o b, Len(a) + 1, Len(a \o b)) = b
         /\ SubSeq(a \o b, 1, Len(a)) = a
  <1> DEFINE c == a \o b
             n == Len(a)
  <1>1. c \in Seq(Word) /\ Len(c) = n + Len(b) /\ n \in Nat /\ Len(b) \in Nat
        /\ \A i \in 1..(n + Len(b)) : c[i] = IF i <= n THEN a[i] ELSE b[i - n]
    BY ConcatProperties, LenProperties
  <1>2. \A i \in 1..Len(c) : c[i] \in Word
    BY <1>1, ElementOfSeq
  <1> HIDE DEF c, n
  <1>3. SubSeq(c, n + 1, Len(c)) = b
    <2> DEFINE d == SubSeq(c, n + 1, Len(c))
    <2>1. \A i \in (n + 1)..Len(c) : c[i] \in Word
      BY <1>1, <1>2
    <2>2. /\ d \in Seq(Word) /\ Len(d) = IF n + 1 <= Len(c) THEN Len(c) - (n + 1) + 1 ELSE 0
          /\ \A i \in 1..(Len(c) - (n + 1) + 1) : d[i] = c[n + 1 + i - 1]
      BY <1>1, <2>1, SubSeqProperties
    <2> HIDE DEF d
    <2>3. Len(d) = Len(b)
      BY <1>1, <2>2
    <2>4. \A i \in 1..Len(d) : d[i] = b[i]
      <3> SUFFICES ASSUME NEW i \in 1..Len(d) PROVE d[i] = b[i]
        OBVIOUS
      <3>1. d[i] = c[n + i] /\ n + i \in 1..(n + Len(b)) /\ ~(n + i <= n) /\ n + i - n = i
        BY <1>1, <2>2, <2>3
      <3>2. QED
        BY <1>1, <3>1
    <2>5. d = b
      BY <2>2, <2>3, <2>4, SeqEqual
    <2>6. QED
      BY <2>5 DEF d
  <1>4. SubSeq(c, 1, n) = a
    <2> DEFINE d == SubSeq(c, 1, n)
    <2>1. \A i \in 1..n : c[i] \in Word
      BY <1>1, <1>2
    <2>2. /\ d \in Seq(Word) /\ Len(d) = IF 1 <= n THEN n - 1 + 1 ELSE 0
          /\ \A i \in 1..(n - 1 + 1) : d[i] = c[1 + i - 1]
      BY <1>1, <2>1, SubSeqProperties
    <2> HIDE DEF d
    <2>3. Len(d) = Len(a)
      BY <1>1, <2>2 DEF n
    <2>4. \A i \in 1..Len(d) : d[i] = a[i]
      <3> SUFFICES ASSUME NEW i \in 1..Len(d) PROVE d[i] = a[i]
        OBVIOUS
      <3>1. d[i] = c[i] /\ i <= n /\ i \in 1..(n + Len(b))
        BY <1>1, <2>2, <2>3 DEF n
      <3>2. QED
        BY <1>1, <3>1
    <2>5. d = a
      BY <2>2, <2>3, <2>4, SeqEqual
    <2>6. QED
      BY <2>5 DEF d
  <1>5. QED
    BY <1>3, <1>4 DEF c, n

\* The first word of a concatenation.
LEMMA FirstOf ==
  ASSUME NEW a \in Seq(Word), NEW b \in Seq(Word), a # <<>>
  PROVE  a \o b # <<>> /\ Head(a \o b) = Head(a) /\ Len(a \o b) \in Nat /\ Len(a \o b) >= Len(a)
  <1>1. Len(a) \in Nat \ {0} /\ Len(b) \in Nat
    BY EmptySeq, LenProperties
  <1>2. a \o b \in Seq(Word) /\ Len(a \o b) = Len(a) + Len(b)
        /\ (a \o b)[1] = a[1]
    BY <1>1, ConcatProperties
  <1>3. QED
    BY <1>1, <1>2

------------------------------------------------------------------------------
(* The agent reads what the server wrote.                                  *)

\* rest is flags and then positionals, all of which p admits, for a parse that
\* has read n positionals so far.
Ready(p, rest, n) ==
  \E flags \in Seq(Flag), pos \in Seq(Word) :
    /\ rest = Flat(flags) \o pos
    /\ \A i \in DOMAIN flags : FlagReads(p, flags[i])
    /\ \A i \in DOMAIN pos : PositionalReads(p, pos[i])
    /\ p.positional # NoPositional =>
         n + Len(pos) <= p.positional.max /\ n + Len(pos) >= p.positional.min
    /\ n > 0 => flags = <<>>

\* A word in front of others.
LEMMA ConsWord ==
  ASSUME NEW x \in Word, NEW v \in Seq(Word)
  PROVE  /\ <<x>> \o v \in Seq(Word) /\ Len(<<x>> \o v) = 1 + Len(v) /\ <<x>> \o v # <<>>
         /\ Head(<<x>> \o v) = x
         /\ Len(v) = 1 => (<<x>> \o v)[2] = v[1]
  <1> DEFINE m == <<x>>
  <1>1. m \in Seq(Word) /\ Len(m) = 1 /\ m[1] = x /\ m # <<>> /\ Head(m) = x /\ Len(v) \in Nat
    BY LenProperties
  <1> HIDE DEF m
  <1>2. m \o v \in Seq(Word) /\ Len(m \o v) = Len(m) + Len(v)
        /\ \A i \in 1..(Len(m) + Len(v)) : (m \o v)[i] = IF i <= Len(m) THEN m[i] ELSE v[i - Len(m)]
    <2>1. m \in Seq(Word)
      BY <1>1
    <2>2. QED
      BY <2>1, ConcatProperties
  <1>3. Len(v) = 1 => (m \o v)[2] = v[1]
    <2>1. Len(v) = 1 => 2 \in 1..(Len(m) + Len(v)) /\ 2 - Len(m) = 1 /\ ~(2 <= Len(m))
      BY <1>1
    <2>2. QED
      BY <1>2, <2>1
  <1>4. m \o v # <<>> /\ Head(m \o v) = x
    <2>1. m \in Seq(Word) /\ m # <<>>
      BY <1>1
    <2>2. QED
      BY <1>1, <2>1, FirstOf
  <1>5. QED
    BY <1>1, <1>2, <1>3, <1>4 DEF m

\* The words of the first flag are at the front of an argv.
LEMMA FlagInFront ==
  ASSUME NEW flags \in Seq(Flag), flags # <<>>, NEW pos \in Seq(Word),
         NEW rest, rest = Flat(flags) \o pos
  PROVE  LET h == Head(flags)
             next == Flat(Tail(flags)) \o pos
         IN  /\ h \in Flag /\ Tail(flags) \in Seq(Flag) /\ next \in Seq(Word)
             /\ rest \in Seq(Word) /\ rest # <<>> /\ Head(rest) = h.name /\ Len(rest) \in Nat
             /\ Len(h.value) = 1 => Len(rest) >= 2 /\ rest[2] = h.value[1]
             /\ SubSeq(rest, 2 + Len(h.value), Len(rest)) = next
  <1> DEFINE h == Head(flags)
             next == Flat(Tail(flags)) \o pos
             g == <<h.name>> \o h.value
             t == Flat(Tail(flags))
  <1>1. h \in Flag /\ Tail(flags) \in Seq(Flag) /\ Flat(flags) = g \o t
    BY FlatCons
  <1>2. t \in Seq(Word)
    BY <1>1, FlatType
  <1> HIDE DEF h, t, next
  <1>3. h.name \in Word /\ h.value \in Seq(Word) /\ Len(h.value) \in Nat
    <2>1. QED
      BY <1>1, LenProperties DEF Flag
  <1>4. /\ g \in Seq(Word) /\ Len(g) = 1 + Len(h.value) /\ g # <<>> /\ Head(g) = h.name
        /\ Len(h.value) = 1 => g[2] = h.value[1]
    BY <1>3, ConsWord
  <1> HIDE DEF g
  <1>5. rest = g \o (t \o pos) /\ t \o pos \in Seq(Word)
    <2>0. g \in Seq(Word)
      BY <1>4
    <2>1. (g \o t) \o pos = g \o (t \o pos)
      <3>1. Associates(g, t, pos)
        BY <1>2, <2>0, ThreeParts, Zenon
      <3>2. QED
        BY <3>1, Zenon DEF Associates
    <2>2. QED
      BY <1>1, <1>2, <2>1, ConcatProperties
  <1> DEFINE q == t \o pos
  <1>6. q \in Seq(Word) /\ rest = g \o q
    BY <1>5
  <1> HIDE DEF q
  <1>7. rest \in Seq(Word) /\ rest # <<>> /\ Head(rest) = h.name /\ Len(rest) \in Nat
        /\ Len(rest) >= Len(g)
    <2>1. rest \in Seq(Word)
      BY <1>4, <1>6, ConcatProperties
    <2>2. QED
      BY <1>4, <1>6, <2>1, FirstOf
  <1>8. Len(h.value) = 1 => Len(rest) >= 2 /\ rest[2] = h.value[1]
    <2> SUFFICES ASSUME Len(h.value) = 1 PROVE Len(rest) >= 2 /\ rest[2] = h.value[1]
      OBVIOUS
    <2>1. Len(g) = 2 /\ g[2] = h.value[1]
      BY <1>4
    <2>2. Len(q) \in Nat /\ 2 \in 1..(Len(g) + Len(q))
      BY <1>6, <2>1, LenProperties
    <2>3. rest[2] = g[2]
      <3>1. \A i \in 1..(Len(g) + Len(q)) : (g \o q)[i] = IF i <= Len(g) THEN g[i] ELSE q[i - Len(g)]
        <4>1. g \in Seq(Word) /\ q \in Seq(Word)
          BY <1>4, <1>6
        <4>2. QED
          BY <4>1, ConcatProperties
      <3>2. 2 \in 1..(Len(g) + Len(q)) /\ 2 <= Len(g)
        BY <2>1, <2>2
      <3>3. (g \o q)[2] = g[2]
        BY <3>1, <3>2
      <3>4. rest = g \o q
        BY <1>6
      <3>5. QED
        BY <3>3, <3>4
    <2>4. QED
      BY <1>7, <2>1, <2>3
  <1>9. SubSeq(rest, Len(g) + 1, Len(rest)) = q
    <2>1. g \in Seq(Word) /\ q \in Seq(Word) /\ rest = g \o q
      BY <1>4, <1>6
    <2>2. SubSeq(g \o q, Len(g) + 1, Len(g \o q)) = q
      BY <2>1, After, Zenon
    <2>3. QED
      BY <2>1, <2>2, Zenon
  <1>10. Len(g) + 1 = 2 + Len(h.value)
    BY <1>3, <1>4
  <1>11. SubSeq(rest, 2 + Len(h.value), Len(rest)) = q
    BY <1>9, <1>10
  <1>12. q = next
    BY DEF q, t, next
  <1>13. QED
    BY <1>1, <1>6, <1>7, <1>8, <1>11, <1>12 DEF h, next

\* A word in front that starts with a dash is a flag; any other, a positional.
LEMMA ReadyFront ==
  ASSUME NEW p, NEW flags \in Seq(Flag), NEW pos \in Seq(Word),
         NEW rest, rest = Flat(flags) \o pos, rest # <<>>,
         \A i \in DOMAIN flags : FlagReads(p, flags[i]),
         \A i \in DOMAIN pos : PositionalReads(p, pos[i])
  PROVE  /\ StartsWithDash(Head(rest)) <=> flags # <<>>
         /\ flags # <<>> => FlagReads(p, Head(flags)) /\ Head(flags) = flags[1]
         /\ flags = <<>> => rest = pos /\ PositionalReads(p, Head(rest))
  <1>1. CASE flags # <<>>
    <2>1. Head(rest) = Head(flags).name
      BY <1>1, FlagInFront
    <2>2. 1 \in DOMAIN flags /\ Head(flags) = flags[1]
      BY <1>1
    <2>3. FlagReads(p, Head(flags))
      BY <2>2
    <2>4. QED
      BY <1>1, <2>1, <2>2, <2>3 DEF FlagReads
  <1>2. CASE flags = <<>>
    <2>1. rest = pos
      BY <1>2, FlatEmpty, ConcatEmptySeq
    <2>2. 1 \in DOMAIN pos /\ Head(rest) = pos[1]
      BY <2>1
    <2>3. PositionalReads(p, Head(rest))
      BY <2>2
    <2>4. QED
      BY <1>2, <2>1, <2>3 DEF PositionalReads
  <1>3. QED
    BY <1>1, <1>2

\* Reading a flag moves its words from the rest to the argv, in order.
LEMMA ArgvRead ==
  ASSUME NEW s \in Parse, s.rest # <<>>, s.positionals = <<>>,
         NEW n \in {1, 2}, n <= Len(s.rest)
  PROVE  into_normalised_argv(Read(s, n)) \o Read(s, n).rest = into_normalised_argv(s) \o s.rest
  <1> DEFINE f == [name |-> Head(s.rest), value |-> SubSeq(s.rest, 2, n)]
             r == Read(s, n)
             g == <<f.name>> \o f.value
             a == s.sub
             b == Flat(s.flags)
             c == r.rest
  <1>1. /\ r \in Parse /\ f \in Flag /\ s.rest = g \o c /\ Flat(r.flags) = b \o g
        /\ r.sub = a /\ r.positionals = <<>>
    BY ReadParts
  <1>2. g \in Seq(Word)
    <2> HIDE DEF f
    <2>1. <<f.name>> \in Seq(Word) /\ f.value \in Seq(Word)
      BY <1>1 DEF Flag
    <2>2. QED
      BY <2>1, ConcatProperties
  <1>3. a \in Seq(Word) /\ b \in Seq(Word) /\ c \in Seq(Word)
    BY <1>1, PartsType
  <1>4. into_normalised_argv(r) = a \o (b \o g) \o <<>>
    BY <1>1, ArgvOf
  <1>5. into_normalised_argv(s) = a \o b \o <<>>
    BY ArgvOf
  <1> HIDE DEF f, r, g, a, b, c
  <1>6. a \o b \in Seq(Word) /\ b \o g \in Seq(Word)
    BY <1>2, <1>3, ConcatProperties
  <1>7. (a \o b) \o g = a \o (b \o g)
    <2>1. Associates(a, b, g)
      BY <1>2, <1>3, ThreeParts, Zenon
    <2>2. QED
      BY <2>1, Zenon DEF Associates
  <1> DEFINE d == a \o b
             e == a \o (b \o g)
  <1>8. d \in Seq(Word) /\ d \o g = e
    BY <1>6, <1>7
  <1>9. e \in Seq(Word)
    <2> HIDE DEF d
    <2>1. QED
      BY <1>2, <1>8, ConcatProperties
  <1>10. into_normalised_argv(r) = e \o <<>> /\ into_normalised_argv(s) = d \o <<>>
    BY <1>4, <1>5
  <1> HIDE DEF d, e
  <1>11. into_normalised_argv(r) = e /\ into_normalised_argv(s) = d
    BY <1>8, <1>9, <1>10, ConcatEmptySeq
  <1>12. (d \o g) \o c = d \o (g \o c)
    <2>1. d \in Seq(Word) /\ c \in Seq(Word)
      BY <1>3, <1>8
    <2>2. QED
      <3>1. Associates(d, g, c)
        BY <1>2, <2>1, ThreeParts, Zenon
      <3>2. QED
        BY <3>1, Zenon DEF Associates
  <1>13. QED
    BY <1>1, <1>8, <1>11, <1>12 DEF r, c

\* A word with a dash in front of an argv sent is a flag the agent's parser takes,
\* as the server's did.
LEMMA ReadyFlag ==
  ASSUME NEW p \in BinaryPolicy, \A f, g \in p.flags : f.name = g.name => f = g,
         NEW s \in Parse, s.rest # <<>>, StartsWithDash(Head(s.rest)),
         Ready(p, s.rest, Len(s.positionals))
  PROVE  /\ parse_flag_verdict(p, s.rest) = "ok"
         /\ Ready(p, parse_flag(p, s).rest, Len(parse_flag(p, s).positionals))
         /\ into_normalised_argv(parse_flag(p, s)) \o parse_flag(p, s).rest
              = into_normalised_argv(s) \o s.rest
  <1>1. PICK flags \in Seq(Flag), pos \in Seq(Word) :
          /\ s.rest = Flat(flags) \o pos
          /\ \A i \in DOMAIN flags : FlagReads(p, flags[i])
          /\ \A i \in DOMAIN pos : PositionalReads(p, pos[i])
          /\ p.positional # NoPositional =>
               /\ Len(s.positionals) + Len(pos) <= p.positional.max
               /\ Len(s.positionals) + Len(pos) >= p.positional.min
          /\ Len(s.positionals) > 0 => flags = <<>>
    BY DEF Ready
  <1>2. flags # <<>> /\ FlagReads(p, Head(flags)) /\ s.positionals = <<>>
    <2>1. flags # <<>> /\ FlagReads(p, Head(flags))
      BY <1>1, ReadyFront
    <2>2. Len(s.positionals) \in Nat /\ s.positionals \in Seq(Word)
      BY PartsType, LenProperties
    <2>3. QED
      BY <1>1, <2>1, <2>2, EmptySeq
  <1> DEFINE h == Head(flags)
             next == Flat(Tail(flags)) \o pos
             more == Tail(flags)
  <1>3. /\ h \in Flag /\ more \in Seq(Flag) /\ next \in Seq(Word)
        /\ Head(s.rest) = h.name /\ Len(s.rest) \in Nat
        /\ Len(h.value) = 1 => Len(s.rest) >= 2 /\ s.rest[2] = h.value[1]
        /\ SubSeq(s.rest, 2 + Len(h.value), Len(s.rest)) = next
    BY <1>1, <1>2, FlagInFront
  <1>4. \A i \in DOMAIN more : FlagReads(p, more[i])
    BY <1>1, <1>2
  <1> HIDE DEF h, more
  <1>5. FlagReads(p, h)
    BY <1>2 DEF h
  <1>6. /\ parse_flag_verdict(p, s.rest) = "ok"
        /\ (\E g \in p.flags : g.name = h.name /\ needs_value(g.value)) <=> Len(h.value) = 1
        /\ Len(h.value) # 1 => h.value = <<>>
    BY <1>3, <1>5, FlagsAgree
  <1>7. PICK n \in {1, 2} : /\ n <= Len(s.rest) /\ parse_flag(p, s) = Read(s, n)
                            /\ n = IF \E f \in p.flags : f.name = Head(s.rest) /\ needs_value(f.value)
                                   THEN 2 ELSE 1
    BY <1>6, AgentFlagIsRead
  <1>8. n + 1 = 2 + Len(h.value)
    <2>1. CASE Len(h.value) = 1
      BY <1>3, <1>6, <1>7, <2>1
    <2>2. CASE Len(h.value) # 1
      <3>1. Len(h.value) = 0
        BY <1>6, <2>2
      <3>2. QED
        BY <1>3, <1>6, <1>7, <2>2, <3>1
    <2>3. QED
      BY <2>1, <2>2
  <1>9. Read(s, n).rest = next /\ Read(s, n).positionals = <<>>
    <2>1. Read(s, n).rest = SubSeq(s.rest, n + 1, Len(s.rest)) /\ Read(s, n).positionals = <<>>
      BY <1>2 DEF Read, Parse
    <2>2. QED
      BY <1>3, <1>8, <2>1
  <1>10. Ready(p, next, 0)
    <2>1. Len(s.positionals) = 0
      BY <1>2
    <2>2. next = Flat(more) \o pos
      BY DEF more
    <2> HIDE DEF next
    <2>3. p.positional # NoPositional =>
            0 + Len(pos) <= p.positional.max /\ 0 + Len(pos) >= p.positional.min
      BY <1>1, <2>1
    <2>4. more \in Seq(Flag) /\ ~(0 > 0)
      BY <1>3
    <2>5. QED
      BY <1>1, <1>4, <2>2, <2>3, <2>4, Zenon DEF Ready
  <1>11. into_normalised_argv(Read(s, n)) \o Read(s, n).rest = into_normalised_argv(s) \o s.rest
    BY <1>2, <1>7, ArgvRead
  <1> HIDE DEF next
  <1>12. Len(Read(s, n).positionals) = 0
    BY <1>9
  <1>13. QED
    BY <1>6, <1>7, <1>9, <1>10, <1>11, <1>12

\* (a b)(c d) is (a (b c)) d.
Regroups(a, b, c, d) == (a \o b) \o (c \o d) = (a \o (b \o c)) \o d

\* Concatenation regroups four.
LEMMA FourParts ==
  ASSUME NEW a \in Seq(Word), NEW b \in Seq(Word), NEW c \in Seq(Word), NEW d \in Seq(Word)
  PROVE  Regroups(a, b, c, d)
  <1>1. a \o b \in Seq(Word) /\ Associates(a, b, c)
    BY ThreeParts, Zenon
  <1>2. Associates(a \o b, c, d)
    BY <1>1, ThreeParts, Zenon
  <1>3. QED
    BY <1>1, <1>2, Zenon DEF Associates, Regroups

\* A word without a dash in front of an argv sent is a positional the agent's
\* parser takes.
LEMMA ReadyPositional ==
  ASSUME NEW p, WellFormed(p),
         NEW s \in Parse, s.rest # <<>>, ~StartsWithDash(Head(s.rest)),
         Ready(p, s.rest, Len(s.positionals))
  PROVE  /\ parse_positional_verdict(p, s) = "ok"
         /\ Ready(p, parse_positional(s).rest, Len(parse_positional(s).positionals))
         /\ into_normalised_argv(parse_positional(s)) \o parse_positional(s).rest
              = into_normalised_argv(s) \o s.rest
  <1> DEFINE r == parse_positional(s)
             w == Head(s.rest)
             n == Len(s.positionals)
  <1>1. PICK flags \in Seq(Flag), pos \in Seq(Word) :
          /\ s.rest = Flat(flags) \o pos
          /\ \A i \in DOMAIN flags : FlagReads(p, flags[i])
          /\ \A i \in DOMAIN pos : PositionalReads(p, pos[i])
          /\ p.positional # NoPositional =>
               n + Len(pos) <= p.positional.max /\ n + Len(pos) >= p.positional.min
          /\ n > 0 => flags = <<>>
    BY DEF Ready
  <1>2. flags = <<>> /\ s.rest = pos /\ PositionalReads(p, w)
    <2>1. /\ StartsWithDash(Head(s.rest)) <=> flags # <<>>
          /\ flags = <<>> => s.rest = pos /\ PositionalReads(p, Head(s.rest))
      BY <1>1, ReadyFront, ZenonT(30)
    <2>2. QED
      BY <2>1, Zenon
  <1>3. /\ w \in Word /\ Tail(s.rest) \in Seq(Word) /\ s.rest = <<w>> \o Tail(s.rest)
        /\ <<w>> \in Seq(Word) /\ s.positionals \in Seq(Word) /\ n \in Nat
        /\ s.sub \in Seq(Word) /\ Flat(s.flags) \in Seq(Word)
    BY PartsType, FrontWord, LenProperties
  <1>4. /\ r.rest = Tail(s.rest) /\ r.positionals = Append(s.positionals, w)
        /\ r.sub = s.sub /\ r.flags = s.flags
    BY DEF parse_positional, Parse
  <1>5. Len(pos) \in Nat \ {0} /\ Len(Tail(pos)) = Len(pos) - 1
        /\ \A i \in 1..Len(Tail(pos)) : Tail(pos)[i] = pos[i + 1]
    BY <1>2, HeadTailProperties, EmptySeq
  <1>6. p.positional # NoPositional /\ validate_positional(p.positional, w) = "ok"
    BY <1>2, <1>3, PositionalsAgree DEF PositionalReads
  <1>7. p.positional.max \in Nat /\ p.positional.min \in Nat
    BY <1>6 DEF WellFormed, BinaryPolicy, PositionalSpec
  <1> HIDE DEF r, w, n
  <1>8. ~(n >= p.positional.max)
    <2> DEFINE m == p.positional.max
               k == Len(pos)
    <2>1. n + k <= m /\ n \in Nat /\ k \in Nat \ {0} /\ m \in Nat
      BY <1>1, <1>3, <1>5, <1>6, <1>7, Zenon
    <2> HIDE DEF m, k
    <2>2. ~(n >= m)
      BY <2>1
    <2>3. QED
      BY <2>2, Zenon DEF m
  <1>9. parse_positional_verdict(p, s) = "ok"
    <2>1. /\ p.positional # NoPositional /\ ~(Len(s.positionals) >= p.positional.max)
          /\ validate_positional(p.positional, Head(s.rest)) = "ok"
      BY <1>6, <1>8 DEF n, w
    <2>2. QED
      BY <2>1, Zenon DEF parse_positional_verdict
  <1>10. Ready(p, Tail(pos), n + 1)
    <2>1. Tail(pos) \in Seq(Word) /\ Tail(pos) = Flat(<<>>) \o Tail(pos) /\ <<>> \in Seq(Flag)
      BY <1>2, <1>3, FlatEmpty, ConcatEmptySeq
    <2>2. \A i \in DOMAIN Tail(pos) : PositionalReads(p, Tail(pos)[i])
      <3>1. DOMAIN Tail(pos) = 1..(Len(pos) - 1) /\ DOMAIN pos = 1..Len(pos)
        BY <2>1, <1>5, LenProperties
      <3>2. QED
        BY <1>1, <1>5, <3>1
    <2>3. n + 1 + Len(Tail(pos)) <= p.positional.max /\ n + 1 + Len(Tail(pos)) >= p.positional.min
      BY <1>1, <1>3, <1>5, <1>6, <1>7
    <2>4. \A i \in DOMAIN <<>> : FlagReads(p, <<>>[i])
      OBVIOUS
    <2>5. QED
      BY <2>1, <2>2, <2>3, <2>4, Zenon DEF Ready
  <1>11. Len(r.positionals) = n + 1
    BY <1>3, <1>4, AppendProperties DEF n
  <1>12. into_normalised_argv(r) \o r.rest = into_normalised_argv(s) \o s.rest
    <2> DEFINE a == s.sub \o Flat(s.flags)
               b == s.positionals
               c == <<w>>
               d == Tail(s.rest)
    <2>1. a \in Seq(Word) /\ b \in Seq(Word) /\ c \in Seq(Word) /\ d \in Seq(Word)
      BY <1>3, ConcatProperties
    <2>2. into_normalised_argv(s) = a \o b /\ s.rest = c \o d
      BY <1>3, ArgvOf
    <2>3. into_normalised_argv(r) = a \o (b \o c) /\ r.rest = d
      <3>1. Append(s.positionals, w) = b \o c
        BY <1>3, AppendIsConcat
      <3>2. QED
        BY <1>4, <3>1, ArgvOf
    <2> HIDE DEF a, b, c, d
    <2>4. (a \o b) \o (c \o d) = (a \o (b \o c)) \o d
      <3>1. Regroups(a, b, c, d)
        BY <2>1, FourParts
      <3>2. QED
        BY <3>1 DEF Regroups
    <2>5. QED
      BY <2>2, <2>3, <2>4
  <1>13. QED
    BY <1>2, <1>4, <1>9, <1>10, <1>11, <1>12 DEF r

\* With nothing left the count is right and the argv is what was read.
LEMMA ReadyEnd ==
  ASSUME NEW p \in BinaryPolicy, NEW s \in Parse, s.rest = <<>>,
         Ready(p, s.rest, Len(s.positionals))
  PROVE  /\ parse_count_verdict(p, s) = "ok"
         /\ into_normalised_argv(s) \o s.rest = into_normalised_argv(s)
  <1>1. PICK flags \in Seq(Flag), pos \in Seq(Word) :
          /\ s.rest = Flat(flags) \o pos
          /\ p.positional # NoPositional => Len(s.positionals) + Len(pos) >= p.positional.min
    BY DEF Ready
  <1>2. pos = <<>>
    <2>1. Flat(flags) \in Seq(Word)
      BY FlatType
    <2>2. QED
      BY <1>1, <2>1, ConcatEqualIffEmpty
  <1>3. Len(s.positionals) \in Nat /\ Len(pos) = 0
    BY <1>2, PartsType, LenProperties
  <1>4. p.positional # NoPositional => p.positional.min \in Nat
    BY DEF BinaryPolicy, PositionalSpec
  <1>5. p.positional # NoPositional => ~(Len(s.positionals) < p.positional.min)
    BY <1>1, <1>3, <1>4
  <1>6. normalisedArgv(s) \in Seq(Word) /\ into_normalised_argv(s) = normalisedArgv(s)
    BY FlatIsSequence, ArgvOf
  <1>7. QED
    BY <1>5, <1>6, ConcatEmptySeq DEF parse_count_verdict

\* A bounded set of numbers that is not empty has a greatest one.
LEMMA MaxExists ==
  ASSUME NEW M \in SUBSET Nat, M # {}, NEW b \in Nat, \A m \in M : m <= b
  PROVE  \E n \in M : \A m \in M : m <= n
  <1> DEFINE T == {k \in Nat : (\E m \in M : b <= m + k) => \E n \in M : \A m \in M : m <= n}
  <1>1. 0 \in T
    <2> SUFFICES ASSUME NEW m \in M, b <= m + 0 PROVE \E n \in M : \A x \in M : x <= n
      OBVIOUS
    <2>1. \A x \in M : x <= m
      OBVIOUS
    <2>2. QED
      BY <2>1
  <1>2. ASSUME NEW k \in T PROVE k + 1 \in T
    <2> SUFFICES ASSUME NEW m \in M, b <= m + (k + 1) PROVE \E n \in M : \A x \in M : x <= n
      OBVIOUS
    <2>1. CASE \E x \in M : b <= x + k
      BY <2>1
    <2>2. CASE \A x \in M : ~(b <= x + k)
      <3>1. \A x \in M : x <= m
        BY <2>2
      <3>2. QED
        BY <3>1
    <2>3. QED
      BY <2>1, <2>2
  <1>3. T = Nat
    <2>1. T \in SUBSET Nat
      OBVIOUS
    <2> HIDE DEF T
    <2>2. QED
      BY <1>1, <1>2, <2>1, Induction
  <1>4. PICK m \in M : TRUE
    OBVIOUS
  <1>5. b \in T
    BY <1>3
  <1>6. m \in M /\ b <= m + b
    BY <1>4
  <1>7. QED
    BY <1>5, <1>6

\* The head and the tail of what follows the first j words.
LEMMA RestOf ==
  ASSUME NEW args \in Seq(Word), NEW j \in Nat, j + 1 <= Len(args)
  PROVE  LET rest == SubSeq(args, j + 1, Len(args)) IN
         /\ rest \in Seq(Word) /\ rest # <<>> /\ Head(rest) = args[j + 1]
         /\ Tail(rest) = SubSeq(args, j + 2, Len(args))
  <1> DEFINE rest == SubSeq(args, j + 1, Len(args))
  <1>1. /\ Len(args) \in Nat /\ j + 1 \in 1..Len(args) /\ Len(args) \in (j + 1)..Len(args)
        /\ j + 1 + 1 = j + 2
    BY LenProperties
  <1>2. Head(rest) = args[j + 1] /\ Tail(rest) = SubSeq(args, j + 2, Len(args))
    BY <1>1, HeadTailOfSubSeq
  <1>3. rest \in Seq(Word) /\ Len(rest) = Len(args) - (j + 1) + 1
    <2>1. \A i \in (j + 1)..Len(args) : args[i] \in Word
      BY <1>1, ElementOfSeq
    <2> DEFINE m == j + 1
               n == Len(args)
    <2>2. m \in Int /\ n \in Int /\ m <= n /\ \A i \in m..n : args[i] \in Word
      BY <1>1, <2>1
    <2> HIDE DEF m, n
    <2>3. /\ SubSeq(args, m, n) \in Seq(Word)
          /\ Len(SubSeq(args, m, n)) = IF m <= n THEN n - m + 1 ELSE 0
      BY <2>2, SubSeqProperties
    <2>4. QED
      BY <2>2, <2>3 DEF m, n
  <1>4. rest # <<>>
    <2> HIDE DEF rest
    <2> DEFINE m == Len(args)
    <2>0. m \in Nat /\ j + 1 <= m /\ Len(rest) = m - (j + 1) + 1
      BY <1>1, <1>3
    <2> HIDE DEF m
    <2>1. Len(rest) # 0
      BY <2>0
    <2>2. QED
      BY <1>3, <2>1
  <1>5. QED
    BY <1>2, <1>3, <1>4

\* The words of args after the first k, up to n, are flags that take no value.
Valueless(p, args, k, n) ==
  \A i \in (k + 1)..n :
    /\ StartsWithDash(args[i])
    /\ \A f \in p.flags : f.name = args[i] => f.value.kind = "none"

\* Flags, and positionals, the server admits.
FlagsRead(p, flags) == \A i \in DOMAIN flags : FlagReads(p, flags[i])
PositionalsRead(p, pos) == \A i \in DOMAIN pos : PositionalReads(p, pos[i])

\* What follows the first n words of args is still flags and then pos.
Drops(p, args, n, pos) ==
  \E fl \in Seq(Flag) : FlagsRead(p, fl) /\ SubSeq(args, n + 1, Len(args)) = Flat(fl) \o pos

\* When the words from k to n are flags without a value, what follows the first n
\* is still flags and then positionals.
LEMMA DropFlags ==
  ASSUME NEW p, NEW args \in Seq(Word), NEW k \in Nat, NEW n \in Nat, k <= n, n <= Len(args),
         NEW flags \in Seq(Flag), NEW pos \in Seq(Word),
         FlagsRead(p, flags), PositionalsRead(p, pos),
         SubSeq(args, k + 1, Len(args)) = Flat(flags) \o pos,
         Valueless(p, args, k, n)
  PROVE  Drops(p, args, n, pos)
  <1> DEFINE Good(j) == \E fl \in Seq(Flag) :
                          /\ \A i \in DOMAIN fl : FlagReads(p, fl[i])
                          /\ SubSeq(args, j + 1, Len(args)) = Flat(fl) \o pos
             T == {j \in Nat : k <= j /\ j <= n => Good(j)}
  <1>a. \A i \in DOMAIN pos : PositionalReads(p, pos[i])
    BY DEF PositionalsRead
  <1>b. \A i \in (k + 1)..n : /\ StartsWithDash(args[i])
                              /\ \A g \in p.flags : g.name = args[i] => g.value.kind = "none"
    BY DEF Valueless
  <1>1. Good(k)
    BY DEF FlagsRead
  <1>2. ASSUME NEW j \in Nat, k <= j, j + 1 <= n, Good(j) PROVE Good(j + 1)
    <2> DEFINE rest == SubSeq(args, j + 1, Len(args))
    <2>1. PICK fl \in Seq(Flag) : /\ \A i \in DOMAIN fl : FlagReads(p, fl[i])
                                  /\ rest = Flat(fl) \o pos
      BY <1>2
    <2>2. Len(args) \in Nat /\ j + 1 <= Len(args) /\ j + 1 \in (k + 1)..n /\ j + 1 + 1 = j + 2
      BY <1>2, LenProperties
    <2>3. /\ rest \in Seq(Word) /\ rest # <<>> /\ Head(rest) = args[j + 1]
          /\ Tail(rest) = SubSeq(args, j + 2, Len(args))
      BY <1>2, <2>2, RestOf
    <2> HIDE DEF rest
    <2>5. StartsWithDash(Head(rest))
      BY <1>b, <2>2, <2>3
    <2>6. fl # <<>> /\ FlagReads(p, Head(fl))
      BY <1>a, <2>1, <2>3, <2>5, ReadyFront
    <2> DEFINE h == Head(fl)
               more == Tail(fl)
    <2>7. /\ h \in Flag /\ more \in Seq(Flag) /\ Head(rest) = h.name
          /\ SubSeq(rest, 2 + Len(h.value), Len(rest)) = Flat(more) \o pos
      BY <2>1, <2>6, FlagInFront
    <2>8. \A i \in DOMAIN more : FlagReads(p, more[i])
      BY <2>1, <2>6
    <2>9. FlagReads(p, h)
      BY <2>6
    <2> HIDE DEF h, more
    <2>10. h.value = <<>>
      BY <1>b, <2>2, <2>3, <2>7, <2>9 DEF FlagReads
    <2>11. 2 + Len(h.value) = 2
      BY <2>10
    <2>12. Tail(rest) = Flat(more) \o pos
      BY <2>3, <2>7, <2>11, TailIsSubSeq
    <2>13. SubSeq(args, j + 1 + 1, Len(args)) = Flat(more) \o pos
      BY <2>2, <2>3, <2>12
    <2>14. QED
      BY <2>7, <2>8, <2>13
  <1>3. T = Nat
    <2> HIDE DEF Good
    <2>1. T \in SUBSET Nat
      OBVIOUS
    <2>2. 0 \in T
      BY <1>1
    <2>3. ASSUME NEW j \in T PROVE j + 1 \in T
      <3> SUFFICES ASSUME k <= j + 1, j + 1 <= n PROVE Good(j + 1)
        OBVIOUS
      <3>1. CASE k = j + 1
        BY <1>1, <3>1
      <3>2. CASE k # j + 1
        <4>1. k <= j /\ j <= n /\ j \in Nat
          BY <3>2
        <4>2. QED
          BY <1>2, <4>1
      <3>3. QED
        BY <3>1, <3>2
    <2> HIDE DEF T
    <2>4. QED
      BY <2>1, <2>2, <2>3, Induction
  <1>4. Good(n)
    <2> HIDE DEF Good
    <2>1. \A j \in Nat : k <= j /\ j <= n => Good(j)
      BY <1>3
    <2>2. QED
      BY <2>1
  <1>5. QED
    BY <1>4 DEF Drops, FlagsRead

\* args is an argv the server forwards.
Sent(p, args) ==
  \E s \in Parse :
    ServerReads(p, s) /\ countVerdict(p, s) = "ok" /\ args = normalisedArgv(s)

\* The words after the subcommand, in an argv the server forwards.
LEMMA ReadyWords ==
  ASSUME NEW p \in BinaryPolicy, NEW s \in Parse, ServerReads(p, s), countVerdict(p, s) = "ok",
         NEW fl \in Seq(Flag), \A i \in DOMAIN fl : FlagReads(p, fl[i]),
         NEW rest, rest = Flat(fl) \o s.positionals
  PROVE  Ready(p, rest, 0)
  <1> DEFINE pos == s.positionals
  <1>1. pos \in Seq(Word) /\ Len(pos) \in Nat /\ rest = Flat(fl) \o pos
    BY PartsType, LenProperties
  <1>2. \A i \in DOMAIN pos : PositionalReads(p, pos[i])
    BY DEF ServerReads
  <1>3. p.positional # NoPositional =>
          0 + Len(pos) <= p.positional.max /\ 0 + Len(pos) >= p.positional.min
    <2>1. p.positional # NoPositional =>
            /\ p.positional.max \in Nat /\ p.positional.min \in Nat
            /\ Len(pos) <= p.positional.max /\ ~(Len(pos) < p.positional.min)
      BY DEF ServerReads, countVerdict, BinaryPolicy, PositionalSpec
    <2> HIDE DEF pos
    <2>2. QED
      BY <1>1, <2>1
  <1>4. ~(0 > 0)
    OBVIOUS
  <1> HIDE DEF pos
  <1>5. QED
    BY <1>1, <1>2, <1>3, <1>4, Zenon DEF Ready

\* Without subcommands the agent starts from words the server admitted.
LEMMA AgentStarts ==
  ASSUME NEW p \in BinaryPolicy, ~p.required, NEW args \in Seq(Word), Sent(p, args)
  PROVE  /\ Ready(p, args, 0)
         /\ into_normalised_argv(ParseOf(args)) \o args = args
  <1>1. PICK s \in Parse :
          ServerReads(p, s) /\ countVerdict(p, s) = "ok" /\ args = normalisedArgv(s)
    BY DEF Sent
  <1>2. s.sub = <<>>
    BY <1>1 DEF ServerReads, SubcommandReads
  <1>3. /\ Flat(s.flags) \in Seq(Word) /\ s.flags \in Seq(Flag)
        /\ \A i \in DOMAIN s.flags : FlagReads(p, s.flags[i])
    BY <1>1, PartsType DEF ServerReads
  <1>4. args = Flat(s.flags) \o s.positionals
    <2>1. args = s.sub \o Flat(s.flags) \o s.positionals
      BY <1>1, ArgvOf
    <2>2. s.sub \o Flat(s.flags) = Flat(s.flags)
      BY <1>2, <1>3, ConcatEmptySeq
    <2>3. QED
      BY <2>1, <2>2
  <1>5. Ready(p, args, 0)
    BY <1>1, <1>3, <1>4, ReadyWords
  <1>6. into_normalised_argv(ParseOf(args)) \o args = args
    <2>1. ParseOf(args).sub = <<>> /\ ParseOf(args).flags = <<>> /\ ParseOf(args).positionals = <<>>
      BY DEF ParseOf
    <2>2. into_normalised_argv(ParseOf(args)) = <<>> \o <<>> \o <<>>
      BY <2>1, ArgvOf, FlatEmpty
    <2>3. into_normalised_argv(ParseOf(args)) = <<>>
      BY <2>2
    <2>4. QED
      BY <2>3, ConcatEmptySeq
  <1>7. QED
    BY <1>5, <1>6

\* sub is words of the entry e.
EntryIs(e, sub) == Len(e) = Len(sub) /\ \A k \in 1..Len(e) : tokenMatches(e[k], sub[k])

\* The agent finds an entry of k words or more, and the words from k on are flags
\* that take no value.
FindsFrom(p, args, k) ==
  /\ consume_subcommand(p, args) # {}
  /\ \A n \in consume_subcommand(p, args) :
       n \in Nat /\ k <= n /\ n <= Len(args) /\ Valueless(p, args, k, n)

\* The entry the agent finds is at least as long as the server's, and the words it
\* takes more are flags without a value.
LEMMA AgentFinds ==
  ASSUME NEW p \in BinaryPolicy, EntriesSettled(p),
         NEW sub \in Seq(Word), NEW more \in Seq(Word), NEW args, args = sub \o more,
         NEW e \in p.subcommands, EntryIs(e, sub)
  PROVE  FindsFrom(p, args, Len(sub))
  <1> DEFINE Matching == {Len(x) : x \in {x \in p.subcommands :
                /\ Len(x) <= Len(args)
                /\ \A k \in 1..Len(x) : token_matches(x[k], args[k])}}
  <1>e. Len(e) = Len(sub) /\ \A k \in 1..Len(e) : tokenMatches(e[k], sub[k])
    BY DEF EntryIs
  <1>1. consume_subcommand(p, args) = {n \in Matching : \A m \in Matching : m <= n}
    BY DEF consume_subcommand
  <1>2. \A pattern, w : token_matches(pattern, w) = tokenMatches(pattern, w)
    BY DEF token_matches, tokenMatches
  <1>3. /\ args \in Seq(Word) /\ Len(args) = Len(sub) + Len(more)
        /\ Len(sub) \in Nat /\ Len(more) \in Nat
        /\ \A i \in 1..Len(sub) : args[i] = sub[i]
    BY ConcatProperties, LenProperties
  <1>4. Len(sub) \in Matching
    <2>1. Len(e) <= Len(args) /\ \A k \in 1..Len(e) : token_matches(e[k], args[k])
      BY <1>e, <1>2, <1>3
    <2>2. QED
      BY <1>e, <2>1
  <1>5. Matching \in SUBSET Nat /\ \A m \in Matching : m <= Len(args)
    BY LenProperties DEF BinaryPolicy
  <1>6. ASSUME NEW n \in consume_subcommand(p, args)
        PROVE  /\ n \in Nat /\ Len(sub) <= n /\ n <= Len(args)
               /\ \A i \in (Len(sub) + 1)..n :
                    /\ StartsWithDash(args[i])
                    /\ \A f \in p.flags : f.name = args[i] => f.value.kind = "none"
    <2>1. PICK x \in p.subcommands : /\ n = Len(x) /\ Len(x) <= Len(args)
                                     /\ \A k \in 1..Len(x) : token_matches(x[k], args[k])
      BY <1>1, <1>6
    <2>2. n \in Nat /\ Len(sub) <= n /\ n <= Len(args)
      BY <1>1, <1>4, <1>5, <1>6
    <2>3. \A k \in 1..n : tokenMatches(x[k], args[k]) /\ args[k] \in Word
      <3>1. \A k \in 1..n : k \in 1..Len(args)
        BY <1>3, <2>2
      <3>2. QED
        BY <1>2, <1>3, <2>1, <3>1, ElementOfSeq
    <2> HIDE DEF Matching
    <2>4. ASSUME NEW i \in (Len(sub) + 1)..n
          PROVE  /\ StartsWithDash(args[i])
                 /\ \A f \in p.flags : f.name = args[i] => f.value.kind = "none"
      <3>1. Len(x) > Len(e) /\ i \in (Len(e) + 1)..Len(x)
        BY <1>e, <1>3, <2>1, <2>2
      <3>2. \A k \in 1..Len(e) : \E w \in Word : tokenMatches(e[k], w) /\ tokenMatches(x[k], w)
        <4> SUFFICES ASSUME NEW k \in 1..Len(e)
                     PROVE  \E w \in Word : tokenMatches(e[k], w) /\ tokenMatches(x[k], w)
          OBVIOUS
        <4>1. k \in 1..n /\ args[k] = sub[k]
          BY <1>e, <1>3, <2>2
        <4>2. tokenMatches(e[k], args[k]) /\ tokenMatches(x[k], args[k]) /\ args[k] \in Word
          BY <1>e, <2>3, <4>1
        <4>3. QED
          BY <4>2
      <3>3. /\ ~x[i].glob /\ StartsWithDash(x[i].word)
            /\ \A f \in p.flags : f.name = x[i].word => f.value.kind = "none"
        BY <3>1, <3>2 DEF EntriesSettled
      <3>4. x[i].word = args[i]
        <4>1. i \in 1..n
          BY <1>3, <2>2
        <4>2. tokenMatches(x[i], args[i])
          BY <2>3, <4>1
        <4>3. QED
          BY <3>3, <4>2 DEF tokenMatches
      <3>5. QED
        BY <3>3, <3>4
    <2>5. QED
      BY <2>2, <2>4
  <1>7. consume_subcommand(p, args) # {}
    <2>1. Len(args) \in Nat
      BY <1>3
    <2> HIDE DEF Matching
    <2>2. \E n \in Matching : \A m \in Matching : m <= n
      BY <1>4, <1>5, <2>1, MaxExists
    <2>3. QED
      BY <1>1, <2>2
  <1>8. QED
    BY <1>6, <1>7 DEF FindsFrom, Valueless

\* The agent finds a subcommand in what the server forwards; it may be longer than
\* the server's, by flags the server's rewriting moved next to it, and then the argv is
\* still the same.
LEMMA AgentTakesSubcommand ==
  ASSUME NEW p \in BinaryPolicy, p.required, EntriesSettled(p),
         NEW args \in Seq(Word), Sent(p, args),
         NEW s \in Parse, s = ParseOf(args)
  PROVE  /\ s.rest # <<>> /\ consume_subcommand(p, s.rest) # {}
         /\ \A n \in consume_subcommand(p, s.rest) :
              LET r == [s EXCEPT !.sub = SubSeq(s.rest, 1, n),
                                 !.rest = SubSeq(s.rest, n + 1, Len(s.rest))]
              IN  /\ Ready(p, r.rest, Len(r.positionals))
                  /\ into_normalised_argv(r) \o r.rest = args
  <1>1. PICK t \in Parse :
          ServerReads(p, t) /\ countVerdict(p, t) = "ok" /\ args = normalisedArgv(t)
    BY DEF Sent
  <1>2. PICK e \in p.subcommands : EntryIs(e, t.sub)
    BY <1>1 DEF ServerReads, SubcommandReads, EntryIs
  <1>3. t.sub # <<>>
    BY <1>1 DEF ServerReads, SubcommandReads
  <1> DEFINE sub == t.sub
             more == Flat(t.flags) \o t.positionals
  <1>4. /\ sub \in Seq(Word) /\ Flat(t.flags) \in Seq(Word) /\ t.positionals \in Seq(Word)
        /\ t.flags \in Seq(Flag)
    BY PartsType
  <1>5. args = sub \o more /\ more \in Seq(Word)
    <2>1. args = (sub \o Flat(t.flags)) \o t.positionals
      BY <1>1, ArgvOf
    <2> DEFINE b == Flat(t.flags)
               c == t.positionals
    <2>2. sub \in Seq(Word) /\ b \in Seq(Word) /\ c \in Seq(Word)
      BY <1>4
    <2>3. args = (sub \o b) \o c
      BY <2>1
    <2>4. more = b \o c
      OBVIOUS
    <2> HIDE DEF sub, b, c, more
    <2>5. (sub \o b) \o c = sub \o (b \o c)
      <3>1. Associates(sub, b, c)
        BY <2>2, ThreeParts, Zenon
      <3>2. QED
        BY <3>1, Zenon DEF Associates
    <2>6. b \o c \in Seq(Word)
      BY <2>2, ConcatProperties
    <2>7. QED
      BY <2>3, <2>4, <2>5, <2>6
  <1>6. \A i \in DOMAIN t.flags : FlagReads(p, t.flags[i])
    BY <1>1 DEF ServerReads
  <1>7. \A i \in DOMAIN t.positionals : PositionalReads(p, t.positionals[i])
    BY <1>1 DEF ServerReads
  <1>8. s.rest = args /\ s.flags = <<>> /\ s.positionals = <<>>
    BY DEF ParseOf
  <1>9. EntryIs(e, sub) /\ sub # <<>>
    BY <1>2, <1>3
  <1>10. more = Flat(t.flags) \o t.positionals
    OBVIOUS
  <1> HIDE DEF sub, more
  <1>11. args # <<>>
    BY <1>4, <1>5, <1>9, FirstOf
  <1>12. FindsFrom(p, args, Len(sub))
    <2>1. sub \in Seq(Word) /\ more \in Seq(Word) /\ args = sub \o more
      BY <1>4, <1>5
    <2>2. QED
      BY <1>9, <2>1, AgentFinds
  <1>13. SubSeq(args, Len(sub) + 1, Len(args)) = Flat(t.flags) \o t.positionals
    BY <1>4, <1>5, <1>10, After
  <1>14. ASSUME NEW n \in consume_subcommand(p, args)
         PROVE  LET r == [s EXCEPT !.sub = SubSeq(args, 1, n),
                                   !.rest = SubSeq(args, n + 1, Len(args))]
                IN  /\ Ready(p, r.rest, Len(r.positionals))
                    /\ into_normalised_argv(r) \o r.rest = args
    <2> DEFINE r == [s EXCEPT !.sub = SubSeq(args, 1, n),
                              !.rest = SubSeq(args, n + 1, Len(args))]
               a == SubSeq(args, 1, n)
               b == SubSeq(args, n + 1, Len(args))
    <2>1. /\ n \in Nat /\ Len(sub) \in Nat /\ Len(sub) <= n /\ n <= Len(args)
          /\ Valueless(p, args, Len(sub), n)
      BY <1>4, <1>12, LenProperties DEF FindsFrom
    <2>2. PICK fl \in Seq(Flag) : /\ \A i \in DOMAIN fl : FlagReads(p, fl[i])
                                  /\ b = Flat(fl) \o t.positionals
      <3> DEFINE k == Len(sub)
                 pos == t.positionals
                 flags == t.flags
      <3>1. /\ k \in Nat /\ k <= n /\ Valueless(p, args, k, n)
            /\ SubSeq(args, k + 1, Len(args)) = Flat(flags) \o pos
            /\ flags \in Seq(Flag) /\ pos \in Seq(Word)
        BY <1>4, <1>13, <2>1
      <3>2. FlagsRead(p, flags) /\ PositionalsRead(p, pos)
        BY <1>6, <1>7 DEF FlagsRead, PositionalsRead
      <3> HIDE DEF k, flags, pos
      <3>3. Drops(p, args, n, pos)
        BY <2>1, <3>1, <3>2, DropFlags
      <3>4. QED
        BY <3>3 DEF Drops, FlagsRead, pos
    <2>3. r.rest = b /\ r.sub = a /\ r.flags = <<>> /\ r.positionals = <<>>
      BY <1>8 DEF Parse
    <2>4. args = a \o b /\ a \in Seq(Word)
      BY <2>1, Front
    <2> HIDE DEF r, a, b
    <2>5. Ready(p, b, 0)
      BY <1>1, <2>2, ReadyWords
    <2>6. into_normalised_argv(r) = a
      <3>1. into_normalised_argv(r) = a \o <<>> \o <<>>
        BY <2>3, ArgvOf, FlatEmpty
      <3>2. QED
        BY <2>4, <3>1, ConcatEmptySeq
    <2>7. Len(r.positionals) = 0
      BY <2>3
    <2>8. Ready(p, r.rest, Len(r.positionals)) /\ into_normalised_argv(r) \o r.rest = args
      BY <2>3, <2>4, <2>5, <2>6, <2>7
    <2>9. QED
      BY <2>8 DEF r
  <1>15. QED
    BY <1>8, <1>11, <1>12, <1>14 DEF FindsFrom

\* The refusals that come back without a hint.
Unhinted(c) ==
  \/ c \in {"policy_disabled_by_override", "no_executable_for_binary",
            "resolver_rejected_all_candidates"}
  \/ c = "invalid_command_name" /\ CmdShape[request.cmd].script = "folds"

\* What the agent's parser keeps of an argv it is sent.
Keeps(p, s, args) ==
  /\ Ready(p, s.rest, Len(s.positionals))
  /\ into_normalised_argv(s) \o s.rest = args

\* What the server knows of the request at each place.
ServerAgrees ==
  /\ at \in {"server subcommand", "server words", "dispatched"} =>
       lookup(request.cmd, DOMAIN serverTable) = "ok"
  /\ at = "server subcommand" => serverPolicy.required
  /\ at = "server words" => ServerReads(serverPolicy, parse)
  /\ at = "dispatched" => Sent(serverPolicy, sent)

\* What the agent knows of it when both have one table.
AgentAgrees ==
  /\ at = "agent subcommand" => serverPolicy.required /\ Sent(serverPolicy, sent)
  /\ at = "agent words" => Keeps(serverPolicy, parse, sent)
  /\ at \in {"resolving", "spawned"} => into_normalised_argv(parse) = sent
  /\ at = "refused by agent" => Unhinted(code)

\* The strengthening of EnginesAgree.
AgreeInv ==
  /\ ServerAgrees
  /\ agentTable = serverTable => AgentAgrees
  /\ at = "answered" /\ hint = "none" /\ reported = {agentTable} => Unhinted(code)

\* It holds of a request that has just arrived.
LEMMA InitAgrees == Init => AgreeInv
  BY DEF Init, AgreeInv, ServerAgrees, AgentAgrees

\* What the assumptions on the tables say of the server's policy.
LEMMA TablePolicySettled ==
  ASSUME TypeOK, CmdShape[request.cmd].name \in DOMAIN serverTable
  PROVE  /\ WellFormed(serverPolicy) /\ serverPolicy \in BinaryPolicy
         /\ \A f, g \in serverPolicy.flags : f.name = g.name => f = g
         /\ EntriesSettled(serverPolicy)
         /\ \A e \in serverPolicy.subcommands : e # <<>>
  <1>1. serverTable \in Tables
    BY DEF TypeOK
  <1>2. WellFormed(serverPolicy) /\ EntriesSettled(serverPolicy)
    BY <1>1, TablePolicy, EntriesAssumption DEF EntriesAssumption, serverPolicy
  <1>3. \A e \in serverPolicy.subcommands : e # <<>>
    BY <1>2 DEF EntriesSettled
  <1>4. QED
    BY <1>2, <1>3 DEF WellFormed

\* A name lookup accepts is in the table.
LEMMA LookupFinds ==
  ASSUME NEW c, NEW B, lookup(c, B) = "ok"
  PROVE  CmdShape[c].name \in B /\ ~CmdShape[c].slash
         /\ CmdShape[c].script # "symbols" /\ CmdShape[c].script # "foreign"
  BY DEF lookup

\* A refusal by the server leaves nothing to show.
LEMMA ServerRefusalAgrees ==
  ASSUME NEW v, ServerRefuses(v)
  PROVE  AgreeInv'
  BY DEF ServerRefuses, AgreeInv, ServerAgrees, AgentAgrees

\* A refusal by the agent has to be one of the unhinted ones, under one table.
LEMMA AgentRefusalAgrees ==
  ASSUME NEW v, AgentRefuses(v), agentTable = serverTable => Unhinted(v)
  PROVE  AgreeInv'
  <1>1. /\ at' = "refused by agent" /\ code' = v
        /\ UNCHANGED <<request, serverTable, agentTable>>
    BY DEF AgentRefuses, built
  <1>2. (agentTable = serverTable)' => Unhinted(code)'
    BY <1>1 DEF Unhinted
  <1>3. QED
    BY <1>1, <1>2 DEF AgreeInv, ServerAgrees, AgentAgrees

\* A step of the server's parser.
LEMMA ServerReadingAgrees ==
  ASSUME lookup(request.cmd, DOMAIN serverTable) = "ok",
         NEW s, ServerReads(serverPolicy, s), Parsed("server words", s)
  PROVE  AgreeInv'
  <1>1. at' = "server words" /\ parse' = s /\ UNCHANGED <<request, serverTable, serverPolicy>>
    BY DEF Parsed, built, serverPolicy
  <1>2. lookup(request.cmd, DOMAIN serverTable)' = "ok" /\ ServerReads(serverPolicy, parse)'
    BY <1>1
  <1>3. QED
    BY <1>1, <1>2 DEF AgreeInv, ServerAgrees, AgentAgrees

\* A step of the agent's parser.
LEMMA AgentReadingAgrees ==
  ASSUME NEW s, Parsed("agent words", s),
         agentTable = serverTable => Keeps(serverPolicy, s, sent)
  PROVE  AgreeInv'
  <1>1. /\ at' = "agent words" /\ parse' = s
        /\ UNCHANGED <<request, serverTable, agentTable, serverPolicy, sent>>
    BY DEF Parsed, built, serverPolicy
  <1>2. (agentTable = serverTable)' => Keeps(serverPolicy, parse, sent)'
    BY <1>1
  <1>3. QED
    BY <1>1, <1>2 DEF AgreeInv, ServerAgrees, AgentAgrees

\* Validate starts the parser within the grammar.
LEMMA ValidateAgrees == TypeOK /\ AsAskedInv /\ AgreeInv /\ Validate => AgreeInv'
  <1> SUFFICES ASSUME TypeOK, AsAskedInv, AgreeInv, Validate
               PROVE  AgreeInv'
    OBVIOUS
  <1>1. at = "received" /\ parse = ParseOf(request.args)
    BY DEF Validate, AsAskedInv
  <1>2. CASE \E v : ServerRefuses(v)
    BY <1>2, ServerRefusalAgrees
  <1>3. CASE /\ lookup(request.cmd, DOMAIN serverTable) = "ok"
             /\ Parsed(IF serverPolicy.required THEN "server subcommand" ELSE "server words", parse)
    <2>1. serverPolicy \in BinaryPolicy
      BY <1>3, LookupFinds, TablePolicySettled
    <2>2. CASE serverPolicy.required
      <3>1. at' = "server subcommand" /\ UNCHANGED <<request, serverTable, serverPolicy>>
        BY <1>3, <2>2 DEF Parsed, built, serverPolicy
      <3>2. lookup(request.cmd, DOMAIN serverTable)' = "ok" /\ (serverPolicy.required)'
        BY <1>3, <2>2, <3>1
      <3>3. QED
        BY <3>1, <3>2 DEF AgreeInv, ServerAgrees, AgentAgrees
    <2>3. CASE ~serverPolicy.required
      <3>1. ServerReads(serverPolicy, parse)
        BY <1>1, <2>1, <2>3, ServerReadsNothing
      <3>2. QED
        BY <1>3, <2>3, <3>1, ServerReadingAgrees
    <2>4. QED
      BY <2>2, <2>3
  <1>4. QED
    BY <1>2, <1>3 DEF Validate

\* The server's parser stays within it.
LEMMA ServerParserAgrees ==
  TypeOK /\ AgentInv /\ AsAskedInv /\ AgreeInv
  /\ (ServerSubcommand \/ ServerFlag \/ ServerPositional)
  => AgreeInv'
  <1> SUFFICES ASSUME TypeOK, AgentInv, AsAskedInv, AgreeInv,
                      ServerSubcommand \/ ServerFlag \/ ServerPositional
               PROVE  AgreeInv'
    OBVIOUS
  <1> DEFINE p == serverPolicy
  <1>1. at \in {"server subcommand", "server words"}
    BY DEF ServerSubcommand, ServerFlag, ServerPositional
  <1>2. /\ lookup(request.cmd, DOMAIN serverTable) = "ok"
        /\ parse \in Parse
    BY <1>1 DEF AgreeInv, ServerAgrees, TypeOK
  <1>3. /\ p \in BinaryPolicy /\ (\A f, g \in p.flags : f.name = g.name => f = g)
        /\ \A e \in p.subcommands : e # <<>>
    BY <1>2, LookupFinds, TablePolicySettled
  <1>4. CASE \E v : ServerRefuses(v)
    BY <1>4, ServerRefusalAgrees
  <1> HIDE DEF p
  <1>5. CASE /\ at = "server subcommand"
             /\ \E n \in consumeSubcommand(p, parse.rest) :
                  Parsed("server words",
                    [parse EXCEPT !.sub = SubSeq(parse.rest, 1, n),
                                  !.rest = SubSeq(parse.rest, n + 1, Len(parse.rest))])
    <2>1. p.required /\ parse = ParseOf(request.args)
      BY <1>5 DEF AgreeInv, ServerAgrees, AsAskedInv, p
    <2>2. parse.flags = <<>> /\ parse.positionals = <<>>
      BY <2>1 DEF ParseOf
    <2>3. PICK n \in consumeSubcommand(p, parse.rest) :
            Parsed("server words",
              [parse EXCEPT !.sub = SubSeq(parse.rest, 1, n),
                            !.rest = SubSeq(parse.rest, n + 1, Len(parse.rest))])
      BY <1>5
    <2> DEFINE s == [parse EXCEPT !.sub = SubSeq(parse.rest, 1, n),
                                  !.rest = SubSeq(parse.rest, n + 1, Len(parse.rest))]
    <2>4. ServerReads(p, s)
      BY <1>2, <1>3, <2>1, <2>2, ServerReadsSubcommand
    <2>5. Parsed("server words", s)
      BY <2>3
    <2> HIDE DEF s
    <2>6. QED
      BY <1>2, <2>4, <2>5, ServerReadingAgrees DEF p
  <1>6. CASE ServerFlag /\ flagVerdict(p, parse.rest) = "ok" /\ Parsed("server words", parseFlag(p, parse))
    <2>1. ServerReads(p, parse) /\ parse.rest # <<>> /\ StartsWithDash(Head(parse.rest))
      BY <1>6 DEF ServerFlag, AgreeInv, ServerAgrees, p
    <2>2. ServerReads(p, parseFlag(p, parse))
      BY <1>2, <1>3, <1>6, <2>1, ServerReadsFlag
    <2>3. QED
      BY <1>2, <1>6, <2>2, ServerReadingAgrees DEF p
  <1>7. CASE /\ ServerPositional /\ positionalVerdict(p, parse) = "ok"
             /\ Parsed("server words", parsePositional(parse))
    <2>1. ServerReads(p, parse) /\ parse.rest # <<>> /\ ~StartsWithDash(Head(parse.rest))
      BY <1>7 DEF ServerPositional, AgreeInv, ServerAgrees, p
    <2>2. ServerReads(p, parsePositional(parse))
      BY <1>2, <1>3, <1>7, <2>1, ServerReadsPositional
    <2>3. QED
      BY <1>2, <1>7, <2>2, ServerReadingAgrees DEF p
  <1>8. QED
    BY <1>4, <1>5, <1>6, <1>7 DEF ServerSubcommand, ServerFlag, ServerPositional, p

\* What the server forwards, it has admitted.
LEMMA ForwardAgrees == TypeOK /\ AgreeInv /\ Forward => AgreeInv'
  <1> SUFFICES ASSUME TypeOK, AgreeInv, Forward
               PROVE  AgreeInv'
    OBVIOUS
  <1>1. CASE \E v : ServerRefuses(v)
    BY <1>1, ServerRefusalAgrees
  <1>2. CASE /\ countVerdict(serverPolicy, parse) = "ok" /\ at' = "dispatched"
             /\ sent' = normalisedArgv(parse) /\ UNCHANGED built
    <2>1. UNCHANGED <<request, serverTable, serverPolicy>>
      BY <1>2 DEF built, serverPolicy
    <2>2. /\ ServerReads(serverPolicy, parse) /\ parse \in Parse
          /\ lookup(request.cmd, DOMAIN serverTable) = "ok"
      BY DEF Forward, AgreeInv, ServerAgrees, TypeOK
    <2>3. Sent(serverPolicy, normalisedArgv(parse))
      BY <1>2, <2>2 DEF Sent
    <2>4. Sent(serverPolicy, sent)' /\ lookup(request.cmd, DOMAIN serverTable)' = "ok"
      BY <1>2, <2>1, <2>2, <2>3
    <2>5. QED
      BY <1>2, <2>4 DEF AgreeInv, ServerAgrees, AgentAgrees
  <1>3. QED
    BY <1>1, <1>2 DEF Forward

\* The agent starts from it, or refuses for its overrides or its ASCII names.
LEMMA AgentValidateAgrees == TypeOK /\ AgreeInv /\ AgentValidate => AgreeInv'
  <1> SUFFICES ASSUME TypeOK, AgreeInv, AgentValidate
               PROVE  AgreeInv'
    OBVIOUS
  <1> DEFINE p == serverPolicy
             b == CmdShape[request.cmd].name
             c == request.cmd
  <1>1. at = "dispatched" /\ lookup(c, DOMAIN serverTable) = "ok" /\ Sent(p, sent)
    BY DEF AgentValidate, AgreeInv, ServerAgrees
  <1>2. b \in DOMAIN serverTable /\ ~CmdShape[c].slash /\ c \in Command
        /\ CmdShape[c].script # "symbols" /\ CmdShape[c].script # "foreign"
    BY <1>1, LookupFinds DEF TypeOK, Request
  <1>3. p \in BinaryPolicy /\ sent \in Seq(Word)
    BY <1>2, TablePolicySettled DEF TypeOK
  <1>4. CmdShape[c].script \in {"ascii", "folds"}
    BY <1>2, CommandAssumption DEF CommandAssumption, CmdShapeType
  <1>5. ASSUME NEW o \in Override, lookup_binary(c, DOMAIN agentTable, o) # "ok",
               AgentRefuses(lookup_binary(c, DOMAIN agentTable, o))
        PROVE  AgreeInv'
    <2>1. agentTable = serverTable => Unhinted(lookup_binary(c, DOMAIN agentTable, o))
      BY <1>2, <1>4, <1>5 DEF lookup_binary, Unhinted
    <2>2. QED
      BY <1>5, <2>1, AgentRefusalAgrees
  <1>6. ASSUME at' = (IF agentTable[b].required THEN "agent subcommand" ELSE "agent words"),
               parse' = ParseOf(sent), UNCHANGED <<built, sent>>
        PROVE  AgreeInv'
    <2>1. UNCHANGED <<request, serverTable, agentTable, serverPolicy, sent>>
      BY <1>6 DEF built, serverPolicy
    <2>2. CASE agentTable = serverTable
      <3>1. agentTable[b] = p
        BY <2>2 DEF serverPolicy
      <3>2. CASE p.required
        <4>1. at' = "agent subcommand"
          BY <1>6, <3>1, <3>2
        <4>2. (serverPolicy.required /\ Sent(serverPolicy, sent))'
          BY <1>1, <2>1, <3>2
        <4>3. QED
          BY <4>1, <4>2 DEF AgreeInv, ServerAgrees, AgentAgrees
      <3>3. CASE ~p.required
        <4>1. at' = "agent words"
          BY <1>6, <3>1, <3>3
        <4>2. Ready(p, sent, 0) /\ into_normalised_argv(ParseOf(sent)) \o sent = sent
          BY <1>1, <1>3, <3>3, AgentStarts
        <4>3. ParseOf(sent).rest = sent /\ Len(ParseOf(sent).positionals) = 0
          BY DEF ParseOf
        <4>4. Keeps(p, ParseOf(sent), sent)
          BY <4>2, <4>3 DEF Keeps
        <4>5. Keeps(serverPolicy, parse, sent)'
          BY <1>6, <2>1, <4>4
        <4>6. QED
          BY <4>1, <4>5 DEF AgreeInv, ServerAgrees, AgentAgrees
      <3>4. QED
        BY <3>2, <3>3
    <2>3. CASE agentTable # serverTable
      <3>1. (agentTable # serverTable)' /\ at' \in {"agent subcommand", "agent words"}
        BY <1>6, <2>1, <2>3
      <3>2. QED
        BY <3>1 DEF AgreeInv, ServerAgrees
    <2>4. QED
      BY <2>2, <2>3
  <1>7. QED
    BY <1>5, <1>6 DEF AgentValidate

\* With one table, the agent's policy parses as the server's does.
LEMMA OnePolicy ==
  ASSUME TypeOK, agentTable = serverTable, CmdShape[request.cmd].name \in DOMAIN serverTable
  PROVE  /\ \A rest : parse_flag_verdict(agentPolicy, rest) = parse_flag_verdict(serverPolicy, rest)
         /\ \A rest : consume_subcommand(agentPolicy, rest) = consume_subcommand(serverPolicy, rest)
         /\ \A s : parse_flag(agentPolicy, s) = parse_flag(serverPolicy, s)
         /\ \A s : parse_positional_verdict(agentPolicy, s) = parse_positional_verdict(serverPolicy, s)
         /\ \A s : parse_count_verdict(agentPolicy, s) = parse_count_verdict(serverPolicy, s)
         /\ agentPolicy.required = serverPolicy.required
  <1> DEFINE b == CmdShape[request.cmd].name
  <1>1. serverPolicy \in BinaryPolicy
    BY TablePolicySettled
  <1>2. agentPolicy = apply(override, b, serverPolicy)
    BY DEF agentPolicy, serverPolicy
  <1> HIDE DEF b
  <1>3. QED
    BY <1>1, <1>2, OverridesKeepParser, OverridesKeepGrammar

\* Under one table the agent's parser refuses nothing that it was sent.
LEMMA AgentParserAgrees ==
  TypeOK /\ AgentInv /\ AsAskedInv /\ AgreeInv
  /\ (AgentSubcommand \/ AgentFlag \/ AgentPositional \/ AgentParsed)
  => AgreeInv'
  <1> SUFFICES ASSUME TypeOK, AgentInv, AsAskedInv, AgreeInv,
                      AgentSubcommand \/ AgentFlag \/ AgentPositional \/ AgentParsed
               PROVE  AgreeInv'
    OBVIOUS
  <1> DEFINE p == serverPolicy
             q == agentPolicy
  <1>1. at \in {"agent subcommand", "agent words"}
    BY DEF AgentSubcommand, AgentFlag, AgentPositional, AgentParsed
  <1>2. CmdShape[request.cmd].name \in DOMAIN agentTable /\ parse \in Parse /\ sent \in Seq(Word)
    BY <1>1 DEF AgentInv, TypeOK
  <1>3. ASSUME agentTable = serverTable
        PROVE  /\ WellFormed(p) /\ p \in BinaryPolicy /\ EntriesSettled(p)
               /\ (\A f, g \in p.flags : f.name = g.name => f = g)
               /\ \A rest : parse_flag_verdict(q, rest) = parse_flag_verdict(p, rest)
               /\ \A rest : consume_subcommand(q, rest) = consume_subcommand(p, rest)
               /\ \A s : parse_flag(q, s) = parse_flag(p, s)
               /\ \A s : parse_positional_verdict(q, s) = parse_positional_verdict(p, s)
               /\ \A s : parse_count_verdict(q, s) = parse_count_verdict(p, s)
               /\ AgentAgrees
    BY <1>2, <1>3, TablePolicySettled, OnePolicy DEF AgreeInv
  <1> HIDE DEF p, q
  <1>4. CASE AgentSubcommand
    <2>1. at = "agent subcommand" /\ parse = ParseOf(sent)
      BY <1>4 DEF AgentSubcommand, AsAskedInv
    <2>2. ASSUME agentTable = serverTable
          PROVE  /\ parse.rest # <<>> /\ consume_subcommand(q, parse.rest) # {}
                 /\ \A n \in consume_subcommand(q, parse.rest) :
                      Keeps(p, [parse EXCEPT !.sub = SubSeq(parse.rest, 1, n),
                                             !.rest = SubSeq(parse.rest, n + 1, Len(parse.rest))],
                            sent)
      <3>1. p.required /\ Sent(p, sent)
        BY <1>3, <2>1, <2>2 DEF AgentAgrees, p
      <3>2. p \in BinaryPolicy /\ EntriesSettled(p)
            /\ consume_subcommand(q, parse.rest) = consume_subcommand(p, parse.rest)
        BY <1>3, <2>2
      <3>3. parse.rest # <<>> /\ consume_subcommand(p, parse.rest) # {}
        BY <1>2, <2>1, <3>1, <3>2, AgentTakesSubcommand
      <3>4. \A n \in consume_subcommand(p, parse.rest) :
              LET r == [parse EXCEPT !.sub = SubSeq(parse.rest, 1, n),
                                     !.rest = SubSeq(parse.rest, n + 1, Len(parse.rest))]
              IN  /\ Ready(p, r.rest, Len(r.positionals))
                  /\ into_normalised_argv(r) \o r.rest = sent
        BY <1>2, <2>1, <3>1, <3>2, AgentTakesSubcommand, Zenon
      <3>5. ASSUME NEW n \in consume_subcommand(p, parse.rest)
            PROVE  Keeps(p, [parse EXCEPT !.sub = SubSeq(parse.rest, 1, n),
                                          !.rest = SubSeq(parse.rest, n + 1, Len(parse.rest))],
                         sent)
        <4> DEFINE r == [parse EXCEPT !.sub = SubSeq(parse.rest, 1, n),
                                      !.rest = SubSeq(parse.rest, n + 1, Len(parse.rest))]
        <4>1. Ready(p, r.rest, Len(r.positionals)) /\ into_normalised_argv(r) \o r.rest = sent
          BY <3>4
        <4> HIDE DEF r
        <4>2. Keeps(p, r, sent)
          BY <4>1 DEF Keeps
        <4>3. QED
          BY <4>2 DEF r
      <3>6. QED
        BY <3>2, <3>3, <3>5
    <2>3. ASSUME NEW v, AgentRefuses(v), parse.rest = <<>> \/ consume_subcommand(q, parse.rest) = {}
          PROVE  AgreeInv'
      BY <2>2, <2>3, AgentRefusalAgrees
    <2>4. ASSUME NEW n \in consume_subcommand(q, parse.rest),
                 Parsed("agent words",
                   [parse EXCEPT !.sub = SubSeq(parse.rest, 1, n),
                                 !.rest = SubSeq(parse.rest, n + 1, Len(parse.rest))])
          PROVE  AgreeInv'
      <3> DEFINE s == [parse EXCEPT !.sub = SubSeq(parse.rest, 1, n),
                                    !.rest = SubSeq(parse.rest, n + 1, Len(parse.rest))]
      <3>1. Parsed("agent words", s) /\ (agentTable = serverTable => Keeps(p, s, sent))
        BY <2>2, <2>4
      <3> HIDE DEF s
      <3>2. QED
        BY <3>1, AgentReadingAgrees DEF p
    <2>5. QED
      BY <1>4, <2>3, <2>4 DEF AgentSubcommand, q
  <1>5. CASE AgentFlag
    <2>1. at = "agent words" /\ parse.rest # <<>> /\ StartsWithDash(Head(parse.rest))
      BY <1>5 DEF AgentFlag
    <2>2. ASSUME agentTable = serverTable
          PROVE  parse_flag_verdict(q, parse.rest) = "ok" /\ Keeps(p, parse_flag(q, parse), sent)
      <3>1. Keeps(p, parse, sent)
        BY <1>3, <2>1, <2>2 DEF AgentAgrees, p
      <3>2. parse_flag_verdict(p, parse.rest) = "ok" /\ Keeps(p, parse_flag(p, parse), sent)
        BY <1>2, <1>3, <2>1, <2>2, <3>1, ReadyFlag DEF Keeps
      <3>3. parse_flag(q, parse) = parse_flag(p, parse)
            /\ parse_flag_verdict(q, parse.rest) = parse_flag_verdict(p, parse.rest)
        BY <1>3, <2>2
      <3>4. QED
        BY <3>2, <3>3
    <2>3. ASSUME NEW v, AgentRefuses(v), parse_flag_verdict(q, parse.rest) # "ok"
          PROVE  AgreeInv'
      BY <2>2, <2>3, AgentRefusalAgrees
    <2>4. Parsed("agent words", parse_flag(q, parse)) => AgreeInv'
      BY <2>2, AgentReadingAgrees DEF p
    <2>5. QED
      BY <1>5, <2>3, <2>4 DEF AgentFlag, q
  <1>6. CASE AgentPositional
    <2>1. at = "agent words" /\ parse.rest # <<>> /\ ~StartsWithDash(Head(parse.rest))
      BY <1>6 DEF AgentPositional
    <2>2. ASSUME agentTable = serverTable
          PROVE  parse_positional_verdict(q, parse) = "ok" /\ Keeps(p, parse_positional(parse), sent)
      <3>1. Keeps(p, parse, sent)
        BY <1>3, <2>1, <2>2 DEF AgentAgrees, p
      <3>2. parse_positional_verdict(p, parse) = "ok" /\ Keeps(p, parse_positional(parse), sent)
        BY <1>2, <1>3, <2>1, <2>2, <3>1, ReadyPositional DEF Keeps
      <3>3. parse_positional_verdict(q, parse) = parse_positional_verdict(p, parse)
        BY <1>3, <2>2
      <3>4. QED
        BY <3>2, <3>3
    <2>3. ASSUME NEW v, AgentRefuses(v), parse_positional_verdict(q, parse) # "ok"
          PROVE  AgreeInv'
      BY <2>2, <2>3, AgentRefusalAgrees
    <2>4. Parsed("agent words", parse_positional(parse)) => AgreeInv'
      BY <2>2, AgentReadingAgrees DEF p
    <2>5. QED
      BY <1>6, <2>3, <2>4 DEF AgentPositional, q
  <1>7. CASE AgentParsed
    <2>1. at = "agent words" /\ parse.rest = <<>>
      BY <1>7 DEF AgentParsed
    <2>2. ASSUME agentTable = serverTable
          PROVE  parse_count_verdict(q, parse) = "ok" /\ into_normalised_argv(parse) = sent
      <3>1. Keeps(p, parse, sent)
        BY <1>3, <2>1, <2>2 DEF AgentAgrees, p
      <3>2. parse_count_verdict(p, parse) = "ok" /\ into_normalised_argv(parse) = sent
        BY <1>2, <1>3, <2>1, <2>2, <3>1, ReadyEnd DEF Keeps
      <3>3. parse_count_verdict(q, parse) = parse_count_verdict(p, parse)
        BY <1>3, <2>2
      <3>4. QED
        BY <3>2, <3>3
    <2>3. ASSUME NEW v, AgentRefuses(v), parse_count_verdict(q, parse) # "ok"
          PROVE  AgreeInv'
      BY <2>2, <2>3, AgentRefusalAgrees
    <2>4. ASSUME Parsed("resolving", parse) PROVE AgreeInv'
      <3>1. /\ at' = "resolving" /\ UNCHANGED <<request, serverTable, agentTable, parse, sent>>
        BY <2>4 DEF Parsed, built
      <3>2. (agentTable = serverTable)' => into_normalised_argv(parse)' = sent'
        BY <2>2, <3>1
      <3>3. QED
        BY <3>1, <3>2 DEF AgreeInv, ServerAgrees, AgentAgrees
    <2>5. QED
      BY <1>7, <2>3, <2>4 DEF AgentParsed, q
  <1>8. QED
    BY <1>4, <1>5, <1>6, <1>7

\* The resolver refuses for reasons of its own, and no hint comes of the digest of
\* the agent's own table only when that is the server's.
LEMMA LastStepsAgree == AgreeInv /\ (Resolve \/ EnrichAgentError \/ UNCHANGED vars) => AgreeInv'
  <1> SUFFICES ASSUME AgreeInv, Resolve \/ EnrichAgentError \/ UNCHANGED vars
               PROVE  AgreeInv'
    OBVIOUS
  <1>1. CASE Resolve
    <2>1. at = "resolving"
      BY <1>1 DEF Resolve
    <2>2. ASSUME NEW v \in {"no_executable_for_binary", "resolver_rejected_all_candidates"},
                 AgentRefuses(v)
          PROVE  AgreeInv'
      <3>1. Unhinted(v)
        BY <2>2 DEF Unhinted
      <3>2. QED
        BY <2>2, <3>1, AgentRefusalAgrees
    <2>3. ASSUME at' = "spawned", UNCHANGED <<built, parse, sent>>
          PROVE  AgreeInv'
      <3>1. UNCHANGED <<request, serverTable, agentTable, parse, sent>>
        BY <2>3 DEF built
      <3>2. (agentTable = serverTable)' => into_normalised_argv(parse)' = sent'
        BY <2>1, <3>1 DEF AgreeInv, AgentAgrees
      <3>3. QED
        BY <2>3, <3>2 DEF AgreeInv, ServerAgrees, AgentAgrees
    <2>4. QED
      BY <1>1, <2>2, <2>3 DEF Resolve
  <1>2. CASE EnrichAgentError
    <2>1. /\ at = "refused by agent" /\ at' = "answered"
          /\ UNCHANGED <<request, serverTable, agentTable, code>>
          /\ hint' = "none" /\ reported' = {agentTable} => agentTable = serverTable
      BY <1>2 DEF EnrichAgentError, built
    <2>2. hint' = "none" /\ reported' = {agentTable} => Unhinted(code)
      BY <2>1 DEF AgreeInv, AgentAgrees
    <2>3. hint' = "none" /\ (reported = {agentTable})' => Unhinted(code)'
      BY <2>1, <2>2 DEF Unhinted
    <2>4. QED
      BY <2>1, <2>3 DEF AgreeInv, ServerAgrees, AgentAgrees
  <1>3. CASE UNCHANGED vars
    BY <1>3 DEF vars, AgreeInv, ServerAgrees, AgentAgrees, Unhinted, serverPolicy
  <1>4. QED
    BY <1>1, <1>2, <1>3

\* Every step keeps the two engines agreed.
LEMMA NextAgrees ==
  ASSUME TypeOK, AgentInv, AsAskedInv, AgreeInv, [Next]_vars
  PROVE  AgreeInv'
  BY ValidateAgrees, ServerParserAgrees, ForwardAgrees, AgentValidateAgrees, AgentParserAgrees,
     LastStepsAgree DEF Next

\* A subcommand the server's parser has read is one AllowsPattern covers.
LEMMA SkillsCovered ==
  ASSUME NEW c, NEW table, lookup(c, DOMAIN table) = "ok",
         NEW p, p = table[CmdShape[c].name], NEW sub, SubcommandReads(p, sub)
  PROVE  AllowsPattern(c, sub, table)
  <1>1. CASE p.required
    <2>1. PICK e \in p.subcommands :
            Len(e) = Len(sub) /\ \A k \in 1..Len(e) : tokenMatches(e[k], sub[k])
      BY <1>1 DEF SubcommandReads
    <2>2. sub # <<>>
      BY <1>1 DEF SubcommandReads
    <2>3. Len(e) \in MatchingEntries(p, sub)
      BY <2>1 DEF MatchingEntries
    <2>4. QED
      BY <1>1, <2>2, <2>3 DEF AllowsPattern
  <1>2. CASE ~p.required
    BY <1>2 DEF SubcommandReads, AllowsPattern
  <1>3. QED
    BY <1>1, <1>2

\* Under one policy.toml, for all words, tables, overrides and command lines: what
\* Validate accepts AllowsPattern covers, the agent's argv is the one it was sent, and
\* a refusal without a hint, from a current digest, is the overrides', the resolver's or a
\* name only the server folds (policy_drift.go:30, parse.go:77).
THEOREM EnginesAgreeCorrect == Spec => []EnginesAgree
  <1>1. AgreeInv => EnginesAgree
    <2> SUFFICES ASSUME AgreeInv PROVE EnginesAgree
      OBVIOUS
    <2>1. ASSUME at = "server words"
          PROVE  AllowsPattern(request.cmd, parse.sub, serverTable)
      <3>1. /\ lookup(request.cmd, DOMAIN serverTable) = "ok"
            /\ SubcommandReads(serverPolicy, parse.sub)
        BY <2>1 DEF AgreeInv, ServerAgrees, ServerReads
      <3>2. QED
        BY <3>1, SkillsCovered DEF serverPolicy
    <2>2. at \in {"resolving", "spawned"} /\ agentTable = serverTable =>
            into_normalised_argv(parse) = sent
      BY DEF AgreeInv, AgentAgrees
    <2>3. at = "answered" /\ hint = "none" /\ reported = {agentTable} =>
            \/ code \in {"policy_disabled_by_override", "no_executable_for_binary",
                   "resolver_rejected_all_candidates"}
            \/ code = "invalid_command_name" /\ CmdShape[request.cmd].script = "folds"
      BY DEF AgreeInv, Unhinted
    <2>4. QED
      BY <2>1, <2>2, <2>3 DEF EnginesAgree
  <1>2. TypeOK /\ AgentInv /\ AsAskedInv /\ [Next]_vars => AsAskedInv'
    BY NextAsAsked
  <1>3. TypeOK /\ AgentInv /\ AsAskedInv /\ AgreeInv /\ [Next]_vars => AgreeInv'
    BY NextAgrees
  <1>4. QED
    BY <1>1, <1>2, <1>3, InitAsAsked, InitAgrees, PipelineInductive, PTL DEF Spec
==============================================================================
