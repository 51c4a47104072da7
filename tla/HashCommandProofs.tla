-------------------------- MODULE HashCommandProofs -------------------------
(***************************************************************************)
(* What ak_cli_parse promises for every vector of arguments and every      *)
(* number of cores; what ak_video_hash promises for every video, every     *)
(* configuration, every sequence of failing calls and every delay of the   *)
(* decoder; and that the command calls the one only with a configuration   *)
(* of the other, so that what holds of the parts holds of the command.     *)
(***************************************************************************)
EXTENDS HashCommand, FiniteSetTheorems, WellFoundedInduction, TLAPS

-----------------------------------------------------------------------------
(***************************************************************************)
(* Least and last numbers: for induction, by a least counterexample        *)
(***************************************************************************)

NatLess == {p \in Nat \X Nat : p[1] < p[2]}

LEMMA NatLessWellFounded == IsWellFoundedOn(NatLess, Nat)
  BY NatLessThanWellFounded DEF OpToRel, NatLess

(* A set of numbers that is not empty has a least one.                     *)
LEMMA LeastNat ==
  ASSUME NEW T, T \subseteq Nat, T # {}
  PROVE  \E m \in T : \A n \in T : m <= n
<1>1. PICK m \in T : \A n \in T : ~(<<n, m>> \in NatLess)
  BY NatLessWellFounded, WFMin
<1>2. ASSUME NEW n \in T
      PROVE  m <= n
  <2>1. m \in Nat /\ n \in Nat
    OBVIOUS
  <2>2. ~(n < m)
    BY <1>1, <2>1 DEF NatLess
  <2> QED
    BY <2>1, <2>2
<1> QED
  BY <1>2

(* A bounded one has a last one.                                           *)
LEMMA HasLast ==
  ASSUME NEW n \in Nat, NEW S, S \subseteq 0 .. n, S # {}
  PROVE  \E k \in S : \A j \in S : j <= k
<1> DEFINE T == {b \in Nat : \A j \in S : j <= b}
<1>1. n \in T
  OBVIOUS
<1>2. PICK k \in T : \A b \in T : k <= b
  BY <1>1, LeastNat
<1>3. k \in S
  <2>1. SUFFICES ASSUME k \notin S PROVE FALSE
    OBVIOUS
  <2>2. PICK j \in S : j \in 0 .. n
    OBVIOUS
  <2>3. k \in Nat /\ k # 0 /\ k - 1 \in Nat
    BY <2>1, <2>2
  <2>4. \A i \in S : i <= k - 1
    <3> SUFFICES ASSUME NEW i \in S PROVE i <= k - 1
      OBVIOUS
    <3>1. i \in Nat /\ i <= k /\ i # k
      BY <2>1
    <3> QED
      BY <2>3, <3>1
  <2>5. k - 1 \in T
    BY <2>3, <2>4
  <2> QED
    BY <1>2, <2>3, <2>5
<1> QED
  BY <1>3

LEMMA LeastIs ==
  ASSUME NEW S, S \subseteq Nat, S # {}
  PROVE  Least(S) \in S /\ \A y \in S : Least(S) <= y
  BY LeastNat, Zenon DEF Least

LEMMA GreatestIs ==
  ASSUME NEW n \in Nat, NEW S, S \subseteq 0 .. n, S # {}
  PROVE  Greatest(S) \in S /\ \A y \in S : y <= Greatest(S)
<1>1. \E k \in S : \A j \in S : j <= k
  BY HasLast
<1> QED
  BY <1>1, Zenon DEF Greatest

-----------------------------------------------------------------------------
(***************************************************************************)
(* The command line                                                        *)
(***************************************************************************)

Configs ==
  [segments : 1 .. AK_MAX_VIDEO_SEGMENTS, threshold : 0 .. AK_HAMMING_MAX, skip_duration : Nat,
   thread_count : Nat, verbosity : 0 .. AK_MAX_VERBOSITY,
   detect : SUBSET Switches.detect, report : SUBSET (Switches.report \cup {"json"}),
   runtime : SUBSET (Switches.runtime \cup {"curr-dir"})]

(* Between two options every field is within its range; the flag for the   *)
(* current directory is set at the end only.                               *)
CliInv ==
  /\ config \in Configs
  /\ action = "parsing" => "curr-dir" \notin config.runtime
  /\ threads \in Nat \cup {NoThreads}
  /\ cores \in Int
  /\ AcceptedConfigIsSound

LEMMA CliInvInit == CliInit => CliInv
  BY CoreCountsAssumption DEF CliInit, CliInv, Configs, anukrta_default_config, Switches, AcceptedConfigIsSound,
     AK_MAX_VIDEO_SEGMENTS, AK_HAMMING_MAX, AK_MAX_VERBOSITY, NoThreads

(* A switch has one field, and is one of the field's flags.                *)
LEMMA FieldOfSwitch ==
  ASSUME NEW name \in SwitchNames
  PROVE  FieldOf(name) \in DOMAIN Switches /\ name \in Switches[FieldOf(name)]
  BY DEF SwitchNames, FieldOf

LEMMA SetFlagInRange ==
  ASSUME NEW c \in Configs, NEW name \in SwitchNames, NEW enable \in BOOLEAN
  PROVE  /\ SetFlag(c, FieldOf(name), name, enable) \in Configs
         /\ "curr-dir" \notin c.runtime => "curr-dir" \notin SetFlag(c, FieldOf(name), name, enable).runtime
<1>1. CASE FieldOf(name) = "detect" /\ name \in Switches.detect
  BY <1>1 DEF SetFlag, Configs
<1>2. CASE FieldOf(name) = "report" /\ name \in Switches.report
  BY <1>2 DEF SetFlag, Configs
<1>3. CASE FieldOf(name) = "runtime" /\ name \in Switches.runtime
  <2>1. name # "curr-dir"
    BY <1>3 DEF Switches
  <2> QED
    BY <1>3, <2>1 DEF SetFlag, Configs
<1> QED
  BY <1>1, <1>2, <1>3, FieldOfSwitch DEF Switches

LEMMA NumberInRange ==
  ASSUME NEW value \in DOMAIN Numbers
  PROVE  Numbers[value] \in Int
  BY NumbersAssumption

(* An option that is accepted keeps the configuration within its range.    *)
LEMMA AppliedInRange ==
  ASSUME NEW c \in Configs, NEW name \in OptionNames \ NoArgument, NEW value, Accepts(name, value)
  PROVE  /\ Applied(c, name, value) \in Configs
         /\ "curr-dir" \notin c.runtime => "curr-dir" \notin Applied(c, name, value).runtime
         /\ name = "threads" => Numbers[value] \in Nat
<1>0. SwitchNames \cap (RequiredArgument \cup {"verbose"}) = {}
  BY DEF SwitchNames, Switches, RequiredArgument
<1> USE DEF RequiredArgument
<1>1. CASE name = "segments"
  BY <1>0, <1>1, NumberInRange DEF Applied, Accepts, IsNumber, Configs
<1>2. CASE name = "threshold"
  BY <1>0, <1>2, NumberInRange DEF Applied, Accepts, IsNumber, Configs
<1>3. CASE name \in {"threads", "skip-duration"}
  <2>1. value \in DOMAIN Numbers /\ Numbers[value] >= 0
    BY <1>0, <1>3 DEF Accepts
  <2>2. Numbers[value] \in Nat
    BY <2>1, NumberInRange
  <2>3. Applied(c, name, value) = IF name = "threads" THEN c ELSE [c EXCEPT !.skip_duration = Numbers[value]]
    BY <1>0, <1>3 DEF Applied
  <2> QED
    BY <2>2, <2>3 DEF Configs
<1>4. CASE name = "verbose"
  <2>1. CASE value = NoValue
    BY <1>0, <1>4, <2>1 DEF Applied, verbose_opt, Configs, AK_MAX_VERBOSITY
  <2>2. CASE value # NoValue
    BY <1>0, <1>4, <2>2, NumberInRange DEF Applied, Accepts, IsNumber, verbose_opt, Configs
  <2> QED
    BY <2>1, <2>2
<1>5. CASE name = "format"
  BY <1>0, <1>5 DEF Applied, SetFlag, Configs
<1>6. CASE name \in SwitchNames
  <2>1. name \notin {"segments", "threshold", "skip-duration", "threads", "verbose", "format"}
    BY <1>6 DEF SwitchNames, Switches
  <2>2. Applied(c, name, value) = SetFlag(c, FieldOf(name), name, value \notin FalseWords)
    BY <1>6, <2>1 DEF Applied
  <2>3. (value \notin FalseWords) \in BOOLEAN
    OBVIOUS
  <2> QED
    BY <1>6, <2>1, <2>2, <2>3, SetFlagInRange
<1> QED
  BY <1>1, <1>2, <1>3, <1>4, <1>5, <1>6 DEF OptionNames, NoArgument, RequiredArgument

LEMMA ReturnKeeps ==
  ASSUME CliInv, NEW verdict, verdict \notin {"parsing", "RUN"}, Return(verdict)
  PROVE  CliInv'
  BY DEF CliInv, Return, AcceptedConfigIsSound, get_available_threads

LEMMA DispatchKeeps ==
  ASSUME CliInv, action = "parsing", NEW name \in OptionNames, NEW value, NEW next, NEW nextLetter,
         Dispatch(name, value, next, nextLetter)
  PROVE  CliInv'
<1>1. CASE \E verdict \in {"EXIT_OK", "EXIT_FAIL", "UNREACHABLE"} : Return(verdict)
  BY <1>1, ReturnKeeps
<1>2. CASE /\ name \notin NoArgument /\ Accepts(name, value)
           /\ config' = Applied(config, name, value)
           /\ threads' = IF name = "threads" THEN Numbers[value] ELSE threads
           /\ UNCHANGED <<cores, action>>
  <2>1. config' \in Configs /\ "curr-dir" \notin config'.runtime
    BY <1>2, AppliedInRange DEF CliInv
  <2>2. threads' \in Nat \cup {NoThreads}
    BY <1>2, AppliedInRange DEF CliInv
  <2> QED
    BY <1>2, <2>1, <2>2 DEF CliInv, AcceptedConfigIsSound
<1> QED
  BY <1>1, <1>2 DEF Dispatch

LEMMA WithValueKeeps ==
  ASSUME CliInv, action = "parsing", NEW name \in OptionNames, NEW attached,
         WithValue(name, attached)
  PROVE  CliInv'
  BY DispatchKeeps, ReturnKeeps DEF WithValue

(* The number of threads is at least one and fits its 8 bits.              *)
LEMMA ThreadsResolved ==
  ASSUME CliInv
  PROVE  resolve_threads \in 1 .. Smaller(get_available_threads, UINT8_MAX)
  BY DEF CliInv, resolve_threads, get_available_threads, Smaller, UINT8_MAX, NoThreads

LEMMA CliInvStep == CliInv /\ [Parse]_cliVars => CliInv'
<1> SUFFICES ASSUME CliInv, [Parse]_cliVars PROVE CliInv'
  OBVIOUS
<1>1. CASE UNCHANGED cliVars
  BY <1>1 DEF cliVars, CliInv, AcceptedConfigIsSound, get_available_threads
<1>2. CASE LongOption
  BY <1>2, WithValueKeeps, ReturnKeeps DEF LongOption, AtArgument
<1>3. CASE ShortOption
  <2> DEFINE name == Shorts[argv[optind].letters[letter]]
  <2>1. argv[optind].letters[letter] \in DOMAIN Shorts => name \in OptionNames
    BY DEF Shorts, OptionNames, NoArgument, RequiredArgument
  <2> QED
    BY <1>3, <2>1, WithValueKeeps, DispatchKeeps, ReturnKeeps DEF ShortOption, AtArgument
<1>4. CASE PassWord
  BY <1>4 DEF PassWord, AtArgument, CliInv, AcceptedConfigIsSound
<1>5. CASE OptionsEnd
  <2>1. /\ config' = [config EXCEPT !.thread_count = resolve_threads,
                                    !.runtime = IF paths' = <<>> THEN @ \cup {"curr-dir"} ELSE @]
        /\ action = "parsing" /\ action' = "RUN" /\ UNCHANGED <<cores, threads>>
    BY <1>5 DEF OptionsEnd
  <2>2. resolve_threads \in Nat /\ resolve_threads \in 1 .. Smaller(get_available_threads, UINT8_MAX)
    BY ThreadsResolved DEF CliInv, Smaller, get_available_threads, UINT8_MAX
  <2>3. config' \in Configs
    BY <2>1, <2>2 DEF CliInv, Configs
  <2>4. config'.thread_count = resolve_threads /\ ((paths' = <<>>) <=> ("curr-dir" \in config'.runtime))
    BY <2>1 DEF CliInv, Configs
  <2>5. get_available_threads' = get_available_threads
    BY <2>1 DEF get_available_threads
  <2>6. AcceptedConfigIsSound'
    BY <2>2, <2>3, <2>4, <2>5 DEF AcceptedConfigIsSound, Configs
  <2> QED
    BY <2>1, <2>3, <2>6 DEF CliInv
<1> QED
  BY <1>1, <1>2, <1>3, <1>4, <1>5 DEF Parse

(* A configuration that is accepted is within the ranges the rest of the   *)
(* program asserts, for any arguments and any number of cores              *)
(* (ak_cli_parse and resolve_threads).                                     *)
THEOREM AcceptedConfigsAreSound == CliSpec => []AcceptedConfigIsSound
<1>1. CliInv => AcceptedConfigIsSound
  BY DEF CliInv
<1> QED
  BY <1>1, CliInvInit, CliInvStep, PTL DEF CliSpec

-----------------------------------------------------------------------------
(***************************************************************************)
(* The last use of an option                                               *)
(***************************************************************************)

(* The options that were applied, each with the value it came with.        *)
Values == DOMAIN Numbers \cup TrueWords \cup FalseWords \cup {NoValue, "json", "text"}
Uses == {u \in (OptionNames \ NoArgument) \X Values : Accepts(u[1], u[2])}

LEMMA SwitchesApart == SwitchNames \cap (RequiredArgument \cup {"verbose"}) = {}
  BY DEF SwitchNames, Switches, RequiredArgument

LEMMA AcceptedIsUse ==
  ASSUME NEW name \in OptionNames \ NoArgument, NEW value, Accepts(name, value)
  PROVE  <<name, value>> \in Uses
<1>1. value \in Values
  <2>1. CASE name \in {"segments", "threshold", "threads", "skip-duration", "format", "verbose"}
    BY <2>1, SwitchesApart DEF Accepts, IsNumber, Values, RequiredArgument
  <2>2. CASE name \in SwitchNames
    BY <2>2, SwitchesApart DEF Accepts, Values, RequiredArgument
  <2> QED
    BY <2>1, <2>2 DEF OptionNames, NoArgument, RequiredArgument
<1> QED
  BY <1>1 DEF Uses

PositionsOf(s, name) == {k \in DOMAIN s : s[k][1] = name}

LastIn(s, name, default) ==
  IF PositionsOf(s, name) = {} THEN default
  ELSE s[CHOOSE k \in PositionsOf(s, name) : \A j \in PositionsOf(s, name) : j <= k][2]

LEMMA LastIsLastIn == \A name, default : LastValue(name, default) = LastIn(applied, name, default)
  BY DEF LastValue, LastIn, PositionsOf

LEMMA NextLastIsLastIn ==
  \A name, default : LastValue(name, default)' = LastIn(applied', name, default)
  BY DEF LastValue, LastIn, PositionsOf

LEMMA AppendFacts ==
  ASSUME NEW S, NEW s \in Seq(S), NEW u \in S
  PROVE  /\ Append(s, u) \in Seq(S)
         /\ Len(s) \in Nat /\ DOMAIN s = 1 .. Len(s)
         /\ DOMAIN Append(s, u) = 1 .. (Len(s) + 1)
         /\ Append(s, u)[Len(s) + 1] = u
         /\ \A k \in 1 .. Len(s) : Append(s, u)[k] = s[k]
  OBVIOUS

LEMMA LastAfterAppend ==
  ASSUME NEW s \in Seq(Uses), NEW u \in Uses, NEW name, NEW default
  PROVE  LastIn(Append(s, u), name, default) = IF name = u[1] THEN u[2] ELSE LastIn(s, name, default)
<1> DEFINE l == Len(s)
           t == Append(s, u)
<1>1. /\ l \in Nat /\ DOMAIN s = 1 .. l /\ DOMAIN t = 1 .. (l + 1)
      /\ t[l + 1] = u /\ \A k \in 1 .. l : t[k] = s[k]
  BY AppendFacts
<1> HIDE DEF l, t
<1>2. CASE name = u[1]
  <2>1. l + 1 \in PositionsOf(t, name)
    BY <1>1, <1>2 DEF PositionsOf
  <2>2. \A j \in PositionsOf(t, name) : j <= l + 1
    BY <1>1 DEF PositionsOf
  <2> DEFINE k == CHOOSE k \in PositionsOf(t, name) : \A j \in PositionsOf(t, name) : j <= k
  <2>3. k \in PositionsOf(t, name) /\ \A j \in PositionsOf(t, name) : j <= k
    BY <2>1, <2>2, Zenon
  <2>4. k = l + 1
    <3>1. k <= l + 1 /\ l + 1 <= k /\ k \in 1 .. (l + 1)
      BY <1>1, <2>1, <2>2, <2>3 DEF PositionsOf
    <3> QED
      BY <1>1, <3>1
  <2>5. LastIn(t, name, default) = t[k][2]
    BY <2>1 DEF LastIn
  <2> QED
    BY <1>1, <1>2, <2>4, <2>5 DEF t
<1>3. CASE name # u[1]
  <2>1. PositionsOf(t, name) = PositionsOf(s, name)
    BY <1>1, <1>3 DEF PositionsOf
  <2>2. CASE PositionsOf(s, name) = {}
    BY <1>3, <2>1, <2>2 DEF LastIn, t
  <2>3. CASE PositionsOf(s, name) # {}
    <3> DEFINE k == CHOOSE k \in PositionsOf(s, name) : \A j \in PositionsOf(s, name) : j <= k
    <3>1. \E j \in PositionsOf(s, name) : \A i \in PositionsOf(s, name) : i <= j
      <4>1. PositionsOf(s, name) \subseteq 0 .. l
        BY <1>1 DEF PositionsOf
      <4> QED
        BY <1>1, <2>3, <4>1, HasLast
    <3>2. k \in PositionsOf(s, name)
      BY <3>1, Zenon
    <3>3. LastIn(s, name, default) = s[k][2] /\ LastIn(t, name, default) = t[k][2]
      BY <2>1, <2>3 DEF LastIn
    <3>4. t[k] = s[k]
      BY <1>1, <3>2 DEF PositionsOf
    <3> QED
      BY <1>3, <3>3, <3>4 DEF t
  <2> QED
    BY <2>2, <2>3
<1> QED
  BY <1>2, <1>3

-----------------------------------------------------------------------------
(* What an accepted option does to each field.                             *)
NumberFields(c, d, name, value) ==
  /\ d.segments = IF name = "segments" THEN Numbers[value] ELSE c.segments
  /\ d.threshold = IF name = "threshold" THEN Numbers[value] ELSE c.threshold
  /\ d.skip_duration = IF name = "skip-duration" THEN Numbers[value] ELSE c.skip_duration
  /\ d.verbosity = IF name # "verbose" THEN c.verbosity
                   ELSE IF value # NoValue THEN Numbers[value]
                   ELSE IF c.verbosity < AK_MAX_VERBOSITY THEN c.verbosity + 1 ELSE c.verbosity

FlagFields(c, d, name, value) ==
  /\ ("json" \in d.report) <=> (IF name = "format" THEN value = "json" ELSE "json" \in c.report)
  /\ \A n \in SwitchNames :
       (n \in d[FieldOf(n)]) <=> (IF n = name THEN value \notin FalseWords ELSE n \in c[FieldOf(n)])

LEMMA FieldsOfApplied ==
  ASSUME NEW c \in Configs, NEW name \in OptionNames \ NoArgument, NEW value, Accepts(name, value)
  PROVE  /\ NumberFields(c, Applied(c, name, value), name, value)
         /\ FlagFields(c, Applied(c, name, value), name, value)
<1> DEFINE d == Applied(c, name, value)
<1>0. \A n \in SwitchNames : n \notin RequiredArgument \cup {"verbose"} /\ FieldOf(n) \in {"detect", "report", "runtime"}
  BY SwitchesApart, FieldOfSwitch DEF Switches
<1>1. CASE name \in {"segments", "threshold", "skip-duration", "verbose"}
  <2>2. NumberFields(c, d, name, value)
    BY <1>0, <1>1 DEF Applied, verbose_opt, NumberFields, Configs, RequiredArgument
  <2>3. d.report = c.report /\ d.detect = c.detect /\ d.runtime = c.runtime
    BY <1>0, <1>1 DEF Applied, verbose_opt, Configs, RequiredArgument
  <2>4. FlagFields(c, d, name, value)
    <3>1. \A n \in SwitchNames : n # name /\ d[FieldOf(n)] = c[FieldOf(n)]
      BY <1>0, <1>1, <2>3 DEF RequiredArgument
    <3> QED
      BY <1>1, <2>3, <3>1 DEF FlagFields
  <2> QED
    BY <2>2, <2>4
<1>2. CASE name = "threads"
  <2>1. d = c
    BY <1>0, <1>2 DEF Applied, RequiredArgument
  <2> QED
    BY <1>0, <1>2, <2>1 DEF NumberFields, FlagFields, RequiredArgument
<1>3. CASE name = "format"
  <2>1. d = [c EXCEPT !.report = IF value = "json" THEN @ \cup {"json"} ELSE @ \ {"json"}]
    BY <1>0, <1>3 DEF Applied, SetFlag, RequiredArgument
  <2>2. NumberFields(c, d, name, value)
    BY <1>3, <2>1 DEF NumberFields, Configs
  <2>3. d.report = (IF value = "json" THEN c.report \cup {"json"} ELSE c.report \ {"json"}) /\ d.detect = c.detect /\ d.runtime = c.runtime
    BY <2>1 DEF Configs
  <2>4. \A n \in SwitchNames : n # name /\ n # "json"
    BY <1>3 DEF SwitchNames, Switches
  <2>5. \A n \in SwitchNames : (n \in d[FieldOf(n)]) <=> (n \in c[FieldOf(n)])
    BY <1>0, <2>3, <2>4
  <2> QED
    BY <1>3, <2>2, <2>3, <2>4, <2>5 DEF FlagFields
<1>4. CASE name \in SwitchNames
  <2>1. name \notin {"segments", "threshold", "skip-duration", "threads", "verbose", "format"}
    BY <1>4 DEF SwitchNames, Switches
  <2>2. d = SetFlag(c, FieldOf(name), name, value \notin FalseWords)
    BY <1>4, <2>1 DEF Applied
  <2>3. d = [c EXCEPT ![FieldOf(name)] = IF value \notin FalseWords THEN @ \cup {name} ELSE @ \ {name}]
    BY <2>2 DEF SetFlag
  <2>4. NumberFields(c, d, name, value)
    BY <1>0, <1>4, <2>1, <2>3 DEF NumberFields, Configs
  <2>5. ("json" \in d.report) <=> ("json" \in c.report)
    <3>1. name # "json"
      BY <1>4 DEF SwitchNames, Switches
    <3> QED
      BY <1>0, <1>4, <2>3, <3>1 DEF Configs
  <2>6. ASSUME NEW n \in SwitchNames
        PROVE  (n \in d[FieldOf(n)]) <=> (IF n = name THEN value \notin FalseWords ELSE n \in c[FieldOf(n)])
    <3>1. FieldOf(n) \in DOMAIN c
      BY <1>0 DEF Configs
    <3>2. CASE FieldOf(n) = FieldOf(name)
      <4>1. d[FieldOf(n)] = IF value \notin FalseWords THEN c[FieldOf(n)] \cup {name} ELSE c[FieldOf(n)] \ {name}
        BY <2>3, <3>1, <3>2
      <4> QED
        BY <4>1
    <3>3. CASE FieldOf(n) # FieldOf(name)
      <4>1. d[FieldOf(n)] = c[FieldOf(n)]
        BY <2>3, <3>1, <3>3
      <4> QED
        BY <3>3, <4>1
    <3> QED
      BY <3>2, <3>3
  <2> QED
    BY <2>1, <2>4, <2>5, <2>6 DEF FlagFields
<1> QED
  BY <1>1, <1>2, <1>3, <1>4 DEF OptionNames, NoArgument, RequiredArgument

-----------------------------------------------------------------------------
(* LastOptionWins in parts: the numbers, the flags and the verbosity.      *)
LastNumbers ==
  /\ config.segments = LastNumber("segments", 3)
  /\ config.threshold = LastNumber("threshold", 8)
  /\ config.skip_duration = LastNumber("skip-duration", 3)
  /\ threads = LastNumber("threads", NoThreads)

LastFlags ==
  /\ ("json" \in config.report) <=> (LastValue("format", "text") = "json")
  /\ \A name \in SwitchNames :
       (name \in config[FieldOf(name)]) <=>
         (LastValue(name, IF name = "print-hashes" THEN "no" ELSE "yes") \notin FalseWords)

Bare == <<"verbose", NoValue>>
Levels(s) == {k \in DOMAIN s : s[k][1] = "verbose" /\ s[k][2] # NoValue}
LastLevel(s) == IF Levels(s) = {} THEN 0 ELSE CHOOSE k \in Levels(s) : \A j \in Levels(s) : j <= k
BareUses(s) == {k \in DOMAIN s : s[k] = Bare /\ k > LastLevel(s)}
Level(s) == IF LastLevel(s) = 0 THEN 0 ELSE Numbers[s[LastLevel(s)][2]]

LastVerbosity == config.verbosity = Smaller(AK_MAX_VERBOSITY, Level(applied) + Cardinality(BareUses(applied)))

LEMMA LastOptionInParts == LastOptionWins <=> LastNumbers /\ LastFlags /\ LastVerbosity
  BY DEF LastOptionWins, LastNumbers, LastFlags, LastVerbosity, Levels, LastLevel, BareUses, Level, Bare

LEMMA NextLastOptionInParts == LastOptionWins' <=> LastNumbers' /\ LastFlags' /\ LastVerbosity'
  BY DEF LastOptionWins, LastNumbers, LastFlags, LastVerbosity, Levels, LastLevel, BareUses, Level, Bare

(* An explicit level starts the count anew, a bare one adds to it.         *)
LEMMA LevelFacts ==
  ASSUME NEW s \in Seq(Uses)
  PROVE  /\ LastLevel(s) \in 0 .. Len(s)
         /\ Level(s) \in Int
         /\ IsFiniteSet(BareUses(s)) /\ Cardinality(BareUses(s)) \in Nat
         /\ BareUses(s) \subseteq 1 .. Len(s)
<1>1. Len(s) \in Nat /\ DOMAIN s = 1 .. Len(s) /\ \A k \in 1 .. Len(s) : s[k] \in Uses
  OBVIOUS
<1>2. LastLevel(s) \in 0 .. Len(s) /\ (LastLevel(s) # 0 => LastLevel(s) \in Levels(s))
  <2>1. CASE Levels(s) = {}
    BY <1>1, <2>1 DEF LastLevel
  <2>2. CASE Levels(s) # {}
    <3>1. \E j \in Levels(s) : \A i \in Levels(s) : i <= j
      <4>1. Levels(s) \subseteq 0 .. Len(s)
        BY <1>1 DEF Levels
      <4> QED
        BY <1>1, <2>2, <4>1, HasLast
    <3>2. LastLevel(s) \in Levels(s)
      BY <2>2, <3>1, Zenon DEF LastLevel
    <3> QED
      BY <1>1, <3>2 DEF Levels
  <2> QED
    BY <2>1, <2>2
<1>3. Level(s) \in Int
  <2>1. CASE LastLevel(s) = 0
    BY <2>1 DEF Level
  <2>2. CASE LastLevel(s) # 0
    <3> DEFINE k == LastLevel(s)
    <3>1. k \in 1 .. Len(s) /\ s[k][1] = "verbose" /\ s[k][2] # NoValue
      BY <1>1, <1>2, <2>2 DEF Levels
    <3>2. s[k] \in Uses
      BY <1>1, <3>1
    <3>3. Accepts("verbose", s[k][2])
      BY <3>1, <3>2 DEF Uses
    <3>4. s[k][2] \in DOMAIN Numbers
      BY <3>1, <3>3, SwitchesApart DEF Accepts, IsNumber
    <3> QED
      BY <2>2, <3>4, NumberInRange DEF Level
  <2> QED
    BY <2>1, <2>2
<1>4. BareUses(s) \subseteq 1 .. Len(s)
  BY <1>1 DEF BareUses
<1>5. IsFiniteSet(1 .. Len(s))
  BY <1>1, FS_Interval
<1> QED
  BY <1>2, <1>3, <1>4, <1>5, FS_Subset, FS_CardinalityType

LEMMA LevelAfterAppend ==
  ASSUME NEW s \in Seq(Uses), NEW u \in Uses
  PROVE  LET t == Append(s, u)
             bare == Cardinality(BareUses(s))
             bareThen == Cardinality(BareUses(t))
         IN  /\ u[1] # "verbose" => Level(t) = Level(s) /\ bareThen = bare
             /\ u[1] = "verbose" /\ u[2] # NoValue => Level(t) = Numbers[u[2]] /\ bareThen = 0
             /\ u[1] = "verbose" /\ u[2] = NoValue => Level(t) = Level(s) /\ bareThen = bare + 1
<1> DEFINE l == Len(s)
           t == Append(s, u)
<1>1. /\ l \in Nat /\ DOMAIN s = 1 .. l /\ DOMAIN t = 1 .. (l + 1)
      /\ t[l + 1] = u /\ (\A k \in 1 .. l : t[k] = s[k]) /\ t \in Seq(Uses) /\ Len(t) = l + 1
  BY AppendFacts
<1>2. LastLevel(s) \in 0 .. l /\ IsFiniteSet(BareUses(s)) /\ BareUses(s) \subseteq 1 .. l
  BY LevelFacts
<1>3. u = <<u[1], u[2]>>
  BY DEF Uses
<1> HIDE DEF l, t
<1>4. CASE ~(u[1] = "verbose" /\ u[2] # NoValue)
  <2>1. Levels(t) = Levels(s)
    BY <1>1, <1>4 DEF Levels
  <2>2. LastLevel(t) = LastLevel(s)
    BY <2>1 DEF LastLevel
  <2>3. Level(t) = Level(s)
    <3>1. LastLevel(s) # 0 => LastLevel(s) \in 1 .. l
      BY <1>1, <1>2
    <3> QED
      BY <1>1, <2>2, <3>1 DEF Level
  <2>4. CASE u[1] # "verbose"
    <3>1. u # Bare
      BY <2>4 DEF Bare
    <3>2. BareUses(t) = BareUses(s)
      BY <1>1, <2>2, <3>1 DEF BareUses
    <3> QED
      BY <2>3, <2>4, <3>2 DEF t
  <2>5. CASE u[1] = "verbose"
    <3>1. u = Bare
      BY <1>3, <1>4, <2>5 DEF Bare
    <3>2. BareUses(t) = BareUses(s) \cup {l + 1}
      BY <1>1, <1>2, <2>2, <3>1 DEF BareUses
    <3>3. l + 1 \notin BareUses(s)
      BY <1>1, <1>2
    <3>4. Cardinality(BareUses(t)) = Cardinality(BareUses(s)) + 1
      BY <1>2, <3>2, <3>3, FS_AddElement
    <3> QED
      BY <1>4, <2>3, <2>5, <3>4 DEF t
  <2> QED
    BY <2>4, <2>5
<1>5. CASE u[1] = "verbose" /\ u[2] # NoValue
  <2>1. l + 1 \in Levels(t) /\ \A j \in Levels(t) : j <= l + 1
    BY <1>1, <1>5 DEF Levels
  <2>2. LastLevel(t) \in Levels(t) /\ \A j \in Levels(t) : j <= LastLevel(t)
    <3>1. LastLevel(t) = CHOOSE k \in Levels(t) : \A j \in Levels(t) : j <= k
      BY <2>1 DEF LastLevel
    <3> QED
      BY <2>1, <3>1, Zenon
  <2>3. LastLevel(t) = l + 1
    <3>1. LastLevel(t) <= l + 1 /\ l + 1 <= LastLevel(t) /\ LastLevel(t) \in 1 .. (l + 1)
      BY <1>1, <2>1, <2>2 DEF Levels
    <3> QED
      BY <1>1, <3>1
  <2>4. BareUses(t) = {}
    BY <1>1, <2>3 DEF BareUses
  <2>5. Level(t) = Numbers[u[2]]
    BY <1>1, <2>3 DEF Level
  <2>6. Cardinality(BareUses(t)) = 0
    BY <2>4, FS_EmptySet
  <2> QED
    BY <1>5, <2>5, <2>6 DEF t
<1> QED
  BY <1>4, <1>5

-----------------------------------------------------------------------------
LastInv ==
  /\ CliInv
  /\ applied \in Seq(Uses)
  /\ LastOptionWins

LEMMA LastOptionInit == CliInit => LastInv
<1> SUFFICES ASSUME CliInit PROVE LastInv
  OBVIOUS
<1>1. applied = <<>> /\ config = anukrta_default_config /\ threads = NoThreads
  BY DEF CliInit
<1>2. \A name, default : LastValue(name, default) = default
  BY <1>1 DEF LastValue
<1>3. LastNumbers
  <2>1. \A name, default : LastNumber(name, default) = default
    BY <1>2 DEF LastNumber
  <2> QED
    BY <1>1, <2>1 DEF LastNumbers, anukrta_default_config
<1>4. LastFlags
  <2>1. config.report = Switches.report \ {"print-hashes"} /\ config.detect = Switches.detect /\ config.runtime = Switches.runtime
    BY <1>1 DEF anukrta_default_config
  <2>2. "json" \notin config.report
    BY <2>1 DEF Switches
  <2>3. ASSUME NEW name \in SwitchNames
        PROVE  (name \in config[FieldOf(name)]) <=> name # "print-hashes"
    <3>1. CASE name = "print-hashes"
      <4>1. FieldOf(name) = "report"
        BY <2>3, <3>1, FieldOfSwitch DEF Switches
      <4> QED
        BY <2>1, <3>1, <4>1
    <3>2. CASE name # "print-hashes"
      <4>1. FieldOf(name) \in {"detect", "report", "runtime"} /\ name \in Switches[FieldOf(name)]
        BY <2>3, FieldOfSwitch DEF Switches
      <4>2. CASE FieldOf(name) = "detect"
        BY <2>1, <3>2, <4>1, <4>2
      <4>3. CASE FieldOf(name) = "report"
        BY <2>1, <3>2, <4>1, <4>3
      <4>4. CASE FieldOf(name) = "runtime"
        BY <2>1, <3>2, <4>1, <4>4
      <4> QED
        BY <4>1, <4>2, <4>3, <4>4
    <3> QED
      BY <3>1, <3>2
  <2>4. "no" \in FalseWords /\ "yes" \notin FalseWords
    BY DEF FalseWords
  <2> QED
    BY <1>2, <2>2, <2>3, <2>4 DEF LastFlags
<1>5. LastVerbosity
  <2>1. Levels(<<>>) = {} /\ BareUses(<<>>) = {}
    BY DEF Levels, BareUses
  <2>2. Level(<<>>) = 0 /\ Cardinality(BareUses(<<>>)) = 0
    BY <2>1, FS_EmptySet DEF Level, LastLevel
  <2> QED
    BY <1>1, <2>2 DEF LastVerbosity, anukrta_default_config, Smaller, AK_MAX_VERBOSITY
<1>6. applied \in Seq(Uses)
  BY <1>1
<1> QED
  BY <1>3, <1>4, <1>5, <1>6, CliInvInit, LastOptionInParts DEF LastInv

LEMMA LastOptionApplied ==
  ASSUME LastInv, NEW name \in OptionNames \ NoArgument, NEW value, Accepts(name, value),
         config' = Applied(config, name, value),
         threads' = IF name = "threads" THEN Numbers[value] ELSE threads,
         applied' = Append(applied, <<name, value>>)
  PROVE  applied' \in Seq(Uses) /\ LastOptionWins'
<1> DEFINE u == <<name, value>>
<1>1. u \in Uses /\ applied \in Seq(Uses) /\ config \in Configs /\ u[1] = name /\ u[2] = value
  BY AcceptedIsUse DEF LastInv, CliInv
<1>2. applied' \in Seq(Uses)
  BY <1>1, AppendFacts
<1>3. NumberFields(config, config', name, value) /\ FlagFields(config, config', name, value)
  BY <1>1, FieldsOfApplied
<1>4. \A n, default : LastValue(n, default)' = IF n = name THEN value ELSE LastValue(n, default)
  BY <1>1, LastAfterAppend, LastIsLastIn, NextLastIsLastIn
<1>5. LastNumbers /\ LastFlags /\ LastVerbosity
  BY LastOptionInParts DEF LastInv
<1>6. LastNumbers'
  <2>1. name \in {"segments", "threshold", "skip-duration", "threads"} => value # NoValue
    BY NoValueAssumption, SwitchesApart DEF Accepts, IsNumber, RequiredArgument
  <2>2. \A n \in {"segments", "threshold", "skip-duration", "threads"} : \A default :
          LastNumber(n, default)' = IF n = name THEN Numbers[value] ELSE LastNumber(n, default)
    BY <1>4, <2>1 DEF LastNumber
  <2> QED
    BY <1>3, <1>5, <2>2 DEF LastNumbers, NumberFields
<1>7. LastFlags'
  BY <1>3, <1>4, <1>5 DEF LastFlags, FlagFields
<1>8. LastVerbosity'
  <2> DEFINE level == Level(applied)
             bare == Cardinality(BareUses(applied))
             levelThen == Level(applied')
             bareThen == Cardinality(BareUses(applied'))
  <2>1. level \in Int /\ bare \in Nat
    BY <1>1, LevelFacts
  <2>2. /\ name # "verbose" => levelThen = level /\ bareThen = bare
        /\ name = "verbose" /\ value # NoValue => levelThen = Numbers[value] /\ bareThen = 0
        /\ name = "verbose" /\ value = NoValue => levelThen = level /\ bareThen = bare + 1
    BY <1>1, LevelAfterAppend
  <2>3. config.verbosity = Smaller(AK_MAX_VERBOSITY, level + bare)
    BY <1>5 DEF LastVerbosity
  <2>4. name = "verbose" /\ value # NoValue => Numbers[value] \in 0 .. AK_MAX_VERBOSITY
    BY SwitchesApart DEF Accepts, IsNumber
  <2> HIDE DEF level, bare, levelThen, bareThen
  <2>5. config'.verbosity = Smaller(AK_MAX_VERBOSITY, levelThen + bareThen)
    BY <1>3, <2>1, <2>2, <2>3, <2>4 DEF NumberFields, Smaller, AK_MAX_VERBOSITY
  <2> QED
    BY <2>5 DEF LastVerbosity, levelThen, bareThen
<1> QED
  BY <1>2, <1>6, <1>7, <1>8, NextLastOptionInParts

LEMMA LastOptionUnchanged ==
  ASSUME LastInv, UNCHANGED <<config, threads, applied>>
  PROVE  applied' \in Seq(Uses) /\ LastOptionWins'
<1>1. LastNumbers /\ LastFlags /\ LastVerbosity
  BY LastOptionInParts DEF LastInv
<1>2. \A n, default : LastValue(n, default)' = LastValue(n, default)
  BY DEF LastValue
<1>3. \A n, default : LastNumber(n, default)' = LastNumber(n, default)
  BY <1>2 DEF LastNumber
<1>4. LastNumbers'
  BY <1>1, <1>3 DEF LastNumbers
<1>5. LastFlags'
  BY <1>1, <1>2 DEF LastFlags
<1>6. LastVerbosity'
  BY <1>1 DEF LastVerbosity
<1> QED
  BY <1>4, <1>5, <1>6, NextLastOptionInParts DEF LastInv

LEMMA LastOptionDispatched ==
  ASSUME LastInv, NEW name \in OptionNames, NEW value, NEW next, NEW nextLetter,
         Dispatch(name, value, next, nextLetter)
  PROVE  applied' \in Seq(Uses) /\ LastOptionWins'
<1>1. CASE \E verdict : Return(verdict)
  BY <1>1, LastOptionUnchanged DEF Return
<1>2. CASE /\ name \notin NoArgument /\ Accepts(name, value)
           /\ config' = Applied(config, name, value)
           /\ threads' = IF name = "threads" THEN Numbers[value] ELSE threads
           /\ applied' = Append(applied, <<name, value>>)
  BY <1>2, LastOptionApplied
<1> QED
  BY <1>1, <1>2 DEF Dispatch

LEMMA LastOptionReturned ==
  ASSUME LastInv, NEW verdict, Return(verdict)
  PROVE  applied' \in Seq(Uses) /\ LastOptionWins'
  BY LastOptionUnchanged DEF Return

LEMMA LastOptionWithValue ==
  ASSUME LastInv, NEW name \in OptionNames, NEW attached, WithValue(name, attached)
  PROVE  applied' \in Seq(Uses) /\ LastOptionWins'
  BY LastOptionDispatched, LastOptionReturned DEF WithValue

LEMMA LastOptionStep == LastInv /\ [Parse]_cliVars => LastInv'
<1> SUFFICES ASSUME LastInv, [Parse]_cliVars PROVE LastInv'
  OBVIOUS
<1>1. CliInv'
  BY CliInvStep DEF LastInv
<1>4. CASE UNCHANGED cliVars \/ PassWord
  <2>1. UNCHANGED <<config, threads, applied>>
    BY <1>4 DEF cliVars, PassWord
  <2> QED
    BY <1>1, <2>1, LastOptionUnchanged DEF LastInv
<1>5. CASE LongOption
  BY <1>1, <1>5, LastOptionReturned, LastOptionWithValue DEF LongOption, LastInv
<1>6. CASE ShortOption
  <2> DEFINE name == Shorts[argv[optind].letters[letter]]
  <2>1. argv[optind].letters[letter] \in DOMAIN Shorts => name \in OptionNames
    BY DEF Shorts, OptionNames, NoArgument, RequiredArgument
  <2> QED
    BY <1>1, <1>6, <2>1, LastOptionReturned, LastOptionWithValue, LastOptionDispatched DEF ShortOption, LastInv
<1>7. CASE OptionsEnd
  <2>1. /\ UNCHANGED <<threads, applied>>
        /\ \E c : config' = [config EXCEPT !.thread_count = resolve_threads,
                                          !.runtime = IF c THEN @ \cup {"curr-dir"} ELSE @]
    BY <1>7 DEF OptionsEnd
  <2>2. config \in Configs
    BY DEF LastInv, CliInv
  <2>3. /\ config'.segments = config.segments /\ config'.threshold = config.threshold
        /\ config'.skip_duration = config.skip_duration /\ config'.verbosity = config.verbosity
        /\ config'.report = config.report /\ config'.detect = config.detect
        /\ config'.runtime \in {config.runtime, config.runtime \cup {"curr-dir"}}
    BY <2>1, <2>2 DEF Configs
  <2>4. \A n, default : LastValue(n, default)' = LastValue(n, default)
    BY <2>1 DEF LastValue
  <2>5. \A n, default : LastNumber(n, default)' = LastNumber(n, default)
    BY <2>4 DEF LastNumber
  <2>6. \A n \in SwitchNames : (n \in config'[FieldOf(n)]) <=> (n \in config[FieldOf(n)])
    <3> SUFFICES ASSUME NEW n \in SwitchNames
                 PROVE  (n \in config'[FieldOf(n)]) <=> (n \in config[FieldOf(n)])
      OBVIOUS
    <3>1. n # "curr-dir"
      BY DEF SwitchNames, Switches
    <3>2. FieldOf(n) \in {"detect", "report", "runtime"}
      BY FieldOfSwitch DEF Switches
    <3> QED
      BY <2>3, <3>1, <3>2
  <2>7. LastNumbers /\ LastFlags /\ LastVerbosity
    BY LastOptionInParts DEF LastInv
  <2>8. LastNumbers' /\ LastFlags'
    BY <2>1, <2>3, <2>4, <2>5, <2>6, <2>7 DEF LastNumbers, LastFlags
  <2>9. LastVerbosity'
    BY <2>1, <2>3, <2>7 DEF LastVerbosity
  <2> QED
    BY <1>1, <2>1, <2>8, <2>9, NextLastOptionInParts DEF LastInv
<1> QED
  BY <1>1, <1>4, <1>5, <1>6, <1>7 DEF Parse, LastInv

(* Whatever the arguments, in every spelling and order, the configuration  *)
(* is the one the last use of each option asks for (ak_cli_parse).         *)
THEOREM LastOptionAlwaysWins == CliSpec => []LastOptionWins
<1>1. LastInv => LastOptionWins
  BY DEF LastInv
<1> QED
  BY <1>1, LastOptionInit, LastOptionStep, PTL DEF CliSpec

-----------------------------------------------------------------------------
(***************************************************************************)
(* Recursion and induction over an interval                                *)
(***************************************************************************)

(* A function that starts with base at a - 1 and takes a step F at every   *)
(* number up to b.                                                         *)
Iterates(f, a, b, base, F) ==
  f = [y \in (a - 1) .. b |-> IF y = a - 1 THEN base ELSE F[<<y, f[y - 1]>>]]

LEMMA IteratesExists ==
  ASSUME NEW a \in Int, NEW N \in Nat, NEW base, NEW F
  PROVE  \E f : Iterates(f, a, a - 1 + N, base, F)
<1> DEFINE T == {n \in Nat : ~\E f : Iterates(f, a, a - 1 + n, base, F)}
<1>1. SUFFICES ASSUME T # {} PROVE FALSE
  OBVIOUS
<1>2. PICK m \in T : \A n \in T : m <= n
  BY <1>1, LeastNat
<1>3. CASE m = 0
  <2> DEFINE f == [y \in (a - 1) .. (a - 1) |-> base]
  <2>1. f = [y \in (a - 1) .. (a - 1 + 0) |-> IF y = a - 1 THEN base ELSE F[<<y, f[y - 1]>>]]
    OBVIOUS
  <2> HIDE DEF f
  <2>2. Iterates(f, a, a - 1 + 0, base, F)
    BY <2>1 DEF Iterates
  <2> QED
    BY <1>2, <1>3, <2>2
<1>4. CASE m # 0
  <2>1. m - 1 \in Nat /\ m - 1 \notin T
    BY <1>2, <1>4
  <2>2. PICK f : Iterates(f, a, a - 1 + (m - 1), base, F)
    BY <2>1
  <2> DEFINE b == a - 1 + m
             g == [y \in (a - 1) .. b |-> IF y = b THEN F[<<b, f[b - 1]>>] ELSE f[y]]
  <2>3. b \in Int /\ a - 1 < b /\ a - 1 + (m - 1) = b - 1
    BY <1>4
  <2> HIDE DEF b
  <2>4. \A y \in (a - 1) .. (b - 1) : f[y] = IF y = a - 1 THEN base ELSE F[<<y, f[y - 1]>>]
    BY <2>2, <2>3 DEF Iterates
  <2>5. ASSUME NEW y \in (a - 1) .. b
        PROVE  g[y] = IF y = a - 1 THEN base ELSE F[<<y, g[y - 1]>>]
    <3>1. CASE y = b
      <4>1. g[y] = F[<<y, f[y - 1]>>] /\ g[y - 1] = f[y - 1] /\ y # a - 1
        BY <2>3, <3>1
      <4> QED
        BY <4>1
    <3>2. CASE y # b
      <4>1. y \in (a - 1) .. (b - 1) /\ (y # a - 1 => y - 1 \in (a - 1) .. b /\ y - 1 # b)
        BY <2>3, <3>2
      <4>2. g[y] = f[y] /\ (y # a - 1 => g[y - 1] = f[y - 1])
        BY <3>2, <4>1
      <4> QED
        BY <2>4, <4>1, <4>2
    <3> QED
      BY <3>1, <3>2
  <2>6. g = [y \in (a - 1) .. b |-> g[y]]
    OBVIOUS
  <2> HIDE DEF g
  <2>7. g = [y \in (a - 1) .. b |-> IF y = a - 1 THEN base ELSE F[<<y, g[y - 1]>>]]
    BY <2>5, <2>6
  <2>8. Iterates(g, a, a - 1 + m, base, F)
    BY <2>7 DEF Iterates, b
  <2> QED
    BY <1>2, <2>8
<1> QED
  BY <1>3, <1>4

(* Induction over an interval.                                             *)
LEMMA IntervalInduction ==
  ASSUME NEW a \in Int, NEW b \in Int, NEW S, a - 1 \in S,
         \A y \in a .. b : y - 1 \in S => y \in S
  PROVE  \A y \in (a - 1) .. b : y \in S
<1> DEFINE T == {n \in Nat : a - 1 + n \in (a - 1) .. b /\ a - 1 + n \notin S}
<1>1. SUFFICES ASSUME NEW y \in (a - 1) .. b, y \notin S PROVE FALSE
  OBVIOUS
<1>2. y - (a - 1) \in T
  BY <1>1
<1>3. PICK m \in T : \A n \in T : m <= n
  BY <1>2, LeastNat
<1>4. m # 0 /\ m \in Nat
  OBVIOUS
<1>5. m - 1 \notin T /\ m - 1 \in Nat
  BY <1>3, <1>4
<1>6. a - 1 + (m - 1) \in (a - 1) .. b /\ a - 1 + m \in a .. b /\ (a - 1 + m) - 1 = a - 1 + (m - 1)
  BY <1>4
<1>7. a - 1 + (m - 1) \in S
  BY <1>5, <1>6
<1> QED
  BY <1>3, <1>6, <1>7

-----------------------------------------------------------------------------
(***************************************************************************)
(* One frame: its black borders, and turning it                            *)
(***************************************************************************)

LEMMA PictureFacts ==
  ASSUME NEW p, IsPicture(p)
  PROVE  /\ Height(p) \in Nat \ {0} /\ Width(p) \in Nat \ {0}
         /\ Rows(p) = 0 .. (Height(p) - 1)
         /\ Columns(p) = 0 .. (Width(p) - 1)
         /\ \A y \in Rows(p), x \in Columns(p) : p[y][x] \in 0 .. 255
<1>1. p \in [0 .. (Height(p) - 1) -> [0 .. (Width(p) - 1) -> 0 .. 255]] /\ Height(p) \in Nat \ {0}
      /\ Width(p) \in Nat \ {0}
  BY DEF IsPicture
<1> DEFINE h == Height(p)
           w == Width(p)
<1> HIDE DEF h, w
<1>2. p \in [0 .. (h - 1) -> [0 .. (w - 1) -> 0 .. 255]] /\ h \in Nat \ {0} /\ w \in Nat \ {0}
  BY <1>1 DEF h, w
<1>3. DOMAIN p = 0 .. (h - 1) /\ 0 \in 0 .. (h - 1) /\ DOMAIN p[0] = 0 .. (w - 1)
  BY <1>2
<1>4. ASSUME NEW y \in 0 .. (h - 1), NEW x \in 0 .. (w - 1)
      PROVE  p[y][x] \in 0 .. 255
  <2>1. p[y] \in [0 .. (w - 1) -> 0 .. 255]
    BY <1>2
  <2> QED
    BY <2>1
<1> QED
  BY <1>1, <1>3, <1>4 DEF Rows, Columns, h, w

Lit(p, top, y) == {x \in Columns(p) : \E r \in top .. y : HasVideo(p, r, x)}

(* The sides after the rows from top to y.                                 *)
SidesOf(p, top, y, s) ==
  LET last == Width(p) - 1
  IN /\ s \in [left : 0 .. last, right : 0 .. last]
     /\ \A x \in Lit(p, top, y) : s.left <= x /\ x <= s.right
     /\ s.left = last \/ s.left \in Lit(p, top, y)
     /\ s.right = 0 \/ s.right \in Lit(p, top, y)

LEMMA NarrowedIsSides ==
  ASSUME NEW p, IsPicture(p), NEW top \in Nat, NEW y \in top .. (Height(p) - 1), NEW s,
         SidesOf(p, top, y - 1, s)
  PROVE  SidesOf(p, top, y, Narrowed(p, s, y))
<1> DEFINE last == Width(p) - 1
           ls == {x \in 0 .. (s.left - 1) : HasVideo(p, y, x)}
           rs == {x \in (s.right + 1) .. last : HasVideo(p, y, x)}
           left == IF ls = {} THEN s.left ELSE Least(ls)
           right == IF rs = {} THEN s.right ELSE Greatest(rs)
<1>1. last \in Nat /\ Columns(p) = 0 .. last
  BY PictureFacts
<1>2. s \in [left : 0 .. last, right : 0 .. last]
  BY DEF SidesOf
<1> DEFINE L == s.left
           R == s.right
<1>3. L \in 0 .. last /\ R \in 0 .. last
  BY <1>2
<1>4. /\ \A x \in Lit(p, top, y - 1) : L <= x /\ x <= R
      /\ L = last \/ L \in Lit(p, top, y - 1)
      /\ R = 0 \/ R \in Lit(p, top, y - 1)
  BY DEF SidesOf
<1>5. y \in Nat /\ top <= y
  OBVIOUS
<1>6. ASSUME NEW x \in 0 .. last
      PROVE  x \in Lit(p, top, y) <=> x \in Lit(p, top, y - 1) \/ HasVideo(p, y, x)
  <2>1. \A r : r \in top .. y <=> r \in top .. (y - 1) \/ r = y
    BY <1>5
  <2> QED
    BY <1>1, <2>1 DEF Lit
<1>7. \A x \in Lit(p, top, y) : x \in 0 .. last
  BY <1>1 DEF Lit
<1>8. CASE L = 0 /\ R = last
  <2>1. Narrowed(p, s, y) = s
    BY <1>8 DEF Narrowed
  <2>2. \A x \in Lit(p, top, y) : L <= x /\ x <= R
    BY <1>1, <1>7, <1>8
  <2>3. L = last \/ L \in Lit(p, top, y)
    BY <1>3, <1>4, <1>6
  <2>4. R = 0 \/ R \in Lit(p, top, y)
    BY <1>3, <1>4, <1>6
  <2> QED
    BY <1>2, <2>1, <2>2, <2>3, <2>4 DEF SidesOf
<1>9. CASE ~(L = 0 /\ R = last)
  <2>1. Narrowed(p, s, y) = [left |-> left, right |-> right]
    BY <1>9 DEF Narrowed
  <2>2. ls = {} \/ (left \in ls /\ \A x \in ls : left <= x)
    <3>1. ls \subseteq Nat
      BY <1>1, <1>3
    <3> HIDE DEF ls
    <3> QED
      BY <3>1, LeastIs
  <2>3. rs = {} \/ (right \in rs /\ \A x \in rs : x <= right)
    <3>1. rs \subseteq 0 .. last
      BY <1>1, <1>3
    <3> HIDE DEF rs, last
    <3> QED
      BY <1>1, <3>1, GreatestIs
  <2>4. left \in 0 .. last /\ left <= L /\ (left = L \/ HasVideo(p, y, left))
        /\ \A x \in 0 .. last : HasVideo(p, y, x) => left <= x
    <3>1. CASE ls = {}
      <4>1. left = L
        BY <3>1
      <4>2. \A x \in 0 .. last : HasVideo(p, y, x) => ~(x \in 0 .. (L - 1))
        BY <3>1
      <4> QED
        BY <1>1, <1>3, <4>1, <4>2
    <3>2. CASE ls # {}
      <4>1. left \in 0 .. (L - 1) /\ HasVideo(p, y, left) /\ \A x \in ls : left <= x
        BY <2>2, <3>2
      <4> HIDE DEF left
      <4>2. ASSUME NEW x \in 0 .. last, HasVideo(p, y, x) PROVE left <= x
        <5>1. CASE x \in 0 .. (L - 1)
          BY <4>1, <4>2, <5>1
        <5>2. CASE x \notin 0 .. (L - 1)
          BY <1>1, <1>3, <4>1, <5>2
        <5> QED
          BY <5>1, <5>2
      <4> QED
        BY <1>1, <1>3, <4>1, <4>2
    <3> QED
      BY <3>1, <3>2
  <2>5. right \in 0 .. last /\ R <= right /\ (right = R \/ HasVideo(p, y, right))
        /\ \A x \in 0 .. last : HasVideo(p, y, x) => x <= right
    <3>1. CASE rs = {}
      <4>1. right = R
        BY <3>1
      <4>2. \A x \in 0 .. last : HasVideo(p, y, x) => ~(x \in (R + 1) .. last)
        BY <3>1
      <4> QED
        BY <1>1, <1>3, <4>1, <4>2
    <3>2. CASE rs # {}
      <4>1. right \in (R + 1) .. last /\ HasVideo(p, y, right) /\ \A x \in rs : x <= right
        BY <2>3, <3>2
      <4> HIDE DEF right
      <4>2. ASSUME NEW x \in 0 .. last, HasVideo(p, y, x) PROVE x <= right
        <5>1. CASE x \in (R + 1) .. last
          BY <4>1, <4>2, <5>1
        <5>2. CASE x \notin (R + 1) .. last
          BY <1>1, <1>3, <4>1, <5>2
        <5> QED
          BY <5>1, <5>2
      <4> QED
        BY <1>1, <1>3, <4>1, <4>2
    <3> QED
      BY <3>1, <3>2
  <2> HIDE DEF left, right, ls, rs
  <2>6. \A x \in Lit(p, top, y) : left <= x /\ x <= right
    BY <1>1, <1>3, <1>4, <1>6, <1>7, <2>4, <2>5
  <2>7. left = last \/ left \in Lit(p, top, y)
    BY <1>3, <1>4, <1>6, <2>4
  <2>8. right = 0 \/ right \in Lit(p, top, y)
    BY <1>3, <1>4, <1>6, <2>5
  <2> QED
    BY <2>1, <2>4, <2>5, <2>6, <2>7, <2>8 DEF SidesOf
<1> QED
  BY <1>8, <1>9

(* The recursion of Sides.                                                 *)
LEMMA SidesAreSides ==
  ASSUME NEW p, IsPicture(p), NEW top \in Nat, NEW bottom \in top .. (Height(p) - 1)
  PROVE  SidesOf(p, top, bottom, Sides(p, top, bottom))
<1> DEFINE base == [left |-> Width(p) - 1, right |-> 0]
           Is(m) == m = [y \in (top - 1) .. bottom |->
                          IF y = top - 1 THEN base ELSE Narrowed(p, m[y - 1], y)]
           margin == CHOOSE m : Is(m)
           Edges == [left : 0 .. (Width(p) - 1), right : 0 .. (Width(p) - 1)]
           Narrow == [ys \in (top .. bottom) \X Edges |-> Narrowed(p, ys[2], ys[1])]
<1>0. Height(p) \in Nat /\ Width(p) \in Nat \ {0}
  BY PictureFacts
<1>1. Sides(p, top, bottom) = margin[bottom]
  BY DEF Sides
<1>2. SidesOf(p, top, top - 1, base)
  <2>1. Lit(p, top, top - 1) = {}
    BY DEF Lit
  <2>2. base \in Edges
    BY <1>0
  <2> QED
    BY <2>1, <2>2 DEF SidesOf
<1>3. \A y, s : y \in top .. bottom /\ SidesOf(p, top, y - 1, s) => SidesOf(p, top, y, Narrowed(p, s, y))
  BY <1>0, NarrowedIsSides
<1>4. \A y, s : SidesOf(p, top, y, s) => s \in Edges
  BY DEF SidesOf
<1> HIDE DEF base, Edges
<1>5. \E m : Is(m)
  <2>1. PICK N \in Nat : bottom = top - 1 + N
    BY <1>0
  <2>a. \A ys \in (top .. bottom) \X Edges : Narrow[ys] = Narrowed(p, ys[2], ys[1])
    OBVIOUS
  <2> HIDE DEF Narrow
  <2>2. PICK m : Iterates(m, top, bottom, base, Narrow)
    <3>0. top \in Int
      OBVIOUS
    <3>1. \E m : Iterates(m, top, top - 1 + N, base, Narrow)
      BY <3>0, IteratesExists, Zenon
    <3> QED
      BY <2>1, <3>1
  <2>3. /\ m = [y \in (top - 1) .. bottom |-> m[y]]
        /\ \A y \in (top - 1) .. bottom : m[y] = IF y = top - 1 THEN base ELSE Narrow[<<y, m[y - 1]>>]
    BY <2>2 DEF Iterates
  <2> DEFINE S == {y \in (top - 1) .. bottom : SidesOf(p, top, y, m[y])}
  <2>4. top - 1 \in S
    <3>1. top - 1 \in (top - 1) .. bottom
      BY <1>0
    <3>2. m[top - 1] = base
      BY <2>3, <3>1
    <3> QED
      BY <1>2, <3>1, <3>2
  <2>5. ASSUME NEW y \in top .. bottom, y - 1 \in S
        PROVE  m[y] = Narrowed(p, m[y - 1], y) /\ y \in S
    <3>1. y \in (top - 1) .. bottom /\ y # top - 1
      BY <1>0
    <3>2. m[y - 1] \in Edges /\ SidesOf(p, top, y - 1, m[y - 1])
      BY <1>4, <2>5
    <3>3. m[y] = Narrowed(p, m[y - 1], y)
      <4>1. <<y, m[y - 1]>> \in (top .. bottom) \X Edges
        BY <3>2
      <4>2. Narrow[<<y, m[y - 1]>>] = Narrowed(p, m[y - 1], y)
        BY <2>a, <4>1
      <4> QED
        BY <2>3, <3>1, <4>2
    <3> QED
      BY <1>3, <3>1, <3>2, <3>3
  <2>6. \A y \in top .. bottom : y - 1 \in S => y \in S
    BY <2>5
  <2> HIDE DEF S
  <2>7. \A y \in (top - 1) .. bottom : y \in S
    BY <1>0, <2>4, <2>6, IntervalInduction
  <2>8. \A y \in (top - 1) .. bottom : m[y] = IF y = top - 1 THEN base ELSE Narrowed(p, m[y - 1], y)
    <3> SUFFICES ASSUME NEW y \in (top - 1) .. bottom
                 PROVE  m[y] = IF y = top - 1 THEN base ELSE Narrowed(p, m[y - 1], y)
      OBVIOUS
    <3>1. CASE y = top - 1
      BY <2>3, <3>1
    <3>2. CASE y # top - 1
      <4>1. y \in top .. bottom /\ y - 1 \in (top - 1) .. bottom
        BY <1>0, <3>2
      <4> QED
        BY <2>5, <2>7, <3>2, <4>1
    <3> QED
      BY <3>1, <3>2
  <2>9. Is(m)
    BY <2>3, <2>8
  <2> QED
    BY <2>9
<1>6. Is(margin)
  <2> HIDE DEF base
  <2> QED
    BY <1>5, Zenon
<1> HIDE DEF margin
<1> DEFINE S == {y \in (top - 1) .. bottom : SidesOf(p, top, y, margin[y])}
<1>7. \A y \in (top - 1) .. bottom :
        margin[y] = IF y = top - 1 THEN base ELSE Narrowed(p, margin[y - 1], y)
  BY <1>6
<1>8. top - 1 \in S
  BY <1>0, <1>2, <1>7
<1>9. \A y \in top .. bottom : y - 1 \in S => y \in S
  BY <1>0, <1>3, <1>7
<1> HIDE DEF S
<1>10. bottom \in S
  BY <1>0, <1>8, <1>9, IntervalInduction
<1> QED
  BY <1>1, <1>10 DEF S

(* What CropKeepsThePicture says of one picture.                           *)
KeepsPicture(p, kept, alignment) ==
  LET lit == {yx \in Rows(p) \X Columns(p) : HasVideo(p, yx[1], yx[2])}
  IN /\ \A yx \in lit : yx[1] \in kept.top .. kept.bottom /\ yx[2] \in kept.left .. kept.right
     /\ \E yx \in lit : yx[1] = kept.top
     /\ \E yx \in lit : yx[1] = kept.bottom
     /\ \E yx \in lit : yx[2] = kept.right
     /\ \E yx \in lit : yx[2] \in kept.left .. (kept.left + alignment - 1)

(* The sides are lit, also when no row moved them.                         *)
LEMMA SidesAreLit ==
  ASSUME NEW p, IsPicture(p), NEW top \in Nat, NEW bottom \in top .. (Height(p) - 1),
         row_has_video(p, top)
  PROVE  LET s == Sides(p, top, bottom)
             lit == Lit(p, top, bottom)
         IN /\ s \in [left : Nat, right : Nat] /\ s.left \in lit /\ s.right \in lit
            /\ \A x \in lit : s.left <= x /\ x <= s.right
<1> DEFINE s == Sides(p, top, bottom)
           lit == Lit(p, top, bottom)
           last == Width(p) - 1
<1>1. Height(p) \in Nat /\ last \in Nat /\ Columns(p) = 0 .. last
  BY PictureFacts
<1>2. SidesOf(p, top, bottom, s)
  BY SidesAreSides
<1> HIDE DEF s
<1>3. /\ s \in [left : 0 .. last, right : 0 .. last]
      /\ \A x \in lit : s.left <= x /\ x <= s.right
      /\ s.left = last \/ s.left \in lit
      /\ s.right = 0 \/ s.right \in lit
  BY <1>2 DEF SidesOf
<1>4. s.left \in 0 .. last /\ s.right \in 0 .. last
  BY <1>3
<1>5. PICK x \in 0 .. last : x \in lit
  <2>1. top \in top .. bottom
    BY <1>1
  <2> QED
    BY <1>1, <2>1 DEF row_has_video, Lit
<1> HIDE DEF lit, last
<1>6. s.left <= x /\ x <= s.right
  BY <1>3, <1>5
<1>7. s.left \in lit
  <2>1. s.left = last => x = last
    BY <1>1, <1>4, <1>5, <1>6
  <2> QED
    BY <1>3, <1>5, <2>1
<1>8. s.right \in lit
  <2>1. s.right = 0 => x = 0
    BY <1>1, <1>4, <1>5, <1>6
  <2> QED
    BY <1>3, <1>5, <2>1
<1>9. s \in [left : Nat, right : Nat]
  BY <1>1, <1>3
<1> QED
  BY <1>3, <1>7, <1>8, <1>9 DEF s, lit

LEMMA CroppedKeepsPicture ==
  ASSUME NEW p, IsPicture(p), ~IsBlack(p), NEW A \in Nat \ {0}
  PROVE  KeepsPicture(p, Cropped(p, A), A)
<1> DEFINE rows == {y \in Rows(p) : row_has_video(p, y)}
           top == Least(rows)
           bottom == Greatest(rows)
           s == Sides(p, top, bottom)
           lit == Lit(p, top, bottom)
           box == [left |-> s.left, top |-> top, right |-> s.right, bottom |-> bottom]
           kept == Cropped(p, A)
           h == Height(p)
<1>1. h \in Nat \ {0} /\ Rows(p) = 0 .. (h - 1)
  BY PictureFacts
<1>2. rows \subseteq 0 .. (h - 1) /\ rows # {} /\ \A y \in rows : row_has_video(p, y)
  BY <1>1 DEF IsBlack
<1>3. \A y \in Rows(p) : row_has_video(p, y) => y \in rows
  OBVIOUS
<1>4. Cropped(p, A) = IF box = WholeOf(p) THEN box ELSE av_frame_apply_cropping(box, A)
  BY DEF Cropped, detect_black_borders
<1> HIDE DEF rows
<1>5. /\ top \in rows /\ bottom \in rows
      /\ \A y \in rows : top <= y /\ y <= bottom
  <2>1. h - 1 \in Nat /\ rows \subseteq Nat
    BY <1>1, <1>2
  <2>2. top \in rows /\ \A y \in rows : top <= y
    BY <1>2, <2>1, LeastIs
  <2>3. bottom \in rows /\ \A y \in rows : y <= bottom
    BY <1>2, <2>1, GreatestIs
  <2> QED
    BY <2>2, <2>3
<1> HIDE DEF top, bottom, h
<1>6. top \in Nat /\ bottom \in top .. (h - 1) /\ row_has_video(p, top) /\ row_has_video(p, bottom)
  BY <1>1, <1>2, <1>5
<1>7. /\ s \in [left : Nat, right : Nat] /\ s.left \in lit /\ s.right \in lit
      /\ \A x \in lit : s.left <= x /\ x <= s.right
  BY <1>6, SidesAreLit DEF h
<1> HIDE DEF s
<1> DEFINE L == s.left
           R == s.right
<1>8. L \in Nat /\ R \in Nat
  BY <1>7
<1>9. L % A \in 0 .. (A - 1) /\ L % A <= L
  BY <1>8
<1>10. kept = [left |-> L - (L % A), top |-> top, right |-> R, bottom |-> bottom]
  <2>1. CASE box = WholeOf(p)
    <3>1. L = 0
      BY <2>1 DEF WholeOf
    <3>2. 0 % A = 0
      OBVIOUS
    <3>3. L - (L % A) = L
      BY <3>1, <3>2
    <3> QED
      BY <1>4, <2>1, <3>3
  <2>2. CASE box # WholeOf(p)
    <3>1. av_frame_apply_cropping(box, A) = [box EXCEPT !.left = L - (L % A)]
      <4>1. box.left = L
        OBVIOUS
      <4> HIDE DEF box, L
      <4>2. av_frame_apply_cropping(box, A) = [box EXCEPT !.left = box.left - (box.left % A)]
        BY Zenon DEF av_frame_apply_cropping
      <4> QED
        BY <4>1, <4>2
    <3>2. [box EXCEPT !.left = L - (L % A)] = [left |-> L - (L % A), top |-> top, right |-> R, bottom |-> bottom]
      OBVIOUS
    <3> QED
      BY <1>4, <2>2, <3>1, <3>2
  <2> QED
    BY <2>1, <2>2
<1> DEFINE K == L - (L % A)
<1>11. K \in Nat /\ L \in K .. (K + A - 1) /\ K <= L
  <2> DEFINE rest == L % A
  <2>0. K = L - rest
    OBVIOUS
  <2> HIDE DEF K, L
  <2>1. L \in Nat /\ rest \in 0 .. (A - 1) /\ rest <= L /\ K = L - rest
    BY <1>8, <1>9, <2>0
  <2> HIDE DEF rest
  <2> QED
    BY <2>1
<1>12. kept.left = K /\ kept.top = top /\ kept.right = R /\ kept.bottom = bottom
  BY <1>10
<1> DEFINE pixels == {yx \in Rows(p) \X Columns(p) : HasVideo(p, yx[1], yx[2])}
<1>13. \A y \in Rows(p), x \in Columns(p) : HasVideo(p, y, x) => <<y, x>> \in pixels
  OBVIOUS
<1>14. \A x \in lit : \E yx \in pixels : yx[2] = x
  <2> SUFFICES ASSUME NEW x \in lit PROVE \E yx \in pixels : yx[2] = x
    OBVIOUS
  <2>1. PICK y \in top .. bottom : x \in Columns(p) /\ HasVideo(p, y, x)
    BY DEF Lit
  <2>2. y \in Rows(p)
    BY <1>1, <1>6, <2>1
  <2> QED
    BY <1>13, <2>1, <2>2
<1>15. \A y \in rows : \E yx \in pixels : yx[1] = y
  <2> SUFFICES ASSUME NEW y \in rows PROVE \E yx \in pixels : yx[1] = y
    OBVIOUS
  <2>1. PICK x \in Columns(p) : HasVideo(p, y, x)
    BY <1>2 DEF row_has_video
  <2>2. <<y, x>> \in pixels
    BY <1>1, <1>2, <1>13, <2>1
  <2> QED
    BY <2>2
<1>16. ASSUME NEW yx \in pixels
       PROVE  yx[1] \in top .. bottom /\ yx[2] \in K .. R
  <2>1. yx[1] \in Rows(p) /\ yx[2] \in Columns(p) /\ HasVideo(p, yx[1], yx[2])
    OBVIOUS
  <2>2. yx[1] \in rows
    BY <1>3, <2>1 DEF row_has_video
  <2>3. yx[1] \in top .. bottom
    BY <1>1, <1>2, <1>5, <1>6, <2>2
  <2>4. yx[2] \in lit
    BY <2>1, <2>3 DEF Lit
  <2>5. yx[2] \in Nat
    BY <2>1, PictureFacts
  <2> HIDE DEF pixels, lit, K
  <2>6. L <= yx[2] /\ yx[2] <= R
    BY <1>7, <2>4
  <2> QED
    BY <1>8, <1>11, <2>3, <2>5, <2>6
<1> HIDE DEF pixels, lit, K, kept
<1>17. \E yx \in pixels : yx[2] = R
  BY <1>7, <1>14
<1>18. \E yx \in pixels : yx[2] \in K .. (K + A - 1)
  <2>1. PICK yx \in pixels : yx[2] = L
    BY <1>7, <1>14
  <2> QED
    BY <1>11, <2>1
<1>19. (\E yx \in pixels : yx[1] = top) /\ \E yx \in pixels : yx[1] = bottom
  BY <1>5, <1>15
<1>20. KeepsPicture(p, kept, A)
  BY <1>12, <1>16, <1>17, <1>18, <1>19 DEF KeepsPicture, pixels
<1> QED
  BY <1>20 DEF kept

Shape(q, h, w) ==
  h \in Nat \ {0} /\ w \in Nat \ {0} /\ q \in [0 .. (h - 1) -> [0 .. (w - 1) -> 0 .. 255]]

LEMMA ShapeIsPicture ==
  ASSUME NEW h, NEW w, NEW q, Shape(q, h, w)
  PROVE  IsPicture(q) /\ Rows(q) = 0 .. (h - 1) /\ Columns(q) = 0 .. (w - 1)
<1> USE DEF Shape
<1>1. DOMAIN q = 0 .. (h - 1) /\ 0 \in 0 .. (h - 1) /\ DOMAIN q[0] = 0 .. (w - 1)
  OBVIOUS
<1>2. Cardinality(0 .. (h - 1)) = h /\ Cardinality(0 .. (w - 1)) = w
  <2>1. h - 1 \in Int /\ w - 1 \in Int /\ 0 \in Int /\ ~(0 > h - 1) /\ ~(0 > w - 1)
    OBVIOUS
  <2>2. Cardinality(0 .. (h - 1)) = (h - 1) - 0 + 1 /\ Cardinality(0 .. (w - 1)) = (w - 1) - 0 + 1
    BY <2>1, FS_Interval
  <2> QED
    BY <2>2
<1>3. Height(q) = h /\ Width(q) = w
  BY <1>1, <1>2 DEF Height, Width, Rows, Columns
<1> QED
  BY <1>1, <1>3 DEF IsPicture, Rows, Columns

LEMMA BlackByPixel ==
  ASSUME NEW q
  PROVE  IsBlack(q) <=> \A y \in Rows(q), x \in Columns(q) : ~(q[y][x] > AK_DEFAULT_BLACK_THRESHOLD)
  BY DEF IsBlack, row_has_video, HasVideo

(* h rows of w pixels, each of which is one of another picture.            *)
Grid(q, h, w) ==
  /\ q = [y \in 0 .. (h - 1) |-> q[y]]
  /\ \A y \in 0 .. (h - 1) : q[y] = [x \in 0 .. (w - 1) |-> q[y][x]]

SamePixels(q, h, w, p) ==
  /\ \A y \in 0 .. (h - 1), x \in 0 .. (w - 1) :
       \E r \in Rows(p), c \in Columns(p) : q[y][x] = p[r][c]
  /\ \A r \in Rows(p), c \in Columns(p) :
       \E y \in 0 .. (h - 1), x \in 0 .. (w - 1) : q[y][x] = p[r][c]

LEMMA MovedIsPicture ==
  ASSUME NEW p, IsPicture(p), NEW h \in Nat \ {0}, NEW w \in Nat \ {0}, NEW q,
         Grid(q, h, w), SamePixels(q, h, w, p)
  PROVE  IsPicture(q) /\ (IsBlack(q) <=> IsBlack(p))
<1>1. \A r \in Rows(p), c \in Columns(p) : p[r][c] \in 0 .. 255
  BY PictureFacts
<1>2. ASSUME NEW y \in 0 .. (h - 1)
      PROVE  q[y] \in [0 .. (w - 1) -> 0 .. 255]
  <2>1. \A x \in 0 .. (w - 1) : q[y][x] \in 0 .. 255
    <3> SUFFICES ASSUME NEW x \in 0 .. (w - 1) PROVE q[y][x] \in 0 .. 255
      OBVIOUS
    <3>1. PICK r \in Rows(p), c \in Columns(p) : q[y][x] = p[r][c]
      BY DEF SamePixels
    <3> QED
      BY <1>1, <3>1
  <2> DEFINE row == q[y]
  <2>2. row = [x \in 0 .. (w - 1) |-> row[x]]
    BY DEF Grid
  <2> HIDE DEF row
  <2>3. row \in [0 .. (w - 1) -> 0 .. 255]
    BY <2>1, <2>2 DEF row
  <2> QED
    BY <2>3 DEF row
<1>3. Shape(q, h, w)
  <2>1. q = [y \in 0 .. (h - 1) |-> q[y]]
    BY DEF Grid
  <2>2. q \in [0 .. (h - 1) -> [0 .. (w - 1) -> 0 .. 255]]
    BY <1>2, <2>1
  <2> QED
    BY <2>2 DEF Shape
<1>4. IsPicture(q) /\ Rows(q) = 0 .. (h - 1) /\ Columns(q) = 0 .. (w - 1)
  BY <1>3, ShapeIsPicture
<1>5. IsBlack(q) <=> \A y \in 0 .. (h - 1), x \in 0 .. (w - 1) : ~(q[y][x] > AK_DEFAULT_BLACK_THRESHOLD)
  BY <1>4, BlackByPixel
<1>6. IsBlack(p) <=> \A r \in Rows(p), c \in Columns(p) : ~(p[r][c] > AK_DEFAULT_BLACK_THRESHOLD)
  BY BlackByPixel
<1>7. ASSUME IsBlack(q) PROVE IsBlack(p)
  <2> SUFFICES ASSUME NEW r \in Rows(p), NEW c \in Columns(p)
               PROVE  ~(p[r][c] > AK_DEFAULT_BLACK_THRESHOLD)
    BY <1>6
  <2>1. PICK y \in 0 .. (h - 1), x \in 0 .. (w - 1) : q[y][x] = p[r][c]
    BY DEF SamePixels
  <2> QED
    BY <1>5, <1>7, <2>1
<1>8. ASSUME IsBlack(p) PROVE IsBlack(q)
  <2> SUFFICES ASSUME NEW y \in 0 .. (h - 1), NEW x \in 0 .. (w - 1)
               PROVE  ~(q[y][x] > AK_DEFAULT_BLACK_THRESHOLD)
    BY <1>5
  <2>1. PICK r \in Rows(p), c \in Columns(p) : q[y][x] = p[r][c]
    BY DEF SamePixels
  <2> QED
    BY <1>6, <1>8, <2>1
<1> QED
  BY <1>4, <1>7, <1>8

Quarter(p, h, w) == [y \in 0 .. (w - 1) |-> [x \in 0 .. (h - 1) |-> p[x][(w - 1) - y]]]
Half(p, h, w) == [y \in 0 .. (h - 1) |-> [x \in 0 .. (w - 1) |-> p[(h - 1) - y][(w - 1) - x]]]
Back(p, h, w) == [y \in 0 .. (w - 1) |-> [x \in 0 .. (h - 1) |-> p[(h - 1) - x][y]]]

LEMMA QuarterPixels ==
  ASSUME NEW p, NEW h, NEW w
  PROVE  LET q == Quarter(p, h, w)
         IN Grid(q, w, h)
            /\ \A y \in 0 .. (w - 1), x \in 0 .. (h - 1) : q[y][x] = p[x][(w - 1) - y]
<1> DEFINE q == Quarter(p, h, w)
<1>1. q = [y \in 0 .. (w - 1) |-> q[y]]
  BY DEF Quarter
<1>2. ASSUME NEW y \in 0 .. (w - 1)
      PROVE  q[y] = [x \in 0 .. (h - 1) |-> q[y][x]] /\ \A x \in 0 .. (h - 1) : q[y][x] = p[x][(w - 1) - y]
  <2> DEFINE row == q[y]
  <2>1. row = [x \in 0 .. (h - 1) |-> p[x][(w - 1) - y]]
    BY DEF Quarter
  <2> HIDE DEF row
  <2>2. row = [x \in 0 .. (h - 1) |-> row[x]] /\ \A x \in 0 .. (h - 1) : row[x] = p[x][(w - 1) - y]
    BY <2>1
  <2> QED
    BY <2>2 DEF row
<1> HIDE DEF q
<1>3. Grid(q, w, h) /\ \A y \in 0 .. (w - 1), x \in 0 .. (h - 1) : q[y][x] = p[x][(w - 1) - y]
  BY <1>1, <1>2 DEF Grid
<1> QED
  BY <1>3 DEF q

LEMMA HalfPixels ==
  ASSUME NEW p, NEW h, NEW w
  PROVE  LET q == Half(p, h, w)
         IN Grid(q, h, w)
            /\ \A y \in 0 .. (h - 1), x \in 0 .. (w - 1) : q[y][x] = p[(h - 1) - y][(w - 1) - x]
<1> DEFINE q == Half(p, h, w)
<1>1. q = [y \in 0 .. (h - 1) |-> q[y]]
  BY DEF Half
<1>2. ASSUME NEW y \in 0 .. (h - 1)
      PROVE  q[y] = [x \in 0 .. (w - 1) |-> q[y][x]] /\ \A x \in 0 .. (w - 1) : q[y][x] = p[(h - 1) - y][(w - 1) - x]
  <2> DEFINE row == q[y]
  <2>1. row = [x \in 0 .. (w - 1) |-> p[(h - 1) - y][(w - 1) - x]]
    BY DEF Half
  <2> HIDE DEF row
  <2>2. row = [x \in 0 .. (w - 1) |-> row[x]] /\ \A x \in 0 .. (w - 1) : row[x] = p[(h - 1) - y][(w - 1) - x]
    BY <2>1
  <2> QED
    BY <2>2 DEF row
<1> HIDE DEF q
<1>3. Grid(q, h, w) /\ \A y \in 0 .. (h - 1), x \in 0 .. (w - 1) : q[y][x] = p[(h - 1) - y][(w - 1) - x]
  BY <1>1, <1>2 DEF Grid
<1> QED
  BY <1>3 DEF q

LEMMA BackPixels ==
  ASSUME NEW p, NEW h, NEW w
  PROVE  LET q == Back(p, h, w)
         IN Grid(q, w, h)
            /\ \A y \in 0 .. (w - 1), x \in 0 .. (h - 1) : q[y][x] = p[(h - 1) - x][y]
<1> DEFINE q == Back(p, h, w)
<1>1. q = [y \in 0 .. (w - 1) |-> q[y]]
  BY DEF Back
<1>2. ASSUME NEW y \in 0 .. (w - 1)
      PROVE  q[y] = [x \in 0 .. (h - 1) |-> q[y][x]] /\ \A x \in 0 .. (h - 1) : q[y][x] = p[(h - 1) - x][y]
  <2> DEFINE row == q[y]
  <2>1. row = [x \in 0 .. (h - 1) |-> p[(h - 1) - x][y]]
    BY DEF Back
  <2> HIDE DEF row
  <2>2. row = [x \in 0 .. (h - 1) |-> row[x]] /\ \A x \in 0 .. (h - 1) : row[x] = p[(h - 1) - x][y]
    BY <2>1
  <2> QED
    BY <2>2 DEF row
<1> HIDE DEF q
<1>3. Grid(q, w, h) /\ \A y \in 0 .. (w - 1), x \in 0 .. (h - 1) : q[y][x] = p[(h - 1) - x][y]
  BY <1>1, <1>2 DEF Grid
<1> QED
  BY <1>3 DEF q

(* Turning a picture moves its pixels.                                     *)
LEMMA TurnedIsPicture ==
  ASSUME NEW p, IsPicture(p), NEW angle
  PROVE  IsPicture(Turned(p, angle)) /\ (IsBlack(Turned(p, angle)) <=> IsBlack(p))
<1> DEFINE h == Height(p)
           w == Width(p)
           t == Turned(p, angle)
<1>1. h \in Nat \ {0} /\ w \in Nat \ {0} /\ Rows(p) = 0 .. (h - 1) /\ Columns(p) = 0 .. (w - 1)
  BY PictureFacts
<1>2. /\ angle = 90 => t = Quarter(p, h, w)
      /\ angle = 180 => t = Half(p, h, w)
      /\ angle = 270 => t = Back(p, h, w)
      /\ angle \notin {90, 180, 270} => t = p
  BY <1>1 DEF Turned, Quarter, Half, Back
<1> HIDE DEF h, w, t
<1>3. \A x \in 0 .. (w - 1) : (w - 1) - x \in 0 .. (w - 1) /\ (w - 1) - ((w - 1) - x) = x
  BY <1>1
<1>4. \A y \in 0 .. (h - 1) : (h - 1) - y \in 0 .. (h - 1) /\ (h - 1) - ((h - 1) - y) = y
  BY <1>1
<1>5. CASE angle = 90
  <2> DEFINE q == Quarter(p, h, w)
  <2>1. Grid(q, w, h) /\ \A y \in 0 .. (w - 1), x \in 0 .. (h - 1) : q[y][x] = p[x][(w - 1) - y]
    BY QuarterPixels
  <2> HIDE DEF q
  <2>2. ASSUME NEW y \in 0 .. (w - 1), NEW x \in 0 .. (h - 1)
        PROVE  \E r \in Rows(p), c \in Columns(p) : q[y][x] = p[r][c]
    BY <1>1, <1>3, <1>4, <2>1
  <2>3. ASSUME NEW r \in Rows(p), NEW c \in Columns(p)
        PROVE  \E y \in 0 .. (w - 1), x \in 0 .. (h - 1) : q[y][x] = p[r][c]
    <3>1. (w - 1) - c \in 0 .. (w - 1) /\ r \in 0 .. (h - 1)
      BY <1>1, <1>3, <1>4
    <3>2. q[(w - 1) - c][r] = p[r][c]
      BY <1>1, <1>3, <1>4, <2>1, <3>1
    <3> QED
      BY <3>1, <3>2
  <2>4. SamePixels(q, w, h, p)
    BY <2>2, <2>3 DEF SamePixels
  <2>5. IsPicture(q) /\ (IsBlack(q) <=> IsBlack(p))
    BY <1>1, <2>1, <2>4, MovedIsPicture
  <2> QED
    BY <1>2, <1>5, <2>5 DEF q, t
<1>6. CASE angle = 180
  <2> DEFINE q == Half(p, h, w)
  <2>1. Grid(q, h, w) /\ \A y \in 0 .. (h - 1), x \in 0 .. (w - 1) : q[y][x] = p[(h - 1) - y][(w - 1) - x]
    BY HalfPixels
  <2> HIDE DEF q
  <2>2. ASSUME NEW y \in 0 .. (h - 1), NEW x \in 0 .. (w - 1)
        PROVE  \E r \in Rows(p), c \in Columns(p) : q[y][x] = p[r][c]
    <3>1. (h - 1) - y \in Rows(p) /\ (w - 1) - x \in Columns(p)
      BY <1>1, <1>3, <1>4
    <3> QED
      BY <2>1, <3>1
  <2>3. ASSUME NEW r \in Rows(p), NEW c \in Columns(p)
        PROVE  \E y \in 0 .. (h - 1), x \in 0 .. (w - 1) : q[y][x] = p[r][c]
    <3>1. (h - 1) - r \in 0 .. (h - 1) /\ (w - 1) - c \in 0 .. (w - 1)
      BY <1>1, <1>3, <1>4
    <3>2. q[(h - 1) - r][(w - 1) - c] = p[r][c]
      BY <1>1, <1>3, <1>4, <2>1, <3>1
    <3> QED
      BY <3>1, <3>2
  <2>4. SamePixels(q, h, w, p)
    BY <2>2, <2>3 DEF SamePixels
  <2>5. IsPicture(q) /\ (IsBlack(q) <=> IsBlack(p))
    BY <1>1, <2>1, <2>4, MovedIsPicture
  <2> QED
    BY <1>2, <1>6, <2>5 DEF q, t
<1>7. CASE angle = 270
  <2> DEFINE q == Back(p, h, w)
  <2>1. Grid(q, w, h) /\ \A y \in 0 .. (w - 1), x \in 0 .. (h - 1) : q[y][x] = p[(h - 1) - x][y]
    BY BackPixels
  <2> HIDE DEF q
  <2>2. ASSUME NEW y \in 0 .. (w - 1), NEW x \in 0 .. (h - 1)
        PROVE  \E r \in Rows(p), c \in Columns(p) : q[y][x] = p[r][c]
    BY <1>1, <1>3, <1>4, <2>1
  <2>3. ASSUME NEW r \in Rows(p), NEW c \in Columns(p)
        PROVE  \E y \in 0 .. (w - 1), x \in 0 .. (h - 1) : q[y][x] = p[r][c]
    <3>1. c \in 0 .. (w - 1) /\ (h - 1) - r \in 0 .. (h - 1)
      BY <1>1, <1>3, <1>4
    <3>2. q[c][(h - 1) - r] = p[r][c]
      BY <1>1, <1>3, <1>4, <2>1, <3>1
    <3> QED
      BY <3>1, <3>2
  <2>4. SamePixels(q, w, h, p)
    BY <2>2, <2>3 DEF SamePixels
  <2>5. IsPicture(q) /\ (IsBlack(q) <=> IsBlack(p))
    BY <1>1, <2>1, <2>4, MovedIsPicture
  <2> QED
    BY <1>2, <1>7, <2>5 DEF q, t
<1>8. CASE angle \notin {90, 180, 270}
  BY <1>2, <1>8 DEF t
<1> QED
  BY <1>5, <1>6, <1>7, <1>8

-----------------------------------------------------------------------------
(***************************************************************************)
(* One frame: the median                                                   *)
(***************************************************************************)

(* The value at p of b is the one at where[p] of a, each place once.       *)
Moves(a, b, N, where) ==
  /\ where \in [1 .. N -> 1 .. N]
  /\ \A p, q \in 1 .. N : where[p] = where[q] => p = q
  /\ \A p \in 1 .. N : b[p] = a[where[p]]

(* An array of the values of a, in another order.                          *)
Reordered(a, b, N) == \E where : Moves(a, b, N, where)

(* The part from l to m has larger values than what lies to its left and   *)
(* smaller ones than what lies to its right.                               *)
Fenced(b, N, l, m) ==
  /\ l \in 1 .. N + 1 /\ m \in 0 .. N
  /\ \A p, q \in 1 .. N : p < l /\ l <= q => b[p] <= b[q]
  /\ \A p, q \in 1 .. N : p <= m /\ m < q => b[p] <= b[q]

(* Where the value at p comes from.                                        *)
Other(i, j, p) == IF p = i THEN j ELSE IF p = j THEN i ELSE p

LEMMA OtherFacts ==
  ASSUME NEW N \in Nat, NEW i \in 1 .. N, NEW j \in 1 .. N, NEW p \in 1 .. N
  PROVE  /\ Other(i, j, p) \in 1 .. N
         /\ \A q \in 1 .. N : Other(i, j, p) = Other(i, j, q) => p = q
  BY DEF Other

LEMMA SwappedIsReordered ==
  ASSUME NEW N \in Nat, NEW a \in [1 .. N -> Int], NEW b \in [1 .. N -> Int], Reordered(a, b, N),
         NEW i \in 1 .. N, NEW j \in 1 .. N
  PROVE  Reordered(a, Swapped(b, i, j), N)
<1> DEFINE c == Swapped(b, i, j)
<1>1. PICK where : Moves(a, b, N, where)
  BY DEF Reordered
<1> DEFINE w == Swapped(where, i, j)
<1>2. where \in [1 .. N -> 1 .. N]
  BY <1>1 DEF Moves
<1>3. \A p, q \in 1 .. N : where[p] = where[q] => p = q
  BY <1>1 DEF Moves
<1>4. \A p \in 1 .. N : b[p] = a[where[p]]
  BY <1>1 DEF Moves
<1>5. w \in [1 .. N -> 1 .. N]
  BY <1>2 DEF Swapped
<1>6. \A p \in 1 .. N : w[p] = where[Other(i, j, p)]
  BY <1>2 DEF Swapped, Other
<1>7. \A p \in 1 .. N : c[p] = b[Other(i, j, p)]
  BY DEF Swapped, Other
<1> HIDE DEF c, w
<1>8. ASSUME NEW p \in 1 .. N
      PROVE  c[p] = a[w[p]]
  <2>1. PICK q \in 1 .. N : q = Other(i, j, p)
    BY OtherFacts
  <2>2. c[p] = b[q] /\ w[p] = where[q]
    BY <1>6, <1>7, <2>1
  <2> QED
    BY <1>4, <2>2
<1>9. ASSUME NEW p \in 1 .. N, NEW q \in 1 .. N, w[p] = w[q]
      PROVE  p = q
  <2>1. PICK u \in 1 .. N : u = Other(i, j, p)
    BY OtherFacts
  <2>2. PICK v \in 1 .. N : v = Other(i, j, q)
    BY OtherFacts
  <2>3. where[u] = where[v]
    BY <1>6, <1>9, <2>1, <2>2
  <2>4. u = v
    BY <1>3, <2>3
  <2> QED
    BY <2>1, <2>2, <2>4, OtherFacts
<1>10. Moves(a, c, N, w)
  BY <1>5, <1>8, <1>9 DEF Moves
<1> QED
  BY <1>10 DEF Reordered, c

LEMMA SwappedIsFenced ==
  ASSUME NEW N \in Nat, NEW b \in [1 .. N -> Int], NEW l, NEW m, Fenced(b, N, l, m),
         NEW i \in l .. m, NEW j \in l .. m
  PROVE  Fenced(Swapped(b, i, j), N, l, m)
<1> DEFINE c == Swapped(b, i, j)
<1>1. l \in 1 .. N + 1 /\ m \in 0 .. N
  BY DEF Fenced
<1>2. \A p, q \in 1 .. N : p < l /\ l <= q => b[p] <= b[q]
  BY DEF Fenced
<1>3. \A p, q \in 1 .. N : p <= m /\ m < q => b[p] <= b[q]
  BY DEF Fenced
<1>4. i \in 1 .. N /\ j \in 1 .. N
  BY <1>1
<1>5. \A p \in 1 .. N : c[p] = b[Other(i, j, p)]
  BY <1>4 DEF Swapped, Other
<1>6. ASSUME NEW p \in 1 .. N
      PROVE  /\ Other(i, j, p) \in 1 .. N
             /\ Other(i, j, p) < l <=> p < l
             /\ Other(i, j, p) <= m <=> p <= m
  BY <1>1, <1>4 DEF Other
<1> HIDE DEF c
<1>7. ASSUME NEW p \in 1 .. N, NEW q \in 1 .. N, p < l, l <= q
      PROVE  c[p] <= c[q]
  <2>1. Other(i, j, p) < l /\ l <= Other(i, j, q) /\ Other(i, j, p) \in 1 .. N /\ Other(i, j, q) \in 1 .. N
    BY <1>1, <1>6, <1>7
  <2> QED
    BY <1>2, <1>5, <2>1
<1>8. ASSUME NEW p \in 1 .. N, NEW q \in 1 .. N, p <= m, m < q
      PROVE  c[p] <= c[q]
  <2>1. Other(i, j, p) <= m /\ m < Other(i, j, q) /\ Other(i, j, p) \in 1 .. N /\ Other(i, j, q) \in 1 .. N
    BY <1>1, <1>6, <1>8
  <2> QED
    BY <1>3, <1>5, <2>1
<1> QED
  BY <1>1, <1>7, <1>8 DEF Fenced, c

(* Between two rounds of the do loop, on the part from l to m, around the  *)
(* value x at k: what i has passed is not larger than x, what j has passed *)
(* not smaller; both will stop, at k at first, then at what the other has  *)
(* left behind.                                                            *)
Splits(a, N, l, m, k, x, s) ==
  /\ s = [arr |-> s.arr, i |-> s.i, j |-> s.j, x |-> x]
  /\ s.arr \in [1 .. N -> Int] /\ Reordered(a, s.arr, N)
  /\ Fenced(s.arr, N, l, m)
  /\ s.i \in l .. m + 1 /\ s.j \in l - 1 .. m
  /\ \A p \in l .. s.i - 1 : s.arr[p] <= x
  /\ \A p \in s.j + 1 .. m : x <= s.arr[p]
  /\ \/ s.i = l /\ s.j = m /\ s.arr[k] = x
     \/ l < s.i /\ s.j < m

(* Where i and j stop.                                                     *)
Ups(b, N, i, x) == {p \in 1 .. N : p >= i /\ ~(b[p] < x)}
Downs(b, N, j, x) == {p \in 1 .. N : p <= j /\ ~(x < b[p])}

LEMMA UpStops ==
  ASSUME NEW N \in Nat, NEW b \in [1 .. N -> Int], NEW x \in Int, NEW i \in 1 .. N + 1, NEW q \in 1 .. N,
         i <= q, x <= b[q]
  PROVE  LET up == Least(Ups(b, N, i, x))
         IN /\ up \in i .. q /\ x <= b[up]
            /\ \A p \in i .. up - 1 : b[p] <= x
<1> DEFINE up == Least(Ups(b, N, i, x))
<1>1. q \in Ups(b, N, i, x)
  BY DEF Ups
<1>2. Ups(b, N, i, x) \subseteq Nat
  BY DEF Ups
<1>3. up \in Ups(b, N, i, x) /\ \A p \in Ups(b, N, i, x) : up <= p
  BY <1>1, <1>2, LeastIs
<1> HIDE DEF up
<1>4. up \in 1 .. N /\ i <= up /\ x <= b[up] /\ up <= q
  BY <1>1, <1>3 DEF Ups
<1>5. ASSUME NEW p \in i .. up - 1
      PROVE  b[p] <= x
  <2>1. p \in 1 .. N /\ p >= i /\ ~(up <= p)
    BY <1>4
  <2>2. p \notin Ups(b, N, i, x)
    BY <1>3, <2>1
  <2>3. b[p] \in Int
    BY <2>1
  <2> QED
    BY <2>1, <2>2, <2>3 DEF Ups
<1> QED
  BY <1>4, <1>5 DEF up

LEMMA DownStops ==
  ASSUME NEW N \in Nat, NEW b \in [1 .. N -> Int], NEW x \in Int, NEW j \in 0 .. N, NEW q \in 1 .. N,
         q <= j, b[q] <= x
  PROVE  LET down == Greatest(Downs(b, N, j, x))
         IN /\ down \in q .. j /\ b[down] <= x
            /\ \A p \in down + 1 .. j : x <= b[p]
<1> DEFINE down == Greatest(Downs(b, N, j, x))
<1>1. q \in Downs(b, N, j, x)
  BY DEF Downs
<1>2. Downs(b, N, j, x) \subseteq 0 .. N
  BY DEF Downs
<1>3. down \in Downs(b, N, j, x) /\ \A p \in Downs(b, N, j, x) : p <= down
  BY <1>1, <1>2, GreatestIs
<1> HIDE DEF down
<1>4. down \in 1 .. N /\ down <= j /\ b[down] <= x /\ q <= down
  BY <1>1, <1>3 DEF Downs
<1>5. ASSUME NEW p \in down + 1 .. j
      PROVE  x <= b[p]
  <2>1. p \in 1 .. N /\ p <= j /\ ~(p <= down)
    BY <1>4
  <2>2. p \notin Downs(b, N, j, x)
    BY <1>3, <2>1
  <2>3. b[p] \in Int
    BY <2>1
  <2> QED
    BY <2>1, <2>2, <2>3 DEF Downs
<1> QED
  BY <1>4, <1>5 DEF down

LEMMA ArrayIsSequence ==
  ASSUME NEW N \in Nat, NEW b \in [1 .. N -> Int]
  PROVE  b \in Seq(Int) /\ Len(b) = N
  OBVIOUS

LEMMA RoundByDefinition ==
  ASSUME NEW N \in Nat, NEW s, s = [arr |-> s.arr, i |-> s.i, j |-> s.j, x |-> s.x],
         s.arr \in [1 .. N -> Int], s.i \in Int, s.j \in Int, s.x \in Int
  PROVE  Round[s] =
           LET i == Least({p \in DOMAIN s.arr : p >= s.i /\ ~(s.arr[p] < s.x)})
               j == Greatest({p \in DOMAIN s.arr : p <= s.j /\ ~(s.x < s.arr[p])})
           IN IF s.i > s.j THEN s
              ELSE IF i > j THEN [arr |-> s.arr, i |-> i, j |-> j, x |-> s.x]
              ELSE [arr |-> Swapped(s.arr, i, j), i |-> i + 1, j |-> j - 1, x |-> s.x]
<1>1. s.arr \in Seq(Int)
  BY ArrayIsSequence
<1>2. s \in [arr : Seq(Int), i : Int, j : Int, x : Int]
  BY <1>1
<1> QED
  BY <1>2, Zenon DEF Round

LEMMA RoundSplits ==
  ASSUME NEW N \in Nat, NEW a \in [1 .. N -> Int], NEW l, NEW m, NEW k \in l .. m, NEW x \in Int, NEW s,
         Splits(a, N, l, m, k, x, s), s.i <= s.j
  PROVE  /\ Splits(a, N, l, m, k, x, Round[s])
         /\ Round[s].i > Round[s].j \/ Round[s].j - Round[s].i <= (s.j - s.i) - 1
         /\ Round[s].i > Round[s].j => l < Round[s].i /\ Round[s].j < m
<1> DEFINE b == s.arr
           I == s.i
           J == s.j
           i == Least(Ups(b, N, I, x))
           j == Greatest(Downs(b, N, J, x))
<1>1. b \in [1 .. N -> Int] /\ Reordered(a, b, N) /\ Fenced(b, N, l, m)
  BY DEF Splits
<1>2. l \in 1 .. N + 1 /\ m \in 0 .. N
  BY <1>1 DEF Fenced
<1>3. s = [arr |-> b, i |-> I, j |-> J, x |-> x]
  BY DEF Splits
<1>4. I \in l .. m + 1 /\ J \in l - 1 .. m /\ I <= J
  BY DEF Splits
<1>5. \A p \in l .. I - 1 : b[p] <= x
  BY DEF Splits
<1>6. \A p \in J + 1 .. m : x <= b[p]
  BY DEF Splits
<1>7. (I = l /\ J = m /\ b[k] = x) \/ (l < I /\ J < m)
  BY DEF Splits
<1> HIDE DEF b, I, J
<1>8. PICK q \in 1 .. N : I <= q /\ q <= m /\ (I = l => q = k) /\ x <= b[q]
  <2>1. CASE I = l /\ J = m /\ b[k] = x
    BY <1>2, <1>4, <2>1
  <2>2. CASE l < I /\ J < m
    BY <1>2, <1>4, <1>6, <2>2
  <2> QED
    BY <1>7, <2>1, <2>2
<1>9. PICK r \in 1 .. N : r <= J /\ l <= r /\ (J = m => r = k) /\ b[r] <= x
  <2>1. CASE I = l /\ J = m /\ b[k] = x
    BY <1>2, <1>4, <2>1
  <2>2. CASE l < I /\ J < m
    BY <1>2, <1>4, <1>5, <2>2
  <2> QED
    BY <1>7, <2>1, <2>2
<1>10. i \in I .. q /\ x <= b[i] /\ \A p \in I .. i - 1 : b[p] <= x
  <2>1. I \in 1 .. N + 1
    BY <1>2, <1>4
  <2> QED
    BY <1>1, <1>8, <2>1, UpStops
<1>11. j \in r .. J /\ b[j] <= x /\ \A p \in j + 1 .. J : x <= b[p]
  <2>1. J \in 0 .. N
    BY <1>2, <1>4
  <2> QED
    BY <1>1, <1>9, <2>1, DownStops
<1>12. Round[s] = IF i > j THEN [arr |-> b, i |-> i, j |-> j, x |-> x]
                  ELSE [arr |-> Swapped(b, i, j), i |-> i + 1, j |-> j - 1, x |-> x]
  <2>1. s.arr = b /\ s.i = I /\ s.j = J /\ s.x = x
    BY <1>3
  <2>2. Least({p \in DOMAIN s.arr : p >= s.i /\ ~(s.arr[p] < s.x)}) = i
    BY <1>1, <2>1 DEF Ups
  <2>3. Greatest({p \in DOMAIN s.arr : p <= s.j /\ ~(s.x < s.arr[p])}) = j
    BY <1>1, <2>1 DEF Downs
  <2>4. ~(s.i > s.j)
    BY <1>2, <1>4, <2>1
  <2>5. s = [arr |-> s.arr, i |-> s.i, j |-> s.j, x |-> s.x]
    BY <1>3
  <2>6. s.arr \in [1 .. N -> Int] /\ s.i \in Int /\ s.j \in Int /\ s.x \in Int
    BY <1>1, <1>2, <1>4, <2>1
  <2>7. Round[s] = LET up == Least({p \in DOMAIN s.arr : p >= s.i /\ ~(s.arr[p] < s.x)})
                       down == Greatest({p \in DOMAIN s.arr : p <= s.j /\ ~(s.x < s.arr[p])})
                   IN IF s.i > s.j THEN s
                      ELSE IF up > down THEN [arr |-> s.arr, i |-> up, j |-> down, x |-> s.x]
                      ELSE [arr |-> Swapped(s.arr, up, down), i |-> up + 1, j |-> down - 1, x |-> s.x]
    BY <2>5, <2>6, RoundByDefinition, Zenon
  <2> HIDE DEF i, j
  <2> QED
    BY <2>1, <2>2, <2>3, <2>4, <2>7
<1> HIDE DEF i, j
<1>13. i \in l .. m /\ j \in l .. m /\ i \in 1 .. N /\ j \in 1 .. N
  BY <1>2, <1>4, <1>8, <1>9, <1>10, <1>11
<1>14. ASSUME NEW p \in l .. i - 1
       PROVE  b[p] <= x
  <2>1. CASE p < I
    BY <1>2, <1>4, <1>5, <1>13, <2>1
  <2>2. CASE I <= p
    BY <1>2, <1>4, <1>10, <1>13, <2>2
  <2> QED
    BY <1>2, <1>4, <1>13, <2>1, <2>2
<1>15. ASSUME NEW p \in j + 1 .. m
       PROVE  x <= b[p]
  <2>1. CASE p <= J
    BY <1>2, <1>4, <1>11, <1>13, <2>1
  <2>2. CASE J < p
    BY <1>2, <1>4, <1>6, <1>13, <2>2
  <2> QED
    BY <1>2, <1>4, <1>13, <2>1, <2>2
<1>16. CASE i > j
  <2>1. Round[s] = [arr |-> b, i |-> i, j |-> j, x |-> x]
    BY <1>12, <1>16
  <2>2. l < i /\ j < m
    BY <1>2, <1>4, <1>7, <1>8, <1>9, <1>10, <1>11, <1>16
  <2>3. i \in l .. m + 1 /\ j \in l - 1 .. m
    BY <1>2, <1>13
  <2>4. Splits(a, N, l, m, k, x, [arr |-> b, i |-> i, j |-> j, x |-> x])
    BY <1>1, <1>14, <1>15, <2>2, <2>3 DEF Splits
  <2> QED
    BY <1>16, <2>1, <2>2, <2>4
<1>17. CASE ~(i > j)
  <2> DEFINE c == Swapped(b, i, j)
  <2>1. Round[s] = [arr |-> c, i |-> i + 1, j |-> j - 1, x |-> x]
    BY <1>12, <1>17
  <2>2. c \in [1 .. N -> Int] /\ c[i] = b[j] /\ c[j] = b[i]
    BY <1>1, <1>13 DEF Swapped
  <2>3. \A p \in 1 .. N : p # i /\ p # j => c[p] = b[p]
    BY <1>1, <1>13 DEF Swapped
  <2>4. Reordered(a, c, N)
    BY <1>1, <1>13, SwappedIsReordered
  <2>5. Fenced(c, N, l, m)
    BY <1>1, <1>13, SwappedIsFenced
  <2> HIDE DEF c
  <2>6. ASSUME NEW p \in l .. i
        PROVE  c[p] <= x
    <3>1. CASE p = i
      BY <1>11, <2>2, <3>1
    <3>2. CASE p # i
      <4>1. p \in l .. i - 1 /\ p \in 1 .. N /\ p # j
        BY <1>2, <1>13, <1>17, <3>2
      <4> QED
        BY <1>14, <2>3, <3>2, <4>1
    <3> QED
      BY <3>1, <3>2
  <2>7. ASSUME NEW p \in j .. m
        PROVE  x <= c[p]
    <3>1. CASE p = j
      BY <1>10, <2>2, <3>1
    <3>2. CASE p # j
      <4>1. p \in j + 1 .. m /\ p \in 1 .. N /\ p # i
        BY <1>2, <1>13, <1>17, <3>2
      <4> QED
        BY <1>15, <2>3, <3>2, <4>1
    <3> QED
      BY <3>1, <3>2
  <2>8. /\ i + 1 \in l .. m + 1 /\ j - 1 \in l - 1 .. m /\ (i + 1) - 1 = i /\ (j - 1) + 1 = j
        /\ l < i + 1 /\ j - 1 < m /\ (j - 1) - (i + 1) <= (J - I) - 1
    BY <1>2, <1>4, <1>8, <1>9, <1>10, <1>11, <1>13
  <2>9. Splits(a, N, l, m, k, x, [arr |-> c, i |-> i + 1, j |-> j - 1, x |-> x])
    BY <2>2, <2>4, <2>5, <2>6, <2>7, <2>8 DEF Splits
  <2> QED
    BY <2>1, <2>8, <2>9 DEF I, J
<1> QED
  BY <1>16, <1>17

(* After n rounds.                                                         *)
AfterRounds(a, N, l, m, k, x, n, s) ==
  /\ Splits(a, N, l, m, k, x, s)
  /\ s.i > s.j => l < s.i /\ s.j < m
  /\ s.i > s.j \/ s.j - s.i <= (m - l) - n

LEMMA NextRound ==
  ASSUME NEW N \in Nat, NEW a \in [1 .. N -> Int], NEW l, NEW m, NEW k \in l .. m, NEW x \in Int,
         NEW n \in 1 .. N, NEW s, AfterRounds(a, N, l, m, k, x, n - 1, s)
  PROVE  AfterRounds(a, N, l, m, k, x, n, Round[s])
<1>1. Splits(a, N, l, m, k, x, s) /\ s.i \in Int /\ s.j \in Int /\ l \in Int /\ m \in Int
  BY DEF AfterRounds, Splits, Fenced
<1>2. CASE s.i > s.j
  <2>1. /\ s = [arr |-> s.arr, i |-> s.i, j |-> s.j, x |-> s.x]
        /\ s.arr \in [1 .. N -> Int] /\ s.i \in Int /\ s.j \in Int /\ s.x \in Int
    BY <1>1 DEF Splits
  <2>2. Round[s] = s
    BY <1>2, <2>1, RoundByDefinition
  <2> QED
    BY <1>2, <2>2 DEF AfterRounds
<1>3. CASE s.i <= s.j
  <2>1. /\ Splits(a, N, l, m, k, x, Round[s])
        /\ Round[s].i > Round[s].j \/ Round[s].j - Round[s].i <= (s.j - s.i) - 1
        /\ Round[s].i > Round[s].j => l < Round[s].i /\ Round[s].j < m
    BY <1>1, <1>3, RoundSplits
  <2>2. Round[s].i \in Int /\ Round[s].j \in Int
    BY <2>1, <1>1 DEF Splits
  <2>3. s.j - s.i <= (m - l) - (n - 1)
    BY <1>1, <1>3 DEF AfterRounds
  <2>4. Round[s].i > Round[s].j \/ Round[s].j - Round[s].i <= (m - l) - n
    <3> DEFINE d == Round[s].j - Round[s].i
    <3>1. CASE Round[s].i > Round[s].j
      BY <3>1
    <3>2. CASE d <= (s.j - s.i) - 1
      <4>1. d \in Int /\ s.j - s.i \in Int /\ m - l \in Int /\ n \in Int
        <5>1. d \in Int
          BY <2>2
        <5>2. s.j - s.i \in Int
          BY <1>1
        <5> QED
          BY <1>1, <5>1, <5>2
      <4> HIDE DEF d
      <4>2. d <= (m - l) - n
        BY <2>3, <3>2, <4>1
      <4> QED
        BY <4>2 DEF d
    <3> QED
      BY <2>1, <3>1, <3>2
  <2> QED
    BY <2>1, <2>4 DEF AfterRounds
<1> QED
  BY <1>1, <1>2, <1>3

(* The do loop ends, with the part split.                                  *)
LEMMA AroundSplits ==
  ASSUME NEW N \in Nat, NEW a \in [1 .. N -> Int], NEW b \in [1 .. N -> Int], Reordered(a, b, N),
         NEW l, NEW m, Fenced(b, N, l, m), NEW k \in l .. m
  PROVE  LET s == Around(b, l, m, b[k])
         IN Splits(a, N, l, m, k, b[k], s) /\ s.i > s.j /\ l < s.i /\ s.j < m
<1> DEFINE x == b[k]
           base == [arr |-> b, i |-> l, j |-> m, x |-> x]
           Is(f) == f = [n \in 0 .. N |-> IF n = 0 THEN base ELSE Round[f[n - 1]]]
           round == CHOOSE f : Is(f)
           States == [arr : [1 .. N -> Int], i : Int, j : Int, x : Int]
           Rounds == [ns \in (1 .. N) \X States |-> Round[ns[2]]]
           Good(n, s) == AfterRounds(a, N, l, m, k, x, n, s)
<1>1. l \in 1 .. N + 1 /\ m \in 0 .. N /\ k \in 1 .. N
  BY DEF Fenced
<1>2. x \in Int
  BY <1>1
<1>3. Around(b, l, m, x) = round[N]
  BY ArrayIsSequence DEF Around
<1>4. Good(0, base)
  <2>1. base.arr = b /\ base.i = l /\ base.j = m
    OBVIOUS
  <2>2. Splits(a, N, l, m, k, x, base)
    BY <1>1 DEF Splits
  <2> HIDE DEF base
  <2> QED
    BY <1>1, <2>1, <2>2 DEF AfterRounds
<1>5. \A n, s : n \in 1 .. N /\ Good(n - 1, s) => Good(n, Round[s])
  BY <1>2, NextRound
<1>6. \A n, s : Good(n, s) => s \in States
  <2> SUFFICES ASSUME NEW n, NEW s, Good(n, s) PROVE s \in States
    OBVIOUS
  <2>1. /\ s = [arr |-> s.arr, i |-> s.i, j |-> s.j, x |-> x]
        /\ s.arr \in [1 .. N -> Int] /\ s.i \in Int /\ s.j \in Int
    BY <1>1 DEF AfterRounds, Splits
  <2> QED
    BY <1>2, <2>1
<1>7. \A ns \in (1 .. N) \X States : Rounds[ns] = Round[ns[2]]
  OBVIOUS
<1> HIDE DEF base, States, Rounds, Good
<1>8. PICK f : Iterates(f, 1, N, base, Rounds)
  <2>1. 1 \in Int
    OBVIOUS
  <2>2. \E f : Iterates(f, 1, 1 - 1 + N, base, Rounds)
    BY <2>1, IteratesExists, Zenon
  <2> QED
    BY <2>2
<1>9. f = [n \in 0 .. N |-> f[n]]
  BY <1>8 DEF Iterates
<1>10. \A n \in 0 .. N : f[n] = IF n = 0 THEN base ELSE Rounds[<<n, f[n - 1]>>]
  BY <1>8 DEF Iterates
<1> DEFINE S == {n \in 0 .. N : Good(n, f[n])}
<1>11. 0 \in S
  <2>1. 0 \in 0 .. N
    OBVIOUS
  <2>2. f[0] = base
    BY <1>10, <2>1, Zenon
  <2> QED
    BY <1>4, <2>1, <2>2
<1>12. ASSUME NEW n \in 1 .. N, n - 1 \in S
       PROVE  f[n] = Round[f[n - 1]] /\ n \in S
  <2>1. n \in 0 .. N /\ n # 0 /\ Good(n - 1, f[n - 1])
    BY <1>12
  <2>2. <<n, f[n - 1]>> \in (1 .. N) \X States
    BY <1>6, <2>1
  <2>3. Rounds[<<n, f[n - 1]>>] = Round[f[n - 1]]
    BY <1>7, <2>2
  <2> QED
    BY <1>5, <1>10, <2>1, <2>3
<1>13. \A n \in 0 .. N : n \in S
  <2>1. \A n \in 1 .. N : n - 1 \in S => n \in S
    BY <1>12
  <2> HIDE DEF S
  <2>2. 1 \in Int /\ N \in Int /\ 1 - 1 \in S
    BY <1>11
  <2>3. \A n \in (1 - 1) .. N : n \in S
    BY <2>1, <2>2, IntervalInduction
  <2> QED
    BY <2>3
<1>14. \A n \in 0 .. N : f[n] = IF n = 0 THEN base ELSE Round[f[n - 1]]
  <2> SUFFICES ASSUME NEW n \in 0 .. N, n # 0 PROVE f[n] = Round[f[n - 1]]
    BY <1>10
  <2>1. n \in 1 .. N /\ n - 1 \in 0 .. N
    OBVIOUS
  <2> QED
    BY <1>12, <1>13, <2>1
<1>15. Is(f)
  BY <1>9, <1>14
<1>16. Is(round)
  <2>1. \E g : Is(g)
    BY <1>15
  <2> HIDE DEF Is
  <2> QED
    BY <2>1, Zenon
<1>17. \A n \in 0 .. N : round[n] = IF n = 0 THEN base ELSE Round[round[n - 1]]
  BY <1>16
<1> HIDE DEF round
<1> DEFINE T == {n \in 0 .. N : Good(n, round[n])}
<1>18. 0 \in T
  BY <1>4, <1>17
<1>19. ASSUME NEW n \in 1 .. N, n - 1 \in T
       PROVE  n \in T
  <2>1. n \in 0 .. N /\ n # 0 /\ Good(n - 1, round[n - 1])
    BY <1>19
  <2> QED
    BY <1>5, <1>17, <2>1
<1>20. N \in T
  <2>1. \A n \in 1 .. N : n - 1 \in T => n \in T
    BY <1>19
  <2> HIDE DEF T
  <2>2. 1 \in Int /\ N \in Int /\ 1 - 1 \in T
    BY <1>18
  <2>3. \A n \in (1 - 1) .. N : n \in T
    BY <2>1, <2>2, IntervalInduction
  <2> QED
    BY <2>3
<1>21. AfterRounds(a, N, l, m, k, x, N, round[N])
  BY <1>20 DEF Good
<1> DEFINE s == round[N]
<1> HIDE DEF s
<1>22. AfterRounds(a, N, l, m, k, x, N, s)
  BY <1>21 DEF s
<1>23. s.i \in Int /\ s.j \in Int /\ (m - l) - N < 0
  BY <1>1, <1>22 DEF AfterRounds, Splits
<1>24. s.i > s.j
  <2>1. s.i > s.j \/ s.j - s.i <= (m - l) - N
    BY <1>22 DEF AfterRounds
  <2> QED
    BY <1>1, <1>23, <2>1
<1>25. Splits(a, N, l, m, k, x, s) /\ l < s.i /\ s.j < m
  BY <1>22, <1>24 DEF AfterRounds
<1> QED
  BY <1>3, <1>24, <1>25 DEF s

(* What is at k belongs there.                                             *)
Middle(b, N, k) ==
  /\ \A p \in 1 .. N : p < k => b[p] <= b[k]
  /\ \A p \in 1 .. N : k < p => b[k] <= b[p]

(* Between two passes: the part from l to m holds k, or the work is done.  *)
Selects(a, N, k, s) ==
  /\ s = [arr |-> s.arr, k |-> k, l |-> s.l, m |-> s.m]
  /\ s.arr \in [1 .. N -> Int] /\ Reordered(a, s.arr, N)
  /\ Fenced(s.arr, N, s.l, s.m)
  /\ k \in s.l .. s.m \/ (s.l > s.m /\ Middle(s.arr, N, k))

AfterPasses(a, N, k, n, s) ==
  /\ Selects(a, N, k, s)
  /\ s.l >= s.m \/ s.m - s.l <= (N - 1) - n

(* A part that is split is fenced on both sides of where i and j met.      *)
LEMMA SplitIsFenced ==
  ASSUME NEW N \in Nat, NEW a \in [1 .. N -> Int], NEW l, NEW m, NEW k \in l .. m, NEW x \in Int, NEW s,
         Splits(a, N, l, m, k, x, s), s.i > s.j
  PROVE  /\ Fenced(s.arr, N, s.i, m) /\ Fenced(s.arr, N, l, s.j) /\ Fenced(s.arr, N, s.i, s.j)
         /\ s.j < k /\ k < s.i => Middle(s.arr, N, k)
<1> DEFINE b == s.arr
           i == s.i
           j == s.j
<1>1. b \in [1 .. N -> Int] /\ l \in 1 .. N + 1 /\ m \in 0 .. N /\ i \in l .. m + 1 /\ j \in l - 1 .. m /\ j < i
  BY DEF Splits, Fenced
<1>2. \A p, q \in 1 .. N : p < l /\ l <= q => b[p] <= b[q]
  BY DEF Splits, Fenced
<1>3. \A p, q \in 1 .. N : p <= m /\ m < q => b[p] <= b[q]
  BY DEF Splits, Fenced
<1>4. \A p \in l .. i - 1 : b[p] <= x
  BY DEF Splits
<1>5. \A p \in j + 1 .. m : x <= b[p]
  BY DEF Splits
<1> HIDE DEF b, i, j
<1>6. ASSUME NEW p \in 1 .. N, NEW q \in 1 .. N, p < i, j < q, p < q
      PROVE  b[p] <= b[q]
  <2>0. b[p] \in Int /\ b[q] \in Int
    BY <1>1
  <2>1. CASE p < l /\ l <= q
    BY <1>2, <2>1
  <2>2. CASE p < l /\ q < l
    BY <1>1, <1>6, <2>2
  <2>3. CASE l <= p /\ m < q
    <3>1. p <= m
      BY <1>1, <1>6
    <3> QED
      BY <1>3, <2>3, <3>1
  <2>4. CASE l <= p /\ q <= m
    <3>1. p \in l .. i - 1 /\ q \in j + 1 .. m
      BY <1>1, <1>6, <2>4
    <3>2. b[p] <= x /\ x <= b[q]
      BY <1>4, <1>5, <3>1
    <3> QED
      BY <2>0, <3>2
  <2> QED
    BY <1>1, <2>1, <2>2, <2>3, <2>4
<1>7. /\ \A p, q \in 1 .. N : p < i /\ i <= q => b[p] <= b[q]
      /\ \A p, q \in 1 .. N : p <= j /\ j < q => b[p] <= b[q]
  BY <1>1, <1>6
<1>8. i \in 1 .. N + 1 /\ j \in 0 .. N
  BY <1>1
<1>9. Fenced(b, N, i, m) /\ Fenced(b, N, l, j) /\ Fenced(b, N, i, j)
  BY <1>1, <1>2, <1>3, <1>7, <1>8 DEF Fenced
<1>10. ASSUME j < k, k < i
       PROVE  Middle(b, N, k)
  <2>1. k \in 1 .. N
    BY <1>1
  <2> QED
    BY <1>1, <1>6, <1>10, <2>1 DEF Middle
<1> QED
  BY <1>9, <1>10 DEF b, i, j

LEMMA NextPass ==
  ASSUME NEW N \in Nat, NEW a \in [1 .. N -> Int], NEW k \in 1 .. N, NEW n \in 1 .. N, NEW s,
         AfterPasses(a, N, k, n - 1, s)
  PROVE  AfterPasses(a, N, k, n, Pass[s])
<1> DEFINE b == s.arr
           l == s.l
           m == s.m
<1>1. /\ s = [arr |-> b, k |-> k, l |-> l, m |-> m] /\ b \in [1 .. N -> Int] /\ Reordered(a, b, N) /\ Fenced(b, N, l, m)
      /\ k \in l .. m \/ (l > m /\ Middle(b, N, k))
      /\ l >= m \/ m - l <= (N - 1) - (n - 1)
  BY DEF AfterPasses, Selects
<1>2. l \in Int /\ m \in Int
  BY <1>1 DEF Fenced
<1>3. s.k = k
  BY <1>1
<1>4. s \in [arr : Seq(Int), k : Nat, l : Int, m : Int]
  <2> HIDE DEF b, l, m
  <2>1. b \in Seq(Int) /\ k \in Nat
    BY <1>1, ArrayIsSequence
  <2> QED
    BY <1>1, <1>2, <2>1
<1>5. Pass[s] = LET split == Around(s.arr, s.l, s.m, s.arr[s.k])
                IN IF s.l >= s.m THEN s
                   ELSE [arr |-> split.arr, k |-> s.k,
                         l |-> IF split.j < s.k THEN split.i ELSE s.l,
                         m |-> IF s.k < split.i THEN split.j ELSE s.m]
  BY <1>4, Zenon DEF Pass
<1>6. CASE l >= m
  <2>1. Pass[s] = s
    BY <1>6, <1>5
  <2> QED
    BY <1>6, <2>1 DEF AfterPasses
<1>7. CASE l < m
  <2> HIDE DEF b, l, m
  <2>1. k \in l .. m
    BY <1>1, <1>2, <1>7
  <2> DEFINE split == Around(b, l, m, b[k])
  <2>2. Splits(a, N, l, m, k, b[k], split) /\ split.i > split.j /\ l < split.i /\ split.j < m
    BY <1>1, <2>1, AroundSplits
  <2>3. Pass[s] = [arr |-> split.arr, k |-> k, l |-> IF split.j < k THEN split.i ELSE l,
                                               m |-> IF k < split.i THEN split.j ELSE m]
    <3>1. s.arr = b /\ s.l = l /\ s.m = m /\ ~(s.l >= s.m)
      BY <1>2, <1>7 DEF b, l, m
    <3> QED
      BY <1>3, <1>5, <3>1
  <2> HIDE DEF split
  <2> DEFINE c == split.arr
             i == split.i
             j == split.j
             to == IF k < i THEN j ELSE m
             from == IF j < k THEN i ELSE l
  <2>4. c \in [1 .. N -> Int] /\ Reordered(a, c, N) /\ Fenced(c, N, l, m) /\ i \in Int /\ j \in Int
    BY <1>2, <2>2 DEF Splits
  <2>5. /\ Fenced(c, N, i, m) /\ Fenced(c, N, l, j) /\ Fenced(c, N, i, j)
        /\ j < k /\ k < i => Middle(c, N, k)
    <3>1. b[k] \in Int
      BY <1>1
    <3> QED
      BY <2>1, <2>2, <3>1, SplitIsFenced
  <2>6. l < i /\ j < m /\ j < i
    BY <2>2, <2>4
  <2>7. Pass[s] = [arr |-> c, k |-> k, l |-> from, m |-> to]
    BY <2>3
  <2> HIDE DEF c, i, j
  <2>8. Fenced(c, N, from, to)
    BY <2>4, <2>5
  <2>9. k \in from .. to \/ (from > to /\ Middle(c, N, k))
    BY <1>2, <2>1, <2>4, <2>5, <2>6
  <2>10. from \in Int /\ to \in Int /\ to - from <= (m - l) - 1
    BY <1>2, <2>1, <2>4, <2>6
  <2> HIDE DEF from, to
  <2>11. from >= to \/ to - from <= (N - 1) - n
    BY <1>1, <1>2, <1>7, <2>10
  <2>12. AfterPasses(a, N, k, n, [arr |-> c, k |-> k, l |-> from, m |-> to])
    BY <2>4, <2>8, <2>9, <2>11 DEF AfterPasses, Selects
  <2> QED
    BY <2>7, <2>12
<1> QED
  BY <1>2, <1>6, <1>7

LEMMA SameOrder ==
  ASSUME NEW N \in Nat, NEW a \in [1 .. N -> Int]
  PROVE  Reordered(a, a, N)
<1> DEFINE where == [p \in 1 .. N |-> p]
<1>1. where \in [1 .. N -> 1 .. N] /\ \A p \in 1 .. N : where[p] = p
  OBVIOUS
<1> HIDE DEF where
<1>2. Moves(a, a, N, where)
  BY <1>1 DEF Moves
<1> QED
  BY <1>2 DEF Reordered

(* Quickselect ends, and the value it returns belongs in the middle.       *)
LEMMA QuickselectSelects ==
  ASSUME NEW N \in Nat \ {0}, NEW a \in [1 .. N -> Int]
  PROVE  LET k == N \div 2 + 1
         IN \E b \in [1 .. N -> Int] :
              Reordered(a, b, N) /\ Middle(b, N, k) /\ quickselect_median(a) = b[k]
<1> DEFINE k == N \div 2 + 1
           base == [arr |-> a, k |-> k, l |-> 1, m |-> N]
           Is(f) == f = [n \in 0 .. N |-> IF n = 0 THEN base ELSE Pass[f[n - 1]]]
           pass == CHOOSE f : Is(f)
           States == [arr : [1 .. N -> Int], k : Int, l : Int, m : Int]
           Passes == [ns \in (1 .. N) \X States |-> Pass[ns[2]]]
           Good(n, s) == AfterPasses(a, N, k, n, s)
<1>1. k \in 1 .. N
  OBVIOUS
<1>2. N \in Nat /\ 1 \in Int /\ N \in Int
  OBVIOUS
<1>3. quickselect_median(a) = pass[N].arr[k]
  <2>1. Len(a) = N
    BY <1>2, ArrayIsSequence
  <2> QED
    BY <2>1, Zenon DEF quickselect_median
<1> HIDE DEF k
<1>4. Good(0, base)
  <2>1. base.arr = a /\ base.l = 1 /\ base.m = N
    OBVIOUS
  <2>2. Fenced(a, N, 1, N)
    BY <1>2 DEF Fenced
  <2>3. Selects(a, N, k, base)
    BY <1>1, <1>2, <2>2, SameOrder DEF Selects
  <2> HIDE DEF base
  <2> QED
    BY <1>2, <2>1, <2>3 DEF AfterPasses
<1>5. \A n, s : n \in 1 .. N /\ Good(n - 1, s) => Good(n, Pass[s])
  BY <1>1, NextPass
<1>6. \A n, s : Good(n, s) => s \in States
  <2> SUFFICES ASSUME NEW n, NEW s, Good(n, s) PROVE s \in States
    OBVIOUS
  <2>1. /\ s = [arr |-> s.arr, k |-> k, l |-> s.l, m |-> s.m]
        /\ s.arr \in [1 .. N -> Int] /\ s.l \in Int /\ s.m \in Int
    BY DEF AfterPasses, Selects, Fenced
  <2> QED
    BY <1>1, <2>1
<1>7. \A ns \in (1 .. N) \X States : Passes[ns] = Pass[ns[2]]
  OBVIOUS
<1> HIDE DEF base, States, Passes, Good
<1>8. PICK f : Iterates(f, 1, N, base, Passes)
  <2>1. \E f : Iterates(f, 1, 1 - 1 + N, base, Passes)
    BY <1>2, IteratesExists, Zenon
  <2> QED
    BY <2>1
<1>9. f = [n \in 0 .. N |-> f[n]]
  BY <1>8 DEF Iterates
<1>10. \A n \in 0 .. N : f[n] = IF n = 0 THEN base ELSE Passes[<<n, f[n - 1]>>]
  BY <1>8 DEF Iterates
<1> DEFINE S == {n \in 0 .. N : Good(n, f[n])}
<1>11. 0 \in S
  <2>1. 0 \in 0 .. N
    OBVIOUS
  <2>2. f[0] = base
    BY <1>10, <2>1, Zenon
  <2> QED
    BY <1>4, <2>1, <2>2
<1>12. ASSUME NEW n \in 1 .. N, n - 1 \in S
       PROVE  f[n] = Pass[f[n - 1]] /\ n \in S
  <2>1. n \in 0 .. N /\ n # 0 /\ Good(n - 1, f[n - 1])
    BY <1>12
  <2>2. <<n, f[n - 1]>> \in (1 .. N) \X States
    BY <1>6, <2>1
  <2>3. Passes[<<n, f[n - 1]>>] = Pass[f[n - 1]]
    BY <1>7, <2>2
  <2> QED
    BY <1>5, <1>10, <2>1, <2>3
<1>13. \A n \in 0 .. N : n \in S
  <2>1. \A n \in 1 .. N : n - 1 \in S => n \in S
    BY <1>12
  <2> HIDE DEF S
  <2>2. 1 - 1 \in S
    BY <1>11
  <2>3. \A n \in (1 - 1) .. N : n \in S
    BY <1>2, <2>1, <2>2, IntervalInduction
  <2> QED
    BY <2>3
<1>14. \A n \in 0 .. N : f[n] = IF n = 0 THEN base ELSE Pass[f[n - 1]]
  <2> SUFFICES ASSUME NEW n \in 0 .. N, n # 0 PROVE f[n] = Pass[f[n - 1]]
    BY <1>10
  <2>1. n \in 1 .. N /\ n - 1 \in 0 .. N
    OBVIOUS
  <2> QED
    BY <1>12, <1>13, <2>1
<1>15. Is(f)
  BY <1>9, <1>14
<1>16. Is(pass)
  <2>1. \E g : Is(g)
    BY <1>15
  <2> HIDE DEF Is
  <2> QED
    BY <2>1, Zenon
<1>17. \A n \in 0 .. N : pass[n] = IF n = 0 THEN base ELSE Pass[pass[n - 1]]
  BY <1>16
<1> HIDE DEF pass
<1> DEFINE T == {n \in 0 .. N : Good(n, pass[n])}
<1>18. 0 \in T
  <2>1. 0 \in 0 .. N
    OBVIOUS
  <2>2. pass[0] = base
    BY <1>17, <2>1, Zenon
  <2> QED
    BY <1>4, <2>1, <2>2
<1>19. ASSUME NEW n \in 1 .. N, n - 1 \in T
       PROVE  n \in T
  <2>1. n \in 0 .. N /\ n # 0 /\ Good(n - 1, pass[n - 1])
    BY <1>19
  <2> QED
    BY <1>5, <1>17, <2>1
<1>20. N \in T
  <2>1. \A n \in 1 .. N : n - 1 \in T => n \in T
    BY <1>19
  <2> HIDE DEF T
  <2>2. 1 - 1 \in T
    BY <1>18
  <2>3. \A n \in (1 - 1) .. N : n \in T
    BY <1>2, <2>1, <2>2, IntervalInduction
  <2> QED
    BY <1>2, <2>3
<1>21. AfterPasses(a, N, k, N, pass[N])
  BY <1>20 DEF Good
<1> DEFINE s == pass[N]
           b == s.arr
<1> HIDE DEF s
<1>22. AfterPasses(a, N, k, N, s)
  BY <1>21 DEF s
<1>23. /\ b \in [1 .. N -> Int] /\ Reordered(a, b, N) /\ Fenced(b, N, s.l, s.m)
       /\ k \in s.l .. s.m \/ (s.l > s.m /\ Middle(b, N, k))
       /\ s.l >= s.m \/ s.m - s.l <= (N - 1) - N
  BY <1>22 DEF AfterPasses, Selects
<1> HIDE DEF b
<1>24. s.l \in Int /\ s.m \in Int
  BY <1>23 DEF Fenced
<1>25. s.l >= s.m
  BY <1>2, <1>23, <1>24
<1>26. Middle(b, N, k)
  <2>1. CASE k \in s.l .. s.m
    <3>1. s.l = k /\ s.m = k
      BY <1>1, <1>24, <1>25, <2>1
    <3> QED
      BY <1>1, <1>23, <3>1 DEF Fenced, Middle
  <2> QED
    BY <1>23, <2>1
<1> QED
  BY <1>3, <1>23, <1>26 DEF s, b, k

(* As many places of a as there are from lo to hi in b, if these are all   *)
(* moved there.                                                            *)
LEMMA PlacesCount ==
  ASSUME NEW N \in Nat, NEW where \in [1 .. N -> 1 .. N],
         \A p, q \in 1 .. N : where[p] = where[q] => p = q,
         NEW lo \in 1 .. N, NEW hi \in 1 .. N, lo <= hi,
         NEW T, T \subseteq 1 .. N, \A p \in lo .. hi : where[p] \in T
  PROVE  Cardinality(T) \in Nat /\ hi - lo + 1 <= Cardinality(T)
<1> DEFINE f == [p \in lo .. hi |-> where[p]]
<1>1. IsFiniteSet(1 .. N)
  BY FS_Interval
<1>2. IsFiniteSet(T) /\ Cardinality(T) \in Nat
  BY <1>1, FS_Subset, FS_CardinalityType
<1>3. \A p \in lo .. hi : p \in 1 .. N
  OBVIOUS
<1>4. f \in [lo .. hi -> T] /\ DOMAIN f = lo .. hi /\ \A p \in lo .. hi : f[p] = where[p]
  OBVIOUS
<1> HIDE DEF f
<1>5. IsInjective(f)
  BY <1>3, <1>4 DEF IsInjective
<1>6. f \in Injection(lo .. hi, T)
  BY <1>4, <1>5 DEF Injection
<1>7. Cardinality(lo .. hi) <= Cardinality(T)
  BY <1>2, <1>6, FS_Injection
<1>8. Cardinality(lo .. hi) = hi - lo + 1
  BY FS_Interval
<1> QED
  BY <1>2, <1>7, <1>8

(* More than half of the values lie below what exceeds the median, and at  *)
(* most half below anything else.                                          *)
LEMMA MedianHalves ==
  ASSUME NEW N \in Nat \ {0}, NEW a \in [1 .. N -> Int], NEW t \in Int
  PROVE  LET below == {p \in 1 .. N : a[p] < t}
         IN /\ quickselect_median(a) \in Int
            /\ t > quickselect_median(a) <=> 2 * Cardinality(below) > N
<1> DEFINE below == {p \in 1 .. N : a[p] < t}
           v == quickselect_median(a)
           k == N \div 2 + 1
<1>1. k \in 1 .. N /\ 2 * k > N /\ 2 * (k - 1) <= N
  OBVIOUS
<1> HIDE DEF k, v
<1>2. PICK b \in [1 .. N -> Int] : Reordered(a, b, N) /\ Middle(b, N, k) /\ v = b[k]
  BY QuickselectSelects DEF k, v
<1>3. PICK where : Moves(a, b, N, where)
  BY <1>2 DEF Reordered
<1>4. where \in [1 .. N -> 1 .. N]
  BY <1>3 DEF Moves
<1>5. \A p, q \in 1 .. N : where[p] = where[q] => p = q
  BY <1>3 DEF Moves
<1>6. \A p \in 1 .. N : b[p] = a[where[p]]
  BY <1>3 DEF Moves
<1>7. v \in Int
  BY <1>1, <1>2
<1>8. ASSUME NEW p \in 1 .. N
      PROVE  where[p] \in 1 .. N /\ b[p] \in Int /\ (p <= k => b[p] <= v) /\ (k <= p => v <= b[p])
  <2>1. where[p] \in 1 .. N /\ b[p] \in Int
    BY <1>4
  <2>2. (p < k => b[p] <= b[k]) /\ (k < p => b[k] <= b[p])
    BY <1>2 DEF Middle
  <2>3. p = k => b[p] = b[k]
    OBVIOUS
  <2> QED
    BY <1>1, <1>2, <1>7, <2>1, <2>2, <2>3
<1>9. IsFiniteSet(1 .. N) /\ Cardinality(1 .. N) = N
  BY FS_Interval
<1>10. IsFiniteSet(below) /\ Cardinality(below) \in Nat
  BY <1>9, FS_Subset, FS_CardinalityType
<1>11. CASE t > v
  <2>1. \A p \in 1 .. k : where[p] \in below
    <3> SUFFICES ASSUME NEW p \in 1 .. k PROVE where[p] \in below
      OBVIOUS
    <3>1. p \in 1 .. N /\ p <= k
      BY <1>1
    <3>2. a[where[p]] <= v /\ a[where[p]] \in Int
      BY <1>6, <1>8, <3>1
    <3>3. a[where[p]] < t
      BY <1>7, <1>11, <3>2
    <3> QED
      BY <1>8, <3>1, <3>3
  <2>2. 1 \in 1 .. N /\ 1 <= k /\ N \in Nat /\ below \subseteq 1 .. N
    BY <1>1
  <2> HIDE DEF below
  <2>3. k - 1 + 1 <= Cardinality(below)
    BY <1>1, <1>4, <1>5, <2>1, <2>2, PlacesCount
  <2> QED
    BY <1>1, <1>7, <1>10, <1>11, <2>3 DEF v, below
<1>12. CASE t <= v
  <2> DEFINE rest == {p \in 1 .. N : v <= a[p]}
  <2>1. \A p \in k .. N : where[p] \in rest
    <3> SUFFICES ASSUME NEW p \in k .. N PROVE where[p] \in rest
      OBVIOUS
    <3>1. p \in 1 .. N /\ k <= p
      BY <1>1
    <3>2. v <= a[where[p]]
      BY <1>6, <1>8, <3>1
    <3> QED
      BY <1>8, <3>1, <3>2
  <2>2. N \in 1 .. N /\ k <= N /\ N \in Nat /\ rest \subseteq 1 .. N
    BY <1>1
  <2>3. below \subseteq (1 .. N) \ rest
    BY <1>7, <1>12
  <2> HIDE DEF below, rest
  <2>4. N - k + 1 <= Cardinality(rest) /\ Cardinality(rest) \in Nat
    BY <1>1, <1>4, <1>5, <2>1, <2>2, PlacesCount
  <2>5. IsFiniteSet((1 .. N) \ rest) /\ Cardinality((1 .. N) \ rest) = N - Cardinality(rest)
    <3>1. (1 .. N) \cap rest = rest
      BY <2>2
    <3>2. /\ IsFiniteSet((1 .. N) \ rest)
          /\ Cardinality((1 .. N) \ rest) = Cardinality(1 .. N) - Cardinality((1 .. N) \cap rest)
      BY <1>9, FS_Difference, Zenon
    <3> QED
      BY <1>9, <3>1, <3>2, Zenon
  <2>6. Cardinality(below) <= N - Cardinality(rest)
    BY <2>3, <2>5, FS_Subset
  <2>7. 2 * Cardinality(below) <= N
    BY <1>1, <1>10, <2>2, <2>4, <2>6
  <2> QED
    BY <1>7, <1>10, <1>12, <2>2, <2>7 DEF v, below
<1> QED
  BY <1>7, <1>11, <1>12

(* The bits of a hash, by counting.                                        *)
LEMMA BitsByCounting ==
  ASSUME NEW dct \in Seq(Int), Len(dct) > 1
  PROVE  LET detail == Tail(dct)
         IN dct_hash(dct) =
              [k \in DOMAIN detail |->
                 2 * Cardinality({j \in DOMAIN detail : detail[j] < detail[k] - 1}) > Len(detail)]
<1> DEFINE detail == Tail(dct)
           N == Len(dct) - 1
           Count(k) == Cardinality({j \in 1 .. N : detail[j] < detail[k] - 1})
<1>1. N \in Nat \ {0} /\ detail \in Seq(Int) /\ Len(detail) = N
  <2>5. Len(dct) \in Nat
    OBVIOUS
  <2>6. Len(dct) > 1
    OBVIOUS
  <2>1. N \in Nat \ {0}
    <3>1. \A n \in Nat : n > 1 => n - 1 \in Nat \ {0}
      OBVIOUS
    <3> QED
      BY <2>5, <2>6, <3>1, Zenon DEF N
  <2>2. dct # << >>
    OBVIOUS
  <2>3. Tail(dct) \in Seq(Int)
    BY <2>2
  <2>4. Len(Tail(dct)) = Len(dct) - 1
    BY <2>2
  <2> QED
    BY <2>1, <2>3, <2>4
<1>2. ASSUME NEW k \in 1 .. N
      PROVE  detail[k] = dct[k + 1] /\ detail[k] \in Int
  <2>1. k + 1 \in 1 .. Len(dct) /\ k \in 1 .. Len(dct) - 1
    OBVIOUS
  <2>2. detail[k] = dct[k + 1]
    BY <2>1
  <2>3. dct[k + 1] \in Int
    BY <2>1
  <2> QED
    BY <2>2, <2>3
<1> HIDE DEF N
<1>10. DOMAIN detail = 1 .. N
  <2> HIDE DEF detail
  <2> QED
    BY <1>1
<1>11. detail \in [1 .. N -> Int]
  <2> HIDE DEF detail
  <2> QED
    BY <1>1, <1>10
<1> HIDE DEF detail
<1>3. quickselect_median(detail) \in Int
  <2>1. 0 \in Int
    OBVIOUS
  <2> QED
    BY <1>1, <1>11, <2>1, MedianHalves, Zenon
<1>4. ASSUME NEW k \in 1 .. N
      PROVE  dct[k + 1] > quickselect_median(detail) + 1 <=> 2 * Count(k) > N
  <2>1. detail[k] - 1 \in Int /\ detail[k] = dct[k + 1] /\ detail[k] \in Int
    BY <1>2
  <2>2. detail[k] - 1 > quickselect_median(detail) <=> 2 * Count(k) > N
    BY <1>1, <1>11, <2>1, MedianHalves
  <2> HIDE DEF Count
  <2> QED
    BY <1>3, <2>1, <2>2
<1>5. dct_hash(dct) = [k \in 1 .. N |-> dct[k + 1] > quickselect_median(detail) + 1]
  BY DEF dct_hash, detail, N
<1> HIDE DEF Count
<1>6. [k \in 1 .. N |-> dct[k + 1] > quickselect_median(detail) + 1] = [k \in 1 .. N |-> 2 * Count(k) > N]
  <2>1. \A k \in 1 .. N : (dct[k + 1] > quickselect_median(detail) + 1) = (2 * Count(k) > N)
    BY <1>4
  <2> QED
    BY <2>1, Zenon
<1> QED
  BY <1>1, <1>10, <1>5, <1>6 DEF Count, detail, N

-----------------------------------------------------------------------------
(***************************************************************************)
(* The video hash                                                          *)
(***************************************************************************)

(***************************************************************************)
(* Control                                                                 *)
(***************************************************************************)

ReaderSteps == {"open", "probe", "stream", "codec", "duration"}
RotationSteps == {"rotate", "filter"}
TurnedSteps == {"grey", "clone", "crop", "scale", "hash"}
FrameSteps == RotationSteps \cup TurnedSteps
Steps == {"idle", "undefined", "aborted", "done", "seek", "decode"} \cup ReaderSteps \cup FrameSteps

ErrorRecords == [kind : {"ERR", "ENOMEM", "EXIT", "NOTHING"}, at : Steps]

VideoTypeOK ==
  /\ video \in Videos
  /\ options \in Options
  /\ step \in Steps
  /\ segment \in Nat
  /\ last_pts \in Int
  /\ position \in Nat \ {0}
  /\ held \in Seq(DOMAIN video.pts)
  /\ decoded \in Nat
  /\ errors \in Seq(ErrorRecords)

(* Where the loop is, by the step.                                         *)
LoopControl ==
  /\ segment <= options.segments
  /\ step = "idle" => segment = 0 /\ entries = <<>>
  /\ step \in ReaderSteps => segment = 0
  /\ step # "idle" => DOMAIN entries = Segments
  /\ step \in {"decode"} \cup FrameSteps => segment < options.segments
  /\ step \in {"grey", "clone", "crop"} => options.bars

(* What is returned, and when.                                             *)
ResultControl ==
  /\ result # "none" => step = "done"
  /\ result = "AK_OK" => segment = options.segments /\ decoded > 0

Control == VideoTypeOK /\ LoopControl /\ ResultControl

LEMMA InitControl == VideoInit => Control
  BY VideosAssumption DEF VideoInit, Control, VideoTypeOK, LoopControl, ResultControl, Options, Steps,
     ReaderSteps, FrameSteps, RotationSteps, TurnedSteps, ErrorRecords

LEMMA StartControl ==
  ASSUME Control, NEW opts \in Options, ak_video_hash(opts)
  PROVE  Control'
  BY DEF Control, VideoTypeOK, LoopControl, ResultControl, ak_video_hash, readerVars, Options, Segments,
     Steps, ReaderSteps, FrameSteps, RotationSteps, TurnedSteps

(* Steps that only go on to the next one.                                  *)
LEMMA GotoControl ==
  ASSUME Control, vreader_init \/ ReadMissingStream \/ CheckDuration
  PROVE  Control'
  BY DEF Control, VideoTypeOK, LoopControl, ResultControl, vreader_init, AfterReaderStep,
     ReadMissingStream, CheckDuration, Goto, Ends, readerVars, loopVars, Segments,
     Steps, ReaderSteps, FrameSteps, RotationSteps, TurnedSteps, Options

(* The steps of normalise_frame_to_grey8 touch the frames and the errors.  *)
LEMMA GreySteps ==
  ASSUME normalise_frame_to_grey8 \/ ScaleNothing
  PROVE  /\ step \in {"grey", "clone"} /\ step' \in {"clone", "crop"}
         /\ UNCHANGED <<video, options, readerVars, segment, last_pts, fctx_init, entries, decoded, result>>
         /\ errors' \in {errors, Append(errors, [kind |-> "NOTHING", at |-> "grey"])}
  BY DEF normalise_frame_to_grey8, BorrowFrame, ConvertToGrey, FillGrey, CloneGrey, ScaleNothing, Goto,
     SetFrame, loopVars

LEMMA GreyControl ==
  ASSUME Control, normalise_frame_to_grey8 \/ ScaleNothing
  PROVE  Control'
<1>1. [kind |-> "NOTHING", at |-> "grey"] \in ErrorRecords
  BY DEF ErrorRecords, Steps, FrameSteps, TurnedSteps
<1>2. errors' \in Seq(ErrorRecords)
  BY <1>1, GreySteps DEF Control, VideoTypeOK
<1> QED
  BY <1>2, GreySteps DEF Control, VideoTypeOK, LoopControl, ResultControl, readerVars, Segments, Steps,
     ReaderSteps, FrameSteps, RotationSteps, TurnedSteps

(* What apply_crop does: the segment fails, or a part is kept, which is    *)
(* known if the pixels are luma.                                           *)
LEMMA CropOutcomes ==
  ASSUME apply_crop
  PROVE  /\ step = "crop"
         /\ \/ SegmentFails /\ UNCHANGED errors /\ (frame.luma => IsBlack(Picture(frame)))
            \/ \E kept : /\ SetFrame([frame EXCEPT !.kept = kept], "scale")
                         /\ frame.luma => /\ ~IsBlack(Picture(frame))
                                          /\ kept = Cropped(Picture(frame), Alignment)
<1>1. CASE SegmentFails /\ UNCHANGED errors /\ (frame.luma => IsBlack(Picture(frame)))
  BY <1>1 DEF apply_crop
<1>2. ASSUME frame.luma => ~IsBlack(Picture(frame)),
             NEW kept \in IF frame.luma THEN {Cropped(Picture(frame), Alignment)} ELSE Parts(Picture(frame)),
             SetFrame([frame EXCEPT !.kept = kept], "scale")
      PROVE  \E part : /\ SetFrame([frame EXCEPT !.kept = part], "scale")
                       /\ frame.luma => /\ ~IsBlack(Picture(frame))
                                        /\ part = Cropped(Picture(frame), Alignment)
  <2>1. frame.luma => kept = Cropped(Picture(frame), Alignment)
    BY <1>2
  <2> QED
    BY <1>2, <2>1, Zenon
<1> QED
  BY <1>1, <1>2, Zenon DEF apply_crop

(* A segment that fails, alone or after a failing call.                    *)
LEMMA SegmentFailsControl ==
  ASSUME Control, SegmentFails, step \in {"seek", "decode"} \cup FrameSteps, segment < options.segments,
         errors' \in Seq(ErrorRecords)
  PROVE  Control'
  BY DEF Control, VideoTypeOK, LoopControl, ResultControl, SegmentFails, readerVars, Options, Segments,
     Steps, ReaderSteps, FrameSteps, RotationSteps, TurnedSteps

LEMMA EndsControl ==
  ASSUME Control, NEW status \in {"AK_IO_FAIL", "AK_NO_MEM"}, Ends(status), step # "idle",
         errors' \in Seq(ErrorRecords)
  PROVE  Control'
  BY DEF Control, VideoTypeOK, LoopControl, ResultControl, Ends, readerVars, loopVars, Options, Segments,
     Steps, ReaderSteps, FrameSteps, RotationSteps, TurnedSteps

(* The reader hands out frames of the video only, and a frame only if it   *)
(* holds one.                                                              *)
LEMMA LandingsAreFrames ==
  ASSUME Control, NEW target, NEW k \in Landings(target)
  PROVE  k \in Nat \ {0}
  BY VideosAssumption DEF Control, VideoTypeOK, Landings

LEMMA ReadyMeansHeld ==
  ASSUME Control, FrameReady
  PROVE  /\ held # <<>>
         /\ Head(held) \in DOMAIN video.pts
         /\ Tail(held) \in Seq(DOMAIN video.pts)
<1>1. video.delay \in Nat
  BY VideosAssumption DEF Control, VideoTypeOK
<1>2. held # <<>>
  BY <1>1 DEF Control, VideoTypeOK, FrameReady
<1> QED
  BY <1>2 DEF Control, VideoTypeOK

(* Frames and their times are numbers.                                     *)
LEMMA PtsAreNumbers ==
  ASSUME Control, NEW n \in DOMAIN video.pts
  PROVE  n \in Nat \ {0} /\ video.pts[n] \in Int
  BY VideosAssumption DEF Control, VideoTypeOK

LEMMA ReaderControl ==
  ASSUME Control, Seek \/ Receive \/ ReadPacket \/ ReadEnd
  PROVE  Control'
<1>0. Receive => video.pts[Head(held)] \in Int
  BY ReadyMeansHeld, PtsAreNumbers DEF Receive
<1> USE DEF Control, VideoTypeOK, LoopControl, ResultControl, loopVars, Options, Segments,
            Steps, ReaderSteps, FrameSteps, RotationSteps, TurnedSteps
<1>1. CASE Seek
  BY <1>1, LandingsAreFrames DEF Seek
<1>2. CASE Receive
  <2>1. video.pts[Head(held)] \in Int
    BY <1>0, <1>2
  <2>2. held' \in Seq(DOMAIN video.pts)
    BY <1>2, ReadyMeansHeld DEF Receive
  <2>3. last_pts' \in Int /\ step' \in {"decode", "rotate"}
    BY <1>2, <2>1 DEF Receive
  <2>4. UNCHANGED <<video, options, position, segment, entries, decoded, result, errors>> /\ step = "decode"
    BY <1>2 DEF Receive
  <2> QED
    BY <2>2, <2>3, <2>4
<1>3. CASE ReadPacket
  <2>1. position \in DOMAIN video.pts
    BY <1>3, VideosAssumption DEF ReadPacket, MoreFrames
  <2> QED
    BY <1>3, <2>1 DEF ReadPacket
<1>4. CASE ReadEnd
  BY <1>4 DEF ReadEnd
<1> QED
  BY <1>1, <1>2, <1>3, <1>4

LEMMA SegmentControl ==
  ASSUME Control,
         EndOfFile \/ SetUpRotation \/ Rotate \/ apply_crop \/ extract_scaled_matrix \/ StoreHash \/ SegmentsEnd
  PROVE  Control'
<1> USE DEF Control, VideoTypeOK, LoopControl, ResultControl, readerVars, Options, Segments,
            Steps, ReaderSteps, FrameSteps, RotationSteps, TurnedSteps
<1>1. CASE EndOfFile
  BY <1>1, SegmentFailsControl DEF EndOfFile
<1>2. CASE SetUpRotation
  <2>1. CASE SegmentFails /\ UNCHANGED errors
    BY <1>2, <2>1, SegmentFailsControl DEF SetUpRotation
  <2>2. CASE \E next \in {AfterRotation, "filter", "aborted"} : Goto(next)
    BY <1>2, <2>2 DEF SetUpRotation, Goto, loopVars, AfterRotation
  <2>3. CASE step' = "filter" /\ UNCHANGED <<video, options, readerVars, segment, last_pts, entries, decoded, result, errors>>
    BY <1>2, <2>3 DEF SetUpRotation
  <2>4. SetUpRotation => \/ SegmentFails /\ UNCHANGED errors
                         \/ Goto(AfterRotation) \/ Goto("filter") \/ Goto("aborted")
                         \/ /\ step' = "filter"
                            /\ UNCHANGED <<video, options, readerVars, segment, last_pts, entries, decoded,
                                           result, errors>>
    BY DEF SetUpRotation
  <2> QED
    BY <1>2, <2>1, <2>2, <2>3, <2>4
<1>3. CASE Rotate
  BY <1>3 DEF Rotate, SetFrame, AfterRotation
<1>4. CASE apply_crop
  <2>1. CASE SegmentFails /\ UNCHANGED errors
    BY <1>4, <2>1, CropOutcomes, SegmentFailsControl
  <2>2. CASE \E kept : SetFrame([frame EXCEPT !.kept = kept], "scale")
    <3>1. /\ step = "crop" /\ step' = "scale"
          /\ UNCHANGED <<video, options, readerVars, segment, last_pts, entries, decoded, result, errors>>
      BY <1>4, <2>2, CropOutcomes DEF SetFrame
    <3> QED
      BY <3>1
  <2> QED
    BY <1>4, <2>1, <2>2, CropOutcomes, Zenon
<1>5. CASE extract_scaled_matrix
  BY <1>5 DEF extract_scaled_matrix
<1>6. CASE StoreHash
  BY <1>6 DEF StoreHash
<1>7. CASE SegmentsEnd
  BY <1>7 DEF SegmentsEnd, Ends, loopVars
<1> QED
  BY <1>1, <1>2, <1>3, <1>4, <1>5, <1>6, <1>7

(* When an error ends the file for lack of memory.                         *)
NoMemory(kind) == (kind = "ENOMEM" /\ step # "filter") \/ step = "clone"

(* What an error does: the file ends, or the segment fails.                *)
LEMMA ErrorOutcomes ==
  ASSUME Control, LibavFails
  PROVE  /\ \E kind \in {"ERR", "ENOMEM", "EXIT"} :
              /\ errors' = Append(errors, [kind |-> kind, at |-> step])
              /\ kind = "EXIT" => step # "clone"
              /\ \/ NoMemory(kind) /\ Ends("AK_NO_MEM")
                 \/ ~NoMemory(kind) /\ Ends("AK_IO_FAIL")
                 \/ /\ kind # "EXIT" /\ ~NoMemory(kind)
                    /\ step \notin ReaderSteps
                    /\ SegmentFails
         /\ step \in ({"seek", "decode"} \cup ReaderSteps \cup FrameSteps) \ {"duration"}
         /\ step \notin ReaderSteps => segment < options.segments
<1>1. step \in ({"seek", "decode"} \cup ReaderSteps \cup FrameSteps) \ {"duration"}
  BY DEF LibavFails, MayFail, ReaderSteps, FrameSteps, RotationSteps, TurnedSteps
<1>2. step \notin ReaderSteps => segment < options.segments
  BY <1>1 DEF LibavFails, MayFail, Control, LoopControl, ReaderSteps, FrameSteps, RotationSteps, TurnedSteps
<1>3. step \in DOMAIN AfterReaderStep <=> step \in ReaderSteps
  BY <1>1 DEF AfterReaderStep, ReaderSteps
<1>4. PICK kind \in {"ERR", "ENOMEM", "EXIT"} :
        /\ errors' = Append(errors, [kind |-> kind, at |-> step]) /\ OnError(kind)
        /\ kind = "EXIT" => step # "clone"
  BY DEF LibavFails, MayBeInterrupted
<1>5. \/ NoMemory(kind) /\ Ends("AK_NO_MEM")
      \/ ~NoMemory(kind) /\ Ends("AK_IO_FAIL")
      \/ /\ kind # "EXIT" /\ ~NoMemory(kind)
         /\ step \notin ReaderSteps
         /\ SegmentFails
  <2>1. CASE NoMemory(kind)
    BY <1>4, <2>1 DEF OnError, NoMemory
  <2>2. CASE ~NoMemory(kind) /\ (kind = "EXIT" \/ step \in ReaderSteps)
    BY <1>3, <1>4, <2>2 DEF OnError, NoMemory
  <2>3. CASE ~NoMemory(kind) /\ ~(kind = "EXIT" \/ step \in ReaderSteps)
    BY <1>3, <1>4, <2>3 DEF OnError, NoMemory
  <2> QED
    BY <2>1, <2>2, <2>3
<1> QED
  BY <1>1, <1>2, <1>4, <1>5

LEMMA ErrorControl ==
  ASSUME Control, LibavFails
  PROVE  Control'
<1>1. errors' \in Seq(ErrorRecords)
  <2>1. PICK kind \in {"ERR", "ENOMEM", "EXIT"} : errors' = Append(errors, [kind |-> kind, at |-> step])
    BY ErrorOutcomes
  <2>2. [kind |-> kind, at |-> step] \in ErrorRecords
    BY DEF ErrorRecords, Control, VideoTypeOK
  <2> QED
    BY <2>1, <2>2 DEF Control, VideoTypeOK
<1>2. CASE \E status \in {"AK_IO_FAIL", "AK_NO_MEM"} : Ends(status)
  BY <1>1, <1>2, ErrorOutcomes, EndsControl DEF ReaderSteps, FrameSteps, RotationSteps, TurnedSteps
<1>3. CASE SegmentFails /\ step \notin ReaderSteps
  BY <1>1, <1>3, ErrorOutcomes, SegmentFailsControl
<1> QED
  BY <1>2, <1>3, ErrorOutcomes

LEMMA ControlStep == Control /\ [VideoNext]_videoVars => Control'
<1> SUFFICES ASSUME Control, [VideoNext]_videoVars PROVE Control'
  OBVIOUS
<1>1. CASE UNCHANGED videoVars
  BY <1>1 DEF videoVars, readerVars, loopVars, Control, VideoTypeOK, LoopControl, ResultControl, Options, Segments
<1>2. CASE RequestShutdown
  BY <1>2 DEF RequestShutdown, readerVars, loopVars, Control, VideoTypeOK, LoopControl, ResultControl, Options, Segments
<1>3. CASE \E opts \in Options : ak_video_hash(opts)
  BY <1>3, StartControl
<1>4. CASE HashStep
  BY <1>4, GotoControl, GreyControl, ReaderControl, SegmentControl, ErrorControl DEF HashStep
<1> QED
  BY <1>1, <1>2, <1>3, <1>4 DEF VideoNext

-----------------------------------------------------------------------------
(***************************************************************************)
(* Data: what is in the slice and in the working frame                     *)
(***************************************************************************)

(* An entry of a frame, as HashIsOfItsFrame, CropKeepsThePicture and       *)
(* BitsAreAboveMedian want it.                                             *)
Stored(v, whole, e) ==
  /\ e.of.n \in DOMAIN v.pts
  /\ e.timestamp = v.pts[e.of.n] * v.tick
  /\ e.of.angle = normalise_angle_360(v.rotation)
  /\ whole => e.of.kept = WholeOf(Turned(v.pictures[e.of.n], e.of.angle))
  /\ ~whole /\ e.of.luma => KeepsPicture(Turned(v.pictures[e.of.n], e.of.angle), e.of.kept, Alignment)
  /\ e.bits = dct_hash(v.dct[e.of.n])

(* The slice is filled up to the segment the loop is at; the stored frames *)
(* lie at or before the last frame taken, and climb.                       *)
Slice ==
  /\ \A i \in DOMAIN entries :
       \/ i >= segment /\ entries[i] = Unwritten
       \/ i < segment /\ entries[i] = Failed
       \/ i < segment /\ Stored(video, ~options.bars, entries[i]) /\ video.pts[entries[i].of.n] <= last_pts
  /\ TimestampsClimb
  /\ decoded > 0 => Hashed # {}

FrameFields == {"n", "angle", "luma", "kept"}

(* The frame in work is the last one taken, later than every stored one,   *)
(* turned once the rotation is done, and whole unless it is cropped; the   *)
(* cached grey frame is of it when it is cloned.                           *)
WorkingFrame ==
  step \in FrameSteps =>
    /\ frame.n \in DOMAIN video.pts /\ DOMAIN frame = FrameFields
    /\ last_pts = video.pts[frame.n]
    /\ \A i \in Hashed : video.pts[entries[i].of.n] < last_pts
    /\ frame.angle = IF step \in TurnedSteps THEN Angle ELSE 0
    /\ ~options.bars => frame.kept = WholeOf(Picture(frame))
    /\ step = "clone" => grey_frame = [frame EXCEPT !.luma = TRUE]
    /\ options.bars /\ frame.luma /\ step \in {"scale", "hash"} =>
         KeepsPicture(Picture(frame), frame.kept, Alignment)
    /\ step = "hash" => matrix = frame

Data == Slice /\ WorkingFrame

LEMMA HashedEntry ==
  ASSUME Control, Slice, NEW i \in Hashed
  PROVE  /\ i \in DOMAIN entries /\ i < segment /\ Stored(video, ~options.bars, entries[i])
         /\ video.pts[entries[i].of.n] \in Int
         /\ video.pts[entries[i].of.n] <= last_pts
<1>1. i \in DOMAIN entries /\ entries[i].of.n > 0
  BY DEF Hashed, IsHashed
<1>2. entries[i] # Unwritten /\ entries[i] # Failed
  BY <1>1 DEF Unwritten, Failed, NoFrame
<1>3. i < segment /\ Stored(video, ~options.bars, entries[i]) /\ video.pts[entries[i].of.n] <= last_pts
  BY <1>1, <1>2 DEF Slice
<1> QED
  BY <1>1, <1>3, PtsAreNumbers DEF Stored

LEMMA InitData == VideoInit => Data
<1> SUFFICES ASSUME VideoInit PROVE Data
  OBVIOUS
<1>1. DOMAIN entries = {} /\ decoded = 0 /\ step = "idle"
  BY DEF VideoInit
<1> QED
  BY <1>1 DEF Data, Slice, WorkingFrame, TimestampsClimb, Hashed, FrameSteps, RotationSteps, TurnedSteps

(* The slice depends on these variables only.                              *)
LEMMA SliceStays ==
  ASSUME Slice, UNCHANGED <<video, options, segment, last_pts, entries, decoded>>
  PROVE  Slice' /\ Hashed' = Hashed
  BY DEF Slice, TimestampsClimb, Hashed

LEMMA StartData ==
  ASSUME Control, Data, NEW opts \in Options, ak_video_hash(opts)
  PROVE  Data'
<1>1. step = "idle" /\ segment = 0 /\ DOMAIN entries = {}
  BY DEF ak_video_hash, Control, LoopControl
<1>2. decoded = 0
  BY <1>1 DEF Control, VideoTypeOK, Data, Slice, Hashed
<1>3. entries' = [i \in 0 .. (opts.segments - 1) |-> Unwritten] /\ segment' = 0 /\ decoded' = 0 /\ step' = "open"
  BY <1>1, <1>2 DEF ak_video_hash
<1>4. Hashed' = {}
  BY <1>3 DEF Hashed, IsHashed, Unwritten, NoFrame
<1>5. \A i \in DOMAIN entries' : i >= segment' /\ entries'[i] = Unwritten
  BY <1>3 DEF Options
<1> QED
  BY <1>3, <1>4, <1>5 DEF Data, Slice, WorkingFrame, TimestampsClimb, FrameSteps, RotationSteps, TurnedSteps

(* A failed segment leaves no hash and no frame in work.                   *)
LEMMA SegmentFailsData ==
  ASSUME Control, Data, SegmentFails, segment < options.segments, step # "idle"
  PROVE  Data'
<1>1. segment \in DOMAIN entries /\ segment' = segment + 1 /\ step' = "seek" /\ decoded' = decoded
  BY DEF SegmentFails, Control, VideoTypeOK, LoopControl, Segments, Options
<1>2. /\ DOMAIN entries' = DOMAIN entries
      /\ entries'[segment] = Failed
      /\ \A i \in DOMAIN entries : i # segment => entries'[i] = entries[i]
  BY <1>1 DEF SegmentFails
<1>3. segment \notin Hashed
  BY HashedEntry DEF Data, Control, VideoTypeOK
<1>4. Hashed' = Hashed /\ \A i \in Hashed : entries'[i] = entries[i]
  BY <1>2, <1>3 DEF Hashed, IsHashed, Failed, NoFrame
<1>6. \A i \in DOMAIN entries' :
        \/ i >= segment' /\ entries'[i] = Unwritten
        \/ i < segment' /\ entries'[i] = Failed
        \/ i < segment' /\ Stored(video', ~options'.bars, entries'[i]) /\ video'.pts[entries'[i].of.n] <= last_pts'
  <2> SUFFICES ASSUME NEW i \in DOMAIN entries PROVE
        \/ i >= segment' /\ entries'[i] = Unwritten
        \/ i < segment' /\ entries'[i] = Failed
        \/ i < segment' /\ Stored(video', ~options'.bars, entries'[i]) /\ video'.pts[entries'[i].of.n] <= last_pts'
    BY <1>2
  <2>1. i \in Nat /\ segment \in Nat
    BY DEF Control, VideoTypeOK, LoopControl, Segments, Options
  <2>2. CASE i = segment
    BY <1>1, <1>2, <2>1, <2>2
  <2>3. CASE i # segment
    <3>1. entries'[i] = entries[i] /\ video' = video /\ options' = options /\ last_pts' = last_pts
      BY <1>2, <2>3 DEF SegmentFails
    <3> QED
      BY <1>1, <2>1, <2>3, <3>1 DEF Data, Slice
  <2> QED
    BY <2>2, <2>3
<1>7. TimestampsClimb'
  BY <1>4 DEF TimestampsClimb, Data, Slice, SegmentFails
<1> QED
  BY <1>1, <1>4, <1>6, <1>7 DEF Data, Slice, WorkingFrame, FrameSteps, RotationSteps, TurnedSteps

(* Steps before a frame is taken, and those that end the file.             *)
LEMMA NoFrameData ==
  ASSUME Data, UNCHANGED <<video, options, segment, last_pts, entries, decoded>>, step' \notin FrameSteps
  PROVE  Data'
  BY SliceStays DEF Data, WorkingFrame

LEMMA ReceiveData ==
  ASSUME Control, Data, Receive
  PROVE  Data'
<1> DEFINE n == Head(held)
<1>1. /\ step = "decode" /\ n \in DOMAIN video.pts /\ video.pts[n] \in Int /\ last_pts \in Int
      /\ UNCHANGED <<video, options, segment, entries, decoded>>
  BY ReadyMeansHeld, PtsAreNumbers DEF Receive, Control, VideoTypeOK
<1>2. CASE ~IsWanted(n)
  <2>1. UNCHANGED <<last_pts, step>>
    BY <1>2 DEF Receive
  <2> QED
    BY <1>1, <2>1, NoFrameData DEF FrameSteps, RotationSteps, TurnedSteps
<1>3. CASE IsWanted(n)
  <2>1. /\ frame' = [n |-> n, angle |-> 0, luma |-> video.luma8, kept |-> WholeOf(video.pictures[n])]
        /\ last_pts' = video.pts[n] /\ last_pts < video.pts[n] /\ step' = "rotate"
    BY <1>1, <1>3 DEF Receive, IsWanted
  <2>2. Hashed' = Hashed
    BY <1>1 DEF Hashed
  <2>3. \A i \in Hashed : video.pts[entries[i].of.n] < last_pts'
    BY <1>1, <2>1, HashedEntry DEF Data
  <2>4. \A i \in DOMAIN entries' :
          \/ i >= segment' /\ entries'[i] = Unwritten
          \/ i < segment' /\ entries'[i] = Failed
          \/ /\ i < segment' /\ Stored(video', ~options'.bars, entries'[i])
             /\ video'.pts[entries'[i].of.n] <= last_pts'
    <3> SUFFICES ASSUME NEW i \in DOMAIN entries, i < segment, Stored(video, ~options.bars, entries[i]),
                        video.pts[entries[i].of.n] <= last_pts
                 PROVE  video.pts[entries[i].of.n] <= last_pts'
      BY <1>1 DEF Data, Slice
    <3> QED
      BY <1>1, <2>1, PtsAreNumbers DEF Stored
  <2>5. Slice'
    BY <1>1, <2>2, <2>4 DEF Data, Slice, TimestampsClimb
  <2>6. frame'.kept = WholeOf(Turned(video'.pictures[frame'.n], frame'.angle)) /\ DOMAIN frame' = FrameFields
    BY <1>1, <2>1 DEF Turned, FrameFields
  <2>7. WorkingFrame'
    BY <1>1, <2>1, <2>2, <2>3, <2>6 DEF WorkingFrame, Picture, TurnedSteps
  <2> QED
    BY <2>5, <2>7 DEF Data
<1> QED
  BY <1>2, <1>3

(* Steps from one stage of a frame to the next.                            *)
LEMMA StageData ==
  ASSUME Control, Data, step \in FrameSteps, step' \in FrameSteps,
         UNCHANGED <<video, options, segment, last_pts, entries, decoded>>,
         frame'.n = frame.n, DOMAIN frame' = FrameFields,
         frame'.angle = IF step' \in TurnedSteps THEN Angle ELSE 0,
         ~options.bars => frame'.kept = WholeOf(Turned(video.pictures[frame'.n], frame'.angle)),
         step' = "clone" => grey_frame' = [frame' EXCEPT !.luma = TRUE],
         options.bars /\ frame'.luma /\ step' \in {"scale", "hash"} =>
           KeepsPicture(Turned(video.pictures[frame'.n], frame'.angle), frame'.kept, Alignment),
         step' = "hash" => matrix' = frame'
  PROVE  Data'
<1>1. Slice' /\ Hashed' = Hashed
  BY SliceStays DEF Data
<1>2. Angle' = Angle
  BY DEF Angle
<1>3. WorkingFrame'
  BY <1>1, <1>2 DEF Data, WorkingFrame, Picture
<1> QED
  BY <1>1, <1>3 DEF Data

LEMMA FrameStepData ==
  ASSUME Control, Data,
         \/ SetUpRotation \/ Rotate \/ normalise_frame_to_grey8 \/ ScaleNothing \/ apply_crop
         \/ extract_scaled_matrix
  PROVE  Data'
<1> USE DEF FrameSteps, RotationSteps, TurnedSteps
<1>1. step \in FrameSteps => /\ frame.n \in DOMAIN video.pts /\ DOMAIN frame = FrameFields
                             /\ frame.angle = IF step \in TurnedSteps THEN Angle ELSE 0
                             /\ ~options.bars => frame.kept = WholeOf(Turned(video.pictures[frame.n], frame.angle))
                             /\ step = "clone" => grey_frame = [frame EXCEPT !.luma = TRUE]
                             /\ options.bars /\ frame.luma /\ step = "scale" =>
                                  KeepsPicture(Turned(video.pictures[frame.n], frame.angle), frame.kept, Alignment)
  BY DEF Data, WorkingFrame, Picture
<1>2. CASE SetUpRotation
  <2>1. step = "rotate" /\ segment < options.segments
    BY <1>2 DEF SetUpRotation, Control, LoopControl
  <2>2. CASE SegmentFails
    BY <2>1, <2>2, SegmentFailsData
  <2>3. CASE Goto(AfterRotation) /\ Angle = 0
    BY <1>1, <2>1, <2>3, StageData DEF Goto, loopVars, AfterRotation
  <2>4. CASE Goto("filter")
    BY <1>1, <2>1, <2>4, StageData DEF Goto, loopVars
  <2>5. CASE Goto("aborted")
    BY <2>5, NoFrameData DEF Goto, loopVars
  <2>6. CASE step' = "filter" /\ UNCHANGED <<video, options, segment, last_pts, frame, entries, decoded>>
    BY <1>1, <2>1, <2>6, StageData
  <2>7. \/ SegmentFails
        \/ Goto(AfterRotation) /\ Angle = 0
        \/ Goto("filter") \/ Goto("aborted")
        \/ step' = "filter" /\ UNCHANGED <<video, options, segment, last_pts, frame, entries, decoded>>
    BY <1>2 DEF SetUpRotation
  <2> QED
    BY <2>2, <2>3, <2>4, <2>5, <2>6, <2>7
<1>3. CASE Rotate
  <2>1. /\ step = "filter" /\ step' \in {"grey", "scale"}
        /\ frame'.n = frame.n /\ frame'.angle = Angle /\ DOMAIN frame' = FrameFields
        /\ frame'.kept = WholeOf(Turned(video.pictures[frame.n], Angle))
        /\ options.bars => step' = "grey"
        /\ UNCHANGED <<video, options, segment, last_pts, entries, decoded>>
    BY <1>3 DEF Rotate, SetFrame, AfterRotation, FrameFields
  <2> QED
    BY <2>1, StageData
<1>4. CASE normalise_frame_to_grey8 \/ ScaleNothing
  <2>1. UNCHANGED <<video, options, segment, last_pts, entries, decoded>>
    BY <1>4, GreySteps
  <2>2. CASE BorrowFrame \/ ScaleNothing
    <3>1. step = "grey" /\ step' = "crop" /\ frame' = frame
      BY <2>2 DEF BorrowFrame, ScaleNothing, Goto, loopVars
    <3> QED
      BY <1>1, <2>1, <3>1, StageData
  <2>3. CASE ConvertToGrey
    <3>1. step = "grey" /\ step' = "clone" /\ frame' = frame /\ grey_frame' = [frame EXCEPT !.luma = TRUE]
      BY <2>3 DEF ConvertToGrey, FillGrey
    <3> QED
      BY <1>1, <2>1, <3>1, StageData
  <2>4. CASE CloneGrey
    <3>1. step = "clone" /\ step' = "crop" /\ frame' = grey_frame
      BY <2>4 DEF CloneGrey, SetFrame
    <3>2. DOMAIN frame = FrameFields /\ frame' = [frame EXCEPT !.luma = TRUE]
      BY <1>1, <3>1
    <3>3. /\ DOMAIN frame' = FrameFields
          /\ frame'.n = frame.n /\ frame'.angle = frame.angle /\ frame'.kept = frame.kept
      BY <3>2 DEF FrameFields
    <3> QED
      BY <1>1, <2>1, <3>1, <3>3, StageData
  <2> QED
    BY <1>4, <2>2, <2>3, <2>4 DEF normalise_frame_to_grey8
<1>5. CASE apply_crop
  <2>1. step = "crop" /\ segment < options.segments /\ options.bars
    BY <1>5 DEF apply_crop, Control, LoopControl
  <2>2. CASE SegmentFails
    BY <2>1, <2>2, SegmentFailsData
  <2>3. ASSUME NEW kept, SetFrame([frame EXCEPT !.kept = kept], "scale"),
               frame.luma => ~IsBlack(Picture(frame)) /\ kept = Cropped(Picture(frame), Alignment)
        PROVE  Data'
    <3>1. /\ frame' = [frame EXCEPT !.kept = kept] /\ step' = "scale"
          /\ UNCHANGED <<video, options, segment, last_pts, entries, decoded>>
      BY <2>3 DEF SetFrame
    <3>2. /\ frame'.n = frame.n /\ frame'.angle = frame.angle /\ frame'.luma = frame.luma
          /\ frame'.kept = kept /\ DOMAIN frame' = FrameFields
      BY <1>1, <2>1, <3>1 DEF FrameFields
    <3>3. IsPicture(Picture(frame))
      BY <1>1, <2>1, VideosAssumption, TurnedIsPicture DEF Picture, Control, VideoTypeOK
    <3>4. frame.luma => KeepsPicture(Picture(frame), kept, Alignment)
      BY <2>3, <3>3, CroppedKeepsPicture, UnitsAssumption
    <3>5. Picture(frame) = Turned(video.pictures[frame'.n], frame'.angle)
      BY <3>2 DEF Picture
    <3> QED
      BY <1>1, <2>1, <3>1, <3>2, <3>4, <3>5, StageData
  <2> QED
    BY <1>5, <2>2, <2>3, CropOutcomes
<1>6. CASE extract_scaled_matrix
  <2>1. /\ step = "scale" /\ step' = "hash" /\ frame' = frame /\ matrix' = frame
        /\ UNCHANGED <<video, options, segment, last_pts, entries, decoded>>
    BY <1>6 DEF extract_scaled_matrix
  <2> QED
    BY <1>1, <2>1, StageData
<1> QED
  BY <1>2, <1>3, <1>4, <1>5, <1>6

LEMMA StoreHashData ==
  ASSUME Control, Data, StoreHash
  PROVE  Data'
<1> DEFINE new == [of |-> matrix, bits |-> dct_hash(Coefficients(matrix)),
                   timestamp |-> last_pts * video.tick]
<1>1. /\ step = "hash" /\ segment \in DOMAIN entries /\ segment' = segment + 1 /\ step' = "seek"
      /\ UNCHANGED <<video, options, last_pts>>
  BY DEF StoreHash, Control, VideoTypeOK, LoopControl, Segments, Options, FrameSteps, RotationSteps, TurnedSteps
<1>2. /\ DOMAIN entries' = DOMAIN entries
      /\ entries'[segment] = new
      /\ \A i \in DOMAIN entries : i # segment => entries'[i] = entries[i]
  BY <1>1 DEF StoreHash
<1>3. /\ matrix = frame /\ frame.n \in DOMAIN video.pts /\ last_pts = video.pts[frame.n]
      /\ \A i \in Hashed : video.pts[entries[i].of.n] < last_pts
      /\ frame.angle = Angle
      /\ ~options.bars => frame.kept = WholeOf(Turned(video.pictures[frame.n], frame.angle))
      /\ options.bars /\ frame.luma =>
           KeepsPicture(Turned(video.pictures[frame.n], frame.angle), frame.kept, Alignment)
  BY <1>1 DEF Data, WorkingFrame, Picture, FrameSteps, RotationSteps, TurnedSteps
<1>4. Stored(video, ~options.bars, new) /\ new.of.n = frame.n
  <2>1. new.bits = dct_hash(video.dct[frame.n])
    BY <1>3, PtsAreNumbers DEF Coefficients
  <2> HIDE DEF KeepsPicture
  <2> QED
    BY <1>3, <2>1 DEF Stored, Angle
<1>5. segment \in Nat /\ \A i \in DOMAIN entries : i \in Nat
  BY DEF Control, VideoTypeOK, LoopControl, Segments, Options, StoreHash
<1>6. Hashed' = Hashed \cup {segment}
  BY <1>1, <1>2, <1>3, <1>4, PtsAreNumbers DEF Hashed, IsHashed
<1>7. \A i \in Hashed : i \in Nat /\ i < segment /\ entries'[i] = entries[i]
  BY <1>1, <1>2, <1>5, HashedEntry DEF Data
<1>8. TimestampsClimb'
  <2> SUFFICES ASSUME NEW i \in Hashed', NEW j \in Hashed', i < j
               PROVE  video.pts[entries'[i].of.n] < video.pts[entries'[j].of.n]
    BY <1>1 DEF TimestampsClimb
  <2>1. i \in Hashed
    BY <1>5, <1>6, <1>7
  <2>2. CASE j = segment
    BY <1>2, <1>3, <1>4, <1>7, <2>1, <2>2
  <2>3. CASE j # segment
    BY <1>6, <1>7, <2>1, <2>3 DEF Data, Slice, TimestampsClimb
  <2> QED
    BY <2>2, <2>3
<1>9. \A i \in DOMAIN entries' :
        \/ i >= segment' /\ entries'[i] = Unwritten
        \/ i < segment' /\ entries'[i] = Failed
        \/ /\ i < segment' /\ Stored(video', ~options'.bars, entries'[i])
           /\ video'.pts[entries'[i].of.n] <= last_pts'
  <2> SUFFICES ASSUME NEW i \in DOMAIN entries PROVE
        \/ i >= segment' /\ entries'[i] = Unwritten
        \/ i < segment' /\ entries'[i] = Failed
        \/ /\ i < segment' /\ Stored(video', ~options'.bars, entries'[i])
           /\ video'.pts[entries'[i].of.n] <= last_pts'
    BY <1>2
  <2>1. CASE i = segment
    BY <1>1, <1>2, <1>3, <1>4, <1>5, <2>1, PtsAreNumbers
  <2>2. CASE i # segment
    BY <1>1, <1>2, <1>5, <2>2 DEF Data, Slice
  <2> QED
    BY <2>1, <2>2
<1> QED
  BY <1>1, <1>6, <1>8, <1>9 DEF Data, Slice, WorkingFrame, FrameSteps, RotationSteps, TurnedSteps

LEMMA DataStep == Control /\ Data /\ [VideoNext]_videoVars => Data'
<1> SUFFICES ASSUME Control, Data, [VideoNext]_videoVars PROVE Data'
  OBVIOUS
<1> USE DEF FrameSteps, RotationSteps, TurnedSteps
<1>1. CASE UNCHANGED videoVars \/ RequestShutdown
  <2>1. UNCHANGED <<video, options, step, segment, last_pts, frame, grey_frame, matrix, entries, decoded>>
    BY <1>1 DEF RequestShutdown, videoVars, loopVars
  <2>2. CASE step \in FrameSteps
    BY <2>1, <2>2, StageData DEF Data, WorkingFrame, Picture
  <2>3. CASE step \notin FrameSteps
    BY <2>1, <2>3, NoFrameData
  <2> QED
    BY <2>2, <2>3
<1>2. CASE \E opts \in Options : ak_video_hash(opts)
  BY <1>2, StartData
<1>3. CASE vreader_init \/ ReadMissingStream \/ CheckDuration
  BY <1>3, NoFrameData DEF vreader_init, AfterReaderStep, ReadMissingStream, CheckDuration, Goto, Ends, loopVars
<1>4. CASE Seek \/ ReadPacket \/ ReadEnd
  BY <1>4, NoFrameData DEF Seek, ReadPacket, ReadEnd, loopVars
<1>5. CASE Receive
  BY <1>5, ReceiveData
<1>6. CASE EndOfFile
  BY <1>6, SegmentFailsData DEF EndOfFile, Control, LoopControl
<1>7. CASE \/ SetUpRotation \/ Rotate \/ normalise_frame_to_grey8 \/ ScaleNothing \/ apply_crop
           \/ extract_scaled_matrix
  BY <1>7, FrameStepData
<1>8. CASE StoreHash
  BY <1>8, StoreHashData
<1>9. CASE SegmentsEnd
  BY <1>9, NoFrameData DEF SegmentsEnd, Ends, loopVars
<1>10. CASE LibavFails
  <2>1. CASE \E status \in {"AK_IO_FAIL", "AK_NO_MEM"} : Ends(status)
    BY <2>1, NoFrameData DEF Ends, loopVars
  <2>2. CASE SegmentFails /\ step \notin ReaderSteps
    BY <1>10, <2>2, ErrorOutcomes, SegmentFailsData DEF ReaderSteps
  <2> QED
    BY <1>10, <2>1, <2>2, ErrorOutcomes
<1> QED
  BY <1>1, <1>2, <1>3, <1>4, <1>5, <1>6, <1>7, <1>8, <1>9, <1>10 DEF VideoNext, HashStep

-----------------------------------------------------------------------------
(***************************************************************************)
(* Errors                                                                  *)
(***************************************************************************)

(* The errors after which the file is given up.                            *)
Fatal(e) == e.kind = "EXIT" \/ (e.kind = "ENOMEM" /\ e.at # "filter")

Errors == InterruptIsNeverOk /\ \A k \in DOMAIN errors : Fatal(errors[k]) => step = "done"

LEMMA InitErrors == VideoInit => Errors
  BY DEF VideoInit, Errors, InterruptIsNeverOk

(* Every other step leaves the list of errors alone, and none starts where *)
(* the file is done.                                                       *)
LEMMA OtherStepsErrors ==
  ASSUME VideoNext, ~LibavFails, ~ScaleNothing
  PROVE  UNCHANGED errors /\ step # "done"
<1>1. CASE RequestShutdown \/ \E opts \in Options : ak_video_hash(opts)
  BY <1>1 DEF RequestShutdown, ak_video_hash
<1>2. CASE vreader_init \/ ReadMissingStream \/ CheckDuration
  BY <1>2 DEF vreader_init, AfterReaderStep, ReadMissingStream, CheckDuration, Goto, Ends
<1>3. CASE Seek \/ Receive \/ ReadPacket \/ ReadEnd \/ EndOfFile
  BY <1>3 DEF Seek, Receive, ReadPacket, ReadEnd, EndOfFile
<1>4. CASE SetUpRotation \/ Rotate \/ apply_crop
  BY <1>4, CropOutcomes DEF SetUpRotation, Rotate, SetFrame, Goto
<1>5. CASE extract_scaled_matrix \/ StoreHash \/ SegmentsEnd
  BY <1>5 DEF extract_scaled_matrix, StoreHash, SegmentsEnd
<1>6. CASE normalise_frame_to_grey8
  BY <1>6 DEF normalise_frame_to_grey8, BorrowFrame, ConvertToGrey, FillGrey, CloneGrey, SetFrame, Goto
<1> QED
  BY <1>1, <1>2, <1>3, <1>4, <1>5, <1>6 DEF VideoNext, HashStep

LEMMA ErrorsStep == Control /\ Errors /\ [VideoNext]_videoVars => Errors'
<1> SUFFICES ASSUME Control, Errors, [VideoNext]_videoVars PROVE Errors'
  OBVIOUS
<1>1. CASE UNCHANGED videoVars
  BY <1>1 DEF videoVars, Errors, InterruptIsNeverOk
<1>2. CASE VideoNext /\ ~LibavFails /\ ~ScaleNothing
  <2>1. UNCHANGED errors /\ step # "done"
    BY <1>2, OtherStepsErrors
  <2>2. \A k \in DOMAIN errors' : ~Fatal(errors'[k])
    BY <2>1 DEF Errors
  <2> QED
    BY <2>2 DEF Errors, InterruptIsNeverOk, Fatal
<1>3. CASE LibavFails
  <2>1. step # "done"
    BY <1>3, ErrorOutcomes DEF ReaderSteps, FrameSteps, RotationSteps, TurnedSteps
  <2>2. \A k \in DOMAIN errors : ~Fatal(errors[k])
    BY <2>1 DEF Errors
  <2>3. PICK kind \in {"ERR", "ENOMEM", "EXIT"} :
          /\ errors' = Append(errors, [kind |-> kind, at |-> step])
          /\ kind = "EXIT" => step # "clone"
          /\ \/ NoMemory(kind) /\ Ends("AK_NO_MEM")
             \/ ~NoMemory(kind) /\ Ends("AK_IO_FAIL")
             \/ kind # "EXIT" /\ ~NoMemory(kind)
    BY <1>3, ErrorOutcomes
  <2>4. \A k \in DOMAIN errors' : Fatal(errors'[k]) => errors'[k] = [kind |-> kind, at |-> step]
    BY <2>2, <2>3 DEF Control, VideoTypeOK
  <2> QED
    BY <2>3, <2>4 DEF Errors, InterruptIsNeverOk, Fatal, Ends, NoMemory
<1>4. CASE ScaleNothing
  <2>1. step = "grey" /\ errors' = Append(errors, [kind |-> "NOTHING", at |-> step])
    BY <1>4 DEF ScaleNothing
  <2>2. \A k \in DOMAIN errors' : ~Fatal(errors'[k])
    BY <2>1 DEF Errors, Fatal, Control, VideoTypeOK
  <2> QED
    BY <2>2 DEF Errors, InterruptIsNeverOk, Fatal
<1> QED
  BY <1>1, <1>2, <1>3, <1>4

-----------------------------------------------------------------------------
(***************************************************************************)
(* Luma: the borders are looked for in it                                  *)
(***************************************************************************)

CroppedSteps == {"crop", "scale", "hash"}

LumaInv ==
  options.bars =>
    /\ \A i \in Hashed : entries[i].of.luma \/ ScaledNothing
    /\ step \in CroppedSteps => frame.luma \/ ScaledNothing

LEMMA InitLuma == VideoInit => LumaInv
  BY DEF VideoInit, LumaInv, Hashed, CroppedSteps

(* What libav returned is not forgotten.                                   *)
LEMMA ErrorsGrow ==
  ASSUME Control, [VideoNext]_videoVars, ScaledNothing
  PROVE  ScaledNothing'
<1>1. CASE UNCHANGED errors
  BY <1>1 DEF ScaledNothing
<1>2. ASSUME NEW e, errors' = Append(errors, e) PROVE ScaledNothing'
  <2>1. PICK k \in DOMAIN errors : errors[k].kind = "NOTHING"
    BY DEF ScaledNothing
  <2>2. k \in DOMAIN errors' /\ errors'[k] = errors[k]
    BY <1>2 DEF Control, VideoTypeOK
  <2> QED
    BY <2>1, <2>2 DEF ScaledNothing
<1>3. CASE LibavFails
  BY <1>2, <1>3 DEF LibavFails
<1>4. CASE ScaleNothing
  BY <1>2, <1>4 DEF ScaleNothing
<1>5. CASE UNCHANGED videoVars
  BY <1>1, <1>5 DEF videoVars
<1> QED
  BY <1>1, <1>3, <1>4, <1>5, OtherStepsErrors

(* A step that hashes nothing.                                             *)
LEMMA LumaStays ==
  ASSUME LumaInv, UNCHANGED options, ScaledNothing => ScaledNothing',
         \A i \in Hashed' : i \in Hashed /\ entries'[i] = entries[i],
         options.bars /\ step' \in CroppedSteps => frame'.luma \/ ScaledNothing'
  PROVE  LumaInv'
  BY DEF LumaInv

LEMMA SegmentFailsLuma ==
  ASSUME LumaInv, SegmentFails, ScaledNothing => ScaledNothing'
  PROVE  LumaInv'
<1>1. \A i \in Hashed' : i \in Hashed /\ entries'[i] = entries[i]
  <2> SUFFICES ASSUME NEW i \in DOMAIN entries', entries'[i].of.n > 0
               PROVE  i \in Hashed /\ entries'[i] = entries[i]
    BY DEF Hashed, IsHashed
  <2>1. entries' = [entries EXCEPT ![segment] = Failed] /\ i \in DOMAIN entries
    BY DEF SegmentFails
  <2>2. i # segment
    BY <2>1 DEF Failed, NoFrame
  <2> QED
    BY <2>1, <2>2 DEF Hashed, IsHashed
<1>2. options' = options /\ step' \notin CroppedSteps
  BY DEF SegmentFails, CroppedSteps
<1> QED
  BY <1>1, <1>2, LumaStays

LEMMA LumaStep == Control /\ Data /\ LumaInv /\ [VideoNext]_videoVars => LumaInv'
<1> SUFFICES ASSUME Control, Data, LumaInv, [VideoNext]_videoVars PROVE LumaInv'
  OBVIOUS
<1>0. ScaledNothing => ScaledNothing'
  BY ErrorsGrow
<1>1. ASSUME UNCHANGED <<options, entries>>,
             options.bars /\ step' \in CroppedSteps => frame'.luma \/ ScaledNothing'
      PROVE  LumaInv'
  <2>1. \A i \in Hashed' : i \in Hashed /\ entries'[i] = entries[i]
    BY <1>1 DEF Hashed
  <2> QED
    BY <1>0, <1>1, <2>1, LumaStays
<1>2. CASE UNCHANGED videoVars \/ RequestShutdown
  <2>1. UNCHANGED <<options, step, frame, entries>>
    BY <1>2 DEF videoVars, loopVars, RequestShutdown
  <2> QED
    BY <1>0, <1>1, <2>1 DEF LumaInv
<1>3. ASSUME NEW opts \in Options, ak_video_hash(opts) PROVE LumaInv'
  <2>1. step' = "open" /\ entries' = [i \in 0 .. (opts.segments - 1) |-> Unwritten]
    BY <1>3 DEF ak_video_hash
  <2>2. Hashed' = {}
    BY <2>1 DEF Hashed, IsHashed, Unwritten, NoFrame
  <2> QED
    BY <2>1, <2>2 DEF LumaInv, CroppedSteps
<1>4. CASE vreader_init \/ ReadMissingStream \/ CheckDuration \/ Seek \/ Receive \/ ReadPacket \/ ReadEnd \/ SegmentsEnd
  <2>1. UNCHANGED <<options, entries>> /\ step' \notin CroppedSteps
    BY <1>4 DEF vreader_init, AfterReaderStep, ReadMissingStream, CheckDuration, Seek, Receive, ReadPacket, ReadEnd,
       SegmentsEnd, Ends, Goto, loopVars, CroppedSteps
  <2> QED
    BY <1>1, <2>1
<1>5. CASE SetUpRotation \/ Rotate
  <2>1. CASE SegmentFails
    BY <1>0, <2>1, SegmentFailsLuma
  <2>2. CASE ~SegmentFails
    <3>1. UNCHANGED <<options, entries>> /\ (options.bars => step' \notin CroppedSteps)
      BY <1>5, <2>2 DEF SetUpRotation, Rotate, SetFrame, Goto, AfterRotation, loopVars, CroppedSteps
    <3> QED
      BY <1>1, <3>1
  <2> QED
    BY <2>1, <2>2
<1>6. CASE normalise_frame_to_grey8 \/ ScaleNothing
  <2>1. UNCHANGED <<options, entries>>
    BY <1>6, GreySteps
  <2>2. CASE BorrowFrame
    BY <1>1, <2>1, <2>2 DEF BorrowFrame, Goto, loopVars
  <2>3. CASE ConvertToGrey
    BY <1>1, <2>1, <2>3 DEF ConvertToGrey, FillGrey, CroppedSteps
  <2>4. CASE CloneGrey
    <3>1. step = "clone" /\ frame' = grey_frame
      BY <2>4 DEF CloneGrey, SetFrame
    <3>2. grey_frame = [frame EXCEPT !.luma = TRUE] /\ DOMAIN frame = FrameFields
      BY <3>1 DEF Data, WorkingFrame, FrameSteps, TurnedSteps
    <3>3. frame'.luma
      BY <3>1, <3>2 DEF FrameFields
    <3> QED
      BY <1>1, <2>1, <3>3
  <2>5. CASE ScaleNothing
    <3>1. errors' = Append(errors, [kind |-> "NOTHING", at |-> step])
      BY <2>5 DEF ScaleNothing
    <3>2. errors \in Seq(ErrorRecords)
      BY DEF Control, VideoTypeOK
    <3>3. Len(errors) + 1 \in DOMAIN errors' /\ errors'[Len(errors) + 1].kind = "NOTHING"
      BY <3>1, <3>2
    <3>4. ScaledNothing'
      BY <3>3 DEF ScaledNothing
    <3> QED
      BY <1>1, <2>1, <3>4
  <2> QED
    BY <1>6, <2>2, <2>3, <2>4, <2>5 DEF normalise_frame_to_grey8
<1>7. CASE apply_crop
  <2>1. CASE SegmentFails
    BY <1>0, <2>1, SegmentFailsLuma
  <2>2. ASSUME NEW kept, SetFrame([frame EXCEPT !.kept = kept], "scale") PROVE LumaInv'
    <3>1. step = "crop" /\ DOMAIN frame = FrameFields
      BY <1>7, CropOutcomes DEF Data, WorkingFrame, FrameSteps, TurnedSteps
    <3>2. frame' = [frame EXCEPT !.kept = kept] /\ UNCHANGED <<options, entries>>
      BY <2>2 DEF SetFrame
    <3>3. frame'.luma = frame.luma
      BY <3>1, <3>2 DEF FrameFields
    <3>4. options.bars => frame.luma \/ ScaledNothing
      BY <3>1 DEF LumaInv, CroppedSteps
    <3> QED
      BY <1>0, <1>1, <3>2, <3>3, <3>4
  <2> QED
    BY <1>7, <2>1, <2>2, CropOutcomes
<1>8. CASE extract_scaled_matrix
  BY <1>0, <1>1, <1>8 DEF extract_scaled_matrix, LumaInv, CroppedSteps
<1>9. CASE StoreHash
  <2> DEFINE new == [of |-> matrix, bits |-> dct_hash(Coefficients(matrix)),
                     timestamp |-> last_pts * video.tick]
  <2>1. /\ step = "hash" /\ step' = "seek" /\ options' = options
        /\ entries' = [entries EXCEPT ![segment] = new]
    BY <1>9 DEF StoreHash
  <2>2. matrix = frame
    BY <2>1 DEF Data, WorkingFrame, FrameSteps, TurnedSteps
  <2>3. new.of.luma = frame.luma
    BY <2>2
  <2> HIDE DEF new
  <2>4. options.bars => frame.luma \/ ScaledNothing
    BY <2>1 DEF LumaInv, CroppedSteps
  <2>5. ASSUME options.bars, NEW i \in Hashed' PROVE entries'[i].of.luma \/ ScaledNothing'
    <3>1. i \in DOMAIN entries /\ entries'[i].of.n > 0
      BY <2>1, <2>5 DEF Hashed, IsHashed
    <3>2. CASE i = segment
      BY <1>0, <2>1, <2>3, <2>4, <2>5, <3>1, <3>2
    <3>3. CASE i # segment
      <4>1. entries'[i] = entries[i]
        BY <2>1, <3>1, <3>3
      <4> QED
        BY <1>0, <2>5, <3>1, <4>1 DEF LumaInv, Hashed, IsHashed
    <3> QED
      BY <3>2, <3>3
  <2> QED
    BY <2>1, <2>5 DEF LumaInv, CroppedSteps
<1>10. CASE LibavFails
  <2>1. CASE \E status \in {"AK_IO_FAIL", "AK_NO_MEM"} : Ends(status)
    BY <1>1, <2>1 DEF Ends, loopVars, CroppedSteps
  <2> QED
    BY <1>0, <1>10, <2>1, ErrorOutcomes, SegmentFailsLuma
<1>11. CASE EndOfFile
  BY <1>0, <1>11, SegmentFailsLuma DEF EndOfFile
<1> QED
  BY <1>2, <1>3, <1>4, <1>5, <1>6, <1>7, <1>8, <1>9, <1>10, <1>11 DEF VideoNext, HashStep

-----------------------------------------------------------------------------
(***************************************************************************)
(* The frames by definition, of a video and of options                     *)
(***************************************************************************)

DurationOf(v) ==
  IF v.duration = NoDuration THEN Positive(v.container) ELSE Positive(v.duration) * v.tick

TargetOf(v, o, i) ==
  LET frame_step == DurationOf(v) \div o.segments
      seek_target == i * frame_step + frame_step \div 2
  IN (2 * seek_target + v.tick) \div (2 * v.tick)

Later(v, o, i, last) == {n \in DOMAIN v.pts : v.pts[n] >= TargetOf(v, o, i) /\ v.pts[n] > last}

FirstOf(v, o, i, last) == IF Later(v, o, i, last) = {} THEN 0 ELSE Least(Later(v, o, i, last))

(* The time of the last frame taken up to segment i.                       *)
NextLast(v, o, i, last) ==
  LET n == FirstOf(v, o, i, last) IN IF n = 0 THEN last ELSE v.pts[n]

LastOf(v, o) ==
  LET after[i \in -1 .. (o.segments - 1)] == IF i = -1 THEN -1 ELSE NextLast(v, o, i, after[i - 1])
  IN after

FramesOf(v, o) == [i \in 0 .. (o.segments - 1) |-> FirstOf(v, o, i, LastOf(v, o)[i - 1])]


LEMMA TargetsByDefinition ==
  ASSUME NEW i
  PROVE  Target(i) = TargetOf(video, options, i)
  BY DEF Target, TargetOf, vreader_get_duration, DurationOf

LEMMA FramesByDefinition == FrameOf = FramesOf(video, options)
  BY DEF FrameOf, FramesOf, LastOf, NextLast, FirstOf, Later, FirstFrame, Segments, Target, TargetOf,
     vreader_get_duration, DurationOf

LEMMA TargetIsNumber ==
  ASSUME NEW v \in Videos, NEW o \in Options, NEW i \in Int
  PROVE  TargetOf(v, o, i) \in Int
<1>1. v.duration \in Int /\ v.container \in Int /\ v.tick \in Nat \ {0} /\ o.segments \in Nat \ {0}
  BY VideosAssumption DEF Options
<1>2. DurationOf(v) \in Int
  BY <1>1 DEF DurationOf, Positive, NoDuration
<1>3. DurationOf(v) \div o.segments \in Int
  BY <1>1, <1>2
<1> DEFINE fs == DurationOf(v) \div o.segments
<1> HIDE DEF fs
<1>4. fs \div 2 \in Int /\ i * fs \in Int /\ fs \in Int
  BY <1>3 DEF fs
<1>5. i * fs + fs \div 2 \in Int
  BY <1>4
<1> DEFINE t == i * fs + fs \div 2
<1>6. TargetOf(v, o, i) = (2 * t + v.tick) \div (2 * v.tick)
  BY DEF TargetOf, fs
<1> HIDE DEF t
<1>7. t \in Int
  BY <1>5 DEF t
<1> QED
  BY <1>1, <1>6, <1>7

(* The first frame of a segment: 0 if none is late enough.                 *)
LEMMA FirstFacts ==
  ASSUME NEW v \in Videos, NEW o \in Options, NEW i, NEW last
  PROVE  LET n == FirstOf(v, o, i, last)
         IN /\ Later(v, o, i, last) = {} => n = 0
            /\ Later(v, o, i, last) # {} =>
                 n \in Later(v, o, i, last) /\ \A m \in Later(v, o, i, last) : n <= m
<1>1. Later(v, o, i, last) \subseteq Nat
  BY VideosAssumption DEF Later
<1> QED
  BY <1>1, LeastIs DEF FirstOf

LEMMA NextLastIsNumber ==
  ASSUME NEW v \in Videos, NEW o \in Options, NEW i, NEW last \in Int
  PROVE  NextLast(v, o, i, last) \in Int
<1> DEFINE n == FirstOf(v, o, i, last)
<1>1. n # 0 => n \in DOMAIN v.pts
  BY FirstFacts DEF Later
<1>2. v.pts \in Seq(Nat)
  BY VideosAssumption
<1>3. n # 0 => v.pts[n] \in Int
  BY <1>1, <1>2
<1> HIDE DEF n
<1> QED
  BY <1>3 DEF NextLast, n

(* The recursion of LastOf.                                                *)
LEMMA LastFacts ==
  ASSUME NEW v \in Videos, NEW o \in Options
  PROVE  \A i \in -1 .. (o.segments - 1) :
           /\ LastOf(v, o)[i] \in Int
           /\ LastOf(v, o)[i] = IF i = -1 THEN -1 ELSE NextLast(v, o, i, LastOf(v, o)[i - 1])
<1> DEFINE top == o.segments - 1
           Is(f) == f = [i \in -1 .. top |-> IF i = -1 THEN -1 ELSE NextLast(v, o, i, f[i - 1])]
           Taken == [il \in (0 .. top) \X Int |-> NextLast(v, o, il[1], il[2])]
<1>0. o.segments \in Nat \ {0} /\ top \in Nat /\ top = 0 - 1 + o.segments /\ 0 - 1 = -1
  BY DEF Options
<1>1. LastOf(v, o) = CHOOSE f : Is(f)
  BY DEF LastOf
<1>2. \A i \in 0 .. top : \A last \in Int : NextLast(v, o, i, last) \in Int /\ Taken[<<i, last>>] = NextLast(v, o, i, last)
  BY NextLastIsNumber
<1> HIDE DEF top, Taken
<1>3. \E f : Iterates(f, 0, 0 - 1 + o.segments, -1, Taken)
  <2>1. 0 \in Int /\ o.segments \in Nat
    BY <1>0
  <2> QED
    BY <2>1, IteratesExists, Zenon
<1>4. PICK f : Iterates(f, 0, top, -1, Taken)
  BY <1>0, <1>3
<1>a. f = [i \in -1 .. top |-> f[i]]
  BY <1>0, <1>4 DEF Iterates
<1>5. \A i \in -1 .. top : f[i] = IF i = -1 THEN -1 ELSE Taken[<<i, f[i - 1]>>]
  BY <1>0, <1>4 DEF Iterates
<1> DEFINE S == {i \in -1 .. top : f[i] \in Int}
<1>6. -1 \in S
  <2>1. -1 \in -1 .. top
    BY <1>0
  <2>2. f[-1] = -1
    BY <1>5, <2>1
  <2> QED
    BY <2>1, <2>2
<1>7. ASSUME NEW i \in 0 .. top, i - 1 \in S
      PROVE  i \in S /\ f[i] = NextLast(v, o, i, f[i - 1])
  <2>1. i \in -1 .. top /\ i # -1 /\ f[i - 1] \in Int
    BY <1>0, <1>7
  <2>2. /\ Taken[<<i, f[i - 1]>>] = NextLast(v, o, i, f[i - 1])
        /\ NextLast(v, o, i, f[i - 1]) \in Int
    BY <1>2, <2>1
  <2>3. f[i] = Taken[<<i, f[i - 1]>>]
    BY <1>5, <2>1
  <2> QED
    BY <2>1, <2>2, <2>3
<1>8. \A i \in 0 .. top : i - 1 \in S => i \in S
  BY <1>7
<1>9. \A i \in -1 .. top : i \in S
  <2> HIDE DEF S
  <2>1. 0 \in Int /\ top \in Int /\ 0 - 1 \in S
    BY <1>0, <1>6
  <2>2. \A i \in (0 - 1) .. top : i \in S
    BY <2>1, <1>8, IntervalInduction
  <2> QED
    BY <1>0, <2>2
<1>10. \A i \in -1 .. top : f[i] = IF i = -1 THEN -1 ELSE NextLast(v, o, i, f[i - 1])
  <2> SUFFICES ASSUME NEW i \in -1 .. top, i # -1 PROVE f[i] = NextLast(v, o, i, f[i - 1])
    BY <1>5
  <2>1. i \in 0 .. top /\ i - 1 \in -1 .. top
    BY <1>0
  <2> QED
    BY <1>7, <1>9, <2>1
<1>11. Is(f)
  BY <1>a, <1>10
<1>12. Is(LastOf(v, o))
  <2>1. \E g : Is(g)
    BY <1>11
  <2> HIDE DEF Is
  <2> QED
    BY <1>1, <2>1, Zenon
<1>13. \A i \in -1 .. top :
         LastOf(v, o)[i] = IF i = -1 THEN -1 ELSE NextLast(v, o, i, LastOf(v, o)[i - 1])
  BY <1>12
<1> DEFINE R == {i \in -1 .. top : LastOf(v, o)[i] \in Int}
<1>14. -1 \in R
  BY <1>0, <1>13
<1>15. ASSUME NEW i \in 0 .. top, i - 1 \in R
       PROVE  i \in R
  <2>1. i \in -1 .. top /\ i # -1 /\ LastOf(v, o)[i - 1] \in Int
    BY <1>0, <1>15
  <2> QED
    BY <1>2, <1>13, <2>1
<1>16. \A i \in -1 .. top : i \in R
  <2>0. \A i \in 0 .. top : i - 1 \in R => i \in R
    BY <1>15
  <2> HIDE DEF R
  <2>1. 0 \in Int /\ top \in Int /\ 0 - 1 \in R
    BY <1>0, <1>14
  <2>2. \A i \in (0 - 1) .. top : i \in R
    BY <2>1, <2>0, IntervalInduction
  <2> QED
    BY <1>0, <2>2
<1> QED
  BY <1>13, <1>16 DEF top

(* What the frame of a segment does to the last one taken.                 *)
LEMMA SegmentFrame ==
  ASSUME NEW v \in Videos, NEW o \in Options, NEW i \in 0 .. (o.segments - 1)
  PROVE  LET n == FramesOf(v, o)[i]
             last == LastOf(v, o)[i - 1]
         IN /\ n = FirstOf(v, o, i, last) /\ last \in Int
            /\ n = 0 => LastOf(v, o)[i] = last
            /\ n # 0 => LastOf(v, o)[i] = v.pts[n]
<1>1. o.segments \in Nat /\ i \in -1 .. (o.segments - 1) /\ i - 1 \in -1 .. (o.segments - 1) /\ i # -1
  BY DEF Options
<1>2. FramesOf(v, o)[i] = FirstOf(v, o, i, LastOf(v, o)[i - 1])
  BY DEF FramesOf
<1>3. LastOf(v, o)[i - 1] \in Int /\ LastOf(v, o)[i] = NextLast(v, o, i, LastOf(v, o)[i - 1])
  BY <1>1, LastFacts
<1> QED
  BY <1>2, <1>3 DEF NextLast
-----------------------------------------------------------------------------
(***************************************************************************)
(* Segments: the frame of each is the one by definition                    *)
(***************************************************************************)

(* The decoder holds the frames in front of the demuxer; every frame that  *)
(* is still wanted is among them or behind.                                *)
ReaderOK ==
  /\ \A k \in 1 .. Len(held) : held[k] = position - Len(held) + (k - 1)
  /\ draining => position > Len(video.pts)
  /\ step = "decode" => \A n \in DOMAIN video.pts : IsWanted(n) => position - Len(held) <= n

LostIn(v, o, n) ==
  \/ n = 0
  \/ normalise_angle_360(v.rotation) \notin RightAngles \cup {0}
  \/ o.bars /\ IsBlack(v.pictures[n])

(* While libav does not fail.                                              *)
SegmentsOK ==
  errors = <<>> =>
    /\ fctx_init \/ step = "filter" => Angle \in RightAngles
    /\ step \in TurnedSteps => Angle \in RightAngles \cup {0}
    /\ step = "idle" => last_pts = -1
    /\ step \in ReaderSteps \cup {"seek", "decode"} => last_pts = LastOf(video, options)[segment - 1]
    /\ step \in FrameSteps => frame.n = FramesOf(video, options)[segment]
    /\ step \in {"scale", "hash"} /\ options.bars => ~IsBlack(video.pictures[frame.n])
    /\ \A i \in DOMAIN entries :
         i < segment =>
           LET n == FramesOf(video, options)[i]
           IN entries[i].of.n = IF LostIn(video, options, n) THEN 0 ELSE n


(* The reader wants what is later.                                         *)
LEMMA WantedIsLater ==
  ASSUME Control, NEW n \in DOMAIN video.pts
  PROVE  IsWanted(n) <=> n \in Later(video, options, segment, last_pts)
  BY TargetsByDefinition DEF IsWanted, Later

LEMMA VideoFacts ==
  ASSUME Control
  PROVE  /\ video \in Videos /\ options \in Options /\ video.pts \in Seq(Nat)
         /\ DOMAIN video.pts = 1 .. Len(video.pts) /\ Len(video.pts) \in Nat
         /\ \A n \in DOMAIN video.pts : video.pts[n] \in Nat
         /\ \A m, n \in DOMAIN video.pts : m < n => video.pts[m] < video.pts[n]
         /\ segment \in Int /\ Target(segment) \in Int
<1>1. video \in Videos /\ options \in Options /\ segment \in Int
  BY DEF Control, VideoTypeOK
<1>2. /\ video.pts \in Seq(Nat)
      /\ \A m, n \in DOMAIN video.pts : m < n => video.pts[m] < video.pts[n]
  BY <1>1, VideosAssumption
<1>3. Target(segment) \in Int
  BY <1>1, TargetsByDefinition, TargetIsNumber
<1> QED
  BY <1>1, <1>2, <1>3

LEMMA SegmentInRange ==
  ASSUME Control, step \in {"decode"} \cup FrameSteps
  PROVE  segment \in 0 .. (options.segments - 1)
  BY DEF Control, LoopControl, VideoTypeOK, Options

(* Wherever a seek lands, nothing that is wanted lies in front of it.      *)
LEMMA LandsBeforeWanted ==
  ASSUME Control, NEW k \in Landings(Target(segment)), NEW n \in DOMAIN video.pts, IsWanted(n)
  PROVE  k <= n
<1>1. CASE k = 1
  BY <1>1, VideoFacts
<1>2. CASE k # 1
  <2>1. k \in video.keys /\ video.pts[k] <= Target(segment)
    BY <1>2 DEF Landings
  <2>2. k \in DOMAIN video.pts
    BY <2>1, VideosAssumption DEF Control, VideoTypeOK
  <2>3. video.pts[n] >= Target(segment)
    BY DEF IsWanted
  <2>4. ~(n < k)
    BY <2>1, <2>2, <2>3, VideoFacts
  <2> QED
    BY <2>2, <2>4, VideoFacts
<1> QED
  BY <1>1, <1>2

LEMMA InitReader == VideoInit => ReaderOK
  BY DEF VideoInit, ReaderOK

LEMMA ReaderOKStep == Control /\ ReaderOK /\ [VideoNext]_videoVars => ReaderOK'
<1> SUFFICES ASSUME Control, ReaderOK, [VideoNext]_videoVars PROVE ReaderOK'
  OBVIOUS
<1> USE DEF readerVars
<1>0. position \in Nat \ {0} /\ held \in Seq(DOMAIN video.pts) /\ Len(held) \in Nat
  BY DEF Control, VideoTypeOK
<1>1. ASSUME UNCHANGED <<video, readerVars>>, step' # "decode" PROVE ReaderOK'
  BY <1>1 DEF ReaderOK
<1>2. CASE UNCHANGED videoVars \/ RequestShutdown
  <2>1. UNCHANGED <<video, options, step, readerVars, segment, last_pts>>
    BY <1>2 DEF videoVars, loopVars, RequestShutdown
  <2> QED
    BY <2>1 DEF ReaderOK, IsWanted, Target, vreader_get_duration
<1>3. CASE \E opts \in Options : ak_video_hash(opts)
  BY <1>1, <1>3 DEF ak_video_hash
<1>4. CASE vreader_init \/ ReadMissingStream \/ CheckDuration
  BY <1>1, <1>4 DEF vreader_init, AfterReaderStep, ReadMissingStream, CheckDuration, Goto, Ends
<1>5. CASE SetUpRotation \/ Rotate
  BY <1>1, <1>5 DEF SetUpRotation, Rotate, SetFrame, Goto, AfterRotation, SegmentFails
<1>12. CASE apply_crop
  BY <1>1, <1>12, CropOutcomes DEF SetFrame, SegmentFails
<1>13. CASE normalise_frame_to_grey8 \/ ScaleNothing
  BY <1>1, <1>13, GreySteps
<1>6. CASE extract_scaled_matrix \/ StoreHash \/ SegmentsEnd \/ EndOfFile
  BY <1>1, <1>6 DEF extract_scaled_matrix, StoreHash, SegmentsEnd, Ends, EndOfFile, SegmentFails
<1>7. CASE LibavFails
  <2>1. SegmentFails \/ \E status \in {"AK_IO_FAIL", "AK_NO_MEM"} : Ends(status)
    BY <1>7, ErrorOutcomes
  <2> QED
    BY <1>1, <2>1 DEF SegmentFails, Ends
<1>8. CASE Seek
  <2>1. /\ position' \in Landings(Target(segment)) /\ held' = <<>> /\ draining' = FALSE
        /\ UNCHANGED <<video, options, segment, last_pts>>
    BY <1>8 DEF Seek, loopVars
  <2>2. \A n \in DOMAIN video.pts : IsWanted(n) => position' <= n
    BY <2>1, LandsBeforeWanted
  <2>3. position' \in Nat
    BY <2>1, LandingsAreFrames
  <2>4. \A n : IsWanted(n)' <=> IsWanted(n)
    BY <2>1 DEF IsWanted, Target, vreader_get_duration
  <2> QED
    BY <2>1, <2>2, <2>3, <2>4 DEF ReaderOK
<1>9. CASE ReadPacket
  <2>1. /\ held' = Append(held, position) /\ position' = position + 1 /\ ~draining /\ step = "decode"
        /\ UNCHANGED <<video, options, segment, last_pts, draining, step>>
    BY <1>9 DEF ReadPacket, loopVars
  <2>2. Len(held') = Len(held) + 1
    BY <1>0, <2>1
  <2>3. ASSUME NEW k \in 1 .. Len(held') PROVE held'[k] = position' - Len(held') + (k - 1)
    <3>1. CASE k = Len(held')
      BY <1>0, <2>1, <2>2, <3>1
    <3>2. CASE k # Len(held')
      BY <1>0, <2>1, <2>2, <3>2 DEF ReaderOK
    <3> QED
      BY <3>1, <3>2
  <2>4. \A n \in DOMAIN video.pts : IsWanted(n) => position' - Len(held') <= n
    BY <1>0, <2>1, <2>2 DEF ReaderOK
  <2>5. \A n : IsWanted(n)' <=> IsWanted(n)
    BY <2>1 DEF IsWanted, Target, vreader_get_duration
  <2> QED
    BY <2>1, <2>3, <2>4, <2>5 DEF ReaderOK
<1>10. CASE ReadEnd
  <2>1. position > Len(video.pts)
    BY <1>0, <1>10, VideoFacts DEF ReadEnd, MoreFrames
  <2>2. UNCHANGED <<video, options, segment, last_pts, position, held, step>>
    BY <1>10 DEF ReadEnd, loopVars
  <2> QED
    BY <2>1, <2>2 DEF ReaderOK, IsWanted, Target, vreader_get_duration
<1>11. CASE Receive
  <2>1. /\ step = "decode" /\ held' = Tail(held) /\ UNCHANGED <<video, options, position, draining, segment>>
        /\ held # <<>>
    BY <1>11, ReadyMeansHeld DEF Receive
  <2>2. Len(held) >= 1 /\ Len(held') = Len(held) - 1 /\ Head(held) = held[1] /\ Head(held) = position - Len(held)
    BY <1>0, <2>1 DEF ReaderOK
  <2>3. ASSUME NEW k \in 1 .. Len(held') PROVE held'[k] = position - Len(held') + (k - 1)
    <3>1. held'[k] = held[k + 1] /\ k + 1 \in 1 .. Len(held)
      BY <1>0, <2>1, <2>2
    <3> QED
      BY <1>0, <2>2, <3>1 DEF ReaderOK
  <2>4. draining => position > Len(video.pts)
    BY DEF ReaderOK
  <2>5. CASE IsWanted(Head(held))
    <3>1. step' = "rotate"
      BY <1>11, <2>5 DEF Receive
    <3> QED
      BY <2>1, <2>3, <2>4, <3>1 DEF ReaderOK
  <2>6. CASE ~IsWanted(Head(held))
    <3>1. UNCHANGED <<last_pts, step>>
      BY <1>11, <2>6 DEF Receive
    <3>2. ASSUME NEW n \in DOMAIN video.pts, IsWanted(n) PROVE position - Len(held') <= n
      <4>1. position - Len(held) <= n /\ n # position - Len(held)
        BY <2>1, <2>2, <2>6, <3>2 DEF ReaderOK
      <4> QED
        BY <1>0, <2>2, <4>1, VideoFacts
    <3>3. \A n : IsWanted(n)' <=> IsWanted(n)
      BY <2>1, <3>1 DEF IsWanted, Target, vreader_get_duration
    <3> QED
      BY <2>1, <2>3, <2>4, <3>1, <3>2, <3>3 DEF ReaderOK
  <2> QED
    BY <2>5, <2>6
<1> QED
  BY <1>2, <1>3, <1>4, <1>5, <1>6, <1>7, <1>8, <1>9, <1>10, <1>11, <1>12, <1>13 DEF VideoNext, HashStep

(* The frame received is the one of the segment.                           *)
LEMMA ReceivesItsFrame ==
  ASSUME Control, ReaderOK, SegmentsOK, errors = <<>>, Receive, IsWanted(Head(held))
  PROVE  Head(held) = FramesOf(video, options)[segment]
<1> DEFINE n == Head(held)
           late == Later(video, options, segment, last_pts)
<1>1. step = "decode" /\ n \in DOMAIN video.pts /\ held # <<>> /\ segment \in 0 .. (options.segments - 1)
  BY ReadyMeansHeld, SegmentInRange DEF Receive
<1>2. held \in Seq(DOMAIN video.pts) /\ position \in Nat /\ Len(held) \in Nat
  BY DEF Control, VideoTypeOK
<1>3. n = position - Len(held)
  BY <1>1, <1>2 DEF ReaderOK
<1>4. n \in late /\ \A m \in late : n <= m
  <2>1. n \in late
    BY <1>1, WantedIsLater
  <2>2. \A m \in late : m \in DOMAIN video.pts /\ IsWanted(m)
    BY WantedIsLater DEF Later
  <2> QED
    BY <1>1, <1>3, <2>1, <2>2 DEF ReaderOK
<1>5. last_pts = LastOf(video, options)[segment - 1]
  BY <1>1 DEF SegmentsOK
<1> DEFINE first == FirstOf(video, options, segment, last_pts)
<1>6. FramesOf(video, options)[segment] = first
  BY <1>1, <1>5, SegmentFrame, VideoFacts
<1>7. first \in late /\ \A m \in late : first <= m
  BY <1>4, FirstFacts, VideoFacts
<1>8. first \in Nat /\ n \in Nat
  <2>1. late \subseteq DOMAIN video.pts
    BY DEF Later
  <2>2. DOMAIN video.pts \subseteq Nat
    BY VideoFacts
  <2> HIDE DEF first, late, n
  <2> QED
    BY <1>4, <1>7, <2>1, <2>2
<1> HIDE DEF first, late, n
<1>9. first = n
  BY <1>4, <1>7, <1>8
<1> QED
  BY <1>6, <1>9 DEF n

(* A file that ends has no frame for the segment.                          *)
LEMMA EndsWithoutFrame ==
  ASSUME Control, ReaderOK, SegmentsOK, errors = <<>>, EndOfFile
  PROVE  /\ FramesOf(video, options)[segment] = 0
         /\ last_pts = LastOf(video, options)[segment]
<1>1. /\ step = "decode" /\ draining /\ held = <<>> /\ segment \in 0 .. (options.segments - 1)
  BY SegmentInRange DEF EndOfFile, FrameReady
<1>2. position > Len(video.pts) /\ position \in Nat /\ Len(held) = 0
  BY <1>1 DEF ReaderOK, Control, VideoTypeOK
<1>3. Later(video, options, segment, last_pts) = {}
  <2> SUFFICES ASSUME NEW m \in Later(video, options, segment, last_pts) PROVE FALSE
    OBVIOUS
  <2>1. m \in DOMAIN video.pts /\ IsWanted(m)
    BY WantedIsLater DEF Later
  <2>2. position - Len(held) <= m
    BY <1>1, <2>1 DEF ReaderOK
  <2> QED
    BY <1>2, <2>1, <2>2, VideoFacts
<1>4. last_pts = LastOf(video, options)[segment - 1]
  BY <1>1 DEF SegmentsOK
<1> QED
  BY <1>1, <1>3, <1>4, FirstFacts, SegmentFrame, VideoFacts

(* A segment that ends, with a hash or without one.                        *)
LEMMA SegmentEnds ==
  ASSUME Control, SegmentsOK, errors = <<>>, segment < options.segments, step # "idle", NEW e,
         entries' = [entries EXCEPT ![segment] = e], segment' = segment + 1, step' = "seek",
         UNCHANGED <<video, options, last_pts, fctx_init, errors>>,
         last_pts = LastOf(video, options)[segment],
         LET n == FramesOf(video, options)[segment]
         IN e.of.n = IF LostIn(video, options, n) THEN 0 ELSE n
  PROVE  SegmentsOK'
<1>1. segment \in Nat /\ DOMAIN entries = 0 .. (options.segments - 1) /\ options.segments \in Nat
  BY DEF Control, VideoTypeOK, LoopControl, Segments, Options
<1>2. /\ DOMAIN entries' = DOMAIN entries
      /\ entries'[segment] = e
      /\ \A i \in DOMAIN entries : i # segment => entries'[i] = entries[i]
  BY <1>1
<1> DEFINE Holds(i, entry) ==
             LET n == FramesOf(video, options)[i]
             IN entry.of.n = IF LostIn(video, options, n) THEN 0 ELSE n
<1>3. Holds(segment, e) /\ \A i \in DOMAIN entries : i < segment => Holds(i, entries[i])
  BY DEF SegmentsOK
<1> HIDE DEF Holds
<1>4. \A i \in DOMAIN entries' : i < segment' => Holds(i, entries'[i])
  <2> SUFFICES ASSUME NEW i \in DOMAIN entries, i < segment + 1 PROVE Holds(i, entries'[i])
    BY <1>2
  <2>1. i = segment \/ i < segment
    BY <1>1
  <2> QED
    BY <1>1, <1>2, <1>3, <2>1
<1>5. segment' - 1 = segment
  BY <1>1
<1>6. (fctx_init => Angle \in RightAngles)'
  BY DEF SegmentsOK, Angle
<1> QED
  BY <1>4, <1>5, <1>6 DEF SegmentsOK, Holds, TurnedSteps, FrameSteps, RotationSteps

(* A segment whose frame is lost.                                          *)
LEMMA SegmentLost ==
  ASSUME Control, SegmentsOK, errors = <<>>, SegmentFails, UNCHANGED errors, segment < options.segments,
         step # "idle", last_pts = LastOf(video, options)[segment],
         LostIn(video, options, FramesOf(video, options)[segment])
  PROVE  SegmentsOK'
<1>1. Failed.of.n = 0
  BY DEF Failed, NoFrame
<1> QED
  BY <1>1, SegmentEnds DEF SegmentFails

(* Once a segment has its frame, the last one taken is that.               *)
LEMMA FrameIsLast ==
  ASSUME Control, Data, SegmentsOK, errors = <<>>, step \in FrameSteps
  PROVE  /\ frame.n = FramesOf(video, options)[segment] /\ frame.n \in DOMAIN video.pts /\ frame.n # 0
         /\ last_pts = LastOf(video, options)[segment]
<1>1. segment \in 0 .. (options.segments - 1)
  BY SegmentInRange
<1>2. frame.n = FramesOf(video, options)[segment]
  BY DEF SegmentsOK
<1>3. frame.n \in DOMAIN video.pts /\ last_pts = video.pts[frame.n]
  BY DEF Data, WorkingFrame
<1>4. frame.n # 0
  BY <1>3, VideoFacts
<1> QED
  BY <1>1, <1>2, <1>3, <1>4, SegmentFrame, VideoFacts

LEMMA InitSegments == VideoInit => SegmentsOK
<1> SUFFICES ASSUME VideoInit PROVE SegmentsOK
  OBVIOUS
<1>1. DOMAIN entries = {} /\ step = "idle" /\ last_pts = -1 /\ fctx_init = FALSE
  BY DEF VideoInit
<1> QED
  BY <1>1 DEF SegmentsOK, ReaderSteps, FrameSteps, RotationSteps, TurnedSteps

(* A step that leaves the segment where it is.                             *)
LEMMA SegmentStays ==
  ASSUME SegmentsOK, UNCHANGED <<video, options, segment, entries, errors>>,
         errors = <<>> =>
           /\ fctx_init' \/ step' = "filter" => Angle \in RightAngles
           /\ step' \in TurnedSteps => Angle \in RightAngles \cup {0}
           /\ step' = "idle" => last_pts' = -1
           /\ step' \in ReaderSteps \cup {"seek", "decode"} => last_pts' = LastOf(video, options)[segment - 1]
           /\ step' \in FrameSteps => frame'.n = FramesOf(video, options)[segment]
           /\ step' \in {"scale", "hash"} /\ options.bars => ~IsBlack(video.pictures[frame'.n])
  PROVE  SegmentsOK'
<1>1. Angle' = Angle
  BY DEF Angle
<1> QED
  BY <1>1 DEF SegmentsOK

LEMMA SegmentsOKStep ==
  Control /\ Data /\ LumaInv /\ ReaderOK /\ SegmentsOK /\ [VideoNext]_videoVars => SegmentsOK'
<1> SUFFICES ASSUME Control, Data, LumaInv, ReaderOK, SegmentsOK, [VideoNext]_videoVars PROVE SegmentsOK'
  OBVIOUS
<1> USE DEF ReaderSteps, FrameSteps, RotationSteps, TurnedSteps
<1>0. /\ errors = <<>> /\ (fctx_init \/ step = "filter") => Angle \in RightAngles
      /\ errors = <<>> /\ step \in TurnedSteps => Angle \in RightAngles \cup {0}
      /\ errors = <<>> /\ step \in ReaderSteps \cup {"seek", "decode"} =>
           last_pts = LastOf(video, options)[segment - 1]
      /\ errors = <<>> /\ step \in FrameSteps => frame.n = FramesOf(video, options)[segment]
      /\ errors = <<>> /\ step \in {"scale", "hash"} /\ options.bars => ~IsBlack(video.pictures[frame.n])
  BY DEF SegmentsOK
<1>1. CASE UNCHANGED videoVars \/ RequestShutdown
  <2>1. UNCHANGED <<video, options, segment, entries, errors, fctx_init, step, last_pts, frame>>
    BY <1>1 DEF videoVars, loopVars, RequestShutdown
  <2> QED
    BY <2>1 DEF SegmentsOK, Angle
<1>2. ASSUME NEW opts \in Options, ak_video_hash(opts) PROVE SegmentsOK'
  <2>1. /\ step = "idle" /\ segment = 0 /\ segment' = 0 /\ options' = opts /\ step' = "open"
        /\ UNCHANGED <<video, fctx_init, errors, last_pts>>
        /\ DOMAIN entries' = 0 .. (opts.segments - 1)
    BY <1>2 DEF ak_video_hash, Control, LoopControl
  <2>2. errors = <<>> => last_pts = -1
    BY <2>1 DEF SegmentsOK
  <2>3. LastOf(video, opts)[-1] = -1
    BY LastFacts, VideoFacts DEF Options
  <2>4. 0 - 1 = -1 /\ \A i \in DOMAIN entries' : ~(i < segment')
    BY <2>1 DEF Options
  <2>5. Angle' = Angle
    BY <2>1 DEF Angle
  <2> QED
    BY <1>0, <2>1, <2>2, <2>3, <2>4, <2>5 DEF SegmentsOK
<1>3. CASE vreader_init \/ ReadMissingStream \/ CheckDuration
  <2>1. /\ UNCHANGED <<video, options, segment, entries, errors, fctx_init, last_pts>>
        /\ step \in ReaderSteps
        /\ step' \in ReaderSteps \cup {"undefined", "done", "seek"}
    BY <1>3 DEF vreader_init, AfterReaderStep, ReadMissingStream, CheckDuration, Goto, Ends, loopVars
  <2> QED
    BY <1>0, <2>1, SegmentStays
<1>4. CASE Seek \/ ReadPacket \/ ReadEnd
  <2>1. /\ UNCHANGED <<video, options, segment, entries, errors, fctx_init, last_pts>>
        /\ step \in {"seek", "decode"} /\ step' = "decode"
    BY <1>4 DEF Seek, ReadPacket, ReadEnd, loopVars
  <2> QED
    BY <1>0, <2>1, SegmentStays
<1>5. CASE Receive
  <2>1. /\ step = "decode" /\ UNCHANGED <<video, options, segment, entries, errors, fctx_init>>
    BY <1>5 DEF Receive
  <2>2. CASE IsWanted(Head(held))
    <3>1. step' = "rotate" /\ frame'.n = Head(held)
      BY <1>5, <2>2 DEF Receive
    <3>2. errors = <<>> => frame'.n = FramesOf(video, options)[segment]
      BY <1>5, <2>2, <3>1, ReceivesItsFrame
    <3> QED
      BY <1>0, <2>1, <3>1, <3>2, SegmentStays
  <2>3. CASE ~IsWanted(Head(held))
    <3>1. UNCHANGED <<last_pts, step>>
      BY <1>5, <2>3 DEF Receive
    <3> QED
      BY <1>0, <2>1, <3>1, SegmentStays
  <2> QED
    BY <2>2, <2>3
<1>6. CASE EndOfFile
  <2>1. SegmentFails /\ UNCHANGED errors /\ step = "decode" /\ segment < options.segments
    BY <1>6 DEF EndOfFile, Control, LoopControl
  <2>2. CASE errors = <<>>
    BY <1>6, <2>1, <2>2, EndsWithoutFrame, SegmentLost DEF LostIn
  <2>3. CASE errors # <<>>
    BY <2>1, <2>3 DEF SegmentsOK
  <2> QED
    BY <2>2, <2>3
<1>7. CASE SetUpRotation
  <2>1. step = "rotate" /\ segment < options.segments
    BY <1>7 DEF SetUpRotation, Control, LoopControl
  <2>2. CASE SegmentFails /\ UNCHANGED errors /\ Angle \notin RightAngles \cup {0}
    <3>1. CASE errors = <<>>
      BY <2>1, <2>2, <3>1, FrameIsLast, SegmentLost DEF LostIn, Angle
    <3> QED
      BY <2>2, <3>1 DEF SegmentsOK
  <2>3. CASE Goto(AfterRotation) /\ Angle = 0
    <3>1. /\ UNCHANGED <<video, options, segment, entries, errors, fctx_init, last_pts, frame>>
          /\ step' \in {"grey", "scale"} /\ (options.bars => step' = "grey")
      BY <2>3 DEF Goto, loopVars, AfterRotation
    <3> QED
      BY <1>0, <2>1, <2>3, <3>1, SegmentStays
  <2>4. CASE Goto("filter") /\ fctx_init
    <3>1. UNCHANGED <<video, options, segment, entries, errors, fctx_init, last_pts, frame>> /\ step' = "filter"
      BY <2>4 DEF Goto, loopVars
    <3> QED
      BY <1>0, <2>1, <2>4, <3>1, SegmentStays
  <2>5. CASE Goto("aborted")
    <3>1. UNCHANGED <<video, options, segment, entries, errors, fctx_init, last_pts, frame>> /\ step' = "aborted"
      BY <2>5 DEF Goto, loopVars
    <3> QED
      BY <1>0, <2>1, <3>1, SegmentStays
  <2>6. CASE /\ step' = "filter" /\ Angle \in RightAngles
             /\ UNCHANGED <<video, options, segment, last_pts, frame, entries, errors>>
    BY <1>0, <2>1, <2>6, SegmentStays
  <2>7. \/ SegmentFails /\ UNCHANGED errors /\ Angle \notin RightAngles \cup {0}
        \/ Goto(AfterRotation) /\ Angle = 0
        \/ Goto("filter") /\ fctx_init
        \/ Goto("aborted")
        \/ /\ step' = "filter" /\ Angle \in RightAngles
           /\ UNCHANGED <<video, options, segment, last_pts, frame, entries, errors>>
    BY <1>7 DEF SetUpRotation
  <2> QED
    BY <2>2, <2>3, <2>4, <2>5, <2>6, <2>7
<1>8. CASE Rotate
  <2>1. /\ step = "filter" /\ frame'.n = frame.n
        /\ step' \in {"grey", "scale"} /\ (options.bars => step' = "grey")
        /\ UNCHANGED <<video, options, segment, last_pts, entries, errors, fctx_init>>
    BY <1>8 DEF Rotate, SetFrame, AfterRotation
  <2> QED
    BY <1>0, <2>1, SegmentStays
<1>9. CASE normalise_frame_to_grey8
  <2>1. /\ step \in {"grey", "clone"} /\ step' \in {"clone", "crop"}
        /\ UNCHANGED <<video, options, segment, last_pts, entries, fctx_init>>
    BY <1>9, GreySteps
  <2>2. UNCHANGED errors
    BY <1>9 DEF normalise_frame_to_grey8, BorrowFrame, ConvertToGrey, FillGrey, CloneGrey, SetFrame, Goto
  <2>3. frame'.n = frame.n
    <3>1. CASE BorrowFrame \/ ConvertToGrey
      BY <3>1 DEF BorrowFrame, ConvertToGrey, FillGrey, Goto, loopVars
    <3>2. CASE CloneGrey
      <4>1. step = "clone" /\ frame' = grey_frame
        BY <3>2 DEF CloneGrey, SetFrame
      <4>2. grey_frame = [frame EXCEPT !.luma = TRUE] /\ DOMAIN frame = FrameFields
        BY <4>1 DEF Data, WorkingFrame
      <4> QED
        BY <4>1, <4>2 DEF FrameFields
    <3> QED
      BY <1>9, <3>1, <3>2 DEF normalise_frame_to_grey8
  <2> QED
    BY <1>0, <2>1, <2>2, <2>3, SegmentStays
<1>10. CASE apply_crop
  <2>1. step = "crop" /\ segment < options.segments /\ options.bars /\ UNCHANGED errors
    BY <1>10, CropOutcomes DEF Control, LoopControl, SetFrame
  <2>2. CASE errors = <<>>
    <3>0. frame.luma /\ DOMAIN frame = FrameFields
      BY <2>1, <2>2 DEF LumaInv, CroppedSteps, ScaledNothing, Data, WorkingFrame
    <3>1. /\ frame.n = FramesOf(video, options)[segment] /\ frame.n \in DOMAIN video.pts
          /\ last_pts = LastOf(video, options)[segment]
      BY <2>1, <2>2, FrameIsLast
    <3>2. frame.angle = Angle
      BY <2>1 DEF Data, WorkingFrame
    <3>3. IsBlack(Picture(frame)) <=> IsBlack(video.pictures[frame.n])
      BY <3>1, VideoFacts, VideosAssumption, TurnedIsPicture DEF Picture
    <3>4. CASE IsBlack(Picture(frame))
      BY <1>10, <2>1, <2>2, <3>0, <3>1, <3>3, <3>4, CropOutcomes, SegmentLost DEF LostIn
    <3>5. CASE ~IsBlack(Picture(frame))
      <4>1. /\ step' = "scale" /\ \E kept : frame' = [frame EXCEPT !.kept = kept]
            /\ UNCHANGED <<video, options, segment, last_pts, entries, errors, fctx_init>>
        BY <1>10, <3>0, <3>5, CropOutcomes DEF SetFrame
      <4>2. frame'.n = frame.n
        BY <3>0, <4>1 DEF FrameFields
      <4> QED
        BY <1>0, <2>1, <3>3, <3>5, <4>1, <4>2, SegmentStays
    <3> QED
      BY <3>4, <3>5
  <2> QED
    BY <2>1, <2>2 DEF SegmentsOK
<1>11. CASE extract_scaled_matrix
  <2>1. /\ step = "scale" /\ step' = "hash"
        /\ UNCHANGED <<video, options, segment, last_pts, entries, errors, fctx_init, frame>>
    BY <1>11 DEF extract_scaled_matrix
  <2> QED
    BY <1>0, <2>1, SegmentStays
<1>12. CASE StoreHash
  <2> DEFINE new == [of |-> matrix, bits |-> dct_hash(Coefficients(matrix)),
                     timestamp |-> last_pts * video.tick]
  <2>1. /\ step = "hash" /\ segment < options.segments /\ segment' = segment + 1 /\ step' = "seek"
        /\ UNCHANGED <<video, options, last_pts, fctx_init, errors>>
        /\ entries' = [entries EXCEPT ![segment] = new]
    BY <1>12 DEF StoreHash, Control, LoopControl
  <2>2. new.of.n = frame.n
    BY <2>1 DEF Data, WorkingFrame
  <2> HIDE DEF new
  <2>3. CASE errors = <<>>
    <3>1. /\ frame.n = FramesOf(video, options)[segment] /\ frame.n # 0
          /\ last_pts = LastOf(video, options)[segment]
      BY <2>1, <2>3, FrameIsLast
    <3>2. ~LostIn(video, options, frame.n)
      BY <1>0, <2>1, <2>3, <3>1 DEF LostIn, Angle
    <3> QED
      BY <2>1, <2>2, <2>3, <3>1, <3>2, SegmentEnds
  <2> QED
    BY <2>1, <2>3 DEF SegmentsOK
<1>13. CASE SegmentsEnd
  <2>1. step' = "done" /\ UNCHANGED <<video, options, segment, last_pts, entries, errors, fctx_init, frame>>
    BY <1>13 DEF SegmentsEnd, Ends, loopVars
  <2> QED
    BY <1>0, <2>1, SegmentStays
<1>14. CASE LibavFails \/ ScaleNothing
  <2>1. errors' # <<>>
    BY <1>14, ErrorOutcomes DEF Control, VideoTypeOK, ScaleNothing
  <2> QED
    BY <2>1 DEF SegmentsOK
<1> QED
  BY <1>1, <1>2, <1>3, <1>4, <1>5, <1>6, <1>7, <1>8, <1>9, <1>10, <1>11, <1>12, <1>13, <1>14
  DEF VideoNext, HashStep

-----------------------------------------------------------------------------
(***************************************************************************)
(* Theorems                                                                *)
(***************************************************************************)

VideoInv == Control /\ Data /\ Errors /\ LumaInv /\ ReaderOK /\ SegmentsOK

(* The inductive invariant of ak_video_hash.                               *)
THEOREM VideoInvariant == VideoSpec => []VideoInv
<1>1. VideoInit => VideoInv
  BY InitControl, InitData, InitErrors, InitLuma, InitReader, InitSegments DEF VideoInv
<1>2. VideoInv /\ [VideoNext]_videoVars => VideoInv'
  BY ControlStep, DataStep, ErrorsStep, LumaStep, ReaderOKStep, SegmentsOKStep DEF VideoInv
<1> QED
  BY <1>1, <1>2, PTL DEF VideoSpec

(* The segments the loop has passed are written.                           *)
LEMMA PassedIsWritten ==
  ASSUME VideoInv, NEW i \in DOMAIN entries, i < segment
  PROVE  i \in Written
<1>1. i \in Int /\ segment \in Int
  BY DEF Segments, VideoInv, Control, LoopControl, VideoTypeOK, Options
<1>2. CASE entries[i] = Failed
  BY <1>2 DEF Failed, Unwritten, Written
<1>3. CASE Stored(video, ~options.bars, entries[i])
  <2>1. entries[i].of.n # 0
    BY <1>3, PtsAreNumbers DEF Stored, VideoInv
  <2> QED
    BY <2>1 DEF Unwritten, NoFrame, Written
<1> QED
  BY <1>1, <1>2, <1>3 DEF VideoInv, Data, Slice

LEMMA InvariantGivesOk == VideoInv => OkMeansHashed
<1> SUFFICES ASSUME VideoInv PROVE OkMeansHashed
  OBVIOUS
<1>1. step # "idle" => DOMAIN entries = Segments
  BY DEF VideoInv, Control, LoopControl
<1>2. ASSUME result = "AK_OK" PROVE Written = Segments /\ Hashed # {}
  <2>1. DOMAIN entries = Segments /\ segment = options.segments /\ decoded > 0
    BY <1>1, <1>2 DEF VideoInv, Control, ResultControl
  <2>2. \A i \in DOMAIN entries : i < segment
    BY <2>1 DEF Segments, VideoInv, Control, VideoTypeOK, Options
  <2> QED
    BY <2>1, <2>2, PassedIsWritten DEF Written, VideoInv, Data, Slice
<1>3. ASSUME NEW i \in Hashed, NEW j \in Segments, j < i PROVE j \in Written
  <2>1. i \in DOMAIN entries /\ i < segment /\ step # "idle"
    BY HashedEntry DEF VideoInv, Data, Control, LoopControl
  <2>2. j \in DOMAIN entries /\ i \in Int /\ j \in Int /\ segment \in Int
    BY <1>1, <1>3, <2>1 DEF Segments, VideoInv, Control, VideoTypeOK, Options
  <2>3. j < segment
    BY <1>3, <2>1, <2>2
  <2> QED
    BY <2>2, <2>3, PassedIsWritten
<1> QED
  BY <1>2, <1>3 DEF OkMeansHashed

LEMMA InvariantGivesFrames == VideoInv => HashIsOfItsFrame
<1> SUFFICES ASSUME VideoInv, NEW i \in Hashed
             PROVE  /\ entries[i].timestamp = video.pts[entries[i].of.n] * video.tick
                    /\ entries[i].of.angle = Angle
                    /\ ~options.bars => entries[i].of.kept = WholeOf(Picture(entries[i].of))
  BY DEF HashIsOfItsFrame
<1> QED
  BY HashedEntry DEF VideoInv, Data, Stored, Angle, Picture

LEMMA InvariantGivesCrops == VideoInv => CropKeepsThePicture
<1> SUFFICES ASSUME VideoInv, options.bars, NEW i \in Hashed
             PROVE  \/ ~entries[i].of.luma /\ ScaledNothing
                    \/ /\ entries[i].of.luma
                       /\ KeepsPicture(Picture(entries[i].of), entries[i].of.kept, Alignment)
  BY DEF CropKeepsThePicture, KeepsPicture
<1>1. entries[i].of.luma \/ ScaledNothing
  BY DEF VideoInv, LumaInv
<1>2. Stored(video, ~options.bars, entries[i])
  BY HashedEntry DEF VideoInv, Data
<1>3. entries[i].of.luma => KeepsPicture(Picture(entries[i].of), entries[i].of.kept, Alignment)
  BY <1>2 DEF Stored, Picture
<1> QED
  BY <1>1, <1>3

LEMMA InvariantGivesBits == VideoInv => BitsAreAboveMedian
<1> SUFFICES ASSUME VideoInv, NEW i \in Hashed
             PROVE  LET detail == Tail(Coefficients(entries[i].of))
                        Exceeded(k) == {j \in DOMAIN detail : detail[j] < detail[k] - 1}
                    IN entries[i].bits = [k \in DOMAIN detail |-> 2 * Cardinality(Exceeded(k)) > Len(detail)]
  BY DEF BitsAreAboveMedian
<1> DEFINE n == entries[i].of.n
           c == video.dct[n]
<1>1. n > 0 /\ Stored(video, ~options.bars, entries[i])
  BY HashedEntry DEF VideoInv, Data, Hashed, IsHashed
<1>2. n \in DOMAIN video.pts /\ entries[i].bits = dct_hash(c)
  BY <1>1 DEF Stored
<1>3. Coefficients(entries[i].of) = c
  BY <1>1 DEF Coefficients
<1>4. video \in Videos
  BY DEF VideoInv, Control, VideoTypeOK
<1>5. c \in Seq(Int) /\ Len(c) > 1
  BY <1>2, <1>4, VideosAssumption
<1> HIDE DEF c
<1>6. dct_hash(c) = LET detail == Tail(c)
                    IN [k \in DOMAIN detail |->
                          2 * Cardinality({j \in DOMAIN detail : detail[j] < detail[k] - 1}) > Len(detail)]
  BY <1>5, BitsByCounting
<1> QED
  BY <1>2, <1>3, <1>6

LEMMA InvariantGivesSegments == VideoInv => SegmentsAreReproducible
<1> SUFFICES ASSUME VideoInv, errors = <<>>, NEW i \in Written
             PROVE  LET n == FramesOf(video, options)[i]
                    IN entries[i].of.n = IF LostIn(video, options, n) THEN 0 ELSE n
  BY FramesByDefinition DEF SegmentsAreReproducible, LostIn, Angle
<1>1. i \in DOMAIN entries /\ i < segment
  BY DEF Written, VideoInv, Data, Slice
<1> QED
  BY <1>1 DEF VideoInv, SegmentsOK

(* A success means a full slice with at least one real hash, whatever      *)
(* calls of libav fail (ak_video_hash, its loop and its end).              *)
THEOREM OkAlwaysMeansHashed == VideoSpec => []OkMeansHashed
  BY VideoInvariant, InvariantGivesOk, PTL

(* No two hashes of a file are of the same frame, and they climb, whatever *)
(* segments fail between them (the minimum of                              *)
(* vreader_seek_decode_to_target).                                         *)
THEOREM TimestampsAlwaysClimb == VideoSpec => []TimestampsClimb
<1>1. VideoInv => TimestampsClimb
  BY DEF VideoInv, Data, Slice
<1> QED
  BY <1>1, VideoInvariant, PTL

(* A stored hash, its timestamp and its rotation are of one frame, also    *)
(* after segments that failed half-way (the loop of ak_video_hash).        *)
THEOREM HashesAreOfTheirFrames == VideoSpec => []HashIsOfItsFrame
  BY VideoInvariant, InvariantGivesFrames, PTL

(* Cropping never cuts away a pixel that is not black, and leaves no black  *)
(* border but what the alignment costs, for any picture and any rotation   *)
(* (detect_black_borders and apply_crop).                                  *)
THEOREM CropsAlwaysKeepThePicture == VideoSpec => []CropKeepsThePicture
  BY VideoInvariant, InvariantGivesCrops, PTL

(* While libav does not fail, the frame of each segment is a function of   *)
(* the video and the options, and a segment fails exactly when that frame  *)
(* does not exist, is black or cannot be turned (vreader_seek_decode_to_   *)
(* target and the loop of ak_video_hash): wherever seeks land, whatever    *)
(* the decoder holds back, and whatever happened to earlier segments.      *)
THEOREM SegmentsAreAlwaysReproducible == VideoSpec => []SegmentsAreReproducible
  BY VideoInvariant, InvariantGivesSegments, PTL

(* A bit of a stored hash is set for a coefficient that exceeds more than  *)
(* half of the others by more than the epsilon, for pictures of any number *)
(* of coefficients (quickselect_median and dct_hash).                      *)
THEOREM BitsAreAlwaysAboveMedian == VideoSpec => []BitsAreAboveMedian
  BY VideoInvariant, InvariantGivesBits, PTL

(* A file that was interrupted, or ran out of memory, never counts as      *)
(* hashed (the error paths of ak_video_hash).                              *)
THEOREM InterruptsAreNeverOk == VideoSpec => []InterruptIsNeverOk
<1>1. VideoInv => InterruptIsNeverOk
  BY DEF VideoInv, Errors
<1> QED
  BY <1>1, VideoInvariant, PTL

-----------------------------------------------------------------------------
(***************************************************************************)
(* The command                                                             *)
(***************************************************************************)

LEMMA CommandInit == Init => CliInv /\ CliInit /\ VideoInit
  BY CliInvInit DEF Init

(* The assertion at video.c:1092, and the range of skip_duration.          *)
LEMMA OptionsAreSound == CliInv => HashOptions \in Options
  BY DEF CliInv, Configs, HashOptions, Options, AK_MAX_VIDEO_SEGMENTS

LEMMA CommandStep ==
  ASSUME CliInv, [Next]_vars
  PROVE  CliInv' /\ [Parse]_cliVars /\ [VideoNext]_videoVars
<1>1. CASE UNCHANGED vars
  BY <1>1, CliInvStep DEF vars
<1>2. CASE ParseStep
  BY <1>2, CliInvStep DEF ParseStep
<1>3. CASE HashFile
  BY <1>3, CliInvStep, OptionsAreSound DEF HashFile, VideoNext
<1>4. CASE (HashStep \/ RequestShutdown) /\ UNCHANGED cliVars
  BY <1>4, CliInvStep DEF VideoNext
<1>5. CASE Terminated
  BY <1>5, CliInvStep DEF Terminated, vars
<1> QED
  BY <1>1, <1>2, <1>3, <1>4, <1>5 DEF Next, Program

(* Every command hashes a file as VideoHash allows, with a configuration   *)
(* of at least one segment (main, ak_cli_parse and hash_worker_thread).    *)
THEOREM CommandImplementsVideoHash == Spec => VideoSpec
  BY CommandInit, CommandStep, PTL DEF Spec, VideoSpec

(* What the command line accepts is sound.                                 *)
THEOREM CommandConfigIsSound == Spec => []AcceptedConfigIsSound
<1>1. CliInv => AcceptedConfigIsSound
  BY DEF CliInv
<1> QED
  BY <1>1, CommandInit, CommandStep, PTL DEF Spec

(* The command hashes with the configuration its last options ask for, and *)
(* keeps it while it hashes (main and ak_cli_parse).                       *)
THEOREM CommandObeysLastOption == Spec => []LastOptionWins
<1>1. Spec => CliSpec
  BY CommandInit, CommandStep, PTL DEF Spec, CliSpec
<1> QED
  BY <1>1, LastOptionAlwaysWins, PTL

(* The properties of ak_video_hash hold of the command, for any arguments. *)
THEOREM CommandHashesAreSound ==
  Spec => /\ []OkMeansHashed
          /\ []TimestampsClimb
          /\ []HashIsOfItsFrame
          /\ []CropKeepsThePicture
          /\ []SegmentsAreReproducible
          /\ []BitsAreAboveMedian
          /\ []InterruptIsNeverOk
  BY CommandImplementsVideoHash, OkAlwaysMeansHashed, TimestampsAlwaysClimb, HashesAreOfTheirFrames,
     CropsAlwaysKeepThePicture, SegmentsAreAlwaysReproducible, BitsAreAlwaysAboveMedian,
     InterruptsAreNeverOk, PTL
=============================================================================
