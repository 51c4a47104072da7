--------------------------------- MODULE Cli --------------------------------
(***************************************************************************)
(* The command line: ak_cli_parse of cli.c over the defaults of config.c.  *)
(* getopt_long splits the arguments, an option per call; each option is    *)
(* applied to the configuration as it comes, except the number of threads, *)
(* which is settled when all arguments are read.                           *)
(*                                                                         *)
(* An argument is a word, the end mark "--", a long option with or without *)
(* "=value", or a cluster of short options whose last one may have a value *)
(* attached.  A value is a string; Numbers says which of them strtoull     *)
(* reads to the end and without overflow.                                  *)
(***************************************************************************)
EXTENDS Integers, Sequences, FiniteSets

CONSTANTS Tokens,       (* the arguments that may be given                   *)
          MaxArguments, (* bound: how many of them                           *)
          Numbers,      (* a function from the numeric values to integers    *)
          CoreCounts    (* what sysconf may return for the online processors *)

ASSUME MaxArgumentsAssumption == MaxArguments \in Nat
ASSUME NumbersAssumption == \A s \in DOMAIN Numbers : Numbers[s] \in Int
ASSUME CoreCountsAssumption == CoreCounts \subseteq Int

VARIABLES argv,     (* the arguments                                         *)
          cores,    (* what sysconf returns                                  *)
          optind,   (* the next argument                                     *)
          letter,   (* the next short option of the cluster argv[optind]     *)
          words,    (* arguments passed over: getopt moves them to the end   *)
          config,   (* ak_config                                             *)
          threads,  (* the value of the last --threads, NoThreads without    *)
          action,   (* "parsing", or what ak_cli_parse returned              *)
          paths,    (* the positional arguments                              *)
          applied   (* observed only: the options applied so far             *)

cliVars == <<argv, cores, optind, letter, words, config, threads, action, paths, applied>>

NoValue == "(no value)"
NoThreads == -1
AK_MAX_VERBOSITY == 4
AK_MAX_VIDEO_SEGMENTS == 20
AK_HAMMING_MAX == 64
UINT8_MAX == 255

ASSUME NoValueAssumption == NoValue \notin DOMAIN Numbers

-----------------------------------------------------------------------------
(***************************************************************************)
(* The table of options                                                    *)
(***************************************************************************)

NoArgument == {"help", "version", "dry-run"}
RequiredArgument == {"segments", "threshold", "skip-duration", "format", "threads"}

(* The switches: the field and the flag that each one sets or clears.      *)
Switches ==
  [detect |-> {"detect-black", "detect-bars", "detect-rotation"},
   report |-> {"print-hashes", "print-unique", "human-size", "human-time"},
   runtime |-> {"cache", "progress-bar"}]

SwitchNames == UNION {Switches[f] : f \in DOMAIN Switches}
OptionNames == NoArgument \cup RequiredArgument \cup SwitchNames \cup {"verbose"}
FieldOf(name) == CHOOSE f \in DOMAIN Switches : name \in Switches[f]

Shorts == [h |-> "help", s |-> "segments", t |-> "threshold", v |-> "verbose"]

anukrta_default_config ==
  [segments |-> 3, threshold |-> 8, skip_duration |-> 3, thread_count |-> 0, verbosity |-> 0,
   detect |-> Switches.detect,
   report |-> Switches.report \ {"print-hashes"},
   runtime |-> Switches.runtime]

CliInit ==
  /\ argv \in UNION {[1 .. n -> Tokens] : n \in 0 .. MaxArguments}
  /\ cores \in CoreCounts
  /\ optind = 1
  /\ letter = 1
  /\ words = <<>>
  /\ config = anukrta_default_config
  /\ threads = NoThreads
  /\ action = "parsing"
  /\ paths = <<>>
  /\ applied = <<>>

-----------------------------------------------------------------------------
(***************************************************************************)
(* Values                                                                  *)
(***************************************************************************)

TrueWords == {"1", "yes", "true", "on"}
FalseWords == {"0", "no", "false", "off"}

IsNumber(value, lo, hi) == value \in DOMAIN Numbers /\ Numbers[value] \in lo .. hi

(* What the parser of an option accepts.  The largest of --threads and     *)
(* --skip-duration, INT_MAX and INT64_MAX - 1, lie beyond every number of  *)
(* the model.                                                              *)
Accepts(name, value) ==
  CASE name = "segments"       -> IsNumber(value, 1, AK_MAX_VIDEO_SEGMENTS)
    [] name = "threshold"      -> IsNumber(value, 0, AK_HAMMING_MAX)
    [] name \in {"threads", "skip-duration"} -> value \in DOMAIN Numbers /\ Numbers[value] >= 0
    [] name = "format"         -> value \in {"json", "text"}
    [] name = "verbose"        -> value = NoValue \/ IsNumber(value, 0, AK_MAX_VERBOSITY)
    [] name \in SwitchNames    -> value \in TrueWords \cup FalseWords \cup {NoValue}

(* Mutant: a switch can be turned on only.                                 *)
SetFlagOn(cfg, field, flag, enable) ==
  [cfg EXCEPT ![field] = IF enable THEN @ \cup {flag} ELSE @]

(* bool_flag and report_format_opt.                                        *)
SetFlag(cfg, field, flag, enable) ==
  [cfg EXCEPT ![field] = IF enable THEN @ \cup {flag} ELSE @ \ {flag}]

verbose_opt(cfg, value) ==
  IF value = NoValue
    THEN [cfg EXCEPT !.verbosity = IF @ < AK_MAX_VERBOSITY THEN @ + 1 ELSE @]
    ELSE [cfg EXCEPT !.verbosity = Numbers[value]]

Applied(cfg, name, value) ==
  CASE name = "segments"      -> [cfg EXCEPT !.segments = Numbers[value]]
    [] name = "threshold"     -> [cfg EXCEPT !.threshold = Numbers[value]]
    [] name = "skip-duration" -> [cfg EXCEPT !.skip_duration = Numbers[value]]
    [] name = "verbose"       -> verbose_opt(cfg, value)
    [] name = "format"        -> SetFlag(cfg, "report", "json", value = "json")
    [] name = "threads"       -> cfg
    [] name \in SwitchNames   -> SetFlag(cfg, FieldOf(name), name, value \notin FalseWords)

-----------------------------------------------------------------------------
(***************************************************************************)
(* The loop over the options                                               *)
(***************************************************************************)

AtArgument(kind) ==
  /\ action = "parsing"
  /\ optind <= Len(argv)
  /\ argv[optind].kind = kind

Return(verdict) ==
  /\ action' = verdict
  /\ UNCHANGED <<argv, cores, optind, letter, words, config, threads, paths, applied>>

(* One turn of the switch.  --dry-run is in the table and not in the       *)
(* switch: AK_UNREACHABLE, a panic in a debug build and undefined in a     *)
(* release build; no state of the program is claimed after it.             *)
Dispatch(name, value, next, nextLetter) ==
  \/ name = "help" /\ Return("EXIT_OK")
  \/ name = "version" /\ Return("EXIT_OK")
  \/ name = "dry-run" /\ Return("UNREACHABLE")
  \/ name \notin NoArgument /\ ~Accepts(name, value) /\ Return("EXIT_FAIL")
  \/ /\ name \notin NoArgument
     /\ Accepts(name, value)
     /\ config' = Applied(config, name, value)
     /\ threads' = IF name = "threads" THEN Numbers[value] ELSE threads
     /\ applied' = Append(applied, <<name, value>>)
     /\ optind' = next
     /\ letter' = nextLetter
     /\ UNCHANGED <<argv, cores, words, action, paths>>

(* A required value that is not attached is the next argument, whatever it *)
(* looks like; without one getopt returns ':'.                             *)
WithValue(name, attached) ==
  IF name \in RequiredArgument /\ attached = NoValue
    THEN IF optind < Len(argv) THEN Dispatch(name, argv[optind + 1].text, optind + 2, 1)
                               ELSE Return("EXIT_FAIL")
    ELSE Dispatch(name, attached, optind + 1, 1)

(* A name that is not spelled out is refused, by getopt as unknown or      *)
(* ambiguous or by ak_cli_parse as an abbreviation; so is a value that the *)
(* option does not take.                                                   *)
LongOption ==
  /\ AtArgument("long")
  /\ LET o == argv[optind]
     IN IF o.name \notin OptionNames \/ (o.name \in NoArgument /\ o.value # NoValue)
          THEN Return("EXIT_FAIL")
          ELSE WithValue(o.name, o.value)

(* An option of a cluster.  -v takes no value in this form, although       *)
(* --verbose may have one.                                                 *)
ShortOption ==
  /\ AtArgument("short")
  /\ LET o == argv[optind]
         last == letter = Len(o.letters)
         name == Shorts[o.letters[letter]]
     IN IF o.letters[letter] \notin DOMAIN Shorts THEN Return("EXIT_FAIL")
        ELSE IF last THEN WithValue(name, o.value)
        ELSE Dispatch(name, NoValue, optind, letter + 1)

(* getopt passes over words and moves them behind the options.             *)
PassWord ==
  /\ AtArgument("word")
  /\ words' = Append(words, argv[optind].text)
  /\ optind' = optind + 1
  /\ UNCHANGED <<argv, cores, letter, config, threads, action, paths, applied>>

-----------------------------------------------------------------------------
(***************************************************************************)
(* After the loop                                                          *)
(***************************************************************************)

Smaller(a, b) == IF a < b THEN a ELSE b
get_available_threads == IF cores < 1 THEN 1 ELSE cores

(* Mutant: the cast to u8 without the cap.                                 *)
resolve_threads_mod_256 ==
  LET count == IF threads = NoThreads THEN get_available_threads
                                      ELSE Smaller(threads, get_available_threads)
  IN (IF count = 0 THEN get_available_threads ELSE count) % (UINT8_MAX + 1)

(* Capped to the cores, 0 stands for all of them, and the field has 8 bits. *)
resolve_threads ==
  LET count == IF threads = NoThreads THEN get_available_threads
                                      ELSE Smaller(threads, get_available_threads)
  IN Smaller(IF count = 0 THEN get_available_threads ELSE count, UINT8_MAX)

OptionsEnd ==
  /\ action = "parsing"
  /\ optind > Len(argv) \/ AtArgument("end")
  /\ LET rest == SubSeq(argv, optind + 1, Len(argv))
         positional == words \o [k \in 1 .. Len(rest) |-> rest[k].text]
     IN /\ paths' = positional
        /\ config' = [config EXCEPT !.thread_count = resolve_threads,
                                    !.runtime = IF positional = <<>> THEN @ \cup {"curr-dir"} ELSE @]
  /\ action' = "RUN"
  /\ UNCHANGED <<argv, cores, optind, letter, words, threads, applied>>

Parse == LongOption \/ ShortOption \/ PassWord \/ OptionsEnd

CliSpec == CliInit /\ [][Parse]_cliVars

-----------------------------------------------------------------------------
(***************************************************************************)
(* Properties                                                              *)
(***************************************************************************)

(* A configuration that parsing accepts is one the rest of the program     *)
(* asserts: at least one segment to divide the duration by and to fill,    *)
(* no more of them than a slice holds, a thread to run (main.c:183), and   *)
(* either paths or the current directory to scan.                          *)
AcceptedConfigIsSound ==
  action = "RUN" =>
    /\ config.segments \in 1 .. AK_MAX_VIDEO_SEGMENTS
    /\ config.threshold \in 0 .. AK_HAMMING_MAX
    /\ config.thread_count \in 1 .. Smaller(get_available_threads, UINT8_MAX)
    /\ config.verbosity \in 0 .. AK_MAX_VERBOSITY
    /\ (paths = <<>>) <=> ("curr-dir" \in config.runtime)

(* The value of the last use of an option, default without one.            *)
LastValue(name, default) ==
  LET uses == {k \in DOMAIN applied : applied[k][1] = name}
  IN IF uses = {} THEN default ELSE applied[CHOOSE k \in uses : \A j \in uses : j <= k][2]

LastNumber(name, default) ==
  LET value == LastValue(name, NoValue) IN IF value = NoValue THEN default ELSE Numbers[value]

(* The last use of an option decides, whatever stands between the uses and *)
(* in which spelling; -v adds up from the last explicit level.             *)
LastOptionWins ==
  /\ config.segments = LastNumber("segments", 3)
  /\ config.threshold = LastNumber("threshold", 8)
  /\ config.skip_duration = LastNumber("skip-duration", 3)
  /\ threads = LastNumber("threads", NoThreads)
  /\ ("json" \in config.report) <=> (LastValue("format", "text") = "json")
  /\ \A name \in SwitchNames :
       (name \in config[FieldOf(name)]) <=>
         (LastValue(name, IF name = "print-hashes" THEN "no" ELSE "yes") \notin FalseWords)
  /\ LET levels == {k \in DOMAIN applied : applied[k][1] = "verbose" /\ applied[k][2] # NoValue}
         from == IF levels = {} THEN 0 ELSE CHOOSE k \in levels : \A j \in levels : j <= k
         bare == Cardinality({k \in DOMAIN applied : applied[k] = <<"verbose", NoValue>> /\ k > from})
         level == IF from = 0 THEN 0 ELSE Numbers[applied[from][2]]
     IN config.verbosity = Smaller(AK_MAX_VERBOSITY, level + bare)
=============================================================================
