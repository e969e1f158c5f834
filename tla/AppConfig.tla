------------------------------ MODULE AppConfig ------------------------------
(***************************************************************************)
(* Start-up of the test application (main, src/unnamed/part_003): the     *)
(* command line is parsed by ProgramOptions::parse (src/utils/options.cpp) *)
(* against the options and validators of create_otpu_options, turned into  *)
(* a pcie_sim_test_config by to_config (pcie_sim_config_init, set_pattern, *)
(* set_custom_pattern, set_error_scenario of src/utils/config.c), and      *)
(* checked by pcie_sim_config_validate before any device is opened.        *)
(*                                                                         *)
(* An argument is a record: dash = 2 for "--name", 1 for "-alias", 0 for a *)
(* word not starting with '-'; text is the rest.  std::stoi reads the     *)
(* decimal numbers of Numbers and throws on any other text, and nothing in *)
(* the program catches it: the process ends in std::terminate, "crashed".  *)
(***************************************************************************)
EXTENDS Integers, Sequences, TLC

CONSTANTS
  Args,      \* the command lines explored (a set of sequences of arguments)
  Numbers    \* the integers whose decimal text the command lines contain

Long(n)  == [dash |-> 2, text |-> n]
Short(a) == [dash |-> 1, text |-> a]
Word(w)  == [dash |-> 0, text |-> w]

\* create_otpu_options: the options with a non-empty default, which
\* add_option stores in values_ before parsing.
Defaults ==
  [o \in {"num-devices", "pattern", "size", "rate", "verbose",
          "error-scenario", "threads", "duration"} |->
     CASE o = "num-devices" -> "1" [] o = "pattern" -> "mixed"
       [] o = "size" -> "4096" [] o = "rate" -> "1000"
       [] o = "verbose" -> "false" [] o = "error-scenario" -> "none"
       [] o = "threads" -> "1" [] o = "duration" -> "10"]

Options == DOMAIN Defaults \cup {"log-csv"}

Aliases ==
  [a \in {"d", "p", "s", "r", "l", "v", "e", "t", "dur"} |->
     CASE a = "d" -> "num-devices" [] a = "p" -> "pattern" [] a = "s" -> "size"
       [] a = "r" -> "rate" [] a = "l" -> "log-csv" [] a = "v" -> "verbose"
       [] a = "e" -> "error-scenario" [] a = "t" -> "threads"
       [] a = "dur" -> "duration"]

\* The validators: integer ranges (read with std::stoi) and word lists.
Bounds ==
  [o \in {"num-devices", "size", "rate", "threads", "duration"} |->
     CASE o = "num-devices" -> 1 .. 8 [] o = "size" -> 64 .. 4194304
       [] o = "rate" -> 1 .. 10000 [] o = "threads" -> 1 .. 64
       [] o = "duration" -> 1 .. 3600]

WordChoices ==
  [o \in {"pattern", "error-scenario"} |->
     IF o = "pattern" THEN {"small-fast", "large-burst", "mixed", "custom"}
     ELSE {"timeout", "corruption", "overrun", "none"}]

Validated == DOMAIN Bounds \cup DOMAIN WordChoices

\* std::stoi: the number a decimal text denotes; it throws on other text.
StoiThrows(v) == \A n \in Numbers : ToString(n) # v

Stoi(v) == CHOOSE n \in Numbers : ToString(n) = v

\* Mutant of Valid: the num-devices validator admits 9 devices.
ValidNineDevices(o, v) ==
  IF o = "num-devices" THEN ~StoiThrows(v) /\ Stoi(v) \in 1 .. 9
  ELSE IF o \in DOMAIN Bounds THEN ~StoiThrows(v) /\ Stoi(v) \in Bounds[o]
  ELSE v \in WordChoices[o]

\* Mutant of Valid: the size validator starts at 63 bytes.
ValidSizeFrom63(o, v) ==
  IF o = "size" THEN ~StoiThrows(v) /\ Stoi(v) \in 63 .. 4194304
  ELSE IF o \in DOMAIN Bounds THEN ~StoiThrows(v) /\ Stoi(v) \in Bounds[o]
  ELSE v \in WordChoices[o]

Valid(o, v) ==
  IF o \in DOMAIN Bounds THEN ~StoiThrows(v) /\ Stoi(v) \in Bounds[o]
  ELSE v \in WordChoices[o]

\* The transfer presets of config.c and pcie_sim_config_init's defaults;
\* probability is kept in thousandths.
Preset ==
  [p \in {"SMALL_FAST", "LARGE_BURST", "MIXED"} |->
     CASE p = "SMALL_FAST" -> [pattern |-> p, min_size |-> 64,
                               max_size |-> 1024, rate_hz |-> 10000]
       [] p = "LARGE_BURST" -> [pattern |-> p, min_size |-> 1048576,
                                max_size |-> 4194304, rate_hz |-> 100]
       [] p = "MIXED" -> [pattern |-> p, min_size |-> 1024,
                          max_size |-> 65536, rate_hz |-> 1000]]

ConfigInit ==
  [num_devices |-> 1, transfer |-> Preset["MIXED"], scenario |-> "NONE",
   probability |-> 0, load |-> "NORMAL", num_threads |-> 1,
   duration |-> 10, flags |-> {}]

ParsePattern(s) ==
  CASE s = "small-fast" -> "SMALL_FAST" [] s = "large-burst" -> "LARGE_BURST"
    [] s = "custom" -> "CUSTOM" [] OTHER -> "MIXED"

ParseErrorScenario(s) ==
  CASE s = "timeout" -> "TIMEOUT" [] s = "corruption" -> "CORRUPTION"
    [] s = "overrun" -> "OVERRUN" [] OTHER -> "NONE"

\* pcie_sim_config_set_pattern (its return value is ignored by to_config).
SetPattern(c, p) ==
  IF p = "CUSTOM" THEN [c EXCEPT !.transfer.pattern = "CUSTOM"]
  ELSE [c EXCEPT !.transfer = Preset[p]]

\* pcie_sim_config_set_custom_pattern: out-of-range values leave c as is.
SetCustomPattern(c, size, rate) ==
  IF size < 64 \/ size > 4194304 \/ rate < 1 \/ rate > 10000 THEN c
  ELSE [c EXCEPT !.transfer = [pattern |-> "CUSTOM", min_size |-> size,
                               max_size |-> size, rate_hz |-> rate]]

\* pcie_sim_config_set_error_scenario, for the four named scenarios.
SetErrorScenario(c, s) ==
  [c EXCEPT !.scenario = s,
            !.probability = CASE s = "TIMEOUT" -> 10 [] s = "CORRUPTION" -> 5
                              [] s = "OVERRUN" -> 20 [] OTHER -> 0,
            !.flags = IF s = "NONE" THEN @ \ {"ENABLE_ERRORS"}
                      ELSE @ \cup {"ENABLE_ERRORS"}]

\* pcie_sim_config_validate.
ConfigValid(c) ==
  /\ c.num_devices \in 1 .. 8
  /\ c.transfer.min_size >= 64 /\ c.transfer.max_size <= 4194304
  /\ c.transfer.min_size <= c.transfer.max_size
  /\ c.transfer.rate_hz \in 1 .. 10000
  /\ c.probability \in 0 .. 1000
  /\ c.num_threads <= 64 /\ c.duration <= 3600

VARIABLES
  argv,     \* the command line
  i,        \* parse's index into argv
  values,   \* values_: option name -> the value stored for it
  config,   \* g_config
  pc        \* "parse" | "to_config" | "validate" | "running" | "help"
            \* | "rejected" | "invalid" | "crashed"

vars == <<argv, i, values, config, pc>>

Init ==
  /\ argv \in Args
  /\ i = 1
  /\ values = Defaults
  /\ config = ConfigInit
  /\ pc = "parse"

Arg == argv[i]

\* The option an argument names: "--name" directly, "-alias" through
\* aliases_.
Known(a) ==
  \/ a.dash = 2 /\ a.text \in Options
  \/ a.dash = 1 /\ a.text \in DOMAIN Aliases

OptionOf(a) == IF a.dash = 2 THEN a.text ELSE Aliases[a.text]

\* The next argument exists and does not start with '-', so it is taken
\* as this option's value.
HasValue == i + 1 <= Len(argv) /\ argv[i + 1].dash = 0

\* "--help" or "-h": print_help and parse returns false.
ParseHelp ==
  /\ pc = "parse" /\ i <= Len(argv)
  /\ Arg \in {Long("help"), Short("h")}
  /\ pc' = "help"
  /\ UNCHANGED <<argv, i, values, config>>

\* An unknown "--name" or "-alias", or a word where an option was
\* expected: parse returns false.
ParseUnknown ==
  /\ pc = "parse" /\ i <= Len(argv)
  /\ Arg \notin {Long("help"), Short("h")}
  /\ ~Known(Arg)
  /\ pc' = "rejected"
  /\ UNCHANGED <<argv, i, values, config>>

\* The option takes the next argument as its value, which its validator
\* (if it has one) accepts.
ParseValue ==
  LET o == OptionOf(Arg)
      v == argv[i + 1].text
  IN
  /\ pc = "parse" /\ i <= Len(argv)
  /\ Arg \notin {Long("help"), Short("h")}
  /\ Known(Arg) /\ HasValue
  /\ o \in Validated => Valid(o, v)
  /\ values' = (o :> v) @@ values
  /\ i' = i + 2
  /\ UNCHANGED <<argv, config, pc>>

\* The validator refuses the value (parse returns false), or its std::stoi
\* throws on a non-number.
ParseBadValue ==
  LET o == OptionOf(Arg)
      v == argv[i + 1].text
  IN
  /\ pc = "parse" /\ i <= Len(argv)
  /\ Arg \notin {Long("help"), Short("h")}
  /\ Known(Arg) /\ HasValue
  /\ o \in Validated /\ ~Valid(o, v)
  /\ pc' = IF o \in DOMAIN Bounds /\ StoiThrows(v) THEN "crashed"
           ELSE "rejected"
  /\ UNCHANGED <<argv, i, values, config>>

\* No value follows: the option is stored as the string "true", without
\* running its validator.
ParseFlag ==
  /\ pc = "parse" /\ i <= Len(argv)
  /\ Arg \notin {Long("help"), Short("h")}
  /\ Known(Arg) /\ ~HasValue
  /\ values' = (OptionOf(Arg) :> "true") @@ values
  /\ i' = i + 1
  /\ UNCHANGED <<argv, config, pc>>

\* The loop ends; no option is required, so parse returns true.
ParseEnd ==
  /\ pc = "parse" /\ i > Len(argv)
  /\ pc' = "to_config"
  /\ UNCHANGED <<argv, i, values, config>>

\* ProgramOptions::get<int> reads each numeric option with std::stoi, so a
\* numeric option left as "true" by ParseFlag throws -- if to_config
\* reaches the read (size and rate only for the custom pattern, duration
\* only with more than one thread).
Throws ==
  \/ StoiThrows(values["num-devices"])
  \/ /\ ParsePattern(values["pattern"]) = "CUSTOM"
     /\ StoiThrows(values["size"]) \/ StoiThrows(values["rate"])
  \/ StoiThrows(values["threads"])
  \/ /\ ~StoiThrows(values["threads"]) /\ Stoi(values["threads"]) > 1
     /\ StoiThrows(values["duration"])

\* The configuration to_config builds when no read throws.  has_option
\* tests only for a key in values_, and "verbose" always has one (its
\* default "false"); no "" argument is explored, so a log-csv entry names
\* a file.
Converted ==
  LET p  == ParsePattern(values["pattern"])
      n  == Stoi(values["threads"])
      c1 == [ConfigInit EXCEPT !.num_devices = Stoi(values["num-devices"])]
      c2 == IF p = "CUSTOM"
            THEN SetCustomPattern(c1, Stoi(values["size"]),
                                  Stoi(values["rate"]))
            ELSE SetPattern(c1, p)
      c3 == SetErrorScenario(c2,
                             ParseErrorScenario(values["error-scenario"]))
      c4 == IF n > 1
            THEN [c3 EXCEPT !.load = "STRESS", !.num_threads = n,
                            !.duration = Stoi(values["duration"]),
                            !.flags = @ \cup {"ENABLE_STRESS"}]
            ELSE c3
      logs == IF "log-csv" \in DOMAIN values THEN {"ENABLE_LOGGING"} ELSE {}
      verb == IF "verbose" \in DOMAIN values THEN {"VERBOSE"} ELSE {}
  IN [c4 EXCEPT !.flags = @ \cup logs \cup verb]

\* to_config: g_config = options->to_config().
ToConfig ==
  /\ pc = "to_config" /\ ~Throws
  /\ config' = Converted
  /\ pc' = "validate"
  /\ UNCHANGED <<argv, i, values>>

\* to_config throws std::invalid_argument out of main.
ToConfigThrows ==
  /\ pc = "to_config" /\ Throws
  /\ pc' = "crashed"
  /\ UNCHANGED <<argv, i, values, config>>

\* main: pcie_sim_config_validate(g_config) != 0 ends the program with
\* "Invalid configuration"; otherwise the tests start.
Validate ==
  /\ pc = "validate"
  /\ pc' = IF ConfigValid(config) THEN "running" ELSE "invalid"
  /\ UNCHANGED <<argv, i, values, config>>

Next ==
  \/ ParseHelp \/ ParseUnknown \/ ParseValue \/ ParseBadValue \/ ParseFlag
  \/ ParseEnd \/ ToConfig \/ ToConfigThrows \/ Validate

Spec == Init /\ [][Next]_vars

-----------------------------------------------------------------------------
(* Properties *)

\* Every command line that parse accepts and to_config converts gives a
\* configuration pcie_sim_config_validate accepts: the option validators
\* of create_otpu_options are no looser than config validation, so main
\* never stops with "Invalid configuration".
AcceptedConfigValid == pc # "invalid"

\* The tests run with what the command line asked for: the device count,
\* the pattern (for "custom", the size and rate given), and the error
\* scenario -- to_config ignores the return value of every config setter,
\* so a setter that refused its input would silently leave the defaults.
OptionsHonoured ==
  pc = "running" =>
    /\ config.num_devices = Stoi(values["num-devices"])
    /\ config.transfer.pattern = ParsePattern(values["pattern"])
    /\ config.transfer.pattern = "CUSTOM" =>
         /\ config.transfer.min_size = Stoi(values["size"])
         /\ config.transfer.max_size = Stoi(values["size"])
         /\ config.transfer.rate_hz = Stoi(values["rate"])
    /\ config.scenario = ParseErrorScenario(values["error-scenario"])
=============================================================================
