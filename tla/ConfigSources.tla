---------------------------- MODULE ConfigSources ----------------------------
(***************************************************************************)
(* How "wh" finds its configuration: bootstrap.Run parses the command line *)
(* for --config and --nodefaults alone, loads the TOML files, and hands    *)
(* them to the flags of the real command line, whose sources are tried in  *)
(* order.  The module follows one option of the real command line (the     *)
(* endpoint, say) from the process's inputs to the source of its value.    *)
(*                                                                         *)
(* The bootstrap command knows two flags.  At the first flag that it does  *)
(* not know the parser of urfave/cli returns an error, and the command     *)
(* returns through OnUsageError, before it would have looked at the        *)
(* environment (PostParse).                                                *)
(***************************************************************************)
EXTENDS Integers, SequencesExt

CONSTANTS
    Files,     \* user configuration files
    System,    \* /etc/wormhole/cli.toml
    NoFile,    \* an argument that names no file
    MaxArgs    \* bound: arguments on the command line

ASSUME FilesAssumption == System \notin Files /\ NoFile \notin Files /\ MaxArgs \in Nat

(* "option" is the flag followed here, "flag" any other flag with its      *)
(* value; the first "word" is "open", the second the application.          *)
Arguments ==
    [kind : {"config"}, file : Files]
    \cup [kind : {"nodefaults", "option", "flag", "word", "--"}, file : {NoFile}]

VARIABLES
    cmdArgs,      \* the command line
    environ,      \* WORMHOLE_CONFIG and WORMHOLE_NODEFAULTS
    setters,      \* the files that have the option's key
    stage,        \* where main is
    next,         \* the argument, or the configuration, to take next
    configs,      \* --config, as the bootstrap command sees it
    noDefaults,   \* --nodefaults, likewise
    mapSrcs,      \* the files loaded
    value         \* where the option's value comes from

inputs == <<cmdArgs, environ, setters>>
vars == <<inputs, stage, next, configs, noDefaults, mapSrcs, value>>

Init ==
    /\ cmdArgs \in SeqOf(Arguments, MaxArgs)
    /\ environ \in [config : {<< >>} \cup {<<f>> : f \in Files}, nodefaults : BOOLEAN]
    /\ setters \in SUBSET (Files \cup {System})
    /\ stage = "parse" /\ next = 1
    /\ configs = << >> /\ noDefaults = FALSE
    /\ mapSrcs = << >> /\ value = "none"

-----------------------------------------------------------------------------
(* bootstrap.Run, the flags. *)

Parsing(kinds) == stage = "parse" /\ next <= Len(cmdArgs) /\ cmdArgs[next].kind \in kinds

ParseConfig ==
    /\ Parsing({"config"})
    /\ configs' = Append(configs, cmdArgs[next].file)
    /\ next' = next + 1
    /\ UNCHANGED <<inputs, stage, noDefaults, mapSrcs, value>>

ParseNoDefaults ==
    /\ Parsing({"nodefaults"})
    /\ noDefaults' = TRUE
    /\ next' = next + 1
    /\ UNCHANGED <<inputs, stage, configs, mapSrcs, value>>

ParseWord ==
    /\ Parsing({"word"})
    /\ next' = next + 1
    /\ UNCHANGED <<inputs, stage, configs, noDefaults, mapSrcs, value>>

(* A flag of the real command line: OnUsageError ends the first pass. *)
ParseUnknown ==
    /\ Parsing({"option", "flag"})
    /\ stage' = "system" /\ next' = 1
    /\ UNCHANGED <<inputs, configs, noDefaults, mapSrcs, value>>

(* PostParse: a flag that was not given is taken from the environment. *)
PostParse ==
    /\ \/ stage = "parse" /\ next > Len(cmdArgs)
       \/ Parsing({"--"})
    /\ configs' = IF configs = << >> THEN environ.config ELSE configs
    /\ noDefaults' = (noDefaults \/ environ.nodefaults)
    /\ stage' = "system" /\ next' = 1
    /\ UNCHANGED <<inputs, mapSrcs, value>>

-----------------------------------------------------------------------------
(* bootstrap.Run, the files. *)

(* --nodefaults, or there is no system file. *)
SkipSystem ==
    /\ stage = "system"
    /\ stage' = "user"
    /\ UNCHANGED <<inputs, next, configs, noDefaults, mapSrcs, value>>

LoadSystem ==
    /\ stage = "system" /\ ~noDefaults
    /\ stage' = "user"
    /\ mapSrcs' = Append(mapSrcs, System)
    /\ UNCHANGED <<inputs, next, configs, noDefaults, value>>

LoadUser ==
    /\ stage = "user" /\ next <= Len(configs)
    /\ mapSrcs' = Append(mapSrcs, configs[next])
    /\ next' = next + 1
    /\ UNCHANGED <<inputs, stage, configs, noDefaults, value>>

(* A file that cannot be read or parsed: main ends with log.Fatalln. *)
LoadFails ==
    /\ \/ stage = "system" /\ ~noDefaults
       \/ stage = "user" /\ next <= Len(configs)
    /\ stage' = "failed"
    /\ UNCHANGED <<inputs, next, configs, noDefaults, mapSrcs, value>>

(* Mutant: the files keep the order they were loaded in. *)
SourceOrderMutant == mapSrcs

(* slices.Reverse(mapSrcs). *)
SourceOrder == Reverse(mapSrcs)

Loaded ==
    /\ stage = "user" /\ next > Len(configs)
    /\ stage' = "resolve"
    /\ mapSrcs' = SourceOrder
    /\ UNCHANGED <<inputs, next, configs, noDefaults, value>>

-----------------------------------------------------------------------------
(* The real command line: flagSources' chain, tried in order. *)

(* The arguments of wh itself: those in front of "--" and of the           *)
(* application, at which "open" stops to parse (StopOnNthArg).             *)
Own(i) ==
    /\ \A k \in 1 .. i : cmdArgs[k].kind # "--"
    /\ Cardinality({k \in 1 .. i : cmdArgs[k].kind = "word"}) <= 1

OptionGiven == \E i \in 1 .. Len(cmdArgs) : Own(i) /\ cmdArgs[i].kind = "option"

(* The first file of the chain that sets the option. *)
ChainLookup ==
    LET Has(src) == src \in setters
        i == SelectInSeq(mapSrcs, Has)
    IN  IF i = 0 THEN "default" ELSE mapSrcs[i]

Resolve(inEnv) ==
    /\ stage = "resolve"
    /\ value' = IF OptionGiven THEN "cli" ELSE IF inEnv THEN "env" ELSE ChainLookup
    /\ stage' = "done"
    /\ UNCHANGED <<inputs, next, configs, noDefaults, mapSrcs>>

(* A value that the flag's validator refuses, or a required option that    *)
(* no source sets: the command ends before its handler runs, and the chain *)
(* is not searched further.                                                *)
OptionRefused ==
    /\ stage = "resolve"
    /\ stage' = "failed"
    /\ UNCHANGED <<inputs, next, configs, noDefaults, mapSrcs, value>>

Ended == stage \in {"done", "failed"} /\ UNCHANGED vars

Next ==
    \/ ParseConfig \/ ParseNoDefaults \/ ParseWord \/ ParseUnknown \/ PostParse
    \/ SkipSystem \/ LoadSystem \/ LoadUser \/ LoadFails \/ Loaded
    \/ \E inEnv \in BOOLEAN : Resolve(inEnv)
    \/ OptionRefused \/ Ended

Spec == Init /\ [][Next]_vars

-----------------------------------------------------------------------------
(* Among the files, the one whose value is used is the last one listed     *)
(* that sets the option; the system file yields to every user file, and    *)
(* the default to both (README, "Precedence").                             *)
Precedence ==
    stage = "done" /\ value \notin {"cli", "env"} =>
        LET Users == {k \in 1 .. Len(configs) : configs[k] \in setters}
        IN  IF Users # {} THEN value = configs[Max(Users)]
            ELSE value = IF System \in setters \cap ToSet(mapSrcs) THEN System ELSE "default"

(* The --config arguments of the command line, in order. *)
ConfigArgs ==
    LET IsConfig(i) == Own(i) /\ cmdArgs[i].kind = "config"
        Indices == SelectSeq([i \in 1 .. Len(cmdArgs) |-> i], IsConfig)
    IN  [k \in 1 .. Len(Indices) |-> cmdArgs[Indices[k]].file]

(* The first pass parses --config and --nodefaults and ignores all other   *)
(* arguments (the comment of bootstrap.Run): the configurations it loads   *)
(* are those of the command line, or of the environment if it has none.    *)
ConfigHonoured ==
    stage = "done" =>
        configs = (IF ConfigArgs = << >> THEN environ.config ELSE ConfigArgs)
=============================================================================
