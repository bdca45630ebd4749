--------------------------- MODULE ManagerStartup ---------------------------
(***************************************************************************)
(* From the command line to a running manager or agent: RunE of            *)
(* NewManagerCommand and NewAgentCommand (cmd/.../app/server.go), the      *)
(* configuration they put together from defaults, command line and file,   *)
(* NewManagerServer and NewAgentServer (pkg/server).                       *)
(*                                                                         *)
(* An option's value is known by where it comes from: "default", "file",   *)
(* "flag", or "zero" for the zero value, which a file or a flag may also   *)
(* give; Absent means the source does not mention the option.  "noport" is *)
(* a bind address that ends in a colon; "garbage" a pod template that does *)
(* not parse, "bare" one that parses and has no container.                 *)
(***************************************************************************)
EXTENDS Naturals, Sequences

CONSTANTS
  LogOptions,        \* the options of log.Options ...
  ManagerOptions,    \* ... and of ManagerOptions
  Flagged,           \* those that have a command line flag
  Sampling,          \* those of zap's sampling block
  LogRequired,       \* those log.Options.Validate asks for
  ManagerRequired,   \* those ManagerOptions.Validate asks for
  PodTemplate,       \* the option with the pod template
  BindAddress,       \* the option with the webhook's address
  Absent             \* not mentioned

Options == LogOptions \union ManagerOptions

BadTemplates == {"zero", "bare", "garbage"}

Values == {"zero", "default", "file", "flag", "noport", "bare", "garbage"}

ASSUME OptionsAssumption ==
  /\ LogOptions \intersect ManagerOptions = {}
  /\ Flagged \subseteq Options /\ PodTemplate \notin Flagged
  /\ Sampling \subseteq LogOptions /\ LogRequired \subseteq LogOptions
  /\ ManagerRequired \subseteq ManagerOptions
  /\ {PodTemplate, BindAddress} \subseteq ManagerOptions
  /\ Absent \notin Values

VARIABLES
  command,     \* which of the two programs runs
  pc,          \* the step RunE is at, or how it ended
  flags,       \* the options on the command line
  help,        \* the -h/--help flag: "true", "false", or Absent
  file,        \* the options in the configuration file
  nulls,       \* the blocks the file sets to null
  cfg,         \* the Configuration
  port,        \* the port of the webhook server, 0 before it has one
  set          \* how many parts NewManagerServer has set up

vars == <<command, pc, flags, help, file, nulls, cfg, port, set>>

inputs == <<command, flags, help, file, nulls>>

\* Where a run ends: with an error, a panic, a text (help or version), the
\* manager running, or the agent done.
Ends == {"failed", "panic", "printed", "running", "done"}

\* The options of the command: the agent has only those of the log.
Known == IF command = "agent" THEN LogOptions ELSE Options

\* A source mentions an option that the command does not have.
Strange(source) == \E o \in DOMAIN source \ Known : source[o] # Absent

-----------------------------------------------------------------------------
\* Mutant: what a source does not mention is overwritten as well.
OverAll(c, source) ==
  [o \in DOMAIN c |-> IF o \in DOMAIN source THEN source[o] ELSE c[o]]

\* A source's values laid over a configuration.
Over(c, source) ==
  [o \in DOMAIN c |->
     IF o \in DOMAIN source /\ source[o] # Absent THEN source[o] ELSE c[o]]

Fail == pc' = "failed" /\ UNCHANGED <<inputs, cfg, port, set>>

\* NewConfiguration and SetDefaults, for any command line and any file.
Init ==
  /\ pc = "parse" /\ command \in {"manager", "agent"}
  /\ flags \in [Flagged -> {Absent, "zero", "flag"}]
  /\ help \in {Absent, "true", "false"}
  /\ file \in [Options -> {Absent, "zero", "file", "noport", "bare", "garbage"}]
  /\ \A o \in Options : /\ file[o] = "noport" => o = BindAddress
                        /\ file[o] \in {"bare", "garbage"} => o = PodTemplate
  /\ nulls \in SUBSET {"log", "manager", "sampling"}
  /\ "sampling" \in nulls => \A o \in Sampling : file[o] = "zero"
  /\ cfg = [o \in Known |-> "default"]
  /\ port = 0 /\ set = 0

\* Parse stores what the command line says in the configuration, or meets a
\* flag or an argument it does not know.
Parse ==
  /\ pc = "parse"
  /\ \/ Fail
     \/ /\ ~Strange(flags)
        /\ cfg' = Over(cfg, flags) /\ pc' = "help"
        /\ UNCHANGED <<inputs, port, set>>

\* Help or version is printed, and nothing else done.
HelpOrVersion ==
  /\ pc = "help"
  /\ \/ pc' = "printed"
     \/ help # "true" /\ pc' = "config"
  /\ UNCHANGED <<inputs, cfg, port, set>>

\* A configuration file is named and exists, or not.
ValidateFlags ==
  /\ pc = "config"
  /\ \/ Fail
     \/ pc' = "load" /\ UNCHANGED <<inputs, cfg, port, set>>

\* The file is laid over the configuration, flags included, or it cannot be
\* read or parsed; the parser is strict.
LoadConfigFile ==
  /\ pc = "load"
  /\ \/ Fail
     \/ /\ ~Strange(file) /\ (command = "agent" => "manager" \notin nulls)
        /\ cfg' = Over(cfg, file) /\ pc' = "precedence"
        /\ UNCHANGED <<inputs, port, set>>

\* Mutant: the command line is not applied again.
FlagPrecedenceSkipped ==
  /\ pc = "precedence"
  /\ pc' = "validate" /\ UNCHANGED <<inputs, cfg, port, set>>

\* The command line is parsed again, into flags made for the loaded
\* configuration: of a block that is null AddFlags cannot take the addresses,
\* without a sampling block its flags are unknown, and the help flag of the
\* first parse is unknown in every case.
FlagPrecedence ==
  /\ pc = "precedence"
  /\ IF nulls \intersect {"log", "manager"} # {}
       THEN pc' = "panic" /\ UNCHANGED <<inputs, cfg, port, set>>
       ELSE IF \/ help # Absent
               \/ /\ "sampling" \in nulls
                  /\ \E o \in Sampling \intersect Flagged : flags[o] # Absent
         THEN Fail
         ELSE /\ cfg' = Over(cfg, flags) /\ pc' = "validate"
              /\ UNCHANGED <<inputs, port, set>>

LogErrors(c) == {o \in LogRequired : c[o] = "zero"}

\* Mutant: the template's containers are not counted.
ManagerErrorsParse(c) == {e \in {"parse"} : c[PodTemplate] = "garbage"}

\* The error of the template's parse, or that it has no container, replaces
\* the errors found before it; an empty template parses.
ManagerErrors(c) ==
  CASE c[PodTemplate] = "garbage" -> {"parse"}
    [] c[PodTemplate] \in {"zero", "bare"} -> {"container"}
    [] OTHER -> {}

\* The errors of the command's configuration.
Errors(c) ==
  LogErrors(c) \union IF command = "agent" THEN {} ELSE ManagerErrors(c)

Validate ==
  /\ pc = "validate"
  /\ IF Errors(cfg) # {}
       THEN Fail
       ELSE pc' = "logger" /\ UNCHANGED <<inputs, cfg, port, set>>

NewLogger ==
  /\ pc = "logger"
  /\ \/ Fail
     \/ pc' = "address" /\ UNCHANGED <<inputs, cfg, port, set>>

-----------------------------------------------------------------------------
(***************************************************************************)
(* NewManagerServer                                                        *)
(***************************************************************************)

DefaultPort == 9443

\* The address is split and the port chosen: only an empty port is converted
\* to a number, which fails.
WebhookAddress ==
  /\ pc = "address" /\ command = "manager"
  /\ IF cfg[BindAddress] \in {"zero", "noport"}
       THEN Fail
       ELSE /\ port' = DefaultPort /\ pc' = "setup"
            /\ UNCHANGED <<inputs, cfg, set>>

\* What is set up, in this order: the manager for the cluster's configuration,
\* the field indexes, the two reconcilers, the webhook, the two checks.
Parts ==
  <<"config", "manager", "indexes", "service", "frpserver", "webhook",
    "healthz", "readyz">>

Setup ==
  /\ pc = "setup" /\ set < Len(Parts)
  /\ \/ Fail
     \/ set' = set + 1 /\ UNCHANGED <<pc, inputs, cfg, port>>

Start ==
  /\ pc = "setup" /\ set = Len(Parts)
  /\ pc' = "running" /\ UNCHANGED <<inputs, cfg, port, set>>

-----------------------------------------------------------------------------
(***************************************************************************)
(* NewAgentServer                                                          *)
(***************************************************************************)

\* The agent's server logs that it starts, and returns.
StartAgent ==
  /\ pc = "address" /\ command = "agent"
  /\ pc' = "done" /\ UNCHANGED <<inputs, cfg, port, set>>

-----------------------------------------------------------------------------
\* The manager runs until it is stopped or fails; the other ends are final.
Finished == pc \in Ends /\ UNCHANGED vars

Next ==
  \/ Parse \/ HelpOrVersion \/ ValidateFlags \/ LoadConfigFile \/ FlagPrecedence
  \/ Validate \/ NewLogger \/ WebhookAddress \/ Setup \/ Start \/ StartAgent
  \/ Finished

Spec == Init /\ [][Next]_vars

-----------------------------------------------------------------------------
(***************************************************************************)
(* Properties                                                              *)
(***************************************************************************)

\* Types.  Parts are set up only once the webhook server has a port.
TypeOK ==
  /\ pc \in Ends \union {"parse", "help", "config", "load", "precedence",
                         "validate", "logger", "address", "setup"}
  /\ flags \in [Flagged -> Values \union {Absent}]
  /\ file \in [Options -> Values \union {Absent}]
  /\ nulls \subseteq {"log", "manager", "sampling"} /\ help \in {Absent, "true", "false"}
  /\ command \in {"manager", "agent"} /\ cfg \in [Known -> Values]
  /\ port \in Nat
  /\ set \in 0..Len(Parts) /\ (set > 0 => port # 0)

\* The value an option should have: that of its flag, else that of the file,
\* else its default.
Effective(o) ==
  IF o \in Flagged /\ flags[o] # Absent THEN flags[o]
  ELSE IF file[o] # Absent THEN file[o] ELSE "default"

\* From its validation on, an option has the value of its flag, else that of
\* the file, else its default, although the command line is applied before
\* the file and again after it.
FlagWins ==
  pc \in {"validate", "logger", "address", "setup", "running", "done"} =>
    \A o \in Known : cfg[o] = Effective(o)

\* What a command line and a file that lead to a server cannot have, spread
\* over six steps of RunE: an option the command does not know, a null block,
\* a help flag even if it is false, a flag of a sampling block that is null,
\* a required log option that the source that wins leaves empty; and for the
\* manager a pod template that does not parse or has no container, which
\* would fail every Reconcile, or a webhook address without a port.
StartsOnGoodInput ==
  /\ pc \in {"running", "done"} =>
       /\ ~Strange(flags) /\ ~Strange(file)
       /\ nulls \subseteq {"sampling"} /\ help = Absent
       /\ "sampling" \in nulls => \A o \in Sampling \intersect Flagged : flags[o] = Absent
       /\ \A o \in LogRequired : Effective(o) # "zero"
  /\ pc = "running" =>
       /\ file[PodTemplate] \notin BadTemplates
       /\ Effective(BindAddress) \notin {"zero", "noport"}

\* A running manager has every option that ManagerOptions.Validate calls
\* required ("leaderElectionID is required" and the messages after it).
RunsWithRequired ==
  pc = "running" => \A o \in ManagerRequired : cfg[o] # "zero"
=============================================================================
