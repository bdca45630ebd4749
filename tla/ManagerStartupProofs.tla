------------------------ MODULE ManagerStartupProofs ------------------------
(***************************************************************************)
(* Proofs about ManagerStartup for any options, whichever of them have a   *)
(* flag, belong to the sampling block or are required.                     *)
(***************************************************************************)
EXTENDS ManagerStartup, TLAPS

\* What a source makes of an option that was v.
Given(source, o, v) ==
  IF o \in DOMAIN source /\ source[o] # Absent THEN source[o] ELSE v

\* The value of every option, by the sources that have been applied.
Layers ==
  /\ pc = "parse" => \A o \in Known : cfg[o] = "default"
  /\ pc \in {"help", "config", "load"} =>
       \A o \in Known : cfg[o] = Given(flags, o, "default")
  /\ pc = "precedence" =>
       \A o \in Known : cfg[o] = Given(file, o, Given(flags, o, "default"))
  /\ FlagWins

\* The second parse of the command line succeeds.
Applied ==
  /\ nulls \intersect {"log", "manager"} = {} /\ help = Absent
  /\ "sampling" \in nulls => \A o \in Sampling \intersect Flagged : flags[o] = Absent

\* What has been checked stays so.
Checked ==
  /\ pc \in {"logger", "address", "setup", "running", "done"} => Errors(cfg) = {}
  /\ pc \in {"setup", "running"} =>
       command = "manager" /\ port # 0 /\ cfg[BindAddress] \notin {"zero", "noport"}

\* What the steps so far have let pass of the command line and the file.
Passed ==
  /\ pc \notin Ends \union {"parse"} => ~Strange(flags)
  /\ pc \in {"precedence", "validate", "logger", "address", "setup"} => ~Strange(file)
  /\ pc \in {"validate", "logger", "address", "setup"} => Applied
  /\ pc \in {"running", "done"} => ~Strange(flags) /\ ~Strange(file) /\ Applied

IInv == TypeOK /\ Layers /\ Checked

-----------------------------------------------------------------------------
\* Laying a source over a configuration changes what the source mentions.
LEMMA OverEffect ==
  ASSUME NEW D, NEW c \in [D -> Values], NEW F,
         NEW source \in [F -> Values \union {Absent}]
  PROVE  /\ Over(c, source) \in [D -> Values]
         /\ \A o \in D : Over(c, source)[o] = Given(source, o, c[o])
<1>1. Over(c, source) = [o \in D |-> Given(source, o, c[o])]
  BY DEF Over, Given
<1>2. \A o \in D : Given(source, o, c[o]) \in Values
  BY DEF Given
<1> QED
  BY <1>1, <1>2

\* The initial state satisfies the invariant.
LEMMA InitIInv == Init => IInv
<1> SUFFICES ASSUME Init PROVE IInv
  OBVIOUS
<1>1. flags \in [Flagged -> Values \union {Absent}]
  BY DEF Init, Values
<1>2. file \in [Options -> Values \union {Absent}]
  BY DEF Init, Values
<1>3. cfg \in [Known -> Values] /\ \A o \in Known : cfg[o] = "default"
  BY DEF Init, Values
<1>4. set = 0 /\ port = 0 /\ 0 \in 0..Len(Parts)
  BY DEF Init, Parts
<1>5. TypeOK
  BY <1>1, <1>2, <1>3, <1>4 DEF Init, TypeOK
<1>6. Layers /\ Checked
  BY <1>3 DEF Init, Layers, Checked, FlagWins
<1> QED
  BY <1>5, <1>6 DEF IInv

\* Steps that only move on, once the options are put together.
LEMMA MovingOn ==
  ASSUME IInv, UNCHANGED <<inputs, cfg>>, pc' \in {"logger", "address", "setup", "running", "done"},
         pc \in {"validate", "logger", "address", "setup", "running", "done"},
         pc = "validate" => Errors(cfg) = {}
  PROVE  Layers' /\ (Errors(cfg) = {})'
<1>1. Errors(cfg) = {} /\ \A o \in Known : cfg[o] = Effective(o)
  BY DEF IInv, Layers, Checked, FlagWins
<1>2. (Errors(cfg) = {})'
  BY <1>1 DEF inputs, Errors, LogErrors, ManagerErrors
<1>3. Layers'
  BY <1>1 DEF inputs, Layers, FlagWins, Known, Effective
<1> QED
  BY <1>2, <1>3

\* Every step keeps the invariant.
LEMMA NextIInv == IInv /\ [Next]_vars => IInv'
<1> SUFFICES ASSUME IInv, [Next]_vars PROVE IInv'
  OBVIOUS
<1>0. /\ TypeOK /\ DOMAIN flags = Flagged /\ DOMAIN file = Options
      /\ cfg \in [Known -> Values] /\ Known \subseteq Options
      /\ flags \in [Flagged -> Values \union {Absent}]
      /\ file \in [Options -> Values \union {Absent}]
  BY DEF IInv, TypeOK, Known, Options
<1>1. ASSUME Fail PROVE IInv'
  <2>1. TypeOK'
    BY <1>0, <1>1 DEF Fail, inputs, TypeOK, Ends, Known
  <2>2. Layers' /\ Checked'
    BY <1>1 DEF Fail, Layers, Checked, FlagWins
  <2> QED
    BY <2>1, <2>2 DEF IInv
<1>2. ASSUME pc' \in {"printed", "panic"}, UNCHANGED <<inputs, cfg, port, set>> PROVE IInv'
  <2>1. TypeOK'
    BY <1>0, <1>2 DEF inputs, TypeOK, Ends, Known
  <2>2. Layers' /\ Checked'
    BY <1>2 DEF Layers, Checked, FlagWins
  <2> QED
    BY <2>1, <2>2 DEF IInv
<1>3. CASE Parse /\ ~Fail
  <2>1. /\ pc = "parse" /\ pc' = "help" /\ cfg' = Over(cfg, flags)
        /\ UNCHANGED <<inputs, port, set>>
    BY <1>3 DEF Parse
  <2>2. cfg' \in [Known -> Values] /\ \A o \in Known : cfg'[o] = Given(flags, o, cfg[o])
    BY <1>0, <2>1, OverEffect
  <2>3. \A o \in Known : cfg'[o] = Given(flags, o, "default")
    BY <2>1, <2>2 DEF IInv, Layers
  <2>4. Known' = Known /\ flags' = flags
    BY <2>1 DEF inputs, Known
  <2>5. TypeOK'
    BY <1>0, <2>1, <2>2, <2>4 DEF inputs, TypeOK
  <2>6. Layers' /\ Checked'
    BY <2>1, <2>3, <2>4 DEF Layers, Checked, FlagWins, Given
  <2> QED
    BY <2>5, <2>6 DEF IInv
<1>4. CASE (HelpOrVersion /\ pc' # "printed") \/ (ValidateFlags /\ ~Fail)
  <2>1. /\ pc \in {"help", "config"} /\ pc' \in {"config", "load"}
        /\ UNCHANGED <<inputs, cfg, port, set>>
    BY <1>4 DEF HelpOrVersion, ValidateFlags
  <2>2. TypeOK'
    BY <1>0, <2>1 DEF inputs, TypeOK, Known
  <2>3. \A o \in Known : cfg[o] = Given(flags, o, "default")
    BY <2>1 DEF IInv, Layers
  <2>4. Layers' /\ Checked'
    BY <2>1, <2>3 DEF inputs, Layers, Checked, FlagWins, Known, Given
  <2> QED
    BY <2>2, <2>4 DEF IInv
<1>5. CASE LoadConfigFile /\ ~Fail
  <2>1. /\ pc = "load" /\ pc' = "precedence" /\ cfg' = Over(cfg, file)
        /\ UNCHANGED <<inputs, port, set>>
    BY <1>5 DEF LoadConfigFile
  <2>2. cfg' \in [Known -> Values] /\ \A o \in Known : cfg'[o] = Given(file, o, cfg[o])
    BY <1>0, <2>1, OverEffect
  <2>3. \A o \in Known : cfg'[o] = Given(file, o, Given(flags, o, "default"))
    BY <2>1, <2>2 DEF IInv, Layers
  <2>4. Known' = Known /\ flags' = flags /\ file' = file
    BY <2>1 DEF inputs, Known
  <2>5. TypeOK'
    BY <1>0, <2>1, <2>2, <2>4 DEF inputs, TypeOK
  <2>6. Layers' /\ Checked'
    BY <2>1, <2>3, <2>4 DEF Layers, Checked, FlagWins, Given
  <2> QED
    BY <2>5, <2>6 DEF IInv
<1>6. CASE FlagPrecedence /\ ~Fail /\ pc' # "panic"
  <2>1. /\ pc = "precedence" /\ pc' = "validate" /\ cfg' = Over(cfg, flags)
        /\ UNCHANGED <<inputs, port, set>>
    BY <1>6 DEF FlagPrecedence
  <2>2. cfg' \in [Known -> Values] /\ \A o \in Known : cfg'[o] = Given(flags, o, cfg[o])
    BY <1>0, <2>1, OverEffect
  <2>3. \A o \in Known : cfg[o] = Given(file, o, Given(flags, o, "default"))
    BY <2>1 DEF IInv, Layers
  <2>4. \A o \in Known : cfg'[o] = Effective(o)
    BY <1>0, <2>2, <2>3 DEF Given, Effective
  <2>5. Known' = Known /\ flags' = flags /\ file' = file
    BY <2>1 DEF inputs, Known
  <2>6. TypeOK'
    BY <1>0, <2>1, <2>2, <2>5 DEF inputs, TypeOK
  <2>7. Layers' /\ Checked'
    BY <2>1, <2>4, <2>5 DEF Layers, Checked, FlagWins, Effective
  <2> QED
    BY <2>6, <2>7 DEF IInv
<1>7. CASE (Validate \/ NewLogger \/ Start \/ StartAgent) /\ ~Fail
  <2>1. /\ UNCHANGED <<inputs, cfg, port, set>>
        /\ pc' \in {"logger", "address", "running", "done"}
        /\ pc \in {"validate", "logger", "address", "setup"}
        /\ pc = "validate" => Errors(cfg) = {}
        /\ pc' = "running" => pc = "setup"
    BY <1>7 DEF Validate, NewLogger, Start, StartAgent
  <2>2. TypeOK'
    BY <1>0, <2>1 DEF inputs, TypeOK, Ends, Known
  <2>3. Layers' /\ (Errors(cfg) = {})'
    BY <2>1, MovingOn
  <2>4. pc' \in {"setup", "running"} =>
          command' = "manager" /\ port' # 0 /\ cfg'[BindAddress] \notin {"zero", "noport"}
    BY <2>1 DEF IInv, Checked, inputs
  <2> QED
    BY <2>2, <2>3, <2>4 DEF IInv, Checked
<1>8. CASE WebhookAddress /\ ~Fail
  <2>1. /\ UNCHANGED <<inputs, cfg, set>> /\ pc = "address" /\ pc' = "setup"
        /\ command = "manager" /\ port' = 9443 /\ cfg[BindAddress] \notin {"zero", "noport"}
    BY <1>8 DEF WebhookAddress, DefaultPort
  <2>2. TypeOK'
    BY <1>0, <2>1 DEF inputs, TypeOK, Ends, Known
  <2>3. Layers' /\ (Errors(cfg) = {})'
    BY <2>1, MovingOn
  <2> QED
    BY <2>1, <2>2, <2>3 DEF IInv, Checked, inputs
<1>9. CASE Setup /\ ~Fail
  <2>1. /\ UNCHANGED <<pc, inputs, cfg, port>> /\ pc = "setup" /\ set' = set + 1
        /\ set < Len(Parts)
    BY <1>9 DEF Setup
  <2>2. port # 0 /\ command = "manager" /\ cfg[BindAddress] \notin {"zero", "noport"}
    BY <2>1 DEF IInv, Checked
  <2>3. set' \in 0..Len(Parts)
    <3>1. Len(Parts) = 8
      BY DEF Parts
    <3> QED
      BY <1>0, <2>1, <3>1 DEF TypeOK
  <2>4. TypeOK'
    BY <1>0, <2>1, <2>2, <2>3 DEF inputs, TypeOK, Known
  <2>5. Layers' /\ (Errors(cfg) = {})'
    BY <2>1, MovingOn
  <2> QED
    BY <2>1, <2>2, <2>4, <2>5 DEF IInv, Checked, inputs
<1>10. CASE UNCHANGED vars
  <2>1. TypeOK'
    BY <1>0, <1>10 DEF vars, TypeOK, Known
  <2>2. Layers'
    BY <1>10 DEF vars, IInv, Layers, FlagWins, Known, Given, Effective
  <2>3. Checked'
    BY <1>10 DEF vars, IInv, Checked, Errors, LogErrors, ManagerErrors
  <2> QED
    BY <2>1, <2>2, <2>3 DEF IInv
<1>11. CASE Finished
  BY <1>10, <1>11 DEF Finished
<1>12. CASE pc' = "printed" /\ HelpOrVersion
  BY <1>1, <1>2, <1>12 DEF HelpOrVersion
<1>13. CASE pc' = "panic" /\ FlagPrecedence
  BY <1>1, <1>2, <1>13 DEF FlagPrecedence
<1> QED
  BY <1>1, <1>3, <1>4, <1>5, <1>6, <1>7, <1>8, <1>9, <1>10, <1>11, <1>12, <1>13 DEF Next

\* The invariant holds in every reachable state.
LEMMA Invariance == Spec => []IInv
  BY InitIInv, NextIInv, PTL DEF Spec

\* Types, for any sets of options.
THEOREM TypeCorrect == Spec => []TypeOK
<1>1. IInv => TypeOK
  BY DEF IInv
<1> QED
  BY <1>1, Invariance, PTL

\* Precedence: from its validation on, every option of either command has the
\* value of its flag, else of the file, else its default, although the command
\* line is applied before the file and again after it (config.go:25-42).
THEOREM Precedence == Spec => []FlagWins
<1>1. IInv => FlagWins
  BY DEF IInv, Layers
<1> QED
  BY <1>1, Invariance, PTL

\* No step undoes what the ones before it have let pass: the command line and
\* the file stay what they are.
LEMMA NextPassed == Passed /\ [Next]_vars => Passed'
<1> SUFFICES ASSUME Passed, [Next]_vars PROVE Passed'
  OBVIOUS
<1>1. /\ UNCHANGED inputs
      /\ pc' \in {"failed", "panic", "printed"} \/ pc' = pc
         \/ (pc = "parse" /\ pc' = "help" /\ ~Strange(flags))
         \/ (pc = "help" /\ pc' = "config") \/ (pc = "config" /\ pc' = "load")
         \/ (pc = "load" /\ pc' = "precedence" /\ ~Strange(file))
         \/ (pc = "precedence" /\ pc' = "validate" /\ Applied)
         \/ (pc = "validate" /\ pc' = "logger") \/ (pc = "logger" /\ pc' = "address")
         \/ (pc = "address" /\ pc' \in {"setup", "done"})
         \/ (pc = "setup" /\ pc' = "running")
  <2>1. ASSUME Fail PROVE UNCHANGED inputs /\ pc' = "failed"
    BY <2>1 DEF Fail
  <2>2. CASE Parse \/ HelpOrVersion \/ ValidateFlags \/ LoadConfigFile
    BY <2>1, <2>2 DEF Parse, HelpOrVersion, ValidateFlags, LoadConfigFile
  <2>3. CASE FlagPrecedence
    BY <2>1, <2>3 DEF FlagPrecedence, Applied
  <2>4. CASE Validate \/ NewLogger \/ WebhookAddress
    BY <2>1, <2>4 DEF Validate, NewLogger, WebhookAddress
  <2>5. CASE Setup \/ Start \/ StartAgent
    BY <2>1, <2>5 DEF Setup, Start, StartAgent
  <2>6. CASE Finished \/ UNCHANGED vars
    BY <2>6 DEF Finished, vars, inputs
  <2> QED
    BY <2>2, <2>3, <2>4, <2>5, <2>6 DEF Next
<1>2. /\ Strange(flags)' <=> Strange(flags)
      /\ Strange(file)' <=> Strange(file)
      /\ Applied' <=> Applied
  BY <1>1 DEF inputs, Strange, Known, Applied
<1> QED
  BY <1>1, <1>2 DEF Passed, Ends

\* What it takes to get to a server: no input that one of the steps of RunE
\* refuses, and the value that wins usable where one is needed
\* (server.go:49-95, config.go:23-42, manager.go:200-241).
THEOREM GoodInput == Spec => []StartsOnGoodInput
<1>1. Init => Passed
  BY DEF Init, Passed, Ends
<1>2. Spec => []Passed
  BY <1>1, NextPassed, PTL DEF Spec
<1>3. IInv /\ Passed => StartsOnGoodInput
  <2> SUFFICES ASSUME IInv, Passed PROVE StartsOnGoodInput
    OBVIOUS
  <2>1. ASSUME pc \in {"running", "done"}
        PROVE  /\ Errors(cfg) = {} /\ \A o \in Known : cfg[o] = Effective(o)
               /\ LogRequired \subseteq Known
    BY <2>1, OptionsAssumption DEF IInv, Checked, Layers, FlagWins, Known, Options
  <2>2. ASSUME pc \in {"running", "done"}
        PROVE  /\ ~Strange(flags) /\ ~Strange(file)
               /\ nulls \subseteq {"sampling"} /\ help = Absent
               /\ "sampling" \in nulls => \A o \in Sampling \intersect Flagged : flags[o] = Absent
    BY <2>2 DEF Passed, Applied, Ends, IInv, TypeOK
  <2>3. ASSUME pc \in {"running", "done"}, NEW o \in LogRequired PROVE Effective(o) # "zero"
    BY <2>1, <2>3 DEF Errors, LogErrors
  <2>4. ASSUME pc = "running"
        PROVE  file[PodTemplate] \notin BadTemplates /\ Effective(BindAddress) \notin {"zero", "noport"}
    <3>1. command = "manager" /\ cfg[BindAddress] \notin {"zero", "noport"}
      BY <2>4 DEF IInv, Checked
    <3>2. PodTemplate \in Known /\ BindAddress \in Known /\ PodTemplate \notin Flagged
      BY <3>1, OptionsAssumption DEF Known, Options
    <3>3. cfg[PodTemplate] \notin BadTemplates
      <4>1. ManagerErrors(cfg) = {}
        BY <2>1, <2>4, <3>1 DEF Errors
      <4> QED
        BY <4>1 DEF ManagerErrors, BadTemplates
    <3>4. file[PodTemplate] # Absent => cfg[PodTemplate] = file[PodTemplate]
      BY <2>1, <2>4, <3>2 DEF Effective
    <3>5. Absent \notin BadTemplates
      BY OptionsAssumption DEF Values, BadTemplates
    <3> QED
      BY <2>1, <2>4, <3>1, <3>2, <3>3, <3>4, <3>5
  <2> QED
    BY <2>2, <2>3, <2>4 DEF StartsOnGoodInput
<1> QED
  BY <1>2, <1>3, Invariance, PTL
=============================================================================
