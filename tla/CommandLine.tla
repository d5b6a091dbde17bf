---------------------------- MODULE CommandLine -----------------------------
(***************************************************************************)
(* main.cpp: the options it adds to its CLI::App and what it does with the *)
(* values bound to them, to the exit status.  What the simulator does in   *)
(* each step is modelled elsewhere; here it succeeds or fails.             *)
(***************************************************************************)
EXTENDS ArgumentParser

Option(pname, shorts, longs, type) ==
  [pname |-> pname, shorts |-> shorts, longs |-> longs, type |-> type,
   flag |-> type \in {"bool", "help"}, required |-> pname # "", isFile |-> FALSE]

ExistingFile(o) == [o EXCEPT !.isFile = TRUE]

\* The app adds the first option itself.
MainOptions ==
  << Option("", {"h"}, {"help"}, "help"),
     ExistingFile(Option("elf", {}, {}, "string")),
     Option("", {}, {"isa"}, "string"),
     Option("", {"s"}, {"steps"}, "int"),
     ExistingFile(Option("", {"i"}, {"init_state"}, "string")),
     Option("", {"f"}, {"final_state"}, "string"),
     Option("", {}, {"interactive"}, "bool"),
     Option("", {}, {"disable-logs"}, "bool") >>

IsaOption == 3
StepsOption == 4
InitState == 5
FinalState == 6
Interactive == 7

Given(k) == values[k] \notin {<<>>, << <<>> >>}

VARIABLES
  doing,    \* where main is
  exit,     \* the exit status, -1 before
  ran,      \* the loop main has run, or "none"
  written   \* of the final state: "nothing", "part" or "all"

mainVars == <<doing, exit, ran, written>>
cmdVars  == <<parserVars, mainVars>>

CommandInit ==
  /\ Init
  /\ doing = "parse" /\ exit = -1 /\ ran = "none" /\ written = "nothing"

Return(code) == doing' = "over" /\ exit' = code

Continue(step) == doing' = step /\ UNCHANGED exit

BuildApp ==
  /\ doing = "parse" /\ Build
  /\ UNCHANGED mainVars

ParseArguments ==
  /\ doing = "parse" /\ Parse
  /\ UNCHANGED mainVars

\* ExitCodes
ExitCode(e) ==
  CASE e = "CallForHelp"      -> 0
    [] e = "ConversionError"  -> 104
    [] e = "ValidationError"  -> 105
    [] e = "RequiredError"    -> 106
    [] e = "ExtrasError"      -> 109
    [] e = "ArgumentMismatch" -> 114

\* What is thrown while the app is built is caught by nobody.
ParseThrew ==
  /\ doing = "parse" /\ stage = "thrown"
  /\ Return(IF error = "OptionAlreadyAdded" THEN 134 ELSE ExitCode(error))
  /\ UNCHANGED <<parserVars, ran, written>>

CreateSimulator ==
  /\ doing = "parse" /\ stage = "parsed"
  /\ IF values[IsaOption] \in {<<>>, << <<"rv32i">> >>} THEN Continue("elf") ELSE Return(1)
  /\ UNCHANGED <<parserVars, ran, written>>

LoadElf ==
  /\ doing = "elf"
  /\ Continue("state") \/ Return(1)
  /\ UNCHANGED <<parserVars, ran, written>>

LoadState ==
  /\ doing = "state"
  /\ Continue("run") \/ (Given(InitState) /\ Return(1))
  /\ UNCHANGED <<parserVars, ran, written>>

Loop ==
  IF values[Interactive] = <<TRUE>> THEN "prompt"
  ELSE IF values[StepsOption] = <<>> \/ values[StepsOption][1] < 0
  THEN "continuous" ELSE "run"

\* An exception that leaves the loop ends main.
RunProgram ==
  /\ doing = "run"
  /\ ran' = Loop
  /\ Continue("save") \/ Return(1)
  /\ UNCHANGED <<parserVars, written>>

\* Wrong: a file that cannot be opened is not reported.
SaveStateSilently ==
  /\ doing = "save"
  /\ IF Given(FinalState) THEN written' \in {"nothing", "part", "all"} ELSE UNCHANGED written
  /\ Return(0)
  /\ UNCHANGED <<parserVars, ran>>

\* dump_cpu_state fails when the file cannot be opened.  Its stream writes when
\* it is closed, and nobody asks whether that went well.
SaveState ==
  /\ doing = "save"
  /\ \/ ~ Given(FinalState) /\ Return(0) /\ UNCHANGED written
     \/ Given(FinalState) /\ Return(1) /\ UNCHANGED written
     \/ Given(FinalState) /\ Return(0) /\ written' \in {"part", "all"}
  /\ UNCHANGED <<parserVars, ran>>

Main ==
  \/ BuildApp \/ ParseArguments \/ ParseThrew \/ CreateSimulator \/ LoadElf \/ LoadState
  \/ RunProgram \/ SaveState

\* main is one thread; the parser never waits.
CommandLineSpec == CommandInit /\ [][Main]_cmdVars /\ WF_cmdVars(ParseArguments)

-----------------------------------------------------------------------------
\* What a script can conclude from the status.  Zero: help was asked for, or the
\* loop the options name has ended and the file of the final state, if one was
\* asked for, has been opened.  Not zero: no final state has been begun, be it
\* that the loop was left by an exception.  More than one: nothing has run.
StatusTellsWhatHappened ==
  /\ exit = 0 =>
       \/ error = "CallForHelp" /\ ran = "none"
       \/ /\ error = "none" /\ ran = Loop
          /\ Given(FinalState) => written # "nothing"
  /\ exit > 0 => written = "nothing"
  /\ exit > 1 => error # "none" /\ ran = "none"
=============================================================================
