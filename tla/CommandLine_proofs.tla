------------------------- MODULE CommandLine_proofs -------------------------
(***************************************************************************)
(* StatusTellsWhatHappened for every set of options, every command line    *)
(* and every outcome of main's steps; UnknownOptionsAreRefused for every   *)
(* line and every set of options like main's, none of whose flags has a    *)
(* letter but for those that ask for help; SpellingAndOrderDoNotMatter for *)
(* every line that is made of groups and every set of options with at most *)
(* one positional, as main's is.                                           *)
(***************************************************************************)
EXTENDS CommandLine, WellFoundedInduction, TLAPS

Errors ==
  {"OptionAlreadyAdded", "CallForHelp", "ConversionError", "ValidationError",
   "RequiredError", "ExtrasError", "ArgumentMismatch"}

\* There is an error exactly when something was thrown.
ThrownTellsWhy ==
  /\ stage = "thrown" => error \in Errors
  /\ stage # "thrown" => error = "none"

(***************************************************************************)
(* The inductive invariant adds what main has behind it at each of its     *)
(* steps: no status before its end, a command line without an error once   *)
(* there is a simulator, no loop before the one that is asked for.         *)
(***************************************************************************)
IInv ==
  /\ ThrownTellsWhy
  /\ doing \in {"parse", "elf", "state", "run", "save", "over"}
  /\ doing # "over" => exit = -1 /\ written = "nothing"
  /\ doing \in {"parse", "elf", "state", "run"} => ran = "none"
  /\ doing \in {"elf", "state", "run", "save"} => error = "none"
  /\ doing = "save" => ran = Loop
  /\ StatusTellsWhatHappened

LEMMA CallbackErrors ==
  ASSUME NEW k, CallbackError(k) # "none"
  PROVE  CallbackError(k) \in Errors
BY DEF CallbackError, Errors

\* The parser throws only errors of the list, and only once.
LEMMA ParserThrows ==
  ASSUME ThrownTellsWhy, Build \/ Parse
  PROVE  ThrownTellsWhy'
<1> USE DEF ThrownTellsWhy, Throw, Errors
<1>1. CASE AddOption
  BY <1>1 DEF AddOption
<1>2. CASE StartParse
  BY <1>2 DEF StartParse
<1>3. CASE ParseMark \/ ParseUnknown \/ ParseFlag \/ ParsePositional
  BY <1>3 DEF ParseMark, ParseUnknown, ParseFlag, ParsePositional
<1>4. CASE ParseOption
  BY <1>4 DEF ParseOption, AtArgument
<1>5. CASE ProcessHelp
  BY <1>5 DEF ProcessHelp
<1>6. CASE ProcessRequirements
  BY <1>6 DEF ProcessRequirements
<1>7. CASE RunCallback
  <2>1. \/ UNCHANGED <<stage, error>>
        \/ stage' = "thrown" /\ error' = CallbackError(next) /\ CallbackError(next) # "none"
    BY <1>7 DEF RunCallback
  <2> QED
    BY <2>1, CallbackErrors
<1>8. CASE ProcessExtras
  BY <1>8 DEF ProcessExtras
<1> QED
  BY <1>1, <1>2, <1>3, <1>4, <1>5, <1>6, <1>7, <1>8 DEF Build, Parse

LEMMA InitIInv == CommandInit => IInv
BY DEF CommandInit, Init, IInv, ThrownTellsWhy, StatusTellsWhatHappened

\* While main parses there is no status yet.
LEMMA ParsingStep ==
  ASSUME IInv, BuildApp \/ ParseArguments
  PROVE  IInv'
<1>1. doing = "parse" /\ (Build \/ Parse) /\ UNCHANGED mainVars
  BY DEF BuildApp, ParseArguments
<1>2. ThrownTellsWhy'
  BY <1>1, ParserThrows DEF IInv
<1> QED
  BY <1>1, <1>2 DEF IInv, mainVars, StatusTellsWhatHappened

\* What depends on the parser's variables alone stays as it is.
LEMMA ParserRests ==
  ASSUME UNCHANGED parserVars
  PROVE  /\ UNCHANGED <<stage, values, error, Loop>>
         /\ \A k : Given(k)' = Given(k)
         /\ ThrownTellsWhy' = ThrownTellsWhy
BY DEF parserVars, Loop, Given, ThrownTellsWhy

LEMMA StepIInv == IInv /\ [Main]_cmdVars => IInv'
<1> SUFFICES ASSUME IInv, [Main]_cmdVars PROVE IInv'
  OBVIOUS
<1>1. CASE BuildApp \/ ParseArguments
  BY <1>1, ParsingStep
<1> USE ParserRests DEF IInv, StatusTellsWhatHappened, Return, Continue
<1>2. CASE ParseThrew
  <2>1. /\ doing' = "over" /\ UNCHANGED <<parserVars, ran, written>>
        /\ ran = "none" /\ written = "nothing" /\ error \in Errors
        /\ exit' = 0 => error = "CallForHelp"
    BY <1>2 DEF ParseThrew, ExitCode, ThrownTellsWhy, Errors
  <2>2. error # "none"
    BY <2>1 DEF Errors
  <2>3. StatusTellsWhatHappened'
    BY <2>1, <2>2
  <2> QED
    BY <2>1, <2>3
<1>3. CASE CreateSimulator
  BY <1>3 DEF CreateSimulator, ThrownTellsWhy
<1>4. CASE LoadElf
  BY <1>4 DEF LoadElf
<1>5. CASE LoadState
  BY <1>5 DEF LoadState
<1>6. CASE RunProgram
  BY <1>6 DEF RunProgram
<1>7. CASE SaveState
  BY <1>7 DEF SaveState
<1>8. CASE UNCHANGED cmdVars
  BY <1>8 DEF cmdVars, mainVars
<1> QED
  BY <1>1, <1>2, <1>3, <1>4, <1>5, <1>6, <1>7, <1>8 DEF Main

\* The exit status tells what happened, for every app that can be built of
\* options and every line it can be given: zero only after help, or after the
\* loop the options name, with the file of the final state opened; another one
\* only when no final state was begun; more than one only when the parser threw
\* and nothing ran.
THEOREM Status == CommandLineSpec => []StatusTellsWhatHappened
<1>1. IInv => StatusTellsWhatHappened
  BY DEF IInv
<1>2. CommandInit /\ [][Main]_cmdVars => []IInv
  BY InitIInv, StepIInv, PTL
<1> QED
  BY <1>1, <1>2, PTL DEF CommandLineSpec

-----------------------------------------------------------------------------
(***************************************************************************)
(* UnknownOptionsAreRefused, of an app none of whose flags has a letter,   *)
(* but for those that ask for help; main's is one.  In others the letters  *)
(* put back behind a flag's can make a "--" that was never on the line.    *)
(***************************************************************************)
LettersAskForHelp ==
  \A k \in DOMAIN Options :
    Options[k].flag /\ Options[k].shorts # {} => Options[k].type = "help"

\* main.cpp's app is of that kind: -h is the only letter of a flag.
LEMMA MainLetters == Options = MainOptions => LettersAskForHelp
<1> SUFFICES ASSUME Options = MainOptions, NEW k \in DOMAIN MainOptions,
                    MainOptions[k].flag, MainOptions[k].shorts # {}
             PROVE  MainOptions[k].type = "help"
  BY DEF LettersAskForHelp
<1>1. \A a, b, c, d, e, f, g, h : DOMAIN <<a, b, c, d, e, f, g, h>> = 1 .. 8
  OBVIOUS
<1>2. k \in 1 .. 8
  BY <1>1 DEF MainOptions
<1>3. /\ MainOptions[1] = Option("", {"h"}, {"help"}, "help")
      /\ MainOptions[2] = ExistingFile(Option("elf", {}, {}, "string"))
      /\ MainOptions[3] = Option("", {}, {"isa"}, "string")
      /\ MainOptions[4] = Option("", {"s"}, {"steps"}, "int")
      /\ MainOptions[5] = ExistingFile(Option("", {"i"}, {"init_state"}, "string"))
      /\ MainOptions[6] = Option("", {"f"}, {"final_state"}, "string")
      /\ MainOptions[7] = Option("", {}, {"interactive"}, "bool")
      /\ MainOptions[8] = Option("", {}, {"disable-logs"}, "bool")
  BY DEF MainOptions
<1>4. MainOptions[1].type = "help"
  <2>1. Option("", {"h"}, {"help"}, "help").type = "help"
    BY DEF Option
  <2> QED
    BY <1>3, <2>1
<1>5. MainOptions[7].shorts = {} /\ MainOptions[8].shorts = {}
  <2>1. /\ Option("", {}, {"interactive"}, "bool").shorts = {}
        /\ Option("", {}, {"disable-logs"}, "bool").shorts = {}
    BY DEF Option
  <2> QED
    BY <1>3, <2>1
<1>6. "string" \notin {"bool", "help"} /\ "int" \notin {"bool", "help"}
  OBVIOUS
<1>7. ~ MainOptions[3].flag /\ ~ MainOptions[4].flag /\ ~ MainOptions[6].flag
  <2>1. /\ ~ Option("", {}, {"isa"}, "string").flag
        /\ ~ Option("", {"s"}, {"steps"}, "int").flag
        /\ ~ Option("", {"f"}, {"final_state"}, "string").flag
    BY <1>6, Zenon DEF Option
  <2> QED
    BY <1>3, <2>1, Zenon
<1>8. ~ MainOptions[2].flag /\ ~ MainOptions[5].flag
  <2>1. /\ ~ ExistingFile(Option("elf", {}, {}, "string")).flag
        /\ ~ ExistingFile(Option("", {"i"}, {"init_state"}, "string")).flag
    BY <1>6, Zenon DEF Option, ExistingFile
  <2> QED
    BY <1>3, <2>1, Zenon
<1>9. \A m \in 1 .. 8 : m \in {1, 2, 3, 4, 5, 6, 7, 8}
  OBVIOUS
<1>10. \A m \in 1 .. 8 :
        MainOptions[m].flag /\ MainOptions[m].shorts # {} => MainOptions[m].type = "help"
  BY <1>4, <1>5, <1>7, <1>8, <1>9, Zenon
<1> QED
  BY <1>2, <1>10, Zenon

Mark == <<"-", "-">>

IsSequence(s) == \E S : s \in Seq(S)

\* What no option took will make the parser throw.
Refuses == \E k \in DOMAIN missing : missing[k][1] # "MARK"

Helped == \E k \in DOMAIN options : options[k].type = "help" /\ results[k] # <<>>

Excused(i) ==
  LooksLikeOption(given.args[i]) /\ Find(given.args[i]) = 0 =>
    \/ \E j \in 1 .. i - 1 : given.args[j] = Mark
    \/ i > 1 /\ LooksLikeOption(given.args[i - 1]) /\ TakesNext(given.args[i - 1])

\* The loop is behind argument p of the line.
Behind(p) ==
  /\ p \in 0 .. Len(given.args)
  /\ Len(args) = Len(given.args) - p
  /\ \A i \in 1 .. Len(args) : args[i] = given.args[p + i]
  /\ positionalOnly => \E j \in 1 .. p : given.args[j] = Mark
  /\ \A i \in 1 .. p : Excused(i) \/ Refuses

(***************************************************************************)
(* The invariant.  Letters are put back only behind a help flag, whose     *)
(* call for help ends the parse; without one the arguments left are a      *)
(* suffix of the line, and every unknown option in front of it is excused  *)
(* or recorded.                                                            *)
(***************************************************************************)
UInv ==
  /\ given.args \in Seq(Seq(STRING))
  /\ options \in Seq(OptionType) /\ \A k \in DOMAIN options : k \in DOMAIN Options
                                                /\ options[k] = Options[k]
  /\ \A k \in DOMAIN Options : k \in DOMAIN results /\ IsSequence(results[k])
  /\ IsSequence(missing)
  /\ stage = "building" => ~ positionalOnly
  /\ stage = "arguments" =>
       Helped \/ (args \in Seq(Seq(STRING)) /\ \E p \in Nat : Behind(p))
  /\ stage \in {"requirements", "callbacks"} =>
       \A i \in DOMAIN given.args : Excused(i) \/ Refuses
  /\ stage = "parsed" => \A i \in DOMAIN given.args : Excused(i)

\* A set of numbers that is not empty has a least one: by induction over the
\* numbers, whose order is well-founded.
LEMMA HasLeast ==
  ASSUME NEW T, T \subseteq Nat, T # {}
  PROVE  \E x \in T : \A y \in T : x <= y
<1>1. PICK x \in T : \A y \in T : ~ (<<y, x>> \in OpToRel(<, Nat))
  BY WFMin, NatLessThanWellFounded, Zenon
<1>2. \A y \in T : ~ (<<y, x>> \in {ss \in Nat \X Nat : ss[1] < ss[2]})
  BY <1>1 DEF OpToRel
<1>3. ASSUME NEW y \in T PROVE x <= y
  <2>1. CASE y < x
    <3>1. <<y, x>> \in Nat \X Nat /\ <<y, x>>[1] < <<y, x>>[2]
      BY <2>1
    <3> QED
      BY <1>2, <3>1
  <2> QED
    BY <2>1
<1> QED
  BY <1>3

LEMMA LeastMember ==
  ASSUME NEW T, T \subseteq Nat, T # {}
  PROVE  Min(T) \in T
BY HasLeast DEF Min

LEMMA FindFacts ==
  ASSUME NEW a, IsSequence(options), Find(a) # 0
  PROVE  Find(a) \in DOMAIN options /\ Names(options[Find(a)], a)
<1> DEFINE I == {i \in 1 .. Len(options) : Names(options[i], a)}
<1>1. Find(a) = IF I # {} THEN Min(I) ELSE 0
  BY DEF Find, SelectInSeq
<1>2. I \subseteq Nat /\ I # {}
  BY <1>1
<1>3. Find(a) \in I
  BY <1>1, <1>2, LeastMember
<1>4. DOMAIN options = 1 .. Len(options)
  BY DEF IsSequence
<1> QED
  BY <1>3, <1>4

LEMMA MarksOnly ==
  ASSUME NEW a, Recognize(a) = "MARK"
  PROVE  a = Mark
BY DEF Recognize, Mark

LEMMA MarkIsOne == Recognize(Mark) = "MARK"
<1>1. Len(Mark) = 2 /\ Mark[2] = "-"
  BY DEF Mark
<1>2. ~ SplitsLong(Mark) /\ ~ SplitsShort(Mark)
  BY <1>1 DEF SplitsLong, SplitsShort, FirstChar
<1> QED
  BY <1>2 DEF Recognize, Mark

LEMMA Longer ==
  ASSUME NEW s, IsSequence(s), NEW x
  PROVE  /\ IsSequence(Append(s, x)) /\ Append(s, x) # <<>>
         /\ Len(s) \in Nat /\ DOMAIN s = 1 .. Len(s)
         /\ Len(Append(s, x)) = Len(s) + 1 /\ Append(s, x)[Len(s) + 1] = x
         /\ DOMAIN Append(s, x) = 1 .. Len(s) + 1
         /\ \A k \in 1 .. Len(s) : Append(s, x)[k] = s[k]
<1>1. PICK S : s \in Seq(S)
  BY DEF IsSequence
<1> DEFINE T == S \cup {x}
<1>2. s \in Seq(T) /\ x \in T
  BY <1>1
<1> HIDE DEF T
<1>3. /\ Append(s, x) \in Seq(T) /\ Len(s) \in Nat
      /\ Len(Append(s, x)) = Len(s) + 1 /\ Append(s, x)[Len(s) + 1] = x
      /\ \A k \in 1 .. Len(s) : Append(s, x)[k] = s[k]
  BY <1>2
<1>4. IsSequence(Append(s, x))
  BY <1>3 DEF IsSequence
<1>5. DOMAIN Append(s, x) = 1 .. Len(s) + 1 /\ DOMAIN s = 1 .. Len(s)
  BY <1>2, <1>3
<1>6. Append(s, x) # <<>>
  BY <1>3
<1> QED
  BY <1>3, <1>4, <1>5, <1>6

LEMMA ResultAdded ==
  ASSUME UInv, NEW k, NEW text, AddResult(k, text)
  PROVE  /\ \A m \in DOMAIN Options : m \in DOMAIN results' /\ IsSequence(results'[m])
         /\ UNCHANGED options => (Helped => Helped')
         /\ k \in DOMAIN Options => results'[k] # <<>>
<1>1. results' = [results EXCEPT ![k] = Append(results[k], text)]
  BY DEF AddResult
<1>2. ASSUME NEW m \in DOMAIN Options
      PROVE  /\ m \in DOMAIN results' /\ IsSequence(results'[m])
             /\ results[m] # <<>> \/ m = k => results'[m] # <<>>
  <2>1. m \in DOMAIN results /\ IsSequence(results[m])
    BY <1>2 DEF UInv
  <2>2. CASE m = k
    BY <1>1, <2>1, <2>2, Longer
  <2>3. CASE m # k
    BY <1>1, <2>1, <2>3
  <2> QED
    BY <2>2, <2>3
<1>3. \A m \in DOMAIN options : m \in DOMAIN Options
  BY DEF UInv
<1> QED
  BY <1>2, <1>3 DEF Helped

LEMMA MissingAdded ==
  ASSUME UInv, NEW class, NEW a, missing' = Append(missing, <<class, a>>)
  PROVE  /\ IsSequence(missing')
         /\ Refuses => Refuses'
         /\ class # "MARK" => Refuses'
<1> DEFINE x == <<class, a>>
<1>1. IsSequence(missing) /\ x[1] = class
  BY DEF UInv
<1> HIDE DEF x
<1>2. missing' = Append(missing, x)
  BY DEF x
<1> QED
  BY <1>1, <1>2, Longer DEF Refuses

\* What an argument looks like depends on the options alone.
LEMMA SameLooks ==
  ASSUME UNCHANGED options, NEW a
  PROVE  /\ LooksLikeOption(a)' = LooksLikeOption(a) /\ Find(a)' = Find(a)
         /\ TakesNext(a)' = TakesNext(a)
BY DEF LooksLikeOption, TakesNext, Recognize, Find, SelectInSeq

LEMMA SameExcuses ==
  ASSUME UNCHANGED <<given, options>>, NEW i
  PROVE  Excused(i)' = Excused(i)
BY SameLooks DEF Excused

\* The loop goes on by one argument, or by two.
LEMMA ArgumentsTaken ==
  ASSUME NEW p \in Nat, args \in Seq(Seq(STRING)), Behind(p),
         UNCHANGED <<given, options>>,
         NEW n \in 1 .. 2, n <= Len(args),
         args' \in Seq(Seq(STRING)), Len(args') = Len(args) - n,
         \A i \in 1 .. Len(args') : args'[i] = args[i + n],
         positionalOnly' => positionalOnly \/ given.args[p + 1] = Mark,
         Refuses => Refuses', \A i \in p + 1 .. p + n : Excused(i) \/ Refuses'
  PROVE  Behind(p + n)'
<1>1. Len(args) \in Nat /\ Len(args') \in Nat
  OBVIOUS
<1>2. p + n \in 0 .. Len(given.args) /\ Len(args') = Len(given.args) - (p + n)
  BY <1>1 DEF Behind
<1>3. \A i \in 1 .. Len(args') : args'[i] = given.args[(p + n) + i]
  <2>1. SUFFICES ASSUME NEW i \in 1 .. Len(args')
                 PROVE  args'[i] = given.args[(p + n) + i]
    OBVIOUS
  <2>2. i + n \in 1 .. Len(args) /\ (p + n) + i = p + (i + n)
    BY <1>1
  <2>3. args[i + n] = given.args[p + (i + n)]
    BY <2>2 DEF Behind
  <2> QED
    BY <2>2, <2>3
<1>4. positionalOnly' => \E j \in 1 .. p + n : given.args[j] = Mark
  <2>1. \A j \in 1 .. p : j \in 1 .. p + n
    OBVIOUS
  <2>2. p + 1 \in 1 .. p + n
    OBVIOUS
  <2>3. positionalOnly => \E j \in 1 .. p : given.args[j] = Mark
    BY DEF Behind
  <2> QED
    BY <2>1, <2>2, <2>3
<1>5. \A i \in 1 .. p + n : Excused(i) \/ Refuses'
  <2>1. \A i \in 1 .. p + n : i \in 1 .. p \/ i \in p + 1 .. p + n
    OBVIOUS
  <2> QED
    BY <2>1 DEF Behind
<1>6. \A i \in 1 .. p + n : Excused(i)' \/ Refuses'
  BY <1>5, SameExcuses
<1> QED
  BY <1>2, <1>3, <1>4, <1>6 DEF Behind

LEMMA OneTaken ==
  ASSUME NEW p \in Nat, args \in Seq(Seq(STRING)), Behind(p), args # <<>>,
         UNCHANGED <<given, options>>, args' = Tail(args),
         positionalOnly' => positionalOnly \/ given.args[p + 1] = Mark,
         Refuses => Refuses', Excused(p + 1) \/ Refuses'
  PROVE  args' \in Seq(Seq(STRING)) /\ p + 1 \in Nat /\ Behind(p + 1)'
<1>1. /\ 1 <= Len(args) /\ Len(args') = Len(args) - 1 /\ args' \in Seq(Seq(STRING))
      /\ \A i \in 1 .. Len(args') : args'[i] = args[i + 1]
  OBVIOUS
<1>2. PICK n \in 1 .. 2 : n = 1
  OBVIOUS
<1>3. /\ n <= Len(args) /\ Len(args') = Len(args) - n
      /\ \A i \in 1 .. Len(args') : args'[i] = args[i + n]
      /\ \A i \in p + 1 .. p + n : Excused(i) \/ Refuses'
  BY <1>1, <1>2
<1>4. Behind(p + n)'
  BY <1>1, <1>3, ArgumentsTaken
<1> QED
  BY <1>1, <1>2, <1>4

(***************************************************************************)
(* The turns of the loop.                                                  *)
(***************************************************************************)
LEMMA MarkStep ==
  ASSUME UInv, ParseMark
  PROVE  UInv'
<1>1. /\ stage = "arguments" /\ args # <<>> /\ args' = Tail(args) /\ Recognize(Head(args)) = "MARK"
      /\ missing' = Append(missing, <<"MARK", Head(args)>>)
      /\ UNCHANGED <<given, stage, options, results>>
  BY DEF ParseMark, AtArgument, Class
<1>2. IsSequence(missing') /\ (Refuses => Refuses')
  BY <1>1, MissingAdded
<1>3. Helped => Helped'
  BY <1>1 DEF Helped
<1>4. ASSUME args \in Seq(Seq(STRING)), NEW p \in Nat, Behind(p)
      PROVE  args' \in Seq(Seq(STRING)) /\ p + 1 \in Nat /\ Behind(p + 1)'
  <2>1. given.args[p + 1] = Mark
    <3>1. 1 \in 1 .. Len(args) /\ Head(args) = args[1]
      BY <1>1, <1>4
    <3> QED
      BY <1>1, <1>4, <3>1, MarksOnly DEF Behind
  <2>2. Excused(p + 1)
    BY <2>1 DEF Excused, LooksLikeOption, Mark
  <2> QED
    BY <1>1, <1>2, <1>4, <2>1, <2>2, OneTaken
<1> QED
  BY <1>1, <1>2, <1>3, <1>4 DEF UInv

LEMMA UnknownStep ==
  ASSUME UInv, ParseUnknown
  PROVE  UInv'
<1>1. /\ stage = "arguments" /\ args # <<>> /\ args' = Tail(args) /\ Class # "MARK"
      /\ missing' = Append(missing, <<Class, Head(args)>>)
      /\ UNCHANGED <<given, stage, options, results, positionalOnly>>
  BY DEF ParseUnknown, AtArgument
<1>2. IsSequence(missing') /\ Refuses'
  BY <1>1, MissingAdded
<1>3. Helped => Helped'
  BY <1>1 DEF Helped
<1>4. ASSUME args \in Seq(Seq(STRING)), NEW p \in Nat, Behind(p)
      PROVE  args' \in Seq(Seq(STRING)) /\ p + 1 \in Nat /\ Behind(p + 1)'
  BY <1>1, <1>2, <1>4, OneTaken
<1> QED
  BY <1>1, <1>2, <1>3, <1>4 DEF UInv

LEMMA FlagStep ==
  ASSUME UInv, LettersAskForHelp, ParseFlag
  PROVE  UInv'
<1> DEFINE a == Head(args)
           k == Find(a)
<1>1. /\ stage = "arguments" /\ args # <<>> /\ k # 0 /\ options[k].flag
      /\ \E text : AddResult(k, text)
      /\ args' = IF Rest(a) = <<>> THEN Tail(args)
                 ELSE <<<<"-">> \o Rest(a)>> \o Tail(args)
      /\ UNCHANGED <<given, stage, options, positionalOnly, missing>>
  BY DEF ParseFlag, AtArgument
<1>2. /\ \A m \in DOMAIN Options : m \in DOMAIN results' /\ IsSequence(results'[m])
      /\ Helped => Helped'
      /\ k \in DOMAIN Options => results'[k] # <<>>
  BY <1>1, ResultAdded
<1>3. Refuses' = Refuses
  BY <1>1 DEF Refuses
<1>4. CASE Rest(a) # <<>>
  <2>1. k \in DOMAIN options /\ Names(options[k], a)
    BY <1>1, FindFacts DEF UInv, IsSequence
  <2>2. options[k].shorts # {} /\ options[k] = Options[k] /\ k \in DOMAIN Options
    BY <1>4, <2>1 DEF Rest, Names, UInv
  <2>3. options[k].type = "help"
    BY <1>1, <2>2 DEF LettersAskForHelp
  <2>4. Helped'
    BY <1>1, <1>2, <2>1, <2>2, <2>3 DEF Helped
  <2> QED
    BY <1>1, <1>2, <2>4 DEF UInv
<1>5. CASE Rest(a) = <<>>
  <2>1. ASSUME args \in Seq(Seq(STRING)), NEW p \in Nat, Behind(p)
        PROVE  args' \in Seq(Seq(STRING)) /\ p + 1 \in Nat /\ Behind(p + 1)'
    <3>1. 1 \in 1 .. Len(args) /\ a = args[1]
      BY <1>1, <2>1
    <3>2. a = given.args[p + 1]
      BY <2>1, <3>1 DEF Behind
    <3>3. Excused(p + 1)
      BY <1>1, <3>2 DEF Excused
    <3> QED
      BY <1>1, <1>3, <1>5, <2>1, <3>3, OneTaken
  <2> QED
    BY <1>1, <1>2, <2>1 DEF UInv
<1> QED
  BY <1>4, <1>5

LEMMA OptionStep ==
  ASSUME UInv, ParseOption
  PROVE  UInv'
<1> DEFINE a     == Head(args)
           k     == Find(a)
           after == Tail(args)
<1>1. /\ stage = "arguments" /\ args # <<>> /\ k # 0 /\ Class \in {"LONG", "SHORT"}
      /\ UNCHANGED <<given, options, positionalOnly, missing>>
      /\ \/ (\E text : AddResult(k, text)) /\ args' = after /\ stage' = stage
         \/ /\ (\E text : AddResult(k, text)) /\ args' = Tail(after) /\ stage' = stage
            /\ after # <<>> /\ TakesNext(a)
         \/ stage' = "thrown" /\ results' = results
  BY DEF ParseOption, AtArgument, Throw, TakesNext
<1>2. Refuses' = Refuses
  BY <1>1 DEF Refuses
<1>3. CASE stage' = "thrown" /\ results' = results
  BY <1>1, <1>3 DEF UInv
<1>4. ASSUME \E text : AddResult(k, text)
      PROVE  /\ \A m \in DOMAIN Options : m \in DOMAIN results' /\ IsSequence(results'[m])
             /\ Helped => Helped'
  BY <1>1, <1>4, ResultAdded
<1>5. ASSUME args \in Seq(Seq(STRING)), NEW p \in Nat, Behind(p)
      PROVE  /\ p + 1 \in 1 .. Len(given.args) /\ a = given.args[p + 1]
             /\ Excused(p + 1)
             /\ TakesNext(a) => Excused(p + 2)
  <2>1. 1 \in 1 .. Len(args) /\ a = args[1]
    BY <1>1, <1>5
  <2>2. a = given.args[p + 1]
    BY <1>5, <2>1 DEF Behind
  <2>3. p + 1 \in 1 .. Len(given.args)
    BY <1>5, <2>1 DEF Behind
  <2>4. Excused(p + 1)
    BY <1>1, <2>2 DEF Excused
  <2>5. positionalOnly \/ LooksLikeOption(a)
    <3>1. a = Mark => Recognize(a) = "MARK"
      BY MarkIsOne
    <3>2. ~ positionalOnly => Recognize(a) \in {"LONG", "SHORT"}
      BY <1>1 DEF Class
    <3> QED
      BY <3>1, <3>2 DEF LooksLikeOption, Mark
  <2>6. ~ positionalOnly
    BY <1>1 DEF Class
  <2>7. p + 2 > 1 /\ (p + 2) - 1 = p + 1
    OBVIOUS
  <2>8. TakesNext(a) => Excused(p + 2)
    BY <2>2, <2>5, <2>6, <2>7 DEF Excused
  <2> QED
    BY <2>2, <2>3, <2>4, <2>8
<1>6. CASE (\E text : AddResult(k, text)) /\ args' = after /\ stage' = stage
  <2>1. ASSUME args \in Seq(Seq(STRING)), NEW p \in Nat, Behind(p)
        PROVE  args' \in Seq(Seq(STRING)) /\ p + 1 \in Nat /\ Behind(p + 1)'
    BY <1>1, <1>2, <1>5, <1>6, <2>1, OneTaken
  <2> QED
    BY <1>1, <1>4, <1>6, <2>1 DEF UInv
<1>7. CASE /\ (\E text : AddResult(k, text)) /\ args' = Tail(after) /\ stage' = stage
           /\ after # <<>> /\ TakesNext(a)
  <2>1. ASSUME args \in Seq(Seq(STRING)), NEW p \in Nat, Behind(p)
        PROVE  args' \in Seq(Seq(STRING)) /\ p + 2 \in Nat /\ Behind(p + 2)'
    <3>1. PICK n \in 1 .. 2 : n = 2
      OBVIOUS
    <3>2. /\ n <= Len(args) /\ Len(args') = Len(args) - n /\ args' \in Seq(Seq(STRING))
          /\ \A i \in 1 .. Len(args') : args'[i] = args[i + n]
      BY <1>1, <1>7, <2>1, <3>1
    <3>3. \A i \in p + 1 .. p + n : Excused(i)
      <4>1. \A i \in p + 1 .. p + 2 : i = p + 1 \/ i = p + 2
        OBVIOUS
      <4> QED
        BY <1>5, <1>7, <2>1, <3>1, <4>1
    <3>4. Behind(p + n)'
      BY <1>1, <1>2, <2>1, <3>2, <3>3, ArgumentsTaken
    <3> QED
      BY <3>1, <3>2, <3>4
  <2> QED
    BY <1>1, <1>4, <1>7, <2>1 DEF UInv
<1> QED
  BY <1>1, <1>3, <1>6, <1>7

LEMMA PositionalStep ==
  ASSUME UInv, ParsePositional
  PROVE  UInv'
<1>1. /\ stage = "arguments" /\ args # <<>> /\ args' = Tail(args) /\ Class = "NONE"
      /\ UNCHANGED <<given, stage, options, positionalOnly>>
      /\ \/ missing' = Append(missing, <<"NONE", Head(args)>>) /\ results' = results
         \/ missing' = missing /\ \E k, text : AddResult(k, text)
  BY DEF ParsePositional, AtArgument
<1>2. IsSequence(missing') /\ (Refuses => Refuses')
  <2>1. CASE missing' = Append(missing, <<"NONE", Head(args)>>)
    BY <2>1, MissingAdded
  <2>2. CASE missing' = missing
    BY <2>2 DEF UInv, Refuses
  <2> QED
    BY <1>1, <2>1, <2>2
<1>3. /\ \A m \in DOMAIN Options : m \in DOMAIN results' /\ IsSequence(results'[m])
      /\ Helped => Helped'
  <2>1. CASE results' = results
    BY <1>1, <2>1 DEF UInv, Helped
  <2>2. CASE \E k, text : AddResult(k, text)
    BY <1>1, <2>2, ResultAdded
  <2> QED
    BY <1>1, <2>1, <2>2
<1>4. ASSUME args \in Seq(Seq(STRING)), NEW p \in Nat, Behind(p)
      PROVE  args' \in Seq(Seq(STRING)) /\ p + 1 \in Nat /\ Behind(p + 1)'
  <2>1. Head(args) = given.args[p + 1]
    <3>1. 1 \in 1 .. Len(args) /\ Head(args) = args[1]
      BY <1>1, <1>4
    <3> QED
      BY <1>4, <3>1 DEF Behind
  <2>2. CASE positionalOnly
    <3>1. (p + 1) - 1 = p
      OBVIOUS
    <3>2. Excused(p + 1)
      BY <1>4, <2>2, <3>1 DEF Behind, Excused, Mark
    <3> QED
      BY <1>1, <1>2, <1>4, <3>2, OneTaken
  <2>3. CASE ~ positionalOnly
    <3>1. Recognize(Head(args)) = "NONE"
      BY <1>1, <2>3 DEF Class
    <3>2. Excused(p + 1)
      BY <2>1, <3>1 DEF Excused, LooksLikeOption
    <3> QED
      BY <1>1, <1>2, <1>4, <3>2, OneTaken
  <2> QED
    BY <2>2, <2>3
<1> QED
  BY <1>1, <1>2, <1>3, <1>4 DEF UInv

LEMMA HelpStep ==
  ASSUME UInv, ProcessHelp
  PROVE  UInv'
<1>1. /\ stage = "arguments" /\ args = <<>> /\ UNCHANGED <<given, options, results, missing>>
      /\ stage' = "thrown" \/ (stage' = "requirements" /\ ~ Helped)
  BY DEF ProcessHelp, collected, Throw, Helped
<1>2. ASSUME ~ Helped PROVE \A i \in DOMAIN given.args : Excused(i) \/ Refuses
  <2>1. PICK p \in Nat : Behind(p)
    BY <1>1, <1>2 DEF UInv
  <2>2. Len(given.args) \in Nat /\ DOMAIN given.args = 1 .. Len(given.args)
    BY DEF UInv
  <2>3. p = Len(given.args)
    BY <1>1, <2>1, <2>2 DEF Behind
  <2> QED
    BY <2>1, <2>2, <2>3 DEF Behind
<1>3. Refuses' = Refuses
  BY <1>1 DEF Refuses
<1>4. \A i : Excused(i)' = Excused(i)
  BY <1>1, SameExcuses
<1> QED
  BY <1>1, <1>2, <1>3, <1>4 DEF UInv

\* What follows leaves the line, the options and what was recorded alone.
LEMMA LaterStep ==
  ASSUME UInv, UNCHANGED <<given, options, results, missing>>,
         \/ stage = "requirements" /\ stage' \in {"callbacks", "thrown"}
         \/ stage = "callbacks" /\ stage' \in {"callbacks", "thrown"}
         \/ stage = "callbacks" /\ stage' = "parsed" /\ ~ Refuses
  PROVE  UInv'
<1>1. Refuses' = Refuses
  BY DEF Refuses
<1>2. \A i : Excused(i)' = Excused(i)
  BY SameExcuses
<1> QED
  BY <1>1, <1>2 DEF UInv

LEMMA BuildStep ==
  ASSUME UInv, Build
  PROVE  UInv'
<1>1. CASE AddOption
  <2> DEFINE new == Options[Len(options) + 1]
  <2>1. /\ stage = "building" /\ Len(options) < Len(Options)
        /\ stage' \in {"building", "thrown"}
        /\ options' = options \/ options' = Append(options, new)
        /\ UNCHANGED <<given, positionalOnly, results, missing>>
    BY <1>1 DEF AddOption, collected, Throw
  <2>2. /\ options \in Seq(OptionType) /\ Options \in Seq(OptionType)
        /\ \A k \in DOMAIN options : k \in DOMAIN Options /\ options[k] = Options[k]
    BY ArgumentAssumption DEF UInv
  <2>3. new \in OptionType /\ Len(options) + 1 \in DOMAIN Options
    BY <2>1, <2>2
  <2>4. /\ options' \in Seq(OptionType)
        /\ \A k \in DOMAIN options' : k \in DOMAIN Options /\ options'[k] = Options[k]
    <3>1. CASE options' = options
      BY <2>2, <3>1
    <3>2. CASE options' = Append(options, new)
      <4> HIDE DEF new
      <4>1. /\ options' \in Seq(OptionType) /\ Len(options) \in Nat
            /\ DOMAIN options' = 1 .. Len(options) + 1 /\ DOMAIN options = 1 .. Len(options)
            /\ options'[Len(options) + 1] = new
            /\ \A k \in 1 .. Len(options) : options'[k] = options[k]
        BY <2>2, <2>3, <3>2
      <4>2. \A k \in 1 .. Len(options) + 1 : k \in 1 .. Len(options) \/ k = Len(options) + 1
        BY <4>1
      <4> QED
        BY <2>2, <2>3, <4>1, <4>2 DEF new
    <3> QED
      BY <2>1, <3>1, <3>2
  <2> QED
    BY <2>1, <2>4 DEF UInv
<1>2. CASE StartParse
  <2>1. /\ stage = "building" /\ stage' = "arguments" /\ args' = given'.args
        /\ given' \in GivenLines /\ UNCHANGED <<options, positionalOnly, results, missing>>
        /\ ~ positionalOnly
    BY <1>2 DEF StartParse, UInv
  <2>2. given'.args \in Seq(Seq(STRING)) /\ Len(given'.args) \in Nat
    BY <2>1, ArgumentAssumption
  <2>3. 0 \in Nat /\ Behind(0)'
    BY <2>1, <2>2 DEF Behind
  <2> QED
    BY <2>1, <2>2, <2>3 DEF UInv
<1> QED
  BY <1>1, <1>2 DEF Build

LEMMA InitUInv == CommandInit => UInv
<1>1. <<>> \in Seq(Seq(STRING)) /\ <<>> \in Seq(OptionType) /\ DOMAIN <<>> = {}
  OBVIOUS
<1>2. IsSequence(<<>>)
  BY <1>1 DEF IsSequence
<1> QED
  BY <1>1, <1>2 DEF CommandInit, Init, UInv

LEMMA StepUInv ==
  ASSUME LettersAskForHelp, UInv, [Main]_cmdVars
  PROVE  UInv'
<1>1. CASE Build
  BY <1>1, BuildStep
<1>2. CASE Parse
  <2>1. CASE ParseMark \/ ParseUnknown \/ ParseFlag \/ ParseOption \/ ParsePositional
    BY <2>1, MarkStep, UnknownStep, FlagStep, OptionStep, PositionalStep
  <2>2. CASE ProcessHelp
    BY <2>2, HelpStep
  <2>3. CASE ProcessRequirements
    BY <2>3, LaterStep DEF ProcessRequirements, Throw, collected
  <2>4. CASE RunCallback
    BY <2>4, LaterStep DEF RunCallback, Throw, collected
  <2>5. CASE ProcessExtras
    BY <2>5, LaterStep DEF ProcessExtras, Throw, collected, Refuses
  <2> QED
    BY <1>2, <2>1, <2>2, <2>3, <2>4, <2>5 DEF Parse
<1>3. CASE UNCHANGED parserVars
  <2>1. UNCHANGED <<given, stage, options, args, positionalOnly, results, missing>>
    BY <1>3 DEF parserVars, collected
  <2>2. Helped' = Helped /\ Refuses' = Refuses /\ \A i : Excused(i)' = Excused(i)
    BY <2>1, SameExcuses DEF Helped, Refuses
  <2>3. \A p : Behind(p)' = Behind(p)
    BY <2>1, <2>2 DEF Behind
  <2> QED
    BY <2>1, <2>2, <2>3 DEF UInv
<1> QED
  BY <1>1, <1>2, <1>3
     DEF Main, BuildApp, ParseArguments, ParseThrew, CreateSimulator, LoadElf, LoadState,
         RunProgram, SaveState, cmdVars

\* An option the app does not have never starts the program: for every line, of
\* any length, and every app in which only the flags that ask for help have a
\* letter, as in main.cpp (MainLetters).
THEOREM UnknownRefused ==
  LettersAskForHelp => (CommandLineSpec => []UnknownOptionsAreRefused)
<1> SUFFICES ASSUME LettersAskForHelp PROVE CommandLineSpec => []UnknownOptionsAreRefused
  OBVIOUS
<1>1. UInv => UnknownOptionsAreRefused
  BY DEF UInv, UnknownOptionsAreRefused, Excused, Mark
<1>2. UInv /\ [Main]_cmdVars => UInv'
  BY StepUInv
<1>3. CommandInit => UInv
  BY InitUInv
<1> QED
  BY <1>1, <1>2, <1>3, PTL DEF CommandLineSpec

-----------------------------------------------------------------------------
(***************************************************************************)
(* SpellingAndOrderDoNotMatter, of an app with at most one positional.     *)
(*                                                                         *)
(* The argument: every spelling of a group is recognized for what it is    *)
(* and taken by its option as a whole (SpellingTaken), so that each turn   *)
(* of the loop goes from one group of the line to the next, and each       *)
(* option's results are its groups' strings in the order of the line       *)
(* (Collected).  At the end of the line they are the same for all          *)
(* spellings, and what is left of parse only looks at them.                *)
(***************************************************************************)
(***************************************************************************)
(* Sequences and numbers.                                                  *)
(***************************************************************************)
LEMMA Two ==
  ASSUME NEW C, NEW p \in C, NEW q \in C
  PROVE  /\ <<p, q>> \in Seq(C) /\ Len(<<p, q>>) = 2 /\ <<p, q>>[1] = p /\ <<p, q>>[2] = q
OBVIOUS

LEMMA Three ==
  ASSUME NEW C, NEW p \in C, NEW q \in C, NEW r \in C
  PROVE  /\ <<p, q, r>> \in Seq(C) /\ Len(<<p, q, r>>) = 3
         /\ <<p, q, r>>[1] = p /\ <<p, q, r>>[2] = q /\ <<p, q, r>>[3] = r
OBVIOUS

LEMMA Four ==
  ASSUME NEW C, NEW p \in C, NEW q \in C, NEW r \in C, NEW s \in C
  PROVE  /\ <<p, q, r, s>> \in Seq(C) /\ Len(<<p, q, r, s>>) = 4
         /\ <<p, q, r, s>>[1] = p /\ <<p, q, r, s>>[2] = q /\ <<p, q, r, s>>[3] = r
         /\ <<p, q, r, s>>[4] = s
OBVIOUS

LEMMA SubOne ==
  ASSUME NEW C, NEW a \in Seq(C), NEW i \in 1 .. Len(a)
  PROVE  SubSeq(a, i, i) = <<a[i]>>
<1> DEFINE d == SubSeq(a, i, i)
           e == <<a[i]>>
<1>1. d \in Seq(C) /\ Len(d) = 1 /\ d[1] = a[i]
  OBVIOUS
<1>2. e \in Seq(C) /\ Len(e) = 1 /\ e[1] = a[i]
  OBVIOUS
<1> HIDE DEF d, e
<1>3. d = e
  BY <1>1, <1>2
<1> QED
  BY <1>3 DEF d, e

LEMMA SubNone ==
  ASSUME NEW C, NEW a \in Seq(C), NEW i \in Nat, NEW j \in Nat, j < i
  PROVE  SubSeq(a, i, j) = <<>>
OBVIOUS

LEMMA AfterJoin ==
  ASSUME NEW C, NEW a \in Seq(C), NEW b \in Seq(C)
  PROVE  /\ a \o b \in Seq(C) /\ Len(a \o b) = Len(a) + Len(b)
         /\ \A i \in 1 .. Len(a) : (a \o b)[i] = a[i]
         /\ \A i \in 1 .. Len(b) : (a \o b)[Len(a) + i] = b[i]
         /\ SubSeq(a \o b, Len(a) + 1, Len(a \o b)) = b
<1> DEFINE c == a \o b
           d == SubSeq(c, Len(a) + 1, Len(c))
<1>1. /\ c \in Seq(C) /\ Len(c) = Len(a) + Len(b) /\ Len(a) \in Nat /\ Len(b) \in Nat
      /\ \A i \in 1 .. Len(a) : c[i] = a[i]
      /\ \A i \in 1 .. Len(b) : c[Len(a) + i] = b[i]
  OBVIOUS
<1> HIDE DEF c
<1>2. d \in Seq(C) /\ Len(d) = Len(b)
  BY <1>1
<1>3. \A i \in 1 .. Len(b) : d[i] = c[Len(a) + i]
  BY <1>1
<1> HIDE DEF d
<1>4. d = b
  BY <1>1, <1>2, <1>3
<1> QED
  BY <1>1, <1>4 DEF c, d

LEMMA MinIs ==
  ASSUME NEW T, T \subseteq Int, NEW n \in T, \A m \in T : n <= m
  PROVE  Min(T) = n
<1>1. \A m \in T : (\A j \in T : m <= j) => m = n
  OBVIOUS
<1> QED
  BY <1>1, Zenon DEF Min

LEMMA MaxIs ==
  ASSUME NEW T, T \subseteq Int, NEW n \in T, \A m \in T : m <= n
  PROVE  Max(T) = n
<1>1. \A m \in T : (\A j \in T : m >= j) => m = n
  OBVIOUS
<1>2. \A m \in T : n >= m
  OBVIOUS
<1> QED
  BY <1>1, <1>2, Zenon DEF Max

(***************************************************************************)
(* What the parser reads in an argument.  A name is a word that no part of *)
(* the syntax is made of.                                                  *)
(***************************************************************************)
Chars == STRING \cup {"-", "="}
WordNames == Chars \ {"-", "!", "="}

LEMMA EqualsIs ==
  ASSUME NEW b \in Seq(Chars), NEW p \in 1 .. Len(b), b[p] = "=",
         \A i \in 1 .. p - 1 : b[i] # "="
  PROVE  SelectInSeq(b, LAMBDA c : c = "=") = p
<1> DEFINE I == {i \in 1 .. Len(b) : b[i] = "="}
<1>1. SelectInSeq(b, LAMBDA c : c = "=") = IF I # {} THEN Min(I) ELSE 0
  BY DEF SelectInSeq
<1>2. I \subseteq Int /\ p \in I /\ \A m \in I : p <= m
  OBVIOUS
<1> HIDE DEF I
<1> QED
  BY <1>1, <1>2, MinIs

LEMMA OneMore ==
  ASSUME NEW C, NEW a \in Seq(C), NEW c \in C
  PROVE  /\ a \o <<c>> \in Seq(C) /\ Len(a \o <<c>>) = Len(a) + 1 /\ Len(a) \in Nat
         /\ \A i \in 1 .. Len(a) : (a \o <<c>>)[i] = a[i]
         /\ (a \o <<c>>)[Len(a) + 1] = c
OBVIOUS

\* Equals is the position of the first "=".
LEMMA EqualsAt ==
  ASSUME NEW a \in Seq(Chars), NEW p \in 1 .. Len(a) + 1,
         p <= Len(a) => a[p] = "=", \A i \in 1 .. p - 1 : a[i] # "="
  PROVE  Equals(a) = p
<1> DEFINE b == a \o <<"=">>
<1>1. "=" \in Chars
  BY DEF Chars
<1>2. /\ b \in Seq(Chars) /\ Len(b) = Len(a) + 1 /\ Len(a) \in Nat
      /\ \A i \in 1 .. Len(a) : b[i] = a[i]
      /\ b[Len(a) + 1] = "="
  BY <1>1, OneMore, Zenon
<1> HIDE DEF b
<1>3. p \in 1 .. Len(b) /\ b[p] = "="
  <2>1. CASE p <= Len(a)
    BY <1>2, <2>1
  <2>2. CASE p = Len(a) + 1
    BY <1>2, <2>2
  <2> QED
    BY <1>2, <2>1, <2>2
<1>4. \A i \in 1 .. p - 1 : b[i] # "="
  <2>1. \A i \in 1 .. p - 1 : i \in 1 .. Len(a)
    BY <1>2
  <2> QED
    BY <1>2, <2>1
<1>5. SelectInSeq(b, LAMBDA c : c = "=") = p
  BY <1>2, <1>3, <1>4, EqualsIs, Zenon
<1> QED
  BY <1>5, Zenon DEF Equals, b

\* The lexemes in front of a value, and the value.
LEMMA LongIs ==
  ASSUME NEW n \in WordNames, NEW a \in Seq(Chars), Len(a) > 2,
         a[1] = "-", a[2] = "-", a[3] = n
  PROVE  /\ SplitsLong(a) /\ Recognize(a) = "LONG" /\ Rest(a) = <<>>
<1>1. SplitsLong(a)
  BY DEF SplitsLong, FirstChar, WordNames
<1>2. a # <<"-", "-">>
  <2>1. Len(<<"-", "-">>) = 2
    OBVIOUS
  <2> QED
    BY <2>1
<1>3. Recognize(a) = "LONG"
  <2>1. ~ SplitsShort(a)
    BY DEF SplitsShort, FirstChar
  <2> QED
    BY <1>1, <1>2, <2>1, Zenon DEF Recognize
<1>4. Rest(a) = <<>>
  BY <1>1, Zenon DEF Rest
<1> QED
  BY <1>1, <1>3, <1>4

LEMMA LongAlone ==
  ASSUME NEW n \in WordNames, NEW a, a = <<"-", "-", n>>
  PROVE  /\ SplitsLong(a) /\ Recognize(a) = "LONG"
         /\ Name(a) = <<n>> /\ Value(a) = <<>> /\ Rest(a) = <<>>
<1>1. "-" \in Chars /\ n \in Chars /\ "=" \in Chars
  BY DEF Chars, WordNames
<1>2. a \in Seq(Chars) /\ Len(a) = 3 /\ a[1] = "-" /\ a[2] = "-" /\ a[3] = n
  BY <1>1, Three
<1>3. SplitsLong(a) /\ Recognize(a) = "LONG" /\ Rest(a) = <<>>
  <2>1. Len(a) > 2
    BY <1>2
  <2> QED
    BY <1>2, <2>1, LongIs, Zenon
<1>5. \A i \in 1 .. 4 - 1 : a[i] # "="
  <2>1. \A i \in 1 .. 4 - 1 : i = 1 \/ i = 2 \/ i = 3
    OBVIOUS
  <2> QED
    BY <1>2, <2>1 DEF WordNames
<1>6. Equals(a) = 4
  <2>1. 4 \in 1 .. Len(a) + 1 /\ ~ (4 <= Len(a))
    BY <1>2
  <2> QED
    BY <1>2, <1>5, <2>1, EqualsAt, Zenon
<1>7. SubSeq(a, 3, 4 - 1) = <<n>> /\ SubSeq(a, 4 + 1, Len(a)) = <<>>
  <2>1. 3 \in 1 .. Len(a) /\ 4 - 1 = 3 /\ 4 + 1 = 5 /\ 5 \in Nat /\ Len(a) \in Nat /\ Len(a) < 5
    BY <1>2
  <2> QED
    BY <1>2, <2>1, SubOne, SubNone
<1> QED
  BY <1>3, <1>6, <1>7, Zenon DEF Name, Value

LEMMA LongJoint ==
  ASSUME NEW n \in WordNames, NEW t \in Seq(Chars), NEW a, a = <<"-", "-", n, "=">> \o t
  PROVE  /\ SplitsLong(a) /\ Recognize(a) = "LONG"
         /\ Name(a) = <<n>> /\ Value(a) = t /\ Rest(a) = <<>>
<1> DEFINE h == <<"-", "-", n, "=">>
<1>1. "-" \in Chars /\ n \in Chars /\ "=" \in Chars
  BY DEF Chars, WordNames
<1>2. /\ h \in Seq(Chars) /\ Len(h) = 4
      /\ h[1] = "-" /\ h[2] = "-" /\ h[3] = n /\ h[4] = "="
  BY <1>1, Four
<1> HIDE DEF h
<1>3. /\ a \in Seq(Chars) /\ Len(a) = 4 + Len(t) /\ Len(t) \in Nat
      /\ \A i \in 1 .. 4 : a[i] = h[i]
      /\ SubSeq(a, 4 + 1, Len(a)) = t
  BY <1>2, AfterJoin DEF h
<1>4. a[1] = "-" /\ a[2] = "-" /\ a[3] = n /\ a[4] = "="
  BY <1>2, <1>3
<1>5. SplitsLong(a) /\ Recognize(a) = "LONG" /\ Rest(a) = <<>>
  <2>1. Len(a) > 2
    BY <1>3
  <2> QED
    BY <1>3, <1>4, <2>1, LongIs, Zenon
<1>7. \A i \in 1 .. 4 - 1 : a[i] # "="
  <2>1. \A i \in 1 .. 4 - 1 : i = 1 \/ i = 2 \/ i = 3
    OBVIOUS
  <2> QED
    BY <1>4, <2>1 DEF WordNames
<1>8. Equals(a) = 4
  <2>1. 4 \in 1 .. Len(a) + 1
    BY <1>3
  <2> QED
    BY <1>3, <1>4, <1>7, <2>1, EqualsAt, Zenon
<1>9. SubSeq(a, 3, 4 - 1) = <<n>>
  <2>1. 3 \in 1 .. Len(a) /\ 4 - 1 = 3
    BY <1>3
  <2>2. SubSeq(a, 3, 3) = <<a[3]>>
    BY <1>3, <2>1, SubOne
  <2> QED
    BY <1>3, <1>4, <2>1, <2>2, Zenon
<1> QED
  BY <1>3, <1>5, <1>8, <1>9, Zenon DEF Name, Value

\* "-n" and "-nvalue".
LEMMA ShortSplit ==
  ASSUME NEW n \in WordNames, NEW t \in Seq(Chars), NEW a, a = <<"-", n>> \o t,
         NEW k \in DOMAIN options, n \in options[k].shorts
  PROVE  /\ ~ SplitsLong(a) /\ Recognize(a) = "SHORT"
         /\ Name(a) = <<n>> /\ Value(a) = <<>> /\ Rest(a) = t
<1> DEFINE h == <<"-", n>>
<1>1. "-" \in Chars /\ n \in Chars
  BY DEF Chars, WordNames
<1>2. h \in Seq(Chars) /\ Len(h) = 2 /\ h[1] = "-" /\ h[2] = n
  BY <1>1, Two
<1> HIDE DEF h
<1>3. /\ a \in Seq(Chars) /\ Len(a) = 2 + Len(t) /\ Len(t) \in Nat
      /\ \A i \in 1 .. 2 : a[i] = h[i]
      /\ SubSeq(a, 2 + 1, Len(a)) = t
  BY <1>2, AfterJoin DEF h
<1>4. a[1] = "-" /\ a[2] = n
  BY <1>2, <1>3
<1>5. ~ SplitsLong(a) /\ SplitsShort(a)
  BY <1>3, <1>4 DEF SplitsLong, SplitsShort, FirstChar, WordNames
<1>6. a # <<"-", "-">>
  <2>1. <<"-", "-">>[2] = "-"
    OBVIOUS
  <2> QED
    BY <1>4, <2>1 DEF WordNames
<1>7. Recognize(a) = "SHORT"
  BY <1>4, <1>5, <1>6, Zenon DEF Recognize
<1>8. 2 + 1 = 3
  OBVIOUS
<1> QED
  BY <1>3, <1>4, <1>5, <1>7, <1>8, Zenon DEF Name, Value, Rest

(***************************************************************************)
(* How the arguments of a group are taken.                                 *)
(***************************************************************************)
\* No two options of the app share a name, as AddOption has it.
Apart ==
  \A j, k \in DOMAIN options :
    j # k => /\ options[j].longs \cap options[k].longs = {}
             /\ options[j].shorts \cap options[k].shorts = {}

LEMMA NameFound ==
  ASSUME IsSequence(options), Apart, NEW a, NEW k \in DOMAIN options, Names(options[k], a)
  PROVE  Find(a) = k
<1> DEFINE I == {i \in 1 .. Len(options) : Names(options[i], a)}
<1>1. Find(a) = IF I # {} THEN Min(I) ELSE 0
  BY DEF Find, SelectInSeq
<1>2. DOMAIN options = 1 .. Len(options) /\ Len(options) \in Nat
  BY DEF IsSequence
<1>3. \A i \in 1 .. Len(options) : Names(options[i], a) => i = k
  <2>1. SUFFICES ASSUME NEW i \in 1 .. Len(options), Names(options[i], a), i # k PROVE FALSE
    OBVIOUS
  <2>2. \A m, n : <<m>> = <<n>> => m = n
    OBVIOUS
  <2> QED
    BY <1>2, <2>1, <2>2 DEF Names, Apart
<1>4. k \in I /\ I \subseteq Int /\ \A m \in I : k <= m
  BY <1>2, <1>3
<1> HIDE DEF I
<1> QED
  BY <1>1, <1>4, MinIs

LEMMA NothingJoined ==
  ASSUME NEW C, NEW t \in Seq(C)
  PROVE  t \o <<>> = t /\ <<>> \o t = t
OBVIOUS

LEMMA NamesAreWords ==
  /\ options = Options => IsSequence(options)
  /\ \A k \in DOMAIN Options : \A n \in Options[k].longs \cup Options[k].shorts : n \in WordNames
<1>1. options = Options => IsSequence(options)
  BY ArgumentAssumption DEF IsSequence
<1>2. \A k \in DOMAIN Options : Options[k] \in OptionType
  BY ArgumentAssumption
<1> QED
  BY <1>1, <1>2, GroupsAssumption DEF OptionType, WordNames, Chars

\* What the parser makes of argument a.
ReadAs(a, class, k, value, rest) ==
  Recognize(a) = class /\ Find(a) = k /\ Value(a) = value /\ Rest(a) = rest

LEMMA LongRecognized ==
  ASSUME options = Options, Apart, NEW k \in DOMAIN Options, NEW n \in Options[k].longs,
         NEW a, a = <<"-", "-", n>>
  PROVE  ReadAs(a, "LONG", k, <<>>, <<>>)
<1>1. SplitsLong(a) /\ Recognize(a) = "LONG" /\ Name(a) = <<n>> /\ Value(a) = <<>> /\ Rest(a) = <<>>
  BY NamesAreWords, LongAlone
<1>2. Names(options[k], a)
  BY <1>1 DEF Names
<1> QED
  BY <1>1, <1>2, NamesAreWords, NameFound DEF ReadAs

LEMMA JointRecognized ==
  ASSUME options = Options, Apart, NEW k \in DOMAIN Options, NEW n \in Options[k].longs,
         NEW t \in Seq(Chars), NEW h, h = <<"-", "-", n, "=">>, NEW a, a = h \o t
  PROVE  ReadAs(a, "LONG", k, t, <<>>)
<1>1. SplitsLong(a) /\ Recognize(a) = "LONG" /\ Name(a) = <<n>> /\ Value(a) = t /\ Rest(a) = <<>>
  BY NamesAreWords, LongJoint
<1>2. Names(options[k], a)
  BY <1>1 DEF Names
<1> QED
  BY <1>1, <1>2, NamesAreWords, NameFound DEF ReadAs

LEMMA ShortRecognized ==
  ASSUME options = Options, Apart, NEW k \in DOMAIN Options, NEW n \in Options[k].shorts,
         NEW t \in Seq(Chars), NEW h, h = <<"-", n>>, NEW a, a = h \o t
  PROVE  ReadAs(a, "SHORT", k, <<>>, t)
<1>1. ~ SplitsLong(a) /\ Recognize(a) = "SHORT" /\ Name(a) = <<n>> /\ Value(a) = <<>> /\ Rest(a) = t
  BY NamesAreWords, ShortSplit
<1>2. Names(options[k], a)
  BY <1>1 DEF Names
<1> QED
  BY <1>1, <1>2, NamesAreWords, NameFound DEF ReadAs

\* How the first m of the arguments a, a spelling of group g, are taken.
Taken(a, m, g) ==
  LET k   == g.option
      own == Value(a[1]) \o Rest(a[1])
  IN IF Options[k].pname # ""
     THEN Recognize(a[1]) = "NONE" /\ a[1] = g.text /\ m = 1
     ELSE /\ Recognize(a[1]) \in {"LONG", "SHORT"} /\ Find(a[1]) = k
          /\ Options[k].flag =>
               /\ m = 1 /\ Rest(a[1]) = <<>>
               /\ (IF Value(a[1]) = <<>> THEN <<"true">> ELSE Value(a[1])) = g.text
          /\ ~ Options[k].flag =>
               \/ m = 1 /\ own = g.text /\ g.text # <<>>
               \/ m = 2 /\ a[2] = g.text /\ own = <<>>

LEMMA PlainOnes ==
  ASSUME options = Options, NEW a, Plain(a)
  PROVE  Recognize(a) = "NONE"
<1>1. a # <<"-", "-">> /\ ~ SplitsLong(a)
  BY DEF Plain
<1>2. SplitsShort(a) =>
        a[2] \in DOMAIN Numerals /\ \A k \in DOMAIN options : a[2] \notin options[k].shorts
  BY DEF Plain
<1>3. CASE SplitsShort(a)
  BY <1>1, <1>2, <1>3, Zenon DEF Recognize
<1>4. CASE ~ SplitsShort(a)
  BY <1>1, <1>4, Zenon DEF Recognize
<1> QED
  BY <1>3, <1>4

LEMMA SpellingTaken ==
  ASSUME options = Options, Apart, NEW g \in Group, g.option \in DOMAIN Options,
         NEW s, Spells(s, g)
  PROVE  Taken(s, Len(s), g) /\ Len(s) \in 1 .. 2
<1> DEFINE k     == g.option
           o     == Options[k]
           t     == g.text
           named == {<<"-", "-", n, "=">> : n \in o.longs}
           short == {<<"-", n>> : n \in o.shorts}
           alone == {<<"-", "-", n>> : n \in o.longs} \cup named \cup short
           joint == named \cup (IF o.flag THEN {} ELSE short)
<1>0. k \in DOMAIN Options
  OBVIOUS
<1>1. t \in Seq(Chars) /\ <<>> \in Seq(Chars)
  <2>1. t \in Seq(STRING)
    BY DEF Group
  <2> QED
    BY <2>1 DEF Chars
<1>2. ASSUME NEW a \in alone
      PROVE  Recognize(a) \in {"LONG", "SHORT"} /\ Find(a) = k /\ Value(a) = <<>> /\ Rest(a) = <<>>
  <2>1. CASE a \in {<<"-", "-", n>> : n \in o.longs}
    BY <2>1, LongRecognized DEF ReadAs
  <2>2. CASE a \in named
    <3>1. PICK n \in o.longs : a = <<"-", "-", n, "=">>
      BY <2>2
    <3>2. <<"-", "-", n, "=">> \o <<>> = <<"-", "-", n, "=">>
      OBVIOUS
    <3>3. PICK u \in Seq(Chars) : u = <<>>
      BY <1>1
    <3>4. a = a \o u
      BY <3>1, <3>2, <3>3, Zenon
    <3>5. ReadAs(a, "LONG", k, u, <<>>)
      BY <1>0, <3>1, <3>4, JointRecognized, Zenon
    <3> QED
      BY <3>3, <3>5 DEF ReadAs
  <2>3. CASE a \in short
    <3>1. PICK n \in o.shorts : a = <<"-", n>>
      BY <2>3
    <3>2. <<"-", n>> \o <<>> = <<"-", n>>
      OBVIOUS
    <3>3. PICK u \in Seq(Chars) : u = <<>>
      BY <1>1
    <3>4. a = a \o u
      BY <3>1, <3>2, <3>3, Zenon
    <3>5. ReadAs(a, "SHORT", k, <<>>, u)
      BY <1>0, <3>1, <3>4, ShortRecognized, Zenon
    <3> QED
      BY <3>3, <3>5 DEF ReadAs
  <2> QED
    BY <2>1, <2>2, <2>3
<1>3. ASSUME NEW h \in joint
      PROVE  /\ Recognize(h \o t) \in {"LONG", "SHORT"} /\ Find(h \o t) = k
             /\ \/ Value(h \o t) = t /\ Rest(h \o t) = <<>>
                \/ Value(h \o t) = <<>> /\ Rest(h \o t) = t /\ ~ o.flag
  <2> DEFINE a == h \o t
  <2>1. CASE h \in named
    <3>1. PICK n \in o.longs : h = <<"-", "-", n, "=">>
      BY <2>1
    <3>2. ReadAs(a, "LONG", k, t, <<>>)
      BY <1>0, <1>1, <3>1, JointRecognized, Zenon
    <3> QED
      BY <3>2 DEF a, ReadAs
  <2>2. CASE h \in short /\ ~ o.flag
    <3>1. PICK n \in o.shorts : h = <<"-", n>>
      BY <2>2
    <3>2. ReadAs(a, "SHORT", k, <<>>, t)
      BY <1>0, <1>1, <3>1, ShortRecognized, Zenon
    <3> QED
      BY <2>2, <3>2 DEF a, ReadAs
  <2> QED
    BY <1>3, <2>1, <2>2
<1>4. t \o <<>> = t /\ <<>> \o t = t /\ <<>> \o <<>> = <<>>
  BY <1>1, NothingJoined
<1>5. \A a : Len(<<a>>) = 1 /\ <<a>>[1] = a
  OBVIOUS
<1>6. \A a, b : Len(<<a, b>>) = 2 /\ <<a, b>>[1] = a /\ <<a, b>>[2] = b
  OBVIOUS
<1>7. IF o.pname # "" THEN Plain(t) /\ s = <<t>>
      ELSE \/ o.flag /\ t = <<"true">> /\ \E a \in alone : s = <<a>>
           \/ ~ o.flag /\ \E a \in alone : s = <<a, t>>
           \/ t # <<>> /\ \E a \in joint : s = <<a \o t>>
  BY Zenon DEF Spells
<1>8. 1 \in 1 .. 2 /\ 2 \in 1 .. 2
  OBVIOUS
<1> HIDE DEF alone, joint, named, short
<1>9. CASE o.pname # ""
  BY <1>5, <1>7, <1>8, <1>9, PlainOnes, Zenon DEF Taken
<1>10. CASE ~ (o.pname # "")
  <2>1. CASE o.flag /\ t = <<"true">> /\ \E a \in alone : s = <<a>>
    <3>1. PICK a \in alone : s = <<a>>
      BY <2>1
    <3>2. Recognize(a) \in {"LONG", "SHORT"} /\ Find(a) = k /\ Value(a) = <<>> /\ Rest(a) = <<>>
      BY <1>2
    <3>3. Len(s) = 1 /\ s[1] = a
      BY <1>5, <3>1, Zenon
    <3> QED
      BY <1>8, <1>10, <2>1, <3>2, <3>3, Zenon DEF Taken
  <2>2. CASE ~ o.flag /\ \E a \in alone : s = <<a, t>>
    <3>1. PICK a \in alone : s = <<a, t>>
      BY <2>2
    <3>2. Recognize(a) \in {"LONG", "SHORT"} /\ Find(a) = k /\ Value(a) = <<>> /\ Rest(a) = <<>>
      BY <1>2
    <3>3. Len(s) = 2 /\ s[1] = a /\ s[2] = t
      BY <1>6, <3>1, Zenon
    <3> QED
      BY <1>4, <1>8, <1>10, <2>2, <3>2, <3>3, Zenon DEF Taken
  <2>3. CASE t # <<>> /\ \E a \in joint : s = <<a \o t>>
    <3>1. PICK h \in joint : s = <<h \o t>>
      BY <2>3
    <3> DEFINE a == h \o t
    <3>2. /\ Recognize(a) \in {"LONG", "SHORT"} /\ Find(a) = k
          /\ \/ Value(a) = t /\ Rest(a) = <<>>
             \/ Value(a) = <<>> /\ Rest(a) = t /\ ~ o.flag
          /\ Len(s) = 1 /\ s[1] = a
      BY <1>3, <1>5, <3>1, Zenon
    <3> HIDE DEF a
    <3> QED
      BY <1>4, <1>8, <1>10, <2>3, <3>2, Zenon DEF Taken
  <2> QED
    BY <1>7, <1>10, <2>1, <2>2, <2>3
<1> QED
  BY <1>9, <1>10

(***************************************************************************)
(* Of line l: the groups of option k among its first j, and those of them  *)
(* the option gets; a positional gets the first only.                      *)
(***************************************************************************)
Upto(l, k, j) == {i \in 1 .. j : l.groups[i].option = k}

Chosen(l, k, j) ==
  IF Options[k].pname # "" THEN {i \in Upto(l, k, j) : \A m \in Upto(l, k, j) : i <= m}
  ELSE Upto(l, k, j)

\* The strings s are those of the groups I, in the order of the line.
Lists(l, s, I) ==
  /\ IsSequence(s)
  /\ \E f \in [1 .. Len(s) -> I] :
       /\ \A m, p \in 1 .. Len(s) : m < p => f[m] < f[p]
       /\ \A i \in I : \E m \in 1 .. Len(s) : f[m] = i
       /\ \A m \in 1 .. Len(s) : s[m] = l.groups[f[m]].text

LEMMA ListsNothing ==
  ASSUME NEW l
  PROVE  Lists(l, <<>>, {})
<1>1. IsSequence(<<>>) /\ Len(<<>>) = 0 /\ 1 .. 0 = {}
  <2>1. <<>> \in Seq({})
    OBVIOUS
  <2> QED
    BY <2>1 DEF IsSequence
<1> DEFINE f == [m \in {} |-> 0]
<1>2. f \in [{} -> {}]
  OBVIOUS
<1> QED
  BY <1>1, <1>2 DEF Lists

LEMMA ListsAppend ==
  ASSUME NEW l, NEW s, NEW I \in SUBSET Nat, Lists(l, s, I),
         NEW j \in Nat, \A i \in I : i < j
  PROVE  Lists(l, Append(s, l.groups[j].text), I \cup {j})
<1> DEFINE t == l.groups[j].text
           u == Append(s, t)
           J == I \cup {j}
<1>1. PICK f \in [1 .. Len(s) -> I] :
         /\ \A m, p \in 1 .. Len(s) : m < p => f[m] < f[p]
         /\ \A i \in I : \E m \in 1 .. Len(s) : f[m] = i
         /\ \A m \in 1 .. Len(s) : s[m] = l.groups[f[m]].text
  BY DEF Lists
<1>2. /\ IsSequence(u) /\ Len(s) \in Nat /\ Len(u) = Len(s) + 1 /\ u[Len(s) + 1] = t
      /\ \A m \in 1 .. Len(s) : u[m] = s[m]
  BY Longer DEF Lists
<1> DEFINE n == Len(s)
           g == [m \in 1 .. n + 1 |-> IF m = n + 1 THEN j ELSE f[m]]
<1> HIDE DEF u, t
<1>3. \A m \in 1 .. n + 1 : m = n + 1 \/ m \in 1 .. n
  BY <1>2
<1>4. g[n + 1] = j /\ \A m \in 1 .. n : g[m] = f[m] /\ f[m] \in I
  BY <1>2
<1>5. g \in [1 .. n + 1 -> J]
  BY <1>3
<1> HIDE DEF g
<1>6. \A m, p \in 1 .. n + 1 : m < p => g[m] < g[p]
  <2>1. SUFFICES ASSUME NEW m \in 1 .. n + 1, NEW p \in 1 .. n + 1, m < p PROVE g[m] < g[p]
    OBVIOUS
  <2>2. m \in 1 .. n
    BY <1>2, <2>1
  <2>3. CASE p = n + 1
    BY <1>4, <2>2, <2>3
  <2>4. CASE p \in 1 .. n
    BY <1>1, <1>4, <2>1, <2>2, <2>4
  <2> QED
    BY <1>3, <2>3, <2>4
<1>7. \A i \in J : \E m \in 1 .. n + 1 : g[m] = i
  <2>1. n + 1 \in 1 .. n + 1 /\ \A m \in 1 .. n : m \in 1 .. n + 1
    BY <1>2
  <2> QED
    BY <1>1, <1>4, <2>1
<1>8. \A m \in 1 .. n + 1 : u[m] = l.groups[g[m]].text
  BY <1>1, <1>2, <1>3, <1>4 DEF t
<1>9. Lists(l, u, J)
  BY <1>2, <1>5, <1>6, <1>7, <1>8 DEF Lists
<1> QED
  BY <1>9 DEF u, t

LEMMA ListsFacts ==
  ASSUME NEW l, NEW s, NEW I \in SUBSET Nat, Lists(l, s, I)
  PROVE  /\ s = <<>> <=> I = {}
         /\ ToSet(s) = {l.groups[i].text : i \in I}
         /\ Len(s) > 1 <=> \E i, j \in I : i # j
         /\ I # {} => Last(s) = l.groups[Max(I)].text
<1>1. PICK f \in [1 .. Len(s) -> I] :
         /\ \A m, p \in 1 .. Len(s) : m < p => f[m] < f[p]
         /\ \A i \in I : \E m \in 1 .. Len(s) : f[m] = i
         /\ \A m \in 1 .. Len(s) : s[m] = l.groups[f[m]].text
  BY DEF Lists
<1>0. /\ \A i \in I : i \in Nat
      /\ \A p, q \in Nat : p < q => p # q /\ p <= q
      /\ \A p \in Nat : p <= p
  OBVIOUS
<1>2. PICK S : s \in Seq(S)
  BY DEF Lists, IsSequence
<1>3. Len(s) \in Nat /\ DOMAIN s = 1 .. Len(s) /\ (s = <<>> <=> Len(s) = 0)
  BY <1>2
<1> DEFINE n == Len(s)
<1> HIDE DEF n
<1>4. n \in Nat /\ n = Len(s)
  BY <1>3 DEF n
<1>5. I = {} <=> n = 0
  <2>1. CASE n = 0
    BY <1>1, <1>4, <2>1
  <2>2. CASE n # 0
    <3>1. 1 \in 1 .. n
      BY <1>4, <2>2
    <3> QED
      BY <1>1, <1>4, <2>2, <3>1
  <2> QED
    BY <2>1, <2>2
<1>6. ToSet(s) = {l.groups[i].text : i \in I}
  <2>1. ToSet(s) = {s[m] : m \in 1 .. n}
    BY <1>3, <1>4 DEF ToSet
  <2>2. \A m \in 1 .. n : s[m] = l.groups[f[m]].text /\ f[m] \in I
    BY <1>1, <1>4
  <2>3. \A i \in I : \E m \in 1 .. n : s[m] = l.groups[i].text
    BY <1>1, <1>4
  <2>4. ASSUME NEW x PROVE (\E m \in 1 .. n : x = s[m]) <=> (\E i \in I : x = l.groups[i].text)
    <3>1. ASSUME NEW m \in 1 .. n, x = s[m] PROVE \E i \in I : x = l.groups[i].text
      BY <2>2, <3>1
    <3>2. ASSUME NEW i \in I, x = l.groups[i].text PROVE \E m \in 1 .. n : x = s[m]
      BY <2>3, <3>2
    <3> QED
      BY <3>1, <3>2
  <2> QED
    BY <2>1, <2>4, Zenon
<1>7. n > 1 <=> \E i, j \in I : i # j
  <2>1. ASSUME n > 1 PROVE \E i, j \in I : i # j
    <3>1. 1 \in 1 .. n /\ 2 \in 1 .. n /\ 1 < 2
      BY <1>4, <2>1
    <3>2. f[1] < f[2] /\ f[1] \in I /\ f[2] \in I
      BY <1>1, <1>4, <3>1
    <3>3. f[1] # f[2]
      BY <1>0, <3>2, Zenon
    <3> QED
      BY <3>2, <3>3
  <2>2. ASSUME NEW i \in I, NEW j \in I, i # j PROVE n > 1
    <3>1. PICK m \in 1 .. n, p \in 1 .. n : f[m] = i /\ f[p] = j
      BY <1>1, <1>4
    <3>2. m # p
      BY <2>2, <3>1
    <3> QED
      BY <1>4, <3>1, <3>2
  <2> QED
    BY <2>1, <2>2
<1>8. ASSUME I # {} PROVE Last(s) = l.groups[Max(I)].text
  <2>1. n \in 1 .. n
    <3>1. n # 0
      BY <1>5, <1>8, Zenon
    <3> QED
      BY <1>4, <3>1
  <2>2. f[n] \in I /\ s[n] = l.groups[f[n]].text
    BY <1>1, <1>4, <2>1
  <2>3. \A i \in I : i <= f[n]
    <3>1. SUFFICES ASSUME NEW i \in I PROVE i <= f[n]
      OBVIOUS
    <3>2. PICK m \in 1 .. n : f[m] = i
      BY <1>1, <1>4
    <3>3. m < n \/ m = n
      BY <1>4
    <3>4. m < n => f[m] < f[n]
      BY <1>1, <1>4, <2>1
    <3> QED
      BY <1>0, <2>2, <3>2, <3>3, <3>4, Zenon
  <2>4. Max(I) = f[n]
    <3>1. I \subseteq Int
      OBVIOUS
    <3> QED
      BY <2>2, <2>3, <3>1, MaxIs
  <2> QED
    BY <1>4, <2>2, <2>4 DEF Last
<1> QED
  BY <1>3, <1>4, <1>5, <1>6, <1>7, <1>8

\* Some positional has two groups among the first j.
Twice(l, j) ==
  \E k \in DOMAIN Options : Options[k].pname # "" /\ \E i, m \in Upto(l, k, j) : i # m

(***************************************************************************)
(* The results r and the missing arguments mis of a loop that has the      *)
(* first j groups of line l behind it.                                     *)
(***************************************************************************)
Collected(l, j, r, mis) ==
  /\ \A k \in DOMAIN Options : k \in DOMAIN r /\ Lists(l, r[k], Chosen(l, k, j))
  /\ IsSequence(mis)
  /\ (\E m \in DOMAIN mis : mis[m][1] # "MARK") <=> Twice(l, j)

LEMMA ChosenFacts ==
  ASSUME NEW l, NEW k, NEW j \in Nat
  PROVE  /\ Upto(l, k, j) \in SUBSET Nat /\ Chosen(l, k, j) \in SUBSET Nat
         /\ \A i \in Upto(l, k, j) : i < j + 1
         /\ \A i \in Chosen(l, k, j) : i < j + 1
         /\ Chosen(l, k, j) = {} <=> Upto(l, k, j) = {}
<1> DEFINE U == Upto(l, k, j)
           C == Chosen(l, k, j)
<1>1. U \subseteq Nat /\ \A i \in U : i < j + 1
  BY DEF Upto
<1> HIDE DEF U
<1>2. C = IF Options[k].pname # "" THEN {i \in U : \A m \in U : i <= m} ELSE U
  BY DEF Chosen, U
<1> HIDE DEF C
<1>3. C \subseteq U
  BY <1>2
<1>4. ASSUME U # {} PROVE C # {}
  <2>1. \E x \in U : \A y \in U : x <= y
    BY <1>1, <1>4, HasLeast
  <2> QED
    BY <1>2, <2>1
<1> QED
  BY <1>1, <1>3, <1>4 DEF U, C

LEMMA UptoNext ==
  ASSUME NEW l, NEW k, NEW j \in Nat
  PROVE  Upto(l, k, j + 1) =
           IF l.groups[j + 1].option = k THEN Upto(l, k, j) \cup {j + 1} ELSE Upto(l, k, j)
<1>1. \A i : i \in 1 .. j + 1 <=> i \in 1 .. j \/ i = j + 1
  OBVIOUS
<1>2. CASE l.groups[j + 1].option = k
  <2>1. \A i : i \in Upto(l, k, j + 1) <=> i \in Upto(l, k, j) \cup {j + 1}
    BY <1>1, <1>2, Zenon DEF Upto
  <2> QED
    BY <1>2, <2>1, Zenon
<1>3. CASE l.groups[j + 1].option # k
  <2>1. \A i : i \in Upto(l, k, j + 1) <=> i \in Upto(l, k, j)
    BY <1>1, <1>3, Zenon DEF Upto
  <2> QED
    BY <1>3, <2>1, Zenon
<1> QED
  BY <1>2, <1>3

LEMMA ChosenNext ==
  ASSUME NEW l, NEW k, NEW j \in Nat
  PROVE  Chosen(l, k, j + 1) =
           IF l.groups[j + 1].option = k /\ (Options[k].pname = "" \/ Upto(l, k, j) = {})
           THEN Chosen(l, k, j) \cup {j + 1} ELSE Chosen(l, k, j)
<1> DEFINE U == Upto(l, k, j)
           V == Upto(l, k, j + 1)
<1>1. CASE l.groups[j + 1].option # k
  <2>1. V = U
    BY <1>1, UptoNext, Zenon
  <2> QED
    BY <1>1, <2>1, Zenon DEF Chosen
<1>2. CASE l.groups[j + 1].option = k
  <2>1. V = U \cup {j + 1}
    BY <1>2, UptoNext, Zenon
  <2>2. U \subseteq Nat /\ \A i \in U : i < j + 1
    BY ChosenFacts
  <2>3. Chosen(l, k, j) = IF Options[k].pname # "" THEN {i \in U : \A m \in U : i <= m} ELSE U
    BY Zenon DEF Chosen
  <2>4. Chosen(l, k, j + 1) = IF Options[k].pname # "" THEN {i \in V : \A m \in V : i <= m} ELSE V
    BY Zenon DEF Chosen
  <2> HIDE DEF U, V
  <2>5. CASE Options[k].pname = ""
    BY <1>2, <2>1, <2>3, <2>4, <2>5, Zenon
  <2>6. CASE Options[k].pname # "" /\ U = {}
    <3>1. V = {j + 1} /\ {i \in V : \A m \in V : i <= m} = {j + 1}
      <4>1. V = {j + 1}
        BY <2>1, <2>6
      <4>2. j + 1 <= j + 1
        OBVIOUS
      <4> QED
        BY <4>1, <4>2
    <3>2. {i \in U : \A m \in U : i <= m} = {}
      BY <2>6
    <3> QED
      BY <1>2, <2>3, <2>4, <2>6, <3>1, <3>2, Zenon DEF U
  <2>7. CASE Options[k].pname # "" /\ U # {}
    <3>1. {i \in V : \A m \in V : i <= m} = {i \in U : \A m \in U : i <= m}
      <4>1. \A i \in U : i <= j + 1
        BY <2>2
      <4>2. \A i \in {j + 1} : \E m \in U : ~ (i <= m)
        <5>1. PICK m \in U : m \in Nat /\ m < j + 1
          BY <2>2, <2>7
        <5>2. ~ (j + 1 <= m)
          BY <5>1
        <5> QED
          BY <5>2
      <4>3. ASSUME NEW i
            PROVE  i \in V /\ (\A m \in V : i <= m) <=> i \in U /\ (\A m \in U : i <= m)
        BY <2>1, <4>1, <4>2, Zenon
      <4> QED
        BY <4>3, Zenon
    <3> QED
      BY <1>2, <2>3, <2>4, <2>7, <3>1, Zenon DEF U
  <2> QED
    BY <2>5, <2>6, <2>7
<1> QED
  BY <1>1, <1>2

LEMMA CollectedNothing ==
  ASSUME NEW l, NEW r, \A k \in DOMAIN Options : k \in DOMAIN r /\ r[k] = <<>>
  PROVE  Collected(l, 0, r, <<>>)
<1>1. \A k : Upto(l, k, 0) = {}
  <2>1. 1 .. 0 = {}
    OBVIOUS
  <2> QED
    BY <2>1 DEF Upto
<1>2. \A k : Chosen(l, k, 0) = {}
  BY <1>1 DEF Chosen
<1>3. IsSequence(<<>>) /\ DOMAIN <<>> = {}
  <2>1. <<>> \in Seq({}) /\ DOMAIN <<>> = {}
    OBVIOUS
  <2> QED
    BY <2>1 DEF IsSequence
<1>4. ~ Twice(l, 0)
  BY <1>1 DEF Twice
<1> QED
  BY <1>2, <1>3, <1>4, ListsNothing DEF Collected

\* Option k gets the string of group i, or leaves one that no option takes.
Gets(l, i, k, r, mis, r2, mis2) ==
  /\ Options[k].pname = "" \/ r[k] = <<>>
  /\ r2 = [r EXCEPT ![k] = Append(@, l.groups[i].text)] /\ mis2 = mis

Leaves(k, r, mis, r2, mis2) ==
  /\ Options[k].pname # "" /\ r[k] # <<>>
  /\ r2 = r /\ \E x : mis2 = Append(mis, <<"NONE", x>>)

\* The option of the next group gets its string, unless it is a positional that
\* has one: then nobody does.
LEMMA CollectedNext ==
  ASSUME NEW l, NEW j \in Nat, NEW k \in DOMAIN Options, l.groups[j + 1].option = k,
         NEW r, NEW mis, NEW r2, NEW mis2, Collected(l, j, r, mis),
         Gets(l, j + 1, k, r, mis, r2, mis2) \/ Leaves(k, r, mis, r2, mis2)
  PROVE  Collected(l, j + 1, r2, mis2)
<1>1. /\ \A m \in DOMAIN Options : m \in DOMAIN r /\ Lists(l, r[m], Chosen(l, m, j))
      /\ IsSequence(mis)
      /\ (\E m \in DOMAIN mis : mis[m][1] # "MARK") <=> Twice(l, j)
  BY DEF Collected
<1>2. j + 1 \in Nat /\ (r[k] = <<>> <=> Upto(l, k, j) = {})
  <2>1. /\ Chosen(l, k, j) \in SUBSET Nat
        /\ Chosen(l, k, j) = {} <=> Upto(l, k, j) = {}
    BY ChosenFacts
  <2>2. r[k] = <<>> <=> Chosen(l, k, j) = {}
    BY <1>1, <2>1, ListsFacts, Zenon
  <2> QED
    BY <2>1, <2>2
<1>3. \A m \in DOMAIN Options : m # k =>
        Upto(l, m, j + 1) = Upto(l, m, j) /\ Chosen(l, m, j + 1) = Chosen(l, m, j)
  BY UptoNext, ChosenNext
<1>4. Upto(l, k, j + 1) = Upto(l, k, j) \cup {j + 1} /\ j + 1 \notin Upto(l, k, j)
  <2>1. \A i \in Upto(l, k, j) : i < j + 1 /\ i \in Nat
    BY ChosenFacts
  <2>2. ~ (j + 1 < j + 1)
    OBVIOUS
  <2> QED
    BY <2>1, <2>2, UptoNext, Zenon
<1>5. CASE Gets(l, j + 1, k, r, mis, r2, mis2)
  <2>1. Chosen(l, k, j + 1) = Chosen(l, k, j) \cup {j + 1}
    BY <1>2, <1>5, ChosenNext, Zenon DEF Gets
  <2>2. Lists(l, Append(r[k], l.groups[j + 1].text), Chosen(l, k, j + 1))
    <3>1. Chosen(l, k, j) \in SUBSET Nat /\ \A i \in Chosen(l, k, j) : i < j + 1
      BY ChosenFacts
    <3>2. Lists(l, r[k], Chosen(l, k, j))
      BY <1>1
    <3>3. Lists(l, Append(r[k], l.groups[j + 1].text), Chosen(l, k, j) \cup {j + 1})
      BY <1>2, <3>1, <3>2, ListsAppend
    <3> QED
      BY <2>1, <3>3, Zenon
  <2>3. \A m \in DOMAIN Options : m \in DOMAIN r2 /\ Lists(l, r2[m], Chosen(l, m, j + 1))
    BY <1>1, <1>3, <1>5, <2>2 DEF Gets
  <2>4. Twice(l, j + 1) <=> Twice(l, j)
    <3>1. Options[k].pname # "" => Upto(l, k, j) = {} /\ Upto(l, k, j + 1) = {j + 1}
      BY <1>2, <1>4, <1>5 DEF Gets
    <3>2. \A i, m \in {j + 1} : i = m
      OBVIOUS
    <3>3. ASSUME NEW m \in DOMAIN Options, Options[m].pname # ""
          PROVE  (\E i, p \in Upto(l, m, j + 1) : i # p) <=> (\E i, p \in Upto(l, m, j) : i # p)
      <4>1. CASE m = k
        BY <3>1, <3>2, <3>3, <4>1
      <4>2. CASE m # k
        BY <1>3, <4>2, Zenon
      <4> QED
        BY <4>1, <4>2
    <3> QED
      BY <3>3, Zenon DEF Twice
  <2> QED
    BY <1>1, <1>5, <2>3, <2>4 DEF Collected, Gets
<1>6. CASE Leaves(k, r, mis, r2, mis2)
  <2>1. Chosen(l, k, j + 1) = Chosen(l, k, j)
    BY <1>2, <1>6, ChosenNext DEF Leaves
  <2>2. Twice(l, j + 1)
    <3>1. PICK i \in Upto(l, k, j) : TRUE
      BY <1>2, <1>6 DEF Leaves
    <3>2. i \in Upto(l, k, j + 1) /\ j + 1 \in Upto(l, k, j + 1) /\ i # j + 1
      BY <1>4, Zenon
    <3> QED
      BY <1>6, <3>2, Zenon DEF Twice, Leaves
  <2>3. IsSequence(mis2) /\ \E m \in DOMAIN mis2 : mis2[m][1] # "MARK"
    <3>1. PICK x : mis2 = Append(mis, <<"NONE", x>>)
      BY <1>6 DEF Leaves
    <3> DEFINE e == <<"NONE", x>>
    <3>2. e[1] # "MARK"
      OBVIOUS
    <3> HIDE DEF e
    <3>3. mis2 = Append(mis, e)
      BY <3>1 DEF e
    <3> QED
      BY <1>1, <3>2, <3>3, Longer
  <2>4. \A m \in DOMAIN Options : m \in DOMAIN r2 /\ Lists(l, r2[m], Chosen(l, m, j + 1))
    BY <1>1, <1>3, <1>6, <2>1 DEF Leaves
  <2> QED
    BY <2>2, <2>3, <2>4 DEF Collected
<1> QED
  BY <1>5, <1>6

\* The arguments a are what is left of line l after its first j groups.
At(l, cut, j, a) ==
  /\ CutBy(l, cut) /\ j \in 0 .. Len(l.groups)
  /\ a \in Seq(Seq(STRING))
  /\ Len(a) = Len(l.args) - cut[j]
  /\ \A i \in 1 .. Len(a) : a[i] = l.args[cut[j] + i]

LEMMA Part ==
  ASSUME NEW C, NEW a \in Seq(C), NEW p \in 0 .. Len(a), NEW q \in 0 .. Len(a)
  PROVE  /\ Len(SubSeq(a, p + 1, q)) = IF p <= q THEN q - p ELSE 0
         /\ \A i \in 1 .. Len(SubSeq(a, p + 1, q)) : SubSeq(a, p + 1, q)[i] = a[p + i]
<1>1. Len(a) \in Nat
  OBVIOUS
<1> QED
  BY <1>1

LEMMA NextSpelling ==
  ASSUME options = Options, Apart, NEW l \in GivenLines, NEW cut, NEW j, NEW a,
         At(l, cut, j, a), a # <<>>
  PROVE  /\ j \in Nat /\ j + 1 \in 1 .. Len(l.groups)
         /\ l.groups[j + 1].option \in DOMAIN Options
         /\ \E m \in 1 .. 2 :
              /\ m <= Len(a) /\ Taken(a, m, l.groups[j + 1])
              /\ \A b \in Seq(Seq(STRING)) :
                   Len(b) = Len(a) - m /\ (\A i \in 1 .. Len(b) : b[i] = a[m + i])
                   => At(l, cut, j + 1, b)
<1> DEFINE n == Len(l.groups)
           g == l.groups[j + 1]
           s == SubSeq(l.args, cut[j] + 1, cut[j + 1])
<1>1. l.args \in Seq(Seq(STRING)) /\ l.groups \in Seq(Group)
  BY ArgumentAssumption
<1>2. n \in Nat /\ Len(l.args) \in Nat /\ DOMAIN l.groups = 1 .. n
  BY <1>1
<1>3. /\ j \in 0 .. n /\ cut \in [0 .. n -> 0 .. Len(l.args)]
      /\ cut[n] = Len(l.args)
      /\ \A i \in 1 .. n : /\ l.groups[i].option \in DOMAIN Options
                           /\ Spells(SubSeq(l.args, cut[i - 1] + 1, cut[i]), l.groups[i])
  BY Zenon DEF At, CutBy
<1>4. /\ a \in Seq(Seq(STRING)) /\ Len(a) = Len(l.args) - cut[j]
      /\ \A i \in 1 .. Len(a) : a[i] = l.args[cut[j] + i]
  BY DEF At
<1>5. cut[j] \in 0 .. Len(l.args)
  BY <1>3
<1>6. Len(a) \in Nat /\ Len(a) # 0
  BY <1>4
<1> HIDE DEF n
<1>7. j # n
  BY <1>2, <1>3, <1>4, <1>6
<1>8. j \in Nat /\ j + 1 \in 1 .. n /\ j + 1 \in 0 .. n /\ (j + 1) - 1 = j
  BY <1>2, <1>3, <1>7
<1>9. cut[j + 1] \in 0 .. Len(l.args) /\ g.option \in DOMAIN Options /\ Spells(s, g)
  BY <1>3, <1>8
<1>10. g \in Group
  BY <1>1, <1>2, <1>8
<1>11. Taken(s, Len(s), g) /\ Len(s) \in 1 .. 2
  BY <1>9, <1>10, SpellingTaken
<1> DEFINE m == Len(s)
<1>12. /\ m = IF cut[j] <= cut[j + 1] THEN cut[j + 1] - cut[j] ELSE 0
       /\ \A i \in 1 .. m : s[i] = l.args[cut[j] + i]
  BY <1>1, <1>5, <1>9, Part
<1> HIDE DEF g, s
<1>13. m \in 1 .. 2 /\ m = cut[j + 1] - cut[j] /\ m <= Len(a) /\ m \in Nat
  BY <1>2, <1>4, <1>5, <1>9, <1>11, <1>12
<1> HIDE DEF m
<1>14. s[1] = a[1] /\ (m = 2 => s[2] = a[2])
  <2>1. 1 \in 1 .. m /\ 1 \in 1 .. Len(a)
    BY <1>6, <1>13
  <2>2. m = 2 => 2 \in 1 .. m /\ 2 \in 1 .. Len(a)
    BY <1>6, <1>13
  <2>3. \A i \in 1 .. m : i \in 1 .. Len(a) => s[i] = a[i]
    BY <1>4, <1>12, Zenon
  <2> QED
    BY <2>1, <2>2, <2>3
<1>15. Taken(a, m, g)
  <2>1. Taken(s, m, g)
    BY <1>11 DEF m
  <2> QED
    BY <1>13, <1>14, <2>1, Zenon DEF Taken
<1>16. ASSUME NEW b \in Seq(Seq(STRING)), Len(b) = Len(a) - m,
              \A i \in 1 .. Len(b) : b[i] = a[m + i]
       PROVE  At(l, cut, j + 1, b)
  <2>1. Len(b) = Len(l.args) - cut[j + 1]
    <3>1. /\ Len(a) = Len(l.args) - cut[j] /\ m = cut[j + 1] - cut[j]
          /\ cut[j] \in Nat /\ cut[j + 1] \in Nat
      BY <1>2, <1>4, <1>5, <1>9, <1>13
    <3> QED
      BY <1>2, <1>6, <1>13, <1>16, <3>1
  <2>2. \A i \in 1 .. Len(b) : b[i] = l.args[cut[j + 1] + i]
    <3> SUFFICES ASSUME NEW i \in 1 .. Len(b) PROVE b[i] = l.args[cut[j + 1] + i]
      OBVIOUS
    <3>1. /\ Len(b) = Len(a) - m /\ Len(b) \in Nat /\ m = cut[j + 1] - cut[j]
          /\ cut[j] \in Nat /\ cut[j + 1] \in Nat
      BY <1>2, <1>5, <1>9, <1>13, <1>16
    <3>2. m + i \in 1 .. Len(a) /\ cut[j] + (m + i) = cut[j + 1] + i
      <4>1. PICK x \in Nat, y \in Nat, c \in Nat, d \in Nat :
              x = Len(a) /\ y = Len(b) /\ c = cut[j] /\ d = cut[j + 1]
        BY <1>6, <3>1
      <4>2. y = x - m /\ m = d - c /\ i \in 1 .. y /\ m \in Nat
        BY <1>13, <3>1, <4>1, Zenon
      <4>3. m + i \in 1 .. x /\ c + (m + i) = d + i
        BY <4>2
      <4> QED
        BY <4>1, <4>3, Zenon
    <3> QED
      BY <1>4, <1>16, <3>2
  <2> QED
    BY <1>8, <2>1, <2>2 DEF At, n
<1> QED
  BY <1>8, <1>9, <1>13, <1>15, <1>16 DEF g, n

(***************************************************************************)
(* A turn of the loop takes the next group, whatever its option.           *)
(***************************************************************************)
OnlyOnePositional ==
  \A j, k \in DOMAIN Options : Options[j].pname # "" /\ Options[k].pname # "" => j = k

AtGroups ==
  options = Options /\ Apart /\ given \in GivenLines /\ ~ positionalOnly

Turned(cut, j) ==
  /\ At(given, cut, j + 1, args') /\ Collected(given, j + 1, results', missing')
  /\ UNCHANGED <<given, stage, options, positionalOnly, next, values, error>>

LEMMA TailFacts ==
  ASSUME NEW C, NEW a \in Seq(C), a # <<>>
  PROVE  /\ Head(a) = a[1] /\ Tail(a) \in Seq(C) /\ Len(Tail(a)) = Len(a) - 1
         /\ \A i \in 1 .. Len(Tail(a)) : Tail(a)[i] = a[1 + i]
         /\ Tail(a) # <<>> <=> 2 <= Len(a)
<1> DEFINE t == Tail(a)
<1>1. /\ Head(a) = a[1] /\ t \in Seq(C) /\ Len(t) = Len(a) - 1
      /\ \A i \in 1 .. Len(t) : t[i] = a[1 + i]
  OBVIOUS
<1> HIDE DEF t
<1>2. t = <<>> <=> Len(t) = 0
  BY <1>1
<1>3. Len(a) \in Nat /\ Len(t) \in Nat
  BY <1>1
<1>4. t # <<>> <=> 2 <= Len(a)
  BY <1>1, <1>2, <1>3
<1> QED
  BY <1>1, <1>4 DEF t

LEMMA NextArguments ==
  ASSUME AtGroups, NEW cut, NEW j, At(given, cut, j, args), args # <<>>
  PROVE  /\ Head(args) = args[1]
         /\ j \in Nat /\ j + 1 \in 1 .. Len(given.groups)
         /\ given.groups[j + 1].option \in DOMAIN Options
         /\ \E m \in 1 .. 2 :
              /\ Taken(args, m, given.groups[j + 1])
              /\ m = 1 => At(given, cut, j + 1, Tail(args))
              /\ m = 2 => /\ At(given, cut, j + 1, Tail(Tail(args)))
                          /\ Tail(args) # <<>> /\ Head(Tail(args)) = args[2]
<1>1. args \in Seq(Seq(STRING))
  BY DEF At
<1>2. /\ Head(args) = args[1]
      /\ Tail(args) \in Seq(Seq(STRING)) /\ Len(Tail(args)) = Len(args) - 1
      /\ \A i \in 1 .. Len(Tail(args)) : Tail(args)[i] = args[1 + i]
      /\ Tail(args) # <<>> <=> 2 <= Len(args)
  BY <1>1, TailFacts
<1>3. /\ j \in Nat /\ j + 1 \in 1 .. Len(given.groups)
      /\ given.groups[j + 1].option \in DOMAIN Options
      /\ \E m \in 1 .. 2 :
           /\ m <= Len(args) /\ Taken(args, m, given.groups[j + 1])
           /\ \A b \in Seq(Seq(STRING)) :
                Len(b) = Len(args) - m /\ (\A i \in 1 .. Len(b) : b[i] = args[m + i])
                => At(given, cut, j + 1, b)
  BY NextSpelling DEF AtGroups
<1>4. PICK m \in 1 .. 2 :
         /\ m <= Len(args) /\ Taken(args, m, given.groups[j + 1])
         /\ \A b \in Seq(Seq(STRING)) :
              Len(b) = Len(args) - m /\ (\A i \in 1 .. Len(b) : b[i] = args[m + i])
              => At(given, cut, j + 1, b)
  BY <1>3
<1>5. m = 1 => At(given, cut, j + 1, Tail(args))
  BY <1>2, <1>4, Zenon
<1>6. ASSUME m = 2
      PROVE  /\ At(given, cut, j + 1, Tail(Tail(args)))
             /\ Tail(args) # <<>> /\ Head(Tail(args)) = args[2]
  <2> DEFINE t == Tail(args)
             u == Tail(t)
  <2>1. t # <<>>
    BY <1>2, <1>4, <1>6, Zenon
  <2>2. /\ Head(t) = t[1] /\ u \in Seq(Seq(STRING)) /\ Len(u) = Len(t) - 1
        /\ \A i \in 1 .. Len(u) : u[i] = t[1 + i]
    BY <1>2, <2>1, TailFacts
  <2> HIDE DEF t, u
  <2>3. Len(t) \in Nat /\ Len(t) # 0 /\ Len(args) \in Nat /\ Len(t) = Len(args) - 1
    <3>1. t \in Seq(Seq(STRING)) /\ Len(t) = Len(args) - 1
      BY <1>2 DEF t
    <3>2. 2 <= Len(args)
      BY <1>4, <1>6, Zenon
    <3>3. Len(args) \in Nat
      BY <1>1
    <3> QED
      BY <3>1, <3>2, <3>3
  <2>4. Len(u) = Len(args) - 2 /\ Head(t) = args[2]
    <3>1. 1 \in 1 .. Len(t) /\ 1 + 1 = 2
      BY <2>3
    <3>2. t[1] = args[2]
      BY <1>2, <3>1 DEF t
    <3> QED
      BY <2>2, <2>3, <3>2
  <2>5. \A i \in 1 .. Len(u) : u[i] = args[2 + i]
    <3>1. SUFFICES ASSUME NEW i \in 1 .. Len(u) PROVE u[i] = args[2 + i]
      OBVIOUS
    <3>2. 1 + i \in 1 .. Len(t) /\ 1 + (1 + i) = 2 + i
      BY <2>2, <2>3
    <3>3. u[i] = t[1 + i]
      BY <2>2
    <3>4. t[1 + i] = args[1 + (1 + i)]
      BY <1>2, <3>2 DEF t
    <3> QED
      BY <3>2, <3>3, <3>4
  <2>6. At(given, cut, j + 1, u)
    BY <1>4, <1>6, <2>2, <2>4, <2>5, Zenon
  <2> QED
    BY <2>1, <2>4, <2>6 DEF t, u
<1> QED
  BY <1>2, <1>3, <1>4, <1>5, <1>6

LEMMA FlagTurn ==
  ASSUME AtGroups, NEW cut, NEW j, At(given, cut, j, args),
         Collected(given, j, results, missing), ParseFlag
  PROVE  Turned(cut, j)
<1> DEFINE a == Head(args)
           k == Find(a)
           g == given.groups[j + 1]
<1>1. /\ args # <<>> /\ Recognize(a) \in {"LONG", "SHORT"} /\ options[k].flag
      /\ AddResult(k, IF Value(a) = <<>> THEN <<"true">> ELSE Value(a))
      /\ args' = IF Rest(a) = <<>> THEN Tail(args) ELSE <<<<"-">> \o Rest(a)>> \o Tail(args)
      /\ UNCHANGED <<given, stage, options, positionalOnly, missing, next, values, error>>
  BY DEF ParseFlag, AtArgument, Class, AtGroups
<1>2. a = args[1] /\ j \in Nat /\ g.option \in DOMAIN Options
  BY <1>1, NextArguments
<1>3. PICK m \in 1 .. 2 : Taken(args, m, g) /\ (m = 1 => At(given, cut, j + 1, Tail(args)))
  BY <1>1, NextArguments
<1> HIDE DEF g, a
<1>4. Options[g.option].pname = ""
  BY <1>1, <1>2, <1>3 DEF Taken
<1>5. /\ k = g.option /\ m = 1 /\ Rest(a) = <<>>
      /\ (IF Value(a) = <<>> THEN <<"true">> ELSE Value(a)) = g.text
  BY <1>1, <1>2, <1>3, <1>4, Zenon DEF Taken, AtGroups
<1>6. args' = Tail(args) /\ At(given, cut, j + 1, args')
  BY <1>1, <1>3, <1>5, Zenon
<1>7. results' = [results EXCEPT ![g.option] = Append(@, g.text)] /\ missing' = missing
  BY <1>1, <1>5, Zenon DEF AddResult
<1>8. Gets(given, j + 1, g.option, results, missing, results', missing')
  BY <1>4, <1>7, Zenon DEF Gets, g
<1>9. Collected(given, j + 1, results', missing')
  BY <1>2, <1>8, CollectedNext DEF g
<1> QED
  BY <1>1, <1>6, <1>9 DEF Turned

LEMMA OptionTurn ==
  ASSUME AtGroups, NEW cut, NEW j, At(given, cut, j, args),
         Collected(given, j, results, missing), ParseOption
  PROVE  Turned(cut, j)
<1> DEFINE a   == Head(args)
           k   == Find(a)
           own == Value(a) \o Rest(a)
           g   == given.groups[j + 1]
<1>1. /\ args # <<>> /\ Recognize(a) \in {"LONG", "SHORT"} /\ ~ options[k].flag
      /\ IF own # <<>>
         THEN AddResult(k, own) /\ args' = Tail(args) /\ UNCHANGED <<stage, error>>
         ELSE Tail(args) # <<>> =>
                /\ AddResult(k, Head(Tail(args))) /\ args' = Tail(Tail(args))
                /\ UNCHANGED <<stage, error>>
      /\ UNCHANGED <<given, options, positionalOnly, missing, next, values>>
  BY Zenon DEF ParseOption, AtArgument, Class, AtGroups
<1>2. a = args[1] /\ j \in Nat /\ g.option \in DOMAIN Options
  BY <1>1, NextArguments
<1>3. PICK m \in 1 .. 2 :
        /\ Taken(args, m, g)
        /\ m = 1 => At(given, cut, j + 1, Tail(args))
        /\ m = 2 => /\ At(given, cut, j + 1, Tail(Tail(args)))
                    /\ Tail(args) # <<>> /\ Head(Tail(args)) = args[2]
  BY <1>1, NextArguments
<1> HIDE DEF g, a
<1>4. Options[g.option].pname = ""
  BY <1>1, <1>2, <1>3 DEF Taken
<1>5. /\ k = g.option
      /\ \/ m = 1 /\ own = g.text /\ g.text # <<>>
         \/ m = 2 /\ args[2] = g.text /\ own = <<>>
  BY <1>1, <1>2, <1>3, <1>4, Zenon DEF Taken, AtGroups
<1> HIDE DEF own
<1>6. /\ AddResult(k, g.text) /\ At(given, cut, j + 1, args') /\ UNCHANGED <<stage, error>>
  <2>1. CASE m = 1 /\ own = g.text /\ g.text # <<>>
    BY <1>1, <1>3, <2>1, Zenon
  <2>2. CASE m = 2 /\ args[2] = g.text /\ own = <<>>
    BY <1>1, <1>3, <2>2, Zenon
  <2> QED
    BY <1>5, <2>1, <2>2
<1>7. results' = [results EXCEPT ![g.option] = Append(@, g.text)] /\ missing' = missing
  BY <1>1, <1>5, <1>6, Zenon DEF AddResult
<1>8. Gets(given, j + 1, g.option, results, missing, results', missing')
  BY <1>4, <1>7, Zenon DEF Gets, g
<1>9. Collected(given, j + 1, results', missing')
  BY <1>2, <1>8, CollectedNext DEF g
<1> QED
  BY <1>1, <1>6, <1>9 DEF Turned

LEMMA PositionalTurn ==
  ASSUME OnlyOnePositional, AtGroups, NEW cut, NEW j, At(given, cut, j, args),
         Collected(given, j, results, missing), ParsePositional
  PROVE  Turned(cut, j)
<1> DEFINE open == {k \in DOMAIN options : options[k].pname # "" /\ results[k] = <<>>}
           a    == Head(args)
           g    == given.groups[j + 1]
           q    == g.option
           c    == CHOOSE k \in open : \A m \in open : k <= m
<1>1. /\ args # <<>> /\ Recognize(a) = "NONE" /\ args' = Tail(args)
      /\ IF open = {}
         THEN missing' = Append(missing, <<"NONE", a>>) /\ UNCHANGED results
         ELSE AddResult(c, a) /\ UNCHANGED missing
      /\ UNCHANGED <<given, stage, options, positionalOnly, next, values, error>>
  BY Zenon DEF ParsePositional, AtArgument, Class, AtGroups
<1>2. a = args[1] /\ j \in Nat /\ q \in DOMAIN Options
  BY <1>1, NextArguments
<1>3. PICK m \in 1 .. 2 : Taken(args, m, g) /\ (m = 1 => At(given, cut, j + 1, Tail(args)))
  BY <1>1, NextArguments
<1> HIDE DEF g, a
<1>4. Options[q].pname # "" /\ m = 1 /\ a = g.text
  BY <1>1, <1>2, <1>3 DEF Taken
<1>5. At(given, cut, j + 1, args')
  BY <1>1, <1>3, <1>4, Zenon
<1>6. open = IF results[q] = <<>> THEN {q} ELSE {}
  <2>1. options = Options
    BY DEF AtGroups
  <2>2. \A k \in DOMAIN Options : Options[k].pname # "" => k = q
    BY <1>2, <1>4 DEF OnlyOnePositional
  <2>3. q \in DOMAIN options /\ options[q].pname # ""
    BY <1>2, <1>4, <2>1, Zenon
  <2>4. \A k \in open : k = q /\ results[q] = <<>>
    BY <2>1, <2>2
  <2>5. results[q] = <<>> => q \in open
    BY <2>3
  <2> HIDE DEF open
  <2>6. CASE results[q] = <<>>
    BY <2>4, <2>5, <2>6
  <2>7. CASE results[q] # <<>>
    BY <2>4, <2>7
  <2> QED
    BY <2>6, <2>7
<1> HIDE DEF open
<1>7. CASE results[q] = <<>>
  <2>1. open = {q} /\ open # {}
    BY <1>6, <1>7
  <2>2. c = q
    <3>1. q \in Int
      <4>1. Options \in Seq(OptionType)
        BY ArgumentAssumption
      <4>2. DOMAIN Options = 1 .. Len(Options) /\ Len(Options) \in Nat
        BY <4>1
      <4> QED
        BY <1>2, <4>2
    <3>2. q <= q
      BY <3>1
    <3> QED
      BY <2>1, <3>2, Zenon
  <2>3. results' = [results EXCEPT ![q] = Append(@, g.text)] /\ missing' = missing
    BY <1>1, <1>4, <2>1, <2>2, Zenon DEF AddResult
  <2>4. Gets(given, j + 1, q, results, missing, results', missing')
    BY <1>7, <2>3, Zenon DEF Gets, g
  <2> QED
    BY <1>1, <1>2, <1>5, <2>4, CollectedNext DEF Turned, g
<1>8. CASE results[q] # <<>>
  <2>1. open = {}
    BY <1>6, <1>8
  <2>2. Leaves(q, results, missing, results', missing')
    BY <1>1, <1>4, <1>8, <2>1, Zenon DEF Leaves
  <2> QED
    BY <1>1, <1>2, <1>5, <2>2, CollectedNext DEF Turned, g
<1> QED
  BY <1>7, <1>8

\* No argument of a group is the mark or of an unknown option.
LEMMA NeverOther ==
  ASSUME AtGroups, NEW cut, NEW j, At(given, cut, j, args)
  PROVE  ~ ParseMark /\ ~ ParseUnknown
<1> SUFFICES ASSUME AtArgument, Class = "MARK" \/ (Class # "NONE" /\ Find(Head(args)) = 0)
             PROVE  FALSE
  BY DEF ParseMark, ParseUnknown
<1> DEFINE a == Head(args)
           g == given.groups[j + 1]
<1>1. args # <<>> /\ Class = Recognize(a)
  BY DEF AtArgument, Class, AtGroups
<1>2. a = args[1] /\ g.option \in DOMAIN Options
  BY <1>1, NextArguments
<1>3. PICK m \in 1 .. 2 : Taken(args, m, g)
  BY <1>1, NextArguments
<1> HIDE DEF g, a
<1>4. g.option # 0
  <2>1. Options \in Seq(OptionType)
    BY ArgumentAssumption
  <2>2. DOMAIN Options = 1 .. Len(Options) /\ Len(Options) \in Nat
    BY <2>1
  <2> QED
    BY <1>2, <2>2
<1>5. \/ Recognize(a) = "NONE"
      \/ Recognize(a) \in {"LONG", "SHORT"} /\ Find(a) = g.option
  BY <1>2, <1>3, Zenon DEF Taken
<1>6. "MARK" # "NONE" /\ "MARK" \notin {"LONG", "SHORT"}
  OBVIOUS
<1> QED
  BY <1>1, <1>4, <1>5, <1>6, Zenon DEF a

\* What the loop has collected at the end of the line.
Done == Collected(given, Len(given.groups), results, missing)

LEMMA EndOfLine ==
  ASSUME AtGroups, NEW cut, NEW j, At(given, cut, j, <<>>)
  PROVE  j = Len(given.groups)
<1> DEFINE l == given
           n == Len(l.groups)
           g == l.groups[j + 1]
           s == SubSeq(l.args, cut[j] + 1, cut[j + 1])
<1>1. l.args \in Seq(Seq(STRING)) /\ l.groups \in Seq(Group)
  BY ArgumentAssumption DEF AtGroups
<1>2. n \in Nat /\ Len(l.args) \in Nat /\ DOMAIN l.groups = 1 .. n
  BY <1>1
<1>3. /\ j \in 0 .. n /\ cut \in [0 .. n -> 0 .. Len(l.args)]
      /\ \A i \in 1 .. n : /\ l.groups[i].option \in DOMAIN Options
                           /\ Spells(SubSeq(l.args, cut[i - 1] + 1, cut[i]), l.groups[i])
      /\ Len(<<>>) = Len(l.args) - cut[j]
  BY Zenon DEF At, CutBy
<1>4. cut[j] \in 0 .. Len(l.args) /\ cut[j] = Len(l.args)
  <2>1. cut[j] \in 0 .. Len(l.args) /\ Len(<<>>) = 0
    BY <1>3
  <2> QED
    BY <1>2, <1>3, <2>1
<1> HIDE DEF n, l
<1>5. SUFFICES ASSUME j # n PROVE FALSE
  BY DEF n, l
<1>6. j + 1 \in 1 .. n /\ j + 1 \in 0 .. n /\ (j + 1) - 1 = j
  BY <1>2, <1>3, <1>5
<1>7. cut[j + 1] \in 0 .. Len(l.args) /\ g.option \in DOMAIN Options /\ Spells(s, g) /\ g \in Group
  <2>1. cut[j + 1] \in 0 .. Len(l.args) /\ g.option \in DOMAIN Options /\ Spells(s, g)
    BY <1>3, <1>6
  <2>2. g \in Group
    BY <1>1, <1>2, <1>6 DEF n
  <2> QED
    BY <2>1, <2>2
<1>8. Len(s) \in 1 .. 2
  BY <1>7, SpellingTaken DEF AtGroups
<1>9. Len(s) = IF cut[j] <= cut[j + 1] THEN cut[j + 1] - cut[j] ELSE 0
  BY <1>1, <1>4, <1>7, Part
<1> HIDE DEF s
<1> QED
  BY <1>2, <1>4, <1>7, <1>8, <1>9

(***************************************************************************)
(* What follows the loop.                                                  *)
(***************************************************************************)
\* What each option has got is what the line gives it.
LEMMA DoneFacts ==
  ASSUME AtGroups, Done, NEW k \in DOMAIN Options
  PROVE  LET mine == Chosen(given, k, Len(given.groups)) IN
         /\ Mine(given, k) = Upto(given, k, Len(given.groups))
         /\ mine = IF Options[k].pname # "" THEN {i \in Mine(given, k) : \A j \in Mine(given, k) : i <= j}
                   ELSE Mine(given, k)
         /\ mine = {} <=> Mine(given, k) = {}
         /\ results[k] = <<>> <=> mine = {}
         /\ ToSet(results[k]) = {Text(given, i) : i \in mine}
         /\ Len(results[k]) > 1 <=> \E i, j \in mine : i # j
         /\ mine # {} => Last(results[k]) = Text(given, Max(mine))
<1> DEFINE n    == Len(given.groups)
           mine == Chosen(given, k, n)
<1>1. given.groups \in Seq(Group)
  BY ArgumentAssumption DEF AtGroups
<1>2. n \in Nat /\ DOMAIN given.groups = 1 .. n
  BY <1>1
<1>3. Mine(given, k) = Upto(given, k, n)
  BY <1>2, Zenon DEF Mine, Upto
<1>4. mine = IF Options[k].pname # "" THEN {i \in Mine(given, k) : \A j \in Mine(given, k) : i <= j} ELSE Mine(given, k)
  BY <1>3, Zenon DEF Chosen
<1>5. mine \in SUBSET Nat /\ (mine = {} <=> Mine(given, k) = {})
  BY <1>2, <1>3, ChosenFacts
<1>6. Lists(given, results[k], mine)
  BY DEF Done, Collected
<1>7. /\ results[k] = <<>> <=> mine = {}
      /\ ToSet(results[k]) = {given.groups[i].text : i \in mine}
      /\ Len(results[k]) > 1 <=> \E i, j \in mine : i # j
      /\ mine # {} => Last(results[k]) = given.groups[Max(mine)].text
  BY <1>5, <1>6, ListsFacts
<1> QED
  BY <1>3, <1>4, <1>5, <1>7, Zenon DEF Text

LEMMA CallbackSame ==
  ASSUME AtGroups, Done, NEW k \in DOMAIN Options
  PROVE  /\ results[k] = <<>> <=> Mine(given, k) = {}
         /\ results[k] = <<>> => WrongWith(given, k) = "none"
         /\ results[k] # <<>> => CallbackError(k) = WrongWith(given, k)
<1> DEFINE mine == Chosen(given, k, Len(given.groups))
           o    == Options[k]
<1>1. /\ mine = IF o.pname # "" THEN {i \in Mine(given, k) : \A j \in Mine(given, k) : i <= j} ELSE Mine(given, k)
      /\ mine = {} <=> Mine(given, k) = {}
      /\ results[k] = <<>> <=> mine = {}
      /\ ToSet(results[k]) = {Text(given, i) : i \in mine}
      /\ Len(results[k]) > 1 <=> \E i, j \in mine : i # j
      /\ mine # {} => Last(results[k]) = Text(given, Max(mine))
  BY DoneFacts, Zenon
<1> HIDE DEF mine
<1>2. WrongWith(given, k) =
        IF mine = {} THEN "none"
        ELSE IF o.isFile /\ \E i \in mine : Text(given, i) \notin Files THEN "ValidationError"
        ELSE IF ~ o.flag /\ \E i, j \in mine : i # j THEN "ArgumentMismatch"
        ELSE IF ~ Converts(o, Text(given, Max(mine))) THEN "ConversionError"
        ELSE "none"
  BY <1>1, Zenon DEF WrongWith
<1>3. CallbackError(k) =
        IF o.isFile /\ \E text \in ToSet(results[k]) : text \notin Files THEN "ValidationError"
        ELSE IF ~ o.flag /\ Len(results[k]) > 1 THEN "ArgumentMismatch"
        ELSE IF ~ Converts(o, Last(results[k])) THEN "ConversionError"
        ELSE "none"
  BY Zenon DEF CallbackError, AtGroups
<1>4. (\E text \in ToSet(results[k]) : text \notin Files) <=> \E i \in mine : Text(given, i) \notin Files
  BY <1>1, Zenon
<1>5. CASE mine = {}
  BY <1>1, <1>2, <1>5, Zenon
<1>6. CASE mine # {}
  <2>1. Last(results[k]) = Text(given, Max(mine))
    BY <1>1, <1>6, Zenon
  <2>2. CallbackError(k) =
          IF o.isFile /\ \E i \in mine : Text(given, i) \notin Files THEN "ValidationError"
          ELSE IF ~ o.flag /\ \E i, j \in mine : i # j THEN "ArgumentMismatch"
          ELSE IF ~ Converts(o, Text(given, Max(mine))) THEN "ConversionError"
          ELSE "none"
    <3>1. (Len(results[k]) > 1) <=> \E i, j \in mine : i # j
      BY <1>1
    <3> QED
      BY <1>3, <1>4, <2>1, <3>1, Zenon
  <2> QED
    BY <1>1, <1>2, <1>6, <2>2, Zenon
<1> QED
  BY <1>5, <1>6

Helps(l) == \E k \in DOMAIN Options : Options[k].type = "help" /\ Mine(l, k) # {}
Lacks(l) == \E k \in DOMAIN Options : Options[k].required /\ Mine(l, k) = {}

\* No variable is set yet.
Fresh == next = 1 /\ \A k \in DOMAIN Options : k \in DOMAIN values /\ values[k] = <<>>

Bound(l, k) ==
  IF Mine(l, k) = {} THEN <<>>
  ELSE <<Converted(Options[k], Text(l, Max(Chosen(l, k, Len(l.groups)))))>>

\* The callbacks of the options in front of next have set what they had to.
Called ==
  /\ next \in 1 .. Len(Options) + 1
  /\ \A k \in DOMAIN Options :
       /\ k \in DOMAIN values
       /\ k < next => WrongWith(given, k) = "none" /\ values[k] = Bound(given, k)
       /\ k >= next => values[k] = <<>>

\* The app, while it is built and afterwards.
Built ==
  /\ options \in Seq(OptionType) /\ Len(options) <= Len(Options)
  /\ \A k \in DOMAIN options : options[k] = Options[k]
  /\ Apart
  /\ stage = "building" =>
       /\ given.groups = <<>> /\ Fresh /\ ~ positionalOnly /\ missing = <<>>
       /\ \A k \in DOMAIN Options : k \in DOMAIN results /\ results[k] = <<>>

(***************************************************************************)
(* The inductive invariant.  Of a line that is made of groups: the loop is *)
(* at the end of one, and the results are those of the groups behind it;   *)
(* no callback runs unless nothing asked for help and nothing required is  *)
(* missing, and the callbacks in front of next found nothing wrong.        *)
(***************************************************************************)
Meant ==
  /\ options = Options /\ given \in GivenLines
  /\ stage \in {"arguments", "requirements", "callbacks", "parsed", "thrown"}
  /\ stage \in {"arguments", "requirements"} => Fresh
  /\ stage \in {"arguments", "requirements", "callbacks"} => ~ positionalOnly
  /\ stage = "arguments" =>
       \E cut, j : At(given, cut, j, args) /\ Collected(given, j, results, missing)
  /\ stage \in {"requirements", "callbacks"} => Done /\ ~ Helps(given)
  /\ stage = "callbacks" => ~ Lacks(given) /\ Called
  /\ SpellingAndOrderDoNotMatter

GInv == Built /\ (given.groups # <<>> => Meant)

LEMMA OptionsFacts == Options \in Seq(OptionType) /\ DOMAIN Options = 1 .. Len(Options) /\ Len(Options) \in Nat
<1>1. Options \in Seq(OptionType)
  BY ArgumentAssumption
<1> QED
  BY <1>1

LEMMA Nobody ==
  ASSUME AtGroups, Done
  PROVE  /\ (\E k \in DOMAIN options : options[k].type = "help" /\ results[k] # <<>>) <=> Helps(given)
         /\ (\E k \in DOMAIN options : options[k].required /\ results[k] = <<>>) <=> Lacks(given)
         /\ (\E k \in DOMAIN missing : missing[k][1] # "MARK") <=>
              \E k \in DOMAIN Options : Options[k].pname # "" /\ \E i, j \in Mine(given, k) : i # j
<1>1. \A k \in DOMAIN Options : results[k] = <<>> <=> Mine(given, k) = {}
  BY CallbackSame
<1>2. \A k \in DOMAIN Options : Mine(given, k) = Upto(given, k, Len(given.groups))
  BY DoneFacts, Zenon
<1>3. (\E k \in DOMAIN missing : missing[k][1] # "MARK") <=> Twice(given, Len(given.groups))
  BY DEF Done, Collected
<1>4. Twice(given, Len(given.groups)) <=>
        \E k \in DOMAIN Options : Options[k].pname # "" /\ \E i, j \in Mine(given, k) : i # j
  BY <1>2, Zenon DEF Twice
<1>5. options = Options
  BY DEF AtGroups
<1> QED
  BY <1>1, <1>3, <1>4, <1>5, Zenon DEF Helps, Lacks

LEMMA ExpectedHelp ==
  ASSUME NEW l
  PROVE  /\ Helps(l) => Expected(l) = "CallForHelp"
         /\ ~ Helps(l) /\ Lacks(l) => Expected(l) = "RequiredError"
BY Zenon DEF Expected, Helps, Lacks

\* The callbacks run in the order of the options: the first that throws decides.
LEMMA ExpectedWrong ==
  ASSUME NEW l, ~ Helps(l), ~ Lacks(l), NEW k \in DOMAIN Options, WrongWith(l, k) # "none",
         \A m \in DOMAIN Options : m < k => WrongWith(l, m) = "none"
  PROVE  Expected(l) = WrongWith(l, k)
<1> DEFINE wrong == {m \in DOMAIN Options : WrongWith(l, m) # "none"}
<1>1. wrong \subseteq Int /\ k \in wrong /\ \A m \in wrong : k <= m
  BY OptionsFacts
<1>2. wrong # {} => Expected(l) = WrongWith(l, Min(wrong))
  BY Zenon DEF Expected, Helps, Lacks
<1> HIDE DEF wrong
<1>3. Min(wrong) = k
  BY <1>1, MinIs
<1> QED
  BY <1>1, <1>2, <1>3, Zenon

LEMMA ExpectedExtras ==
  ASSUME NEW l, ~ Helps(l), ~ Lacks(l), \A k \in DOMAIN Options : WrongWith(l, k) = "none"
  PROVE  Expected(l) =
           IF \E k \in DOMAIN Options : Options[k].pname # "" /\ \E i, j \in Mine(l, k) : i # j
           THEN "ExtrasError" ELSE "none"
<1> DEFINE wrong == {m \in DOMAIN Options : WrongWith(l, m) # "none"}
           extra == {k \in DOMAIN Options : Options[k].pname # "" /\ \E i, j \in Mine(l, k) : i # j}
<1>1. wrong = {}
  OBVIOUS
<1>2. wrong = {} => Expected(l) = IF extra # {} THEN "ExtrasError" ELSE "none"
  BY Zenon DEF Expected, Helps, Lacks
<1>3. extra # {} <=>
        \E k \in DOMAIN Options : Options[k].pname # "" /\ \E i, j \in Mine(l, k) : i # j
  OBVIOUS
<1> HIDE DEF wrong, extra
<1> QED
  BY <1>1, <1>2, <1>3, Zenon

\* Everything but the app's options is the same for a step that adds none.
LEMMA BuiltStays ==
  ASSUME Built, UNCHANGED options, stage' # "building"
  PROVE  Built'
BY DEF Built, Apart

LEMMA BuildingStep ==
  ASSUME GInv, Build
  PROVE  GInv'
<1>1. /\ stage = "building" /\ given.groups = <<>> /\ Fresh /\ ~ positionalOnly
      /\ missing = <<>> /\ \A k \in DOMAIN Options : k \in DOMAIN results /\ results[k] = <<>>
      /\ Built
  BY DEF GInv, Built, Build, AddOption, StartParse
<1>2. CASE AddOption
  <2> DEFINE new == Options[Len(options) + 1]
  <2>1. /\ Len(options) < Len(Options) /\ stage' \in {"building", "thrown"}
        /\ \/ options' = options
           \/ options' = Append(options, new) /\ ~ \E k \in DOMAIN options : Matches(options[k], new)
        /\ UNCHANGED <<given, positionalOnly, results, missing, next, values>>
    BY <1>1, <1>2 DEF AddOption, collected, Throw
  <2>2. /\ options \in Seq(OptionType) /\ Len(options) \in Nat /\ DOMAIN options = 1 .. Len(options)
        /\ \A k \in DOMAIN options : options[k] = Options[k]
        /\ Apart
    BY <1>1 DEF Built
  <2>3. new \in OptionType /\ Len(options) + 1 \in DOMAIN Options
    BY <2>1, <2>2, OptionsFacts
  <2>4. /\ options' \in Seq(OptionType) /\ Len(options') <= Len(Options)
        /\ \A k \in DOMAIN options' : options'[k] = Options[k]
        /\ Apart'
    <3>1. CASE options' = options
      BY <2>1, <2>2, <3>1, OptionsFacts DEF Apart
    <3>2. CASE options' = Append(options, new) /\ ~ \E k \in DOMAIN options : Matches(options[k], new)
      <4>1. \A k \in DOMAIN options : /\ options[k].shorts \cap new.shorts = {}
                                      /\ options[k].longs \cap new.longs = {}
        BY <3>2, Zenon DEF Matches
      <4>2. new = Options[Len(options) + 1]
        OBVIOUS
      <4> HIDE DEF new
      <4>3. /\ options' \in Seq(OptionType) /\ Len(options') = Len(options) + 1
            /\ DOMAIN options' = 1 .. Len(options) + 1
            /\ options'[Len(options) + 1] = new
            /\ \A k \in 1 .. Len(options) : options'[k] = options[k]
        BY <2>2, <2>3, <3>2
      <4>4. \A k \in 1 .. Len(options) + 1 : k \in 1 .. Len(options) \/ k = Len(options) + 1
        BY <2>2
      <4>5. Len(options') <= Len(Options) /\ \A k \in DOMAIN options' : options'[k] = Options[k]
        BY <2>1, <2>2, <4>2, <4>3, <4>4, OptionsFacts
      <4>6. ASSUME NEW j \in DOMAIN options', NEW k \in DOMAIN options', j # k
            PROVE  /\ options'[j].longs \cap options'[k].longs = {}
                   /\ options'[j].shorts \cap options'[k].shorts = {}
        <5>1. CASE j \in DOMAIN options /\ k \in DOMAIN options
          BY <2>2, <4>3, <4>6, <5>1 DEF Apart
        <5>2. CASE j \in DOMAIN options /\ k = Len(options) + 1
          BY <2>2, <4>1, <4>3, <5>2
        <5>3. CASE j = Len(options) + 1 /\ k \in DOMAIN options
          BY <2>2, <4>1, <4>3, <5>3
        <5> QED
          BY <2>2, <4>3, <4>4, <4>6, <5>1, <5>2, <5>3
      <4> QED
        BY <4>3, <4>5, <4>6 DEF Apart
    <3> QED
      BY <2>1, <3>1, <3>2
  <2>5. Fresh'
    BY <1>1, <2>1 DEF Fresh
  <2>6. Built'
    BY <1>1, <2>1, <2>4, <2>5 DEF Built
  <2> QED
    BY <1>1, <2>1, <2>6 DEF GInv
<1>3. CASE StartParse
  <2>1. /\ Len(options) = Len(Options) /\ given' \in GivenLines /\ args' = given'.args
        /\ stage' = "arguments"
        /\ UNCHANGED <<options, positionalOnly, results, missing, next, values, error>>
    BY <1>3 DEF StartParse
  <2>2. Built'
    BY <1>1, <2>1, BuiltStays
  <2>3. options = Options
    <3>1. /\ options \in Seq(OptionType) /\ Options \in Seq(OptionType)
          /\ \A k \in DOMAIN options : options[k] = Options[k]
      BY <1>1, OptionsFacts DEF Built
    <3> QED
      BY <2>1, <3>1
  <2>4. Fresh'
    BY <1>1, <2>1 DEF Fresh
  <2>5. ASSUME given'.groups # <<>> PROVE Meant'
    <3>1. Collected(given', 0, results', missing')
      BY <1>1, <2>1, CollectedNothing
    <3>2. \E cut : At(given', cut, 0, args')
      <4>1. PICK cut \in [0 .. Len(given'.groups) -> 0 .. Len(given'.args)] : CutBy(given', cut)
        BY <2>1, <2>5, GroupsAssumption
      <4>2. cut[0] = 0
        BY <4>1, Zenon DEF CutBy
      <4>3. given'.args \in Seq(Seq(STRING)) /\ given'.groups \in Seq(Group)
        BY <2>1, ArgumentAssumption
      <4>4. Len(given'.args) \in Nat /\ Len(given'.groups) \in Nat
        BY <4>3
      <4>5. /\ 0 \in 0 .. Len(given'.groups) /\ Len(given'.args) = Len(given'.args) - cut[0]
            /\ \A i \in 1 .. Len(given'.args) : given'.args[i] = given'.args[cut[0] + i]
        BY <4>2, <4>4
      <4> QED
        BY <2>1, <4>1, <4>3, <4>5 DEF At
    <3>3. SpellingAndOrderDoNotMatter'
      BY <2>1 DEF SpellingAndOrderDoNotMatter, Over
    <3> QED
      BY <1>1, <2>1, <2>3, <2>4, <3>1, <3>2, <3>3 DEF Meant
  <2> QED
    BY <2>2, <2>5 DEF GInv
<1> QED
  BY <1>2, <1>3 DEF Build

LEMMA TurnStep ==
  ASSUME OnlyOnePositional, GInv, given.groups # <<>>,
         ParseMark \/ ParseUnknown \/ ParseFlag \/ ParseOption \/ ParsePositional
  PROVE  GInv'
<1>1. stage = "arguments" /\ Meant /\ Built
  BY DEF GInv, ParseMark, ParseUnknown, ParseFlag, ParseOption, ParsePositional, AtArgument
<1>2. PICK cut, j : At(given, cut, j, args) /\ Collected(given, j, results, missing)
  BY <1>1 DEF Meant
<1>3. AtGroups
  BY <1>1, Zenon DEF AtGroups, Meant, Built
<1>4. Turned(cut, j)
  BY <1>2, <1>3, NeverOther, FlagTurn, OptionTurn, PositionalTurn
<1>5. UNCHANGED <<given, stage, options, positionalOnly, next, values, error>>
  BY <1>4 DEF Turned
<1>6. Built'
  BY <1>1, <1>5, BuiltStays
<1>7. At(given', cut, j + 1, args') /\ Collected(given', j + 1, results', missing')
  BY <1>4, <1>5 DEF Turned
<1>8. Meant'
  <2>1. Fresh'
    BY <1>1, <1>5 DEF Fresh, Meant
  <2>2. SpellingAndOrderDoNotMatter'
    BY <1>1, <1>5 DEF SpellingAndOrderDoNotMatter, Over
  <2> QED
    BY <1>1, <1>5, <1>7, <2>1, <2>2 DEF Meant
<1> QED
  BY <1>6, <1>8 DEF GInv

LEMMA HelpIsAsked ==
  ASSUME GInv, given.groups # <<>>, ProcessHelp
  PROVE  GInv'
<1>1. /\ stage = "arguments" /\ args = <<>> /\ Meant /\ Built
      /\ IF \E k \in DOMAIN options : options[k].type = "help" /\ results[k] # <<>>
         THEN stage' = "thrown" /\ error' = "CallForHelp"
         ELSE stage' = "requirements" /\ error' = error
      /\ UNCHANGED <<given, options, positionalOnly, results, missing, next, values>>
  BY DEF GInv, ProcessHelp, Throw, collected
<1>2. AtGroups
  BY <1>1, Zenon DEF AtGroups, Meant, Built
<1>3. PICK cut, j : At(given, cut, j, args) /\ Collected(given, j, results, missing)
  BY <1>1 DEF Meant
<1>4. j = Len(given.groups)
  BY <1>1, <1>2, <1>3, EndOfLine
<1>5. Done
  BY <1>3, <1>4 DEF Done
<1>6. Built'
  BY <1>1, BuiltStays
<1>7. IF Helps(given) THEN stage' = "thrown" /\ error' = "CallForHelp"
      ELSE stage' = "requirements" /\ error' = error
  BY <1>1, <1>2, <1>5, Nobody, Zenon
<1>8. CASE Helps(given)
  <2>1. SpellingAndOrderDoNotMatter'
    BY <1>1, <1>7, <1>8, ExpectedHelp DEF SpellingAndOrderDoNotMatter
  <2> QED
    BY <1>1, <1>6, <1>7, <1>8, <2>1 DEF GInv, Meant
<1>9. CASE ~ Helps(given)
  <2>1. SpellingAndOrderDoNotMatter'
    BY <1>7, <1>9 DEF SpellingAndOrderDoNotMatter, Over
  <2>2. Fresh' /\ Done'
    BY <1>1, <1>5 DEF Fresh, Done, Meant
  <2> QED
    BY <1>1, <1>6, <1>7, <1>9, <2>1, <2>2 DEF GInv, Meant
<1> QED
  BY <1>8, <1>9

LEMMA RequirementsAreMet ==
  ASSUME GInv, given.groups # <<>>, ProcessRequirements
  PROVE  GInv'
<1>1. /\ stage = "requirements" /\ Meant /\ Built
      /\ IF \E k \in DOMAIN options : options[k].required /\ results[k] = <<>>
         THEN stage' = "thrown" /\ error' = "RequiredError"
         ELSE stage' = "callbacks" /\ error' = error
      /\ UNCHANGED <<given, options, positionalOnly, results, missing, next, values>>
  BY DEF GInv, ProcessRequirements, Throw, collected
<1>2. AtGroups /\ Done /\ ~ Helps(given) /\ Fresh
  BY <1>1, Zenon DEF AtGroups, Meant, Built
<1>3. Built'
  BY <1>1, BuiltStays
<1>4. IF Lacks(given) THEN stage' = "thrown" /\ error' = "RequiredError"
      ELSE stage' = "callbacks" /\ error' = error
  BY <1>1, <1>2, Nobody, Zenon
<1>5. CASE Lacks(given)
  <2>1. SpellingAndOrderDoNotMatter'
    BY <1>1, <1>2, <1>4, <1>5, ExpectedHelp DEF SpellingAndOrderDoNotMatter
  <2> QED
    BY <1>1, <1>3, <1>4, <1>5, <2>1 DEF GInv, Meant
<1>6. CASE ~ Lacks(given)
  <2>1. SpellingAndOrderDoNotMatter'
    BY <1>4, <1>6 DEF SpellingAndOrderDoNotMatter, Over
  <2>2. Done'
    BY <1>1, <1>2 DEF Done
  <2>3. Called'
    <3>1. next' = 1 /\ \A k \in DOMAIN Options : k \in DOMAIN values' /\ values'[k] = <<>>
      BY <1>1, <1>2 DEF Fresh
    <3>2. \A k \in DOMAIN Options : ~ (k < 1) /\ k >= 1
      BY OptionsFacts
    <3>3. 1 \in 1 .. Len(Options) + 1
      BY OptionsFacts
    <3> QED
      BY <3>1, <3>2, <3>3, Zenon DEF Called
  <2> QED
    BY <1>1, <1>2, <1>3, <1>4, <1>6, <2>1, <2>2, <2>3 DEF GInv, Meant
<1> QED
  BY <1>5, <1>6

LEMMA CallbackRuns ==
  ASSUME GInv, given.groups # <<>>, RunCallback
  PROVE  GInv'
<1> DEFINE k == next
<1>1. /\ stage = "callbacks" /\ k <= Len(options) /\ next' = k + 1 /\ Meant /\ Built
      /\ IF results[k] = <<>> THEN UNCHANGED <<stage, error, values>>
         ELSE IF CallbackError(k) # "none"
         THEN stage' = "thrown" /\ error' = CallbackError(k) /\ values' = values
         ELSE /\ values' = [values EXCEPT ![k] = <<Converted(options[k], Last(results[k]))>>]
              /\ UNCHANGED <<stage, error>>
      /\ UNCHANGED <<given, options, positionalOnly, results, missing>>
  BY DEF GInv, RunCallback, Throw, collected
<1>2. AtGroups /\ Done /\ ~ Helps(given) /\ ~ Lacks(given) /\ Called /\ options = Options
  BY <1>1, Zenon DEF AtGroups, Meant, Built
<1>3. /\ k \in DOMAIN Options /\ k + 1 \in 1 .. Len(Options) + 1
      /\ \A m \in DOMAIN Options : /\ m < k + 1 <=> m < k \/ m = k
                                   /\ m >= k + 1 => m >= k /\ m # k
      /\ k >= k /\ ~ (k < k)
  BY <1>1, <1>2, OptionsFacts DEF Called
<1>4. Built'
  BY <1>1, BuiltStays
<1>5. /\ results[k] = <<>> <=> Mine(given, k) = {}
      /\ results[k] = <<>> => WrongWith(given, k) = "none"
      /\ results[k] # <<>> => CallbackError(k) = WrongWith(given, k)
  BY <1>2, <1>3, CallbackSame
<1>6. \A m \in DOMAIN Options : /\ m \in DOMAIN values
                                /\ m < k => /\ WrongWith(given, m) = "none"
                                            /\ values[m] = Bound(given, m)
                                /\ m >= k => values[m] = <<>>
  BY <1>2 DEF Called
<1>7. Done'
  BY <1>1, <1>2 DEF Done
<1> HIDE DEF k
<1>8. CASE stage' = "thrown" /\ error' = CallbackError(k) /\ CallbackError(k) # "none" /\ results[k] # <<>>
  <2>1. error' = Expected(given)
    BY <1>2, <1>3, <1>5, <1>6, <1>8, ExpectedWrong, Zenon
  <2>2. SpellingAndOrderDoNotMatter'
    BY <1>1, <1>8, <2>1 DEF SpellingAndOrderDoNotMatter
  <2> QED
    BY <1>1, <1>4, <1>8, <2>2 DEF GInv, Meant
<1>9. ASSUME stage' = stage, WrongWith(given, k) = "none",
             \A m \in DOMAIN Options : m \in DOMAIN values' /\ (m # k => values'[m] = values[m]),
             values'[k] = Bound(given, k)
      PROVE  GInv'
  <2>1. SpellingAndOrderDoNotMatter'
    BY <1>1, <1>9 DEF SpellingAndOrderDoNotMatter, Over
  <2>2. \A m \in DOMAIN Options : /\ m \in DOMAIN values'
                                  /\ m < k + 1 => /\ WrongWith(given, m) = "none"
                                                  /\ values'[m] = Bound(given, m)
                                  /\ m >= k + 1 => values'[m] = <<>>
    <3>1. SUFFICES ASSUME NEW m \in DOMAIN Options
                   PROVE  /\ m \in DOMAIN values'
                          /\ m < k + 1 => /\ WrongWith(given, m) = "none"
                                          /\ values'[m] = Bound(given, m)
                          /\ m >= k + 1 => values'[m] = <<>>
      OBVIOUS
    <3>2. CASE m = k
      BY <1>3, <1>9, <3>2, Zenon
    <3>3. CASE m # k
      BY <1>3, <1>6, <1>9, <3>3, Zenon
    <3> QED
      BY <3>2, <3>3
  <2>3. Called'
    BY <1>1, <1>3, <2>2, Zenon DEF Called
  <2> QED
    BY <1>1, <1>2, <1>4, <1>7, <1>9, <2>1, <2>3 DEF GInv, Meant
<1>10. CASE results[k] = <<>>
  <2>1. Mine(given, k) = {} /\ WrongWith(given, k) = "none" /\ values' = values /\ stage' = stage
    BY <1>1, <1>5, <1>10 DEF k
  <2>2. values'[k] = Bound(given, k)
    BY <1>3, <1>6, <2>1, Zenon DEF Bound
  <2> QED
    BY <1>6, <1>9, <2>1, <2>2, Zenon
<1>11. CASE results[k] # <<>> /\ CallbackError(k) = "none"
  <2>1. /\ stage' = stage
        /\ values' = [values EXCEPT ![k] = <<Converted(options[k], Last(results[k]))>>]
    BY <1>1, <1>11 DEF k
  <2>2. Last(results[k]) = Text(given, Max(Chosen(given, k, Len(given.groups))))
    BY <1>2, <1>3, <1>11, DoneFacts, Zenon
  <2>3. Bound(given, k) = <<Converted(options[k], Last(results[k]))>>
    BY <1>2, <1>5, <1>11, <2>2, Zenon DEF Bound
  <2>4. \A m \in DOMAIN Options : m \in DOMAIN values' /\ (m # k => values'[m] = values[m])
    BY <1>6, <2>1
  <2>5. values'[k] = Bound(given, k)
    BY <1>3, <1>6, <2>1, <2>3
  <2> QED
    BY <1>5, <1>9, <1>11, <2>1, <2>4, <2>5, Zenon
<1> QED
  BY <1>1, <1>8, <1>10, <1>11 DEF k

LEMMA ExtrasAreRefused ==
  ASSUME ThrownTellsWhy, GInv, given.groups # <<>>, ProcessExtras
  PROVE  GInv'
<1> DEFINE Many == \E k \in DOMAIN Options :
                     Options[k].pname # "" /\ \E i, j \in Mine(given, k) : i # j
<1>1. /\ stage = "callbacks" /\ next > Len(options) /\ Meant /\ Built
      /\ IF \E k \in DOMAIN missing : missing[k][1] # "MARK"
         THEN stage' = "thrown" /\ error' = "ExtrasError"
         ELSE stage' = "parsed" /\ error' = error
      /\ UNCHANGED <<given, options, values>>
  BY DEF GInv, ProcessExtras, Throw, collected
<1>2. AtGroups /\ Done /\ ~ Helps(given) /\ ~ Lacks(given) /\ Called /\ options = Options
  BY <1>1, Zenon DEF AtGroups, Meant, Built
<1>3. \A k \in DOMAIN Options : k < next
  BY <1>1, <1>2, OptionsFacts DEF Called
<1>4. \A k \in DOMAIN Options : WrongWith(given, k) = "none" /\ values[k] = Bound(given, k)
  BY <1>2, <1>3 DEF Called
<1>5. Built'
  BY <1>1, BuiltStays
<1>6. IF Many THEN stage' = "thrown" /\ error' = "ExtrasError"
      ELSE stage' = "parsed" /\ error' = error
  BY <1>1, <1>2, Nobody, Zenon
<1>7. Expected(given) = IF Many THEN "ExtrasError" ELSE "none"
  BY <1>2, <1>4, ExpectedExtras, Zenon
<1>8. ASSUME ~ Many, NEW k \in DOMAIN Options
      PROVE  values[k] = IF Mine(given, k) = {} THEN <<>>
                         ELSE <<Converted(Options[k], Text(given, Max(Mine(given, k))))>>
  <2>1. Chosen(given, k, Len(given.groups)) = Mine(given, k)
    <3>1. Chosen(given, k, Len(given.groups)) =
            IF Options[k].pname # ""
            THEN {i \in Mine(given, k) : \A j \in Mine(given, k) : i <= j} ELSE Mine(given, k)
      BY <1>2, DoneFacts, Zenon
    <3>2. CASE Options[k].pname # ""
      <4>1. \A i, j \in Mine(given, k) : i = j
        BY <1>8, <3>2
      <4>2. \A i \in Mine(given, k) : i <= i
        <5>1. given.groups \in Seq(Group)
          BY <1>2, ArgumentAssumption DEF AtGroups
        <5>2. DOMAIN given.groups \subseteq Int
          BY <5>1
        <5> QED
          BY <5>2 DEF Mine
      <4>3. {i \in Mine(given, k) : \A j \in Mine(given, k) : i <= j} = Mine(given, k)
        BY <4>1, <4>2, Zenon
      <4> QED
        BY <3>1, <3>2, <4>3, Zenon
    <3> QED
      BY <3>1, <3>2, Zenon
  <2> QED
    BY <1>4, <2>1, Zenon DEF Bound
<1>9. SpellingAndOrderDoNotMatter'
  <2>1. error' = Expected(given)
    <3>1. error = "none"
      BY <1>1 DEF ThrownTellsWhy
    <3> QED
      BY <1>6, <1>7, <3>1
  <2>2. stage' = "parsed" => ~ Many
    BY <1>6
  <2> HIDE DEF Many
  <2> QED
    BY <1>1, <1>8, <2>1, <2>2, Zenon DEF SpellingAndOrderDoNotMatter
<1> QED
  BY <1>1, <1>2, <1>5, <1>6, <1>9 DEF GInv, Meant

\* main.cpp's app has one positional, the ELF file.
LEMMA MainPositional == Options = MainOptions => OnlyOnePositional
<1>1. \A a, b, c, d, e, f, g, h : DOMAIN <<a, b, c, d, e, f, g, h>> = 1 .. 8
  OBVIOUS
<1>2. \A m \in 1 .. 8 : m \in {1, 2, 3, 4, 5, 6, 7, 8}
  OBVIOUS
<1> SUFFICES ASSUME Options = MainOptions, NEW k \in DOMAIN MainOptions,
                    MainOptions[k].pname # ""
             PROVE  k = 2
  BY DEF OnlyOnePositional
<1>3. k \in 1 .. 8
  BY <1>1 DEF MainOptions
<1>4. /\ MainOptions[1] = Option("", {"h"}, {"help"}, "help")
      /\ MainOptions[3] = Option("", {}, {"isa"}, "string")
      /\ MainOptions[4] = Option("", {"s"}, {"steps"}, "int")
      /\ MainOptions[5] = ExistingFile(Option("", {"i"}, {"init_state"}, "string"))
      /\ MainOptions[6] = Option("", {"f"}, {"final_state"}, "string")
      /\ MainOptions[7] = Option("", {}, {"interactive"}, "bool")
      /\ MainOptions[8] = Option("", {}, {"disable-logs"}, "bool")
  BY DEF MainOptions
<1>5. /\ Option("", {"h"}, {"help"}, "help").pname = ""
      /\ Option("", {}, {"isa"}, "string").pname = ""
      /\ Option("", {"s"}, {"steps"}, "int").pname = ""
      /\ Option("", {"f"}, {"final_state"}, "string").pname = ""
      /\ Option("", {}, {"interactive"}, "bool").pname = ""
      /\ Option("", {}, {"disable-logs"}, "bool").pname = ""
  BY DEF Option
<1>6. ExistingFile(Option("", {"i"}, {"init_state"}, "string")).pname = ""
  BY DEF ExistingFile, Option
<1>7. k \notin {1, 3, 4, 5, 6, 7, 8}
  BY <1>4, <1>5, <1>6, Zenon
<1> QED
  BY <1>2, <1>3, <1>7

LEMMA InitGInv == CommandInit => GInv
<1> SUFFICES ASSUME CommandInit PROVE GInv
  OBVIOUS
<1>1. /\ given = [args |-> <<>>, groups |-> <<>>] /\ stage = "building" /\ options = <<>>
      /\ positionalOnly = FALSE /\ missing = <<>> /\ next = 1
      /\ results = [k \in DOMAIN Options |-> <<>>] /\ values = [k \in DOMAIN Options |-> <<>>]
  BY DEF CommandInit, Init
<1>2. given.groups = <<>>
  BY <1>1
<1>3. options \in Seq(OptionType) /\ DOMAIN options = {} /\ Len(options) <= Len(Options)
  BY <1>1, OptionsFacts
<1>4. Fresh
  BY <1>1 DEF Fresh
<1> QED
  BY <1>1, <1>2, <1>3, <1>4 DEF GInv, Built, Apart

\* The line has no groups, or has not been given yet.
LEMMA NoGroupsStep ==
  ASSUME GInv, given.groups = <<>>, Parse
  PROVE  GInv'
<1>1. stage # "building" /\ stage' # "building" /\ UNCHANGED <<given, options>>
  BY DEF Parse, ParseMark, ParseUnknown, ParseFlag, ParseOption, ParsePositional, ProcessHelp,
         ProcessRequirements, RunCallback, ProcessExtras, AtArgument, Throw, collected
<1> QED
  BY <1>1, BuiltStays DEF GInv

LEMMA StepGInv ==
  ASSUME OnlyOnePositional, ThrownTellsWhy, GInv, [Main]_cmdVars
  PROVE  GInv'
<1>1. CASE Build
  BY <1>1, BuildingStep
<1>2. CASE Parse
  <2>1. CASE given.groups = <<>>
    BY <1>2, <2>1, NoGroupsStep
  <2>2. CASE given.groups # <<>>
    BY <1>2, <2>2, TurnStep, HelpIsAsked, RequirementsAreMet, CallbackRuns, ExtrasAreRefused
       DEF Parse
  <2> QED
    BY <2>1, <2>2
<1>3. CASE UNCHANGED parserVars
  <2>1. UNCHANGED <<given, stage, options, args, positionalOnly, results, missing, next,
                    values, error>>
    BY <1>3 DEF parserVars, collected
  <2>2. Fresh' = Fresh /\ Done' = Done /\ Called' = Called
    BY <2>1 DEF Fresh, Done, Called
  <2>3. Built' = Built
    BY <2>1, <2>2 DEF Built, Apart
  <2>4. SpellingAndOrderDoNotMatter' = SpellingAndOrderDoNotMatter
    BY <2>1 DEF SpellingAndOrderDoNotMatter, Over
  <2>5. Meant' = Meant
    BY <2>1, <2>2, <2>4 DEF Meant
  <2> QED
    BY <2>1, <2>3, <2>5 DEF GInv
<1> QED
  BY <1>1, <1>2, <1>3
     DEF Main, BuildApp, ParseArguments, ParseThrew, CreateSimulator, LoadElf, LoadState,
         RunProgram, SaveState, cmdVars

\* The same options mean the same in any order and in any spelling, for every
\* line, of any length, that is made of groups, and every app with at most one
\* positional, as in main.cpp (MainPositional): parse ends in the error, or with
\* the variables bound to the values, that follow from each option's strings.
THEOREM SpellingAndOrder ==
  OnlyOnePositional => (CommandLineSpec => []SpellingAndOrderDoNotMatter)
<1> SUFFICES ASSUME OnlyOnePositional
             PROVE  CommandLineSpec => []SpellingAndOrderDoNotMatter
  OBVIOUS
<1>1. GInv => SpellingAndOrderDoNotMatter
  <2>1. CASE given.groups = <<>>
    BY <2>1 DEF SpellingAndOrderDoNotMatter
  <2>2. CASE given.groups # <<>>
    BY <2>2 DEF GInv, Meant
  <2> QED
    BY <2>1, <2>2
<1>2. IInv /\ GInv /\ [Main]_cmdVars => (IInv /\ GInv)'
  BY StepIInv, StepGInv DEF IInv
<1>3. CommandInit => IInv /\ GInv
  BY InitIInv, InitGInv
<1> QED
  BY <1>1, <1>2, <1>3, PTL DEF CommandLineSpec
=============================================================================
