--------------------------- MODULE ArgumentParser ---------------------------
(***************************************************************************)
(* CLI::App::parse (inc/CLI11.hpp) for an app like main.cpp's: without     *)
(* subcommands, configuration file and environment, with options that take *)
(* one value, flags, and positionals, each bound to a variable.            *)
(*                                                                         *)
(* A string is the sequence of its lexemes: the characters "-" and "=",    *)
(* and words and numerals, which are split no further than the arguments   *)
(* in question ask for: "--steps=5" is <<"-", "-", "steps", "=", "5">> and *)
(* "-s5" is <<"-", "s", "5">>.                                             *)
(***************************************************************************)
EXTENDS Integers, Sequences, SequencesExt

CONSTANTS
  Options,      \* what is added to the app, in that order
  Numerals,     \* the value of a numeral
  IntMax,       \* INT_MAX
  Files,        \* the strings that name a file, not a directory
  GivenLines    \* the command lines, with what was meant by them

\* pname is the name of a positional, "" for what is none; flags take no value.
OptionType ==
  [pname : STRING, shorts : SUBSET STRING, longs : SUBSET STRING, flag : BOOLEAN,
   required : BOOLEAN, isFile : BOOLEAN, type : {"string", "int", "bool", "help"}]

\* A group is an option with the string it is given, however it is spelled; a
\* line that is not made of groups has none.
Group == [option : Nat, text : Seq(STRING)]

ASSUME ArgumentAssumption ==
  /\ Options \in Seq(OptionType)
  /\ \A k \in DOMAIN Options : Options[k].type \in {"bool", "help"} <=> Options[k].flag
  /\ \A l \in GivenLines : l.args \in Seq(Seq(STRING)) /\ l.groups \in Seq(Group)
  /\ IntMax \in Nat /\ \A n \in DOMAIN Numerals : Numerals[n] \in Nat

VARIABLES
  given,           \* the command line parse is called with
  stage,           \* where parse is, "parsed" or "thrown"
  options,         \* App::options_
  args,            \* what is left to parse
  positionalOnly,  \* "--" was seen
  results,         \* the strings each option was given
  missing,         \* what no option took, each with its class
  next,            \* the option whose callback is due
  values,          \* what each bound variable was set to, <<>> where untouched
  error            \* what was thrown, or "none"

collected == <<args, positionalOnly, results, missing>>
parserVars == <<given, stage, options, collected, next, values, error>>

Init ==
  /\ given = [args |-> <<>>, groups |-> <<>>]
  /\ stage = "building"
  /\ options = <<>>
  /\ args = <<>> /\ positionalOnly = FALSE
  /\ results = [k \in DOMAIN Options |-> <<>>]
  /\ missing = <<>>
  /\ next = 1
  /\ values = [k \in DOMAIN Options |-> <<>>]
  /\ error = "none"

Throw(e) == stage' = "thrown" /\ error' = e

-----------------------------------------------------------------------------
(***************************************************************************)
(* Building the app.                                                       *)
(***************************************************************************)
Configurable(o) == o.type # "help"

AllNames(o) == o.shorts \cup o.longs \cup {o.pname}

\* Short names and long ones are kept apart, unless a configuration file could
\* set both options.
Matches(old, new) ==
  \/ old.shorts \cap new.shorts # {} \/ old.longs \cap new.longs # {}
  \/ /\ Configurable(old) /\ Configurable(new)
     /\ \/ old.shorts \cap new.longs # {} \/ old.longs \cap new.shorts # {}
        \/ old.pname # "" /\ old.shorts \cup old.longs = {} /\ old.pname \in AllNames(new)
        \/ new.pname # "" /\ new.shorts = {} /\ new.pname \in AllNames(old)

AddOption ==
  LET new == Options[Len(options) + 1]
  IN /\ stage = "building" /\ Len(options) < Len(Options)
     /\ IF \E k \in DOMAIN options : Matches(options[k], new)
        THEN Throw("OptionAlreadyAdded") /\ UNCHANGED options
        ELSE options' = Append(options, new) /\ UNCHANGED <<stage, error>>
     /\ UNCHANGED <<given, collected, next, values>>

StartParse ==
  /\ stage = "building" /\ Len(options) = Len(Options)
  /\ given' \in GivenLines
  /\ args' = given'.args
  /\ stage' = "arguments"
  /\ UNCHANGED <<options, positionalOnly, results, missing, next, values, error>>

-----------------------------------------------------------------------------
(***************************************************************************)
(* Classes of arguments and the parts of an option's.                      *)
(***************************************************************************)
FirstChar(c) == c \notin {"-", "!"}

SplitsLong(a)  == Len(a) > 2 /\ a[1] = "-" /\ a[2] = "-" /\ FirstChar(a[3])
SplitsShort(a) == Len(a) > 1 /\ a[1] = "-" /\ FirstChar(a[2])

\* Negative numbers are no options, unless there is an option of that name.
Recognize(a) ==
  CASE a = <<"-", "-">> -> "MARK"
    [] SplitsLong(a)    -> "LONG"
    [] SplitsShort(a)   ->
         IF a[2] \in DOMAIN Numerals /\ \A k \in DOMAIN options : a[2] \notin options[k].shorts
         THEN "NONE" ELSE "SHORT"
    [] OTHER            -> "NONE"

\* Position of the first "=", or one past the end.
Equals(a) ==
  SelectInSeq(a \o <<"=">>, LAMBDA c : c = "=")

\* Name, value after "=" and what follows a short name's letter.
Name(a)  == IF SplitsLong(a) THEN SubSeq(a, 3, Equals(a) - 1) ELSE <<a[2]>>
Value(a) == IF SplitsLong(a) THEN SubSeq(a, Equals(a) + 1, Len(a)) ELSE <<>>
Rest(a)  == IF SplitsLong(a) THEN <<>> ELSE SubSeq(a, 3, Len(a))

Names(o, a) ==
  \E n \in (IF SplitsLong(a) THEN o.longs ELSE o.shorts) : Name(a) = <<n>>

\* find_if over options_, 0 for its end.
Find(a) == SelectInSeq(options, LAMBDA o : Names(o, a))

-----------------------------------------------------------------------------
(***************************************************************************)
(* One turn of the loop in _parse: _parse_single.                          *)
(***************************************************************************)
AddResult(k, text) == results' = [results EXCEPT ![k] = Append(@, text)]

Class == IF positionalOnly THEN "NONE" ELSE Recognize(Head(args))

AtArgument == stage = "arguments" /\ args # <<>>

ParseMark ==
  /\ AtArgument /\ Class = "MARK"
  /\ args' = Tail(args)
  /\ positionalOnly' = TRUE
  /\ missing' = Append(missing, <<"MARK", Head(args)>>)
  /\ UNCHANGED <<given, stage, options, results, next, values, error>>

ParseUnknown ==
  /\ AtArgument /\ Class \in {"LONG", "SHORT"} /\ Find(Head(args)) = 0
  /\ args' = Tail(args)
  /\ missing' = Append(missing, <<Class, Head(args)>>)
  /\ UNCHANGED <<given, stage, options, positionalOnly, results, next, values, error>>

\* Wrong: a flag's letter stays in front of the letters that follow it, to be
\* recorded when it is the last.
ParseFlagForEver ==
  LET a == Head(args)
      k == Find(a)
  IN /\ AtArgument /\ Class \in {"LONG", "SHORT"}
     /\ k # 0 /\ options[k].flag
     /\ IF Rest(a) = <<>>
        THEN /\ AddResult(k, IF Value(a) = <<>> THEN <<"true">> ELSE Value(a))
             /\ args' = Tail(args)
        ELSE UNCHANGED <<results, args>>
     /\ UNCHANGED <<given, stage, options, positionalOnly, missing, next, values, error>>

\* What follows the letter of a flag is put back as short options.
ParseFlag ==
  LET a == Head(args)
      k == Find(a)
  IN /\ AtArgument /\ Class \in {"LONG", "SHORT"}
     /\ k # 0 /\ options[k].flag
     /\ AddResult(k, IF Value(a) = <<>> THEN <<"true">> ELSE Value(a))
     /\ args' = IF Rest(a) = <<>> THEN Tail(args)
                ELSE <<<<"-">> \o Rest(a)>> \o Tail(args)
     /\ UNCHANGED <<given, stage, options, positionalOnly, missing, next, values, error>>

\* Without a value of its own an option takes the next argument, whatever it
\* looks like.  A value after "=" that is empty counts as none.
ParseOption ==
  LET a     == Head(args)
      k     == Find(a)
      own   == Value(a) \o Rest(a)
      after == Tail(args)
  IN /\ AtArgument /\ Class \in {"LONG", "SHORT"}
     /\ k # 0 /\ ~ options[k].flag
     /\ IF own # <<>>
        THEN AddResult(k, own) /\ args' = after /\ UNCHANGED <<stage, error>>
        ELSE IF after # <<>>
        THEN AddResult(k, Head(after)) /\ args' = Tail(after) /\ UNCHANGED <<stage, error>>
        ELSE Throw("ArgumentMismatch") /\ args' = after /\ UNCHANGED results
     /\ UNCHANGED <<given, options, positionalOnly, missing, next, values>>

\* The first positional that has no value yet takes the argument.
ParsePositional ==
  LET open == {k \in DOMAIN options : options[k].pname # "" /\ results[k] = <<>>}
      a    == Head(args)
  IN /\ AtArgument /\ Class = "NONE"
     /\ args' = Tail(args)
     /\ IF open = {}
        THEN missing' = Append(missing, <<"NONE", a>>) /\ UNCHANGED results
        ELSE /\ AddResult(CHOOSE k \in open : \A m \in open : k <= m, a)
             /\ UNCHANGED missing
     /\ UNCHANGED <<given, stage, options, positionalOnly, next, values, error>>

-----------------------------------------------------------------------------
(***************************************************************************)
(* _process and _process_extras, once every argument is taken.             *)
(***************************************************************************)
ProcessHelp ==
  /\ stage = "arguments" /\ args = <<>>
  /\ IF \E k \in DOMAIN options : options[k].type = "help" /\ results[k] # <<>>
     THEN Throw("CallForHelp")
     ELSE stage' = "requirements" /\ UNCHANGED error
  /\ UNCHANGED <<given, options, collected, next, values>>

ProcessRequirements ==
  /\ stage = "requirements"
  /\ IF \E k \in DOMAIN options : options[k].required /\ results[k] = <<>>
     THEN Throw("RequiredError")
     ELSE stage' = "callbacks" /\ UNCHANGED error
  /\ UNCHANGED <<given, options, collected, next, values>>

\* integral_conversion; nothing at all is a zero.
ToInt(text) ==
  CASE text = <<>>       -> 0
    [] text = <<"true">> -> 1
    [] Len(text) = 1 /\ text[1] \in DOMAIN Numerals -> Numerals[text[1]]
    [] Len(text) = 2 /\ text[1] = "-" /\ text[2] \in DOMAIN Numerals -> - Numerals[text[2]]
    [] OTHER             -> IntMax + 1

IsInt(text) == ToInt(text) \in - IntMax - 1 .. IntMax

\* to_flag_value, and whether it sets no errno.
TrueWords  == {"true", "on", "yes", "enable", "t", "y", "+"}
FalseWords == {"false", "off", "no", "disable", "f", "n", "-"}

IsBool(text) ==
  \/ text = <<>>
  \/ Len(text) = 1 /\ text[1] \in TrueWords \cup FalseWords \cup DOMAIN Numerals
  \/ Len(text) = 2 /\ text[1] = "-" /\ text[2] \in DOMAIN Numerals

ToBool(text) ==
  /\ Len(text) = 1
  /\ text[1] \in TrueWords \/ (text[1] \in DOMAIN Numerals /\ Numerals[text[1]] > 0)

Converts(o, text) ==
  CASE o.type = "int"  -> IsInt(text)
    [] o.type = "bool" -> IsBool(text)
    [] OTHER           -> TRUE

Converted(o, text) ==
  CASE o.type = "int"  -> ToInt(text)
    [] o.type = "bool" -> ToBool(text)
    [] OTHER           -> text

\* Wrong: of a repeated option the last value counts, as of a flag.
CallbackErrorTakeLast(k) ==
  LET o == options[k] IN
  IF o.isFile /\ \E text \in ToSet(results[k]) : text \notin Files THEN "ValidationError"
  ELSE IF ~ Converts(o, Last(results[k])) THEN "ConversionError"
  ELSE "none"

\* run_callback validates, reduces and converts: options throw when given
\* twice, of a flag the last value counts.
CallbackError(k) ==
  LET o == options[k] IN
  IF o.isFile /\ \E text \in ToSet(results[k]) : text \notin Files THEN "ValidationError"
  ELSE IF ~ o.flag /\ Len(results[k]) > 1 THEN "ArgumentMismatch"
  ELSE IF ~ Converts(o, Last(results[k])) THEN "ConversionError"
  ELSE "none"

RunCallback ==
  /\ stage = "callbacks" /\ next <= Len(options)
  /\ next' = next + 1
  /\ IF results[next] = <<>> THEN UNCHANGED <<stage, error, values>>
     ELSE IF CallbackError(next) # "none"
     THEN Throw(CallbackError(next)) /\ UNCHANGED values
     ELSE /\ values' = [values EXCEPT ![next] = <<Converted(options[next], Last(results[next]))>>]
          /\ UNCHANGED <<stage, error>>
  /\ UNCHANGED <<given, options, collected>>

\* Wrong: what no option took is not looked at.
ProcessExtrasIgnored ==
  /\ stage = "callbacks" /\ next > Len(options)
  /\ stage' = "parsed" /\ UNCHANGED error
  /\ UNCHANGED <<given, options, collected, next, values>>

ProcessExtras ==
  /\ stage = "callbacks" /\ next > Len(options)
  /\ IF \E k \in DOMAIN missing : missing[k][1] # "MARK"
     THEN Throw("ExtrasError")
     ELSE stage' = "parsed" /\ UNCHANGED error
  /\ UNCHANGED <<given, options, collected, next, values>>

Build == AddOption \/ StartParse

Parse ==
  \/ ParseMark \/ ParseUnknown \/ ParseFlag \/ ParseOption \/ ParsePositional
  \/ ProcessHelp \/ ProcessRequirements \/ RunCallback \/ ProcessExtras

-----------------------------------------------------------------------------
(***************************************************************************)
(* Properties.                                                             *)
(***************************************************************************)
\* An argument that can only be a positional.
Plain(a) ==
  /\ a # <<"-", "-">> /\ ~ SplitsLong(a)
  /\ SplitsShort(a) =>
       a[2] \in DOMAIN Numerals /\ \A k \in DOMAIN Options : a[2] \notin Options[k].shorts

\* The arguments s are a spelling of group g: the option's name alone, in front
\* of the string if it takes one, or the name and the string in one.
Spells(s, g) ==
  LET o     == Options[g.option]
      named == {<<"-", "-", n, "=">> : n \in o.longs}
      short == {<<"-", n>> : n \in o.shorts}
      alone == {<<"-", "-", n>> : n \in o.longs} \cup named \cup short
      joint == named \cup (IF o.flag THEN {} ELSE short)
  IN IF o.pname # "" THEN Plain(g.text) /\ s = <<g.text>>
     ELSE \/ o.flag /\ g.text = <<"true">> /\ \E a \in alone : s = <<a>>
          \/ ~ o.flag /\ \E a \in alone : s = <<a, g.text>>
          \/ g.text # <<>> /\ \E a \in joint : s = <<a \o g.text>>

\* The line is cut into spellings of its groups, in their order.
CutBy(l, cut) ==
  LET n == Len(l.groups)
  IN /\ cut \in [0 .. n -> 0 .. Len(l.args)]
     /\ cut[0] = 0 /\ cut[n] = Len(l.args)
     /\ \A i \in 1 .. n : /\ l.groups[i].option \in DOMAIN Options
                          /\ Spells(SubSeq(l.args, cut[i - 1] + 1, cut[i]), l.groups[i])

ASSUME GroupsAssumption ==
  /\ \A l \in GivenLines : l.groups # <<>> =>
       \E cut \in [0 .. Len(l.groups) -> 0 .. Len(l.args)] : CutBy(l, cut)
  \* No name is taken for a dash, an exclamation mark or the end of a name.
  /\ \A k \in DOMAIN Options :
       (Options[k].shorts \cup Options[k].longs) \cap {"-", "!", "="} = {}

\* The groups of option k in line l, and their strings.
Mine(l, k) == {i \in DOMAIN l.groups : l.groups[i].option = k}
Text(l, i) == l.groups[i].text

\* What is wrong with the strings for option k; a positional takes the first.
WrongWith(l, k) ==
  LET o    == Options[k]
      mine == IF o.pname # "" THEN {i \in Mine(l, k) : \A j \in Mine(l, k) : i <= j} ELSE Mine(l, k)
  IN IF mine = {} THEN "none"
     ELSE IF o.isFile /\ \E i \in mine : Text(l, i) \notin Files THEN "ValidationError"
     ELSE IF ~ o.flag /\ \E i, j \in mine : i # j THEN "ArgumentMismatch"
     ELSE IF ~ Converts(o, Text(l, Max(mine))) THEN "ConversionError"
     ELSE "none"

Expected(l) ==
  LET all   == DOMAIN Options
      wrong == {k \in all : WrongWith(l, k) # "none"}
      extra == {k \in all : Options[k].pname # "" /\ \E i, j \in Mine(l, k) : i # j}
  IN IF \E k \in all : Options[k].type = "help" /\ Mine(l, k) # {} THEN "CallForHelp"
     ELSE IF \E k \in all : Options[k].required /\ Mine(l, k) = {} THEN "RequiredError"
     ELSE IF wrong # {} THEN WrongWith(l, Min(wrong))
     ELSE IF extra # {} THEN "ExtrasError"
     ELSE "none"

Over == stage \in {"parsed", "thrown"}

\* The same options mean the same in any order and in any spelling: whether the
\* line is accepted, which error it gets, and what the variables are bound to,
\* follow from what each option was given.
SpellingAndOrderDoNotMatter ==
  Over /\ given.groups # <<>> =>
    /\ error = Expected(given)
    /\ stage = "parsed" =>
         \A k \in DOMAIN Options :
           values[k] = IF Mine(given, k) = {} THEN <<>>
                       ELSE <<Converted(Options[k], Text(given, Max(Mine(given, k))))>>

\* An option that takes the argument behind it.
TakesNext(a) ==
  /\ Find(a) # 0 /\ ~ options[Find(a)].flag
  /\ Value(a) \o Rest(a) = <<>>

LooksLikeOption(a) == a # <<"-", "-">> /\ Recognize(a) \in {"LONG", "SHORT"}

\* An option the app does not have never starts the program: in a line that is
\* accepted, what looks like one follows "--" or is in the place of a value, right
\* behind an option that takes one and has none.
UnknownOptionsAreRefused ==
  stage = "parsed" =>
    \A i \in DOMAIN given.args :
      LET a == given.args[i] IN
      LooksLikeOption(a) /\ Find(a) = 0 =>
        \/ \E j \in 1 .. i - 1 : given.args[j] = <<"-", "-">>
        \/ i > 1 /\ LooksLikeOption(given.args[i - 1]) /\ TakesNext(given.args[i - 1])

\* Every command line is parsed to an end, however the letters of short options
\* are run together.
ParsingEnds == stage = "arguments" ~> Over
=============================================================================
