----------------------------- MODULE CommandLine -----------------------------
(***************************************************************************)
(* The command line of main.cpp: ParseArgs over the arguments in turn, and *)
(* ParseUnsignedInt, which rests on the C library's strtoul.               *)
(*                                                                         *)
(* A number is a sequence of digits to the base 2, signs, blanks and other *)
(* characters.                                                             *)
(***************************************************************************)
EXTENDS Widths

CONSTANTS
    MaxArgs,      \* bound: arguments
    Numbers       \* the texts given to --port and --sync-timeout-ms

ASSUME ArgsAssumption == MaxArgs \in Nat /\ Numbers \subseteq Seq(STRING)

VARIABLES
    args,       \* the arguments read so far
    options,    \* what they made of the ServiceOptions
    outcome     \* "reading", "run", or "usage" when main returns 1

argVars == <<args, options, outcome>>

Levels == {"debug", "info", "warn", "error", "off"}

Args ==
    [option : {"--port=", "--sync-timeout-ms="}, text : Numbers]
      \cup [option : {"--log-level="}, text : {<<level>> : level \in Levels \cup {"loud"}}]
      \cup [option : {"--host=", "--help", "other"}, text : {<<"any">>}]

Defaults == [host |-> <<"0.0.0.0">>, port |-> 1, level |-> "info", timeout |-> 1]

ArgsTypeOK ==
    /\ args \in Seq(Args) /\ Len(args) <= MaxArgs
    /\ options.port \in 0..PortMax /\ options.timeout \in 0..UintMax
    /\ options.level \in Levels
    /\ outcome \in {"reading", "run", "usage"}

ArgsInit == args = <<>> /\ options = Defaults /\ outcome = "reading"
-----------------------------------------------------------------------------
(* strtoul(text, &end, 10): blanks, at most one sign, digits.  A number that*)
(* is too large becomes ULONG_MAX, a negative one wraps, and end is where   *)
(* the digits stop, or the beginning if there are none.                     *)

Digits == {"0", "1"}

\* How many characters at the beginning of the text are in chars.
Span(text, chars) ==
    LET count[i \in 0..Len(text)] ==
            IF i < Len(text) /\ text[i + 1] \in chars THEN count[i + 1] ELSE i
    IN  count[0]

Drop(text, n) == SubSeq(text, n + 1, Len(text))

Value(digits) ==
    LET value[i \in 0..Len(digits)] ==
            IF i = 0 THEN 0 ELSE 2 * value[i - 1] + (IF digits[i] = "1" THEN 1 ELSE 0)
    IN  value[Len(digits)]

Unblanked(text) == Drop(text, Span(text, {" "}))
IsSigned(text)  == Unblanked(text) # <<>> /\ Unblanked(text)[1] \in {"+", "-"}
Unsigned(text)  == IF IsSigned(text) THEN Drop(Unblanked(text), 1) ELSE Unblanked(text)
Written(text)   == SubSeq(Unsigned(text), 1, Span(Unsigned(text), Digits))
IsNegative(text) == IsSigned(text) /\ Unblanked(text)[1] = "-"

strtoul(text) ==
    LET value == Value(Written(text))
    IN  IF value > ULongMax THEN ULongMax
        ELSE IF IsNegative(text) THEN (ULongMax + 1 - value) % (ULongMax + 1) ELSE value

ReadToTheEnd(text) == Written(text) # <<>> /\ Written(text) = Unsigned(text)
-----------------------------------------------------------------------------
(* main.cpp.                                                                *)

\* Faulty variant: the range is tested after the cast.
ParsedAfterCast(text) == text # <<>> /\ ReadToTheEnd(text)

Parsed(text) == text # <<>> /\ ReadToTheEnd(text) /\ strtoul(text) <= UintMax

ParseUnsignedInt(text) == ToUint(strtoul(text))

PortAccepted(text) ==
    Parsed(text) /\ ParseUnsignedInt(text) # 0 /\ ParseUnsignedInt(text) <= PortMax

TimeoutAccepted(text) == Parsed(text) /\ ParseUnsignedInt(text) # 0

Read(option, text) ==
    /\ outcome = "reading" /\ Len(args) < MaxArgs
    /\ args' = Append(args, [option |-> option, text |-> text])

Set(field, value) == options' = [options EXCEPT ![field] = value] /\ UNCHANGED outcome
Usage == outcome' = "usage" /\ UNCHANGED options

SetHost == Read("--host=", <<"any">>) /\ Set("host", <<"any">>)

SetPort(text) ==
    /\ Read("--port=", text)
    /\ IF PortAccepted(text) THEN Set("port", ParseUnsignedInt(text)) ELSE Usage

SetLogLevel(level) ==
    /\ Read("--log-level=", <<level>>)
    /\ IF level \in Levels THEN Set("level", level) ELSE Usage

SetTimeout(text) ==
    /\ Read("--sync-timeout-ms=", text)
    /\ IF TimeoutAccepted(text) THEN Set("timeout", ParseUnsignedInt(text)) ELSE Usage

\* --help, -h, and what is no option.
RefuseOption == (Read("--help", <<"any">>) \/ Read("other", <<"any">>)) /\ Usage

ArgsEnd ==
    /\ outcome = "reading" /\ outcome' = "run"
    /\ UNCHANGED <<args, options>>

ParseArgs ==
    \/ SetHost \/ RefuseOption \/ ArgsEnd
    \/ \E text \in Numbers : SetPort(text) \/ SetTimeout(text)
    \/ \E level \in Levels \cup {"loud"} : SetLogLevel(level)
-----------------------------------------------------------------------------
\* The number a text stands for, if it is one with an optional sign.
Meaning(text) == IF IsNegative(text) THEN -Value(Written(text)) ELSE Value(Written(text))

LastText(option) ==
    LET given == {i \in 1..Len(args) : args[i].option = option}
    IN  args[CHOOSE i \in given : \A j \in given : j <= i].text

Given(option) == \E i \in 1..Len(args) : args[i].option = option

\* Is the value what strtoul reads in a text that is a number and nothing else?
\* That is the number, unless it is so far below 0 that it wraps into an unsigned
\* int, or beyond an unsigned long that is no wider than an unsigned int.
IsReadIn(value, text) ==
    /\ ReadToTheEnd(text)
    /\ \/ value = Meaning(text)
       \/ Meaning(text) < UintMax - ULongMax /\ value = Meaning(text) + ULongMax + 1
       \/ Value(Written(text)) > ULongMax /\ ULongMax = UintMax /\ value = UintMax

\* The service runs with the port and the timeout that strtoul reads in what was
\* given last, or with the defaults, and both are usable: not 0, and within their
\* widths.  What is no number, or one outside of the option's range, is refused,
\* except that strtoul does not report what wraps into the range, nor, where
\* unsigned long is no wider than unsigned int, what is too large for it.
RunsWithWhatWasRead ==
    outcome = "run" =>
        /\ options.port \in 1..PortMax /\ options.timeout \in 1..UintMax
        /\ Given("--port=") => IsReadIn(options.port, LastText("--port="))
        /\ Given("--sync-timeout-ms=") =>
              IsReadIn(options.timeout, LastText("--sync-timeout-ms="))
=============================================================================
