---------------------------- MODULE Interpolation ----------------------------
(***************************************************************************)
(* Argument interpolation (src/go/connection.go) and the two ways a call  *)
(* with arguments reaches Athena.  ExecContext interpolates the arguments *)
(* into the text (interpolateParams) and submits that text; QueryContext  *)
(* runs interpolateParams only as a check, then submits the text with its *)
(* placeholders together with the ExecutionParameters built by            *)
(* buildExecutionParams.  Prepare counts the placeholders of a statement. *)
(* Both operations are pure functions here, written as operators over     *)
(* TLA+ strings (one character per byte).                                 *)
(*                                                                         *)
(* Arguments are the values database/sql hands over after CheckNamedValue *)
(* (driver.DefaultParameterConverter): nil, int64, bool, []byte, string   *)
(* and time.Time in UTC.  float64 is left out: both operations format it  *)
(* with the same strconv call.                                             *)
(***************************************************************************)
EXTENDS Integers, Sequences, SequencesExt

CONSTANTS
    MaxQueryStringLength,  \* MAXQueryStringLength; output is capped at 10x
    Queries,               \* query texts over "c" (any byte) and "?"
    ArgLists               \* argument lists as CheckNamedValue leaves them

VARIABLES
    entry,      \* the driver entry point: "exec", "query" or "prepare"
    query,      \* the query text passed in
    args,       \* the arguments passed in
    pc,         \* "start" or "done"
    submitted,  \* what StartQueryExecution is sent: text and parameters
    outcome,    \* "submitted", "prepared" or the error (or panic) the call ends with
    numInput    \* Statement.numInput of a prepared statement (-1: none)

vars == <<entry, query, args, pc, submitted, outcome, numInput>>

Outcomes == {"none", "submitted", "prepared", "ErrInvalidQuery",
             "ErrQueryBufferOF", "panic"}
NoSubmission == [text |-> "", params |-> <<>>]

-----------------------------------------------------------------------------
(* Strings, digits and Go integer arithmetic.                             *)

CharAt(s, i) == SubSeq(s, i, i)

\* The positions of ch in s, and how many there are (strings.Count).
Positions(s, ch) == {i \in 1..Len(s) : CharAt(s, i) = ch}
CountChar(s, ch) == Cardinality(Positions(s, ch))

\* strings.IndexByte, 1-based; 0 when the byte does not occur.
IndexByte(s, ch) == IF Positions(s, ch) = {} THEN 0 ELSE Min(Positions(s, ch))

Digit(d) == SubSeq("0123456789", d + 1, d + 1)

\* strconv.AppendInt(_, n, 10).
RECURSIVE Decimal(_)
Decimal(n) ==
    IF n < 0 THEN "-" \o Decimal(-n)
    ELSE IF n < 10 THEN Digit(n) ELSE Decimal(n \div 10) \o Digit(n % 10)

\* Go's / and % truncate toward zero.
GoDiv(a, b) == IF a >= 0 THEN a \div b ELSE -((-a) \div b)
GoMod(a, b) == a - b * GoDiv(a, b)

\* escapeStringBackslash / escapeBytesBackslash: quote and backslash are
\* prefixed with a backslash.
EscapeBackslash(s) ==
    IF s = "" THEN ""
    ELSE FlattenSeq([i \in 1..Len(s) |->
            IF CharAt(s, i) \in {"'", "\\"} THEN "\\" \o CharAt(s, i)
                                            ELSE CharAt(s, i)])

-----------------------------------------------------------------------------
(* time.Time in UTC, rounded as both operations do with Add(500ns).       *)

IsLeap(y) == y % 4 = 0 /\ (y % 100 # 0 \/ y % 400 = 0)
DaysIn(m, y) ==
    IF m = 2 THEN IF IsLeap(y) THEN 29 ELSE 28
    ELSE IF m \in {4, 6, 9, 11} THEN 30 ELSE 31

\* Time.IsZero: January 1, year 1, 00:00:00 UTC.
IsZero(t) ==
    t = [year |-> 1, month |-> 1, day |-> 1, hour |-> 0, minute |-> 0,
         second |-> 0, nano |-> 0]

\* v.Add(time.Nanosecond * 500), with the carry through every field.
AddHalfMicro(t) ==
    LET n  == t.nano + 500
        s  == t.second + n \div 1000000000
        mi == t.minute + s \div 60
        h  == t.hour + mi \div 60
        d  == t.day + h \div 24
        nextMonth == d > DaysIn(t.month, t.year)
        mo == IF nextMonth THEN t.month + 1 ELSE t.month
    IN [year   |-> IF mo > 12 THEN t.year + 1 ELSE t.year,
        month  |-> IF mo > 12 THEN 1 ELSE mo,
        day    |-> IF nextMonth THEN 1 ELSE d,
        hour   |-> h % 24, minute |-> mi % 60, second |-> s % 60,
        nano   |-> n % 1000000000]

Micro(v) == v.nano \div 1000

ZeroTimeLiteral == "'0000-00-00'"

-----------------------------------------------------------------------------
(* interpolateParams.                                                      *)

\* The indexes into digits10/digits01 the time.Time case computes: year/100
\* and year%100, the other fields, and the microsecond pairs when non-zero.
TimeDigitIndexes(v) ==
    <<GoDiv(v.year, 100), GoMod(v.year, 100), v.month, v.day,
      v.hour, v.minute, v.second>>
    \o (IF Micro(v) # 0
          THEN <<Micro(v) \div 10000, (Micro(v) \div 100) % 100, Micro(v) % 100>>
          ELSE <<>>)

\* digits10[n], digits01[n]: the tens and units of n < 100.
TwoDigits(n) == Digit(n \div 10) \o Digit(n % 10)

\* The time.Time case indexes past the 100-entry digit tables.
Panics(a) ==
    /\ a.type = "time"
    /\ ~IsZero(a.v)
    /\ \E i \in DOMAIN TimeDigitIndexes(AddHalfMicro(a.v)) :
           TimeDigitIndexes(AddHalfMicro(a.v))[i] \notin 0..99

TimeLiteral(t) ==
    IF IsZero(t) THEN ZeroTimeLiteral
    ELSE LET x == TimeDigitIndexes(AddHalfMicro(t))
             Sep == <<"", "", "-", "-", " ", ":", ":", ".", "", "">>
         IN "'" \o FlattenSeq([i \in DOMAIN x |-> Sep[i] \o TwoDigits(x[i])]) \o "'"

\* The literal interpolateParams appends for a non-nil argument.
Literal(a) ==
    CASE a.type = "int64"  -> Decimal(a.v)
      [] a.type = "bool"   -> IF a.v THEN "1" ELSE "0"
      [] a.type = "time"   -> TimeLiteral(a.v)
      [] a.type = "bytes"  -> "_binary'" \o EscapeBackslash(a.v) \o "'"
      [] a.type = "string" -> "'" \o EscapeBackslash(a.v) \o "'"

Ok(text) == [status |-> "ok", text |-> text]
Fail(err) == [status |-> err, text |-> ""]

\* The loop over the query: copy up to the next '?', append the argument's
\* literal (NULL without the overflow check), stop after the last '?'.
RECURSIVE Loop(_, _, _)
Loop(rest, as, buf) ==
    LET q    == IndexByte(rest, "?")
        a    == Head(as)
        pre  == buf \o SubSeq(rest, 1, q - 1)
        next == SubSeq(rest, q + 1, Len(rest))
    IN IF q = 0 THEN Ok(buf \o rest)
       ELSE CASE a.type = "nil" -> Loop(next, Tail(as), pre \o "NULL")
              [] Panics(a) -> Fail("panic")
              [] Len(pre \o Literal(a)) + 4 > 10 * MaxQueryStringLength ->
                     Fail("ErrQueryBufferOF")
              [] OTHER -> Loop(next, Tail(as), pre \o Literal(a))

InterpolateParams(q, as) ==
    IF CountChar(q, "?") # Len(as) THEN Fail("ErrInvalidQuery")
    ELSE Loop(q, as, "")

-----------------------------------------------------------------------------
(* buildExecutionParams.                                                   *)

\* time.Year formatted with layout width 4, as Time.Format does.
Pad(n, w) ==
    LET d == Decimal(n)
    IN IF Len(d) >= w THEN d ELSE SubSeq("0000000", 1, w - Len(d)) \o d

FormatYear(y) == IF y < 0 THEN "-" \o Pad(-y, 4) ELSE Pad(y, 4)

\* v.Format(time.DateTime) or v.Format(timestampFormatDriverMicro).
FormatTime(v, withMicro) ==
    FormatYear(v.year) \o "-" \o Pad(v.month, 2) \o "-" \o Pad(v.day, 2)
    \o " " \o Pad(v.hour, 2) \o ":" \o Pad(v.minute, 2) \o ":" \o Pad(v.second, 2)
    \o (IF withMicro THEN "." \o Pad(Micro(v), 6) ELSE "")

\* Mutant: the microsecond part is decided on the time before rounding.
ParamTimePreRound(t) ==
    IF IsZero(t) THEN ZeroTimeLiteral
    ELSE "'" \o FormatTime(AddHalfMicro(t), Micro(t) # 0) \o "'"

\* The time.Time case: the microseconds are omitted when they are zero
\* after rounding.
ParamTime(t) ==
    IF IsZero(t) THEN ZeroTimeLiteral
    ELSE LET v == AddHalfMicro(t) IN "'" \o FormatTime(v, Micro(v) # 0) \o "'"

Param(a) ==
    CASE a.type = "nil"    -> "NULL"
      [] a.type = "int64"  -> Decimal(a.v)
      [] a.type = "bool"   -> IF a.v THEN "1" ELSE "0"
      [] a.type = "time"   -> ParamTime(a.v)
      [] a.type \in {"bytes", "string"} -> a.v


\* One parameter per argument, in order.
BuildExecutionParams(as) == [i \in 1..Len(as) |-> Param(as[i])]

-----------------------------------------------------------------------------
(* The entry points.                                                       *)

\* isQueryValid: a query that is not empty.
IsQueryValid(q) == Len(q) > 0

\* What the interpolation step of either entry point yields.
Interpolated == IF Len(args) > 0 THEN InterpolateParams(query, args) ELSE Ok(query)

\* Mutant: the error dropped, the call returning (nil, nil).
FailWithNilError(err) ==
    /\ outcome' = "none"
    /\ UNCHANGED submitted

\* The call fails before anything is submitted.
FailWith(err) ==
    /\ outcome' = err
    /\ UNCHANGED submitted

Submit(text, params) ==
    /\ outcome' = "submitted"
    /\ submitted' = [text |-> text, params |-> params]

\* ExecContext: interpolate, validate, and run the interpolated text through
\* QueryContext without arguments (so with no ExecutionParameters).
ExecContext ==
    /\ entry = "exec" /\ pc = "start"
    /\ CASE Interpolated.status # "ok"     -> FailWith(Interpolated.status)
         [] ~IsQueryValid(Interpolated.text) -> FailWith("ErrInvalidQuery")
         [] OTHER -> Submit(Interpolated.text, <<>>)
    /\ pc' = "done"
    /\ UNCHANGED <<entry, query, args, numInput>>

\* QueryContext: interpolate only to validate, then submit the text with
\* its placeholders and the ExecutionParameters.
QueryContext ==
    /\ entry = "query" /\ pc = "start"
    /\ CASE Interpolated.status # "ok"     -> FailWith(Interpolated.status)
         [] ~IsQueryValid(Interpolated.text) -> FailWith("ErrInvalidQuery")
         [] OTHER -> Submit(query, BuildExecutionParams(args))
    /\ pc' = "done"
    /\ UNCHANGED <<entry, query, args, numInput>>

\* The placeholder count Prepare gives the statement (strings.Count).
NumInput(q) == CountChar(q, "?")

\* Prepare: refuse an invalid query, otherwise a statement that records
\* its number of placeholders; database/sql checks every later call's
\* argument count against it before the driver sees the arguments.
Prepare ==
    /\ entry = "prepare" /\ pc = "start"
    /\ IF IsQueryValid(query)
         THEN outcome' = "prepared" /\ numInput' = NumInput(query)
         ELSE outcome' = "ErrInvalidQuery" /\ UNCHANGED numInput
    /\ pc' = "done"
    /\ UNCHANGED <<entry, query, args, submitted>>

\* The call has returned.
Returned == pc = "done" /\ UNCHANGED vars

Init ==
    /\ entry \in {"exec", "query", "prepare"}
    /\ query \in Queries
    /\ args \in ArgLists
    /\ pc = "start"
    /\ submitted = NoSubmission
    /\ outcome = "none"
    /\ numInput = -1

Next == ExecContext \/ QueryContext \/ Prepare \/ Returned

Spec == Init /\ [][Next]_vars

-----------------------------------------------------------------------------
(* What the spec says the statement must be.                              *)

\* Athena's execution: each '?' of the text replaced, in order, by the
\* ExecutionParameter of the same position; a text without parameters is
\* run as it is.
Bind(text, params) ==
    IF params = <<>> \/ text = "" THEN text
    ELSE FlattenSeq([i \in 1..Len(text) |->
            IF CharAt(text, i) = "?"
              THEN params[CountChar(SubSeq(text, 1, i), "?")]
              ELSE CharAt(text, i)])

\* The literal of an argument by the type rules of the spec (section 4.1).
SpecLiteral(a) ==
    CASE a.type = "nil"    -> "NULL"
      [] a.type = "int64"  -> Decimal(a.v)
      [] a.type = "bool"   -> IF a.v THEN "1" ELSE "0"
      [] a.type = "time"   ->
            IF IsZero(a.v) THEN ZeroTimeLiteral
            ELSE LET v == AddHalfMicro(a.v)
                 IN "'" \o Pad(v.year, 4) \o "-" \o Pad(v.month, 2) \o "-"
                        \o Pad(v.day, 2) \o " " \o Pad(v.hour, 2) \o ":"
                        \o Pad(v.minute, 2) \o ":" \o Pad(v.second, 2)
                        \o (IF Micro(v) # 0 THEN "." \o Pad(Micro(v), 6) ELSE "")
                        \o "'"
      [] a.type = "bytes"  -> "_binary'" \o EscapeBackslash(a.v) \o "'"
      [] a.type = "string" -> "'" \o EscapeBackslash(a.v) \o "'"

SpecStatement(q, as) == Bind(q, [i \in 1..Len(as) |-> SpecLiteral(as[i])])

TextArgs(as) == \E i \in 1..Len(as) : as[i].type \in {"bytes", "string"}

-----------------------------------------------------------------------------
(* Properties.                                                            *)

TypeOK ==
    /\ entry \in {"exec", "query", "prepare"}
    /\ pc \in {"start", "done"}
    /\ numInput \in Int
    /\ outcome \in IF pc = "done" THEN Outcomes \ {"none"} ELSE {"none"}
    /\ submitted.text \in STRING
    /\ DOMAIN submitted.params = 1..Cardinality(DOMAIN submitted.params)
    /\ \A i \in DOMAIN submitted.params : submitted.params[i] \in STRING

\* Whichever entry point runs it, a call that reaches Athena runs the
\* statement the spec's type rules give: ExecContext's text interpolation
\* and QueryContext's native parameters (buildExecutionParams, a separate
\* type switch) agree, placeholders are filled in order and the text after
\* the last one is kept.  String and byte arguments are excluded on the
\* native path, where the code passes them on as SQL fragments on purpose.
StatementAsSpecified ==
    (pc = "done" /\ outcome = "submitted" /\ (entry = "exec" \/ ~TextArgs(args)))
        => Bind(submitted.text, submitted.params) = SpecStatement(query, args)

\* No argument database/sql accepts makes interpolateParams panic: a
\* time.Time of any year is turned into a literal or an error.
NoPanic == outcome # "panic"

\* The spec (4.1): output that would exceed the maximum multiple of
\* MAXQueryStringLength is refused with a buffer-overflow error; nothing
\* longer is ever submitted by ExecContext.
OutputBounded ==
    (outcome = "submitted" /\ entry = "exec")
        => Len(submitted.text) <= 10 * MaxQueryStringLength

=============================================================================
