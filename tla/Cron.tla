-------------------------------- MODULE Cron --------------------------------
(***************************************************************************)
(* The cron expressions of internal/server/api/scheduler.go.  A time is a  *)
(* number of minutes; what minute, hour, day, month and weekday it is, is  *)
(* the Calendar's business.  An expression gives, per field, either Every  *)
(* ("*") or a list of values and ranges with a step.                       *)
(***************************************************************************)
EXTENDS Integers, SequencesExt

CONSTANTS
    Calendar,   \* [Times -> [CronFields -> Nat]]: a time's fields
    FieldRange, \* [CronFields -> Nat \X Nat]: the bounds parseCron passes on
    MaxIter,    \* how many minutes nextCronTime looks ahead
    Expressions \* the expressions in use

CronFields == {"minute", "hour", "dayOfMonth", "month", "dayOfWeek"}
Every == [parts |-> << >>, step |-> 1]
Never == -1

\* The values of a list of parts, in the order they are written; a single
\* value v is the range <<v, v>>, and "*/n" the full range with step n.
Listed(parts) ==
    FlattenSeq([i \in DOMAIN parts |->
                  [k \in 1..(parts[i][2] - parts[i][1] + 1) |-> parts[i][1] + k - 1]])

\* parseCronField returns no error.
Wellformed(field, range) ==
    /\ field.step > 0
    /\ \A i \in DOMAIN field.parts :
          /\ range[1] <= field.parts[i][1]
          /\ field.parts[i][1] <= field.parts[i][2]
          /\ field.parts[i][2] <= range[2]

ASSUME CronAssumption ==
    /\ MaxIter \in Nat \ {0}
    /\ FieldRange \in [CronFields -> Nat \X Nat]
    /\ \A expr \in Expressions, f \in CronFields : Wellformed(expr[f], FieldRange[f])
    /\ \A t \in DOMAIN Calendar : t \in Nat /\ Calendar[t] \in [CronFields -> Nat]

\* The step counts along the whole list, across its parts.
ParseCronField(field, range) ==
    IF field = Every
    THEN range[1]..range[2]
    ELSE LET values == Listed(field.parts)
         IN  {values[i] : i \in {k \in DOMAIN values : (k - 1) % field.step = 0}}

ParseCron(expr) == [f \in CronFields |-> ParseCronField(expr[f], FieldRange[f])]

\* The minutes that match: all five fields have to, the day of the month and
\* the weekday too.
Occurrences ==
    [expr \in Expressions |->
        LET schedule == ParseCron(expr)
        IN  {t \in DOMAIN Calendar : \A f \in CronFields : Calendar[t][f] \in schedule[f]}]

\* nextCronTime and computeNextRun: the first matching minute after the given
\* one, or Never, an error, when there is none within MaxIter minutes.
ComputeNextRun(expr, after) ==
    LET hits == {t \in Occurrences[expr] : after < t /\ t <= after + MaxIter}
    IN  IF hits = {} THEN Never ELSE CHOOSE t \in hits : \A u \in hits : t <= u
=============================================================================
