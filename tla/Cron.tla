--------------------------------- MODULE Cron ----------------------------------
(***************************************************************************)
(* The cron expressions of scheduled tasks (scheduledtask/cron.go).        *)
(*                                                                         *)
(* An expression is five fields: minute, hour, day, month, weekday.  A     *)
(* field is a sequence of tokens "base" or "base/step", of which the base  *)
(* is a star, a number or a range; what is no number is written -1, and a  *)
(* token without a step has the step 1.                                    *)
(***************************************************************************)
EXTENDS Integers, Sequences

Bounds == <<[min |-> 0, max |-> 59], [min |-> 0, max |-> 23], [min |-> 1, max |-> 31],
            [min |-> 1, max |-> 12], [min |-> 0, max |-> 6]>>

(* Steps are taken to be small enough for the sum of a value and a step to *)
(* be an int: one of 2^63 - 59 or more would overflow in the loop below.   *)
CronToken == [base : {"star", "number", "range"}, first : Int, last : Int, step : Int]

Star == [base |-> "star", first |-> 0, last |-> 0, step |-> 1]
Every(step) == [Star EXCEPT !.step = step]
Number(n) == [base |-> "number", first |-> n, last |-> n, step |-> 1]
Span(m, n) == [base |-> "range", first |-> m, last |-> n, step |-> 1]

(* The first and the last value of a token.  A number with a step is that  *)
(* number, and no series that starts with it.                              *)
First(token, bounds) == IF token.base = "star" THEN bounds.min ELSE token.first
Final(token, bounds) == IF token.base = "star" THEN bounds.max ELSE token.last

ValidToken(token, bounds) ==
  /\ token.step > 0
  /\ bounds.min <= First(token, bounds)
  /\ First(token, bounds) <= Final(token, bounds)
  /\ Final(token, bounds) <= bounds.max

(* The loop that steps through a token's values.                           *)
Expanded(token, bounds) ==
  LET last == Final(token, bounds)
      from[value \in First(token, bounds) .. last + token.step] ==
        IF value > last THEN {} ELSE {value} \cup from[value + token.step]
  IN  from[First(token, bounds)]

ValidField(field, bounds) ==
  field # <<>> /\ \A i \in DOMAIN field : ValidToken(field[i], bounds)

ExpandCronField(field, bounds) == UNION {Expanded(field[i], bounds) : i \in DOMAIN field}

ValidCron(expr) ==
  /\ Len(expr) = 5
  /\ \A f \in 1 .. 5 : ValidField(expr[f], Bounds[f])

(* All five fields must match, the day and the weekday as well.            *)
CronMatches(expr, at) ==
  ValidCron(expr) /\ \A f \in 1 .. 5 : at[f] \in ExpandCronField(expr[f], Bounds[f])

(* What an expression means: a value of a field lies a whole number of     *)
(* steps behind the first value of one of its tokens, and not behind the   *)
(* last.                                                                   *)
Means(expr, at) ==
  \A f \in 1 .. 5 : \E i \in DOMAIN expr[f] :
    LET token == expr[f][i] IN
    /\ First(token, Bounds[f]) <= at[f] /\ at[f] <= Final(token, Bounds[f])
    /\ (at[f] - First(token, Bounds[f])) % token.step = 0
===============================================================================
