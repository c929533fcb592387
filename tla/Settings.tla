------------------------------- MODULE Settings -------------------------------
(***************************************************************************)
(* The value objects of internal/monitor: what the API's raw fields become *)
(* on their way through the validator, the domain and the columns.         *)
(*                                                                         *)
(* A number of seconds is multiplied into a time.Duration, a signed 64-bit *)
(* count of nanoseconds that wraps round silently; here the range has      *)
(* Modulus values and a second has Second units.  Host names and paths are *)
(* pairs of what they denote and how they are spelled.                     *)
(***************************************************************************)
EXTENDS Integers

CONSTANTS
  Second,           \* time.Second
  Modulus,          \* number of values of a time.Duration
  DefaultInterval,  \* DefaultCheckInterval
  MinInterval,      \* MinCheckInterval
  Refused           \* the value of a constructor that returns an error

ASSUME NumberAssumption ==
  /\ Second \in Nat \ {0} /\ Modulus \in Nat \ {0} /\ Modulus % 2 = 0
  /\ MinInterval \in Nat \ {0} /\ DefaultInterval \in Nat
  /\ MinInterval <= DefaultInterval

Half == Modulus \div 2

\* The duration that an exact count of units becomes.
Wrapped(n) == ((n + Half) % Modulus) - Half

\* time.Duration(i) * time.Second
Duration(i) == Wrapped(i * Second)

\* A number of seconds whose duration exists.
Fits(i) == i * Second < Half

\* Seconds(): the division truncates towards zero.
Seconds(d) == IF d < 0 THEN -((-d) \div Second) ELSE d \div Second

\* NewInterval; NewTimeout is the same with its own numbers, and NewMaxAttempts
\* without the conversion.
NewInterval(i) ==
  IF i = 0 THEN Duration(DefaultInterval)
  ELSE IF i < MinInterval THEN Refused ELSE Duration(i)

\* The validator's tags: omitempty lets a missing or zero number of a POST pass,
\* a number that a PATCH gives is never empty.
ValidInPost(i) == i = 0 \/ i >= MinInterval
ValidInPatch(i) == i >= MinInterval

\* NewHost: lower case, no surrounding blanks, no trailing dot; an address with
\* colons needs brackets, and those the validator does not let through.
NewHost(raw) ==
  IF raw.spelling = "colons" THEN Refused ELSE [raw EXCEPT !.spelling = "plain"]

\* NewPath: one leading slash, no trailing one; no scheme, no blanks.
NewPath(raw) ==
  IF raw.spelling = "scheme" THEN Refused ELSE [raw EXCEPT !.spelling = "plain"]
=============================================================================
