------------------------------- MODULE Options ------------------------------
(***************************************************************************)
(* The adapter's options: the defaults, the With* helpers applied to       *)
(* them, and the clamps.  Durations are in milliseconds.                   *)
(***************************************************************************)
EXTENDS Integers, Sequences, FiniteSetsExt

defaultPollErrorLogInterval == 1000
defaultPollErrorBailAfter == 600000
minPollErrorBailAfter == 60000
maxPollErrorBailAfter == 3600000
defaultPollErrorBackoff == 25
maxPollErrorBackoff == 5000

defaultAdapterOptions ==
    [pollErrorLogInterval |-> defaultPollErrorLogInterval,
     pollErrorBailAfter |-> defaultPollErrorBailAfter,
     pollErrorBackoff |-> defaultPollErrorBackoff,
     assignmentOffsetLookup |-> TRUE,
     clientLogLevel |-> "info"]

\* A nil entry of the variadic options.  Any other is what a With* helper
\* returns: the one field it overwrites, such as [pollErrorBackoff |-> 10].
NilOption == [nil |-> TRUE]

AdapterOptions ==
    {NilOption} \cup [pollErrorLogInterval : Int] \cup [pollErrorBailAfter : Int]
    \cup [pollErrorBackoff : Int] \cup [assignmentOffsetLookup : BOOLEAN]
    \cup [clientLogLevel : STRING]

\* opt(&o), where opt is not nil.
Apply(o, opt) ==
    [f \in DOMAIN o |-> IF f \in DOMAIN opt THEN opt[f] ELSE o[f]]

\* Faulty variant: what is out of range falls back to the default.
ClampToDefault(d) ==
    IF d <= 0 THEN 0
    ELSE IF d \in minPollErrorBailAfter .. maxPollErrorBailAfter THEN d
    ELSE defaultPollErrorBailAfter

\* clampBailAfter and clampBackoff: zero or negative disables.
clampBailAfter(d) ==
    IF d <= 0 THEN 0
    ELSE IF d < minPollErrorBailAfter THEN minPollErrorBailAfter
    ELSE IF d > maxPollErrorBailAfter THEN maxPollErrorBailAfter ELSE d

clampBackoff(d) ==
    IF d <= 0 THEN 0 ELSE IF d > maxPollErrorBackoff THEN maxPollErrorBackoff ELSE d

validate(o) ==
    [o EXCEPT !.pollErrorLogInterval = IF @ <= 0 THEN defaultPollErrorLogInterval ELSE @,
              !.pollErrorBailAfter = clampBailAfter(@),
              !.pollErrorBackoff = clampBackoff(@)]

\* The options in force after each prefix of the list: the defaults, then one
\* opt at a time.
Prefixes(options) ==
    LET after[i \in 0 .. Len(options)] ==
            IF i = 0 THEN defaultAdapterOptions ELSE Apply(after[i - 1], options[i])
    IN  after

processAdapterOptions(options) == validate(Prefixes(options)[Len(options)])

-----------------------------------------------------------------------------

\* What a list of options asks of a field: its last mention, or the default.
Asked(options, f) ==
    LET mentions == {i \in 1 .. Len(options) : f \in DOMAIN options[i]}
    IN  IF mentions = {} THEN defaultAdapterOptions[f] ELSE options[Max(mentions)][f]

\* x is the value of lo .. hi nearest to d.
Nearest(x, d, lo, hi) ==
    /\ lo <= x /\ x <= hi
    /\ d <= lo => x = lo
    /\ d >= hi => x = hi
    /\ lo <= d /\ d <= hi => x = d

\* The option comments, field by field: "0 or negative disables" the bail and the
\* pause; any other duration is taken as it is, or brought to the nearest bound;
\* a log interval that is not positive means the default.
Honours(o, options) ==
    /\ \A f \in {"assignmentOffsetLookup", "clientLogLevel"} : o[f] = Asked(options, f)
    /\ LET d == Asked(options, "pollErrorBailAfter") IN
          /\ d <= 0 => o.pollErrorBailAfter = 0
          /\ d > 0 => Nearest(o.pollErrorBailAfter, d, minPollErrorBailAfter, maxPollErrorBailAfter)
    /\ Nearest(o.pollErrorBackoff, Asked(options, "pollErrorBackoff"), 0, maxPollErrorBackoff)
    /\ LET d == Asked(options, "pollErrorLogInterval") IN
          /\ d > 0 => o.pollErrorLogInterval = d
          /\ d <= 0 => o.pollErrorLogInterval = defaultPollErrorLogInterval
=============================================================================
