---------------------------- MODULE OptionsProofs ----------------------------
(***************************************************************************)
(* processAdapterOptions honours any list of options, of any length and    *)
(* with any values: the loop over the list is followed by induction, as an *)
(* argument about the least prefix for which the claim would fail.         *)
(***************************************************************************)
EXTENDS Options, WellFoundedInduction, TLAPS

Fields == DOMAIN defaultAdapterOptions
Durations == {"pollErrorLogInterval", "pollErrorBailAfter", "pollErrorBackoff"}

\* Every non-empty set of natural numbers has a least element.
LEMMA LeastElement ==
    ASSUME NEW T \in SUBSET Nat, T # {}
    PROVE  \E m \in T : \A k \in T : m <= k
<1> DEFINE R == {ss \in Nat \X Nat : ss[1] < ss[2]}
<1>1. IsWellFoundedOn(R, Nat)
  BY NatLessThanWellFounded DEF OpToRel
<1> HIDE DEF R
<1>2. PICK x \in T : \A y \in T : ~(<<y, x>> \in R)
  BY <1>1, WFMin
<1>3. ASSUME NEW k \in T, ~(x <= k) PROVE FALSE
  <2>1. k \in Nat /\ x \in Nat /\ k < x
    BY <1>3
  <2>2. <<k, x>> \in R
    BY <2>1 DEF R
  <2> QED
    BY <1>2, <2>2
<1> QED
  BY <1>3

-----------------------------------------------------------------------------
(* The loop of processAdapterOptions *)

\* g is what the loop computes for the first n options.
PrefixRun(options, n, g) ==
    g = [i \in 0 .. n |->
            IF i = 0 THEN defaultAdapterOptions ELSE Apply(g[i - 1], options[i])]

\* v is what the last of the first n options to mention f says of it, or f's
\* default.
LastMention(options, n, f, v) ==
    \/ (\A j \in 1 .. n : f \notin DOMAIN options[j]) /\ v = defaultAdapterOptions[f]
    \/ \E j \in 1 .. n : /\ f \in DOMAIN options[j] /\ v = options[j][f]
                         /\ \A k \in 1 .. n : f \in DOMAIN options[k] => k <= j

\* The loop computes something for every prefix: a least one without a result
\* would follow one that has a result.
LEMMA RunExists ==
    ASSUME NEW options, NEW n \in Nat
    PROVE  \E g : PrefixRun(options, n, g)
<1> DEFINE Bad == {k \in Nat : ~ \E g : PrefixRun(options, k, g)}
<1> SUFFICES ASSUME Bad # {} PROVE FALSE
  OBVIOUS
<1>1. PICK m \in Bad : \A k \in Bad : m <= k
  <2>1. Bad \in SUBSET Nat
    OBVIOUS
  <2> HIDE DEF Bad
  <2> QED
    BY <2>1, LeastElement
<1>2. m # 0
  <2> DEFINE g == [i \in 0 .. 0 |-> defaultAdapterOptions]
  <2>1. PrefixRun(options, 0, g)
    BY DEF PrefixRun
  <2> QED
    BY <2>1
<1>3. m - 1 \in Nat /\ m - 1 \notin Bad
  BY <1>1, <1>2
<1>4. PICK g : PrefixRun(options, m - 1, g)
  BY <1>3
<1> DEFINE h == [i \in 0 .. m |-> IF i < m THEN g[i] ELSE Apply(g[m - 1], options[m])]
<1>5. PrefixRun(options, m, h)
  <2>1. \A i \in 0 .. m - 1 :
           g[i] = IF i = 0 THEN defaultAdapterOptions ELSE Apply(g[i - 1], options[i])
    BY <1>4 DEF PrefixRun
  <2>2. m \in Nat
    OBVIOUS
  <2>3. \A i \in 0 .. m :
           h[i] = IF i = 0 THEN defaultAdapterOptions ELSE Apply(h[i - 1], options[i])
    BY <1>2, <2>1, <2>2
  <2> HIDE DEF h
  <2>4. h = [i \in 0 .. m |-> h[i]]
    BY DEF h
  <2> QED
    BY <2>3, <2>4 DEF PrefixRun
<1> QED
  BY <1>1, <1>5

\* So the recursive definition defines what it says.
LEMMA PrefixesRun ==
    ASSUME NEW options, Len(options) \in Nat
    PROVE  PrefixRun(options, Len(options), Prefixes(options))
<1>1. Prefixes(options) = CHOOSE g : PrefixRun(options, Len(options), g)
  BY DEF Prefixes, PrefixRun
<1> QED
  BY <1>1, RunExists

\* After each prefix, each field has what its last mention there says: a least
\* prefix of which that is false would extend one of which it is true.
LEMMA PrefixValues ==
    ASSUME NEW options, NEW n \in Nat, NEW g, PrefixRun(options, n, g)
    PROVE  \A i \in 0 .. n : /\ DOMAIN g[i] = Fields
                             /\ \A f \in Fields : LastMention(options, i, f, g[i][f])
<1> DEFINE Good(i) == /\ DOMAIN g[i] = Fields
                      /\ \A f \in Fields : LastMention(options, i, f, g[i][f])
           Bad == {i \in 0 .. n : ~Good(i)}
<1>1. \A i \in 0 .. n :
         g[i] = IF i = 0 THEN defaultAdapterOptions ELSE Apply(g[i - 1], options[i])
  BY DEF PrefixRun
<1> SUFFICES ASSUME Bad # {} PROVE FALSE
  OBVIOUS
<1>2. PICK m \in Bad : \A k \in Bad : m <= k
  <2>1. Bad \in SUBSET Nat
    OBVIOUS
  <2> HIDE DEF Bad
  <2> QED
    BY <2>1, LeastElement
<1>3. m # 0
  <2>1. g[0] = defaultAdapterOptions
    BY <1>1
  <2>2. Good(0)
    BY <2>1 DEF Fields, LastMention
  <2> QED
    BY <2>2
<1>4. m \in 1 .. n /\ m - 1 \in 0 .. n /\ m - 1 \notin Bad
  BY <1>2, <1>3
<1> HIDE DEF Bad
<1>5. Good(m - 1)
  BY <1>4 DEF Bad
<1>6. g[m] = Apply(g[m - 1], options[m])
  BY <1>1, <1>4
<1>7. DOMAIN g[m] = Fields
  BY <1>5, <1>6 DEF Apply
<1>8. ASSUME NEW f \in Fields PROVE LastMention(options, m, f, g[m][f])
  <2>1. CASE f \in DOMAIN options[m]
    <3>1. g[m][f] = options[m][f]
      BY <1>5, <1>6, <2>1 DEF Apply
    <3> QED
      BY <1>4, <2>1, <3>1 DEF LastMention
  <2>2. CASE f \notin DOMAIN options[m]
    <3>1. g[m][f] = g[m - 1][f]
      BY <1>5, <1>6, <2>2 DEF Apply
    <3>2. LastMention(options, m - 1, f, g[m][f])
      BY <1>5, <3>1
    <3> QED
      BY <1>4, <2>2, <3>2 DEF LastMention
  <2> QED
    BY <2>1, <2>2
<1> QED
  BY <1>4, <1>7, <1>8 DEF Bad

\* The last mention in the whole list is what the list asks for.
LEMMA AskedIsLast ==
    ASSUME NEW options, Len(options) \in Nat, NEW f, NEW v,
           LastMention(options, Len(options), f, v)
    PROVE  v = Asked(options, f)
<1> DEFINE mentions == {i \in 1 .. Len(options) : f \in DOMAIN options[i]}
<1>1. Asked(options, f) = IF mentions = {} THEN defaultAdapterOptions[f]
                          ELSE options[Max(mentions)][f]
  BY DEF Asked
<1>2. CASE mentions = {}
  BY <1>1, <1>2 DEF LastMention
<1>3. CASE mentions # {}
  <2>1. PICK j \in mentions : v = options[j][f] /\ \A k \in mentions : k <= j
    BY <1>3 DEF LastMention
  <2>2. \A k \in mentions : k \in Int
    OBVIOUS
  <2> HIDE DEF mentions
  <2>3. Max(mentions) = j
    BY <2>1, <2>2 DEF Max
  <2> QED
    BY <1>1, <1>3, <2>1, <2>3
<1> QED
  BY <1>2, <1>3

\* A duration asked for is an integer.
LEMMA DurationMentioned ==
    ASSUME NEW options \in Seq(AdapterOptions), NEW f \in Durations, NEW v,
           LastMention(options, Len(options), f, v)
    PROVE  v \in Int
<1>1. ASSUME NEW o \in AdapterOptions, f \in DOMAIN o PROVE o[f] \in Int
  BY <1>1 DEF AdapterOptions, Durations, NilOption
<1>2. defaultAdapterOptions[f] \in Int
  BY DEF defaultAdapterOptions, Durations, defaultPollErrorLogInterval,
     defaultPollErrorBailAfter, defaultPollErrorBackoff
<1> QED
  BY <1>1, <1>2 DEF LastMention

-----------------------------------------------------------------------------
(* validate *)

\* validate changes the durations only, each by its own rule.
LEMMA ValidatedFields ==
    ASSUME NEW o, DOMAIN o = Fields
    PROVE  /\ validate(o)["pollErrorBailAfter"] = clampBailAfter(o["pollErrorBailAfter"])
           /\ validate(o)["pollErrorBackoff"] = clampBackoff(o["pollErrorBackoff"])
           /\ validate(o)["pollErrorLogInterval"] =
                 IF o["pollErrorLogInterval"] <= 0 THEN defaultPollErrorLogInterval
                 ELSE o["pollErrorLogInterval"]
           /\ \A f \in {"assignmentOffsetLookup", "clientLogLevel"} : validate(o)[f] = o[f]
<1>1. DOMAIN o = {"pollErrorLogInterval", "pollErrorBailAfter", "pollErrorBackoff",
                  "assignmentOffsetLookup", "clientLogLevel"}
  BY DEF Fields, defaultAdapterOptions
<1> QED
  BY <1>1 DEF validate

\* The bounds are in order.
LEMMA Bounds ==
    /\ minPollErrorBailAfter \in Nat \ {0} /\ maxPollErrorBailAfter \in Nat
    /\ minPollErrorBailAfter <= maxPollErrorBailAfter /\ maxPollErrorBackoff \in Nat \ {0}
  BY SMT DEF minPollErrorBailAfter, maxPollErrorBailAfter, maxPollErrorBackoff

\* The clamps: zero disables and is the only way to, and any other duration is
\* brought to the nearest value in range.
LEMMA ClampsInRange ==
    ASSUME NEW d \in Int
    PROVE  /\ d <= 0 => clampBailAfter(d) = 0
           /\ d > 0 => Nearest(clampBailAfter(d), d, minPollErrorBailAfter, maxPollErrorBailAfter)
           /\ Nearest(clampBackoff(d), d, 0, maxPollErrorBackoff)
           /\ clampBailAfter(d) \in Int /\ clampBackoff(d) \in Int
  BY Bounds DEF clampBailAfter, clampBackoff, Nearest

\* What processAdapterOptions returns, field by field, for any list of options.
LEMMA Processed ==
    ASSUME NEW options \in Seq(AdapterOptions)
    PROVE  LET o == processAdapterOptions(options) IN
           /\ \A f \in Durations : Asked(options, f) \in Int
           /\ o["pollErrorBailAfter"] = clampBailAfter(Asked(options, "pollErrorBailAfter"))
           /\ o["pollErrorBackoff"] = clampBackoff(Asked(options, "pollErrorBackoff"))
           /\ o["pollErrorLogInterval"] =
                 IF Asked(options, "pollErrorLogInterval") <= 0 THEN defaultPollErrorLogInterval
                 ELSE Asked(options, "pollErrorLogInterval")
           /\ \A f \in {"assignmentOffsetLookup", "clientLogLevel"} : o[f] = Asked(options, f)
<1> DEFINE last == Prefixes(options)[Len(options)]
<1>1. Len(options) \in Nat
  OBVIOUS
<1>2. DOMAIN last = Fields /\ \A f \in Fields : LastMention(options, Len(options), f, last[f])
  BY <1>1, PrefixesRun, PrefixValues
<1>3. Fields = Durations \cup {"assignmentOffsetLookup", "clientLogLevel"}
  BY DEF Fields, Durations, defaultAdapterOptions
<1>4. processAdapterOptions(options) = validate(last)
  BY DEF processAdapterOptions
<1> HIDE DEF last
<1>5. \A f \in Fields : last[f] = Asked(options, f)
  BY <1>1, <1>2, AskedIsLast
<1>6. \A f \in Durations : Asked(options, f) \in Int
  BY <1>2, <1>3, <1>5, DurationMentioned
<1>7. {"assignmentOffsetLookup", "clientLogLevel"} \subseteq Fields /\ Durations \subseteq Fields
  BY <1>3
<1> QED
  BY <1>2, <1>4, <1>5, <1>6, <1>7, ValidatedFields DEF Durations

\* The With* helpers keep their word for every list of options: the last mention
\* of a field counts, nil entries do nothing, zero or negative disables the bail
\* and the pause, and what is out of range is brought to the nearest bound.
THEOREM OptionsKeepTheirWord ==
    ASSUME NEW options \in Seq(AdapterOptions)
    PROVE  Honours(processAdapterOptions(options), options)
<1> DEFINE o == processAdapterOptions(options)
           bail == Asked(options, "pollErrorBailAfter")
           back == Asked(options, "pollErrorBackoff")
           log == Asked(options, "pollErrorLogInterval")
<1>1. /\ bail \in Int /\ back \in Int /\ log \in Int
      /\ o.pollErrorBailAfter = clampBailAfter(bail)
      /\ o.pollErrorBackoff = clampBackoff(back)
      /\ o.pollErrorLogInterval = IF log <= 0 THEN defaultPollErrorLogInterval ELSE log
      /\ \A f \in {"assignmentOffsetLookup", "clientLogLevel"} : o[f] = Asked(options, f)
  BY Processed DEF Durations
<1> HIDE DEF o, bail, back, log
<1>2. /\ bail <= 0 => o.pollErrorBailAfter = 0
      /\ bail > 0 => Nearest(o.pollErrorBailAfter, bail, minPollErrorBailAfter,
                             maxPollErrorBailAfter)
  BY <1>1, ClampsInRange
<1>3. Nearest(o.pollErrorBackoff, back, 0, maxPollErrorBackoff)
  BY <1>1, ClampsInRange
<1>4. /\ log > 0 => o.pollErrorLogInterval = log
      /\ log <= 0 => o.pollErrorLogInterval = defaultPollErrorLogInterval
  BY <1>1
<1> QED
  BY <1>1, <1>2, <1>3, <1>4 DEF Honours, o, bail, back, log

\* Without WithOptions the defaults are in force, and they are within their bounds.
LEMMA DefaultsInRange == Honours(defaultAdapterOptions, <<>>)
<1>1. \A f \in Fields : Asked(<<>>, f) = defaultAdapterOptions[f]
  BY DEF Asked
<1>2. Fields = Durations \cup {"assignmentOffsetLookup", "clientLogLevel"}
  BY DEF Fields, Durations, defaultAdapterOptions
<1>3. /\ defaultPollErrorBailAfter \in Int /\ defaultPollErrorBailAfter > 0
      /\ minPollErrorBailAfter <= defaultPollErrorBailAfter
      /\ defaultPollErrorBailAfter <= maxPollErrorBailAfter
      /\ defaultPollErrorBackoff \in Int /\ defaultPollErrorBackoff > 0
      /\ defaultPollErrorBackoff <= maxPollErrorBackoff
      /\ defaultPollErrorLogInterval \in Int /\ defaultPollErrorLogInterval > 0
  BY SMT DEF defaultPollErrorLogInterval, defaultPollErrorBailAfter, defaultPollErrorBackoff,
      minPollErrorBailAfter, maxPollErrorBailAfter, maxPollErrorBackoff
<1>4. /\ defaultAdapterOptions.pollErrorBailAfter = defaultPollErrorBailAfter
      /\ defaultAdapterOptions.pollErrorBackoff = defaultPollErrorBackoff
      /\ defaultAdapterOptions.pollErrorLogInterval = defaultPollErrorLogInterval
  BY DEF defaultAdapterOptions
<1>5. /\ Nearest(defaultPollErrorBailAfter, defaultPollErrorBailAfter, minPollErrorBailAfter,
                 maxPollErrorBailAfter)
      /\ Nearest(defaultPollErrorBackoff, defaultPollErrorBackoff, 0, maxPollErrorBackoff)
  BY <1>3, Bounds DEF Nearest
<1> QED
  BY <1>1, <1>2, <1>3, <1>4, <1>5 DEF Honours, Durations

\* And they are what handlePollErrors relies on: PollErrors' assumptions on its
\* intervals hold of every list of options, as does the bound on the pause.
THEOREM OptionsFitPollErrors ==
    ASSUME NEW options \in Seq(AdapterOptions)
    PROVE  LET o == processAdapterOptions(options) IN
           /\ o.pollErrorBailAfter \in {0} \cup minPollErrorBailAfter .. maxPollErrorBailAfter
           /\ o.pollErrorBackoff \in 0 .. maxPollErrorBackoff
           /\ o.pollErrorLogInterval \in Nat \ {0}
<1> DEFINE o == processAdapterOptions(options)
<1>1. \A f \in Durations : Asked(options, f) \in Int
  BY Processed
<1>2. /\ o.pollErrorBailAfter = clampBailAfter(Asked(options, "pollErrorBailAfter"))
      /\ o.pollErrorBackoff = clampBackoff(Asked(options, "pollErrorBackoff"))
      /\ o.pollErrorLogInterval = IF Asked(options, "pollErrorLogInterval") <= 0
                                  THEN defaultPollErrorLogInterval
                                  ELSE Asked(options, "pollErrorLogInterval")
  BY Processed
<1> HIDE DEF o
<1>3. o.pollErrorBailAfter \in {0} \cup minPollErrorBailAfter .. maxPollErrorBailAfter
  BY <1>1, <1>2, ClampsInRange, Bounds DEF Durations, Nearest
<1>4. o.pollErrorBackoff \in 0 .. maxPollErrorBackoff
  BY <1>1, <1>2, ClampsInRange, Bounds DEF Durations, Nearest
<1>5. o.pollErrorLogInterval \in Nat \ {0}
  BY <1>1, <1>2 DEF Durations, defaultPollErrorLogInterval
<1> QED
  BY <1>3, <1>4, <1>5 DEF o
=============================================================================
