----------------------------- MODULE PollErrors ------------------------------
(***************************************************************************)
(* handlePollErrors: the per-partition error streaks of the fetch loop,    *)
(* the throttled log of them, and the bail that stops the consumer once a  *)
(* partition has failed for pollErrorBailAfter.                            *)
(*                                                                         *)
(* One step is one poll of fetchNext.  The environment (external) breaks   *)
(* and heals partitions; a broken one yields errors when the client        *)
(* happens to fetch it, and any partition may yield a record, a broken one *)
(* too: the client may have fetched it before.  Time is a bounded clock.   *)
(***************************************************************************)
EXTENDS Integers

CONSTANTS
    Partitions,
    Errors,       \* error identities, as errIdentity tells them apart
    Timeout,      \* context.DeadlineExceeded, which is ignored
    BailAfter,    \* opts.pollErrorBailAfter; 0 disables the bail
    LogEvery,     \* opts.pollErrorLogInterval
    Backoff,      \* opts.pollErrorBackoff; 0 disables the pause
    MaxTime       \* clock bound

ASSUME PollErrorsAssumption ==
    /\ BailAfter \in Nat /\ LogEvery \in Nat \ {0} /\ Backoff \in Nat /\ MaxTime \in Nat
    /\ Timeout \notin Errors

VARIABLES
    now,            \* time.Now()
    pollErrSince,   \* start of each partition's streak
    pollErrLogged,  \* last time its error was logged
    pollErrLastID,  \* identity of the error last logged
    bailed,         \* bailOnce has fired
    resume,         \* when the loop's backoff ends
    brokenSince,    \* external: when each broken partition broke
    history         \* per partition, the errors since its last record:
                    \* first and last time seen, and the last identity

codeVars == <<pollErrSince, pollErrLogged, pollErrLastID, bailed, resume>>
vars == <<now, codeVars, brokenSince, history>>

Times == 0 .. MaxTime

\* Functions on some of the partitions: Go maps keyed by topic-partition.
MapsTo(S) == UNION {[D -> S] : D \in SUBSET Partitions}

Without(f, S) == [p \in DOMAIN f \ S |-> f[p]]
Updated(f, g) == [p \in DOMAIN f \cup DOMAIN g |-> IF p \in DOMAIN g THEN g[p] ELSE f[p]]

\* What a fetch may hold against one partition: a poll timeout, or a set of
\* real errors with the one EachError reports last.
Faults ==
    [ids : {{}}, last : {Timeout}] \cup UNION {[ids : {S}, last : S] : S \in SUBSET Errors}

PollErrorsTypeOK ==
    /\ now \in Times
    /\ pollErrSince \in MapsTo(Times)
    /\ pollErrLogged \in MapsTo(Times)
    /\ pollErrLastID \in MapsTo(Errors)
    /\ bailed \in BOOLEAN
    /\ resume \in 0 .. MaxTime + Backoff
    /\ brokenSince \in MapsTo(Times)
    /\ history \in MapsTo([first : Times, last : Times, id : Errors])

Init ==
    /\ now = 0
    /\ pollErrSince = << >> /\ pollErrLogged = << >> /\ pollErrLastID = << >>
    /\ bailed = FALSE
    /\ resume = 0
    /\ brokenSince = << >>
    /\ history = << >>

-----------------------------------------------------------------------------

\* Faulty variant: absence from this poll's errors counts as recovery.
ClearedWhenAbsent(recs, errs) == recs \cup (Partitions \ DOMAIN errs)

\* Streaks ended by this poll: those of partitions that delivered a record.
\* Absence from the errors ends none.
Cleared(recs, errs) == recs

\* Faulty variant: a poll timeout counts as a failure.
FailingWithTimeouts(recs, errs) == DOMAIN errs \ recs

\* Faulty variant: an error counts although its partition delivered a record.
FailingDespiteRecord(recs, errs) == {p \in DOMAIN errs : errs[p].ids # {}}

\* Partitions with a real error: no timeout, and no record this poll.
Failing(recs, errs) == {p \in DOMAIN errs : errs[p].ids # {}} \ recs

\* The streaks after this poll: cleared, kept, or started now.
Since(recs, errs) ==
    LET kept == Without(pollErrSince, Cleared(recs, errs))
    IN  Updated(kept, [p \in Failing(recs, errs) \ DOMAIN kept |-> now])

\* Faulty variant: a changed error waits for the window like a repeated one.
LoggedByWindowOnly(recs, errs) ==
    LET logged == Without(pollErrLogged, Cleared(recs, errs))
    IN  {p \in Failing(recs, errs) : p \notin DOMAIN logged \/ now - logged[p] >= LogEvery}

\* Partitions logged this poll: first error, changed error, or window elapsed.
\* Of several errors one differs from the error last logged, or from the one
\* before it.
LoggedNow(recs, errs) ==
    LET logged == Without(pollErrLogged, Cleared(recs, errs))
        lastID == Without(pollErrLastID, Cleared(recs, errs))
    IN  {p \in Failing(recs, errs) :
            \/ p \notin DOMAIN logged
            \/ p \notin DOMAIN lastID \/ errs[p].ids # {lastID[p]}
            \/ now - logged[p] >= LogEvery}

\* Faulty variant: any open streak counts, failing in this poll or not.
BailDueOnAnyStreak(recs, errs) ==
    /\ BailAfter > 0
    /\ \E p \in DOMAIN Since(recs, errs) : now - Since(recs, errs)[p] >= BailAfter

\* Some failing partition's streak is long enough.
BailDue(recs, errs) ==
    /\ BailAfter > 0
    /\ \E p \in Failing(recs, errs) : now - Since(recs, errs)[p] >= BailAfter

\* fetchNext's handling of one fetch: records from recs, errors errs.
HandlePollErrors(recs, errs) ==
    LET logNow == LoggedNow(recs, errs)
        gone == Cleared(recs, errs)
    IN  /\ pollErrSince' = Since(recs, errs)
        /\ pollErrLogged' = Updated(Without(pollErrLogged, gone), [p \in logNow |-> now])
        /\ pollErrLastID' = Updated(Without(pollErrLastID, gone), [p \in logNow |-> errs[p].last])
        /\ bailed' = (bailed \/ BailDue(recs, errs))
        /\ resume' = IF recs = {} /\ Failing(recs, errs) # {} THEN now + Backoff ELSE resume

\* What a fetch may hold: at most one record (PollRecords(ctx, 1)), of any
\* partition, and errors of broken ones; a poll may time out anywhere.
Fetch(recs, errs) ==
    /\ \A p, q \in recs : p = q
    /\ \A p \in DOMAIN errs : errs[p].ids # {} => p \in DOMAIN brokenSince

\* The real errors each partition has shown since its last record, kept to
\* state the properties.
Observe(recs, errs) ==
    LET kept == Without(history, recs)
        seen == [p \in {q \in DOMAIN errs \ recs : errs[q].ids # {}} |->
                    [first |-> IF p \in DOMAIN kept THEN kept[p].first ELSE now,
                     last |-> now, id |-> errs[p].last]]
    IN  history' = Updated(kept, seen)

Poll(recs, errs) ==
    /\ now >= resume
    /\ Fetch(recs, errs)
    /\ HandlePollErrors(recs, errs)
    /\ Observe(recs, errs)
    /\ UNCHANGED <<now, brokenSince>>

Break(p) ==
    /\ p \notin DOMAIN brokenSince
    /\ brokenSince' = Updated(brokenSince, [q \in {p} |-> now])
    /\ UNCHANGED <<now, codeVars, history>>

Heal(p) ==
    /\ p \in DOMAIN brokenSince
    /\ brokenSince' = Without(brokenSince, {p})
    /\ UNCHANGED <<now, codeVars, history>>

Tick ==
    /\ now < MaxTime
    /\ now' = now + 1
    /\ UNCHANGED <<codeVars, brokenSince, history>>

Next ==
    \/ \E recs \in SUBSET Partitions, errs \in MapsTo(Faults) : Poll(recs, errs)
    \/ \E p \in Partitions : Break(p) \/ Heal(p)
    \/ Tick

Spec == Init /\ [][Next]_vars

-----------------------------------------------------------------------------
(* Properties *)

\* The three maps describe the same streaks, each begun no later than it was
\* last logged; a streak exists for a partition exactly when it has failed
\* since its last record, whatever the other partitions did.
StreaksMatchHistory ==
    /\ DOMAIN pollErrSince = DOMAIN history
    /\ DOMAIN pollErrLogged = DOMAIN history
    /\ DOMAIN pollErrLastID = DOMAIN history
    /\ \A p \in DOMAIN history :
          /\ pollErrSince[p] = history[p].first
          /\ pollErrSince[p] <= pollErrLogged[p] /\ pollErrLogged[p] <= history[p].last

\* The throttle hides no failure mode: the error last seen on a partition is
\* the one last logged, less than a log interval before.
NoFailureHidden ==
    \A p \in DOMAIN history :
        /\ history[p].id = pollErrLastID[p]
        /\ history[p].last - pollErrLogged[p] < LogEvery

\* A partition seen failing over BailAfter or longer, with no record between,
\* has stopped the consumer, whatever records the others delivered.
StuckPartitionBails ==
    BailAfter > 0 =>
        \A p \in DOMAIN history : history[p].last - history[p].first >= BailAfter => bailed

\* And nothing else bails: the poll that stops the consumer has just seen an
\* error on a partition that delivered nothing over at least BailAfter of
\* observed failures.
BailNeedsObservedStreak ==
    [][bailed' /\ ~bailed =>
          /\ BailAfter > 0
          /\ \E p \in DOMAIN history' :
                history'[p].last = now /\ now - history'[p].first >= BailAfter]_vars

\* adapter_options.go: pollErrorBailAfter is "how long a partition may fail
\* continuously before the consumer stops itself".
BailOnlyAfterContinuousFailure ==
    [][bailed' /\ ~bailed =>
          \E p \in DOMAIN brokenSince : now - brokenSince[p] >= BailAfter]_vars
=============================================================================
