------------------------------ MODULE MCWiring ------------------------------
(* A small instance of Wiring for TLC. *)
EXTENDS Wiring

\* Option lists for NewWithOptions: none, the host's own callbacks, its logger.
MCUserOpts == {<<>>, <<Opt("callbacks", "host")>>, <<Opt("logger", "host")>>}

\* Option lists for a client of the host's own: complete, and each way incomplete.
MCCustomOpts ==
    {RequiredOpts, <<Opt("autoCommit", "disabled")>>, <<Opt("blockRebalanceOnPoll", "on")>>}

\* Adapter options at and around every bound, nil entries and repeats included.
MCOptionLists ==
    {<<[pollErrorBailAfter |-> d]>> : d \in {-1, 0, 1, 59999, 60000, 60001, 3600000, 3600001}}
    \cup {<<[pollErrorBackoff |-> d], NilOption>> : d \in {-1, 0, 1, 5000, 5001}}
    \cup {<<[pollErrorLogInterval |-> d]>> : d \in {-1, 0, 1}}
    \cup {<<[clientLogLevel |-> "debug"], NilOption, [clientLogLevel |-> "none"]>>,
          <<[assignmentOffsetLookup |-> FALSE], [pollErrorBailAfter |-> 90000]>>,
          <<[pollErrorBailAfter |-> 0], [pollErrorBailAfter |-> 70000]>>}
=============================================================================
