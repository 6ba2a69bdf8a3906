-------------------------- MODULE PollErrorsProofs ---------------------------
(***************************************************************************)
(* handlePollErrors keeps its three maps, its log and its bail true to     *)
(* what was observed, for any partitions, errors, intervals and length of  *)
(* time.                                                                   *)
(***************************************************************************)
EXTENDS PollErrors, TLAPS

\* What was observed lies in the past.
SeenInThePast == \A p \in DOMAIN history : history[p].last <= now

PInv ==
    /\ PollErrorsTypeOK /\ SeenInThePast
    /\ StreaksMatchHistory /\ NoFailureHidden /\ StuckPartitionBails

Entries == [first : Times, last : Times, id : Errors]

-----------------------------------------------------------------------------
(* Functions on some of the partitions *)

\* The members of MapsTo are the functions on some partitions with values in S.
LEMMA MapsToIntro ==
    ASSUME NEW S, NEW D \in SUBSET Partitions, NEW f \in [D -> S]
    PROVE  f \in MapsTo(S)
  BY DEF MapsTo

\* And only those.
LEMMA MapsToElim ==
    ASSUME NEW S, NEW f \in MapsTo(S)
    PROVE  DOMAIN f \in SUBSET Partitions /\ f \in [DOMAIN f -> S]
  BY DEF MapsTo

\* The empty map.
LEMMA EmptyMap == ASSUME NEW S PROVE << >> \in MapsTo(S)
<1>1. << >> \in [{} -> S]
  OBVIOUS
<1> QED
  BY <1>1, MapsToIntro

\* Removing partitions from a map.
LEMMA WithoutMap ==
    ASSUME NEW S, NEW f \in MapsTo(S), NEW R
    PROVE  /\ Without(f, R) \in MapsTo(S)
           /\ DOMAIN Without(f, R) = DOMAIN f \ R
           /\ \A p \in DOMAIN f \ R : Without(f, R)[p] = f[p]
<1>1. DOMAIN f \in SUBSET Partitions /\ f \in [DOMAIN f -> S]
  BY MapsToElim
<1>2. Without(f, R) \in [DOMAIN f \ R -> S]
  BY <1>1 DEF Without
<1>3. Without(f, R) \in MapsTo(S)
  BY <1>1, <1>2, MapsToIntro
<1> QED
  BY <1>1, <1>3 DEF Without

\* Setting a map's values at some partitions.
LEMMA UpdatedMap ==
    ASSUME NEW S, NEW f \in MapsTo(S), NEW D \in SUBSET Partitions, NEW g \in [D -> S]
    PROVE  /\ Updated(f, g) \in MapsTo(S)
           /\ DOMAIN Updated(f, g) = DOMAIN f \cup D
           /\ \A p \in D : Updated(f, g)[p] = g[p]
           /\ \A p \in DOMAIN f \ D : Updated(f, g)[p] = f[p]
<1>1. DOMAIN f \in SUBSET Partitions /\ f \in [DOMAIN f -> S] /\ DOMAIN g = D
  BY MapsToElim
<1>2. Updated(f, g) \in [DOMAIN f \cup D -> S]
  BY <1>1 DEF Updated
<1>3. Updated(f, g) \in MapsTo(S)
  BY <1>1, <1>2, MapsToIntro
<1> QED
  BY <1>1, <1>3 DEF Updated

-----------------------------------------------------------------------------
(* One poll *)

\* What one poll leaves in the maps: nothing of a partition that delivered, a
\* refreshed entry of one that failed, and everything else as it was.
PollOutcome(recs, errs) ==
    LET failing == Failing(recs, errs)
        untouched == DOMAIN history \ (recs \cup failing)
    IN  /\ DOMAIN history' = untouched \cup failing
        /\ DOMAIN pollErrSince' = DOMAIN history'
        /\ DOMAIN pollErrLogged' = DOMAIN history'
        /\ DOMAIN pollErrLastID' = DOMAIN history'
        /\ \A p \in untouched :
              /\ history'[p] = history[p] /\ pollErrSince'[p] = pollErrSince[p]
              /\ pollErrLogged'[p] = pollErrLogged[p] /\ pollErrLastID'[p] = pollErrLastID[p]
        /\ \A p \in failing :
              /\ history'[p].last = now /\ history'[p].id = errs[p].last
              /\ history'[p].first = pollErrSince'[p]
              /\ pollErrSince'[p] = IF p \in DOMAIN history THEN pollErrSince[p] ELSE now
              /\ \/ pollErrLogged'[p] = now /\ pollErrLastID'[p] = errs[p].last
                 \/ /\ p \in DOMAIN history
                    /\ pollErrLogged'[p] = pollErrLogged[p] /\ pollErrLastID'[p] = pollErrLastID[p]
                    /\ errs[p].last = pollErrLastID[p] /\ now - pollErrLogged[p] < LogEvery

\* A failing partition is one of the partitions, shows a real error and has
\* delivered nothing.
LEMMA FailingPartitions ==
    ASSUME NEW recs, NEW errs \in MapsTo(Faults)
    PROVE  /\ Failing(recs, errs) \subseteq Partitions \ recs
           /\ \A p \in Failing(recs, errs) : errs[p].last \in Errors /\ errs[p].last \in errs[p].ids
<1>1. DOMAIN errs \in SUBSET Partitions /\ errs \in [DOMAIN errs -> Faults]
  BY MapsToElim
<1>2. ASSUME NEW f \in Faults, f.ids # {} PROVE f.last \in Errors /\ f.last \in f.ids
  BY <1>2 DEF Faults
<1> QED
  BY <1>1, <1>2 DEF Failing

\* handlePollErrors and the observation of the same poll, map by map.
LEMMA PollMaps ==
    ASSUME PInv, NEW recs, NEW errs, Poll(recs, errs),
           Failing(recs, errs) \subseteq Partitions \ recs,
           \A p \in Failing(recs, errs) : errs[p].last \in Errors /\ errs[p].last \in errs[p].ids
    PROVE  /\ pollErrSince' \in MapsTo(Times) /\ pollErrLogged' \in MapsTo(Times)
           /\ pollErrLastID' \in MapsTo(Errors) /\ history' \in MapsTo(Entries)
           /\ PollOutcome(recs, errs)
<1> DEFINE F == Failing(recs, errs)
           L == LoggedNow(recs, errs)
           since == Without(pollErrSince, recs)
           logged == Without(pollErrLogged, recs)
           lastID == Without(pollErrLastID, recs)
           kept == Without(history, recs)
           fresh == F \ DOMAIN since
           seen == [p \in F |-> [first |-> IF p \in DOMAIN kept THEN kept[p].first ELSE now,
                                 last |-> now, id |-> errs[p].last]]
           started == [p \in fresh |-> now]
           stamps == [p \in L |-> now]
           names == [p \in L |-> errs[p].last]
<1>1. F \subseteq Partitions \ recs /\ \A p \in F : errs[p].last \in Errors /\ errs[p].last \in errs[p].ids
  OBVIOUS
<1>2. now \in Times
  BY DEF PInv, PollErrorsTypeOK
<1>3. /\ DOMAIN pollErrSince = DOMAIN history /\ DOMAIN pollErrLogged = DOMAIN history
      /\ DOMAIN pollErrLastID = DOMAIN history
      /\ \A p \in DOMAIN history : history[p].first = pollErrSince[p]
  BY DEF PInv, StreaksMatchHistory
<1>4. /\ pollErrSince' = Updated(since, started)
      /\ pollErrLogged' = Updated(logged, stamps)
      /\ pollErrLastID' = Updated(lastID, names)
      /\ history' = Updated(kept, seen)
  <2>1. F = {q \in DOMAIN errs \ recs : errs[q].ids # {}}
    BY DEF Failing
  <2> QED
    BY <2>1 DEF Poll, HandlePollErrors, Observe, Since, Cleared
<1>5. /\ since \in MapsTo(Times) /\ DOMAIN since = DOMAIN history \ recs
      /\ \A p \in DOMAIN history \ recs : since[p] = pollErrSince[p]
  <2>1. pollErrSince \in MapsTo(Times)
    BY DEF PInv, PollErrorsTypeOK
  <2>2. /\ since \in MapsTo(Times) /\ DOMAIN since = DOMAIN pollErrSince \ recs
        /\ \A p \in DOMAIN pollErrSince \ recs : since[p] = pollErrSince[p]
    BY <2>1, WithoutMap
  <2> QED
    BY <1>3, <2>2
<1>6. /\ logged \in MapsTo(Times) /\ DOMAIN logged = DOMAIN history \ recs
      /\ \A p \in DOMAIN history \ recs : logged[p] = pollErrLogged[p]
  <2>1. pollErrLogged \in MapsTo(Times)
    BY DEF PInv, PollErrorsTypeOK
  <2>2. /\ logged \in MapsTo(Times) /\ DOMAIN logged = DOMAIN pollErrLogged \ recs
        /\ \A p \in DOMAIN pollErrLogged \ recs : logged[p] = pollErrLogged[p]
    BY <2>1, WithoutMap
  <2> QED
    BY <1>3, <2>2
<1>7. /\ lastID \in MapsTo(Errors) /\ DOMAIN lastID = DOMAIN history \ recs
      /\ \A p \in DOMAIN history \ recs : lastID[p] = pollErrLastID[p]
  <2>1. pollErrLastID \in MapsTo(Errors)
    BY DEF PInv, PollErrorsTypeOK
  <2>2. /\ lastID \in MapsTo(Errors) /\ DOMAIN lastID = DOMAIN pollErrLastID \ recs
        /\ \A p \in DOMAIN pollErrLastID \ recs : lastID[p] = pollErrLastID[p]
    BY <2>1, WithoutMap
  <2> QED
    BY <1>3, <2>2
<1>8. /\ kept \in MapsTo(Entries) /\ DOMAIN kept = DOMAIN history \ recs
      /\ \A p \in DOMAIN history \ recs : kept[p] = history[p]
  <2>1. history \in MapsTo(Entries)
    BY DEF PInv, PollErrorsTypeOK, Entries
  <2> QED
    BY <2>1, WithoutMap
<1>9. /\ L \subseteq F
      /\ \A p \in F \ L : /\ p \in DOMAIN logged /\ p \in DOMAIN lastID
                          /\ errs[p].last = lastID[p] /\ ~(now - logged[p] >= LogEvery)
  BY <1>1 DEF LoggedNow, Cleared
<1>10. /\ started \in [fresh -> Times] /\ fresh \in SUBSET Partitions
       /\ stamps \in [L -> Times] /\ L \in SUBSET Partitions
  BY <1>1, <1>2, <1>9
<1>11. names \in [L -> Errors]
  BY <1>1, <1>9
<1>12. seen \in [F -> Entries] /\ F \in SUBSET Partitions
  <2>1. \A p \in DOMAIN kept : kept[p] \in Entries
    BY <1>8, MapsToElim
  <2>2. \A p \in F : (IF p \in DOMAIN kept THEN kept[p].first ELSE now) \in Times
    BY <1>2, <2>1 DEF Entries
  <2>3. \A p \in F : seen[p] \in Entries
    BY <1>1, <1>2, <2>2 DEF Entries
  <2> HIDE DEF F
  <2> QED
    BY <1>1, <2>3
<1>13. /\ \A p \in fresh : started[p] = now
       /\ \A p \in L : stamps[p] = now /\ names[p] = errs[p].last
       /\ \A p \in F : /\ seen[p].last = now /\ seen[p].id = errs[p].last
                       /\ seen[p].first = IF p \in DOMAIN kept THEN kept[p].first ELSE now
  OBVIOUS
<1>14. fresh = F \ DOMAIN since
  OBVIOUS
<1> HIDE DEF F, L, since, logged, lastID, kept, fresh, seen, started, stamps, names
<1>15. /\ Updated(since, started) \in MapsTo(Times)
       /\ DOMAIN Updated(since, started) = DOMAIN since \cup fresh
       /\ \A p \in fresh : Updated(since, started)[p] = started[p]
       /\ \A p \in DOMAIN since \ fresh : Updated(since, started)[p] = since[p]
  <2>1. since \in MapsTo(Times)
    BY <1>5
  <2>2. started \in [fresh -> Times] /\ fresh \in SUBSET Partitions
    BY <1>10, <1>11
  <2>3. Updated(since, started) \in MapsTo(Times)
    BY <2>1, <2>2, UpdatedMap
  <2> QED
    BY <2>2, <2>3 DEF Updated
<1>16. /\ Updated(logged, stamps) \in MapsTo(Times)
       /\ DOMAIN Updated(logged, stamps) = DOMAIN logged \cup L
       /\ \A p \in L : Updated(logged, stamps)[p] = stamps[p]
       /\ \A p \in DOMAIN logged \ L : Updated(logged, stamps)[p] = logged[p]
  <2>1. logged \in MapsTo(Times)
    BY <1>6
  <2>2. stamps \in [L -> Times] /\ L \in SUBSET Partitions
    BY <1>10, <1>11
  <2>3. Updated(logged, stamps) \in MapsTo(Times)
    BY <2>1, <2>2, UpdatedMap
  <2> QED
    BY <2>2, <2>3 DEF Updated
<1>17. /\ Updated(lastID, names) \in MapsTo(Errors)
       /\ DOMAIN Updated(lastID, names) = DOMAIN lastID \cup L
       /\ \A p \in L : Updated(lastID, names)[p] = names[p]
       /\ \A p \in DOMAIN lastID \ L : Updated(lastID, names)[p] = lastID[p]
  <2>1. lastID \in MapsTo(Errors)
    BY <1>7
  <2>2. names \in [L -> Errors] /\ L \in SUBSET Partitions
    BY <1>10, <1>11
  <2>3. Updated(lastID, names) \in MapsTo(Errors)
    BY <2>1, <2>2, UpdatedMap
  <2> QED
    BY <2>2, <2>3 DEF Updated
<1>18. /\ Updated(kept, seen) \in MapsTo(Entries)
       /\ DOMAIN Updated(kept, seen) = DOMAIN kept \cup F
       /\ \A p \in F : Updated(kept, seen)[p] = seen[p]
       /\ \A p \in DOMAIN kept \ F : Updated(kept, seen)[p] = kept[p]
  BY <1>8, <1>12, UpdatedMap
<1>19. \A p \in F : p \in DOMAIN history => p \in DOMAIN history \ recs
  BY <1>1
<1>20. /\ DOMAIN history' = (DOMAIN history \ (recs \cup F)) \cup F
       /\ DOMAIN pollErrSince' = DOMAIN history' /\ DOMAIN pollErrLogged' = DOMAIN history'
       /\ DOMAIN pollErrLastID' = DOMAIN history'
  BY <1>1, <1>4, <1>5, <1>6, <1>7, <1>8, <1>9, <1>14, <1>15, <1>16, <1>17, <1>18
<1>21. \A p \in DOMAIN history \ (recs \cup F) :
          /\ history'[p] = history[p] /\ pollErrSince'[p] = pollErrSince[p]
          /\ pollErrLogged'[p] = pollErrLogged[p] /\ pollErrLastID'[p] = pollErrLastID[p]
  BY <1>4, <1>5, <1>6, <1>7, <1>8, <1>9, <1>14, <1>15, <1>16, <1>17, <1>18
<1>22. ASSUME NEW p \in F
       PROVE  /\ history'[p].last = now /\ history'[p].id = errs[p].last
              /\ history'[p].first = pollErrSince'[p]
              /\ pollErrSince'[p] = IF p \in DOMAIN history THEN pollErrSince[p] ELSE now
  BY <1>3, <1>4, <1>5, <1>8, <1>13, <1>14, <1>15, <1>18, <1>19
<1>23. ASSUME NEW p \in F
       PROVE  \/ pollErrLogged'[p] = now /\ pollErrLastID'[p] = errs[p].last
              \/ /\ p \in DOMAIN history
                 /\ pollErrLogged'[p] = pollErrLogged[p] /\ pollErrLastID'[p] = pollErrLastID[p]
                 /\ errs[p].last = pollErrLastID[p] /\ now - pollErrLogged[p] < LogEvery
  <2>1. CASE p \in L
    BY <1>4, <1>13, <1>16, <1>17, <2>1
  <2>2. CASE p \notin L
    <3>1. p \in DOMAIN history \ recs /\ logged[p] = pollErrLogged[p]
      BY <1>6, <1>9, <2>2
    <3>2. now \in Int /\ LogEvery \in Int
      BY <1>2, PollErrorsAssumption DEF Times
    <3>3. logged[p] \in Times
      BY <1>6, <3>1, MapsToElim
    <3>4. ~(now - pollErrLogged[p] >= LogEvery) /\ pollErrLogged[p] \in Int
      BY <1>9, <2>2, <3>1, <3>3 DEF Times
    <3>5. now - pollErrLogged[p] < LogEvery
      BY <3>2, <3>4
    <3> QED
      BY <1>4, <1>6, <1>7, <1>9, <1>16, <1>17, <2>2, <3>1, <3>5
  <2> QED
    BY <2>1, <2>2
<1>24. PollOutcome(recs, errs)
  BY <1>20, <1>21, <1>22, <1>23 DEF PollOutcome, F
<1> QED
  BY <1>4, <1>15, <1>16, <1>17, <1>18, <1>24

\* The bail is decided from the streaks this very poll leaves behind.
LEMMA PollBails ==
    ASSUME PInv, NEW recs, NEW errs, Poll(recs, errs), NEW p \in Failing(recs, errs),
           BailAfter > 0, now - pollErrSince'[p] >= BailAfter
    PROVE  bailed'
<1>1. pollErrSince' = Since(recs, errs) /\ bailed' = (bailed \/ BailDue(recs, errs))
  BY DEF Poll, HandlePollErrors
<1>2. BailDue(recs, errs)
  BY <1>1 DEF BailDue
<1> QED
  BY <1>1, <1>2

\* One poll of fetchNext keeps the maps, the log and the bail true.
LEMMA PollStep ==
    ASSUME PInv, NEW recs \in SUBSET Partitions, NEW errs \in MapsTo(Faults),
           Poll(recs, errs)
    PROVE  PInv'
<1> DEFINE F == Failing(recs, errs)
           untouched == DOMAIN history \ (recs \cup F)
<1>1. F \subseteq Partitions \ recs /\ \A p \in F : errs[p].last \in Errors /\ errs[p].last \in errs[p].ids
  BY FailingPartitions
<1>2. /\ pollErrSince' \in MapsTo(Times) /\ pollErrLogged' \in MapsTo(Times)
      /\ pollErrLastID' \in MapsTo(Errors) /\ history' \in MapsTo(Entries)
      /\ PollOutcome(recs, errs)
  BY <1>1, PollMaps
<1>3. /\ DOMAIN history' = untouched \cup F
      /\ DOMAIN pollErrSince' = DOMAIN history' /\ DOMAIN pollErrLogged' = DOMAIN history'
      /\ DOMAIN pollErrLastID' = DOMAIN history'
  BY <1>2 DEF PollOutcome
<1>4. \A p \in untouched :
         /\ history'[p] = history[p] /\ pollErrSince'[p] = pollErrSince[p]
         /\ pollErrLogged'[p] = pollErrLogged[p] /\ pollErrLastID'[p] = pollErrLastID[p]
  BY <1>2 DEF PollOutcome
<1>5. \A p \in F :
         /\ history'[p].last = now /\ history'[p].id = errs[p].last
         /\ history'[p].first = pollErrSince'[p]
         /\ pollErrSince'[p] = IF p \in DOMAIN history THEN pollErrSince[p] ELSE now
         /\ \/ pollErrLogged'[p] = now /\ pollErrLastID'[p] = errs[p].last
            \/ /\ p \in DOMAIN history
               /\ pollErrLogged'[p] = pollErrLogged[p] /\ pollErrLastID'[p] = pollErrLastID[p]
               /\ errs[p].last = pollErrLastID[p] /\ now - pollErrLogged[p] < LogEvery
  BY <1>2 DEF PollOutcome
<1>6. now' = now /\ brokenSince' = brokenSince /\ now \in 0 .. MaxTime /\ LogEvery \in Nat \ {0}
  BY PollErrorsAssumption DEF Poll, PInv, PollErrorsTypeOK, Times
<1>7. ASSUME NEW p \in DOMAIN history
      PROVE  /\ pollErrSince[p] = history[p].first /\ pollErrSince[p] <= pollErrLogged[p]
             /\ pollErrLogged[p] <= history[p].last /\ history[p].last <= now
             /\ history[p].id = pollErrLastID[p] /\ history[p].last - pollErrLogged[p] < LogEvery
             /\ pollErrSince[p] \in Times /\ pollErrLogged[p] \in Times /\ pollErrLogged[p] <= now
  <2>1. pollErrSince[p] \in Times
    BY MapsToElim DEF PInv, PollErrorsTypeOK, StreaksMatchHistory
  <2>2. pollErrLogged[p] \in Times
    BY MapsToElim DEF PInv, PollErrorsTypeOK, StreaksMatchHistory
  <2>3. history[p].last \in Times
    <3>1. history \in MapsTo(Entries)
      BY DEF PInv, PollErrorsTypeOK, Entries
    <3>2. history[p] \in Entries
      BY <3>1, MapsToElim
    <3> QED
      BY <3>2 DEF Entries
  <2>4. pollErrLogged[p] <= history[p].last /\ history[p].last <= now
    BY DEF PInv, SeenInThePast, StreaksMatchHistory
  <2>5. pollErrLogged[p] <= now
    BY <1>6, <2>2, <2>3, <2>4, PollErrorsAssumption DEF Times
  <2> QED
    BY <2>1, <2>2, <2>4, <2>5 DEF PInv, StreaksMatchHistory, NoFailureHidden
<1> HIDE DEF F, untouched
<1>8. PollErrorsTypeOK'
  <2>1. bailed' \in BOOLEAN
    <3>1. bailed' = (bailed \/ BailDue(recs, errs))
      BY DEF Poll, HandlePollErrors
    <3> QED
      BY <3>1, Zenon
  <2>2. resume' \in 0 .. MaxTime + Backoff
    <3>1. resume \in 0 .. MaxTime + Backoff
      BY DEF PInv, PollErrorsTypeOK
    <3>2. resume' = now + Backoff \/ resume' = resume
      BY DEF Poll, HandlePollErrors
    <3> QED
      BY <1>6, <3>1, <3>2, PollErrorsAssumption
  <2>3. now' \in Times /\ brokenSince' \in MapsTo(Times)
    BY <1>6 DEF PInv, PollErrorsTypeOK
  <2> QED
    BY <1>2, <2>1, <2>2, <2>3 DEF PollErrorsTypeOK, Entries
<1>9. SeenInThePast'
  <2> SUFFICES ASSUME NEW p \in DOMAIN history' PROVE history'[p].last <= now'
    BY DEF SeenInThePast
  <2>1. CASE p \in untouched
    BY <1>4, <1>6, <1>7, <2>1 DEF untouched
  <2>2. CASE p \in F
    BY <1>5, <1>6, <2>2
  <2> QED
    BY <1>3, <2>1, <2>2
<1>10. StreaksMatchHistory'
  <2> SUFFICES ASSUME NEW p \in DOMAIN history'
               PROVE  /\ pollErrSince'[p] = history'[p].first
                      /\ pollErrSince'[p] <= pollErrLogged'[p]
                      /\ pollErrLogged'[p] <= history'[p].last
    BY <1>3 DEF StreaksMatchHistory
  <2>1. CASE p \in untouched
    BY <1>4, <1>7, <2>1 DEF untouched
  <2>2. CASE p \in F
    <3>1. pollErrSince'[p] <= pollErrLogged'[p] /\ pollErrLogged'[p] <= now
      <4>1. CASE p \in DOMAIN history
        BY <1>5, <1>6, <1>7, <2>2, <4>1 DEF Times
      <4>2. CASE p \notin DOMAIN history
        BY <1>5, <1>6, <2>2, <4>2
      <4> QED
        BY <4>1, <4>2
    <3> QED
      BY <1>5, <2>2, <3>1
  <2> QED
    BY <1>3, <2>1, <2>2
<1>11. NoFailureHidden'
  <2> SUFFICES ASSUME NEW p \in DOMAIN history'
               PROVE  /\ history'[p].id = pollErrLastID'[p]
                      /\ history'[p].last - pollErrLogged'[p] < LogEvery
    BY DEF NoFailureHidden
  <2>1. CASE p \in untouched
    BY <1>4, <1>7, <2>1 DEF untouched
  <2>2. CASE p \in F
    BY <1>5, <1>6, <2>2
  <2> QED
    BY <1>3, <2>1, <2>2
<1>12. StuckPartitionBails'
  <2> SUFFICES ASSUME BailAfter > 0, NEW p \in DOMAIN history',
                      history'[p].last - history'[p].first >= BailAfter
               PROVE  bailed'
    BY DEF StuckPartitionBails
  <2>1. CASE p \in untouched
    <3>1. bailed
      BY <1>4, <2>1 DEF untouched, PInv, StuckPartitionBails
    <3> QED
      BY <3>1 DEF Poll, HandlePollErrors
  <2>2. CASE p \in F
    <3>1. now - pollErrSince'[p] >= BailAfter
      BY <1>5, <2>2
    <3> QED
      BY <2>2, <3>1, PollBails DEF F
  <2> QED
    BY <1>3, <2>1, <2>2
<1> QED
  BY <1>8, <1>9, <1>10, <1>11, <1>12 DEF PInv

-----------------------------------------------------------------------------
(* The environment, and the theorems *)

\* A step that leaves the code's state, the observations and the clock alone,
\* or lets time pass, keeps what relates them.
LEMMA QuietStep ==
    ASSUME PInv, UNCHANGED <<codeVars, history>>, now' \in Times, now <= now',
           brokenSince' \in MapsTo(Times)
    PROVE  PInv'
<1> USE DEF codeVars
<1>1. PollErrorsTypeOK'
  BY DEF PInv, PollErrorsTypeOK
<1>2. SeenInThePast'
  <2> SUFFICES ASSUME NEW p \in DOMAIN history PROVE history[p].last <= now'
    BY DEF SeenInThePast
  <2>1. history \in MapsTo(Entries)
    BY DEF PInv, PollErrorsTypeOK, Entries
  <2>2. history[p] \in Entries
    BY <2>1, MapsToElim
  <2>3. history[p].last \in Int /\ now \in Int /\ now' \in Int
    BY <2>2, PollErrorsAssumption DEF Entries, Times, PInv, PollErrorsTypeOK
  <2> QED
    BY <2>3 DEF PInv, SeenInThePast
<1>3. StreaksMatchHistory' /\ NoFailureHidden'
  BY DEF PInv, StreaksMatchHistory, NoFailureHidden
<1>4. StuckPartitionBails'
  BY DEF PInv, StuckPartitionBails
<1> QED
  BY <1>1, <1>2, <1>3, <1>4 DEF PInv

\* The invariant holds at the start ...
LEMMA InitPInv == Init => PInv
<1> SUFFICES ASSUME Init PROVE PInv
  OBVIOUS
<1>1. PollErrorsTypeOK
  <2>1. now \in Times /\ resume \in 0 .. MaxTime + Backoff
    BY PollErrorsAssumption DEF Init, Times
  <2>2. bailed \in BOOLEAN
    BY Zenon DEF Init
  <2>3. /\ pollErrSince \in MapsTo(Times) /\ pollErrLogged \in MapsTo(Times)
        /\ pollErrLastID \in MapsTo(Errors) /\ brokenSince \in MapsTo(Times)
        /\ history \in MapsTo([first : Times, last : Times, id : Errors])
    BY EmptyMap DEF Init
  <2> QED
    BY <2>1, <2>2, <2>3 DEF PollErrorsTypeOK
<1>2. /\ DOMAIN history = {} /\ DOMAIN pollErrSince = {} /\ DOMAIN pollErrLogged = {}
      /\ DOMAIN pollErrLastID = {}
  BY DEF Init
<1> QED
  BY <1>1, <1>2
     DEF PInv, SeenInThePast, StreaksMatchHistory, NoFailureHidden, StuckPartitionBails

\* ... and every step keeps it.
LEMMA NextPInv == PInv /\ [Next]_vars => PInv'
<1> SUFFICES ASSUME PInv, [Next]_vars PROVE PInv'
  OBVIOUS
<1>1. now \in Times /\ now \in Int /\ brokenSince \in MapsTo(Times)
  BY PollErrorsAssumption DEF PInv, PollErrorsTypeOK, Times
<1>2. ASSUME NEW recs \in SUBSET Partitions, NEW errs \in MapsTo(Faults),
             Poll(recs, errs)
      PROVE  PInv'
  BY <1>2, PollStep
<1>3. ASSUME NEW p \in Partitions, Break(p)
      PROVE  PInv'
  <2>1. [q \in {p} |-> now] \in [{p} -> Times] /\ {p} \in SUBSET Partitions
    BY <1>1
  <2>2. Updated(brokenSince, [q \in {p} |-> now]) \in MapsTo(Times)
    BY <1>1, <2>1, UpdatedMap
  <2> QED
    BY <1>1, <1>3, <2>2, QuietStep DEF Break
<1>4. ASSUME NEW p \in Partitions, Heal(p)
      PROVE  PInv'
  <2>1. Without(brokenSince, {p}) \in MapsTo(Times)
    BY <1>1, WithoutMap
  <2> QED
    BY <1>1, <1>4, <2>1, QuietStep DEF Heal
<1>5. CASE Tick
  <2>1. now' \in Times /\ now <= now'
    BY <1>1, <1>5, PollErrorsAssumption DEF Tick, Times
  <2> QED
    BY <1>1, <1>5, <2>1, QuietStep DEF Tick
<1>6. CASE UNCHANGED vars
  BY <1>1, <1>6, QuietStep DEF vars
<1> QED
  BY <1>2, <1>3, <1>4, <1>5, <1>6 DEF Next

\* What handlePollErrors knows of each partition agrees with what was observed
\* of it, in every reachable state.
THEOREM PollErrorsInvariance == Spec => []PInv
<1> QED
  BY InitPInv, NextPInv, PTL DEF Spec

\* The clock, the maps and the observations keep their types.
THEOREM PollErrorsTypes == Spec => []PollErrorsTypeOK
<1>1. PInv => PollErrorsTypeOK
  BY DEF PInv
<1> QED
  BY <1>1, PollErrorsInvariance, PTL

\* The three maps hold a streak for a partition exactly when it has failed
\* since its last record, with the time of the first failure.
THEOREM StreaksFollowFailures == Spec => []StreaksMatchHistory
<1>1. PInv => StreaksMatchHistory
  BY DEF PInv
<1> QED
  BY <1>1, PollErrorsInvariance, PTL

\* The throttled log hides no change of error and no full interval of failure.
THEOREM LogHidesNothing == Spec => []NoFailureHidden
<1>1. PInv => NoFailureHidden
  BY DEF PInv
<1> QED
  BY <1>1, PollErrorsInvariance, PTL

\* A partition that fails for BailAfter without a record between has stopped
\* the consumer.
THEOREM StuckPartitionsStopTheConsumer == Spec => []StuckPartitionBails
<1>1. PInv => StuckPartitionBails
  BY DEF PInv
<1> QED
  BY <1>1, PollErrorsInvariance, PTL

\* Nothing but an observed streak of failures stops the consumer.
THEOREM OnlyObservedStreaksBail == Spec => BailNeedsObservedStreak
<1> DEFINE Bails == bailed' /\ ~bailed =>
              /\ BailAfter > 0
              /\ \E p \in DOMAIN history' :
                    history'[p].last = now /\ now - history'[p].first >= BailAfter
<1>1. PInv /\ [Next]_vars => [Bails]_vars
  <2> SUFFICES ASSUME PInv, [Next]_vars, bailed', ~bailed
               PROVE  /\ BailAfter > 0
                      /\ \E p \in DOMAIN history' :
                            history'[p].last = now /\ now - history'[p].first >= BailAfter
    OBVIOUS
  <2>1. PICK recs \in SUBSET Partitions, errs \in MapsTo(Faults) : Poll(recs, errs)
    BY DEF Next, Break, Heal, Tick, vars, codeVars
  <2>2. /\ bailed' = (bailed \/ BailDue(recs, errs))
        /\ pollErrSince' = Since(recs, errs)
    BY <2>1 DEF Poll, HandlePollErrors
  <2>3. PICK p \in Failing(recs, errs) : now - pollErrSince'[p] >= BailAfter
    BY <2>2 DEF BailDue
  <2>4. /\ Failing(recs, errs) \subseteq Partitions \ recs
        /\ \A q \in Failing(recs, errs) : errs[q].last \in Errors /\ errs[q].last \in errs[q].ids
    BY FailingPartitions
  <2>5. PollOutcome(recs, errs)
    BY <2>1, <2>4, PollMaps
  <2>6. /\ p \in DOMAIN history' /\ history'[p].last = now
        /\ history'[p].first = pollErrSince'[p]
    BY <2>3, <2>5 DEF PollOutcome
  <2>7. BailAfter > 0
    BY <2>2 DEF BailDue
  <2> QED
    BY <2>3, <2>6, <2>7
<1> QED
  BY <1>1, PollErrorsInvariance, PTL DEF Spec, BailNeedsObservedStreak
=============================================================================
