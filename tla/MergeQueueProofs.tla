-------------------------- MODULE MergeQueueProofs --------------------------
(***************************************************************************)
(* Proofs about MergeQueue, for any set of pull requests, any modes, and   *)
(* any number of disturbances.  Nearly every step reworks the rows: some   *)
(* leave, and those that stay keep their place and lose a dependency or a  *)
(* verification at most.  What that preserves is shown once (Reworked);    *)
(* the enqueue and the end of a verification are the two exceptions.       *)
(***************************************************************************)
EXTENDS MergeQueue, CommonLemmas

FactsType ==
    [ok : BOOLEAN, thread : BOOLEAN, failing : BOOLEAN, armed : BOOLEAN, merged : BOOLEAN, newer : BOOLEAN]
VerType == [base : Nat, head : Commits, verified : Commits]
RowType ==
    [pos : Nat, head : Commits, dep : PRs \cup {0}, facts : FactsType, ver : VerType,
     failure : Commits, hold : Commits]
PullType ==
    [state : {"open", "merged", "closed"}, head : Commits, armed : BOOLEAN, failing : BOOLEAN,
     thread : BOOLEAN]
LoadedType == [head : Commits, held : BOOLEAN]
LandType ==
    [pc : {"push", "read", "act", "remove", "clear", "hold", "confirm"}, who : {"runner", "user"},
     n : PRs, head : Commits, base : Nat, target : Commits, dep : PRs \cup {0}, held : BOOLEAN]

IsRows(rs) == DOMAIN rs \subseteq PRs /\ rs \in [DOMAIN rs -> RowType]

RunShape ==
    \/ run = Idle
    \/ run \in [pc : {"clear"}, n : PRs]
    \/ run \in [pc : {"verify"}, n : PRs, head : Commits, base : Nat]

LandShape == land = NoLand \/ land \in LandType

ReaderShape ==
    \/ reader \in [pc : {"none"}, n : Nat]
    \/ reader \in [pc : {"ask"}, n : PRs, loaded : LoadedType, seen : {Unread}]
    \/ reader \in [pc : {"record"}, n : PRs, loaded : LoadedType, seen : PullType \cup {ReadError}]

Shapes ==
    /\ IsRows(rows) /\ paused \in BOOLEAN
    /\ RunShape /\ LandShape /\ ReaderShape
    /\ gh \in [PRs -> PullType] /\ main \in Nat /\ mode \in Modes /\ faults \in 0 .. MaxFaults
    /\ tested \in [PRs -> SUBSET Commits]

(* What a step other than an enqueue or the end of a verification may do   *)
(* to the rows.                                                            *)
Reworked(rs, new) ==
    /\ IsRows(new) /\ DOMAIN new \subseteq DOMAIN rs
    /\ \A m \in DOMAIN new : /\ new[m].pos = rs[m].pos
                             /\ new[m].dep \in {rs[m].dep, 0}
                             /\ new[m].ver \in {rs[m].ver, NoVerification}

-----------------------------------------------------------------------------
(* The operators on rows                                                   *)

LEMMA CommitTypes ==
    /\ NoCommit \in Commits /\ NoVerification \in VerType /\ NoFacts \in FactsType
    /\ \A s, b \in Nat : Commit(s, b) \in Commits /\ Commit(s, b).src = s /\ Commit(s, b).on = b
BY DEF NoCommit, NoVerification, NoFacts, Commit, Commits, VerType, FactsType

(* A row keeps its type, its place, its dependency and its verification    *)
(* when the other columns are written.                                     *)
LEMMA RowWrites ==
    ASSUME NEW r \in RowType, NEW c \in Commits, NEW f \in FactsType
    PROVE  /\ r \in RowType
           /\ [r EXCEPT !.failure = c] \in RowType /\ [r EXCEPT !.hold = c] \in RowType
           /\ [r EXCEPT !.head = c, !.facts = f] \in RowType
           /\ [r EXCEPT !.dep = 0] \in RowType /\ [r EXCEPT !.ver = NoVerification] \in RowType
           /\ [r EXCEPT !.hold = c, !.facts.newer = FALSE] \in RowType
BY CommitTypes DEF RowType, FactsType

(* The rows are reworked when one of them is written so.                   *)
LEMMA UpdatedRows ==
    ASSUME NEW rs, IsRows(rs), NEW n, NEW r,
           n \in DOMAIN rs => /\ r \in RowType /\ r.pos = rs[n].pos
                              /\ r.dep \in {rs[n].dep, 0} /\ r.ver \in {rs[n].ver, NoVerification}
    PROVE  Reworked(rs, Updated(rs, n, r))
BY DEF Reworked, IsRows, Updated

(* Rows nobody writes are reworked rows.                                   *)
LEMMA SameRows ==
    ASSUME NEW rs, IsRows(rs)
    PROVE  Reworked(rs, rs)
BY DEF Reworked, IsRows

(* Writes that only rework the rows may follow one another.                *)
LEMMA ReworkedTwice ==
    ASSUME NEW rs, NEW mid, NEW new, Reworked(rs, mid), Reworked(mid, new)
    PROVE  Reworked(rs, new)
BY DEF Reworked

(* Parking an entry only reworks the rows.                                 *)
LEMMA FailedRows ==
    ASSUME NEW rs, IsRows(rs), NEW n, NEW c \in Commits
    PROVE  Reworked(rs, Failed(rs, n, c))
<1> DEFINE r == [rs[n] EXCEPT !.failure = c]
<1>1. n \in DOMAIN rs => /\ r \in RowType /\ r.pos = rs[n].pos /\ r.dep = rs[n].dep /\ r.ver = rs[n].ver
  BY DEF IsRows, RowType
<1> QED BY <1>1, UpdatedRows DEF Failed

(* Removing an entry only reworks the rows.                                *)
LEMMA RemovedRows ==
    ASSUME NEW rs, IsRows(rs), NEW n
    PROVE  Reworked(rs, Removed(rs, n))
BY DEF Reworked, IsRows, Removed

(* Releasing the dependents of an entry only reworks the rows.             *)
LEMMA ClearedRows ==
    ASSUME NEW rs, IsRows(rs), NEW n
    PROVE  Reworked(rs, Cleared(rs, n))
<1>1. ASSUME NEW m \in DOMAIN rs
      PROVE  LET r == [rs[m] EXCEPT !.dep = IF @ = n THEN 0 ELSE @]
             IN  r \in RowType /\ r.pos = rs[m].pos /\ r.dep \in {rs[m].dep, 0} /\ r.ver = rs[m].ver
  BY <1>1 DEF IsRows, RowType
<1> QED BY <1>1 DEF Reworked, IsRows, Cleared

(* Forgetting what GitHub holds only reworks the rows.                     *)
LEMMA UnheldRows ==
    ASSUME NEW rs, IsRows(rs), NEW ns
    PROVE  Reworked(rs, Unheld(rs, ns))
<1>1. ASSUME NEW m \in DOMAIN rs
      PROVE  LET r == [rs[m] EXCEPT !.hold = NoCommit]
             IN  r \in RowType /\ r.pos = rs[m].pos /\ r.dep = rs[m].dep /\ r.ver = rs[m].ver
  BY <1>1, CommitTypes DEF IsRows, RowType
<1> QED BY <1>1 DEF Reworked, IsRows, Unheld

(* Facts read of a pull request.                                           *)
LEMMA FactsTypes ==
    ASSUME NEW seen \in PullType, NEW b \in BOOLEAN
    PROVE  FactsOf(seen, b) \in FactsType /\ [NoFacts EXCEPT !.newer = b] \in FactsType
BY DEF FactsOf, PullType, FactsType, NoFacts

(* The empty facts are facts, fresh or not.                                *)
LEMMA NoFactsTypes ==
    ASSUME NEW b \in BOOLEAN
    PROVE  [NoFacts EXCEPT !.newer = b] \in FactsType
BY DEF FactsType, NoFacts

(* Recording a read of GitHub only reworks the rows, whatever it says.     *)
LEMMA ApplyReadRows ==
    ASSUME NEW rs, IsRows(rs), NEW n, NEW loaded \in LoadedType, NEW seen \in PullType \cup {ReadError}
    PROVE  Reworked(rs, ApplyRead(rs, n, loaded, seen))
<1> DEFINE newer == n \in DOMAIN rs /\ rs[n].hold # NoCommit
           Record(head, facts) == Updated(rs, n, [rs[n] EXCEPT !.head = head, !.facts = facts])
<1>0. newer \in BOOLEAN /\ loaded.head \in Commits /\ loaded.held \in BOOLEAN
  BY DEF LoadedType
<1>1. ASSUME NEW c \in Commits, NEW f \in FactsType PROVE Reworked(rs, Record(c, f))
  <2> DEFINE r == [rs[n] EXCEPT !.head = c, !.facts = f]
  <2>1. n \in DOMAIN rs => /\ r \in RowType /\ r.pos = rs[n].pos /\ r.dep = rs[n].dep /\ r.ver = rs[n].ver
    BY DEF IsRows, RowType
  <2> QED BY <2>1, UpdatedRows
<1>2. CASE seen = ReadError
  <2>1. ApplyRead(rs, n, loaded, seen) = Record(loaded.head, [NoFacts EXCEPT !.newer = newer])
    BY <1>2 DEF ApplyRead, ReadError
  <2> HIDE DEF newer, Record
  <2> QED BY <1>0, <1>1, <2>1, NoFactsTypes
<1>3. CASE seen \in PullType
  <2>1. seen.state \in {"open", "merged", "closed"} /\ seen.head \in Commits
    BY <1>3 DEF PullType
  <2>2. FactsOf(seen, newer) \in FactsType
    BY <1>0, <1>3, FactsTypes
  <2>3. Reworked(rs, Removed(rs, n)) /\ IsRows(Removed(rs, n))
    BY RemovedRows DEF Reworked
  <2>4. Reworked(rs, Cleared(Removed(rs, n), n))
    BY <2>3, ClearedRows, ReworkedTwice
  <2>5. CASE seen.state = "open"
    <3>1. ApplyRead(rs, n, loaded, seen) = Record(seen.head, FactsOf(seen, newer))
      BY <2>5 DEF ApplyRead
    <3> HIDE DEF newer, Record
    <3> QED BY <1>1, <2>1, <2>2, <3>1
  <2>6. CASE seen.state = "closed"
    BY <2>3, <2>6 DEF ApplyRead
  <2>7. CASE seen.state = "merged" /\ loaded.held
    <3>1. ApplyRead(rs, n, loaded, seen) = Record(loaded.head, FactsOf(seen, newer))
      BY <2>7 DEF ApplyRead
    <3> HIDE DEF newer, Record
    <3> QED BY <1>0, <1>1, <2>2, <3>1
  <2>8. CASE seen.state = "merged" /\ ~loaded.held
    <3>1. ApplyRead(rs, n, loaded, seen) = Cleared(Removed(rs, n), n)
      BY <2>8 DEF ApplyRead
    <3> QED BY <2>4, <3>1
  <2> QED BY <2>1, <2>5, <2>6, <2>7, <2>8
<1> QED BY <1>2, <1>3

(* A read made in a landing: the row is loaded with it, or has left.       *)
LEMMA ReadNowRows ==
    ASSUME Shapes, land \in LandType, NEW seen \in PullType \cup {ReadError}
    PROVE  Reworked(rows, ReadNow(land.n, seen)) /\ IsRows(ReadNow(land.n, seen))
<1> DEFINE n == land.n
           l == IF n \in Queued THEN Loaded(n) ELSE [head |-> land.head, held |-> FALSE]
<1>1. land.head \in Commits
  BY DEF LandType
<1>2. n \in Queued => rows[n] \in RowType
  BY DEF Shapes, IsRows, Queued
<1>3. n \in Queued => rows[n].head \in Commits
  BY <1>2 DEF RowType
<1>4. l \in LoadedType
  BY <1>1, <1>3 DEF LoadedType, Loaded
<1>5. ReadNow(n, seen) = ApplyRead(rows, n, l, seen)
  BY DEF ReadNow
<1> HIDE DEF l
<1>6. Reworked(rows, ReadNow(n, seen))
  BY <1>4, <1>5, ApplyReadRows DEF Shapes
<1> QED BY <1>6 DEF Reworked

(* A landing that is under way.                                            *)
LEMMA LandHere ==
    ASSUME Shapes, land.pc \in {"push", "read", "act", "remove", "clear", "hold", "confirm"}
    PROVE  /\ land \in LandType /\ land.n \in PRs /\ land.head \in Commits /\ land.target \in Commits
           /\ land.base \in Nat /\ land.who \in {"runner", "user"}
BY DEF Shapes, LandShape, LandType, NoLand

(* The fields of a pull request on GitHub, and the push that gives it      *)
(* another head.                                                           *)
LEMMA PullHere ==
    ASSUME Shapes, NEW n \in PRs
    PROVE  /\ gh[n] \in PullType /\ gh[n].head \in Commits
           /\ \A c \in Commits : [gh[n] EXCEPT !.head = c] \in PullType
BY DEF Shapes, PullType

(* The fields of a queued row.                                             *)
LEMMA RowHere ==
    ASSUME NEW rs, IsRows(rs), NEW n \in DOMAIN rs
    PROVE  /\ rs[n] \in RowType /\ rs[n].head \in Commits /\ rs[n].pos \in Nat /\ rs[n].dep \in PRs \cup {0}
           /\ rs[n].ver \in VerType /\ rs[n].hold \in Commits /\ rs[n].failure \in Commits
           /\ rs[n].facts \in FactsType
BY DEF IsRows, RowType

(* The read a landing begins with only reworks the rows.                   *)
LEMMA LandReadRows ==
    ASSUME Shapes, land \in LandType, NEW seen \in PullType \cup {ReadError}, LandReadFrom(seen)
    PROVE  Reworked(rows, rows')
<1> DEFINE n == land.n
           after == ReadNow(n, seen)
           r == after[n]
<1>1. Reworked(rows, after) /\ IsRows(after)
  BY ReadNowRows
<1>2. \/ rows' = after
      \/ n \in DOMAIN after /\ rows' = Failed(after, n, r.head)
      \/ n \in DOMAIN after /\ rows' = Updated(after, n, [r EXCEPT !.ver = NoVerification])
  BY DEF LandReadFrom
<1> HIDE DEF after
<1>3. ASSUME n \in DOMAIN after PROVE Reworked(after, Failed(after, n, r.head))
  BY <1>1, <1>3, RowHere, FailedRows
<1>4. ASSUME n \in DOMAIN after PROVE Reworked(after, Updated(after, n, [r EXCEPT !.ver = NoVerification]))
  <2> DEFINE u == [r EXCEPT !.ver = NoVerification]
  <2>1. u \in RowType /\ u.pos = r.pos /\ u.dep = r.dep /\ u.ver = NoVerification
    BY <1>1, <1>4, CommitTypes DEF IsRows, RowType
  <2> HIDE DEF u
  <2>2. Reworked(after, Updated(after, n, u))
    BY <1>1, <2>1, UpdatedRows
  <2> QED BY <2>2 DEF u
<1> QED BY <1>1, <1>2, <1>3, <1>4, ReworkedTwice

(* The read that confirms a hand-off only reworks the rows.                *)
LEMMA ConfirmRows ==
    ASSUME Shapes, land \in LandType, NEW seen \in PullType \cup {ReadError}, NEW kinds, ConfirmFrom(seen, kinds)
    PROVE  Reworked(rows, rows')
<1> DEFINE n == land.n
           after == IF n \in Queued THEN ReadNow(n, seen) ELSE rows
           r == after[n]
<1>1. Reworked(rows, after) /\ IsRows(after)
  BY ReadNowRows, SameRows DEF Shapes
<1>2. \/ rows' = after
      \/ n \in DOMAIN after /\ rows' = Failed(Unheld(after, {n}), n, r.head)
  BY DEF ConfirmFrom
<1> HIDE DEF after
<1>3. ASSUME n \in DOMAIN after PROVE Reworked(after, Failed(Unheld(after, {n}), n, r.head))
  <2>1. Reworked(after, Unheld(after, {n})) /\ IsRows(Unheld(after, {n})) /\ r.head \in Commits
    BY <1>1, <1>3, UnheldRows, RowHere DEF Reworked
  <2> QED BY <2>1, FailedRows, ReworkedTwice
<1> QED BY <1>1, <1>2, <1>3, ReworkedTwice

(* The user's calls other than an enqueue only rework the rows.            *)
LEMMA UserRows ==
    ASSUME Shapes, NEW n, Dequeue(n) \/ Retry(n) \/ UserLands(n) \/ Pause \/ Resume
    PROVE  Reworked(rows, rows')
<1>0. IsRows(rows) /\ Reworked(rows, rows)
  BY SameRows DEF Shapes
<1>1. CASE Dequeue(n)
  BY <1>0, <1>1, RemovedRows DEF Dequeue
<1>2. CASE Retry(n)
  BY <1>0, <1>2, FailedRows, CommitTypes DEF Retry
<1>3. CASE Pause
  <2>1. \E back : rows' = Unheld(rows, back)
    BY <1>3 DEF Pause
  <2> QED BY <1>0, <2>1, UnheldRows
<1>4. CASE Resume
  BY <1>0, <1>4 DEF Resume
<1>5. CASE UserLands(n)
  <2> DEFINE u == [rows[n] EXCEPT !.ver = NoVerification]
  <2>1. n \in Queued /\ (rows' = rows \/ rows' = Updated(rows, n, u))
    BY <1>5 DEF UserLands, LandStart
  <2>2. u \in RowType /\ u.pos = rows[n].pos /\ u.dep = rows[n].dep /\ u.ver = NoVerification
    <3>1. rows[n] \in RowType
      BY <1>0, <2>1 DEF IsRows, Queued
    <3> QED BY <3>1, CommitTypes DEF RowType
  <2> HIDE DEF u
  <2> QED BY <1>0, <2>1, <2>2, UpdatedRows
<1> QED BY <1>1, <1>2, <1>3, <1>4, <1>5

(* Taking back the entries whose head moved only reworks the rows.         *)
LEMMA TakenBackRows ==
    ASSUME NEW rs, IsRows(rs), TakeBackMoved(rs)
    PROVE  Reworked(rs, rows')
<1>1. \E back : rows' = Unheld(rs, back)
  BY DEF TakeBackMoved
<1> QED BY <1>1, UnheldRows

(* The runner's own steps only rework the rows, except a verification that *)
(* succeeds.                                                               *)
LEMMA RunnerRows ==
    ASSUME Shapes, NEW n,
           \/ WatchMoved \/ WatchCleared \/ WatchMerged(n) \/ WatchLetGo(n) \/ FailPushed(n)
           \/ VerifyStart(n) \/ RunnerLands(n)
    PROVE  Reworked(rows, rows')
<1>0. IsRows(rows) /\ Reworked(rows, rows)
  BY SameRows DEF Shapes
<1>1. CASE WatchMoved
  BY <1>0, <1>1, TakenBackRows DEF WatchMoved
<1>2. CASE WatchCleared
  BY <1>0, <1>2, ClearedRows DEF WatchCleared
<1>3. CASE WatchMerged(n)
  BY <1>0, <1>3, RemovedRows DEF WatchMerged
<1>4. CASE WatchLetGo(n)
  <2>1. n \in DOMAIN rows /\ rows' = Failed(Unheld(rows, {n}), n, rows[n].head)
    BY <1>4 DEF WatchLetGo, Queued
  <2>2. Reworked(rows, Unheld(rows, {n})) /\ IsRows(Unheld(rows, {n})) /\ rows[n].head \in Commits
    BY <1>0, <2>1, UnheldRows, RowHere DEF Reworked
  <2> QED BY <2>1, <2>2, FailedRows, ReworkedTwice
<1>5. CASE FailPushed(n)
  <2>1. n \in DOMAIN rows /\ rows' = Failed(rows, n, rows[n].head)
    BY <1>5 DEF FailPushed, PushedFailures, Queued
  <2> QED BY <1>0, <2>1, RowHere, FailedRows
<1>6. CASE VerifyStart(n)
  BY <1>0, <1>6 DEF VerifyStart
<1>7. CASE RunnerLands(n)
  <2> DEFINE u == [rows[n] EXCEPT !.ver = NoVerification]
  <2>1. n \in Queued /\ (rows' = rows \/ rows' = Updated(rows, n, u))
    BY <1>7 DEF RunnerLands, LandStart
  <2>2. u \in RowType /\ u.pos = rows[n].pos /\ u.dep = rows[n].dep /\ u.ver = NoVerification
    <3>1. rows[n] \in RowType
      BY <1>0, <2>1 DEF IsRows, Queued
    <3> QED BY <3>1, CommitTypes DEF RowType
  <2> HIDE DEF u
  <2> QED BY <1>0, <2>1, <2>2, UpdatedRows
<1> QED BY <1>1, <1>2, <1>3, <1>4, <1>5, <1>6, <1>7

(* A landing only reworks the rows, whichever of its steps is taken.       *)
LEMMA LandingRows ==
    ASSUME Shapes, Landing
    PROVE  Reworked(rows, rows')
<1>0. IsRows(rows) /\ Reworked(rows, rows)
  BY SameRows DEF Shapes
<1>1. ASSUME NEW c \in Commits, FailUnattended(c) PROVE Reworked(rows, rows')
  BY <1>0, <1>1, FailedRows DEF FailUnattended
<1>2. CASE LandPush
  BY <1>0, <1>1, <1>2, LandHere DEF LandPush
<1>3. CASE LandRead
  <2>1. land \in LandType /\ land.n \in PRs /\ land.head \in Commits
    BY <1>3, LandHere DEF LandRead
  <2>2. gh[land.n] \in PullType /\ [gh[land.n] EXCEPT !.head = land.head] \in PullType
    BY <2>1, PullHere
  <2>3. \/ \E seen \in PullType \cup {ReadError} : LandReadFrom(seen)
        \/ rows' = rows
    BY <1>3, <2>2 DEF LandRead
  <2> QED BY <1>0, <2>1, <2>3, LandReadRows
<1>4. CASE LandMerge
  BY <1>0, <1>1, <1>4, LandHere DEF LandMerge, Refused
<1>5. CASE LandRemove
  BY <1>0, <1>5, RemovedRows DEF LandRemove
<1>6. CASE LandClear
  BY <1>0, <1>6, ClearedRows DEF LandClear
<1>7. CASE HandOff
  BY <1>0, <1>1, <1>7, LandHere DEF HandOff, Refused
<1>8. CASE HandOffHold
  <2> DEFINE n == land.n
             u == [rows[n] EXCEPT !.hold = land.target, !.facts.newer = FALSE]
  <2>1. rows' = Updated(rows, n, u) /\ land.target \in Commits
    BY <1>8, LandHere DEF HandOffHold
  <2>2. n \in DOMAIN rows => /\ u \in RowType /\ u.pos = rows[n].pos
                             /\ u.dep = rows[n].dep /\ u.ver = rows[n].ver
    <3> SUFFICES ASSUME n \in DOMAIN rows
                 PROVE  u \in RowType /\ u.pos = rows[n].pos /\ u.dep = rows[n].dep /\ u.ver = rows[n].ver
      OBVIOUS
    <3>1. rows[n] \in RowType /\ u \in RowType
      BY <1>0, <2>1, RowHere, RowWrites
    <3> QED BY <3>1 DEF RowType
  <2> HIDE DEF u
  <2> QED BY <1>0, <2>1, <2>2, UpdatedRows
<1>9. CASE HandOffConfirm
  <2>1. land \in LandType /\ land.n \in PRs
    BY <1>9, LandHere DEF HandOffConfirm
  <2>2. gh[land.n] \in PullType
    BY <2>1, PullHere
  <2>3. \/ \E seen \in PullType \cup {ReadError} : \E kinds : ConfirmFrom(seen, kinds)
        \/ rows' = rows
    BY <1>9, <2>2 DEF HandOffConfirm
  <2> QED BY <1>0, <2>1, <2>3, ConfirmRows
<1> QED BY <1>2, <1>3, <1>4, <1>5, <1>6, <1>7, <1>8, <1>9 DEF Landing

(* The read pass only reworks the rows.                                    *)
LEMMA ReaderRows ==
    ASSUME Shapes, Reader
    PROVE  Reworked(rows, rows')
<1>0. IsRows(rows) /\ Reworked(rows, rows)
  BY SameRows DEF Shapes
<1>1. CASE ReadApply
  <2>1. reader.loaded \in LoadedType /\ reader.seen \in PullType \cup {ReadError}
    BY <1>1 DEF ReadApply, Shapes, ReaderShape
  <2>2. Reworked(rows, ApplyRead(rows, reader.n, reader.loaded, reader.seen))
    BY <1>0, <2>1, ApplyReadRows
  <2>3. TakeBackMoved(ApplyRead(rows, reader.n, reader.loaded, reader.seen))
    BY <1>1 DEF ReadApply
  <2>4. IsRows(ApplyRead(rows, reader.n, reader.loaded, reader.seen))
    BY <2>2 DEF Reworked
  <2> QED BY <2>2, <2>3, <2>4, TakenBackRows, ReworkedTwice
<1>2. CASE ReadFetch \/ \E n \in PRs : ReadBegin(n)
  BY <1>0, <1>2 DEF ReadFetch, ReadBegin
<1> QED BY <1>1, <1>2 DEF Reader

(* Every step reworks the rows, but for the two that add to them.          *)
LEMMA RowsChange ==
    ASSUME Shapes, Next
    PROVE  \/ Reworked(rows, rows')
           \/ \E n \in PRs, d \in PRs \cup {0} : Enqueue(n, d)
           \/ VerifyEnd
<1>1. CASE User
  BY <1>1, UserRows DEF User
<1>2. CASE Runner
  BY <1>2, RunnerRows DEF Runner
<1>3. CASE Environment
  <2>1. rows' = rows
    BY <1>3 DEF Environment, BaseMoves, Crash, AuthorPushes, ChecksFail, ThreadOpens, Closed, GitHubMerges,
                GitHubEjects, MergedOutside, Merge, daemon
  <2> QED BY <2>1, SameRows DEF Shapes
<1> QED BY <1>1, <1>2, <1>3, LandingRows, ReaderRows DEF Next

-----------------------------------------------------------------------------
(* The other variables                                                     *)

LEMMA FourFinite ==
    ASSUME NEW a, NEW b, NEW c, NEW d
    PROVE  IsFiniteSet({a, b, c, d})
<1>1. IsFiniteSet({a}) /\ {a, b, c, d} = (({a} \cup {b}) \cup {c}) \cup {d}
  BY FS_Singleton
<1>2. IsFiniteSet({a} \cup {b})
  BY <1>1, FS_AddElement
<1>3. IsFiniteSet(({a} \cup {b}) \cup {c})
  BY <1>2, FS_AddElement
<1>4. IsFiniteSet((({a} \cup {b}) \cup {c}) \cup {d})
  BY <1>3, FS_AddElement
<1> QED BY <1>1, <1>4

(* There are finitely many disturbances, so each one spent leaves fewer.   *)
LEMMA DisturbancesFinite == IsFiniteSet(Disturbances)
<1> DEFINE A == {"pushed", "base moved", "checks failed", "thread opened"}
           B == {"ejected", "merged outside", "closed", "paused"}
           C == {"dequeued", "requeued", "retried", "crashed"}
           D == {"read failed", "cancel failed", "rate limited", "refused"}
           E == {"head lags", "push refused", "user merges", "verification failed"}
<1>1. IsFiniteSet(A) /\ IsFiniteSet(B) /\ IsFiniteSet(C) /\ IsFiniteSet(D) /\ IsFiniteSet(E)
  BY FourFinite
<1>2. Disturbances = A \cup (B \cup (C \cup (D \cup E)))
  BY DEF Disturbances
<1> HIDE DEF A, B, C, D, E
<1>3. IsFiniteSet(D \cup E)
  BY <1>1, FS_Union
<1>4. IsFiniteSet(C \cup (D \cup E))
  BY <1>1, <1>3, FS_Union
<1>5. IsFiniteSet(B \cup (C \cup (D \cup E)))
  BY <1>1, <1>4, FS_Union
<1>6. IsFiniteSet(A \cup (B \cup (C \cup (D \cup E))))
  BY <1>1, <1>5, FS_Union
<1> QED BY <1>2, <1>6

(* A disturbance counts, up to the bound.                                  *)
LEMMA FaultCounts ==
    ASSUME Shapes, NEW kinds, Fault(kinds)
    PROVE  faults' \in 0 .. MaxFaults
<1>1. kinds \in SUBSET Disturbances /\ MaxFaults \in Nat
  BY MergeQueueAssumption DEF Fault
<1>2. IsFiniteSet(kinds)
  BY <1>1, DisturbancesFinite, FS_Subset
<1>3. Cardinality(kinds) \in Nat
  BY <1>2, FS_CardinalityType
<1>4. faults \in 0 .. MaxFaults /\ faults' = faults + Cardinality(kinds) /\ faults' <= MaxFaults
  BY DEF Shapes, Fault
<1> QED BY <1>1, <1>3, <1>4

(* No step spends a disturbance beyond the bound.                          *)
LEMMA FaultsStep ==
    ASSUME Shapes, Next
    PROVE  faults' \in 0 .. MaxFaults
<1> DEFINE Counted == faults' = faults \/ \E kinds : Fault(kinds)
<1>0. Counted => faults' \in 0 .. MaxFaults
  BY FaultCounts DEF Shapes
<1>1. CASE User
  <2>1. Counted
    BY <1>1 DEF User, Pause, Resume, Dequeue, Retry, UserLands, Enqueue
  <2> QED BY <1>0, <2>1
<1>2. CASE Runner
  <2>1. CASE WatchMoved
    BY <1>0, <2>1 DEF WatchMoved, TakeBackMoved
  <2>2. CASE VerifyEnd
    BY <1>0, <2>2 DEF VerifyEnd
  <2>3. CASE \E n \in PRs : WatchLetGo(n)
    BY <1>0, <2>3 DEF WatchLetGo, CancelOrWarn
  <2>4. CASE WatchCleared \/ \E n \in PRs : WatchMerged(n) \/ FailPushed(n) \/ VerifyStart(n) \/ RunnerLands(n)
    BY <1>0, <2>4 DEF WatchCleared, WatchMerged, FailPushed, VerifyStart, RunnerLands
  <2> QED BY <1>2, <2>1, <2>2, <2>3, <2>4 DEF Runner
<1>3. CASE Landing
  <2>1. CASE LandPush \/ LandRead \/ LandMerge \/ LandRemove \/ LandClear \/ HandOff \/ HandOffHold
    BY <1>0, <2>1 DEF LandPush, LandRead, LandMerge, LandRemove, LandClear, HandOff, HandOffHold, Refused
  <2>2. CASE HandOffConfirm
    BY <1>0, <2>2 DEF HandOffConfirm, ConfirmFrom, CancelOrWarn
  <2> QED BY <1>3, <2>1, <2>2 DEF Landing
<1>4. CASE Reader
  BY <1>0, <1>4 DEF Reader, ReadFetch, ReadApply, ReadBegin, TakeBackMoved
<1>5. CASE Environment
  BY <1>0, <1>5 DEF Environment, BaseMoves, Crash, AuthorPushes, ChecksFail, ThreadOpens, Closed, GitHubMerges,
                    GitHubEjects, MergedOutside
<1> QED BY <1>1, <1>2, <1>3, <1>4, <1>5 DEF Next

(* What taking back does to GitHub: the pull requests stay as they are but *)
(* for the hand-off.                                                       *)
SameHeads(new) == new \in [PRs -> PullType] /\ \A n \in PRs : new[n].head = gh[n].head

(* Cancelling what GitHub holds moves no head.                             *)
LEMMA CancelledPulls ==
    ASSUME Shapes, NEW rs, NEW ns
    PROVE  SameHeads(Cancelled(rs, ns)) /\ SameHeads(gh)
<1>1. ASSUME NEW n \in PRs
      PROVE  LET p == [gh[n] EXCEPT !.armed = FALSE]
             IN  p \in PullType /\ p.head = gh[n].head /\ gh[n] \in PullType
  BY <1>1 DEF Shapes, PullType
<1>2. gh \in [PRs -> PullType]
  BY DEF Shapes
<1> QED BY <1>1, <1>2 DEF SameHeads, Cancelled

(* The lease: what the queue pushes is what the author wrote.              *)
PushKeepsWork == land.pc = "push" => land.target.src = land.head.src

(* Whatever happens at GitHub, a branch never goes back.                   *)
LEMMA PullsStep ==
    ASSUME Shapes, PushKeepsWork, Next
    PROVE  gh' \in [PRs -> PullType] /\ \A n \in PRs : gh'[n].head.src >= gh[n].head.src
<1> DEFINE Good == gh' \in [PRs -> PullType] /\ \A n \in PRs : gh'[n].head.src >= gh[n].head.src
<1>0. gh \in [PRs -> PullType] /\ \A n \in PRs : gh[n] \in PullType /\ gh[n].head \in Commits /\ gh[n].head.src \in Nat
  BY DEF Shapes, PullType, Commits
<1>1. SameHeads(gh') => Good
  BY <1>0 DEF SameHeads
<1>2. ASSUME NEW n \in PRs, NEW p \in PullType, p.head.src >= gh[n].head.src, gh' = [gh EXCEPT ![n] = p]
      PROVE  Good
  BY <1>0, <1>2
<1>3. gh' = gh => Good
  BY <1>1, CancelledPulls
<1>4. ASSUME NEW rs, NEW ns, gh' = Cancelled(rs, ns) PROVE Good
  BY <1>1, <1>4, CancelledPulls
<1>5. ASSUME NEW n \in PRs, AuthorPushes(n) PROVE Good
  <2> DEFINE p == [gh[n] EXCEPT !.head.src = @ + 1, !.failing = FALSE, !.armed = @ /\ mode = "auto"]
  <2> DEFINE c == [gh[n].head EXCEPT !.src = @ + 1]
  <2>0. c \in Commits /\ c.src = gh[n].head.src + 1
    BY <1>0 DEF Commits
  <2>4. p \in PullType /\ p.head = c
    <3> HIDE DEF c
    <3>1. p = [gh[n] EXCEPT !.head = c, !.failing = FALSE, !.armed = @ /\ mode = "auto"]
      BY <1>0 DEF c, PullType
    <3> QED BY <1>0, <2>0, <3>1 DEF PullType
  <2> HIDE DEF p, c
  <2>1. p.head.src >= gh[n].head.src
    BY <1>0, <2>0, <2>4
  <2>2. gh' = [gh EXCEPT ![n] = p]
    BY <1>5 DEF AuthorPushes, p
  <2> QED BY <1>2, <2>4, <2>1, <2>2
<1>6. ASSUME NEW n \in PRs, ChecksFail(n) PROVE Good
  <2> DEFINE p == [gh[n] EXCEPT !.failing = TRUE]
  <2>1. p \in PullType /\ p.head.src >= gh[n].head.src
    <3>1. p \in PullType /\ p.head = gh[n].head
      BY <1>0 DEF PullType
    <3> HIDE DEF p
    <3> QED BY <1>0, <3>1
  <2>2. gh' = [gh EXCEPT ![n] = p]
    BY <1>6 DEF ChecksFail
  <2> QED BY <1>2, <2>1, <2>2
<1>7. ASSUME NEW n \in PRs, ThreadOpens(n) PROVE Good
  <2> DEFINE p == [gh[n] EXCEPT !.thread = TRUE]
  <2>1. p \in PullType /\ p.head.src >= gh[n].head.src
    <3>1. p \in PullType /\ p.head = gh[n].head
      BY <1>0 DEF PullType
    <3> HIDE DEF p
    <3> QED BY <1>0, <3>1
  <2>2. gh' = [gh EXCEPT ![n] = p]
    BY <1>7 DEF ThreadOpens
  <2> QED BY <1>2, <2>1, <2>2
<1>8. ASSUME NEW n \in PRs, Merge(n) PROVE Good
  <2> DEFINE p == [gh[n] EXCEPT !.state = "merged", !.armed = FALSE]
  <2>1. p \in PullType /\ p.head.src >= gh[n].head.src
    <3>1. p \in PullType /\ p.head = gh[n].head
      BY <1>0 DEF PullType
    <3> HIDE DEF p
    <3> QED BY <1>0, <3>1
  <2>2. gh' = [gh EXCEPT ![n] = p]
    BY <1>8 DEF Merge
  <2> QED BY <1>2, <2>1, <2>2
<1>9. ASSUME NEW n \in PRs, GitHubEjects(n) PROVE Good
  <2> DEFINE p == [gh[n] EXCEPT !.armed = FALSE]
  <2>1. p \in PullType /\ p.head.src >= gh[n].head.src
    <3>1. p \in PullType /\ p.head = gh[n].head
      BY <1>0 DEF PullType
    <3> HIDE DEF p
    <3> QED BY <1>0, <3>1
  <2>2. gh' = [gh EXCEPT ![n] = p]
    BY <1>9 DEF GitHubEjects
  <2> QED BY <1>2, <2>1, <2>2
<1>10. ASSUME NEW n \in PRs, Closed(n) PROVE Good
  <2> DEFINE p == [gh[n] EXCEPT !.state = "closed", !.armed = FALSE]
  <2>1. p \in PullType /\ p.head.src >= gh[n].head.src
    <3>1. p \in PullType /\ p.head = gh[n].head
      BY <1>0 DEF PullType
    <3> HIDE DEF p
    <3> QED BY <1>0, <3>1
  <2>2. gh' = [gh EXCEPT ![n] = p]
    BY <1>10 DEF Closed
  <2> QED BY <1>2, <2>1, <2>2
<1>11. CASE LandPush
  <2> DEFINE n == land.n
             p == [gh[n] EXCEPT !.head = land.target, !.failing = FALSE, !.armed = @ /\ mode = "auto"]
  <2>1. n \in PRs /\ land.target \in Commits
    BY <1>11, LandHere DEF LandPush
  <2>2. p \in PullType /\ p.head = land.target
    BY <1>0, <2>1 DEF PullType
  <2>3. gh' = gh \/ (gh[n].head = land.head /\ gh' = [gh EXCEPT ![n] = p])
    BY <1>11 DEF LandPush, LeaseHolds
  <2>4. land.target.src = land.head.src
    BY <1>11 DEF LandPush, PushKeepsWork
  <2> HIDE DEF p
  <2> QED BY <1>0, <1>2, <1>3, <2>1, <2>2, <2>3, <2>4
<1>12. CASE LandMerge
  <2> DEFINE n == land.n
             p == [gh[n] EXCEPT !.state = "merged", !.armed = FALSE]
  <2>1. n \in PRs
    BY <1>12, LandHere DEF LandMerge
  <2>2. p \in PullType /\ p.head.src >= gh[n].head.src
    <3>1. p \in PullType /\ p.head = gh[n].head
      BY <1>0, <2>1 DEF PullType
    <3> HIDE DEF p
    <3> QED BY <1>0, <2>1, <3>1
  <2>3. gh' = gh \/ gh' = [gh EXCEPT ![n] = p]
    BY <1>12 DEF LandMerge, Refused, github
  <2> QED BY <1>2, <1>3, <2>1, <2>2, <2>3
<1>13. CASE HandOff
  <2> DEFINE n == land.n
             p == [gh[n] EXCEPT !.armed = TRUE]
  <2>1. n \in PRs
    BY <1>13, LandHere DEF HandOff
  <2>2. p \in PullType /\ p.head.src >= gh[n].head.src
    <3>1. p \in PullType /\ p.head = gh[n].head
      BY <1>0, <2>1 DEF PullType
    <3> HIDE DEF p
    <3> QED BY <1>0, <2>1, <3>1
  <2>3. gh' = gh \/ gh' = [gh EXCEPT ![n] = p]
    BY <1>13 DEF HandOff, Refused, github
  <2> QED BY <1>2, <1>3, <2>1, <2>2, <2>3
<1>14. CASE HandOffConfirm
  <2>1. gh' = gh \/ \E rs, ns : gh' = Cancelled(rs, ns)
    BY <1>14 DEF HandOffConfirm, ConfirmFrom, CancelOrWarn
  <2> QED BY <1>3, <1>4, <2>1
<1>15. CASE LandRead \/ LandRemove \/ LandClear \/ HandOffHold
  BY <1>3, <1>15 DEF LandRead, LandRemove, LandClear, HandOffHold, github
<1>16. CASE User
  <2>1. gh' = gh \/ \E rs, ns : gh' = Cancelled(rs, ns)
    BY <1>16 DEF User, Pause, Resume, Dequeue, Retry, UserLands, LandStart, Enqueue, github
  <2> QED BY <1>3, <1>4, <2>1
<1>17. CASE Runner
  <2>1. gh' = gh \/ \E rs, ns : gh' = Cancelled(rs, ns)
    BY <1>17 DEF Runner, WatchMoved, WatchCleared, VerifyEnd, WatchMerged, WatchLetGo, FailPushed, VerifyStart,
                 RunnerLands, LandStart, TakeBackMoved, CancelOrWarn, github
  <2> QED BY <1>3, <1>4, <2>1
<1>18. CASE Reader
  <2>1. gh' = gh \/ \E rs, ns : gh' = Cancelled(rs, ns)
    BY <1>18 DEF Reader, ReadFetch, ReadApply, ReadBegin, TakeBackMoved, github
  <2> QED BY <1>3, <1>4, <2>1
<1>19. CASE BaseMoves \/ Crash
  BY <1>3, <1>19 DEF BaseMoves, Crash, github
<1>20. CASE Landing
  BY <1>11, <1>12, <1>13, <1>14, <1>15, <1>20 DEF Landing
<1>21. CASE Environment
  BY <1>5, <1>6, <1>7, <1>8, <1>9, <1>10, <1>19, <1>21 DEF Environment, GitHubMerges, MergedOutside
<1> QED BY <1>16, <1>17, <1>18, <1>20, <1>21 DEF Next

(* The landing, the runner, the reader, and what is left.                  *)
LEMMA LandStep ==
    ASSUME Shapes, Next
    PROVE  LandShape'
<1>0. LandShape /\ main \in Nat
  BY DEF Shapes
<1>1. land' = land \/ land' = NoLand => LandShape'
  BY <1>0 DEF LandShape, NoLand
<1>2. ASSUME NEW n \in PRs, NEW who \in {"runner", "user"}, LandStart(n, who) PROVE LandShape'
  <2>1. n \in DOMAIN rows /\ IsRows(rows)
    BY <1>2 DEF LandStart, Queued, Shapes
  <2> DEFINE r == rows[n]
             target == IF mode = "queue" THEN r.head ELSE r.ver.verified
  <2>2. r.head \in Commits /\ r.dep \in PRs \cup {0} /\ r.ver \in VerType
    BY <2>1, RowHere
  <2>3. r.ver.base \in Nat /\ target \in Commits
    BY <2>2 DEF VerType
  <2>4. \/ land' = land
        \/ land' = [pc |-> IF target = r.head THEN "read" ELSE "push", who |-> who, n |-> n,
                    head |-> r.head, base |-> r.ver.base, target |-> target,
                    dep |-> r.dep, held |-> GitHubHolds(r)]
    BY <1>2 DEF LandStart
  <2>5. GitHubHolds(r) \in BOOLEAN
    BY DEF GitHubHolds
  <2> HIDE DEF r, target
  <2> QED BY <1>1, <2>2, <2>3, <2>4, <2>5 DEF LandShape, LandType
<1>3. ASSUME NEW pc \in {"read", "remove", "clear", "hold", "confirm"}, land \in LandType, land' = [land EXCEPT !.pc = pc]
      PROVE  LandShape'
  BY <1>3 DEF LandShape, LandType
<1>4. CASE User
  <2>1. land' = land \/ \E n \in PRs : LandStart(n, "user")
    BY <1>4 DEF User, Pause, Resume, Dequeue, Retry, UserLands, Enqueue
  <2> QED BY <1>1, <1>2, <2>1
<1>5. CASE Runner
  <2>1. land' = land \/ \E n \in PRs : LandStart(n, "runner")
    BY <1>5 DEF Runner, WatchMoved, WatchCleared, VerifyEnd, WatchMerged, WatchLetGo, FailPushed, VerifyStart,
                RunnerLands
  <2> QED BY <1>1, <1>2, <2>1
<1>6. CASE LandPush
  BY <1>1, <1>3, <1>6, LandHere DEF LandPush, LandEnds
<1>7. CASE LandRead
  <2>1. land' = NoLand \/ land' = [land EXCEPT !.pc = "act", !.base = main]
    BY <1>7 DEF LandRead, LandReadFrom, LandEnds
  <2>2. land \in LandType
    BY <1>7, LandHere DEF LandRead
  <2> QED BY <1>0, <1>1, <2>1, <2>2 DEF LandShape, LandType
<1>8. CASE LandMerge
  BY <1>1, <1>3, <1>8, LandHere DEF LandMerge, Refused, LandEnds
<1>9. CASE LandRemove
  BY <1>1, <1>3, <1>9, LandHere DEF LandRemove
<1>10. CASE LandClear
  BY <1>1, <1>10 DEF LandClear, LandEnds
<1>11. CASE HandOff
  BY <1>1, <1>3, <1>11, LandHere DEF HandOff, Refused, LandEnds
<1>12. CASE HandOffHold
  BY <1>1, <1>3, <1>12, LandHere DEF HandOffHold
<1>13. CASE HandOffConfirm
  <2>1. land' = NoLand \/ land' = [land EXCEPT !.pc = "remove"]
    BY <1>13 DEF HandOffConfirm, ConfirmFrom, LandEnds
  <2> QED BY <1>1, <1>3, <1>13, <2>1, LandHere DEF HandOffConfirm
<1>14. CASE Reader
  BY <1>1, <1>14 DEF Reader, ReadFetch, ReadApply, ReadBegin
<1>15. CASE Environment
  BY <1>1, <1>15 DEF Environment, BaseMoves, Crash, AuthorPushes, ChecksFail, ThreadOpens, Closed, GitHubMerges,
                    GitHubEjects, MergedOutside, Merge, daemon
<1>16. CASE Landing
  BY <1>6, <1>7, <1>8, <1>9, <1>10, <1>11, <1>12, <1>13, <1>16 DEF Landing
<1> QED BY <1>4, <1>5, <1>14, <1>15, <1>16 DEF Next

(* Every step leaves the runner's place well formed.                       *)
LEMMA RunStep ==
    ASSUME Shapes, Next
    PROVE  RunShape'
<1>1. run' = run \/ run' = Idle => RunShape'
  BY DEF Shapes, RunShape, Idle
<1>2. ASSUME NEW n \in PRs, VerifyStart(n) PROVE RunShape'
  <2>1. rows[n].head \in Commits /\ main \in Nat
    BY <1>2, RowHere DEF VerifyStart, Queued, Shapes
  <2> QED BY <1>2, <2>1 DEF VerifyStart, RunShape
<1>3. ASSUME NEW n \in PRs, WatchMerged(n) PROVE RunShape'
  BY <1>3 DEF WatchMerged, RunShape
<1>4. CASE User
  BY <1>1, <1>4 DEF User, Pause, Resume, Dequeue, Retry, UserLands, LandStart, Enqueue
<1>5. CASE Runner
  BY <1>1, <1>2, <1>3, <1>5 DEF Runner, WatchMoved, WatchCleared, VerifyEnd, WatchLetGo, FailPushed, RunnerLands, LandStart
<1>6. CASE Landing
  BY <1>1, <1>6 DEF Landing, LandPush, LandRead, LandMerge, LandRemove, LandClear, HandOff, HandOffHold, HandOffConfirm
<1>7. CASE Reader
  BY <1>1, <1>7 DEF Reader, ReadFetch, ReadApply, ReadBegin
<1>8. CASE Environment
  BY <1>1, <1>8 DEF Environment, BaseMoves, Crash, AuthorPushes, ChecksFail, ThreadOpens, Closed, GitHubMerges,
                    GitHubEjects, MergedOutside, Merge, daemon
<1> QED BY <1>4, <1>5, <1>6, <1>7, <1>8 DEF Next

(* Every step leaves the read pass well formed.                            *)
LEMMA ReaderStep ==
    ASSUME Shapes, Next
    PROVE  ReaderShape'
<1>0. ReaderShape
  BY DEF Shapes
<1>1. reader' = reader => ReaderShape'
  BY <1>0 DEF ReaderShape
<1>2. ASSUME NEW n \in PRs, ReadBegin(n) PROVE ReaderShape'
  <2>1. rows[n].head \in Commits
    BY <1>2, RowHere DEF ReadBegin, Queued, Shapes
  <2>2. Loaded(n) \in LoadedType
    BY <2>1 DEF Loaded, LoadedType
  <2> QED BY <1>2, <2>2 DEF ReadBegin, ReaderShape
<1>3. CASE ReadFetch
  <2>1. reader \in [pc : {"ask"}, n : PRs, loaded : LoadedType, seen : {Unread}]
    BY <1>0, <1>3 DEF ReadFetch, ReaderShape
  <2>2. gh[reader.n] \in PullType
    BY <2>1, PullHere
  <2>3. \E s \in PullType \cup {ReadError} : reader' = [reader EXCEPT !.pc = "record", !.seen = s]
    BY <1>3, <2>2 DEF ReadFetch
  <2>4. PICK s \in PullType \cup {ReadError} : reader' = [reader EXCEPT !.pc = "record", !.seen = s]
    BY <2>3
  <2>5. reader' \in [pc : {"record"}, n : PRs, loaded : LoadedType, seen : PullType \cup {ReadError}]
    BY <2>1, <2>4
  <2> QED BY <2>5 DEF ReaderShape
<1>4. CASE ReadApply
  <2>1. reader.n \in PRs /\ PRs \subseteq Nat
    BY <1>0, <1>4, MergeQueueAssumption DEF ReadApply, ReaderShape
  <2> QED BY <1>4, <2>1 DEF ReadApply, NoRead, ReaderShape
<1>5. CASE Crash
  BY <1>5 DEF Crash, NoRead, ReaderShape
<1>6. CASE User
  BY <1>1, <1>6 DEF User, Pause, Resume, Dequeue, Retry, UserLands, LandStart, Enqueue
<1>7. CASE Runner
  BY <1>1, <1>7 DEF Runner, WatchMoved, WatchCleared, WatchMerged, VerifyStart, VerifyEnd, WatchLetGo, FailPushed,
                    RunnerLands, LandStart
<1>8. CASE Landing
  BY <1>1, <1>8 DEF Landing, LandPush, LandRead, LandMerge, LandRemove, LandClear, HandOff, HandOffHold, HandOffConfirm
<1>9. CASE Environment
  BY <1>1, <1>5, <1>9 DEF Environment, BaseMoves, AuthorPushes, ChecksFail, ThreadOpens, Closed, GitHubMerges,
                    GitHubEjects, MergedOutside, Merge, daemon
<1> QED BY <1>2, <1>3, <1>4, <1>6, <1>7, <1>8, <1>9 DEF Next, Reader

(* The pause, the base and the mode; and the history of what was tested,   *)
(* which only the end of a verification writes.                            *)
LEMMA RestStep ==
    ASSUME Shapes, Next
    PROVE  paused' \in BOOLEAN /\ main' \in Nat /\ mode' = mode /\ (~VerifyEnd => tested' = tested)
<1>0. paused \in BOOLEAN /\ main \in Nat /\ main + 1 \in Nat
  BY DEF Shapes
<1>1. CASE User
  BY <1>0, <1>1 DEF User, Pause, Resume, Dequeue, Retry, UserLands, LandStart, Enqueue, github
<1>2. CASE Runner
  BY <1>0, <1>2 DEF Runner, WatchMoved, WatchCleared, WatchMerged, VerifyStart, VerifyEnd, WatchLetGo, FailPushed,
                    RunnerLands, LandStart, github
<1>3. CASE Landing
  BY <1>0, <1>3 DEF Landing, LandPush, LandRead, LandMerge, LandRemove, LandClear, HandOff, HandOffHold,
                    HandOffConfirm, Refused, github
<1>4. CASE Reader
  BY <1>0, <1>4 DEF Reader, ReadFetch, ReadApply, ReadBegin, github
<1>5. CASE Environment
  BY <1>0, <1>5 DEF Environment, BaseMoves, Crash, AuthorPushes, ChecksFail, ThreadOpens, Closed, GitHubMerges,
                    GitHubEjects, MergedOutside, Merge, daemon, github
<1> QED BY <1>1, <1>2, <1>3, <1>4, <1>5 DEF Next

-----------------------------------------------------------------------------
(* The two steps that add to the rows                                      *)

(* A verification ends for a head that was fetched and a base.             *)
LEMMA VerifyEndRows ==
    ASSUME Shapes, VerifyEnd
    PROVE  /\ run.n \in PRs /\ run.head \in Commits /\ run.base \in Nat
           /\ \/ Reworked(rows, rows') /\ tested' = tested
              \/ /\ IsRows(rows') /\ DOMAIN rows' = DOMAIN rows
                 /\ \A m \in DOMAIN rows :
                       rows'[m].pos = rows[m].pos /\ rows'[m].dep = rows[m].dep /\ (m # run.n => rows'[m] = rows[m])
                 /\ run.n \in DOMAIN rows =>
                       rows'[run.n].ver = [base |-> run.base, head |-> run.head, verified |-> Commit(run.head.src, run.base)]
                 /\ tested' = [tested EXCEPT ![run.n] = @ \cup {Commit(run.head.src, run.base)}]
           /\ tested' \in [PRs -> SUBSET Commits]
<1> DEFINE n == run.n
           verified == Commit(run.head.src, run.base)
           v == [base |-> run.base, head |-> run.head, verified |-> verified]
           u == [rows[n] EXCEPT !.ver = v]
<1>1. n \in PRs /\ run.head \in Commits /\ run.base \in Nat
  <2>1. run.pc = "verify" /\ RunShape
    BY DEF Shapes, VerifyEnd
  <2>2. run \in [pc : {"verify"}, n : PRs, head : Commits, base : Nat]
    BY <2>1 DEF RunShape, Idle
  <2> QED BY <2>2
<1>2. verified \in Commits
  BY <1>1 DEF Commits, Commit
<1>3. v \in VerType
  BY <1>1, <1>2 DEF VerType
<1>4. IsRows(rows) /\ tested \in [PRs -> SUBSET Commits]
  BY DEF Shapes
<1>5. \/ rows' = Failed(rows, n, run.head) /\ tested' = tested
      \/ rows' = Updated(rows, n, u) /\ tested' = [tested EXCEPT ![n] = @ \cup {verified}]
  BY DEF VerifyEnd
<1>6. n \in DOMAIN rows => u \in RowType /\ u.pos = rows[n].pos /\ u.dep = rows[n].dep /\ u.ver = v
  <2> HIDE DEF v
  <2> QED BY <1>3, <1>4 DEF IsRows, RowType
<1>7. Reworked(rows, Failed(rows, n, run.head))
  BY <1>1, <1>4, FailedRows
<1> HIDE DEF u, v, verified
<1>8. rows' = Updated(rows, n, u) =>
        /\ IsRows(rows') /\ DOMAIN rows' = DOMAIN rows
        /\ \A m \in DOMAIN rows :
              rows'[m].pos = rows[m].pos /\ rows'[m].dep = rows[m].dep /\ (m # n => rows'[m] = rows[m])
        /\ n \in DOMAIN rows => rows'[n].ver = v
  BY <1>4, <1>6 DEF Updated, IsRows
<1>9. tested' \in [PRs -> SUBSET Commits]
  BY <1>2, <1>4, <1>5
<1> QED BY <1>1, <1>5, <1>7, <1>8, <1>9 DEF v, verified

(* The tail is behind every row.                                           *)
LEMMA TailIsLast ==
    ASSUME Shapes
    PROVE  NextPosition \in Nat /\ \A m \in Queued : rows[m].pos < NextPosition
<1> DEFINE f == [m \in Queued |-> rows[m].pos]
           S == {f[m] : m \in Queued}
           T == S \cup {0}
<1>0. IsRows(rows) /\ \A m \in Queued : rows[m].pos \in Nat
  BY RowHere DEF Shapes, Queued
<1>1. IsFiniteSet(Queued)
  <2>1. Queued \in SUBSET PRs /\ IsFiniteSet(PRs)
    BY <1>0, MergeQueueAssumption DEF IsRows, Queued
  <2> QED BY <2>1, FS_Subset
<1>2. IsFiniteSet(S)
  BY <1>1, ValuesFinite
<1>3. T \in SUBSET Nat /\ T # {} /\ IsFiniteSet(T) /\ \A m \in Queued : rows[m].pos \in T
  BY <1>0, <1>2, FS_AddElement
<1>4. T = {0} \cup {rows[m].pos : m \in Queued}
  OBVIOUS
<1> HIDE DEF T
<1>5. \E x \in T : \A y \in T : x >= y
  BY <1>3, GreatestExists
<1>6. Max(T) \in T /\ \A y \in T : Max(T) >= y
  BY <1>5 DEF Max
<1>7. NextPosition = 1 + Max(T)
  BY <1>4 DEF NextPosition
<1>8. ASSUME NEW m \in Queued PROVE rows[m].pos < 1 + Max(T)
  BY <1>0, <1>3, <1>6
<1>9. Max(T) \in Nat
  BY <1>3, <1>6
<1> QED BY <1>7, <1>8, <1>9

(* An enqueue: one row is new, or has a new dependency.                    *)
LEMMA EnqueueRows ==
    ASSUME Shapes, NEW n \in PRs, NEW d \in PRs \cup {0}, Enqueue(n, d)
    PROVE  /\ IsRows(rows') /\ DOMAIN rows' = DOMAIN rows \cup {n}
           /\ \A m \in DOMAIN rows \ {n} : rows'[m] = rows[m]
           /\ rows'[n].dep = d
           /\ n \notin DOMAIN rows => rows'[n].pos = NextPosition /\ rows'[n].ver = NoVerification
           /\ n \in DOMAIN rows => rows'[n].pos = rows[n].pos /\ rows'[n].ver = rows[n].ver
           /\ MayDepend(n, d)
<1>0. IsRows(rows) /\ gh[n] \in PullType /\ gh[n].head \in Commits /\ MayDepend(n, d)
  BY PullHere DEF Shapes, Enqueue
<1>1. CASE n \notin Queued
  <2>1. rows' = [m \in Queued \cup {n} |-> IF m = n THEN NewRow(n, d) ELSE rows[m]]
    BY <1>1 DEF Enqueue
  <2>2. FactsOf(gh[n], FALSE) \in FactsType
    BY <1>0, FactsTypes
  <2>3. NewRow(n, d) \in RowType /\ NewRow(n, d).dep = d /\ NewRow(n, d).pos = NextPosition /\ NewRow(n, d).ver = NoVerification
    BY <1>0, <2>2, CommitTypes, TailIsLast DEF NewRow, RowType
  <2>4. DOMAIN rows' = DOMAIN rows \cup {n} /\ rows'[n] = NewRow(n, d) /\ \A m \in DOMAIN rows : m # n => rows'[m] = rows[m]
    BY <1>1, <2>1 DEF Queued
  <2>5. rows' = [m \in DOMAIN rows' |-> rows'[m]]
    BY <2>1
  <2>6. IsRows(rows')
    BY <1>0, <1>1, <2>3, <2>4, <2>5 DEF IsRows, Queued
  <2> QED BY <1>0, <1>1, <2>3, <2>4, <2>6 DEF Queued
<1>2. CASE n \in Queued
  <2> DEFINE newer == rows[n].hold # NoCommit
             f == FactsOf(gh[n], newer)
             u == [rows[n] EXCEPT !.dep = d, !.head = gh[n].head, !.facts = f]
  <2>1. f \in FactsType
    BY <1>0, FactsTypes
  <2>2. rows' = [rows EXCEPT ![n] = u]
    BY <1>2 DEF Enqueue
  <2> HIDE DEF f
  <2>3. u \in RowType /\ u.dep = d /\ u.pos = rows[n].pos /\ u.ver = rows[n].ver
    BY <1>0, <1>2, <2>1 DEF IsRows, RowType, Queued
  <2> HIDE DEF u
  <2> QED BY <1>0, <1>2, <2>2, <2>3 DEF IsRows, Queued
<1> QED BY <1>1, <1>2

-----------------------------------------------------------------------------
(* The chain of dependencies                                               *)

(* What check_enqueue walks: the entries that wait for n, over any number  *)
(* of others.  All of them are found, and each waits for another of them.  *)
LEMMA BehindIsClosed ==
    ASSUME Shapes, NEW n
    PROVE  /\ n \in Behind(n) /\ Behind(n) \subseteq Queued \cup {n}
           /\ \A m \in Behind(n) : m = n \/ (m \in Queued /\ rows[m].dep \in Behind(n))
           /\ \A m \in Queued : rows[m].dep \in Behind(n) => m \in Behind(n)
<1> DEFINE C == Cardinality(Queued)
           All == Queued \cup {n}
           More(X) == X \cup {m \in Queued : rows[m].dep \in X}
           step == [p \in Nat \X SUBSET All |-> More(p[2])]
           Solves(g) == g = [k \in 0 .. C |-> IF k = 0 THEN {n}
                                ELSE g[k - 1] \cup {m \in Queued : rows[m].dep \in g[k - 1]}]
<1>0. IsFiniteSet(Queued)
  <2>1. Queued \in SUBSET PRs /\ IsFiniteSet(PRs)
    BY MergeQueueAssumption DEF Shapes, IsRows, Queued
  <2> QED BY <2>1, FS_Subset
<1>1. C \in Nat /\ IsFiniteSet(All) /\ Cardinality(All) \in Nat /\ Cardinality(All) <= C + 1
  <2>1. C \in Nat
    BY <1>0, FS_CardinalityType
  <2>2. IsFiniteSet(All) /\ Cardinality(All) = IF n \in Queued THEN C ELSE C + 1
    BY <1>0, FS_AddElement
  <2> HIDE DEF C, All
  <2> QED BY <2>1, <2>2
<1> DEFINE Parts == SUBSET All
<1>2. step \in [Nat \X Parts -> Parts]
  OBVIOUS
<1>3. {n} \in Parts
  OBVIOUS
<1> HIDE DEF C, All
<1>4. \E f : Iteration(f, Parts, {n}, step, C)
  <2> HIDE DEF step, Parts
  <2> QED BY <1>1, <1>2, <1>3, Iterates
<1>15. PICK f \in [0 .. C -> Parts] : f[0] = {n} /\ \A k \in 1 .. C : f[k] = step[<<k, f[k - 1]>>]
  <2> HIDE DEF step, Parts
  <2> QED BY <1>4 DEF Iteration
<1>5. f[0] = {n} /\ 0 \in 0 .. C /\ C \in 0 .. C /\ f[C] \in SUBSET All
  <2>1. 0 \in 0 .. C /\ C \in 0 .. C
    BY <1>1
  <2>2. f[0] = {n} /\ f[C] \in Parts
    <3> HIDE DEF step, Parts
    <3> QED BY <1>15, <2>1
  <2> QED BY <2>1, <2>2
<1>6. ASSUME NEW k \in 1 .. C PROVE f[k] = More(f[k - 1]) /\ f[k - 1] \in SUBSET All /\ k - 1 \in 0 .. C
  <2>1. k \in 0 .. C /\ k # 0 /\ k - 1 \in 0 .. C /\ k \in Nat
    BY <1>1, <1>6
  <2>2. f[k] = step[<<k, f[k - 1]>>] /\ f[k - 1] \in Parts
    <3> HIDE DEF step, Parts
    <3> QED BY <1>15, <2>1
  <2>3. step[<<k, f[k - 1]>>] = More(f[k - 1])
    BY <2>1, <2>2
  <2> QED BY <2>1, <2>2, <2>3
<1>7. Solves(f)
  <2>1. \A k \in 0 .. C : f[k] = IF k = 0 THEN {n} ELSE f[k - 1] \cup {m \in Queued : rows[m].dep \in f[k - 1]}
    BY <1>1, <1>5, <1>6
  <2> QED BY <2>1, f = [k \in 0 .. C |-> f[k]]
<1>8. Behind(n) = f[C]
  <2> DEFINE g == CHOOSE h : Solves(h)
  <2>1. Solves(g)
    BY <1>7
  <2>2. Behind(n) = g[C]
    BY DEF Behind, C
  <2> HIDE DEF g
  <2> DEFINE T == {k \in Nat : k \in 0 .. C => g[k] = f[k]}
  <2>3. 0 \in T
    BY <1>1, <1>5, <2>1
  <2>4. ASSUME NEW k \in Nat, k \in T PROVE k + 1 \in T
    <3> SUFFICES ASSUME k + 1 \in 0 .. C PROVE g[k + 1] = f[k + 1]
      OBVIOUS
    <3>1. k \in 0 .. C /\ k + 1 # 0 /\ (k + 1) - 1 = k /\ k + 1 \in 1 .. C
      BY <1>1
    <3>2. g[k] = f[k]
      BY <2>4, <3>1
    <3>3. g[k + 1] = g[k] \cup {m \in Queued : rows[m].dep \in g[k]}
      BY <2>1, <3>1
    <3>4. f[k + 1] = More(f[k])
      BY <1>6, <3>1
    <3> QED BY <3>2, <3>3, <3>4
  <2> HIDE DEF T
  <2>5. C \in T
    BY <1>1, <2>3, <2>4, SetInduction
  <2> QED BY <1>1, <2>2, <2>5 DEF T
<1> DEFINE Full(X) == More(X) = X
           Kept(k) == /\ n \in f[k]
                      /\ \A m \in f[k] : m = n \/ (m \in Queued /\ rows[m].dep \in f[k])
                      /\ Full(f[k]) \/ Cardinality(f[k]) >= k + 1
           T == {k \in Nat : k \in 0 .. C => Kept(k)}
<1>9. 0 \in T
  <2>1. Cardinality({n}) = 1
    BY FS_Singleton
  <2>2. Kept(0)
    BY <1>5, <2>1
  <2> QED BY <2>2
<1>10. ASSUME NEW k \in Nat, k \in T PROVE k + 1 \in T
  <2> SUFFICES ASSUME k + 1 \in 0 .. C PROVE Kept(k + 1)
    OBVIOUS
  <2>1. k \in 0 .. C /\ k + 1 \in 1 .. C /\ (k + 1) - 1 = k
    BY <1>1
  <2>2. Kept(k) /\ f[k + 1] = More(f[k]) /\ f[k] \in SUBSET All /\ f[k + 1] \in SUBSET All
    BY <1>15, <1>6, <1>10, <2>1
  <2>3. n \in f[k + 1] /\ \A m \in f[k + 1] : m = n \/ (m \in Queued /\ rows[m].dep \in f[k + 1])
    BY <2>2
  <2>4. CASE Full(f[k])
    BY <2>2, <2>3, <2>4
  <2>5. CASE ~Full(f[k])
    <3>1. Cardinality(f[k]) >= k + 1 /\ f[k] \subseteq f[k + 1] /\ f[k] # f[k + 1]
      BY <2>2, <2>5
    <3>2. IsFiniteSet(f[k + 1]) /\ IsFiniteSet(f[k])
      BY <1>1, <2>2, FS_Subset
    <3>3. Cardinality(f[k]) \in Nat /\ Cardinality(f[k + 1]) \in Nat
      BY <3>2, FS_CardinalityType
    <3>4. Cardinality(f[k]) <= Cardinality(f[k + 1]) /\ Cardinality(f[k + 1]) # Cardinality(f[k])
      BY <3>1, <3>2, FS_Subset
    <3>5. Cardinality(f[k + 1]) >= (k + 1) + 1
      BY <3>1, <3>3, <3>4
    <3> QED BY <2>3, <3>5
  <2> QED BY <2>4, <2>5
<1> HIDE DEF T
<1>11. C \in T
  BY <1>1, <1>9, <1>10, SetInduction
<1>12. Kept(C)
  BY <1>1, <1>11 DEF T
<1>13. Full(f[C])
  <2> SUFFICES ASSUME Cardinality(f[C]) >= C + 1 PROVE Full(f[C])
    BY <1>12
  <2>1. f[C] \in SUBSET All
    BY <1>5
  <2>2. Cardinality(f[C]) <= Cardinality(All) /\ (Cardinality(f[C]) = Cardinality(All) => f[C] = All)
    BY <1>1, <2>1, FS_Subset
  <2>3. IsFiniteSet(f[C]) /\ Cardinality(f[C]) \in Nat
    BY <1>1, <2>1, FS_Subset, FS_CardinalityType
  <2>4. f[C] = All
    BY <1>1, <2>2, <2>3
  <2> QED BY <2>4 DEF All
<1>14. f[C] \subseteq Queued \cup {n}
  BY <1>5 DEF All
<1> QED BY <1>8, <1>12, <1>13, <1>14

(* No cycle: of any of the rows, one waits for none of them.               *)
Grounded(rs) == \A S \in SUBSET DOMAIN rs : S # {} => \E m \in S : rs[m].dep \notin S

(* No two rows share a place.                                              *)
Apart(rs) == \A n, m \in DOMAIN rs : n # m => rs[n].pos # rs[m].pos

(* A verification is of the rebased head, and the command passed on it.    *)
Backed(rs, ts) ==
    \A n \in DOMAIN rs : rs[n].ver # NoVerification =>
        /\ rs[n].ver.verified = Commit(rs[n].ver.head.src, rs[n].ver.base)
        /\ rs[n].ver.verified \in ts[n]

(* Reworked rows stay grounded, apart and backed: what they lose is a      *)
(* dependency or a verification, never a place.                            *)
LEMMA ReworkedKeeps ==
    ASSUME NEW rs, NEW new, NEW ts, Reworked(rs, new), Grounded(rs), Apart(rs), Backed(rs, ts)
    PROVE  Grounded(new) /\ Apart(new) /\ Backed(new, ts)
<1>1. DOMAIN new \subseteq DOMAIN rs /\ 0 \notin DOMAIN new
  BY MergeQueueAssumption DEF Reworked, IsRows
<1>2. Grounded(new)
  BY <1>1 DEF Grounded, Reworked
<1>3. Apart(new)
  BY <1>1 DEF Apart, Reworked
<1>4. Backed(new, ts)
  BY <1>1 DEF Backed, Reworked
<1> QED BY <1>2, <1>3, <1>4

(* An enqueue may name what the chain of the entry does not lead back to.  *)
LEMMA EnqueueKeeps ==
    ASSUME Shapes, Grounded(rows), Apart(rows), Backed(rows, tested),
           NEW n \in PRs, NEW d \in PRs \cup {0}, Enqueue(n, d)
    PROVE  Grounded(rows') /\ Apart(rows') /\ Backed(rows', tested)
<1>1. /\ DOMAIN rows' = DOMAIN rows \cup {n} /\ rows'[n].dep = d /\ MayDepend(n, d)
      /\ \A m \in DOMAIN rows \ {n} : rows'[m] = rows[m]
  BY EnqueueRows
<1>2. /\ n \notin DOMAIN rows => rows'[n].pos = NextPosition /\ rows'[n].ver = NoVerification
      /\ n \in DOMAIN rows => rows'[n].pos = rows[n].pos /\ rows'[n].ver = rows[n].ver
  BY EnqueueRows
<1>3. Grounded(rows')
  <2> SUFFICES ASSUME NEW S \in SUBSET DOMAIN rows', S # {}, \A m \in S : rows'[m].dep \in S
               PROVE  FALSE
    BY DEF Grounded
  <2>1. CASE n \notin S
    BY <1>1, <2>1 DEF Grounded
  <2>2. CASE n \in S
    <3> DEFINE B == Behind(n)
               U == S \ B
    <3>1. n \in B /\ \A m \in Queued : rows[m].dep \in B => m \in B
      BY BehindIsClosed
    <3>2. 0 \notin S
      BY <1>1, MergeQueueAssumption DEF Shapes, IsRows
    <3>3. d \in S /\ d \in Queued /\ d \notin B
      BY <1>1, <2>2, <3>2 DEF MayDepend
    <3> HIDE DEF B
    <3>4. U \in SUBSET DOMAIN rows /\ U # {} /\ n \notin U
      BY <1>1, <3>1, <3>3
    <3>5. PICK m \in U : rows[m].dep \notin U
      BY <3>4 DEF Grounded
    <3>6. rows[m].dep \in S
      BY <1>1, <3>4, <3>5
    <3> QED BY <3>1, <3>4, <3>5, <3>6 DEF Queued
  <2> QED BY <2>1, <2>2
<1>4. Apart(rows')
  <2>1. NextPosition \in Nat /\ \A m \in DOMAIN rows : rows[m].pos \in Nat /\ rows[m].pos < NextPosition
    BY TailIsLast, RowHere DEF Shapes, Queued
  <2>2. \A m \in DOMAIN rows : rows[m].pos # NextPosition
    BY <2>1
  <2> QED BY <1>1, <1>2, <2>2 DEF Apart
<1>5. Backed(rows', tested)
  BY <1>1, <1>2 DEF Backed
<1> QED BY <1>3, <1>4, <1>5

(* A verification that passed is of the commit it was run on.              *)
LEMMA VerifyEndKeeps ==
    ASSUME Shapes, Grounded(rows), Apart(rows), Backed(rows, tested), VerifyEnd
    PROVE  Grounded(rows') /\ Apart(rows') /\ Backed(rows', tested')
<1>1. CASE Reworked(rows, rows') /\ tested' = tested
  BY <1>1, ReworkedKeeps
<1>2. CASE ~(Reworked(rows, rows') /\ tested' = tested)
  <2> DEFINE n == run.n
             c == Commit(run.head.src, run.base)
             v == [base |-> run.base, head |-> run.head, verified |-> c]
  <2>1. /\ n \in PRs /\ DOMAIN rows' = DOMAIN rows
        /\ \A m \in DOMAIN rows :
              rows'[m].pos = rows[m].pos /\ rows'[m].dep = rows[m].dep /\ (m # n => rows'[m] = rows[m])
        /\ n \in DOMAIN rows => rows'[n].ver = v
        /\ tested' = [tested EXCEPT ![n] = @ \cup {c}]
    BY <1>2, VerifyEndRows
  <2>2. tested \in [PRs -> SUBSET Commits] /\ DOMAIN rows \subseteq PRs
    BY DEF Shapes, IsRows
  <2>3. Grounded(rows') /\ Apart(rows')
    BY <2>1 DEF Grounded, Apart
  <2>4. ASSUME NEW m \in DOMAIN rows', rows'[m].ver # NoVerification
        PROVE  /\ rows'[m].ver.verified = Commit(rows'[m].ver.head.src, rows'[m].ver.base)
               /\ rows'[m].ver.verified \in tested'[m]
    <3>1. tested[m] \subseteq tested'[m] /\ (m = n => c \in tested'[m])
      BY <2>1, <2>2
    <3>2. CASE m = n
      <4>1. rows'[m].ver = v
        BY <2>1, <2>4, <3>2
      <4> QED BY <3>1, <3>2, <4>1
    <3>3. CASE m # n
      BY <2>1, <2>4, <3>1, <3>3 DEF Backed
    <3> QED BY <3>2, <3>3
  <2> QED BY <2>3, <2>4 DEF Backed
<1> QED BY <1>1, <1>2

-----------------------------------------------------------------------------
(* The landing carries what was tested                                     *)

LandTested ==
    land.pc \in {"push", "read", "act"} =>
        LET tree == Commit(land.target.src, land.base)
        IN  /\ tree \in tested[land.n] /\ (mode # "queue" => land.target = tree)
            /\ land.target.src = land.head.src

MergeInv == Shapes /\ Grounded(rows) /\ Apart(rows) /\ Backed(rows, tested) /\ LandTested

(* A landing begins with a verification that holds for the head: it is of  *)
(* what the author wrote, rebased, and the command passed on that.         *)
LEMMA LandStartTested ==
    ASSUME MergeInv, NEW n \in PRs, NEW who, LandStart(n, who), land' # land
    PROVE  /\ land'.n = n /\ land'.target.src = land'.head.src
           /\ Commit(land'.target.src, land'.base) \in tested[n]
           /\ mode # "queue" => land'.target = Commit(land'.target.src, land'.base)
<1> DEFINE r == rows[n]
           target == IF mode = "queue" THEN r.head ELSE r.ver.verified
           pc == IF target = r.head THEN "read" ELSE "push"
<1>1. n \in DOMAIN rows /\ VerificationHolds(r)
  BY DEF LandStart, Queued
<1>2. r.ver \in VerType /\ r.head \in Commits
  BY <1>1, RowHere DEF MergeInv, Shapes
<1>3. r.ver.head.src \in Nat /\ r.ver.base \in Nat
  BY <1>2 DEF VerType, Commits
<1>4. r.ver.verified = Commit(r.ver.head.src, r.ver.base) /\ r.ver.verified \in tested[n]
  BY <1>1 DEF MergeInv, Backed, VerificationHolds
<1>5. r.ver.verified.src = r.ver.head.src
  BY <1>3, <1>4, CommitTypes
<1>6. r.head.src = r.ver.head.src /\ target.src = r.ver.head.src
  BY <1>1, <1>5 DEF VerificationHolds
<1>7. land' = [pc |-> pc, who |-> who, n |-> n, head |-> r.head, base |-> r.ver.base, target |-> target,
               dep |-> r.dep, held |-> GitHubHolds(r)]
  BY DEF LandStart
<1>8. mode # "queue" => target = r.ver.verified
  OBVIOUS
<1> HIDE DEF r, target, pc
<1>9. land'.n = n /\ land'.head = r.head /\ land'.base = r.ver.base /\ land'.target = target
  BY <1>7
<1> QED BY <1>4, <1>6, <1>8, <1>9

(* A landing keeps being about a head that was verified, whatever the      *)
(* others do meanwhile.                                                    *)
LEMMA LandTestedStep ==
    ASSUME MergeInv, Next
    PROVE  LandTested'
<1>0. Shapes /\ LandTested
  BY DEF MergeInv
<1>1. mode' = mode /\ \A n \in PRs : tested[n] \subseteq tested'[n]
  <2>1. mode' = mode /\ (~VerifyEnd => tested' = tested) /\ tested \in [PRs -> SUBSET Commits]
    BY <1>0, RestStep DEF Shapes
  <2>2. CASE VerifyEnd
    <3>1. tested' = tested \/ \E n \in PRs : \E c : tested' = [tested EXCEPT ![n] = @ \cup {c}]
      BY <1>0, <2>2, VerifyEndRows
    <3> QED BY <2>1, <3>1
  <2> QED BY <2>1, <2>2
<1>2. ASSUME land.pc \in {"push", "read", "act"} PROVE land.n \in PRs
  BY <1>0, <1>2, LandHere
<1>3. ASSUME land' = land PROVE LandTested'
  BY <1>0, <1>1, <1>2, <1>3 DEF LandTested
<1>4. ASSUME land'.pc \notin {"push", "read", "act"} PROVE LandTested'
  BY <1>4 DEF LandTested
<1>5. ASSUME land' = NoLand PROVE LandTested'
  BY <1>4, <1>5 DEF NoLand
<1>6. ASSUME NEW n \in PRs, NEW who, LandStart(n, who) PROVE LandTested'
  BY <1>1, <1>3, <1>6, LandStartTested DEF LandTested
<1>7. ASSUME NEW pc, land \in LandType, land' = [land EXCEPT !.pc = pc], pc \notin {"push", "read", "act"}
      PROVE  LandTested'
  <2>1. land'.pc = pc
    BY <1>7 DEF LandType
  <2> QED BY <1>4, <1>7, <2>1
<1>8. ASSUME land \in LandType, land.pc \in {"push", "read", "act"}, NEW pc, land' = [land EXCEPT !.pc = pc]
      PROVE  LandTested'
  <2>1. land'.n = land.n /\ land'.head = land.head /\ land'.target = land.target /\ land'.base = land.base
    BY <1>8 DEF LandType
  <2> QED BY <1>0, <1>1, <1>2, <1>8, <2>1 DEF LandTested
<1>9. CASE User
  <2>1. land' = land \/ \E n \in PRs : LandStart(n, "user")
    BY <1>9 DEF User, Pause, Resume, Dequeue, Retry, UserLands, Enqueue
  <2> QED BY <1>3, <1>6, <2>1
<1>10. CASE Runner
  <2>1. land' = land \/ \E n \in PRs : LandStart(n, "runner")
    BY <1>10 DEF Runner, WatchMoved, WatchCleared, VerifyEnd, WatchMerged, WatchLetGo, FailPushed, VerifyStart,
                RunnerLands
  <2> QED BY <1>3, <1>6, <2>1
<1>11. CASE LandPush
  BY <1>0, <1>5, <1>8, <1>11, LandHere DEF LandPush, LandEnds
<1>12. CASE LandRead
  <2>1. land' = NoLand \/ (land.base = main /\ land' = [land EXCEPT !.pc = "act", !.base = main])
    BY <1>12 DEF LandRead, LandReadFrom, LandEnds, BaseHolds
  <2>2. land \in LandType /\ land.pc = "read"
    BY <1>0, <1>12, LandHere DEF LandRead
  <2>3. ASSUME land.base = main, land' = [land EXCEPT !.pc = "act", !.base = main] PROVE LandTested'
    <3>1. land' = [land EXCEPT !.pc = "act"]
      BY <2>2, <2>3 DEF LandType
    <3> QED BY <1>8, <2>2, <3>1
  <2> QED BY <1>5, <2>1, <2>3
<1>13. CASE LandMerge
  BY <1>0, <1>5, <1>7, <1>13, LandHere DEF LandMerge, Refused, LandEnds
<1>14. CASE LandRemove
  BY <1>0, <1>7, <1>14, LandHere DEF LandRemove
<1>15. CASE LandClear
  BY <1>5, <1>15 DEF LandClear, LandEnds
<1>16. CASE HandOff
  BY <1>0, <1>5, <1>7, <1>16, LandHere DEF HandOff, Refused, LandEnds
<1>17. CASE HandOffHold
  BY <1>0, <1>7, <1>17, LandHere DEF HandOffHold
<1>18. CASE HandOffConfirm
  <2>1. land' = NoLand \/ land' = [land EXCEPT !.pc = "remove"]
    BY <1>18 DEF HandOffConfirm, ConfirmFrom, LandEnds
  <2>2. land \in LandType
    BY <1>0, <1>18, LandHere DEF HandOffConfirm
  <2> QED BY <1>5, <1>7, <2>1, <2>2
<1>19. CASE Reader
  BY <1>3, <1>19 DEF Reader, ReadFetch, ReadApply, ReadBegin
<1>20. CASE Environment
  BY <1>3, <1>5, <1>20 DEF Environment, BaseMoves, Crash, AuthorPushes, ChecksFail, ThreadOpens, Closed, GitHubMerges,
                    GitHubEjects, MergedOutside, Merge, daemon
<1>21. CASE Landing
  BY <1>11, <1>12, <1>13, <1>14, <1>15, <1>16, <1>17, <1>18, <1>21 DEF Landing
<1> QED BY <1>9, <1>10, <1>19, <1>20, <1>21 DEF Next

-----------------------------------------------------------------------------
(* The invariant                                                           *)

LEMMA MergeInit == Init => MergeInv
<1> SUFFICES ASSUME Init PROVE MergeInv
  OBVIOUS
<1>0. PICK dep \in [PRs -> PRs \cup {0}] :
         /\ \A n \in PRs : dep[n] < n
         /\ rows = [n \in PRs |-> [pos |-> n, head |-> gh[n].head, dep |-> dep[n], facts |-> FactsOf(gh[n], FALSE),
                                   ver |-> NoVerification, failure |-> NoCommit, hold |-> NoCommit]]
  BY DEF Init
<1>1. NewPull \in PullType
  BY DEF NewPull, PullType, Commits, Commit
<1>2. gh \in [PRs -> PullType] /\ \A n \in PRs : gh[n] \in PullType /\ gh[n].head \in Commits
  BY <1>1 DEF Init, PullType
<1>3. \A n \in PRs : FactsOf(gh[n], FALSE) \in FactsType
  BY <1>2, FactsTypes
<1>4. ASSUME NEW n \in PRs
      PROVE  rows[n] \in RowType /\ rows[n].pos = n /\ rows[n].dep = dep[n] /\ rows[n].ver = NoVerification
  BY <1>0, <1>2, <1>3, <1>4, CommitTypes, MergeQueueAssumption DEF RowType
<1>5. IsRows(rows) /\ DOMAIN rows = PRs
  BY <1>0, <1>4 DEF IsRows
<1>6. Shapes
  <2>1. RunShape /\ LandShape /\ paused \in BOOLEAN /\ main \in Nat /\ mode \in Modes
    BY DEF Init, RunShape, LandShape
  <2>2. ReaderShape
    BY DEF Init, ReaderShape, NoRead
  <2>3. faults \in 0 .. MaxFaults
    BY MergeQueueAssumption DEF Init
  <2>4. tested \in [PRs -> SUBSET Commits]
    BY DEF Init
  <2> QED BY <1>2, <1>5, <2>1, <2>2, <2>3, <2>4 DEF Shapes
<1>7. Grounded(rows)
  <2> SUFFICES ASSUME NEW S \in SUBSET PRs, S # {} PROVE \E m \in S : rows[m].dep \notin S
    BY <1>5 DEF Grounded
  <2>1. PICK m \in S : \A k \in S : m <= k
    <3>1. S \in SUBSET Nat
      BY MergeQueueAssumption
    <3> QED BY <3>1, LeastExists
  <2>2. dep[m] < m /\ rows[m].dep = dep[m] /\ m \in Nat /\ dep[m] \in Nat
    <3>1. m \in PRs /\ m \in Nat /\ dep[m] \in PRs \cup {0} /\ PRs \subseteq Nat
      BY MergeQueueAssumption
    <3>2. dep[m] < m /\ rows[m].dep = dep[m]
      BY <1>0, <1>4, <3>1
    <3>3. dep[m] \in Nat
      <4>1. \A x \in PRs \cup {0} : x \in Nat
        BY MergeQueueAssumption
      <4> QED BY <3>1, <4>1
    <3> QED BY <3>1, <3>2, <3>3
  <2>3. dep[m] \notin S
    BY <2>1, <2>2
  <2> QED BY <2>2, <2>3
<1>8. Apart(rows) /\ Backed(rows, tested)
  <2>1. \A n \in DOMAIN rows : rows[n].pos = n /\ rows[n].ver = NoVerification
    BY <1>4, <1>5
  <2> QED BY <2>1 DEF Apart, Backed
<1>9. LandTested
  BY DEF Init, NoLand, LandTested
<1> QED BY <1>6, <1>7, <1>8, <1>9 DEF MergeInv

(* The invariant is inductive.                                             *)
LEMMA MergeStep == MergeInv /\ [Next]_vars => MergeInv'
<1> SUFFICES ASSUME MergeInv, [Next]_vars PROVE MergeInv'
  OBVIOUS
<1>0. Shapes /\ Grounded(rows) /\ Apart(rows) /\ Backed(rows, tested) /\ LandTested
  BY DEF MergeInv
<1>1. CASE Next
  <2>1. PushKeepsWork
    BY <1>0 DEF PushKeepsWork, LandTested
  <2>2. gh' \in [PRs -> PullType] /\ faults' \in 0 .. MaxFaults /\ LandShape' /\ RunShape' /\ ReaderShape'
    BY <1>0, <1>1, <2>1, PullsStep, FaultsStep, LandStep, RunStep, ReaderStep
  <2>3. paused' \in BOOLEAN /\ main' \in Nat /\ mode' = mode /\ (~VerifyEnd => tested' = tested)
    BY <1>0, <1>1, RestStep
  <2>4. CASE VerifyEnd
    <3>1. IsRows(rows') /\ tested' \in [PRs -> SUBSET Commits]
      BY <1>0, <2>4, VerifyEndRows DEF Reworked
    <3>2. Grounded(rows') /\ Apart(rows') /\ Backed(rows', tested')
      BY <1>0, <2>4, VerifyEndKeeps
    <3> QED BY <1>0, <1>1, <2>2, <2>3, <3>1, <3>2, LandTestedStep DEF MergeInv, Shapes
  <2>5. CASE ~VerifyEnd
    <3>1. tested' = tested /\ tested' \in [PRs -> SUBSET Commits]
      BY <1>0, <2>3, <2>5 DEF Shapes
    <3>2. IsRows(rows') /\ Grounded(rows') /\ Apart(rows') /\ Backed(rows', tested)
      <4>1. Reworked(rows, rows') \/ \E n \in PRs, d \in PRs \cup {0} : Enqueue(n, d)
        BY <1>0, <1>1, <2>5, RowsChange
      <4>2. CASE Reworked(rows, rows')
        BY <1>0, <4>2, ReworkedKeeps DEF Reworked
      <4>3. CASE \E n \in PRs, d \in PRs \cup {0} : Enqueue(n, d)
        BY <1>0, <4>3, EnqueueKeeps, EnqueueRows
      <4> QED BY <4>1, <4>2, <4>3
    <3> QED BY <1>0, <1>1, <2>2, <2>3, <3>1, <3>2, LandTestedStep DEF MergeInv, Shapes
  <2> QED BY <2>4, <2>5
<1>2. CASE UNCHANGED vars
  <2>1. /\ rows' = rows /\ paused' = paused /\ run' = run /\ land' = land /\ reader' = reader /\ gh' = gh
        /\ main' = main /\ mode' = mode /\ faults' = faults /\ tested' = tested
    BY <1>2 DEF vars, daemon, github
  <2>2. Shapes'
    BY <1>0, <2>1 DEF Shapes, RunShape, LandShape, ReaderShape
  <2>3. Grounded(rows') /\ Apart(rows') /\ Backed(rows', tested')
    BY <1>0, <2>1
  <2>4. LandTested'
    BY <1>0, <2>1 DEF LandTested
  <2> QED BY <2>2, <2>3, <2>4 DEF MergeInv
<1> QED BY <1>1, <1>2

(* The inductive invariant holds in every reachable state.                 *)
LEMMA MergeInvariant == Spec => []MergeInv
<1>1. Init => MergeInv
  BY MergeInit
<1>2. MergeInv /\ [Next]_vars => MergeInv'
  BY MergeStep
<1> QED BY <1>1, <1>2, PTL DEF Spec

(* The rows are rows of queued pull requests, no two in one place, and no  *)
(* chain of dependencies leads back to where it began, whatever was        *)
(* enqueued again, removed or merged in between: the fallback of `order`   *)
(* for a cycle is never needed.                                            *)
THEOREM TypeCorrect == Spec => []TypeOK
<1>1. MergeInv => TypeOK
  <2> SUFFICES ASSUME MergeInv PROVE TypeOK
    OBVIOUS
  <2>0. Shapes /\ Grounded(rows) /\ Apart(rows)
    BY DEF MergeInv
  <2>1. ASSUME NEW n \in Queued PROVE rows[n].dep \notin Behind(n)
    <3>1. /\ n \in Behind(n) /\ Behind(n) \subseteq Queued
          /\ \A m \in Behind(n) : m = n \/ rows[m].dep \in Behind(n)
      BY <2>0, <2>1, BehindIsClosed
    <3>2. PICK m \in Behind(n) : rows[m].dep \notin Behind(n)
      BY <2>0, <3>1 DEF Grounded, Queued
    <3> QED BY <3>1, <3>2
  <2>2. ASSUME NEW n \in Queued
        PROVE  {rows[n].head, rows[n].failure, rows[n].hold} \subseteq Commits /\ rows[n].dep \in PRs \cup {0}
    BY <2>0, <2>2, RowHere DEF Shapes, Queued
  <2>3. \A n \in PRs : gh[n].head \in Commits /\ tested[n] \subseteq Commits
    BY <2>0, PullHere DEF Shapes
  <2>4. \A n \in Queued : \A m \in Queued \ {n} : rows[m].pos # rows[n].pos
    BY <2>0 DEF Apart, Queued
  <2> QED BY <2>0, <2>1, <2>2, <2>3, <2>4 DEF TypeOK, Shapes, IsRows, Queued
<1> QED BY <1>1, MergeInvariant, PTL

(* Tested equals merged, for any number of entries and of pushes, moves of *)
(* the base, crashes and late reads in between: when the merge or the      *)
(* hand-off is asked for, the command has passed on that very tree.        *)
THEOREM MergesTested == Spec => []MergesWhatWasTested
<1>1. MergeInv => MergesWhatWasTested
  BY DEF MergeInv, LandTested, MergesWhatWasTested
<1> QED BY <1>1, MergeInvariant, PTL

(* The push of a landing never takes an author's branch back.              *)
THEOREM WorkKept == Spec => NoWorkLost
<1>1. MergeInv /\ [Next]_vars => [\A n \in PRs : gh'[n].head.src >= gh[n].head.src]_gh
  <2> SUFFICES ASSUME MergeInv, [Next]_vars, gh' # gh
               PROVE  \A n \in PRs : gh'[n].head.src >= gh[n].head.src
    OBVIOUS
  <2>1. Next
    BY DEF vars, github
  <2>2. Shapes /\ PushKeepsWork
    BY DEF MergeInv, LandTested, PushKeepsWork
  <2> QED BY <2>1, <2>2, PullsStep
<1> QED BY <1>1, MergeInvariant, PTL DEF Spec, NoWorkLost

-----------------------------------------------------------------------------
(* The order, and the line                                                 *)

(* The row in the first place of some.                                     *)
LEMMA FirstIsOne ==
    ASSUME NEW rs, IsRows(rs), NEW S \in SUBSET DOMAIN rs, S # {}
    PROVE  First(rs, S) \in S
<1> DEFINE P == {rs[m].pos : m \in S}
<1>1. P \in SUBSET Nat /\ P # {}
  BY RowHere
<1>2. PICK x \in P : \A y \in P : x <= y
  BY <1>1, LeastExists
<1>3. PICK n \in S : rs[n].pos = x
  BY <1>2
<1>4. \A m \in S : rs[n].pos <= rs[m].pos
  BY <1>2, <1>3
<1> QED BY <1>3, <1>4 DEF First

(* Of rows without a cycle, the next in order waits for none that is left. *)
LEMMA NextIsFree ==
    ASSUME NEW rs, IsRows(rs), Grounded(rs), NEW s, DOMAIN rs \ Range(s) # {}
    PROVE  LET n == NextInOrder(rs, s)
           IN  /\ n \in DOMAIN rs \ Range(s)
               /\ rs[n].dep \in DOMAIN rs => rs[n].dep \in Range(s)
<1> DEFINE left == DOMAIN rs \ Range(s)
           free == {n \in left : rs[n].dep \notin left}
<1>1. free # {} /\ free \in SUBSET DOMAIN rs
  BY DEF Grounded
<1>2. NextInOrder(rs, s) = First(rs, free)
  BY <1>1 DEF NextInOrder
<1>3. First(rs, free) \in free
  <2> HIDE DEF free
  <2> QED BY <1>1, FirstIsOne
<1> QED BY <1>2, <1>3

(* The order is of rows, and each is behind the one it depends on.         *)
LEMMA OrderFacts ==
    ASSUME NEW rs, IsRows(rs), Grounded(rs)
    PROVE  /\ Order(rs) \in Seq(DOMAIN rs)
           /\ \A i \in 1 .. Len(Order(rs)) :
                 rs[Order(rs)[i]].dep \in DOMAIN rs => \E j \in 1 .. i - 1 : Order(rs)[j] = rs[Order(rs)[i]].dep
<1> DEFINE D == DOMAIN rs
           C == Cardinality(D)
           Solves(g) == g = [k \in 0 .. C |-> IF k = 0 THEN << >>
                                ELSE Append(g[k - 1], NextInOrder(rs, g[k - 1]))]
           X == D \cup {First(rs, {})}
           Sofar == Seq(X)
           step == [p \in Nat \X Sofar |-> Append(p[2], NextInOrder(rs, p[2]))]
<1>0. IsFiniteSet(D) /\ C \in Nat
  <2>1. D \in SUBSET PRs /\ IsFiniteSet(PRs)
    BY MergeQueueAssumption DEF IsRows
  <2> QED BY <2>1, FS_Subset, FS_CardinalityType
<1> HIDE DEF C
<1>1. ASSUME NEW s \in Sofar PROVE Append(s, NextInOrder(rs, s)) \in Sofar
  <2> DEFINE left == D \ Range(s)
             free == {n \in left : rs[n].dep \notin left}
             some == IF free = {} THEN left ELSE free
  <2>1. NextInOrder(rs, s) = First(rs, some) /\ some \in SUBSET D
    BY DEF NextInOrder
  <2> HIDE DEF some
  <2>2. First(rs, some) \in X
    BY <2>1, FirstIsOne
  <2>3. NextInOrder(rs, s) \in X
    BY <2>1, <2>2
  <2> HIDE DEF X
  <2> QED BY <1>1, <2>3
<1>2. step \in [Nat \X Sofar -> Sofar] /\ << >> \in Sofar
  <2>1. \A p \in Nat \X Sofar : step[p] \in Sofar
    <3> HIDE DEF Sofar
    <3> QED BY <1>1
  <2>2. << >> \in Sofar
    <3> HIDE DEF X
    <3> QED OBVIOUS
  <2> HIDE DEF Sofar
  <2> QED BY <2>1, <2>2
<1>3. \E f : Iteration(f, Sofar, << >>, step, C)
  <2> HIDE DEF step, Sofar
  <2> QED BY <1>0, <1>2, Iterates
<1>4. PICK f \in [0 .. C -> Sofar] : f[0] = << >> /\ \A k \in 1 .. C : f[k] = step[<<k, f[k - 1]>>]
  <2> HIDE DEF step, Sofar
  <2> QED BY <1>3 DEF Iteration
<1>5. ASSUME NEW k \in Nat, k + 1 \in 0 .. C
      PROVE  /\ f[k + 1] = Append(f[k], NextInOrder(rs, f[k])) /\ f[k] \in Sofar
             /\ k \in 0 .. C /\ k < C /\ (k + 1) - 1 = k
  <2>1. k \in 0 .. C /\ k < C /\ (k + 1) - 1 = k /\ k + 1 \in 1 .. C /\ k + 1 \in Nat
    BY <1>0, <1>5
  <2>2. f[k + 1] = step[<<k + 1, f[k]>>] /\ f[k] \in Sofar
    <3> HIDE DEF step, Sofar
    <3> QED BY <1>4, <2>1
  <2>3. step[<<k + 1, f[k]>>] = Append(f[k], NextInOrder(rs, f[k]))
    <3> HIDE DEF Sofar
    <3> QED BY <2>1, <2>2
  <2> QED BY <2>1, <2>2, <2>3
<1> HIDE DEF step, Sofar
<1>6. Solves(f)
  <2>1. ASSUME NEW k \in 0 .. C
        PROVE  f[k] = IF k = 0 THEN << >> ELSE Append(f[k - 1], NextInOrder(rs, f[k - 1]))
    <3>1. CASE k = 0
      BY <1>4, <3>1
    <3>2. CASE k # 0
      <4>1. k - 1 \in Nat /\ (k - 1) + 1 = k
        BY <1>0, <2>1, <3>2
      <4> QED BY <1>5, <2>1, <3>2, <4>1
    <3> QED BY <3>1, <3>2
  <2> QED BY <2>1, f = [k \in 0 .. C |-> f[k]]
<1>7. Order(rs) = f[C]
  <2> DEFINE g == CHOOSE h : Solves(h)
  <2>1. Solves(g)
    BY <1>6
  <2>2. Order(rs) = g[C]
    BY DEF Order, C
  <2> HIDE DEF g
  <2> DEFINE T == {k \in Nat : k \in 0 .. C => g[k] = f[k]}
  <2>3. 0 \in T
    <3>1. 0 \in 0 .. C
      BY <1>0
    <3>2. g[0] = << >>
      BY <2>1, <3>1
    <3> QED BY <1>4, <3>2
  <2>4. ASSUME NEW k \in Nat, k \in T PROVE k + 1 \in T
    <3> SUFFICES ASSUME k + 1 \in 0 .. C PROVE g[k + 1] = f[k + 1]
      OBVIOUS
    <3>1. k \in 0 .. C /\ k + 1 # 0 /\ (k + 1) - 1 = k /\ f[k + 1] = Append(f[k], NextInOrder(rs, f[k]))
      BY <1>5
    <3>2. g[k] = f[k]
      BY <2>4, <3>1
    <3>3. g[k + 1] = Append(g[k], NextInOrder(rs, g[k]))
      BY <2>1, <3>1
    <3> QED BY <3>1, <3>2, <3>3
  <2> HIDE DEF T
  <2>5. C \in T
    BY <1>0, <2>3, <2>4, SetInduction
  <2> QED BY <1>0, <2>2, <2>5 DEF T
<1> DEFINE Behaves(s) == \A i \in 1 .. Len(s) : rs[s[i]].dep \in D => \E j \in 1 .. i - 1 : s[j] = rs[s[i]].dep
           Kept(k) == f[k] \in Seq(D) /\ Len(f[k]) = k /\ Behaves(f[k])
           T == {k \in Nat : k \in 0 .. C => Kept(k)}
<1>8. 0 \in T
  <2>1. << >> \in Seq(D) /\ Len(<< >>) = 0 /\ \A i \in 1 .. 0 : FALSE
    OBVIOUS
  <2>2. Behaves(<< >>)
    BY <2>1
  <2> HIDE DEF Behaves
  <2>3. Kept(0)
    BY <1>4, <2>1, <2>2
  <2> QED BY <2>3
<1>9. ASSUME NEW k \in Nat, k \in T PROVE k + 1 \in T
  <2> SUFFICES ASSUME k + 1 \in 0 .. C PROVE Kept(k + 1)
    OBVIOUS
  <2> DEFINE s == f[k]
             n == NextInOrder(rs, s)
  <2>1. Kept(k) /\ f[k + 1] = Append(s, n) /\ k < C
    BY <1>5, <1>9
  <2>2. D \ Range(s) # {}
    <3> SUFFICES ASSUME D \subseteq Range(s) PROVE FALSE
      OBVIOUS
    <3>1. s \in [1 .. k -> D]
      BY <2>1
    <3>2. \A t \in D : \E x \in 1 .. k : s[x] = t
      BY <3>1 DEF Range
    <3>3. s \in Surjection(1 .. k, D)
      BY <3>1, <3>2, Zenon DEF Surjection
    <3>4. IsFiniteSet(1 .. k) /\ Cardinality(1 .. k) = k
      BY UpTo
    <3>5. Cardinality(D) <= k
      BY <3>3, <3>4, FS_Surjection
    <3> QED BY <1>0, <2>1, <3>5 DEF C
  <2>3. n \in D /\ (rs[n].dep \in D => rs[n].dep \in Range(s))
    BY <2>2, NextIsFree
  <2> HIDE DEF n, s
  <2>4. s \in Seq(D) /\ Len(s) = k /\ Behaves(s)
    BY <2>1 DEF s
  <2>5. Append(s, n) \in Seq(D) /\ Len(Append(s, n)) = k + 1
    BY <2>3, <2>4
  <2>6. Append(s, n)[k + 1] = n /\ \A i \in 1 .. k : Append(s, n)[i] = s[i]
    BY <2>3, <2>4
  <2>7. rs[n].dep \in D => \E j \in 1 .. k : s[j] = rs[n].dep
    BY <2>3, <2>4 DEF Range
  <2>8. Behaves(Append(s, n))
    <3> SUFFICES ASSUME NEW i \in 1 .. k + 1, rs[Append(s, n)[i]].dep \in D
                 PROVE  \E j \in 1 .. i - 1 : Append(s, n)[j] = rs[Append(s, n)[i]].dep
      BY <2>5
    <3>1. CASE i = k + 1
      <4>1. (k + 1) - 1 = k
        OBVIOUS
      <4> QED BY <2>6, <2>7, <3>1, <4>1
    <3>2. CASE i # k + 1
      <4>1. i \in 1 .. k /\ \A j \in 1 .. i - 1 : j \in 1 .. k
        BY <3>2
      <4>2. PICK j \in 1 .. i - 1 : s[j] = rs[s[i]].dep
        BY <2>4, <2>6, <4>1
      <4> QED BY <2>6, <4>1, <4>2
    <3> QED BY <3>1, <3>2
  <2> QED BY <2>1, <2>5, <2>8
<1> HIDE DEF T
<1>10. C \in T
  BY <1>0, <1>8, <1>9, SetInduction
<1>11. Kept(C)
  BY <1>0, <1>10 DEF T
<1> QED BY <1>7, <1>11

(* One entry of the line.  While nobody has the turn and nothing stopped   *)
(* the line, all that were looked at are out of it or blocked: so the one  *)
(* that takes the turn depends on none of them, unless GitHub holds it.    *)
PlaceType(D) == [out : SUBSET D, blocked : SUBSET D, shut : SUBSET D, turn : D \cup {0}, stopped : BOOLEAN]

TurnIsFree(rs, s) == s.turn # 0 => GitHubHolds(rs[s.turn]) \/ rs[s.turn].dep = 0

AllShut(s, done) == s.turn = 0 /\ ~s.stopped => done \subseteq s.out \cup s.blocked

(* One more row of the line placed: the turn is still given only to a row  *)
(* whose dependency is gone, and everything placed after it is shut out.   *)
LEMMA PlacedStep ==
    ASSUME NEW rs, IsRows(rs), NEW s \in PlaceType(DOMAIN rs), NEW done, NEW n \in DOMAIN rs,
           TurnIsFree(rs, s), AllShut(s, done), rs[n].dep \in DOMAIN rs => rs[n].dep \in done
    PROVE  /\ Placed(rs, s, n) \in PlaceType(DOMAIN rs)
           /\ TurnIsFree(rs, Placed(rs, s, n)) /\ AllShut(Placed(rs, s, n), done \cup {n})
<1> DEFINE D == DOMAIN rs
           r == rs[n]
           waits == Waits(rs, s, r)
           takes == [s EXCEPT !.turn = IF @ = 0 THEN n ELSE @]
           t == Placed(rs, s, n)
<1>0. n # 0 /\ r.dep \in PRs \cup {0}
  BY RowHere, MergeQueueAssumption DEF IsRows
<1>1. /\ s.out \in SUBSET D /\ s.blocked \in SUBSET D /\ s.shut \in SUBSET D
      /\ s.turn \in D \cup {0} /\ s.stopped \in BOOLEAN
  BY DEF PlaceType
<1> DEFINE Good(u) == u \in PlaceType(D) /\ TurnIsFree(rs, u) /\ AllShut(u, done \cup {n})
<1>2. ASSUME t = [s EXCEPT !.out = @ \cup {n}] PROVE Good(t)
  BY <1>1, <1>2 DEF PlaceType, TurnIsFree, AllShut
<1>3. ASSUME t = [s EXCEPT !.out = @ \cup {n}, !.shut = @ \cup {n}] PROVE Good(t)
  <2>1. t \in PlaceType(D)
    <3> DEFINE x == s.out \cup {n}
               y == s.shut \cup {n}
    <3>1. x \in SUBSET D /\ y \in SUBSET D /\ t = [s EXCEPT !.out = x, !.shut = y]
      BY <1>1, <1>3
    <3> HIDE DEF x, y, t
    <3> QED BY <1>1, <3>1 DEF PlaceType
  <2>2. t.turn = s.turn /\ t.stopped = s.stopped /\ t.out = s.out \cup {n} /\ t.blocked = s.blocked
        /\ t.shut = s.shut \cup {n}
    BY <1>3 DEF PlaceType
  <2> HIDE DEF t
  <2> QED BY <2>1, <2>2 DEF TurnIsFree, AllShut
<1>4. ASSUME t = takes, s.turn = 0 => GitHubHolds(r) \/ r.dep = 0 PROVE Good(t)
  <2>1. t \in PlaceType(D)
    BY <1>1, <1>4 DEF PlaceType
  <2>2. t.turn # 0 /\ (s.turn # 0 => t.turn = s.turn) /\ (s.turn = 0 => t.turn = n)
    BY <1>0, <1>4 DEF PlaceType
  <2> HIDE DEF t
  <2> QED BY <1>4, <2>1, <2>2 DEF TurnIsFree, AllShut
<1>5. ASSUME NEW b \in BOOLEAN,
             t = [s EXCEPT !.blocked = @ \cup {n}, !.shut = @ \cup {n}, !.stopped = @ \/ b]
      PROVE  Good(t)
  <2>1. t \in PlaceType(D)
    <3> DEFINE c == s.stopped \/ b
    <3>1. c \in BOOLEAN /\ t = [s EXCEPT !.blocked = @ \cup {n}, !.shut = @ \cup {n}, !.stopped = c]
      BY <1>1, <1>5 DEF PlaceType
    <3> HIDE DEF c
    <3> DEFINE x == s.blocked \cup {n}
               y == s.shut \cup {n}
    <3>2. x \in SUBSET D /\ y \in SUBSET D /\ t = [s EXCEPT !.blocked = x, !.shut = y, !.stopped = c]
      BY <1>1, <3>1
    <3> HIDE DEF x, y, t
    <3> QED BY <1>1, <3>1, <3>2 DEF PlaceType
  <2>2. /\ t.turn = s.turn /\ t.out = s.out /\ t.blocked = s.blocked \cup {n}
        /\ (t.stopped <=> s.stopped \/ b)
    BY <1>1, <1>5 DEF PlaceType
  <2> HIDE DEF t
  <2> QED BY <2>1, <2>2 DEF TurnIsFree, AllShut
<1>6. ASSUME t = [s EXCEPT !.shut = @ \cup {n}], s.stopped PROVE Good(t)
  BY <1>1, <1>6 DEF PlaceType, TurnIsFree, AllShut
<1>7. CASE FailureHolds(r)
  <2>1. t = [s EXCEPT !.out = @ \cup {n}]
    BY <1>7 DEF Placed
  <2> QED BY <1>2, <2>1
<1>8. CASE ~FailureHolds(r) /\ r.dep \in s.out
  <2>1. t = [s EXCEPT !.out = @ \cup {n}, !.shut = @ \cup {n}]
    BY <1>8 DEF Placed
  <2> QED BY <1>3, <2>1
<1>9. CASE ~FailureHolds(r) /\ r.dep \notin s.out /\ GitHubHolds(r)
  <2>1. t = takes
    BY <1>9 DEF Placed
  <2> QED BY <1>4, <1>9, <2>1
<1>10. CASE ~FailureHolds(r) /\ r.dep \notin s.out /\ ~GitHubHolds(r)
  <2> DEFINE b == s.turn = 0 /\ ~waits /\ ~r.facts.ok
  <2>1. t = IF waits \/ ~GatesPass(r.facts)
              THEN [s EXCEPT !.blocked = @ \cup {n}, !.shut = @ \cup {n}, !.stopped = @ \/ b]
            ELSE IF s.stopped THEN [s EXCEPT !.shut = @ \cup {n}]
            ELSE takes
    BY <1>10 DEF Placed
  <2>2. b \in BOOLEAN
    OBVIOUS
  <2>3. CASE waits \/ ~GatesPass(r.facts)
    <3> HIDE DEF t, b
    <3> QED BY <1>5, <2>1, <2>2, <2>3 DEF t
  <2>4. CASE ~(waits \/ ~GatesPass(r.facts)) /\ s.stopped
    BY <1>6, <2>1, <2>4
  <2>5. CASE ~(waits \/ ~GatesPass(r.facts)) /\ ~s.stopped
    <3>1. t = takes
      BY <2>1, <2>5
    <3>2. s.turn = 0 => r.dep = 0
      <4> SUFFICES ASSUME s.turn = 0, r.dep # 0 PROVE FALSE
        OBVIOUS
      <4>1. r.dep \in D /\ r.dep \notin s.blocked /\ r.dep \notin s.out
        BY <1>10, <2>5 DEF Waits
      <4> QED BY <2>5, <4>1 DEF AllShut
    <3> QED BY <1>4, <3>1, <3>2
  <2> QED BY <2>3, <2>4, <2>5
<1> QED BY <1>7, <1>8, <1>9, <1>10

(* Whose turn it is.                                                       *)
LEMMA TurnFacts ==
    ASSUME NEW rs, IsRows(rs), Grounded(rs), NextUp(rs) \in DOMAIN rs
    PROVE  GitHubHolds(rs[NextUp(rs)]) \/ rs[NextUp(rs)].dep = 0
<1> DEFINE D == DOMAIN rs
           q == Order(rs)
           C == Len(q)
           P == PlaceType(D)
           Solves(g) == g = [k \in 0 .. C |-> IF k = 0 THEN NobodyYet ELSE Placed(rs, g[k - 1], q[k])]
           Done(k) == {q[j] : j \in 1 .. k}
           Kept(g, k) == g[k] \in P /\ TurnIsFree(rs, g[k]) /\ AllShut(g[k], Done(k))
<1>1. q \in Seq(D) /\ C \in Nat /\ DOMAIN q = 1 .. C /\ \A i \in 1 .. C : q[i] \in D
  BY OrderFacts
<1>2. \A i \in 1 .. C : rs[q[i]].dep \in D => rs[q[i]].dep \in Done(i - 1)
  BY OrderFacts
<1>3. NobodyYet \in P /\ TurnIsFree(rs, NobodyYet) /\ AllShut(NobodyYet, Done(0))
  BY DEF NobodyYet, PlaceType, TurnIsFree, AllShut
<1>4. ASSUME NEW s \in P, NEW k \in Nat, k + 1 \in 1 .. C, TurnIsFree(rs, s), AllShut(s, Done(k))
      PROVE  /\ Placed(rs, s, q[k + 1]) \in P /\ TurnIsFree(rs, Placed(rs, s, q[k + 1]))
             /\ AllShut(Placed(rs, s, q[k + 1]), Done(k + 1))
  <2>1. Done(k + 1) = Done(k) \cup {q[k + 1]} /\ (k + 1) - 1 = k
    BY <1>4
  <2>2. q[k + 1] \in D /\ (rs[q[k + 1]].dep \in D => rs[q[k + 1]].dep \in Done(k))
    BY <1>1, <1>2, <1>4, <2>1
  <2> HIDE DEF q, Done
  <2>3. /\ Placed(rs, s, q[k + 1]) \in P /\ TurnIsFree(rs, Placed(rs, s, q[k + 1]))
        /\ AllShut(Placed(rs, s, q[k + 1]), Done(k) \cup {q[k + 1]})
    BY <1>4, <2>2, PlacedStep
  <2> QED BY <2>1, <2>3
<1> DEFINE F == {s \in P : TurnIsFree(rs, s)}
           Fits(k, s) == k \in 1 .. C /\ AllShut(s, Done(k - 1))
           step == [p \in Nat \X F |-> IF Fits(p[1], p[2]) THEN Placed(rs, p[2], q[p[1]]) ELSE p[2]]
<1> HIDE DEF q, C, P, Done
<1>5. ASSUME NEW k \in Nat, NEW s \in F PROVE Fits(k, s) => Placed(rs, s, q[k]) \in F
  <2> SUFFICES ASSUME Fits(k, s) PROVE Placed(rs, s, q[k]) \in F
    OBVIOUS
  <2>1. k - 1 \in Nat /\ (k - 1) + 1 = k /\ k \in 1 .. C
    BY <1>1
  <2> QED BY <1>4, <1>5, <2>1
<1>6. step \in [Nat \X F -> F] /\ NobodyYet \in F
  <2>1. NobodyYet \in F
    BY <1>3
  <2>2. \A p \in Nat \X F : step[p] \in F
    <3> HIDE DEF F, Fits
    <3> QED BY <1>5
  <2> HIDE DEF F, Fits
  <2> QED BY <2>1, <2>2
<1> HIDE DEF F, Fits
<1>7. \E f : Iteration(f, F, NobodyYet, step, C)
  <2> HIDE DEF step
  <2> QED BY <1>1, <1>6, Iterates
<1>8. PICK f \in [0 .. C -> F] : f[0] = NobodyYet /\ \A k \in 1 .. C : f[k] = step[<<k, f[k - 1]>>]
  <2> HIDE DEF step
  <2> QED BY <1>7 DEF Iteration
<1>9. ASSUME NEW k \in Nat, k + 1 \in 0 .. C
      PROVE  /\ f[k + 1] = IF Fits(k + 1, f[k]) THEN Placed(rs, f[k], q[k + 1]) ELSE f[k]
             /\ f[k] \in F /\ k \in 0 .. C /\ (k + 1) - 1 = k /\ k + 1 \in 1 .. C
  <2>1. k \in 0 .. C /\ (k + 1) - 1 = k /\ k + 1 \in 1 .. C /\ k + 1 \in Nat
    BY <1>1, <1>9
  <2>2. f[k + 1] = step[<<k + 1, f[k]>>] /\ f[k] \in F
    <3> HIDE DEF step
    <3> QED BY <1>8, <2>1
  <2> QED BY <2>1, <2>2
<1> HIDE DEF step
<1> DEFINE T == {k \in Nat : k \in 0 .. C => AllShut(f[k], Done(k))}
<1>10. ASSUME NEW k \in Nat, k + 1 \in 0 .. C, AllShut(f[k], Done(k))
       PROVE  f[k + 1] = Placed(rs, f[k], q[k + 1]) /\ AllShut(f[k + 1], Done(k + 1))
  <2>1. f[k] \in F /\ (k + 1) - 1 = k /\ k + 1 \in 1 .. C
    BY <1>9, <1>10
  <2>2. Fits(k + 1, f[k])
    BY <1>10, <2>1 DEF Fits
  <2>3. f[k + 1] = Placed(rs, f[k], q[k + 1])
    BY <1>9, <1>10, <2>2
  <2>4. f[k] \in P /\ TurnIsFree(rs, f[k])
    BY <2>1 DEF F
  <2> QED BY <1>4, <1>10, <2>1, <2>3, <2>4
<1>11. 0 \in T
  BY <1>3, <1>8
<1>12. ASSUME NEW k \in Nat, k \in T PROVE k + 1 \in T
  BY <1>9, <1>10, <1>12
<1>13. ASSUME NEW k \in Nat, k + 1 \in 0 .. C PROVE f[k + 1] = Placed(rs, f[k], q[k + 1])
  <2>1. k \in T
    <3> HIDE DEF T
    <3> QED BY <1>11, <1>12, <1>13, SetInduction
  <2>2. AllShut(f[k], Done(k))
    BY <1>9, <1>13, <2>1
  <2> QED BY <1>10, <1>13, <2>2
<1> HIDE DEF T
<1>14. Solves(f)
  <2>1. ASSUME NEW k \in 0 .. C PROVE f[k] = IF k = 0 THEN NobodyYet ELSE Placed(rs, f[k - 1], q[k])
    <3>1. CASE k = 0
      BY <1>8, <3>1
    <3>2. CASE k # 0
      <4>1. k - 1 \in Nat /\ (k - 1) + 1 = k
        BY <1>1, <2>1, <3>2
      <4> QED BY <1>13, <2>1, <3>2, <4>1
    <3> QED BY <3>1, <3>2
  <2> QED BY <2>1, f = [k \in 0 .. C |-> f[k]]
<1>15. Line(rs) = f[C]
  <2> DEFINE g == CHOOSE h : Solves(h)
  <2>1. Solves(g)
    BY <1>14
  <2>2. Line(rs) = g[C]
    BY DEF Line, C, q
  <2> HIDE DEF g
  <2> DEFINE U == {k \in Nat : k \in 0 .. C => g[k] = f[k]}
  <2>3. 0 \in U
    <3>1. 0 \in 0 .. C
      BY <1>1
    <3>2. g[0] = NobodyYet
      BY <2>1, <3>1
    <3> QED BY <1>8, <3>2
  <2>4. ASSUME NEW k \in Nat, k \in U PROVE k + 1 \in U
    <3> SUFFICES ASSUME k + 1 \in 0 .. C PROVE g[k + 1] = f[k + 1]
      OBVIOUS
    <3>1. k \in 0 .. C /\ k + 1 # 0 /\ (k + 1) - 1 = k
      BY <1>9
    <3>2. g[k] = f[k]
      BY <2>4, <3>1
    <3>3. g[k + 1] = Placed(rs, g[k], q[k + 1])
      BY <2>1, <3>1
    <3> QED BY <1>13, <3>2, <3>3
  <2> HIDE DEF U
  <2>5. C \in U
    BY <1>1, <2>3, <2>4, SetInduction
  <2> QED BY <1>1, <2>2, <2>5 DEF U
<1>16. C \in 0 .. C
  BY <1>1
<1>17. TurnIsFree(rs, Line(rs))
  BY <1>8, <1>15, <1>16 DEF F
<1>18. Line(rs).turn # 0
  BY MergeQueueAssumption DEF NextUp, IsRows
<1> QED BY <1>17, <1>18 DEF TurnIsFree, NextUp

-----------------------------------------------------------------------------
(* What a landing was begun with never changes.                            *)
LEMMA DependencyStep ==
    ASSUME MergeInv, DependencyFirst, Next
    PROVE  DependencyFirst'
<1>0. Shapes /\ IsRows(rows) /\ Grounded(rows)
  BY DEF MergeInv, Shapes
<1>1. ASSUME NEW n, NEW who, LandStart(n, who) PROVE DependencyFirst'
  <2> DEFINE r == rows[n]
  <2>1. n \in DOMAIN rows /\ NextUp(rows) = n
    BY <1>1 DEF LandStart, Queued
  <2>2. GitHubHolds(r) \/ r.dep = 0
    BY <1>0, <2>1, TurnFacts
  <2>3. land' = land \/ (land'.dep = r.dep /\ land'.held = GitHubHolds(r))
    BY <1>1 DEF LandStart
  <2> HIDE DEF r
  <2> QED BY <2>2, <2>3 DEF DependencyFirst
<1>2. ASSUME land' = land \/ land' = NoLand PROVE DependencyFirst'
  BY <1>2 DEF DependencyFirst
<1>3. ASSUME land \in LandType, NEW pc, NEW base, land' = [land EXCEPT !.pc = pc, !.base = base] PROVE DependencyFirst'
  <2>1. land'.dep = land.dep /\ land'.held = land.held /\ land # NoLand
    BY <1>3 DEF LandType, NoLand
  <2> QED BY <2>1 DEF DependencyFirst
<1>4. ASSUME land \in LandType, NEW pc, land' = [land EXCEPT !.pc = pc] PROVE DependencyFirst'
  <2>1. land'.dep = land.dep /\ land'.held = land.held /\ land # NoLand
    BY <1>4 DEF LandType, NoLand
  <2> QED BY <2>1 DEF DependencyFirst
<1>5. CASE User
  <2>1. land' = land \/ \E n \in PRs : LandStart(n, "user")
    BY <1>5 DEF User, Pause, Resume, Dequeue, Retry, UserLands, Enqueue
  <2> QED BY <1>1, <1>2, <2>1
<1>6. CASE Runner
  <2>1. land' = land \/ \E n \in PRs : LandStart(n, "runner")
    BY <1>6 DEF Runner, WatchMoved, WatchCleared, VerifyEnd, WatchMerged, WatchLetGo, FailPushed, VerifyStart,
                RunnerLands
  <2> QED BY <1>1, <1>2, <2>1
<1>7. CASE Landing
  <2>1. land \in LandType
    BY <1>0, <1>7, LandHere DEF Landing, LandPush, LandRead, LandMerge, LandRemove, LandClear, HandOff, HandOffHold,
                              HandOffConfirm
  <2>2. \/ land' = NoLand
        \/ \E pc : land' = [land EXCEPT !.pc = pc]
        \/ \E pc, base : land' = [land EXCEPT !.pc = pc, !.base = base]
    BY <1>7 DEF Landing, LandPush, LandRead, LandReadFrom, LandMerge, LandRemove, LandClear, HandOff, HandOffHold,
                HandOffConfirm, ConfirmFrom, Refused, LandEnds
  <2> QED BY <1>2, <1>3, <1>4, <2>1, <2>2
<1>8. CASE Reader
  BY <1>2, <1>8 DEF Reader, ReadFetch, ReadApply, ReadBegin
<1>9. CASE Environment
  BY <1>2, <1>9 DEF Environment, BaseMoves, Crash, AuthorPushes, ChecksFail, ThreadOpens, Closed, GitHubMerges,
                    GitHubEjects, MergedOutside, Merge, daemon
<1> QED BY <1>5, <1>6, <1>7, <1>8, <1>9 DEF Next

(* Nothing lands before what it depends on, for any number of entries and  *)
(* any history of enqueues, blocks, removals and retries, unless GitHub    *)
(* holds its head already.                                                 *)
THEOREM InTurn == Spec => []DependencyFirst
<1>1. Init => DependencyFirst
  BY DEF Init, DependencyFirst
<1>2. MergeInv /\ DependencyFirst /\ [Next]_vars => DependencyFirst'
  <2>1. ASSUME UNCHANGED vars, DependencyFirst PROVE DependencyFirst'
    BY <2>1 DEF vars, daemon, DependencyFirst
  <2> QED BY <2>1, DependencyStep
<1> QED BY <1>1, <1>2, MergeInvariant, PTL DEF Spec

=============================================================================
