----------------------------- MODULE MergeQueue -----------------------------
(***************************************************************************)
(* The merge queue of one workspace (merge_queue.rs, db/merge_queue.rs,    *)
(* daemon/merge_queue*.rs, merge_queue_verify.rs) with its policy on and a *)
(* verification command set: the queued pull requests, the runner that     *)
(* verifies and lands the one that goes next, the user's Merge, the read   *)
(* pass of the PR watch, and GitHub, which merges, ejects and moves on     *)
(* its own.                                                                *)
(*                                                                         *)
(* A commit is what its author wrote (src) and the version of the base it  *)
(* sits on (on), so a rebase changes `on` alone and a tree that was tested *)
(* is such a pair.  A landing is a process of several steps: what it read  *)
(* may be stale at the next one, and the daemon may die between any two.   *)
(***************************************************************************)
EXTENDS Naturals, FiniteSetsExt, Functions, Sequences

CONSTANTS
    PRs,         \* numbers of the pull requests
    Modes,       \* who merges: a subset of {"houston", "queue", "auto"}
    Kinds,       \* the disturbances that may happen
    MaxFaults    \* bound: disturbances in one behaviour

Disturbances ==
    {"pushed", "base moved", "checks failed", "thread opened", "ejected", "merged outside",
     "closed", "paused", "dequeued", "requeued", "retried", "crashed", "read failed",
     "cancel failed", "rate limited", "refused", "head lags", "push refused", "user merges",
     "verification failed"}

ASSUME MergeQueueAssumption ==
    /\ PRs \subseteq Nat \ {0} /\ IsFiniteSet(PRs)
    /\ Modes \subseteq {"houston", "queue", "auto"}
    /\ Kinds \subseteq Disturbances /\ MaxFaults \in Nat

VARIABLES
    rows,     \* merge_queue_entries: a function on the queued numbers
    paused,   \* the workspace's or the machine's pause
    run,      \* the runner: what it is at between two steps
    land,     \* the landing under the landing lock
    reader,   \* the read pass: a row as it was loaded, and an answer not recorded yet
    gh,       \* GitHub: each pull request
    main,     \* version of the base branch
    mode,     \* who merges into this base, as the reads say
    faults,   \* number of disturbances so far
    tested    \* history: trees the command passed on, per pull request

daemon == <<rows, paused, run, land, reader>>
github == <<gh, main>>
vars == <<daemon, github, mode, faults, tested>>

Fault(kinds) ==
    /\ kinds \subseteq Kinds
    /\ faults' = faults + Cardinality(kinds)
    /\ faults' <= MaxFaults

-----------------------------------------------------------------------------
(* The line                                                                *)

Commit(s, b) == [src |-> s, on |-> b]
NoCommit == Commit(0, 0)
NoVerification == [base |-> 0, head |-> NoCommit, verified |-> NoCommit]

(* verification_holds, failure_holds, github_holds: a record about another *)
(* head says nothing of this one.                                          *)
VerificationHolds(r) == r.ver # NoVerification /\ r.head \in {r.ver.head, r.ver.verified}

FailureHolds(r) == r.failure # NoCommit /\ r.failure = r.head

GitHubHolds(r) == r.hold # NoCommit /\ r.hold = r.head

(* gates: each fails closed.  Threads are Houston's own gate, failing      *)
(* checks and a merge are GitHub's refusal.                                *)
ThreadsPass(f) == f.ok /\ ~f.thread
GatesPass(f) == ThreadsPass(f) /\ ~f.failing /\ ~f.merged

(* order: by position, behind what it depends on.                          *)
First(rs, s) == CHOOSE n \in s : \A m \in s : rs[n].pos <= rs[m].pos

NextInOrder(rs, ordered) ==
    LET next[left \in SUBSET DOMAIN rs] ==
            LET free == {n \in left : rs[n].dep \notin left}
            IN  First(rs, IF free = {} THEN left ELSE free)
    IN  next[DOMAIN rs \ Range(ordered)]

Order(rs) ==
    LET ordered[k \in 0 .. Cardinality(DOMAIN rs)] ==
            IF k = 0 THEN << >>
            ELSE Append(ordered[k - 1], NextInOrder(rs, ordered[k - 1]))
    IN  ordered[Cardinality(DOMAIN rs)]

(* Waiting for an entry that left the queue without merging, or for one    *)
(* that is blocked.                                                        *)
WaitsMutant(rs, s, r) == r.dep \in s.blocked

Waits(rs, s, r) == (r.dep # 0 /\ r.dep \notin DOMAIN rs) \/ r.dep \in s.blocked

(* line, one entry after another: those held `out` of line (parked ones    *)
(* and those behind one), the `blocked`, all that `shut` by status, whose  *)
(* turn it is (0 for nobody yet), and whether an entry Houston has no      *)
(* answer for stopped the line before anyone had it.                       *)
Placed(rs, s, n) ==
    LET r == rs[n]
        waits == Waits(rs, s, r)
        takes == [s EXCEPT !.turn = IF @ = 0 THEN n ELSE @]
    IN  CASE FailureHolds(r) -> [s EXCEPT !.out = @ \cup {n}]
          [] ~FailureHolds(r) /\ r.dep \in s.out ->
                [s EXCEPT !.out = @ \cup {n}, !.shut = @ \cup {n}]
          [] ~FailureHolds(r) /\ r.dep \notin s.out /\ GitHubHolds(r) -> takes
          [] OTHER ->
                IF waits \/ ~GatesPass(r.facts)
                  THEN [s EXCEPT !.blocked = @ \cup {n}, !.shut = @ \cup {n},
                                 !.stopped = @ \/ (s.turn = 0 /\ ~waits /\ ~r.facts.ok)]
                ELSE IF s.stopped THEN [s EXCEPT !.shut = @ \cup {n}]
                ELSE takes

NobodyYet == [out |-> {}, blocked |-> {}, shut |-> {}, turn |-> 0, stopped |-> FALSE]

Line(rs) ==
    LET q == Order(rs)
        upto[i \in 0 .. Len(q)] ==
            IF i = 0 THEN NobodyYet ELSE Placed(rs, upto[i - 1], q[i])
    IN  upto[Len(q)]

(* next_up                                                                 *)
NextUp(rs) == Line(rs).turn

-----------------------------------------------------------------------------
(* Rows                                                                    *)

Queued == DOMAIN rows

Removed(rs, n) == [m \in DOMAIN rs \ {n} |-> rs[m]]

(* merge_queue_clear_dependency                                            *)
Cleared(rs, n) == [m \in DOMAIN rs |-> [rs[m] EXCEPT !.dep = IF @ = n THEN 0 ELSE @]]

(* An UPDATE of a row that may have left the table.                        *)
Updated(rs, n, r) == [m \in DOMAIN rs |-> IF m = n THEN r ELSE rs[m]]

(* merge_queue_fail: out of line for the head the caller had in hand.      *)
Failed(rs, n, head) == Updated(rs, n, [rs[n] EXCEPT !.failure = head])

NoFacts == [ok |-> FALSE, thread |-> FALSE, failing |-> FALSE, armed |-> FALSE, merged |-> FALSE, newer |-> FALSE]

(* Facts::from_read.  A read's time is when it is recorded: `newer` says   *)
(* that this is after the hand-off the row holds.                          *)
FactsOf(seen, newer) ==
    [ok |-> TRUE, thread |-> seen.thread, failing |-> seen.failing, armed |-> seen.armed,
     merged |-> seen.state = "merged", newer |-> newer]

Unread == [state |-> "unread"]
ReadError == [state |-> "error"]

Loaded(n) == [head |-> rows[n].head, held |-> rows[n].hold # NoCommit]

(* merge_queue_apply_read of a row as it was loaded: its head, and whether *)
(* it had been handed to GitHub.                                           *)
ApplyRead(rs, n, loaded, seen) ==
    LET newer == n \in DOMAIN rs /\ rs[n].hold # NoCommit
        Record(head, facts) == Updated(rs, n, [rs[n] EXCEPT !.head = head, !.facts = facts])
    IN  CASE seen.state = "error" -> Record(loaded.head, [NoFacts EXCEPT !.newer = newer])
          [] seen.state = "open" -> Record(seen.head, FactsOf(seen, newer))
          [] seen.state = "closed" -> Removed(rs, n)
          [] seen.state = "merged" /\ loaded.held -> Record(loaded.head, FactsOf(seen, newer))
          [] seen.state = "merged" /\ ~loaded.held -> Cleared(Removed(rs, n), n)

(* The row is loaded with the read, or is the landing's own once it left.  *)
ReadNow(n, seen) ==
    ApplyRead(rows, n, IF n \in Queued THEN Loaded(n) ELSE [head |-> land.head, held |-> FALSE], seen)

(* merge_queue_cancel_github: what the facts say GitHub has let go needs   *)
(* no call.                                                                *)
NeedsCancel(r) == ~(r.facts.ok /\ ~r.facts.armed)

Cancelled(rs, ns) ==
    [n \in PRs |-> IF n \in ns /\ NeedsCancel(rs[n]) THEN [gh[n] EXCEPT !.armed = FALSE] ELSE gh[n]]

(* Taking a hand-off back where a failed call is only warned about.        *)
CancelOrWarn(rs, n, kinds) ==
    \/ gh' = Cancelled(rs, {n}) /\ Fault(kinds)
    \/ NeedsCancel(rs[n]) /\ Fault(kinds \cup {"cancel failed"}) /\ UNCHANGED gh

Unheld(rs, ns) == [n \in DOMAIN rs |-> IF n \in ns THEN [rs[n] EXCEPT !.hold = NoCommit] ELSE rs[n]]

-----------------------------------------------------------------------------
(* The user                                                                *)

(* The tail: behind the highest position there is.                         *)
NextPositionMutant == 1 + Cardinality(Queued)

NextPosition == 1 + Max({0} \cup {rows[m].pos : m \in Queued})

NewRow(n, d) ==
    [pos |-> NextPosition, head |-> gh[n].head, dep |-> d, facts |-> FactsOf(gh[n], FALSE),
     ver |-> NoVerification, failure |-> NoCommit, hold |-> NoCommit]

(* check_enqueue: the dependency is queued, and its chain never comes back *)
(* to n.                                                                   *)
Behind(n) ==
    LET chain[k \in 0 .. Cardinality(Queued)] ==
            IF k = 0 THEN {n} ELSE chain[k - 1] \cup {m \in Queued : rows[m].dep \in chain[k - 1]}
    IN  chain[Cardinality(Queued)]

MayDepend(n, d) == d = 0 \/ d \in Queued \ Behind(n)

(* merge_queue_enqueue: at the tail, or in place with a new dependency.    *)
Enqueue(n, d) ==
    /\ gh[n].state = "open" /\ MayDepend(n, d)
    /\ \/ /\ n \notin Queued
          /\ rows' = [m \in Queued \cup {n} |-> IF m = n THEN NewRow(n, d) ELSE rows[m]]
          /\ UNCHANGED faults
       \/ /\ n \in Queued /\ Fault({"requeued"})
          /\ rows' = [rows EXCEPT ![n].dep = d, ![n].head = gh[n].head,
                                  ![n].facts = FactsOf(gh[n], rows[n].hold # NoCommit)]
    /\ UNCHANGED <<paused, run, land, reader, github, mode, tested>>

(* merge_queue_dequeue: GitHub lets go first, or the entry stays.          *)
Dequeue(n) ==
    /\ n \in Queued /\ Fault({"dequeued"})
    /\ rows' = Removed(rows, n)
    /\ gh' = IF rows[n].hold # NoCommit THEN Cancelled(rows, {n}) ELSE gh
    /\ UNCHANGED <<paused, run, land, reader, main, mode, tested>>

(* merge_queue_pause takes back all that GitHub holds; a call that fails   *)
(* leaves the rest with GitHub.                                            *)
Pause ==
    LET held == {n \in Queued : rows[n].hold # NoCommit}
    IN  /\ ~paused
        /\ paused' = TRUE
        /\ \E back \in SUBSET held :
              /\ IF back = held THEN Fault({"paused"})
                                ELSE /\ \E n \in held \ back : NeedsCancel(rows[n])
                                     /\ Fault({"paused", "cancel failed"})
              /\ rows' = Unheld(rows, back)
              /\ gh' = Cancelled(rows, back)
        /\ UNCHANGED <<run, land, reader, main, mode, tested>>

Resume ==
    /\ paused
    /\ paused' = FALSE
    /\ UNCHANGED <<rows, run, land, reader, github, mode, faults, tested>>

(* merge_queue_retry                                                       *)
Retry(n) ==
    /\ n \in Queued /\ FailureHolds(rows[n]) /\ Fault({"retried"})
    /\ rows' = Failed(rows, n, NoCommit)
    /\ UNCHANGED <<paused, run, land, reader, github, mode, tested>>

-----------------------------------------------------------------------------
(* The runner: what GitHub holds first, then the line.  A read may change  *)
(* what GitHub holds in between, so a step of the line asks nothing of it. *)

Idle == [pc |-> "idle"]
NoLand == [pc |-> "none", who |-> "nobody"]

Free == run = Idle /\ land.who # "runner"

(* merge_queue_take_back_moved, by the runner and by the read pass: a call *)
(* that fails leaves the hold for the next time.                           *)
Moved(rs) == {n \in DOMAIN rs : rs[n].hold \notin {NoCommit, rs[n].head} /\ ~rs[n].facts.merged}

TakeBackMoved(rs) ==
    \E back \in SUBSET Moved(rs) :
        /\ IF back = Moved(rs) THEN UNCHANGED faults
                               ELSE /\ \E n \in Moved(rs) \ back : NeedsCancel(rs[n])
                                    /\ Fault({"cancel failed"})
        /\ rows' = Unheld(rs, back)
        /\ gh' = Cancelled(rs, back)

WatchMoved ==
    /\ Free /\ Moved(rows) # {}
    /\ TakeBackMoved(rows)
    /\ UNCHANGED <<paused, run, land, reader, main, mode, tested>>

(* merge_queue_watch_github: a merge is finished, the entry first.         *)
Finished(n) == rows[n].hold # NoCommit /\ rows[n].facts.merged

WatchMerged(n) ==
    /\ Free /\ n \in Queued /\ Finished(n)
    /\ rows' = Removed(rows, n)
    /\ run' = [pc |-> "clear", n |-> n]
    /\ UNCHANGED <<paused, land, reader, github, mode, faults, tested>>

WatchCleared ==
    /\ run.pc = "clear"
    /\ rows' = Cleared(rows, run.n)
    /\ run' = Idle
    /\ UNCHANGED <<paused, land, reader, github, mode, faults, tested>>

(* let_go: GitHub let the head go, by a read made after the hand-off.      *)
LetGoMutant(r) == GitHubHolds(r) /\ ~r.facts.merged /\ r.facts.ok /\ r.facts.newer /\ r.facts.failing

LetGo(r) ==
    /\ GitHubHolds(r) /\ ~r.facts.merged
    /\ r.facts.ok /\ r.facts.newer /\ (r.facts.failing \/ ~r.facts.armed)

WatchLetGo(n) ==
    /\ Free /\ n \in Queued /\ LetGo(rows[n])
    /\ CancelOrWarn(rows, n, {})
    /\ rows' = Failed(Unheld(rows, {n}), n, rows[n].head)
    /\ UNCHANGED <<paused, run, land, reader, main, mode, tested>>

(* checks_failed_on_pushed: GitHub's checks failed on the verified commit  *)
(* that the queue pushed.                                                  *)
ChecksFailedOnPushed(r) ==
    VerificationHolds(r) /\ r.ver.verified # r.ver.head /\ r.head = r.ver.verified /\ r.facts.failing

PushedFailures ==
    {n \in Queued : ChecksFailedOnPushed(rows[n]) /\ ~GitHubHolds(rows[n]) /\ n \notin Line(rows).out}

FailPushed(n) ==
    /\ Free /\ ~paused /\ n \in PushedFailures
    /\ rows' = Failed(rows, n, rows[n].head)
    /\ UNCHANGED <<paused, run, land, reader, github, mode, faults, tested>>

(* The entry whose turn it is, that GitHub does not hold.                  *)
Turn(n) ==
    /\ Free /\ ~paused /\ PushedFailures = {}
    /\ n \in Queued /\ ~GitHubHolds(rows[n]) /\ NextUp(rows) = n

(* merge_queue_verify_head: the head and the base are fetched; a head that *)
(* moved waits for a read.                                                 *)
VerifyStart(n) ==
    /\ n \in Queued /\ gh[n].head = rows[n].head /\ ~VerificationHolds(rows[n])
    /\ Turn(n)
    /\ run' = [pc |-> "verify", n |-> n, head |-> rows[n].head, base |-> main]
    /\ UNCHANGED <<rows, paused, land, reader, github, mode, faults, tested>>

(* It passed on the head rebased onto the base; or it failed, timed out or *)
(* met a conflict.                                                         *)
VerifyEnd ==
    LET verified == Commit(run.head.src, run.base)
        v == [base |-> run.base, head |-> run.head, verified |-> verified]
    IN  /\ run.pc = "verify"
        /\ run' = Idle
        /\ \/ /\ rows' = Updated(rows, run.n, [rows[run.n] EXCEPT !.ver = v])
              /\ tested' = [tested EXCEPT ![run.n] = @ \cup {verified}]
              /\ UNCHANGED faults
           \/ /\ rows' = Failed(rows, run.n, run.head)
              /\ Fault({"verification failed"})
              /\ UNCHANGED tested
        /\ UNCHANGED <<paused, land, reader, github, mode>>

-----------------------------------------------------------------------------
(* Landing, by the runner or by the user's Merge, under the landing lock.  *)
(* (Merge reads again an entry ahead of the next one before it looks at    *)
(* the line: that is a read pass followed by the Merge here.)              *)

(* merge_queue_base_holds: a moved base discards the verification.         *)
BaseHoldsMutant(base) == base <= main

BaseHolds(base) == base = main

LandStart(n, who) ==
    LET r == rows[n]
        target == IF mode = "queue" THEN r.head ELSE r.ver.verified
    IN  /\ land = NoLand /\ ~paused
        /\ n \in Queued /\ VerificationHolds(r) /\ NextUp(rows) = n
        /\ IF BaseHolds(r.ver.base)
             THEN /\ land' = [pc |-> IF target = r.head THEN "read" ELSE "push", who |-> who, n |-> n,
                              head |-> r.head, base |-> r.ver.base, target |-> target,
                              dep |-> r.dep, held |-> GitHubHolds(r)]
                  /\ UNCHANGED rows
             ELSE /\ rows' = Updated(rows, n, [r EXCEPT !.ver = NoVerification])
                  /\ UNCHANGED land
        /\ UNCHANGED <<paused, run, reader, github, mode, tested>>

RunnerLands(n) == Free /\ LandStart(n, "runner") /\ Turn(n) /\ UNCHANGED faults

UserLands(n) == LandStart(n, "user") /\ Fault({"user merges"})

LandEnds == land' = NoLand

(* A failure of an unattended landing takes the entry out of line.         *)
FailUnattended(head) == rows' = IF land.who = "runner" THEN Failed(rows, land.n, head) ELSE rows

(* push_with_lease: the branch is still at the head the queue read.        *)
LeaseHoldsMutant(n) == gh[n].state = "open"

LeaseHolds(n) == gh[n].head = land.head

(* The push guard, the pause once more, and the push.  GitHub's checks     *)
(* start again, and a push takes a pull request out of its merge queue.    *)
LandPush ==
    LET n == land.n
    IN  /\ land.pc = "push"
        /\ \/ Fault({"push refused"}) /\ FailUnattended(land.head) /\ LandEnds /\ UNCHANGED gh
           \/ /\ paused \/ ~LeaseHolds(n)
              /\ LandEnds
              /\ UNCHANGED <<rows, gh, faults>>
           \/ /\ ~paused /\ LeaseHolds(n)
              /\ gh' = [gh EXCEPT ![n].head = land.target, ![n].failing = FALSE,
                                  ![n].armed = @ /\ mode = "auto"]
              /\ land' = [land EXCEPT !.pc = "read"]
              /\ UNCHANGED <<rows, faults>>
        /\ UNCHANGED <<paused, run, reader, main, mode, tested>>

(* The fresh read before the merge, and after it every check again: the    *)
(* entry's place, its checks, the base and the pause.  Where GitHub merges *)
(* its own gate is left to it.                                             *)
LandReadFrom(seen) ==
    LET n == land.n
        after == ReadNow(n, seen)
        r == after[n]
        found == n \in DOMAIN after /\ seen.state = "open" /\ seen.head = land.target
        failed == found /\ ChecksFailedOnPushed(r)
        shut == found /\ n \in Line(after).shut /\ (mode = "houston" \/ ~ThreadsPass(r.facts))
        base == found /\ ~failed /\ ~shut
    IN  /\ rows' = IF failed THEN Failed(after, n, r.head)
                   ELSE IF base /\ ~BaseHolds(land.base)
                     THEN Updated(after, n, [r EXCEPT !.ver = NoVerification])
                   ELSE after
        /\ land' = IF base /\ BaseHolds(land.base) /\ ~paused
                     THEN [land EXCEPT !.pc = "act", !.base = main] ELSE NoLand

LandRead ==
    /\ land.pc = "read"
    /\ \/ LandReadFrom(gh[land.n]) /\ UNCHANGED faults
       \/ LandReadFrom(ReadError) /\ Fault({"read failed"})
       \/ /\ land.target # land.head
          /\ LandReadFrom([gh[land.n] EXCEPT !.head = land.head])
          /\ Fault({"head lags"})
       \/ LandEnds /\ Fault({"rate limited"}) /\ UNCHANGED rows
    /\ UNCHANGED <<paused, run, reader, github, mode, tested>>

(* GitHub takes a request pinned to a commit only for that commit, and     *)
(* merges at once only what its checks allow.                              *)
Takes(n) ==
    gh[n].state = "open" /\ gh[n].head = land.target /\ (mode = "houston" => ~gh[n].failing)

Refused ==
    /\ (~Takes(land.n) /\ UNCHANGED faults) \/ Fault({"refused"})
    /\ FailUnattended(land.target)
    /\ LandEnds
    /\ UNCHANGED github

(* merge_pinned                                                            *)
LandMerge ==
    /\ land.pc = "act" /\ mode = "houston"
    /\ \/ Refused
       \/ /\ Takes(land.n)
          /\ gh' = [gh EXCEPT ![land.n].state = "merged", ![land.n].armed = FALSE]
          /\ main' = main + 1
          /\ land' = [land EXCEPT !.pc = "remove"]
          /\ UNCHANGED <<rows, faults>>
    /\ UNCHANGED <<paused, run, reader, mode, tested>>

(* A merge, by Houston or by GitHub, is finished: the entry goes, then the *)
(* dependencies on it.                                                     *)
LandRemove ==
    /\ land.pc = "remove"
    /\ rows' = Removed(rows, land.n)
    /\ land' = [land EXCEPT !.pc = "clear"]
    /\ UNCHANGED <<paused, run, reader, github, mode, faults, tested>>

LandClear ==
    /\ land.pc = "clear"
    /\ rows' = Cleared(rows, land.n)
    /\ LandEnds
    /\ UNCHANGED <<paused, run, reader, github, mode, faults, tested>>

(* merge_queue_hand_off: the request, the hold, and the read that confirms *)
(* it.                                                                     *)
HandOff ==
    /\ land.pc = "act" /\ mode # "houston"
    /\ \/ Refused
       \/ /\ Takes(land.n)
          /\ gh' = [gh EXCEPT ![land.n].armed = TRUE]
          /\ land' = [land EXCEPT !.pc = "hold"]
          /\ UNCHANGED <<rows, main, faults>>
    /\ UNCHANGED <<paused, run, reader, mode, tested>>

HandOffHold ==
    LET n == land.n
    IN  /\ land.pc = "hold"
        /\ rows' = Updated(rows, n, [rows[n] EXCEPT !.hold = land.target, !.facts.newer = FALSE])
        /\ land' = [land EXCEPT !.pc = "confirm"]
        /\ UNCHANGED <<paused, run, reader, github, mode, faults, tested>>

(* confirmed: GitHub reports the request against the commit.               *)
Confirmed(r) == r.facts.ok /\ r.facts.armed /\ r.head = land.target

ConfirmFrom(seen, kinds) ==
    LET n == land.n
        after == IF n \in Queued THEN ReadNow(n, seen) ELSE rows
        left == n \notin DOMAIN after
        r == after[n]
    IN  \/ /\ ~left => ~r.facts.merged /\ Confirmed(r)
           /\ rows' = after
           /\ LandEnds
           /\ Fault(kinds) /\ UNCHANGED gh
        \/ /\ ~left /\ r.facts.merged
           /\ rows' = after
           /\ land' = [land EXCEPT !.pc = "remove"]
           /\ Fault(kinds) /\ UNCHANGED gh
        \/ /\ ~left /\ ~r.facts.merged /\ ~Confirmed(r)
           /\ CancelOrWarn(after, n, kinds)
           /\ rows' = Failed(Unheld(after, {n}), n, r.head)
           /\ LandEnds

HandOffConfirm ==
    /\ land.pc = "confirm"
    /\ \/ ConfirmFrom(gh[land.n], {})
       \/ ConfirmFrom(ReadError, {"read failed"})
       \/ LandEnds /\ Fault({"rate limited"}) /\ UNCHANGED <<rows, gh>>
    /\ UNCHANGED <<paused, run, reader, main, mode, tested>>

-----------------------------------------------------------------------------
(* The read pass of the PR watch: the rows are loaded before GitHub is     *)
(* asked, and GitHub answers before the answer is recorded.                *)

NoRead(n) == [pc |-> "none", n |-> n]

(* The pull requests are read in turn.                                     *)
ReadBegin(n) ==
    /\ reader.pc = "none" /\ n \in Queued
    /\ \A m \in Queued : (m > reader.n) => (n > reader.n /\ n <= m)
    /\ (n <= reader.n) => (n = Min(Queued))
    /\ reader' = [pc |-> "ask", n |-> n, loaded |-> Loaded(n), seen |-> Unread]
    /\ UNCHANGED <<rows, paused, run, land, github, mode, faults, tested>>

ReadFetch ==
    /\ reader.pc = "ask"
    /\ \/ reader' = [reader EXCEPT !.pc = "record", !.seen = gh[reader.n]] /\ UNCHANGED faults
       \/ reader' = [reader EXCEPT !.pc = "record", !.seen = ReadError] /\ Fault({"read failed"})
    /\ UNCHANGED <<rows, paused, run, land, github, mode, tested>>

(* The answer is recorded, and heads that moved are taken back at once.    *)
ReadApply ==
    /\ reader.pc = "record"
    /\ TakeBackMoved(ApplyRead(rows, reader.n, reader.loaded, reader.seen))
    /\ reader' = NoRead(reader.n)
    /\ UNCHANGED <<paused, run, land, main, mode, tested>>

-----------------------------------------------------------------------------
(* GitHub, the authors, and the daemon's end                               *)

AuthorPushes(n) ==
    /\ gh[n].state = "open" /\ Fault({"pushed"})
    /\ gh' = [gh EXCEPT ![n].head.src = @ + 1, ![n].failing = FALSE, ![n].armed = @ /\ mode = "auto"]
    /\ UNCHANGED <<daemon, main, mode, tested>>

BaseMoves ==
    /\ Fault({"base moved"})
    /\ main' = main + 1
    /\ UNCHANGED <<daemon, gh, mode, tested>>

ChecksFail(n) ==
    /\ gh[n].state = "open" /\ Fault({"checks failed"})
    /\ gh' = [gh EXCEPT ![n].failing = TRUE]
    /\ UNCHANGED <<daemon, main, mode, tested>>

ThreadOpens(n) ==
    /\ gh[n].state = "open" /\ Fault({"thread opened"})
    /\ gh' = [gh EXCEPT ![n].thread = TRUE]
    /\ UNCHANGED <<daemon, main, mode, tested>>

Merge(n) ==
    /\ gh' = [gh EXCEPT ![n].state = "merged", ![n].armed = FALSE]
    /\ main' = main + 1
    /\ UNCHANGED <<daemon, mode, tested>>

GitHubMerges(n) == gh[n].armed /\ ~gh[n].failing /\ Merge(n) /\ UNCHANGED faults

MergedOutside(n) == gh[n].state = "open" /\ Merge(n) /\ Fault({"merged outside"})

GitHubEjects(n) ==
    /\ gh[n].armed /\ Fault({"ejected"})
    /\ gh' = [gh EXCEPT ![n].armed = FALSE]
    /\ UNCHANGED <<daemon, main, mode, tested>>

Closed(n) ==
    /\ gh[n].state = "open" /\ Fault({"closed"})
    /\ gh' = [gh EXCEPT ![n].state = "closed", ![n].armed = FALSE]
    /\ UNCHANGED <<daemon, main, mode, tested>>

(* The daemon dies and starts again: what it was doing is gone.            *)
Crash ==
    /\ Fault({"crashed"})
    /\ run' = Idle /\ land' = NoLand /\ reader' = NoRead(0)
    /\ UNCHANGED <<rows, paused, github, mode, tested>>

-----------------------------------------------------------------------------

NewPull == [state |-> "open", head |-> Commit(1, 0), armed |-> FALSE, failing |-> FALSE, thread |-> FALSE]

(* All are queued in the order of their numbers, some behind another.      *)
Init ==
    /\ gh = [n \in PRs |-> NewPull]
    /\ \E dep \in [PRs -> PRs \cup {0}] :
          /\ \A n \in PRs : dep[n] < n
          /\ rows = [n \in PRs |-> [pos |-> n, head |-> gh[n].head, dep |-> dep[n], facts |-> FactsOf(gh[n], FALSE),
                                     ver |-> NoVerification, failure |-> NoCommit, hold |-> NoCommit]]
    /\ paused = FALSE /\ run = Idle /\ land = NoLand /\ reader = NoRead(0)
    /\ main = 0
    /\ mode \in Modes
    /\ faults = 0
    /\ tested = [n \in PRs |-> {}]

User ==
    \/ Pause \/ Resume
    \/ \E n \in PRs : Dequeue(n) \/ Retry(n) \/ UserLands(n)
    \/ \E n \in PRs, d \in PRs \cup {0} : Enqueue(n, d)

Runner ==
    \/ WatchMoved \/ WatchCleared \/ VerifyEnd
    \/ \E n \in PRs : WatchMerged(n) \/ WatchLetGo(n) \/ FailPushed(n) \/ VerifyStart(n) \/ RunnerLands(n)

Landing ==
    \/ LandPush \/ LandRead \/ LandMerge \/ LandRemove \/ LandClear
    \/ HandOff \/ HandOffHold \/ HandOffConfirm

Reader == ReadFetch \/ ReadApply \/ \E n \in PRs : ReadBegin(n)

Environment ==
    \/ BaseMoves \/ Crash
    \/ \E n \in PRs : \/ AuthorPushes(n) \/ ChecksFail(n) \/ ThreadOpens(n) \/ Closed(n)
                      \/ GitHubMerges(n) \/ GitHubEjects(n) \/ MergedOutside(n)

Next == User \/ Runner \/ Landing \/ Reader \/ Environment

(* The runner's loop, a landing once begun, and the PR watch go on; GitHub *)
(* merges what it holds and may.  The user and the authors owe nothing.    *)
Fairness ==
    /\ WF_vars(Runner) /\ WF_vars(Landing) /\ WF_vars(Reader)
    /\ WF_vars(\E n \in PRs : GitHubMerges(n))

Spec == Init /\ [][Next]_vars /\ Fairness

-----------------------------------------------------------------------------
Commits == [src : Nat, on : Nat]

(* Every row is a row of a queued pull request, no two share a place, and  *)
(* dependencies never form a cycle: re-enqueues change them in place, and  *)
(* entries come and go in between.                                         *)
TypeOK ==
    /\ Queued \subseteq PRs
    /\ \A n \in Queued :
          /\ {rows[n].head, rows[n].failure, rows[n].hold} \subseteq Commits
          /\ rows[n].dep \in PRs \cup {0}
          /\ rows[n].dep \notin Behind(n)
          /\ \A m \in Queued \ {n} : rows[m].pos # rows[n].pos
    /\ paused \in BOOLEAN /\ main \in Nat /\ mode \in Modes /\ faults \in 0 .. MaxFaults
    /\ \A n \in PRs : gh[n].head \in Commits /\ tested[n] \subseteq Commits

(* Tested equals merged (docs/internals/daemon.md, merge_queue_base_holds):*)
(* when the merge or the hand-off is about to be asked for, the command    *)
(* has passed on what its author wrote, rebased on the base the landing    *)
(* has just fetched, and where Houston pushes it is that very commit.      *)
MergesWhatWasTested ==
    land.pc = "act" =>
        LET tree == Commit(land.target.src, land.base)
        IN  tree \in tested[land.n] /\ (mode # "queue" => land.target = tree)

(* A landing begins only for an entry that waits for no other: not for one *)
(* queued, parked, blocked, behind one of those, or gone without merging.  *)
(* The one exception is an entry whose head GitHub holds already: the line *)
(* gives it the turn before it looks at what it depends on, and a          *)
(* re-enqueue in place may have given it a dependency since.               *)
DependencyFirst == land # NoLand => land.dep = 0 \/ land.held

(* The lease (push_with_lease): the queue's push never takes a branch back *)
(* behind what its author has pushed since the queue read it.              *)
NoWorkLost == [][\A n \in PRs : gh'[n].head.src >= gh[n].head.src]_gh

(* Every entry leaves the queue or stays for a reason the line shows.      *)
(* Whatever was interrupted, refused, ejected or taken back, the daemon    *)
(* killed after the merge and before the entry is removed included, in the *)
(* end no queued entry is merged or closed, none is left with GitHub, and  *)
(* each is parked, behind a parked one, or blocked by what a read said.    *)
Explained(n) ==
    \/ paused
    \/ n \in Line(rows).out
    \/ n \in Line(rows).blocked /\ rows[n].facts.ok

Settles ==
    <>[](\A n \in Queued : gh[n].state = "open" /\ rows[n].hold = NoCommit /\ Explained(n))

(* A hand-off GitHub holds is one the queue knows of: it watches it there, *)
(* or the landing that asked for it is still recording it ("from a read    *)
(* made after the hand-off", merge_queue_github.rs:49).                    *)
HoldsAreKnown ==
    \A n \in PRs : gh[n].armed => \/ n \in Queued /\ rows[n].hold # NoCommit
                                  \/ land.pc = "hold" /\ land.n = n
=============================================================================
