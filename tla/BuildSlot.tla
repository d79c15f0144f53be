----------------------------- MODULE BuildSlot ------------------------------
(***************************************************************************)
(* The one build slot of a Houston daemon (core/houston-core:              *)
(* build_slot.rs and daemon/merge_queue_runner.rs).  The merge queue's     *)
(* verification and Night shift's checks take it inside the daemon;        *)
(* `hs-pane heavy` processes take it over HTTP, as a lease they renew      *)
(* while their command runs and that lapses when they stop.                *)
(*                                                                         *)
(* Calls take time, replies are lost, the daemon restarts.  Time is        *)
(* discrete, one clock for daemon and processes; what a process has to do  *)
(* by a deadline (a renewal that is due, a call that times out) happens    *)
(* before the clock moves on: its polling sleep is below a unit of time.   *)
(***************************************************************************)
EXTENDS Naturals, FiniteSets

CONSTANTS
    Clis,         \* hs-pane heavy processes; each is granted one lease at most
    Ttl,          \* LEASE_TTL_MS
    RenewEvery,   \* RENEW_EVERY
    CallMax,      \* CLI_HTTP_TIMEOUT
    MaxTime,      \* bound: the clock
    MaxRestarts   \* bound: restarts of the daemon

(* The builds inside the daemon: a verification, Night shift's checks.     *)
Builders == {"merge", "night"}

ASSUME BuildSlotAssumption ==
    /\ Ttl \in Nat /\ RenewEvery \in Nat \ {0} /\ CallMax \in Nat
    /\ MaxTime \in Nat /\ MaxRestarts \in Nat
    /\ "free" \notin Clis /\ Builders \cap Clis = {}

VARIABLES
    now,        \* the clock
    slot,       \* merge_queue_slot: who holds it, and until when for a lease
    building,   \* the builds running inside the daemon
    low,        \* free memory is below the floor
    requests,   \* calls on their way to the daemon
    cli,        \* the processes: where each is, its clocks, the reply it has
    restarts    \* history: restarts so far

vars == <<now, slot, building, low, requests, cli, restarts>>

Free == [holder |-> "free", expires |-> 0]

(* A process with no answer yet to what it asked last.                     *)
Proc(pc, asked, renewed) ==
    [pc |-> pc, asked |-> asked, renewed |-> renewed, reply |-> "none"]

(* No call under way and no command: the clocks are unused.                *)
Idle(pc) == Proc(pc, 0, 0)

Init ==
    /\ now = 0
    /\ slot = Free
    /\ building = {}
    /\ low \in BOOLEAN
    /\ requests = {}
    /\ cli = [c \in Clis |-> Idle("waiting")]
    /\ restarts = 0

(* The command of c runs: between the grant and the end of the command.    *)
Running(c) == cli[c].pc \in {"running", "renewing"}

Calling(c) == cli[c].pc \in {"acquiring", "renewing", "releasing"}

ExpiredMutant == slot.holder \in Clis /\ now + 1 >= slot.expires

(* Lease::expired.                                                         *)
Expired == slot.holder \in Clis /\ now >= slot.expires

Taken == slot.holder # "free" /\ ~Expired

-----------------------------------------------------------------------------
(* Builds inside the daemon.                                               *)

(* night_take_build_slot looks at the memory floor (before it locks the    *)
(* slot; here in one step), merge_queue_take_slot does not.                *)
Take(b) ==
    /\ b \notin building /\ ~Taken
    /\ b = "night" => ~low
    /\ slot' = [holder |-> b, expires |-> 0]
    /\ building' = building \cup {b}
    /\ UNCHANGED <<now, low, requests, cli, restarts>>

(* However the build ends, dropping Slot frees the slot.                   *)
Finish(b) ==
    /\ b \in building
    /\ slot' = Free
    /\ building' = building \ {b}
    /\ UNCHANGED <<now, low, requests, cli, restarts>>

-----------------------------------------------------------------------------
(* build_slot_request.                                                     *)

HeldBy(c) == slot.holder = c

Lease(c) == [holder |-> c, expires |-> now + Ttl]

GrantMutant(r) == r.action = "acquire" /\ ~low

(* What a request does to the slot, and what is answered.                  *)
Grant(r) == r.action = "acquire" /\ ~Taken /\ ~low

SlotAfter(r) ==
    IF Grant(r) \/ (r.action = "renew" /\ HeldBy(r.cli)) THEN Lease(r.cli)
    ELSE IF r.action = "release" /\ HeldBy(r.cli) THEN Free
    ELSE slot

AnswerMutant(r) ==
    IF r.action = "acquire" THEN IF Grant(r) THEN "granted" ELSE slot.holder
    ELSE IF HeldBy(r.cli) THEN "done" ELSE "refused"

Answer(r) ==
    IF r.action = "acquire" THEN IF Grant(r) THEN "granted" ELSE "holder"
    ELSE IF HeldBy(r.cli) THEN "done" ELSE "refused"

CallOf(action) == CASE action = "acquire" -> "acquiring"
                    [] action = "renew"   -> "renewing"
                    [] action = "release" -> "releasing"

(* The daemon handles a request; a process that has given up on it gets no *)
(* answer.                                                                 *)
Handle(r) ==
    /\ r \in requests
    /\ requests' = requests \ {r}
    /\ slot' = SlotAfter(r)
    /\ cli' = IF cli[r.cli].pc = CallOf(r.action) /\ cli[r.cli].asked = r.at
              THEN [cli EXCEPT ![r.cli].reply = Answer(r)] ELSE cli
    /\ UNCHANGED <<now, building, low, restarts>>

-----------------------------------------------------------------------------
(* hs-pane heavy: run_with.                                                *)

Call(c, action) ==
    /\ cli' = [cli EXCEPT ![c] = Proc(CallOf(action), now, @.renewed)]
    /\ requests' = requests \cup {[cli |-> c, action |-> action, at |-> now]}
    /\ UNCHANGED <<now, slot, building, low, restarts>>

(* Also the poll of a process that was told who holds the slot.            *)
Acquire(c) == cli[c].pc = "waiting" /\ Call(c, "acquire")

(* The lease has arrived: the command is started and the clocks with it.   *)
Start(c) ==
    /\ cli[c].pc = "acquiring" /\ cli[c].reply = "granted"
    /\ cli' = [cli EXCEPT ![c] = Proc("running", now, now)]
    /\ UNCHANGED <<now, slot, building, low, requests, restarts>>

(* The command cannot be started: the slot is given back.                  *)
SpawnFails(c) ==
    /\ cli[c].pc = "acquiring" /\ cli[c].reply = "granted"
    /\ Call(c, "release")

(* Another build holds the slot, or memory is low: it will ask again.      *)
Told(c) ==
    /\ cli[c].pc = "acquiring" /\ cli[c].reply = "holder"
    /\ cli' = [cli EXCEPT ![c] = Idle("waiting")]
    /\ UNCHANGED <<now, slot, building, low, requests, restarts>>

Due(c) == now >= cli[c].asked + RenewEvery

LapsedMutant(c) == FALSE

Lapsed(c) == now >= cli[c].renewed + Ttl

Renew(c) == cli[c].pc = "running" /\ Due(c) /\ Call(c, "renew")

Renewed(c) ==
    /\ cli[c].pc = "renewing" /\ cli[c].reply = "done"
    /\ cli' = [cli EXCEPT ![c] = Proc("running", @.asked, now)]
    /\ UNCHANGED <<now, slot, building, low, requests, restarts>>

(* A renewal that failed, was refused or timed out; the deadline is        *)
(* looked at before the next one is sent.                                  *)
RenewFails(c) ==
    /\ cli[c].pc = "renewing" /\ cli[c].reply # "done"
    /\ cli' = [cli EXCEPT ![c] = IF Lapsed(c) THEN Idle("stopped")
                                 ELSE Proc("running", @.asked, @.renewed)]
    /\ UNCHANGED <<now, slot, building, low, requests, restarts>>

(* The command is stopped; the slot is not given back.                     *)
Lapse(c) ==
    /\ cli[c].pc = "running" /\ ~Due(c) /\ Lapsed(c)
    /\ cli' = [cli EXCEPT ![c] = Idle("stopped")]
    /\ UNCHANGED <<now, slot, building, low, requests, restarts>>

CommandEnds(c) == cli[c].pc = "running" /\ Call(c, "release")

(* The process leaves: its first call failed (with or without having       *)
(* reached the daemon), its release was answered or failed, or its pane    *)
(* was killed, and the command with it.                                    *)
Leave(c) ==
    /\ cli[c].pc \notin {"stopped", "left"}
    /\ cli' = [cli EXCEPT ![c] = Idle("left")]
    /\ UNCHANGED <<now, slot, building, low, requests, restarts>>

-----------------------------------------------------------------------------
(* Around the slot.                                                        *)

(* A request is lost before the daemon reads it.                           *)
Lose(r) ==
    /\ r \in requests
    /\ requests' = requests \ {r}
    /\ UNCHANGED <<now, slot, building, low, cli, restarts>>

MemoryChanges ==
    /\ low' = ~low
    /\ UNCHANGED <<now, slot, building, requests, cli, restarts>>

(* The slot lives in the daemon's memory; its builds end with it, the      *)
(* commands in the panes do not.                                           *)
DaemonRestarts ==
    /\ restarts < MaxRestarts
    /\ restarts' = restarts + 1
    /\ slot' = Free
    /\ building' = {}
    /\ requests' = {}
    /\ UNCHANGED <<now, low, cli>>

(* Time passes when no process has something to do.                        *)
Tick ==
    /\ now < MaxTime
    /\ \A c \in Clis : /\ Calling(c) => now < cli[c].asked + CallMax
                       /\ cli[c].pc = "running" => ~Due(c) /\ ~Lapsed(c)
    /\ now' = now + 1
    /\ UNCHANGED <<slot, building, low, requests, cli, restarts>>

Next ==
    \/ \E b \in Builders : Take(b) \/ Finish(b)
    \/ \E r \in requests : Handle(r) \/ Lose(r)
    \/ \E c \in Clis : \/ Acquire(c) \/ Start(c) \/ SpawnFails(c) \/ Told(c)
                       \/ Renew(c) \/ Renewed(c) \/ RenewFails(c) \/ Lapse(c)
                       \/ CommandEnds(c) \/ Leave(c)
    \/ MemoryChanges \/ DaemonRestarts \/ Tick

Spec == Init /\ [][Next]_vars

-----------------------------------------------------------------------------
(* Properties.                                                             *)

Request == [cli : Clis, action : {"acquire", "renew", "release"}, at : Nat]

Cli == [pc : {"waiting", "acquiring", "running", "renewing", "releasing",
              "stopped", "left"},
        asked : Nat, renewed : Nat,
        reply : {"none", "granted", "holder", "done", "refused"}]

(* Type invariant of the daemon's slot and of the processes.               *)
TypeOK ==
    /\ now \in Nat
    /\ slot \in [holder : Clis \cup Builders \cup {"free"}, expires : Nat]
    /\ building \subseteq Builders
    /\ low \in BOOLEAN
    /\ requests \subseteq Request
    /\ cli \in [Clis -> Cli]
    /\ restarts \in Nat

(* A command whose renewal came back less than Ttl - CallMax ago holds the *)
(* slot: whatever calls were slow, lost or late, nothing else is granted   *)
(* it before.  (A daemon that restarts forgets the lease.)                 *)
SafeWindow ==
    restarts = 0 =>
        \A c \in Clis : Running(c) /\ now + CallMax < cli[c].renewed + Ttl
                        => HeldBy(c)

(* A command outlives its lease by one slow call at the most: also when    *)
(* the daemon has restarted, or answers nothing any more.                  *)
StopsInTime ==
    \A c \in Clis : Running(c) => now <= cli[c].renewed + Ttl + CallMax

(* The builds inside the daemon never share the slot, with each other or   *)
(* with a lease that has not run out.                                      *)
BuildHoldsSlot ==
    \A b \in Builders : b \in building => slot.holder = b /\ building = {b}

=============================================================================
