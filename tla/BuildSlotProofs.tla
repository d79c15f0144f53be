-------------------------- MODULE BuildSlotProofs ---------------------------
(***************************************************************************)
(* What the build slot guarantees for every number of processes, lease     *)
(* lifetime, renewal period and call timeout.                              *)
(***************************************************************************)
EXTENDS BuildSlot, TLAPS

(* The clocks of a process are in the past, and no call is older than its  *)
(* timeout.                                                                *)
Clocks ==
    \A c \in Clis : /\ cli[c].asked <= now /\ cli[c].renewed <= now
                    /\ Calling(c) => now <= cli[c].asked + CallMax

(* A running command is stopped at its deadline; a renewal sent before it  *)
(* may keep the process past it.                                           *)
Deadline ==
    \A c \in Clis : /\ cli[c].pc = "running" => now <= cli[c].renewed + Ttl
                    /\ cli[c].pc = "renewing" =>
                           cli[c].asked <= cli[c].renewed + Ttl

Builds == \A b \in Builders : b \in building => slot.holder = b

(* Only a process that is done with its command gives the slot back.       *)
Releases ==
    \A r \in requests :
        r.action = "release" => cli[r.cli].pc \in {"releasing", "left"}

(* An answer on its way to c: the lease it grants or extends is still c's  *)
(* unless it has run out.                                                  *)
Answered(c) ==
    cli[c].pc \in {"acquiring", "renewing"} /\ cli[c].reply \in {"granted", "done"}
    => \/ HeldBy(c) /\ cli[c].asked + Ttl <= slot.expires
       \/ cli[c].asked + Ttl <= now

(* The lease of a running command, which c believes to be younger than it  *)
(* is by CallMax at the most.                                              *)
Leased(c) ==
    Running(c) => \/ HeldBy(c) /\ cli[c].renewed + Ttl <= slot.expires + CallMax
                  \/ cli[c].renewed + Ttl <= now + CallMax

Leases == restarts = 0 => \A c \in Clis : Answered(c) /\ Leased(c)

SlotInv == TypeOK /\ Clocks /\ Deadline /\ Builds /\ Releases /\ Leases

CliStep(c) == \/ Acquire(c) \/ Start(c) \/ SpawnFails(c) \/ Told(c)
              \/ Renew(c) \/ Renewed(c) \/ RenewFails(c) \/ Lapse(c)
              \/ CommandEnds(c) \/ Leave(c)

(* The records a process moves to.                                         *)
LEMMA ProcType ==
    ASSUME NEW pc \in {"waiting", "acquiring", "running", "renewing",
                       "releasing", "stopped", "left"},
           NEW asked \in Nat, NEW renewed \in Nat
    PROVE  Proc(pc, asked, renewed) \in Cli
BY DEF Proc, Cli

(* A process moves and the others stay where they are.                     *)
LEMMA Moved ==
    ASSUME TypeOK, NEW c \in Clis, NEW p \in Cli, cli' = [cli EXCEPT ![c] = p]
    PROVE  /\ cli' \in [Clis -> Cli]
           /\ cli'[c] = p
           /\ \A d \in Clis \ {c} : cli'[d] = cli[d]
BY DEF TypeOK

(* A request that is handled: its process keeps its place and its clocks,  *)
(* and gets an answer if it still waits for that call.                     *)
LEMMA Heard ==
    ASSUME TypeOK, NEW r \in requests, Handle(r)
    PROVE  /\ r.cli \in Clis
           /\ cli' \in [Clis -> Cli]
           /\ \A d \in Clis : /\ cli'[d].pc = cli[d].pc
                              /\ cli'[d].asked = cli[d].asked
                              /\ cli'[d].renewed = cli[d].renewed
           /\ \A d \in Clis : \/ cli'[d].reply = cli[d].reply
                              \/ /\ d = r.cli /\ cli[d].pc = CallOf(r.action)
                                 /\ cli'[d].reply = Answer(r)
<1>1. r.cli \in Clis
    BY DEF TypeOK, Request
<1>2. Answer(r) \in {"granted", "holder", "done", "refused"}
    BY DEF Answer
<1>3. CASE cli' = cli
    BY <1>1, <1>3 DEF TypeOK
<1>4. CASE cli' # cli
  <2> DEFINE p == [cli[r.cli] EXCEPT !.reply = Answer(r)]
  <2>1. cli' = [cli EXCEPT ![r.cli] = p] /\ cli[r.cli].pc = CallOf(r.action)
      BY <1>4 DEF Handle
  <2>2. /\ p \in Cli
        /\ p.pc = cli[r.cli].pc /\ p.asked = cli[r.cli].asked
        /\ p.renewed = cli[r.cli].renewed /\ p.reply = Answer(r)
      BY <1>1, <1>2 DEF TypeOK, Cli
  <2> HIDE DEF p
  <2> QED BY <1>1, <2>1, <2>2, Moved
<1> QED BY <1>3, <1>4

(* The actions keep the types.                                             *)
LEMMA TypeStep == TypeOK /\ [Next]_vars => TypeOK'
<1> SUFFICES ASSUME TypeOK, [Next]_vars PROVE TypeOK'
    OBVIOUS
<1> USE BuildSlotAssumption DEF Builders
<1>1. ASSUME NEW b \in Builders, Take(b) PROVE TypeOK'
    BY <1>1 DEF Take, TypeOK
<1>2. ASSUME NEW b \in Builders, Finish(b) PROVE TypeOK'
    BY <1>2 DEF Finish, Free, TypeOK
<1>3. ASSUME NEW r \in requests, Handle(r) PROVE TypeOK'
  <2>1. slot' \in [holder : Clis \cup Builders \cup {"free"}, expires : Nat]
      BY <1>3 DEF Handle, SlotAfter, Lease, Free, TypeOK, Request
  <2>3. cli' \in [Clis -> Cli]
      BY <1>3, Heard
  <2> QED BY <1>3, <2>1, <2>3 DEF Handle, TypeOK
<1>4. ASSUME NEW r \in requests, Lose(r) PROVE TypeOK'
    BY <1>4 DEF Lose, TypeOK
<1>5. ASSUME NEW c \in Clis, NEW a \in {"acquire", "renew", "release"}, Call(c, a)
      PROVE TypeOK'
  <2>1. CallOf(a) \in {"acquiring", "renewing", "releasing"}
      BY DEF CallOf
  <2>2. now \in Nat /\ cli[c].renewed \in Nat
      BY DEF TypeOK, Cli
  <2>3. cli' \in [Clis -> Cli]
      BY <1>5, <2>1, <2>2, Moved, ProcType DEF Call
  <2>4. [cli |-> c, action |-> a, at |-> now] \in Request
      BY <2>2 DEF Request
  <2>5. requests' \subseteq Request
      BY <1>5, <2>4 DEF Call, TypeOK
  <2> QED BY <1>5, <2>3, <2>5 DEF Call, TypeOK
<1>6. ASSUME NEW c \in Clis, CliStep(c) PROVE TypeOK'
  <2>0. now \in Nat /\ cli[c].asked \in Nat /\ cli[c].renewed \in Nat
      BY DEF TypeOK, Cli
  <2>1. CASE \/ Acquire(c) \/ SpawnFails(c) \/ Renew(c) \/ CommandEnds(c)
      BY <2>1, <1>5 DEF Acquire, SpawnFails, Renew, CommandEnds
  <2>2. CASE Start(c)
    <3>1. cli' \in [Clis -> Cli]
        BY <2>0, <2>2, Moved, ProcType DEF Start
    <3> QED BY <2>2, <3>1 DEF Start, TypeOK
  <2>3. CASE Renewed(c)
    <3>1. cli' \in [Clis -> Cli]
        BY <2>0, <2>3, Moved, ProcType DEF Renewed
    <3> QED BY <2>3, <3>1 DEF Renewed, TypeOK
  <2>4. CASE Told(c) \/ Lapse(c) \/ Leave(c)
    <3>1. cli' \in [Clis -> Cli]
        BY <2>4, Moved, ProcType DEF Told, Lapse, Leave, Idle
    <3> QED BY <2>4, <3>1 DEF Told, Lapse, Leave, TypeOK
  <2>5. CASE RenewFails(c)
    <3>1. cli' \in [Clis -> Cli]
        BY <2>0, <2>5, Moved, ProcType DEF RenewFails, Idle
    <3> QED BY <2>5, <3>1 DEF RenewFails, TypeOK
  <2> QED BY <1>6, <2>1, <2>2, <2>3, <2>4, <2>5 DEF CliStep
<1>7. CASE MemoryChanges
  <2>1. low' \in BOOLEAN
      BY <1>7, Zenon DEF MemoryChanges
  <2> QED BY <1>7, <2>1 DEF MemoryChanges, TypeOK
<1>8. CASE DaemonRestarts
    BY <1>8 DEF DaemonRestarts, Free, TypeOK
<1>9. CASE Tick
    BY <1>9 DEF Tick, TypeOK
<1>10. CASE UNCHANGED vars
    BY <1>10 DEF vars, TypeOK
<1> QED
    BY <1>1, <1>2, <1>3, <1>4, <1>6, <1>7, <1>8, <1>9, <1>10 DEF Next, CliStep

(* Every reachable state of the slot and of its processes is well typed.   *)
THEOREM SlotTypeCorrect == Spec => []TypeOK
<1>1. Init => TypeOK
    BY BuildSlotAssumption DEF Init, TypeOK, Cli, Free, Idle, Proc, Builders
<1> QED BY <1>1, TypeStep, PTL DEF Spec

-----------------------------------------------------------------------------
(* The steps of the inductive invariant, one lemma for each kind of step.  *)

(* A request that is handled.  The slot changes hands only when it is free *)
(* or its lease has run out, and only its holder gives it back.            *)
LEMMA HandleStep ==
    ASSUME SlotInv, NEW r \in requests, Handle(r)
    PROVE  Clocks' /\ Deadline' /\ Builds' /\ Releases' /\ Leases'
<1> USE BuildSlotAssumption
<1>0. TypeOK /\ Clocks /\ Deadline /\ Builds /\ Releases /\ Leases
    BY DEF SlotInv
<1>1. /\ r.cli \in Clis
      /\ \A d \in Clis : /\ cli'[d].pc = cli[d].pc
                         /\ cli'[d].asked = cli[d].asked
                         /\ cli'[d].renewed = cli[d].renewed
      /\ \A d \in Clis : \/ cli'[d].reply = cli[d].reply
                         \/ /\ d = r.cli /\ cli[d].pc = CallOf(r.action)
                            /\ cli'[d].reply = Answer(r)
    BY <1>0, Heard
<1>2. /\ slot' = SlotAfter(r) /\ requests' \subseteq requests
      /\ now' = now /\ building' = building /\ restarts' = restarts
    BY DEF Handle
<1>3. Clocks' /\ Deadline'
    BY <1>0, <1>1, <1>2 DEF Clocks, Deadline, Calling
<1>4. Builds'
  <2> SUFFICES ASSUME NEW b \in Builders, b \in building PROVE slot'.holder = b
      BY <1>2 DEF Builds
  <2>1. slot.holder = b /\ b \notin Clis /\ b # "free"
      BY <1>0 DEF Builds, Builders
  <2>2. Taken /\ ~HeldBy(r.cli)
      BY <1>1, <2>1 DEF Taken, Expired, HeldBy
  <2> QED BY <1>2, <2>1, <2>2 DEF SlotAfter, Grant
<1>5. Releases'
  <2>1. \A q \in requests : q.cli \in Clis
      BY <1>0 DEF TypeOK, Request
  <2> QED BY <1>0, <1>1, <1>2, <2>1 DEF Releases
<1>6. Leases'
  <2> SUFFICES ASSUME restarts = 0, NEW c \in Clis PROVE Answered(c)' /\ Leased(c)'
      BY <1>2 DEF Leases
  <2>1. Answered(c) /\ Leased(c)
      BY <1>0 DEF Leases
  <2>2. /\ now \in Nat /\ slot.expires \in Nat
        /\ cli[c].asked \in Nat /\ cli[c].renewed \in Nat
        /\ cli[c].asked <= now /\ cli[c].renewed <= now
      BY <1>0 DEF TypeOK, Cli, Clocks
  <2>3. CASE SlotAfter(r) = slot /\ cli'[c].reply = cli[c].reply
      BY <1>1, <1>2, <2>1, <2>3 DEF Answered, Leased, HeldBy, Running
  <2>4. CASE slot' = Lease(c)
    <3>1. slot'.holder = c /\ slot'.expires = now + Ttl
        BY <2>4 DEF Lease
    <3> QED BY <1>1, <1>2, <2>2, <3>1 DEF Answered, Leased, HeldBy
  <2>5. CASE SlotAfter(r) = slot /\ cli'[c].reply # cli[c].reply
    <3>1. c = r.cli /\ cli[c].pc = CallOf(r.action) /\ cli'[c].reply = Answer(r)
        BY <1>1, <2>5
    <3>2. CASE Answer(r) \in {"granted", "done"} /\ r.action # "release"
      <4>0. r.action \in {"acquire", "renew"}
          BY <1>0, <3>2 DEF TypeOK, Request
      <4>1. SlotAfter(r) = Lease(c)
          BY <3>1, <3>2, <4>0 DEF Answer, SlotAfter
      <4> QED BY <1>2, <2>4, <4>1
    <3>3. CASE Answer(r) \notin {"granted", "done"} \/ r.action = "release"
      <4>1. Answered(c)'
          BY <1>1, <3>1, <3>3 DEF Answered, CallOf
      <4>2. Leased(c)'
          BY <1>1, <1>2, <2>1, <2>5 DEF Leased, HeldBy, Running
      <4> QED BY <4>1, <4>2
    <3> QED BY <3>2, <3>3
  <2>6. CASE SlotAfter(r) # slot /\ slot' # Lease(c) /\ r.action = "release"
    <3>1. HeldBy(r.cli) /\ cli[r.cli].pc \in {"releasing", "left"}
        BY <1>0, <2>6 DEF SlotAfter, Grant, Releases
    <3>2. CASE c = r.cli
        BY <1>1, <3>1, <3>2 DEF Answered, Leased, Running
    <3>3. CASE c # r.cli
      <4>1. ~HeldBy(c) /\ cli'[c].reply = cli[c].reply
          BY <1>1, <3>1, <3>3 DEF HeldBy
      <4> QED BY <1>1, <1>2, <2>1, <2>2, <4>1 DEF Answered, Leased, HeldBy, Running
    <3> QED BY <3>2, <3>3
  <2>7. CASE SlotAfter(r) # slot /\ slot' # Lease(c) /\ r.action # "release"
    <3>1. slot' = Lease(r.cli) /\ (~Taken \/ HeldBy(r.cli)) /\ c # r.cli
        BY <1>2, <2>7 DEF SlotAfter, Grant
    <3>2. ~HeldBy(c) \/ slot.expires <= now
        BY <1>1, <2>2, <3>1 DEF Taken, Expired, HeldBy
    <3>3. cli'[c].reply = cli[c].reply
        BY <1>1, <3>1
    <3>4. slot.expires <= now => slot.expires + CallMax <= now + CallMax
        BY <2>2
    <3>5. Answered(c)'
        BY <1>1, <1>2, <2>1, <2>2, <3>2, <3>3 DEF Answered, HeldBy
    <3>6. Leased(c)'
        BY <1>1, <1>2, <2>1, <2>2, <3>2, <3>4 DEF Leased, HeldBy, Running
    <3> QED BY <3>5, <3>6
  <2> QED BY <1>2, <2>3, <2>4, <2>5, <2>6, <2>7
<1> QED BY <1>3, <1>4, <1>5, <1>6

(* A process calls the daemon.                                             *)
LEMMA CallStep ==
    ASSUME SlotInv, NEW c \in Clis, NEW a \in {"acquire", "renew", "release"},
           Call(c, a),
           a = "acquire" => cli[c].pc = "waiting",
           a = "renew" => cli[c].pc = "running",
           a = "release" => cli[c].pc \in {"acquiring", "running"}
    PROVE  Clocks' /\ Deadline' /\ Builds' /\ Releases' /\ Leases'
<1> USE BuildSlotAssumption
<1>0. TypeOK /\ Clocks /\ Deadline /\ Builds /\ Releases /\ Leases
    BY DEF SlotInv
<1>1. /\ now \in Nat
      /\ \A d \in Clis : cli[d].renewed \in Nat /\ cli[d].asked \in Nat
      /\ CallOf(a) \in {"acquiring", "renewing", "releasing"}
    BY <1>0 DEF TypeOK, Cli, CallOf
<1>2. /\ cli'[c] = Proc(CallOf(a), now, cli[c].renewed)
      /\ \A d \in Clis \ {c} : cli'[d] = cli[d]
    BY <1>0, <1>1, Moved, ProcType DEF Call
<1>3. /\ cli'[c].pc = CallOf(a) /\ cli'[c].asked = now
      /\ cli'[c].renewed = cli[c].renewed /\ cli'[c].reply = "none"
    BY <1>2 DEF Proc
<1>4. /\ requests' = requests \cup {[cli |-> c, action |-> a, at |-> now]}
      /\ now' = now /\ slot' = slot /\ building' = building /\ restarts' = restarts
    BY DEF Call
<1>5. Clocks'
    BY <1>0, <1>1, <1>2, <1>3, <1>4 DEF Clocks, Calling
<1>6. Deadline'
    BY <1>0, <1>1, <1>2, <1>3, <1>4 DEF Deadline, CallOf
<1>7. Builds'
    BY <1>0, <1>4 DEF Builds
<1>8. Releases'
  <2> SUFFICES ASSUME NEW q \in requests', q.action = "release"
               PROVE  cli'[q.cli].pc \in {"releasing", "left"}
      BY DEF Releases
  <2>1. CASE q \in requests
    <3>1. q.cli \in Clis /\ cli[q.cli].pc \in {"releasing", "left"}
        BY <1>0, <2>1 DEF TypeOK, Request, Releases
    <3> QED BY <1>2, <3>1
  <2>2. CASE q = [cli |-> c, action |-> a, at |-> now]
      BY <1>3, <2>2 DEF CallOf
  <2> QED BY <1>4, <2>1, <2>2
<1>9. Leases'
  <2> SUFFICES ASSUME restarts = 0, NEW d \in Clis PROVE Answered(d)' /\ Leased(d)'
      BY <1>4 DEF Leases
  <2>1. Answered(d) /\ Leased(d)
      BY <1>0 DEF Leases
  <2>2. CASE d # c
      BY <1>2, <1>4, <2>1, <2>2 DEF Answered, Leased, HeldBy, Running
  <2>3. CASE d = c
    <3>1. Answered(c)'
        BY <1>3 DEF Answered
    <3>2. CASE a = "renew"
        BY <1>3, <1>4, <2>1, <2>3, <3>1, <3>2 DEF Leased, HeldBy, Running
    <3>3. CASE a # "renew"
      <4>1. ~Running(c)'
          BY <1>3, <3>3 DEF Running, CallOf
      <4> QED BY <2>3, <3>1, <4>1 DEF Leased
    <3> QED BY <2>3, <3>2, <3>3
  <2> QED BY <2>2, <2>3
<1> QED BY <1>5, <1>6, <1>7, <1>8, <1>9

(* A process goes on without calling: its command starts, is renewed, is   *)
(* stopped, or it waits, or leaves.                                        *)
LEMMA MoveStep ==
    ASSUME SlotInv, NEW c \in Clis,
           \/ Start(c) \/ Renewed(c) \/ RenewFails(c)
           \/ Told(c) \/ Lapse(c) \/ Leave(c)
    PROVE  Clocks' /\ Deadline' /\ Builds' /\ Releases' /\ Leases'
<1> USE BuildSlotAssumption
<1>0. TypeOK /\ Clocks /\ Deadline /\ Builds /\ Releases /\ Leases
    BY DEF SlotInv
<1>1. /\ now \in Nat /\ slot.expires \in Nat
      /\ \A d \in Clis : cli[d].renewed \in Nat /\ cli[d].asked \in Nat
    BY <1>0 DEF TypeOK, Cli
<1>2. /\ now' = now /\ slot' = slot /\ building' = building
      /\ restarts' = restarts /\ requests' = requests
    BY DEF Start, Renewed, RenewFails, Told, Lapse, Leave
<1>3. /\ \A d \in Clis \ {c} : cli'[d] = cli[d]
      /\ cli'[c].reply = "none"
      /\ \/ /\ cli'[c].pc \in {"waiting", "stopped", "left"}
            /\ cli'[c].asked = 0 /\ cli'[c].renewed = 0
            /\ cli[c].pc \in {"releasing", "left"} => cli'[c].pc = "left"
         \/ /\ cli'[c].pc = "running" /\ cli[c].pc = "acquiring"
            /\ cli[c].reply = "granted"
            /\ cli'[c].asked = now /\ cli'[c].renewed = now
         \/ /\ cli'[c].pc = "running" /\ cli[c].pc = "renewing"
            /\ cli[c].reply = "done"
            /\ cli'[c].asked = cli[c].asked /\ cli'[c].renewed = now
         \/ /\ cli'[c].pc = "running" /\ cli[c].pc = "renewing" /\ ~Lapsed(c)
            /\ cli'[c].asked = cli[c].asked
            /\ cli'[c].renewed = cli[c].renewed
  <2>1. CASE Start(c)
      BY <1>0, <1>1, <2>1, Moved, ProcType DEF Start, Proc
  <2>2. CASE Renewed(c)
      BY <1>0, <1>1, <2>2, Moved, ProcType DEF Renewed, Proc
  <2>3. CASE RenewFails(c) /\ ~Lapsed(c)
      BY <1>0, <1>1, <2>3, Moved, ProcType DEF RenewFails, Proc
  <2>4. CASE RenewFails(c) /\ Lapsed(c)
      BY <1>0, <2>4, Moved, ProcType DEF RenewFails, Idle, Proc
  <2>5. CASE Told(c)
      BY <1>0, <2>5, Moved, ProcType DEF Told, Idle, Proc
  <2>7. CASE Lapse(c)
      BY <1>0, <2>7, Moved, ProcType DEF Lapse, Idle, Proc
  <2>6. CASE Leave(c)
      BY <1>0, <2>6, Moved, ProcType DEF Leave, Idle, Proc
  <2> QED BY <2>1, <2>2, <2>3, <2>4, <2>5, <2>6, <2>7
<1>4. Clocks'
    BY <1>0, <1>1, <1>2, <1>3 DEF Clocks, Calling
<1>5. Deadline'
  <2>1. \A d \in Clis \ {c} :
            /\ cli'[d].pc = "running" => now <= cli'[d].renewed + Ttl
            /\ cli'[d].pc = "renewing" => cli'[d].asked <= cli'[d].renewed + Ttl
      BY <1>0, <1>3 DEF Deadline
  <2>2. cli'[c].pc = "running" => now <= cli'[c].renewed + Ttl
    <3>1. CASE cli'[c].renewed = now
        BY <1>1, <3>1
    <3>2. CASE cli'[c].renewed = cli[c].renewed /\ ~Lapsed(c)
        BY <1>1, <3>2 DEF Lapsed
    <3> QED BY <1>3, <3>1, <3>2
  <2>3. cli'[c].pc # "renewing"
      BY <1>3
  <2> QED BY <1>2, <2>1, <2>2, <2>3 DEF Deadline
<1>6. Builds'
    BY <1>0, <1>2 DEF Builds
<1>7. Releases'
  <2> SUFFICES ASSUME NEW q \in requests, q.action = "release"
               PROVE  cli'[q.cli].pc \in {"releasing", "left"}
      BY <1>2 DEF Releases
  <2>1. q.cli \in Clis /\ cli[q.cli].pc \in {"releasing", "left"}
      BY <1>0 DEF TypeOK, Request, Releases
  <2> QED BY <1>3, <2>1
<1>8. Leases'
  <2> SUFFICES ASSUME restarts = 0, NEW d \in Clis PROVE Answered(d)' /\ Leased(d)'
      BY <1>2 DEF Leases
  <2>1. Answered(d) /\ Leased(d)
      BY <1>0 DEF Leases
  <2>2. CASE d # c
      BY <1>2, <1>3, <2>1, <2>2 DEF Answered, Leased, HeldBy, Running
  <2>3. CASE d = c
    <3>1. Answered(c)'
        BY <1>3 DEF Answered
    <3>2. CASE cli'[c].pc # "running"
        BY <1>3, <2>3, <3>1, <3>2 DEF Leased, Running
    <3>3. CASE cli'[c].pc = "running" /\ cli'[c].renewed = now
              /\ cli[c].pc \in {"acquiring", "renewing"}
              /\ cli[c].reply \in {"granted", "done"}
      <4>1. now <= cli[c].asked + CallMax
          BY <1>0, <3>3 DEF Clocks, Calling
      <4>2. \/ HeldBy(c) /\ cli[c].asked + Ttl <= slot.expires
            \/ cli[c].asked + Ttl <= now
          BY <2>1, <2>3, <3>3 DEF Answered
      <4>3. \/ HeldBy(c) /\ now + Ttl <= slot.expires + CallMax
            \/ now + Ttl <= now + CallMax
          BY <1>1, <4>1, <4>2
      <4> QED BY <1>2, <2>3, <3>1, <3>3, <4>3 DEF Leased, HeldBy
    <3>4. CASE cli'[c].renewed = cli[c].renewed /\ cli[c].pc = "renewing"
        BY <1>2, <2>1, <2>3, <3>1, <3>4 DEF Leased, HeldBy, Running
    <3> QED BY <1>3, <2>3, <3>2, <3>3, <3>4
  <2> QED BY <2>2, <2>3
<1> QED BY <1>4, <1>5, <1>6, <1>7, <1>8

(* Every step keeps the inductive invariant.                               *)
LEMMA SlotStep == SlotInv /\ [Next]_vars => SlotInv'
<1> SUFFICES ASSUME SlotInv, [Next]_vars PROVE SlotInv'
    OBVIOUS
<1> USE BuildSlotAssumption
<1>0. TypeOK /\ Clocks /\ Deadline /\ Builds /\ Releases /\ Leases
    BY DEF SlotInv
<1>t. TypeOK'
    BY <1>0, TypeStep
<1> DEFINE Rest == Clocks /\ Deadline /\ Builds /\ Releases /\ Leases
<1>1. ASSUME NEW b \in Builders, Take(b) PROVE Rest'
  <2>1. /\ slot'.holder = b /\ building' = building \cup {b} /\ ~Taken
        /\ now' = now /\ cli' = cli /\ requests' = requests /\ restarts' = restarts
      BY <1>1 DEF Take
  <2>2. Builds'
    <3>1. building = {}
      <4> SUFFICES ASSUME NEW e \in building PROVE FALSE
          OBVIOUS
      <4>1. slot.holder = e /\ e \notin Clis /\ e # "free"
          BY <1>0 DEF Builds, Builders, TypeOK
      <4> QED BY <2>1, <4>1 DEF Taken, Expired
    <3> QED BY <2>1, <3>1 DEF Builds
  <2>3. Clocks' /\ Deadline' /\ Releases'
      BY <1>0, <2>1 DEF Clocks, Deadline, Releases, Calling
  <2>4. Leases'
    <3> SUFFICES ASSUME restarts = 0, NEW c \in Clis PROVE Answered(c)' /\ Leased(c)'
        BY <2>1 DEF Leases
    <3>1. Answered(c) /\ Leased(c)
        BY <1>0 DEF Leases
    <3>2. /\ now \in Nat /\ slot.expires \in Nat
          /\ cli[c].asked \in Nat /\ cli[c].renewed \in Nat
        BY <1>0 DEF TypeOK, Cli
    <3>3. ~HeldBy(c) \/ slot.expires <= now
        BY <2>1, <3>2 DEF Taken, Expired, HeldBy
    <3>4. Answered(c)'
        BY <2>1, <3>1, <3>2, <3>3 DEF Answered
    <3>5. Leased(c)'
        BY <2>1, <3>1, <3>2, <3>3 DEF Leased, Running
    <3> QED BY <3>4, <3>5
  <2> QED BY <2>2, <2>3, <2>4
<1>2. ASSUME NEW b \in Builders, Finish(b) PROVE Rest'
  <2>1. /\ slot' = Free /\ building' = building \ {b} /\ b \in building
        /\ now' = now /\ cli' = cli /\ requests' = requests /\ restarts' = restarts
      BY <1>2 DEF Finish
  <2>2. slot.holder = b /\ b \notin Clis
      BY <1>0, <2>1 DEF Builds, Builders
  <2>3. Builds'
      BY <1>0, <2>1, <2>2 DEF Builds
  <2>4. Clocks' /\ Deadline' /\ Releases'
      BY <1>0, <2>1 DEF Clocks, Deadline, Releases, Calling
  <2>5. Leases'
    <3> SUFFICES ASSUME restarts = 0, NEW c \in Clis PROVE Answered(c)' /\ Leased(c)'
        BY <2>1 DEF Leases
    <3>1. Answered(c) /\ Leased(c) /\ ~HeldBy(c)
        BY <1>0, <2>2 DEF Leases, HeldBy
    <3> QED BY <2>1, <3>1 DEF Answered, Leased, Running
  <2> QED BY <2>3, <2>4, <2>5
<1>3. ASSUME NEW r \in requests, Handle(r) PROVE Rest'
    BY <1>3, HandleStep
<1>4. ASSUME NEW r \in requests, Lose(r) PROVE Rest'
    BY <1>0, <1>4 DEF Lose, Clocks, Deadline, Builds, Releases, Leases, Answered,
                      Leased, HeldBy, Running, Calling
<1>5. ASSUME NEW c \in Clis, CliStep(c) PROVE Rest'
  <2>1. CASE Acquire(c)
      BY <2>1, CallStep DEF Acquire
  <2>2. CASE SpawnFails(c)
      BY <2>2, CallStep DEF SpawnFails
  <2>3. CASE Renew(c)
      BY <2>3, CallStep DEF Renew
  <2>4. CASE CommandEnds(c)
      BY <2>4, CallStep DEF CommandEnds
  <2> QED BY <1>5, <2>1, <2>2, <2>3, <2>4, MoveStep DEF CliStep
<1>6. ASSUME MemoryChanges PROVE Rest'
    BY <1>0, <1>6 DEF MemoryChanges, Clocks, Deadline, Builds, Releases, Leases,
                      Answered, Leased, HeldBy, Running, Calling
<1>7. ASSUME DaemonRestarts PROVE Rest'
  <2>1. /\ restarts' = restarts + 1 /\ restarts \in Nat
        /\ building' = {} /\ requests' = {} /\ now' = now /\ cli' = cli
      BY <1>0, <1>7 DEF DaemonRestarts, TypeOK
  <2>2. Clocks' /\ Deadline'
      BY <1>0, <2>1 DEF Clocks, Deadline, Calling
  <2> QED BY <2>1, <2>2 DEF Builds, Releases, Leases
<1>8. ASSUME Tick PROVE Rest'
  <2>1. /\ now' = now + 1 /\ slot' = slot /\ building' = building
        /\ requests' = requests /\ cli' = cli /\ restarts' = restarts
        /\ \A c \in Clis : /\ Calling(c) => now < cli[c].asked + CallMax
                           /\ cli[c].pc = "running" => ~Lapsed(c)
      BY <1>8 DEF Tick
  <2>2. /\ now \in Nat /\ slot.expires \in Nat
        /\ \A c \in Clis : cli[c].asked \in Nat /\ cli[c].renewed \in Nat
      BY <1>0 DEF TypeOK, Cli
  <2>3. Clocks'
      BY <1>0, <2>1, <2>2 DEF Clocks, Calling
  <2>4. Deadline'
      BY <1>0, <2>1, <2>2 DEF Deadline, Lapsed
  <2>5. Builds' /\ Releases'
      BY <1>0, <2>1 DEF Builds, Releases
  <2>6. Leases'
      BY <1>0, <2>1, <2>2 DEF Leases, Answered, Leased, HeldBy, Running
  <2> QED BY <2>3, <2>4, <2>5, <2>6
<1>9. ASSUME UNCHANGED vars PROVE Rest'
    BY <1>0, <1>9 DEF vars, Clocks, Deadline, Builds, Releases, Leases, Answered,
                      Leased, HeldBy, Running, Calling
<1>10. Rest'
    BY <1>1, <1>2, <1>3, <1>4, <1>5, <1>6, <1>7, <1>8, <1>9 DEF Next, CliStep
<1> QED BY <1>t, <1>10 DEF SlotInv

(* The inductive invariant of the slot: the clocks of the processes, the   *)
(* builds that hold the slot, and what every answer still guarantees.      *)
THEOREM SlotInvariance == Spec => []SlotInv
<1>1. Init => SlotInv
    BY BuildSlotAssumption
       DEF Init, SlotInv, TypeOK, Cli, Free, Idle, Proc, Builders, Clocks, Deadline,
           Builds, Releases, Leases, Answered, Leased, Calling, Running
<1> QED BY <1>1, SlotStep, PTL DEF Spec

(* A command keeps the slot while less than Ttl - CallMax has passed since *)
(* its last renewal came back (run_with, build_slot_request), whatever is  *)
(* slow or lost.                                                           *)
THEOREM LeaseIsSafe == Spec => []SafeWindow
<1>1. SlotInv => SafeWindow
  <2> SUFFICES ASSUME SlotInv, restarts = 0, NEW c \in Clis, Running(c),
                      now + CallMax < cli[c].renewed + Ttl
               PROVE  HeldBy(c)
      BY DEF SafeWindow
  <2>1. /\ now \in Nat /\ cli[c].renewed \in Nat
        /\ Leased(c)
      BY DEF SlotInv, TypeOK, Cli, Leases
  <2> QED BY <2>1, BuildSlotAssumption DEF Leased
<1> QED BY <1>1, SlotInvariance, PTL

(* run_with stops a command at the latest one slow call after its lease    *)
(* has run out, daemon or no daemon.                                       *)
THEOREM CommandStops == Spec => []StopsInTime
<1>1. SlotInv => StopsInTime
  <2> SUFFICES ASSUME SlotInv, NEW c \in Clis, Running(c)
               PROVE  now <= cli[c].renewed + Ttl + CallMax
      BY DEF StopsInTime
  <2>1. /\ now \in Nat /\ cli[c].renewed \in Nat /\ cli[c].asked \in Nat
        /\ cli[c].pc = "running" => now <= cli[c].renewed + Ttl
        /\ cli[c].pc = "renewing" => /\ cli[c].asked <= cli[c].renewed + Ttl
                                     /\ now <= cli[c].asked + CallMax
      BY DEF SlotInv, TypeOK, Cli, Deadline, Clocks, Calling
  <2> QED BY <2>1, BuildSlotAssumption DEF Running
<1> QED BY <1>1, SlotInvariance, PTL

(* A verification or Night shift's checks run alone in the daemon, and the *)
(* slot is theirs until they end (merge_queue_take_slot, Slot's drop).     *)
THEOREM BuildsHoldSlot == Spec => []BuildHoldsSlot
<1>1. SlotInv => BuildHoldsSlot
    BY DEF SlotInv, TypeOK, Builds, BuildHoldsSlot
<1> QED BY <1>1, SlotInvariance, PTL

=============================================================================
