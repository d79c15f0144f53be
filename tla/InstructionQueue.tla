-------------------------- MODULE InstructionQueue --------------------------
(***************************************************************************)
(* The durable instruction queue of one pane of the Houston daemon         *)
(* (core/houston-core: daemon/instruction_queue.rs, db/instructions.rs and *)
(* the parts of daemon.rs that call them).  A parent agent, or the daemon  *)
(* itself, accepts instructions; a dispatcher pastes the head of the queue *)
(* into the pane's terminal and submits it with Enter; the hooks of the    *)
(* agent in the pane say when it started and when it finished.             *)
(*                                                                         *)
(* The table prompt_intents survives a crash; everything else here lives   *)
(* in the daemon's memory or in the pane.  An action is one critical       *)
(* section under the cleanup and dispatch locks: a write to the terminal   *)
(* and the pause before Enter happen with both locks released.             *)
(***************************************************************************)
EXTENDS Naturals, FiniteSets

CONSTANTS
    MaxInstr,      \* bound: instructions accepted in one behaviour
    Modes,         \* the delivery modes callers use
    Delegated,     \* TRUE: a delegated child, its requests numbered in rounds;
                   \* FALSE: a top-level pane that only the daemon prompts
    HookEvents,    \* the agent events that the pane's hooks report
    PromptIds,     \* prompt identities a hook may carry; 0 is a hook without one
    ActiveMax,     \* INSTRUCTION_ACTIVE_MAX (16)
    RetainedMax,   \* INSTRUCTION_RETAINED_MAX (4096)
    MaxHooks,      \* bound: hook events and hand-backs in one behaviour
    Disturbances,  \* what may happen around the queue
    MaxDisturbed   \* bound: disturbances in one behaviour

AgentEvents == {"SessionStarted", "PromptSubmitted", "Activity",
                "InputResolved", "TurnEnded", "QuietSettle", "TurnFailed",
                "SessionEnded", "NeedsInput"}

DisturbanceKinds == {"cancel", "unwritten", "partial", "hold", "withhold",
                     "close", "exit", "refuse", "crash", "deferred"}

ASSUME ConstantsAssumption ==
    /\ MaxInstr \in Nat
    /\ Modes \subseteq {"queue", "steer", "restart"}
    /\ Delegated \in BOOLEAN
    /\ HookEvents \subseteq AgentEvents
    /\ PromptIds \subseteq Nat \ {0}
    /\ ActiveMax \in Nat
    /\ RetainedMax \in Nat
    /\ MaxHooks \in Nat
    /\ Disturbances \subseteq DisturbanceKinds
    /\ MaxDisturbed \in Nat

(* Instructions are numbered in the order of their sequence column.        *)
Ids == 1 .. MaxInstr

VARIABLES
    rows,        \* table prompt_intents, a record per instruction
    next,        \* the sequence number of the next accepted instruction
    write,       \* instruction_writes[target]: the reservation of the one
                 \* dispatch that is writing, with the evidence it collects
    job,         \* its job in the pane's stdin writer
    wake,        \* instruction_wake_active and the thread behind it
    callers,     \* accepting calls that have yet to dispatch or to wake
    session,     \* the pane: live, closing, agent status, paste hold
    refusing,    \* the daemon refuses mutations (hand-off, shutdown)
    lastPrompt,  \* last_prompt_id[target]
    awaiting,    \* prompt_awaiting_hook contains the target
    delegation,  \* the child's delegation row: its state and current round
    hook,        \* the hook event being applied, step by step; hooks seen
    exiting,     \* finish_session has yet to run the lifecycle handler
    disturbed,   \* history: disturbances so far
    typed        \* history: what reached the terminal, per instruction

vars == <<rows, next, write, job, wake, callers, session, refusing, lastPrompt,
          awaiting, delegation, hook, exiting, disturbed, typed>>

RowStates == {"none", "queued", "held", "uncertain", "delivered", "cancelled",
              "pruned"}

NewRow(mode, state) ==
    [state |-> state, mode |-> mode, touched |-> FALSE, adopted |-> FALSE,
     named_adoption |-> FALSE, completed |-> FALSE, request_id |-> 0,
     dispatch_prompt_id |-> 0, interrupt_sent |-> FALSE,
     restart_ready |-> FALSE]

(* Id 0 stands for no reservation.                                         *)
NoWrite == [id |-> 0, owner |-> 0, pc |-> "idle", submitted |-> FALSE,
            started |-> FALSE, ended |-> FALSE, restart_ready |-> FALSE,
            session_ended |-> FALSE, previous |-> {}]

(* The dispatching thread: an accepting call is named by its instruction.  *)
WakeThread == 0

NoHook(seen) == [pc |-> "idle", event |-> "SessionStarted", prompt |-> 0,
                 seen |-> seen]

Init ==
    /\ rows = [i \in Ids |-> NewRow("queue", "none")]
    /\ next = 1
    /\ write = NoWrite
    /\ job = "idle"
    /\ wake = "off"
    /\ callers = [i \in Ids |-> "done"]
    /\ session = [live |-> TRUE, closing |-> FALSE, status |-> "idle",
                  hold |-> FALSE]
    /\ refusing = FALSE
    /\ lastPrompt = 0
    /\ awaiting = FALSE
    /\ delegation = [state |-> IF Delegated THEN "spawning" ELSE "none",
                     round |-> IF Delegated THEN 1 ELSE 0]
    /\ hook = NoHook(0)
    /\ exiting = FALSE
    /\ disturbed = 0
    /\ typed = [i \in Ids |-> [interrupt |-> 0, paste |-> 0, enter |-> 0,
                               idle |-> FALSE, fresh |-> FALSE]]

(* The bound on what goes wrong, or gets in the way, in one behaviour.     *)
Disturbed(kind) ==
    /\ kind \in Disturbances /\ disturbed < MaxDisturbed
    /\ disturbed' = disturbed + 1

-----------------------------------------------------------------------------
(* Reading the table.                                                      *)

First(S) == CHOOSE i \in S : \A j \in S : i <= j

Pending(row) == row.state \in {"queued", "held", "uncertain"}

Open(row) == row.state = "delivered" /\ ~row.completed

Active(row) == Pending(row) \/ Open(row)

Final(row) == row.state = "cancelled"
              \/ (row.state = "delivered" /\ row.completed)

Retained == {i \in Ids : rows[i].state \notin {"none", "pruned"}}

ActiveIds == {i \in Ids : Active(rows[i])}

Immediate == {i \in Ids : rows[i].state = "queued" /\ rows[i].mode # "queue"}

HeadMutant == LET queued == {i \in Ids : rows[i].state = "queued"}
              IN IF queued # {} THEN First(queued) ELSE First(ActiveIds)

(* The row a dispatch looks at: the first active one, unless that one is   *)
(* delivered and running and an immediate mode may pass it.                *)
Head == LET first == First(ActiveIds)
        IN IF /\ rows[first].state = "delivered" /\ rows[first].adopted
              /\ Immediate # {}
           THEN First(Immediate)
           ELSE first

-----------------------------------------------------------------------------
(* The pane.                                                               *)

(* session.hold abstracts operator_composer_hold_reason and                *)
(* child_input_paste_hold_reason.  Status "owed" is a Working pane whose   *)
(* turn end is withheld for a sub-agent only: it sits at its prompt.       *)
Working == session.status \in {"working", "owed"}

PasteHeld == session.hold \/ session.status \notin {"idle", "owed"}

ImmediateHeld == session.hold \/ session.status = "needs_input"

HeldFor(mode) == IF mode = "steer" THEN ImmediateHeld ELSE PasteHeld

TargetLive(evidence) ==
    session.live /\ ~session.closing /\ ~evidence.session_ended

RequestOfMutant ==
    IF ~Delegated THEN 0 ELSE delegation.round + Cardinality(ActiveIds)

(* The round a prompt dispatched now opens; a spawning child still owes    *)
(* its initial request.                                                    *)
RequestOf == IF ~Delegated THEN 0
             ELSE IF delegation.state = "spawning" THEN delegation.round
             ELSE delegation.round + 1

-----------------------------------------------------------------------------
(* Threads that dispatch.                                                  *)

(* instruction_wake: one thread per target, none is added to a live one.   *)
Woken == IF wake = "off" THEN "run" ELSE wake

MayDispatch(t) == IF t = WakeThread THEN wake = "run" ELSE callers[t] = "dispatch"

(* A dispatch returned keep: an accepting call goes on to wake the queue,  *)
(* the wake thread polls again or leaves its loop.                         *)
Returned(t, keep) ==
    IF t = WakeThread
    THEN /\ wake' = IF keep /\ ~refusing THEN "run" ELSE "exit"
         /\ UNCHANGED callers
    ELSE /\ callers' = [callers EXCEPT ![t] = "wake"]
         /\ UNCHANGED wake

Claimed(t) ==
    IF t = WakeThread
    THEN wake' = "writing" /\ UNCHANGED callers
    ELSE callers' = [callers EXCEPT ![t] = "writing"] /\ UNCHANGED wake

(* A closing or refusing daemon admits no stdin job.                       *)
Enqueued == IF session.closing \/ refusing THEN "unwritten" ELSE "queued"

-----------------------------------------------------------------------------
(* Adoption of a delivered instruction by the agent (instruction_adopt_locked). *)

Adoptable(rs, evidence, named) ==
    {i \in Ids :
        /\ ~rs[i].completed /\ ~rs[i].adopted
        /\ \/ rs[i].state = "delivered"
           \/ /\ rs[i].state = "uncertain" /\ evidence.id = i
              /\ ~evidence.session_ended
              /\ evidence.started \/ (named # 0 /\ rs[i].request_id = named)}

(* The instruction that is adopted, 0 if none is.                          *)
Adopted(rs, evidence, named) ==
    LET found == Adoptable(rs, evidence, named)
        i == First(found)
    IN IF \/ found = {}
          \/ Delegated /\ rs[i].request_id = 0
          \/ Delegated /\ named # 0 /\ named # rs[i].request_id
       THEN 0 ELSE i

AdoptRows(rs, i, named) ==
    IF i = 0 THEN rs
    ELSE [rs EXCEPT ![i].adopted = @ \/ rs[i].state = "delivered",
                    ![i].named_adoption = @ \/ (Delegated /\ named # 0)]

AdoptDelegationMutant(rs, i, d) == d

AdoptDelegation(rs, i, d) ==
    IF i # 0 /\ rs[i].request_id > d.round
    THEN [state |-> "working", round |-> d.round + 1] ELSE d

AdoptEvidence(rs, i, evidence) ==
    IF i # 0 /\ Delegated /\ rs[i].state = "uncertain"
    THEN [evidence EXCEPT !.started = TRUE] ELSE evidence

AdoptAwaitingMutant(i) == awaiting

(* Houston's own input is adopted before the awaiting mark is cleared.     *)
AdoptAwaiting(i) == awaiting /\ ~(i # 0 /\ Delegated)

-----------------------------------------------------------------------------
(* Callers: accept, cancel, resume.                                        *)

FullMutant == Cardinality(Retained) > RetainedMax

(* The table is at its limit: one terminal row makes place for a new one.  *)
Full == Cardinality(Retained) >= RetainedMax

Prunable == {i \in Ids : Final(rows[i])}

(* The body, the key of the caller's retries and their receipt are not     *)
(* modelled: a retry returns the row it finds.                             *)
Accept(mode) ==
    /\ next \in Ids /\ mode \in Modes
    /\ session.live /\ ~session.closing
    /\ IF mode = "queue"
       THEN session.status # "needs_input"
       ELSE /\ Delegated /\ ~ImmediateHeld
            /\ \A i \in Ids : ~Pending(rows[i])
                              /\ ~(Open(rows[i]) /\ ~rows[i].adopted)
    /\ Cardinality(ActiveIds) < ActiveMax
    /\ Full => Prunable # {}
    /\ rows' = [i \in Ids |->
                  IF i = next THEN NewRow(mode, "queued")
                  ELSE IF Full /\ i = First(Prunable)
                       THEN [rows[i] EXCEPT !.state = "pruned"]
                  ELSE rows[i]]
    /\ next' = next + 1
    /\ callers' = [callers EXCEPT ![next] = "dispatch"]
    /\ UNCHANGED <<write, job, wake, session, refusing, lastPrompt, awaiting,
                   delegation, hook, exiting, disturbed, typed>>

(* The accepting call ends by waking the queue.                            *)
AcceptWake(i) ==
    /\ callers[i] = "wake"
    /\ callers' = [callers EXCEPT ![i] = "done"]
    /\ wake' = Woken
    /\ UNCHANGED <<rows, next, write, job, session, refusing, lastPrompt,
                   awaiting, delegation, hook, exiting, disturbed, typed>>

Cancel(i) ==
    /\ ~session.closing
    /\ i \in Retained /\ rows[i].state # "delivered"
    /\ Disturbed("cancel")
    /\ rows' = [rows EXCEPT ![i].state = "cancelled"]
    /\ wake' = Woken
    /\ UNCHANGED <<next, write, job, callers, session, refusing, lastPrompt,
                   awaiting, delegation, hook, exiting, typed>>

Resume(i) ==
    /\ session.live /\ ~session.closing
    /\ rows[i].state = "held" /\ ~rows[i].touched
    /\ rows' = [rows EXCEPT ![i].state = "queued"]
    /\ wake' = Woken
    /\ UNCHANGED <<next, write, job, callers, session, refusing, lastPrompt,
                   awaiting, delegation, hook, exiting, disturbed, typed>>

-----------------------------------------------------------------------------
(* instruction_dispatch, up to the first write to the terminal.            *)

(* The head can be claimed: queued, and no other dispatch is writing.      *)
Claimable == /\ ~session.closing /\ ActiveIds # {}
             /\ rows[Head].state = "queued" /\ write.id = 0

(* The interrupt of a restart was sent and nothing says it was handled.    *)
AwaitsIdle(row) == row.interrupt_sent /\ ~row.restart_ready

NeedsInterrupt(row) == row.mode = "restart" /\ ~row.interrupt_sent /\ Working

(* Nothing to claim: the queue is closed, empty or blocked.                *)
DispatchNothing(t) ==
    /\ MayDispatch(t) /\ ~Claimable
    /\ Returned(t, /\ ~session.closing /\ ActiveIds # {}
                   /\ rows[Head].state \in {"queued", "delivered"})
    /\ UNCHANGED <<rows, next, write, job, session, refusing, lastPrompt,
                   awaiting, delegation, hook, exiting, disturbed, typed>>

(* The pane ended before the head was touched by this dispatch.            *)
DispatchEnded(t) ==
    /\ MayDispatch(t) /\ Claimable /\ ~session.live
    /\ rows' = [rows EXCEPT ![Head].state = "held"]
    /\ Returned(t, FALSE)
    /\ UNCHANGED <<next, write, job, session, refusing, lastPrompt, awaiting,
                   delegation, hook, exiting, disturbed, typed>>

(* The head waits: for idle after its interrupt, or for a paste hold.      *)
DispatchHeld(t) ==
    /\ MayDispatch(t) /\ Claimable /\ session.live
    /\ IF NeedsInterrupt(rows[Head]) THEN ImmediateHeld
       ELSE AwaitsIdle(rows[Head]) \/ HeldFor(rows[Head].mode)
    /\ Returned(t, TRUE)
    /\ UNCHANGED <<rows, next, write, job, session, refusing, lastPrompt,
                   awaiting, delegation, hook, exiting, disturbed, typed>>

(* The write-ahead claim of instruction_begin_write and the reservation;   *)
(* both locks are then released until the writer's receipt.                *)
BeginWrite(t, i, pc, request, prompt) ==
    /\ rows' = [rows EXCEPT ![i].touched = TRUE, ![i].state = "uncertain",
                            ![i].request_id = request,
                            ![i].dispatch_prompt_id = prompt]
    /\ write' = [NoWrite EXCEPT
                    !.id = i, !.owner = t, !.pc = pc,
                    !.previous = {j \in Ids : Open(rows[j]) /\ rows[j].adopted}]
    /\ job' = Enqueued
    /\ Claimed(t)
    /\ UNCHANGED <<next, session, refusing, lastPrompt, awaiting, delegation,
                   hook, exiting, disturbed, typed>>

DispatchInterrupt(t) ==
    /\ MayDispatch(t) /\ Claimable /\ session.live
    /\ NeedsInterrupt(rows[Head]) /\ ~ImmediateHeld
    /\ BeginWrite(t, Head, "interrupt", 0, 0)

DispatchPaste(t) ==
    /\ MayDispatch(t) /\ Claimable /\ session.live
    /\ ~NeedsInterrupt(rows[Head]) /\ ~HeldFor(rows[Head].mode)
    /\ ~AwaitsIdle(rows[Head])
    /\ BeginWrite(t, Head, "paste", RequestOf, lastPrompt)

-----------------------------------------------------------------------------
(* The pane's stdin writer performs the job; a written Enter marks the     *)
(* evidence before the receipt is sent.                                    *)

(* What of the job reached the terminal, as the key it belongs to.         *)
Typed(pc) ==
    LET k == typed[write.id]
        one(key) == IF pc = key THEN 1 ELSE 0
    IN [typed EXCEPT ![write.id] =
          [k EXCEPT !.interrupt = k.interrupt + one("interrupt"),
                    !.paste = k.paste + one("paste"),
                    !.enter = k.enter + one("enter")]]

PtyWrite(outcome) ==
    /\ job = "queued" /\ outcome \in {"written", "unwritten", "partial"}
    /\ IF outcome = "written" THEN UNCHANGED disturbed ELSE Disturbed(outcome)
    /\ job' = outcome
    /\ typed' = IF outcome = "unwritten" THEN typed
                ELSE Typed(write.pc)
    /\ write' = [write EXCEPT !.submitted = @ \/ (write.pc = "enter"
                                                  /\ outcome = "written")]
    /\ UNCHANGED <<rows, next, wake, callers, session, refusing, lastPrompt,
                   awaiting, delegation, hook, exiting>>

-----------------------------------------------------------------------------
(* instruction_dispatch, after each receipt and after the pause.           *)

(* The receipt: every byte was written; no byte was (nothing_written).     *)
AllWrittenMutant == job # "partial"

AllWritten == job = "written"

NothingWrittenMutant == job \in {"unwritten", "partial"}

NothingWritten == job = "unwritten"

ResumedMutant(pc) == write.id # 0 /\ write.pc = pc /\ job # "queued"

(* The locks are taken again and the row is still the one claimed.         *)
Resumed(pc) ==
    /\ write.id # 0 /\ write.pc = pc /\ job # "queued"
    /\ rows[write.id].state = "uncertain"

ReleaseMutant(keep) ==
    /\ Returned(write.owner, keep)
    /\ UNCHANGED write
    /\ job' = "idle"

(* The dispatch returns and drops its reservation.                         *)
Release(keep) ==
    /\ Returned(write.owner, keep)
    /\ write' = NoWrite
    /\ job' = "idle"

(* Cancelled, or pruned, while the locks were released.                    *)
Withdrawn ==
    /\ write.id # 0 /\ job # "queued"
    /\ rows[write.id].state # "uncertain"
    /\ Release(FALSE)
    /\ UNCHANGED <<rows, next, session, refusing, lastPrompt, awaiting,
                   delegation, hook, exiting, disturbed, typed>>

(* instruction_unwritten_receipt: no byte was written.                     *)
Unwritten(row) ==
    [row EXCEPT !.state = IF TargetLive(write) THEN "queued"
                          ELSE IF row.interrupt_sent THEN "uncertain"
                          ELSE "held",
                !.touched = row.interrupt_sent,
                !.request_id = 0]

InterruptReceipt ==
    /\ Resumed("interrupt")
    /\ LET row == rows[write.id]
       IN rows' = [rows EXCEPT ![write.id] =
            IF AllWritten /\ TargetLive(write)
            THEN [row EXCEPT
                    !.state = "queued", !.interrupt_sent = TRUE,
                    !.restart_ready = row.restart_ready \/ write.restart_ready]
            ELSE IF NothingWritten THEN Unwritten(row)
            ELSE row]
    /\ Release(TargetLive(write))
    /\ UNCHANGED <<next, session, refusing, lastPrompt, awaiting, delegation,
                   hook, exiting, disturbed, typed>>

PasteReceipt ==
    /\ Resumed("paste")
    /\ IF AllWritten /\ TargetLive(write)
       THEN /\ write' = [write EXCEPT !.pc = "settle"]
            /\ job' = "idle"
            /\ UNCHANGED <<rows, wake, callers>>
       ELSE /\ rows' = [rows EXCEPT ![write.id] =
                          IF NothingWritten THEN Unwritten(@) ELSE @]
            /\ Release(NothingWritten)
    /\ UNCHANGED <<next, session, refusing, lastPrompt, awaiting, delegation,
                   hook, exiting, disturbed, typed>>

(* After the pause the holds are checked again; a hold withholds Enter.    *)
Submit ==
    /\ Resumed("settle")
    /\ IF HeldFor(rows[write.id].mode) \/ ~TargetLive(write)
       THEN Release(FALSE)
       ELSE /\ write' = [write EXCEPT !.pc = "enter"]
            /\ job' = Enqueued
            /\ UNCHANGED <<wake, callers>>
    /\ UNCHANGED <<rows, next, session, refusing, lastPrompt, awaiting,
                   delegation, hook, exiting, disturbed, typed>>

SupersededMutant == {}

(* What an immediate mode passed: the rows of its snapshot that ran.       *)
Superseded == IF rows[write.id].mode = "queue" THEN {} ELSE write.previous

(* The rows after a written Enter, before what the hooks said is applied:  *)
(* what an immediate mode passed is completed.                             *)
Sent == [i \in Ids |->
           IF i = write.id THEN [rows[i] EXCEPT !.state = "delivered"]
           ELSE IF i \in Superseded /\ rows[i].adopted
                   /\ rows[i].state = "delivered"
           THEN [rows[i] EXCEPT !.completed = TRUE]
           ELSE rows[i]]

(* The Enter receipt: the row is delivered, and evidence that arrived      *)
(* first is applied.                                                       *)
EnterReceipt ==
    /\ Resumed("enter")
    /\ IF AllWritten /\ TargetLive(write)
       THEN LET k == IF write.started THEN Adopted(Sent, write, 0) ELSE 0
                adoptedRows == AdoptRows(Sent, k, 0)
            IN /\ rows' = [adoptedRows EXCEPT ![write.id].completed =
                             @ \/ (/\ write.started /\ write.ended
                                   /\ adoptedRows[write.id].adopted)]
               /\ delegation' = AdoptDelegation(Sent, k, delegation)
               /\ awaiting' = IF write.started THEN AdoptAwaiting(k) ELSE TRUE
       ELSE UNCHANGED <<rows, delegation, awaiting>>
    /\ Release(AllWritten /\ TargetLive(write))
    /\ UNCHANGED <<next, session, refusing, lastPrompt, hook, exiting, disturbed,
                   typed>>

(* The wake thread has left its loop and takes itself out of the set.      *)
WakeExit ==
    /\ wake = "exit"
    /\ wake' = "off"
    /\ UNCHANGED <<rows, next, write, job, callers, session, refusing,
                   lastPrompt, awaiting, delegation, hook, exiting, disturbed,
                   typed>>

-----------------------------------------------------------------------------
(* Hooks of the agent.  apply_agent_event runs in three critical sections: *)
(* the status, the delegation, the instructions.                           *)

StatusOfMutant(event) ==
    IF event = "NeedsInput" THEN "needs_input"
    ELSE IF event \in {"PromptSubmitted", "Activity", "InputResolved"}
         THEN "working" ELSE "ended"

StatusOf(event) ==
    IF event = "NeedsInput" THEN "needs_input"
    ELSE IF event \in {"PromptSubmitted", "Activity", "InputResolved"}
         THEN "working" ELSE "idle"

Applies(event) ==
    CASE event = "SessionStarted" -> session.status = "idle"
      [] event = "InputResolved"  -> session.status = "needs_input"
      [] OTHER -> TRUE

(* A repeated prompt identity is the same prompt delivered twice: dropped. *)
HookStatus(event, prompt) ==
    /\ hook.pc = "idle"
    /\ event \in HookEvents /\ prompt \in PromptIds \cup {0}
    /\ session.live /\ ~session.closing /\ Applies(event)
    /\ event = "PromptSubmitted" /\ prompt # 0 => prompt # lastPrompt
    /\ hook.seen < MaxHooks
    /\ lastPrompt' = IF event = "PromptSubmitted" /\ prompt # 0
                     THEN prompt ELSE lastPrompt
    /\ session' = [session EXCEPT !.status = StatusOf(event)]
    /\ hook' = [pc |-> "delegation", event |-> event, prompt |-> prompt,
                seen |-> hook.seen + 1]
    /\ UNCHANGED <<rows, next, write, job, wake, callers, refusing, awaiting,
                   delegation, exiting, disturbed, typed>>

StaleMutant(row, prompt) == FALSE

(* A hook that names the prompt the pane was already on tells nothing new. *)
Stale(row, prompt) == prompt # 0 /\ row.dispatch_prompt_id = prompt

(* History: what the hooks have told of each instruction since it was      *)
(* claimed: an authoritative turn end after its interrupt, and a start     *)
(* that is not the echo of an earlier prompt.                              *)
Told(event, prompt) ==
    [i \in Ids |->
       [typed[i] EXCEPT
          !.idle = @ \/ (/\ event = "TurnEnded"
                         /\ \/ rows[i].interrupt_sent
                            \/ write.id = i /\ write.pc = "interrupt"),
          !.fresh = @ \/ (/\ event \in {"PromptSubmitted", "Activity"}
                          /\ rows[i].touched
                          /\ \/ prompt = 0
                             \/ prompt # rows[i].dispatch_prompt_id)]]

(* open_round_on_external_prompt, for a prompt hook that found the         *)
(* delegation in state from.                                               *)
OpenRound(from) ==
    LET k == Adopted(rows, write, 0)
        bump == from = "needs_input" \/ (from = "working" /\ awaiting)
    IN IF k # 0
       THEN /\ rows' = AdoptRows(rows, k, 0)
            /\ write' = AdoptEvidence(rows, k, write)
            /\ delegation' = AdoptDelegation(rows, k,
                                [delegation EXCEPT !.state = "working"])
            /\ awaiting' = AdoptAwaiting(k)
       ELSE /\ delegation' = [state |-> "working",
                              round |-> IF bump THEN delegation.round + 1
                                        ELSE delegation.round]
            /\ awaiting' = FALSE
            /\ UNCHANGED <<rows, write>>

(* delegation_transition, for the events that do not open a round; a       *)
(* turn that handed its result back closes the delegation.                 *)
Transition(event, from) ==
    CASE event = "InputResolved" -> {"working"}
      [] event \in {"TurnEnded", "QuietSettle"} ->
           IF from = "done" THEN {"done"} ELSE {"working", "done"}
      [] event = "NeedsInput" ->
           IF from \in {"spawning", "working"} THEN {"needs_input"} ELSE {from}
      [] OTHER -> {from}

(* advance_delegation; it returns early for a pane that ended or closes,   *)
(* and for an input request or a background hold of another component.     *)
HookDelegation ==
    /\ hook.pc = "delegation"
    /\ hook' = [hook EXCEPT !.pc = "lifecycle"]
    /\ typed' = IF hook.event = "PromptSubmitted"
                THEN Told(hook.event, hook.prompt) ELSE typed
    /\ \/ /\ IF Delegated /\ session.live /\ ~session.closing
             THEN Disturbed("deferred") ELSE UNCHANGED disturbed
          /\ UNCHANGED <<rows, write, delegation, awaiting>>
       \/ /\ Delegated /\ session.live /\ ~session.closing
          /\ UNCHANGED disturbed
          /\ IF hook.event = "PromptSubmitted"
             THEN OpenRound(delegation.state)
             ELSE /\ \E to \in Transition(hook.event, delegation.state) :
                       delegation' = [delegation EXCEPT !.state = to]
                  /\ UNCHANGED <<rows, write, awaiting>>
    /\ UNCHANGED <<next, job, wake, callers, session, refusing, lastPrompt,
                   exiting>>

(* What an event says of the instruction being written.                    *)
Evidence(event, prompt) ==
    LET row == rows[write.id]
        stale == Stale(row, prompt)
        correlated == /\ row.dispatch_prompt_id # 0 /\ prompt # 0
                      /\ row.dispatch_prompt_id # prompt
        proven == ~stale /\ (write.submitted \/ correlated)
    IN IF write.id = 0 \/ row.state # "uncertain" THEN write
       ELSE CASE event = "PromptSubmitted" ->
                   [write EXCEPT !.started = @ \/ proven]
              [] event = "Activity" ->
                   [write EXCEPT !.started = @ \/ (proven /\ Working)]
              [] event \in {"TurnEnded", "QuietSettle"} ->
                   [write EXCEPT
                      !.ended = @ \/ (/\ write.started
                                      /\ proven \/ (/\ write.submitted
                                                    /\ row.named_adoption)),
                      !.restart_ready = @ \/ event # "QuietSettle"]
              [] event = "SessionEnded" -> [write EXCEPT !.session_ended = TRUE]
              [] OTHER -> write

TurnEndRowsMutant(event, prompt) ==
    [i \in Ids |->
       [rows[i] EXCEPT
          !.completed = @ \/ (Open(rows[i]) /\ rows[i].adopted),
          !.restart_ready = @ \/ (/\ rows[i].state = "queued"
                                  /\ rows[i].interrupt_sent)]]

(* A turn end completes what the agent had adopted, and an interrupted     *)
(* restart may go on: a quiet terminal is no proof of that.                *)
TurnEndRows(event, prompt) ==
    [i \in Ids |->
       [rows[i] EXCEPT
          !.completed = @ \/ (/\ Open(rows[i]) /\ rows[i].adopted
                              /\ \/ ~Stale(rows[i], prompt)
                                 \/ rows[i].named_adoption),
          !.restart_ready = @ \/ (/\ event # "QuietSettle"
                                  /\ rows[i].state = "queued"
                                  /\ rows[i].interrupt_sent)]]

EndedRowsMutant ==
    [i \in Ids |->
       IF rows[i].state = "queued"
       THEN [rows[i] EXCEPT !.state = IF rows[i].touched THEN "uncertain"
                                      ELSE "held"]
       ELSE rows[i]]

(* The pane ended or its turn failed: what was queued needs a decision,    *)
(* and Houston's own input is settled.                                     *)
EndedRows ==
    [i \in Ids |->
       IF rows[i].state = "queued"
       THEN [rows[i] EXCEPT !.state = IF rows[i].touched THEN "uncertain"
                                      ELSE "held"]
       ELSE IF ~Delegated /\ Open(rows[i])
       THEN [rows[i] EXCEPT !.adopted = TRUE, !.completed = TRUE]
       ELSE rows[i]]

(* instruction_lifecycle.                                                  *)
Lifecycle(event, prompt) ==
    IF \/ event # "SessionEnded" /\ session.closing
       \/ Retained = {}
    THEN UNCHANGED <<rows, write, delegation, awaiting, wake, typed>>
    ELSE LET evidence == Evidence(event, prompt)
             staleActivity == \E i \in Ids : /\ Open(rows[i]) /\ ~rows[i].adopted
                                             /\ Stale(rows[i], prompt)
             adopts == \/ event = "PromptSubmitted"
                       \/ event = "Activity" /\ Working /\ ~staleActivity
             k == IF adopts THEN Adopted(rows, evidence, 0) ELSE 0
         IN /\ rows' = CASE event \in {"TurnEnded", "QuietSettle"} ->
                              TurnEndRows(event, prompt)
                         [] event \in {"SessionEnded", "TurnFailed"} -> EndedRows
                         [] OTHER -> AdoptRows(rows, k, 0)
            /\ write' = AdoptEvidence(rows, k, evidence)
            /\ delegation' = AdoptDelegation(rows, k, delegation)
            /\ awaiting' = AdoptAwaiting(k)
            /\ wake' = Woken
            /\ typed' = Told(event, prompt)

HookLifecycle ==
    /\ hook.pc = "lifecycle"
    /\ Lifecycle(hook.event, hook.prompt)
    /\ hook' = NoHook(hook.seen)
    /\ UNCHANGED <<next, job, callers, session, refusing, lastPrompt, exiting,
                   disturbed>>

(* The agent hands back an answer and names its request (stamp_submit).    *)
NamedHandback(named) ==
    /\ Delegated /\ named \in 1 .. delegation.round + 1
    /\ hook.seen < MaxHooks
    /\ hook' = [hook EXCEPT !.seen = @ + 1]
    /\ LET k == Adopted(rows, write, named)
           d == AdoptDelegation(rows, k, delegation)
           asked == /\ AdoptAwaiting(k) /\ named = d.round + 1
                    /\ d.state # "done"
       IN /\ rows' = AdoptRows(rows, k, named)
          /\ write' = AdoptEvidence(rows, k, write)
          /\ typed' = IF k = 0 THEN typed ELSE [typed EXCEPT ![k].fresh = TRUE]
          /\ awaiting' = (AdoptAwaiting(k) /\ ~asked)
          /\ delegation' = IF asked THEN [d EXCEPT !.round = @ + 1] ELSE d
    /\ UNCHANGED <<next, job, wake, callers, session, refusing, lastPrompt,
                   exiting, disturbed>>

-----------------------------------------------------------------------------
(* The pane, its operator and the daemon around the queue.                 *)

SessionBecomes(s) ==
    /\ session' = s
    /\ UNCHANGED <<rows, next, write, job, wake, callers, refusing, lastPrompt,
                   awaiting, delegation, hook, typed>>

(* The hook of a turn end that a sub-agent keeps from being applied; hooks *)
(* are applied one at a time, under the lock of the drop directory.        *)
TurnEndWithheld ==
    /\ hook.pc = "idle" /\ session.live /\ session.status = "working"
    /\ Disturbed("withhold")
    /\ SessionBecomes([session EXCEPT !.status = "owed"])
    /\ UNCHANGED exiting

(* The operator types into the composer, and clears or submits it.         *)
HoldBegins ==
    /\ session.live /\ ~session.hold
    /\ Disturbed("hold")
    /\ SessionBecomes([session EXCEPT !.hold = TRUE])
    /\ UNCHANGED exiting

HoldEnds ==
    /\ session.hold
    /\ SessionBecomes([session EXCEPT !.hold = FALSE])
    /\ UNCHANGED <<exiting, disturbed>>

(* A close is reserved; dropping the reservation gives it up.              *)
CloseReserved ==
    /\ session.live /\ ~session.closing
    /\ Disturbed("close")
    /\ SessionBecomes([session EXCEPT !.closing = TRUE])
    /\ UNCHANGED exiting

CloseDropped ==
    /\ session.closing
    /\ SessionBecomes([session EXCEPT !.closing = FALSE])
    /\ UNCHANGED <<exiting, disturbed>>

(* finish_session: the process ended; the lifecycle handler runs later,    *)
(* once the cleanup lock has been released.  A respawned pane has a new    *)
(* session id: this one is never live again, and keeps its rows.           *)
SessionExits ==
    /\ session.live
    /\ Disturbed("exit")
    /\ SessionBecomes([session EXCEPT !.live = FALSE, !.hold = FALSE])
    /\ exiting' = TRUE

ExitLifecycle ==
    /\ exiting
    /\ exiting' = FALSE
    /\ Lifecycle("SessionEnded", 0)
    /\ UNCHANGED <<next, job, callers, session, refusing, lastPrompt, hook,
                   disturbed>>

(* A hand-off begins, and is rolled back.                                  *)
RefusalBegins ==
    /\ ~refusing /\ Disturbed("refuse")
    /\ refusing' = TRUE
    /\ UNCHANGED <<rows, next, write, job, wake, callers, session, lastPrompt,
                   awaiting, delegation, hook, exiting, typed>>

RefusalEnds ==
    /\ refusing
    /\ refusing' = FALSE
    /\ UNCHANGED <<rows, next, write, job, wake, callers, session, lastPrompt,
                   awaiting, delegation, hook, exiting, disturbed, typed>>

RecoveredMutant(row) ==
    IF row.state = "uncertain" THEN [row EXCEPT !.state = "queued"] ELSE row

(* instruction_recover.                                                    *)
Recovered(row) ==
    IF row.state = "queued" \/ (row.state = "uncertain" /\ row.touched)
    THEN [row EXCEPT !.state = IF row.touched THEN "uncertain" ELSE "held"]
    ELSE row

(* The daemon dies between any two critical sections and starts again.     *)
(* Its memory is gone; a pane is adopted alive or is not.                  *)
Crash ==
    /\ Disturbed("crash")
    /\ rows' = [i \in Ids |-> Recovered(rows[i])]
    /\ write' = NoWrite
    /\ job' = "idle"
    /\ wake' = "off"
    /\ callers' = [i \in Ids |-> "done"]
    /\ \E live \in BOOLEAN :
         session' = [live |-> session.live /\ live, closing |-> FALSE,
                     status |-> "idle", hold |-> FALSE]
    /\ delegation' \in {delegation,
                        [delegation EXCEPT !.state = IF Delegated THEN "done"
                                                     ELSE "none"]}
    /\ refusing' = FALSE
    /\ lastPrompt' \in {lastPrompt, 0}
    /\ awaiting' = FALSE
    /\ hook' = NoHook(hook.seen)
    /\ exiting' = FALSE
    /\ UNCHANGED <<next, typed>>

-----------------------------------------------------------------------------
Threads == {WakeThread} \cup Ids

Dispatch(t) == \/ DispatchNothing(t) \/ DispatchEnded(t) \/ DispatchHeld(t)
               \/ DispatchInterrupt(t) \/ DispatchPaste(t)

Continue == Withdrawn \/ InterruptReceipt \/ PasteReceipt \/ Submit \/ EnterReceipt

Next ==
    \/ \E mode \in Modes : Accept(mode)
    \/ \E i \in Ids : AcceptWake(i) \/ Cancel(i) \/ Resume(i)
    \/ \E t \in Threads : Dispatch(t)
    \/ \E outcome \in {"written", "unwritten", "partial"} : PtyWrite(outcome)
    \/ Continue
    \/ WakeExit
    \/ \E event \in HookEvents, prompt \in PromptIds \cup {0} :
         HookStatus(event, prompt)
    \/ HookDelegation
    \/ HookLifecycle
    \/ \E named \in 1 .. MaxHooks + MaxInstr + 1 : NamedHandback(named)
    \/ TurnEndWithheld \/ HoldBegins \/ HoldEnds
    \/ CloseReserved \/ CloseDropped
    \/ SessionExits \/ ExitLifecycle
    \/ RefusalBegins \/ RefusalEnds
    \/ Crash

Spec == Init /\ [][Next]_vars

(* Threads that hold or wait for no lock go on; the stdin writer ends each *)
(* job; an event that has begun to be applied is applied to its end.  No   *)
(* caller, operator, agent or crash is bound to act.                       *)
Fairness ==
    /\ \A t \in Threads : WF_vars(Dispatch(t))
    /\ \A i \in Ids : WF_vars(AcceptWake(i))
    /\ WF_vars(\E outcome \in {"written", "unwritten", "partial"} :
                  PtyWrite(outcome))
    /\ WF_vars(Continue)
    /\ WF_vars(WakeExit)
    /\ WF_vars(HookDelegation) /\ WF_vars(HookLifecycle)
    /\ WF_vars(ExitLifecycle)

FairSpec == Spec /\ Fairness

-----------------------------------------------------------------------------
(* Properties.                                                             *)

Row == [state : RowStates, mode : {"queue", "steer", "restart"},
        touched : BOOLEAN, adopted : BOOLEAN, named_adoption : BOOLEAN,
        completed : BOOLEAN, request_id : Nat, dispatch_prompt_id : Nat,
        interrupt_sent : BOOLEAN, restart_ready : BOOLEAN]

Write == [id : Ids \cup {0}, owner : Threads,
          pc : {"idle", "interrupt", "paste", "settle", "enter"},
          submitted : BOOLEAN, started : BOOLEAN, ended : BOOLEAN,
          restart_ready : BOOLEAN, session_ended : BOOLEAN,
          previous : SUBSET Ids]

TypedKeys == [interrupt : Nat, paste : Nat, enter : Nat, idle : BOOLEAN,
              fresh : BOOLEAN]

(* Type invariant of the table and of the daemon's memory.                 *)
TypeOK ==
    /\ rows \in [Ids -> Row]
    /\ next \in 1 .. MaxInstr + 1
    /\ write \in Write
    /\ job \in {"idle", "queued", "written", "unwritten", "partial"}
    /\ wake \in {"off", "run", "writing", "exit"}
    /\ callers \in [Ids -> {"dispatch", "writing", "wake", "done"}]
    /\ session \in [live : BOOLEAN, closing : BOOLEAN, hold : BOOLEAN,
                     status : {"idle", "working", "owed", "needs_input"}]
    /\ refusing \in BOOLEAN
    /\ lastPrompt \in Nat
    /\ awaiting \in BOOLEAN
    /\ delegation \in [state : {"none", "spawning", "working", "needs_input",
                                "done"}, round : Nat]
    /\ hook \in [pc : {"idle", "delegation", "lifecycle"},
                 event : AgentEvents, prompt : Nat, seen : Nat]
    /\ exiting \in BOOLEAN
    /\ disturbed \in Nat
    /\ typed \in [Ids -> TypedKeys]

(* No instruction is ever typed twice: whatever crashes, receipts that     *)
(* never came, cancellations, resumptions and retries happen, the terminal *)
(* gets at most one interrupt, one paste and one Enter of an instruction,  *)
(* and no Enter without its paste.                                         *)
TypedAtMostOnce ==
    \A i \in Ids : /\ typed[i].interrupt <= 1
                   /\ typed[i].enter <= typed[i].paste
                   /\ typed[i].paste <= 1

(* "Delivered means it wrote the complete prompt and Enter": a delivered   *)
(* row has both on the terminal, also when its receipt raced a crash or    *)
(* the end of the pane.                                                    *)
DeliveredWasTyped ==
    \A i \in Ids : rows[i].state = "delivered" =>
                      typed[i].paste = 1 /\ typed[i].enter = 1

(* What instruction_resume may queue again has left no byte on the         *)
(* terminal: an untouched held row was never typed, nor its interrupt.     *)
ResumableWasNeverTyped ==
    \A i \in Ids : rows[i].state \in {"queued", "held"} /\ ~rows[i].touched =>
        typed[i].interrupt = 0 /\ typed[i].paste = 0 /\ typed[i].enter = 0

(* Instructions are typed in the order of acceptance: while one is         *)
(* written, none before it is queued, held or uncertain, even though an    *)
(* immediate mode may pass the one that is running.                        *)
TypedInOrder ==
    write.id # 0 => \A i \in Ids : i < write.id => ~Pending(rows[i])

(* At most one delivered instruction is not complete, so a start or a turn *)
(* end cannot be credited to the wrong one; and queue mode is not typed    *)
(* into the turn of another.                                               *)
OneOpen ==
    /\ \A i, j \in Ids : Open(rows[i]) /\ Open(rows[j]) => i = j
    /\ write.id # 0 /\ rows[write.id].mode = "queue" =>
         \A i \in Ids : Open(rows[i]) => FALSE

(* The prompt that follows an interrupt waits for an authoritative turn    *)
(* end seen after the interrupt was claimed; a quiet terminal is none.     *)
RestartWaitsForIdle ==
    \A i \in Ids : typed[i].interrupt > 0 /\ typed[i].paste > 0 => typed[i].idle

(* An old turn cannot finish a new instruction: a child's instruction is   *)
(* complete only after a start that was not the echo of the prompt before  *)
(* it, or after its request was named.                                     *)
CompletedAfterFreshStart ==
    \A i \in Ids : Delegated /\ rows[i].completed => typed[i].fresh

(* A request number is given out once: the claim of a prompt reserves a    *)
(* number past that of every delivered instruction.  A child that is still *)
(* spawning owes its initial request, and may be given its number again.   *)
RequestsIncrease ==
    [][\A i, j \in Ids :
         /\ Delegated /\ rows[i].state = "delivered"
         /\ write.id = 0 /\ write'.id = j /\ write'.pc = "paste"
         => \/ rows[i].request_id < rows'[j].request_id
            \/ /\ delegation.state = "spawning"
               /\ rows[i].request_id = rows'[j].request_id]_vars

(* The number an instruction reserved is at most one past the round of the *)
(* child, so that adoption is never refused ("reserved request, expected") *)
(* however many prompts the operator sent meanwhile.                       *)
ReservedIsReachable ==
    \A i \in Ids : rows[i].request_id <= delegation.round + 1

(* While a prompt waits for its hook, the row that will be adopted by the  *)
(* hook exists: the mark never outlives it to open a round of its own.     *)
AwaitingHasRow ==
    Delegated /\ awaiting =>
        \E i \in Ids : /\ Open(rows[i]) /\ ~rows[i].adopted
                       /\ rows[i].request_id >= delegation.round

(* The limits of the table hold whatever is pruned and whatever resumes.   *)
WithinLimits ==
    /\ Cardinality(ActiveIds) <= ActiveMax
    /\ Cardinality(Retained) <= RetainedMax

(* Cancelling wins: a cancelled instruction stays so, and from then on no  *)
(* further key of it is handed to the stdin writer.                        *)
CancelledStaysSilent ==
    [][\A i \in Ids : rows[i].state \in {"cancelled", "pruned"} =>
         /\ rows'[i].state \in {"cancelled", "pruned"}
         /\ ~(write'.id = i /\ job' = "queued" /\ job # "queued")]_vars

(* Houston's own input has no later round to complete it: once its pane    *)
(* has ended and the end was handled, none of it is left open.             *)
DaemonInputSettles ==
    ~Delegated /\ ~session.live /\ ~exiting =>
        \A i \in Ids : ~Open(rows[i])

(* The head could be typed now: the child can accept a prompt.             *)
Ready(i) ==
    /\ ~session.closing /\ session.live /\ ~refusing
    /\ ActiveIds # {} /\ Head = i /\ rows[i].state = "queued"
    /\ ~AwaitsIdle(rows[i])
    /\ ~HeldFor(rows[i].mode) /\ ~NeedsInterrupt(rows[i])

(* A queue whose wake thread polls is served: the thread does not spin on  *)
(* a reservation that a withdrawn or failed write left behind.             *)
WokenQueueIsServed ==
    \A i \in Ids : (wake = "run" /\ Ready(i)) ~> ~Ready(i)

-----------------------------------------------------------------------------
(* What the documentation says and the code does not do.                   *)

(* "Queue is the default and waits until the child can accept a prompt":   *)
(* once it can, the head does not wait for ever (instruction_wake).        *)
WaitsOnlyUntilReady ==
    \A i \in Ids : Ready(i) ~> ~Ready(i)

=============================================================================
