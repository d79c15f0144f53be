---------------------------- MODULE ChildInputs -----------------------------
(***************************************************************************)
(* What a child agent asks, and who answers it: the permission prompts and *)
(* questions its provider shows in the pane (reported by hooks), and the   *)
(* questions the child reports itself.  An ask belongs to the parent agent *)
(* until it is escalated; the parent may deny a permission or answer a     *)
(* question, the operator types in the pane.                               *)
(*                                                                         *)
(* Three pictures of the same prompts are kept by three parties: what the  *)
(* provider shows (shown), the episodes in the daemon's memory, and the    *)
(* asks in its database, from which the delegation's state is projected.   *)
(* They are changed by the hooks of the pane, applied one at a time and in *)
(* several critical sections each, by calls of the parent, by the operator *)
(* and by the stdin writer, which types later than a key is admitted.      *)
(*                                                                         *)
(* One child, its parent, one operator.  Prompts carry the provider's own  *)
(* identity (a tool use id).                                               *)
(***************************************************************************)
EXTENDS Naturals, Sequences, FiniteSets

CONSTANTS
    MaxAsks,        \* prompts the provider shows and questions reported
    MaxKeys,        \* keys the operator and the parent send, less the faults
    Faults,         \* what goes wrong: see FaultKinds
    MaxFaults       \* how many kinds, in one behaviour; each at most once

FaultKinds == {"unwritten", "replayed", "parent exits", "child exits"}

ASSUME ChildInputsAssumption ==
    /\ MaxAsks \in Nat /\ MaxKeys \in Nat /\ MaxFaults \in Nat
    /\ Faults \subseteq FaultKinds

VARIABLES
    provider,       \* [shown, kind, running, next]: the agent in the pane
    hooks,          \* hook drops not applied yet, oldest first
    hook,           \* the drop being applied, and the section it is at
    episodes,       \* permission_episodes: prompts the daemon tracks
    status,         \* the pane's agent status
    asks,           \* table child_input_requests, in order of creation
    delegation,     \* [state, staged]: the delegation row
    panes,          \* [child, parent]: which of the two are live
    input,          \* [pending, current, on, captured]: flags of Session
    stdin,          \* jobs of the pane's stdin writer
    unsent,         \* denials nothing was written of, call not returned
    keys,           \* keys the operator and the parent sent so far
    faults,         \* the kinds of fault so far
    denials         \* how often each ask was denied in the terminal

vars == <<provider, hooks, hook, episodes, status, asks, delegation, panes,
          input, stdin, unsent, keys, faults, denials>>

AskIds  == 1..MaxAsks
Prompts == AskIds
None    == 0
Kinds   == {"permission", "question"}
Closed  == {"done", "failed"}

Fault(kind) ==
    /\ kind \in Faults \ faults /\ Cardinality(faults) < MaxFaults
    /\ keys + Cardinality(faults) < MaxKeys
    /\ faults' = faults \cup {kind}

(* The bound on asks: prompts shown and questions reported.                *)
CanAsk ==
    provider.next + Cardinality({a \in DOMAIN asks : asks[a].source = None}) <= MaxAsks

-----------------------------------------------------------------------------
(* The table of asks.  A report has no source; it is always a question.    *)

Ask(source, kind) ==
    [source |-> source, kind |-> kind, owner |-> "orchestrator",
     open |-> TRUE, denied |-> FALSE]

Open(as) == {a \in DOMAIN as : as[a].open}

Reports(as) == {a \in Open(as) : as[a].source = None}

OpenPermissions(as) == {a \in Open(as) : as[a].kind = "permission"}

First(S) == CHOOSE a \in S : \A b \in S : a <= b

(* The ask that is shown: the operator's before the parent's, a permission *)
(* before a question, the oldest first.                                    *)
Top(as) ==
    LET users == {a \in Open(as) : as[a].owner = "user"}
        mine  == IF users # {} THEN users ELSE Open(as)
        perms == {a \in mine : as[a].kind = "permission"}
    IN  IF mine = {} THEN None
        ELSE First(IF perms # {} THEN perms ELSE mine)

(* project: the state of an open delegation follows its asks.              *)
ProjectMutant(d, as) ==
    IF Top(as) = None \/ d.state \in Closed THEN d
    ELSE [d EXCEPT !.state = IF as[Top(as)].owner = "user"
                             THEN "needs_input" ELSE "asked_orchestrator"]

Project(d, as) ==
    IF d.state \in Closed THEN d
    ELSE [d EXCEPT !.state =
            IF Top(as) = None THEN "working"
            ELSE IF as[Top(as)].owner = "user" THEN "needs_input"
            ELSE "asked_orchestrator"]

Resolve(as, S) == [a \in DOMAIN as |->
                      IF a \in S THEN [as[a] EXCEPT !.open = FALSE] ELSE as[a]]

SourceAsks(as, S) == {a \in Open(as) : as[a].source \in S}

(* child_input_escalate, for every ask the parent owns.                    *)
Escalated(as, S) ==
    [a \in DOMAIN as |->
        IF a \in S \cap Open(as) THEN [as[a] EXCEPT !.owner = "user"] ELSE as[a]]

EscalateAll(d, as) ==
    IF panes.child /\ d.state \notin Closed
    THEN Escalated(as, DOMAIN as) ELSE as

(* child_input_open_provider, for every prompt tracked: a source opens one *)
(* ask, and a late replay of an answered one opens none.                   *)
UnaskedMutant(as) == {p \in episodes : \A a \in Open(as) : as[a].source # p}

Unasked(as) == {p \in episodes : \A a \in DOMAIN as : as[a].source # p}

Opened(as) ==
    LET new == Unasked(as)
        add == [i \in 1..Cardinality(new) |->
                  CHOOSE p \in new : Cardinality({q \in new : q < p}) = i - 1]
    IN  as \o [i \in DOMAIN add |-> Ask(add[i], provider.kind[add[i]])]

(* expire_worker_dialogue: a delegation that closes has no ask left.       *)
Expired(d, as) == IF d.state \in Closed THEN Resolve(as, Open(as)) ELSE as

(* broadcast_delegation, tasks_on_input_ownership: what the session        *)
(* remembers of the ask shown.                                             *)
Broadcast(in, as) == [in EXCEPT !.pending = Top(as) # None, !.current = Top(as)]

(* A transaction on the table ends in project, and its caller broadcasts.  *)
Commit(as) ==
    /\ asks' = as
    /\ delegation' = Project(delegation, as)
    /\ input' = Broadcast(input, as)

-----------------------------------------------------------------------------
(* The agent in the pane.  Keys act on the oldest prompt it shows.         *)

Hook(ev, p) == [ev |-> ev, p |-> p]

Ends == {"PostToolUse", "PermissionDenied"}

InterruptTurn ==
    /\ provider.running
    /\ provider' = [provider EXCEPT !.shown = {}, !.running = FALSE]
    /\ hooks' = Append(hooks, Hook("interrupt", None))

(* A denial is reported as such, any other answer by the tool's end.       *)
AnswerPrompt(who) ==
    /\ provider.shown # {}
    /\ LET p == First(provider.shown)
       IN  /\ provider' = [provider EXCEPT !.shown = @ \ {p}]
           /\ hooks' = Append(hooks, Hook(IF who = "deny" THEN "PermissionDenied"
                                          ELSE "PostToolUse", p))

StartTurn ==
    /\ ~provider.running
    /\ provider' = [provider EXCEPT !.running = TRUE]
    /\ hooks' = Append(hooks, Hook("submit", None))

(* What typing does: an answer, an interrupt, a prompt or nothing.         *)
Typed(who) ==
    \/ AnswerPrompt(who)
    \/ InterruptTurn
    \/ who # "deny" /\ StartTurn
    \/ provider.shown = {} /\ UNCHANGED <<provider, hooks>>

ShowPrompt(kind) ==
    /\ provider.running /\ CanAsk
    /\ provider' = [provider EXCEPT !.shown = @ \cup {provider.next},
                                    !.kind[provider.next] = kind,
                                    !.next = @ + 1]
    /\ hooks' = Append(hooks, Hook("open", provider.next))
    /\ UNCHANGED <<hook, episodes, status, asks, delegation, panes, input,
                   stdin, unsent, keys, faults, denials>>

EndTurn ==
    /\ provider.running /\ provider.shown = {}
    /\ provider' = [provider EXCEPT !.running = FALSE]
    /\ hooks' = Append(hooks, Hook("stop", None))
    /\ UNCHANGED <<hook, episodes, status, asks, delegation, panes, input,
                   stdin, unsent, keys, faults, denials>>

(* The hook of an answered prompt is delivered again, late: after those    *)
(* that were sent behind it.                                               *)
ReplayHook(p) ==
    /\ Fault("replayed")
    /\ panes.child /\ p < provider.next /\ p \notin provider.shown
    /\ hooks = <<>>
    /\ hooks' = <<Hook("open", p)>>
    /\ UNCHANGED <<provider, hook, episodes, status, asks, delegation, panes,
                   input, stdin, unsent, keys, denials>>

-----------------------------------------------------------------------------
(* Applying a hook: hooks of a pane are applied one after another, each in *)
(* the sections below, between which every other actor may run.            *)

Idle == [at |-> "idle", ev |-> "none", gone |-> {}, cleared |-> FALSE]

(* The section after the agent event, or in place of it.                   *)
Rest(h) == IF h.ev = "PostToolUse" THEN [Idle EXCEPT !.at = "activity"] ELSE Idle

BeginHook ==
    /\ hook.at = "idle" /\ hooks # <<>>
    /\ LET h    == Head(hooks)
           gone == CASE h.ev = "open"  -> {}
                     [] h.ev \in Ends -> episodes \cap {h.p}
                     [] OTHER         -> episodes
           left == IF h.ev = "open" THEN episodes \cup {h.p} ELSE episodes \ gone
           now  == [at |-> IF gone # {} THEN "resolve" ELSE "apply", ev |-> h.ev,
                    gone |-> gone, cleared |-> gone # {} /\ left = {}]
       IN  /\ episodes' = left
           /\ hook' = IF gone = {} /\ h.ev \in Ends THEN Rest(now) ELSE now
    /\ hooks' = Tail(hooks)
    /\ UNCHANGED <<provider, status, asks, delegation, panes, input, stdin,
                   unsent, keys, faults, denials>>

(* resolve_permission_episodes, once it has the cleanup lock.              *)
ResolveHook ==
    /\ hook.at = "resolve"
    /\ Commit(Resolve(asks, SourceAsks(asks, hook.gone)))
    /\ hook' = IF hook.ev \in Ends /\ ~hook.cleared THEN Rest(hook)
               ELSE [Idle EXCEPT !.at = "apply", !.ev = hook.ev]
    /\ UNCHANGED <<provider, hooks, episodes, status, panes, stdin, unsent,
                   keys, faults, denials>>

(* Every prompt tracked was answered before: the hook was a replay.        *)
AllAnswered ==
    /\ hook.ev = "open" /\ episodes # {}
    /\ \A p \in episodes : \E a \in DOMAIN asks : asks[a].source = p /\ ~asks[a].open

DropReplay ==
    /\ hook.at = "apply" /\ AllAnswered
    /\ episodes' = {}
    /\ hook' = Idle
    /\ UNCHANGED <<provider, hooks, status, asks, delegation, panes, input,
                   stdin, unsent, keys, faults, denials>>

(* The event does not apply: an ended pane, or nothing to resolve.         *)
IgnoreEvent ==
    /\ hook.at = "apply" /\ ~AllAnswered
    /\ ~panes.child \/ (hook.ev \in Ends /\ status # "needs_input")
    /\ hook' = Rest(hook)
    /\ UNCHANGED <<provider, hooks, episodes, status, asks, delegation, panes,
                   input, stdin, unsent, keys, faults, denials>>

(* NeedsInput: a gone parent keeps none of the asks.                       *)
ApplyNeedsInput ==
    /\ hook.at = "apply" /\ panes.child /\ hook.ev = "open" /\ ~AllAnswered
    /\ status' = "needs_input"
    /\ LET as == Opened(asks)
       IN  IF panes.parent \/ EscalateAll(delegation, as) = as
           THEN /\ asks' = as
                /\ delegation' = Project(delegation, as)
                /\ UNCHANGED input
           ELSE Commit(EscalateAll(delegation, as))
    /\ hook' = [hook EXCEPT !.at = "own"]
    /\ UNCHANGED <<provider, hooks, episodes, panes, stdin, unsent, keys,
                   faults, denials>>

(* A prompt, a turn's end or the last answer resolves what the provider    *)
(* asked, and is the evidence an operator's intervention waits for.        *)
Answered(in, as) ==
    Resolve(as, {a \in Open(as) : as[a].source # None}
                  \cup (IF in.on THEN Reports(as) \cap {in.captured} ELSE {}))

CapturedReport ==
    input.captured \in {a \in DOMAIN asks : asks[a].source = None}

ApplyResolved ==
    /\ hook.at = "apply" /\ panes.child /\ hook.ev # "open"
    /\ hook.ev \in Ends => status = "needs_input"
    /\ status' = IF hook.ev \in {"stop", "interrupt"} THEN "idle" ELSE "working"
    /\ episodes' = {}
    /\ asks' = Answered(input, asks)
    /\ delegation' = Project(delegation, asks')
    /\ input' = [(IF input.on /\ CapturedReport THEN Broadcast(input, asks')
                                                ELSE input)
                   EXCEPT !.on = FALSE, !.captured = IF input.on THEN None ELSE @]
    /\ hook' = [hook EXCEPT !.at = "own"]
    /\ UNCHANGED <<provider, hooks, panes, stdin, unsent, keys, faults, denials>>

(* tasks_on_input_ownership, without the lock.                             *)
OwnInput ==
    /\ hook.at = "own"
    /\ input' = [input EXCEPT !.pending = Top(asks) # None]
    /\ hook' = [hook EXCEPT !.at = "advance"]
    /\ UNCHANGED <<provider, hooks, episodes, status, asks, delegation, panes,
                   stdin, unsent, keys, faults, denials>>

(* delegation_transition, and the result it hands back.                    *)
Moved(d, ev) ==
    CASE ev \in Ends \cup {"submit"} ->
            [d EXCEPT !.state = IF d.state = "failed" THEN @ ELSE "working"]
      [] ev \in {"stop", "interrupt"} /\ d.state \notin Closed ->
            [state |-> IF d.staged THEN "done" ELSE "working", staged |-> FALSE]
      [] OTHER -> d

(* advance_delegation: an open ask stops all but an interrupt.             *)
AdvanceHook ==
    /\ hook.at = "advance"
    /\ hook' = Rest(hook)
    /\ IF ~panes.child THEN UNCHANGED <<asks, delegation, input>>
       ELSE IF Top(asks) # None /\ hook.ev # "interrupt"
       THEN /\ delegation' =
                 [delegation EXCEPT !.staged =
                    @ /\ ~(hook.ev = "open" /\ asks[Top(asks)].owner = "orchestrator")]
            /\ input' = Broadcast(input, asks)
            /\ UNCHANGED asks
       ELSE LET d  == Moved(delegation, hook.ev)
                as == IF delegation.state \in Closed THEN asks ELSE Expired(d, asks)
            IN  /\ asks' = as
                /\ delegation' = Project(d, as)
                /\ input' = Broadcast(input, as)
    /\ UNCHANGED <<provider, hooks, episodes, status, panes, stdin, unsent,
                   keys, faults, denials>>

(* note_reported_tool_activity: the pane works unless a prompt is open.    *)
NoteActivityMutant ==
    /\ hook.at = "activity"
    /\ IF panes.child
       THEN /\ status' = "working"
            /\ input' = [input EXCEPT !.pending = Top(asks) # None]
       ELSE UNCHANGED <<status, input>>
    /\ hook' = Idle
    /\ UNCHANGED <<provider, hooks, episodes, asks, delegation, panes, stdin,
                   unsent, keys, faults, denials>>

NoteActivity ==
    /\ hook.at = "activity"
    /\ IF episodes = {} /\ panes.child
       THEN /\ status' = "working"
            /\ input' = [input EXCEPT !.pending = Top(asks) # None]
       ELSE UNCHANGED <<status, input>>
    /\ hook' = Idle
    /\ UNCHANGED <<provider, hooks, episodes, asks, delegation, panes, stdin,
                   unsent, keys, faults, denials>>

-----------------------------------------------------------------------------
(* The parent agent.                                                       *)

Job(who, a, marked) == [who |-> who, ask |-> a, marked |-> marked]

(* assert_no_operator_input_intervention, asked about an ask or about none.*)
NoIntervention(a) ==
    input.on => a # None /\ input.captured # None /\ input.captured # a

(* orchestrate_deny: the oldest permission ask, and the only prompt the    *)
(* daemon tracks.  The claim is written before the key is admitted.        *)
DenyMutant(a) ==
    /\ panes.parent /\ panes.child
    /\ OpenPermissions(asks) # {} /\ a = First(OpenPermissions(asks))
    /\ asks[a].owner = "orchestrator" /\ ~asks[a].denied
    /\ episodes = {asks[a].source}
    /\ asks' = [asks EXCEPT ![a].denied = TRUE]
    /\ stdin' = Append(stdin, Job("deny", a, FALSE))
    /\ UNCHANGED <<provider, hooks, hook, episodes, status, delegation, panes,
                   input, unsent, keys, faults, denials>>

Deny(a) ==
    /\ panes.parent /\ panes.child
    /\ OpenPermissions(asks) # {} /\ a = First(OpenPermissions(asks))
    /\ asks[a].owner = "orchestrator" /\ ~asks[a].denied
    /\ NoIntervention(None)
    /\ episodes = {asks[a].source}
    /\ asks' = [asks EXCEPT ![a].denied = TRUE]
    /\ stdin' = Append(stdin, Job("deny", a, FALSE))
    /\ UNCHANGED <<provider, hooks, hook, episodes, status, delegation, panes,
                   input, unsent, keys, faults, denials>>

(* The call returns: a denial nothing was written of may be tried again.   *)
DenyReturnsMutant(a) ==
    /\ a \in unsent
    /\ unsent' = unsent \ {a}
    /\ UNCHANGED <<provider, hooks, hook, episodes, status, asks, delegation,
                   panes, input, stdin, keys, faults, denials>>

DenyReturns(a) ==
    /\ a \in unsent
    /\ unsent' = unsent \ {a}
    /\ asks' = [asks EXCEPT ![a].denied = @ /\ ~asks[a].open]
    /\ UNCHANGED <<provider, hooks, hook, episodes, status, delegation, panes,
                   input, stdin, keys, faults, denials>>

(* orchestrate_escalate: the ask shown, when the parent still owns it.     *)
Escalate ==
    /\ panes.parent /\ panes.child /\ Top(asks) # None
    /\ Commit(IF delegation.state \in Closed THEN asks
              ELSE Escalated(asks, {Top(asks)}))
    /\ UNCHANGED <<provider, hooks, hook, episodes, status, panes, stdin,
                   unsent, keys, faults, denials>>

(* orchestrate_send_keys.                                                  *)
SendKeys ==
    /\ panes.parent /\ panes.child /\ keys + Cardinality(faults) < MaxKeys
    /\ OpenPermissions(asks) = {}
    /\ \A p \in episodes : provider.kind[p] # "permission"
    /\ Top(asks) # None => asks[Top(asks)].owner # "user"
    /\ NoIntervention(None)
    /\ stdin' = Append(stdin, Job("orchestrator", None, FALSE))
    /\ keys' = keys + 1
    /\ UNCHANGED <<provider, hooks, hook, episodes, status, asks, delegation,
                   panes, input, unsent, faults, denials>>

(* orchestrate_reply, to a question the child reported.                    *)
Reply(a) ==
    /\ panes.parent /\ delegation.state \notin Closed
    /\ a \in Reports(asks) /\ asks[a].owner # "user" /\ NoIntervention(a)
    /\ Commit(Resolve(asks, {a}))
    /\ UNCHANGED <<provider, hooks, hook, episodes, status, panes, stdin,
                   unsent, keys, faults, denials>>

(* The parent's own turn ends, or its pane does: its asks go to the user.  *)
ParentTurnEnds ==
    /\ panes.parent
    /\ EscalateAll(delegation, asks) # asks
    /\ Commit(EscalateAll(delegation, asks))
    /\ UNCHANGED <<provider, hooks, hook, episodes, status, panes, stdin,
                   unsent, keys, faults, denials>>

ParentExits ==
    /\ panes.parent /\ Fault("parent exits")
    /\ panes' = [panes EXCEPT !.parent = FALSE]
    /\ IF EscalateAll(delegation, asks) = asks
       THEN UNCHANGED <<asks, delegation, input>>
       ELSE Commit(EscalateAll(delegation, asks))
    /\ UNCHANGED <<provider, hooks, hook, episodes, status, stdin, unsent,
                   keys, denials>>

-----------------------------------------------------------------------------
(* The child.                                                              *)

(* orchestrate_report of a question or a blocker.                          *)
ReportMutant ==
    /\ provider.running /\ panes.child /\ delegation.state \notin Closed
    /\ CanAsk
    /\ Commit(Append(asks, Ask(None, "question")))
    /\ UNCHANGED <<provider, hooks, hook, episodes, status, panes, stdin,
                   unsent, keys, faults, denials>>

Report ==
    /\ provider.running /\ panes.child /\ delegation.state \notin Closed
    /\ CanAsk
    /\ LET as == Append(asks, Ask(None, "question"))
       IN  Commit(IF panes.parent THEN as ELSE EscalateAll(delegation, as))
    /\ UNCHANGED <<provider, hooks, hook, episodes, status, panes, stdin,
                   unsent, keys, faults, denials>>

(* A progress report: the child moved on from what it asked.               *)
Progress ==
    /\ provider.running /\ panes.child /\ delegation.state \notin Closed
    /\ Reports(asks) # {}
    /\ LET as == Resolve(asks, Reports(asks))
       IN  Commit(IF panes.parent THEN as ELSE EscalateAll(delegation, as))
    /\ UNCHANGED <<provider, hooks, hook, episodes, status, panes, stdin,
                   unsent, keys, faults, denials>>

(* orchestrate_submit: the result waits for the turn's end.                *)
Submit ==
    /\ provider.running /\ panes.child
    /\ delegation.state \notin Closed /\ ~delegation.staged
    /\ delegation' = [delegation EXCEPT !.staged = TRUE]
    /\ input' = Broadcast(input, asks)
    /\ UNCHANGED <<provider, hooks, hook, episodes, status, asks, panes, stdin,
                   unsent, keys, faults, denials>>

(* finish_session, and in a section of its own delegation_child_exited.    *)
ChildExits ==
    /\ panes.child /\ Fault("child exits")
    /\ panes' = [panes EXCEPT !.child = FALSE]
    /\ provider' = [provider EXCEPT !.shown = {}, !.running = FALSE]
    /\ UNCHANGED <<hooks, hook, episodes, status, asks, delegation, input,
                   stdin, unsent, keys, denials>>

CloseDelegation ==
    /\ ~panes.child /\ delegation.state \notin Closed
    /\ delegation' = [state |-> IF delegation.staged THEN "done" ELSE "failed",
                      staged |-> FALSE]
    /\ asks' = Expired(delegation', asks)
    /\ input' = Broadcast(input, asks')
    /\ UNCHANGED <<provider, hooks, hook, episodes, status, panes, stdin,
                   unsent, keys, faults, denials>>

-----------------------------------------------------------------------------
(* The operator, and the stdin writer.                                     *)

(* enqueue_renderer_stdin: the key that starts an intervention marks it.   *)
Type ==
    /\ panes.child /\ keys + Cardinality(faults) < MaxKeys
    /\ LET marks == (input.pending \/ status = "needs_input") /\ ~input.on
       IN  /\ input' = IF marks THEN [input EXCEPT !.on = TRUE,
                                                  !.captured = input.current]
                       ELSE input
           /\ stdin' = Append(stdin, Job("operator",
                                   IF marks THEN input.current ELSE None, marks))
    /\ keys' = keys + 1
    /\ UNCHANGED <<provider, hooks, hook, episodes, status, asks, delegation,
                   panes, unsent, faults, denials>>

(* child_input_resolve, inbox_resolve: only what the child reported.       *)
Dismiss(a) ==
    /\ a \in Reports(asks)
    /\ Commit(Resolve(asks, {a}))
    /\ UNCHANGED <<provider, hooks, hook, episodes, status, panes, stdin,
                   unsent, keys, faults, denials>>

Write ==
    /\ stdin # <<>> /\ panes.child
    /\ stdin' = Tail(stdin)
    /\ Typed(Head(stdin).who)
    /\ denials' = IF Head(stdin).who = "deny"
                  THEN [denials EXCEPT ![Head(stdin).ask] = @ + 1] ELSE denials
    /\ UNCHANGED <<hook, episodes, status, asks, delegation, panes, input,
                   unsent, keys, faults>>

(* Nothing was written: a marked key takes its intervention back.          *)
WriteFails ==
    /\ stdin # <<>>
    /\ IF panes.child THEN Fault("unwritten") ELSE UNCHANGED faults
    /\ stdin' = Tail(stdin)
    /\ LET job == Head(stdin)
       IN  /\ unsent' = IF job.who = "deny" THEN unsent \cup {job.ask} ELSE unsent
           /\ input' = IF job.marked THEN [input EXCEPT !.on = FALSE, !.captured = None]
                       ELSE input
    /\ UNCHANGED <<provider, hooks, hook, episodes, status, asks, delegation,
                   panes, keys, denials>>

-----------------------------------------------------------------------------
Init ==
    /\ provider = [shown |-> {}, kind |-> [p \in Prompts |-> "question"],
                   running |-> TRUE, next |-> 1]
    /\ hooks = <<>> /\ hook = Idle /\ episodes = {} /\ status = "working"
    /\ asks = <<>> /\ delegation = [state |-> "working", staged |-> FALSE]
    /\ panes = [child |-> TRUE, parent |-> TRUE]
    /\ input = [pending |-> FALSE, current |-> None, on |-> FALSE, captured |-> None]
    /\ stdin = <<>> /\ unsent = {} /\ faults = {}
    /\ keys = 0
    /\ denials = [a \in AskIds |-> 0]

Next ==
    \/ \E kind \in Kinds : ShowPrompt(kind)
    \/ EndTurn
    \/ \E p \in Prompts : ReplayHook(p)
    \/ BeginHook \/ ResolveHook \/ DropReplay \/ IgnoreEvent
    \/ ApplyNeedsInput \/ ApplyResolved \/ OwnInput \/ AdvanceHook \/ NoteActivity
    \/ \E a \in DOMAIN asks : Deny(a) \/ DenyReturns(a) \/ Reply(a) \/ Dismiss(a)
    \/ Escalate \/ SendKeys \/ ParentTurnEnds \/ ParentExits
    \/ Report \/ Progress \/ Submit \/ ChildExits \/ CloseDelegation
    \/ Type \/ Write \/ WriteFails

Spec == Init /\ [][Next]_vars

-----------------------------------------------------------------------------
TypeOK ==
    /\ provider \in [shown : SUBSET Prompts, kind : [Prompts -> Kinds],
                     running : BOOLEAN, next : 1..(MaxAsks + 1)]
    /\ \A i \in DOMAIN hooks : hooks[i].p \in Prompts \cup {None}
    /\ hook.at \in {"idle", "resolve", "apply", "own", "advance", "activity"}
    /\ episodes \subseteq Prompts
    /\ status \in {"working", "needs_input", "idle"}
    /\ DOMAIN asks \subseteq AskIds
    /\ \A a \in DOMAIN asks :
          asks[a] \in [source : Prompts \cup {None}, kind : Kinds, open : BOOLEAN,
                      owner : {"orchestrator", "user"}, denied : BOOLEAN]
    /\ delegation \in [state : Closed \cup {"working", "asked_orchestrator", "needs_input"},
                       staged : BOOLEAN]
    /\ panes \in [child : BOOLEAN, parent : BOOLEAN]
    /\ input \in [pending : BOOLEAN, current : DOMAIN asks \cup {None},
                  on : BOOLEAN, captured : DOMAIN asks \cup {None}]
    /\ unsent \subseteq DOMAIN asks
    /\ faults \subseteq Faults

(* project: through every section of every call, the state of an open      *)
(* delegation tells whether the operator or the parent owes an answer.     *)
StateFollowsAsks ==
    LET owners == {asks[a].owner : a \in Open(asks)}
    IN  delegation.state \notin Closed =>
          delegation.state = IF "user" \in owners THEN "needs_input"
                             ELSE IF owners # {} THEN "asked_orchestrator"
                             ELSE "working"

(* escalate_child_inputs_locked: an ask of a live child never waits for a  *)
(* parent that is gone, whether it was opened before or after the exit.    *)
GoneParentOwnsNothing ==
    ~panes.parent /\ panes.child /\ delegation.state \notin Closed
        => \A a \in Open(asks) : asks[a].owner = "user"

(* child_permission_claim_deny, child_permission_retry_zero_write: a       *)
(* permission claimed for denial has exactly one denial on its way, typed  *)
(* or about to be given back; an unclaimed one has none.                   *)
DenialAccounted ==
    \A a \in Open(asks) :
        Cardinality({i \in DOMAIN stdin : stdin[i].who = "deny" /\ stdin[i].ask = a})
          + denials[a] + (IF a \in unsent THEN 1 ELSE 0)
        = IF asks[a].denied THEN 1 ELSE 0

(* Once every hook is applied and none was delivered twice, the episodes,  *)
(* the asks and the status of the pane agree with what the provider shows. *)
ProviderAgrees ==
    hooks = <<>> /\ hook = Idle /\ panes.child /\ "replayed" \notin faults
        => /\ episodes = provider.shown
           /\ {asks[a].source : a \in Open(asks)} \ {None} = provider.shown
           /\ status = "needs_input" <=> provider.shown # {}

(* note_input_intervention: while every key is written, the parent's       *)
(* denial is never queued behind a key with which the operator took the    *)
(* same ask over.  (A failed key takes back a later key's intervention.)   *)
OperatorAnswersFirst ==
    "unwritten" \notin faults =>
        \A i, j \in DOMAIN stdin :
            i < j /\ stdin[i].marked /\ stdin[j].who = "deny"
                => stdin[i].ask # stdin[j].ask
=============================================================================
