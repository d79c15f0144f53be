----------------------------- MODULE PaneStream -----------------------------
(***************************************************************************)
(* The output of one session on its way to one pane: the scrollback ring   *)
(* (scrollback.rs), the tap that queues frames for one connection          *)
(* (frame_queue.rs), the connection's loop with its attach set             *)
(* (server.rs), the socket, and the pane that paints (ui: ws.ts,           *)
(* TerminalPane.tsx).                                                      *)
(*                                                                         *)
(* Output is a count of bytes, a frame the interval it carries.  The       *)
(* session's reader pushes a chunk to the ring under the ring's lock and   *)
(* offers it to the tap later; an attach copies the ring on a thread of    *)
(* its own while its tap is held; a slow socket lets the tap fill and      *)
(* drop; the pane is hidden and shown, and its connection is lost and      *)
(* made again.                                                             *)
(***************************************************************************)
EXTENDS Naturals, FiniteSets, Sequences, SequencesExt

CONSTANTS
    Chunks,        \* lengths of a read of the PTY
    RingCap,       \* SCROLLBACK_CAP
    TrimSlack,     \* TRIM_SLACK
    CutWindow,     \* SAFE_CUT_WINDOW
    SgrLen,        \* length of SGR_RESET
    QueueDepth,    \* FRAME_QUEUE_DEPTH
    QueueBytes,    \* FRAME_QUEUE_BYTES
    MergeCeiling,  \* FRAME_MERGE_CEILING_BYTES
    TurnBytes,     \* FLUSH_TURN_BYTES
    ReplayBytes,   \* ATTACH_REPLAY_BYTES
    PendingCap,    \* PENDING_CAP_BYTES
    Emulator,      \* the daemon has an emulator: hello_ok.snapshot_attach
    KeepsScreen,   \* hidden panes keep their screen: hiddenPanePolicy()
    WireCap,       \* bound: messages the socket holds before a send waits
    MaxOutput,     \* bound: bytes the session writes
    MaxFaults      \* bound: kinds of fault in one behaviour

ASSUME PaneStreamAssumption ==
    /\ Chunks \subseteq Nat \ {0}
    /\ {RingCap, TrimSlack, CutWindow, SgrLen, QueueDepth, QueueBytes, MergeCeiling,
        TurnBytes, ReplayBytes, PendingCap, WireCap, MaxOutput, MaxFaults} \subseteq Nat
    /\ TurnBytes > 0 /\ WireCap > 0 /\ CutWindow < RingCap /\ CutWindow < ReplayBytes
    /\ Emulator \in BOOLEAN /\ KeepsScreen \in BOOLEAN

VARIABLES
    ring,      \* the scrollback ring: offset of its first byte, bytes seen
    fresh,     \* the chunk pushed to the ring and not yet offered to the tap
    tap,       \* FrameTap's state
    visible,   \* the connection wants the session's frames
    held,      \* frames wait behind an attach reply
    wake,      \* the permit of the loop's Notify
    attempts,  \* attach replies of this connection so far
    landing,   \* the attach under way off the loop
    inbox,     \* requests of the pane on their way to the loop
    wire,      \* messages on their way to the pane
    pane,      \* seqRef and the refs beside it
    screen,    \* what is painted: an interval, and whether it has no hole
    faults     \* history: the faults so far, each kind once

server == <<ring, fresh, tap, visible, held, wake, attempts, landing>>
client == <<pane, screen>>
vars == <<server, inbox, wire, client, faults>>

(* What may go wrong: the pane is hidden, its connection is lost, the      *)
(* emulator gives no snapshot, the pane refuses one, an attach fails, the  *)
(* pane's write queue overflows.                                           *)
Faults == {"hide", "reconnect", "no snapshot", "refused", "error", "overflow"}

(* Two ways the pane lets a hole through, recorded where they happen: it   *)
(* goes live on the frames it held when they pass the cap, though a gap    *)
(* was among them; and a replay that starts just after its cursor is taken *)
(* for one that overlaps it, because the SGR reset counts as output.       *)
Leaks == {"cap", "prefix"}

Fault(kind) ==
    /\ kind \notin faults /\ Cardinality(faults \ Leaks) < MaxFaults
    /\ faults' = faults \cup {kind}

-----------------------------------------------------------------------------
(* Frames, gaps and the tap                                                *)

Frame(a, b) == [kind |-> "frame", from |-> a, to |-> b]
Gap(a, n) == [kind |-> "gap", from |-> a, to |-> a + n]
None == [kind |-> "none", from |-> 0, to |-> 0]

Size(i) == IF i.kind = "frame" THEN i.to - i.from ELSE 0

(* Payload bytes of a sequence of items.                                   *)
Bytes(s) ==
    LET sum[n \in 0 .. Len(s)] == IF n = 0 THEN 0 ELSE sum[n - 1] + Size(s[n])
    IN  sum[Len(s)]

IsFrame(i) == i.kind = "frame"

FramesIn(s) == Cardinality({i \in DOMAIN s : IsFrame(s[i])})

NewTap ==
    [queue |-> << >>, pending |-> None, frames |-> 0, bytes |-> 0,
     dropping |-> FALSE, anchor |-> 0, dropped |-> 0, cutoff |-> 0]

(* finalize_pending                                                        *)
Finalized(t) ==
    IF t.pending = None THEN t
    ELSE [t EXCEPT !.queue = Append(@, t.pending), !.pending = None]

(* The gap of an open drop episode, as a sequence.                         *)
OpenGap(t) == IF t.dropping THEN <<Gap(t.anchor, t.dropped)>> ELSE << >>

ClosedMutant(t) == [t EXCEPT !.dropped = 0]

Closed(t) == [t EXCEPT !.dropping = FALSE, !.dropped = 0]

(* The frame an offer may be merged into.                                  *)
LastFrame(t) ==
    IF t.pending # None THEN t.pending
    ELSE IF t.queue # << >> /\ IsFrame(Last(t.queue)) THEN Last(t.queue) ELSE None

MergesMutant(t, f) == LastFrame(t) # None /\ Size(LastFrame(t)) + Size(f) <= MergeCeiling

Merges(t, f) ==
    LET last == LastFrame(t)
    IN  last # None /\ last.to = f.from /\ Size(last) + Size(f) <= MergeCeiling

FullMutant(t, f) ==
    \/ ~Merges(t, f) /\ t.frames >= QueueDepth
    \/ t.bytes >= QueueBytes

Full(t, f) ==
    \/ ~Merges(t, f) /\ t.frames >= QueueDepth
    \/ t.bytes + Size(f) > QueueBytes

RecordDropMutant(t, f) ==
    [t EXCEPT !.dropped = @ + f.to, !.dropping = TRUE,
              !.anchor = IF t.dropping THEN @ ELSE f.from]

RecordDrop(t, f) ==
    [t EXCEPT !.dropped = @ + Size(f), !.dropping = TRUE,
              !.anchor = IF t.dropping THEN @ ELSE f.from]

(* An accepted frame: the gap of an episode it ends goes before it; a      *)
(* merge leaves the queue's last frame pending, to be grown in place.      *)
Accept(t, f) ==
    LET u == IF Merges(t, f) THEN t ELSE Finalized(t)
        v == Closed([u EXCEPT !.queue = @ \o OpenGap(t), !.bytes = @ + Size(f)])
        merged == Frame(LastFrame(t).from, f.to)
    IN  IF ~Merges(t, f)
          THEN [v EXCEPT !.queue = Append(@, f), !.frames = @ + 1]
        ELSE IF t.pending # None
          THEN [v EXCEPT !.pending = merged]
        ELSE [v EXCEPT !.queue = Front(v.queue), !.pending = merged]

Covered(t, f) == f.to <= t.cutoff

(* The items that end after an offset.                                     *)
Retained(s, offset) ==
    LET kept[n \in 0 .. Len(s)] ==
            IF n = 0 THEN << >>
            ELSE IF s[n].to > offset THEN Append(kept[n - 1], s[n]) ELSE kept[n - 1]
    IN  kept[Len(s)]

(* FrameTap::attach: what the reply covers is pruned.                      *)
Attached(t, cutoff) ==
    LET u == Finalized(t)
        kept == Retained(u.queue, cutoff)
        v == [u EXCEPT !.queue = kept, !.cutoff = cutoff, !.bytes = Bytes(kept),
                       !.frames = FramesIn(kept)]
    IN  IF t.dropping /\ t.anchor + t.dropped <= cutoff THEN Closed(v) ELSE v

(* drain_up_to: whole items from the front, then the head of the one that  *)
(* straddles the turn; a pending frame is reached only when the queue is   *)
(* empty and the turn is not.                                              *)
Drained(t) ==
    LET reached == Bytes(t.queue) < TurnBytes
        u == IF reached THEN Finalized(t) ELSE t
        q == u.queue
        Taken(n) == Bytes(SubSeq(q, 1, n))
        Whole(n) == \A j \in 1 .. n : Taken(j - 1) < TurnBytes /\ Taken(j) <= TurnBytes
        n == CHOOSE n \in 0 .. Len(q) : Whole(n) /\ ~(n < Len(q) /\ Whole(n + 1))
        cut == q[n + 1].from + (TurnBytes - Taken(n))
        split == n < Len(q) /\ Taken(n) < TurnBytes
        out == SubSeq(q, 1, n) \o (IF split THEN <<Frame(q[n + 1].from, cut)>> ELSE << >>)
        rest == IF split THEN <<Frame(cut, q[n + 1].to)>> \o SubSeq(q, n + 2, Len(q))
                         ELSE SubSeq(q, n + 1, Len(q))
        v == [u EXCEPT !.queue = rest, !.bytes = @ - Bytes(out),
                       !.frames = @ - FramesIn(SubSeq(q, 1, n))]
        more == rest # << >> \/ u.pending # None
    IN  [tap |-> IF more THEN v ELSE Closed(v),
         out |-> IF more THEN out ELSE out \o OpenGap(t),
         more |-> more]

-----------------------------------------------------------------------------
(* The session's reader                                                    *)

(* A cut at or after an offset: past the next newline, before the next     *)
(* escape, or raw.                                                         *)
SafeCut(from, end) == {c \in from .. from + CutWindow : c <= end}

(* Scrollback::push, under the ring's lock.                                *)
Push(n) ==
    LET seen == ring.seen + n
    IN  /\ fresh = None
        /\ seen <= MaxOutput
        /\ fresh' = Frame(ring.seen, seen)
        /\ IF seen - ring.start > RingCap + TrimSlack
             THEN \E cut \in SafeCut(seen - RingCap, seen) : ring' = [start |-> cut, seen |-> seen]
             ELSE ring' = [ring EXCEPT !.seen = seen]
        /\ UNCHANGED <<tap, visible, held, wake, attempts, landing, inbox, wire, client, faults>>

(* FrameRegistry::offer_lazy, after the lock is released: the tap, if the  *)
(* connection has registered one, takes the frame, drops it or already     *)
(* covers it.                                                              *)
Offer ==
    /\ fresh # None
    /\ fresh' = None
    /\ \/ /\ ~visible \/ Covered(tap, fresh)
          /\ UNCHANGED <<tap, wake>>
       \/ /\ visible /\ ~Covered(tap, fresh) /\ Full(tap, fresh)
          /\ tap' = RecordDrop(tap, fresh)
          /\ UNCHANGED wake
       \/ /\ visible /\ ~Covered(tap, fresh) /\ ~Full(tap, fresh)
          /\ tap' = Accept(tap, fresh)
          /\ wake' = TRUE
    /\ UNCHANGED <<ring, visible, held, attempts, landing, inbox, wire, client, faults>>

-----------------------------------------------------------------------------
(* The connection's loop                                                   *)

NoLanding == [kind |-> "none"]

(* A request that names a session with an attach under way waits for it.   *)
Request(kind) == landing = NoLanding /\ inbox # << >> /\ Head(inbox).kind = kind

(* AttachSet::insert: a tap registered before anything is copied.          *)
Inserted == IF visible THEN tap ELSE NewTap

HandleShow ==
    /\ Request("show")
    /\ visible' = TRUE
    /\ tap' = Inserted
    /\ inbox' = Tail(inbox)
    /\ UNCHANGED <<ring, fresh, held, wake, attempts, landing, wire, client, faults>>

HandleHide ==
    /\ Request("hide")
    /\ visible' = FALSE
    /\ tap' = NewTap
    /\ inbox' = Tail(inbox)
    /\ UNCHANGED <<ring, fresh, held, wake, attempts, landing, wire, client, faults>>

HandleAttach ==
    /\ Request("attach")
    /\ visible' = TRUE
    /\ tap' = Inserted
    /\ held' = TRUE
    /\ landing' = Head(inbox)
    /\ inbox' = Tail(inbox)
    /\ UNCHANGED <<ring, fresh, wake, attempts, wire, client, faults>>

(* prepare_attach, on a blocking thread: a snapshot if one is asked for,   *)
(* unless the emulator gives none; the bytes after the pane's offset, if   *)
(* the ring still holds them; or else the ring's tail, cut safely, behind  *)
(* an SGR reset when it does not start at the stream's start.              *)
Replay(from, data) == [kind |-> "replay", from |-> from, to |-> ring.seen, data |-> data]

Partial(from) ==
    LET n == ring.seen - from
    IN  Replay(from, IF from > 0 /\ n > 0 THEN n + SgrLen ELSE n)

Resumable == landing.resume /\ landing.from >= ring.start /\ landing.from <= ring.seen

Prepare ==
    /\ landing.kind = "attach"
    /\ \/ /\ landing.snapshot
          /\ landing' = [kind |-> "snapshot", to |-> ring.seen]
          /\ UNCHANGED faults
       \/ /\ Resumable
          /\ landing' = Replay(landing.from, ring.seen - landing.from)
          /\ UNCHANGED faults
       \/ /\ ~Resumable
          /\ IF landing.snapshot THEN Fault("no snapshot") ELSE UNCHANGED faults
          /\ IF ring.seen - ring.start > ReplayBytes
               THEN \E cut \in SafeCut(ring.seen - ReplayBytes, ring.seen) : landing' = Partial(cut)
               ELSE landing' = Partial(ring.start)
    /\ UNCHANGED <<ring, fresh, tap, visible, held, wake, attempts, inbox, wire, client>>

(* land_attach: the tap is released and pruned, the reply numbered and     *)
(* sent before any of its frames.                                          *)
Room == Len(wire) < WireCap

LandMutant ==
    /\ landing.kind \in {"snapshot", "replay"}
    /\ Room
    /\ held' = FALSE
    /\ tap' = Attached(tap, landing.to)
    /\ attempts' = attempts + 1
    /\ wire' = Append(wire, [kind |-> "reply", attempt |-> attempts + 1, body |-> landing])
    /\ landing' = NoLanding
    /\ UNCHANGED <<ring, fresh, wake, visible, inbox, client, faults>>

Land ==
    /\ landing.kind \in {"snapshot", "replay"}
    /\ Room
    /\ held' = FALSE
    /\ wake' = TRUE
    /\ tap' = Attached(tap, landing.to)
    /\ attempts' = attempts + 1
    /\ wire' = Append(wire, [kind |-> "reply", attempt |-> attempts + 1, body |-> landing])
    /\ landing' = NoLanding
    /\ UNCHANGED <<ring, fresh, visible, inbox, client, faults>>

(* The preparation failed: the reply is an error, the attempt counts.      *)
LandErrorMutant ==
    /\ landing.kind = "attach"
    /\ Fault("error")
    /\ held' = FALSE
    /\ wake' = TRUE
    /\ landing' = NoLanding
    /\ UNCHANGED <<ring, fresh, tap, visible, attempts, inbox, wire, client>>

LandError ==
    /\ landing.kind = "attach"
    /\ Fault("error")
    /\ held' = FALSE
    /\ wake' = TRUE
    /\ attempts' = attempts + 1
    /\ landing' = NoLanding
    /\ UNCHANGED <<ring, fresh, tap, visible, inbox, wire, client>>

(* flush_frames: one turn of the tap unless it is held; what is left arms  *)
(* the wake again.                                                         *)
Flush ==
    /\ wake
    /\ Room
    /\ IF visible /\ ~held
         THEN LET d == Drained(tap)
              IN  tap' = d.tap /\ wire' = wire \o d.out /\ wake' = d.more
         ELSE wake' = FALSE /\ UNCHANGED <<tap, wire>>
    /\ UNCHANGED <<ring, fresh, visible, held, attempts, landing, inbox, client, faults>>

-----------------------------------------------------------------------------
(* The pane                                                                *)

BlankScreen == [from |-> 0, to |-> 0, whole |-> TRUE]

(* Painting the bytes from a up to b after what is there.                  *)
Painted(s, a, b) ==
    IF a >= b THEN s
    ELSE IF s.from = s.to THEN [s EXCEPT !.from = a, !.to = b]
    ELSE [s EXCEPT !.to = b, !.whole = @ /\ a = s.to]

MaxOf(a, b) == IF a > b THEN a ELSE b

(* wantsSnapshot                                                           *)
Wants(p) == Emulator /\ ~p.skip

(* sendAttach: the pane after it, and the message.                         *)
Attaching(p) == [p EXCEPT !.awaiting = Wants(p), !.skip = FALSE, !.sent = @ + 1]

AttachMsg(p, resume) ==
    LET from == resume /\ ~Wants(p) /\ p.known
    IN  [kind |-> "attach", snapshot |-> Wants(p), resume |-> from,
         from |-> IF from THEN p.cursor ELSE 0]

(* resetAndReattach                                                        *)
Unsynced(p) ==
    [p EXCEPT !.synced = FALSE, !.cursor = 0, !.pending = << >>, !.catchup = FALSE,
              !.awaiting = FALSE, !.overflow = FALSE]

ResetAndReattach(p) ==
    /\ pane' = Attaching(Unsynced(p))
    /\ inbox' = Append(inbox, AttachMsg(Unsynced(p), FALSE))
    /\ screen' = BlankScreen

(* Where a write starts: what the cursor has passed is cut off.            *)
WriteStartMutant(offset, cursor) == offset

WriteStart(offset, cursor) == MaxOf(offset, cursor)

(* writeFrom of held frames, exempt from the check that nothing is missing.*)
WriteExempt(w, f) ==
    IF f.to <= w.cursor THEN w
    ELSE [cursor |-> f.to, screen |-> Painted(w.screen, WriteStart(f.from, w.cursor), f.to)]

(* The pane synced up to `cursor` with `s` painted, and its held frames    *)
(* written after it.                                                       *)
SyncedAt(p, cursor, s, pending) ==
    LET after[n \in 0 .. Len(pending)] ==
            IF n = 0 THEN [cursor |-> cursor, screen |-> s]
            ELSE WriteExempt(after[n - 1], pending[n])
        w == after[Len(pending)]
    IN  /\ pane' = [p EXCEPT !.synced = TRUE, !.catchup = FALSE, !.pending = << >>,
                             !.cursor = w.cursor]
        /\ screen' = w.screen

Live == pane.synced /\ ~pane.catchup

Received(kind) == wire # << >> /\ Head(wire).kind = kind /\ wire' = Tail(wire)

(* A frame while the pane is live: old bytes are skipped, a hole makes it  *)
(* attach again, and a full write queue makes it ask for a snapshot.       *)
FrameLive ==
    LET f == Head(wire)
        written == [pane EXCEPT !.cursor = f.to]
        resyncing == Attaching([pane EXCEPT !.catchup = TRUE, !.pending = << >>, !.overflow = TRUE])
    IN  /\ Received("frame") /\ Live
        /\ \/ /\ f.to <= pane.cursor
              /\ UNCHANGED <<client, inbox, faults>>
           \/ /\ f.from > pane.cursor
              /\ ResetAndReattach(pane)
              /\ UNCHANGED faults
           \/ /\ f.from <= pane.cursor /\ f.to > pane.cursor
              /\ pane' = written
              /\ screen' = Painted(screen, WriteStart(f.from, pane.cursor), f.to)
              /\ UNCHANGED <<inbox, faults>>
           \/ /\ f.from <= pane.cursor /\ f.to > pane.cursor
              /\ Wants(pane) /\ Fault("overflow")
              /\ pane' = [resyncing EXCEPT !.cursor = f.to]
              /\ inbox' = Append(inbox, AttachMsg(pane, FALSE))
              /\ UNCHANGED screen
        /\ UNCHANGED server

(* A frame while the pane waits for a reply is held, up to the cap.        *)
FrameHeld ==
    LET pending == Append(pane.pending, Head(wire))
    IN  /\ Received("frame") /\ ~Live
        /\ \/ /\ Bytes(pending) <= PendingCap
              /\ pane' = [pane EXCEPT !.pending = pending]
              /\ UNCHANGED <<screen, inbox, faults>>
           \/ /\ Bytes(pending) > PendingCap
              /\ pane.catchup \/ pane.awaiting
              /\ ResetAndReattach(pane)
              /\ UNCHANGED faults
           \/ /\ Bytes(pending) > PendingCap
              /\ ~pane.catchup /\ ~pane.awaiting
              /\ SyncedAt(pane, pane.cursor, screen, pending)
              /\ faults' = faults \cup {"cap"}
              /\ UNCHANGED inbox
        /\ UNCHANGED server

(* A gap: an unsynced pane waits for its reply anyway.                     *)
ReceiveGap ==
    /\ Received("gap")
    /\ IF pane.synced THEN ResetAndReattach(pane) ELSE UNCHANGED <<client, inbox>>
    /\ UNCHANGED <<server, faults>>

Reply(kind) ==
    /\ Received("reply")
    /\ Head(wire).body.kind = kind
    /\ Head(wire).attempt = pane.sent

(* A reply to an attach that is no longer the newest is ignored.           *)
ReceiveStale ==
    /\ Received("reply")
    /\ Head(wire).attempt # pane.sent
    /\ UNCHANGED <<server, inbox, client, faults>>

(* A replay: ignored by a pane that went live meanwhile; appended after    *)
(* what a catching-up pane shows, from its cursor on; or painted on a      *)
(* blank screen.                                                           *)
ReceiveReplay ==
    LET r == Head(wire).body
        answered == [pane EXCEPT !.known = TRUE, !.awaiting = FALSE, !.overflow = FALSE]
        base == IF pane.overflow THEN BlankScreen ELSE screen
        appends == pane.synced /\ ~pane.overflow
        overlaps == pane.cursor + r.data >= r.to
    IN  /\ Reply("replay")
        /\ \/ /\ Live
              /\ pane' = [pane EXCEPT !.known = TRUE]
              /\ UNCHANGED <<screen, inbox, faults>>
           \/ /\ ~Live /\ appends /\ r.to <= pane.cursor
              /\ SyncedAt(answered, pane.cursor, screen, pane.pending)
              /\ UNCHANGED <<inbox, faults>>
           \/ /\ ~Live /\ appends /\ r.to > pane.cursor /\ overlaps
              /\ SyncedAt(answered, r.to, Painted(screen, MaxOf(r.from, pane.cursor), r.to), pane.pending)
              /\ faults' = IF pane.cursor < r.from THEN faults \cup {"prefix"} ELSE faults
              /\ UNCHANGED inbox
           \/ /\ ~Live /\ appends /\ r.to > pane.cursor /\ ~overlaps
              /\ ResetAndReattach(answered)
              /\ UNCHANGED faults
           \/ /\ ~Live /\ ~appends
              /\ SyncedAt(answered, r.to, Painted(base, r.from, r.to), pane.pending)
              /\ UNCHANGED <<inbox, faults>>
        /\ UNCHANGED server

(* A snapshot replaces the screen, unless the terminal refuses it.         *)
ReceiveSnapshot ==
    LET r == Head(wire).body
        answered == [pane EXCEPT !.known = TRUE, !.awaiting = FALSE, !.overflow = FALSE]
    IN  /\ Reply("snapshot")
        /\ \/ /\ SyncedAt(answered, r.to, [from |-> 0, to |-> r.to, whole |-> TRUE], pane.pending)
              /\ UNCHANGED <<inbox, faults>>
           \/ /\ Fault("refused")
              /\ ResetAndReattach([answered EXCEPT !.skip = TRUE])
        /\ UNCHANGED server

(* The pane is hidden long enough: the daemon stops sending its frames.    *)
Hide ==
    /\ pane.shown /\ Fault("hide")
    /\ pane' = [pane EXCEPT !.shown = FALSE]
    /\ inbox' = Append(inbox, [kind |-> "hide"])
    /\ UNCHANGED <<server, wire, screen>>

(* It is shown again: a synced pane that kept its screen asks only for     *)
(* what follows its cursor.                                                *)
Show ==
    LET resume == pane.synced /\ KeepsScreen
        p == [pane EXCEPT !.catchup = TRUE, !.skip = @ \/ resume, !.shown = TRUE]
    IN  /\ ~pane.shown
        /\ pane' = Attaching(p)
        /\ inbox' = inbox \o <<[kind |-> "show"], AttachMsg(p, resume)>>
        /\ UNCHANGED <<server, wire, screen, faults>>

(* The connection ends with what was on its way, both ways; the pane       *)
(* starts over on a new one.                                               *)
Reconnect ==
    LET p == Unsynced([pane EXCEPT !.sent = 0, !.known = FALSE])
    IN  /\ Fault("reconnect")
        /\ visible' = FALSE /\ held' = FALSE /\ wake' = FALSE
        /\ tap' = NewTap
        /\ attempts' = 0
        /\ landing' = NoLanding
        /\ wire' = << >>
        /\ pane' = Attaching(p)
        /\ inbox' = <<AttachMsg(p, FALSE)>>
        /\ screen' = BlankScreen
        /\ UNCHANGED <<ring, fresh>>

-----------------------------------------------------------------------------

NewPane ==
    [synced |-> FALSE, cursor |-> 0, pending |-> << >>, catchup |-> FALSE,
     awaiting |-> FALSE, overflow |-> FALSE, skip |-> FALSE, shown |-> TRUE,
     sent |-> 0, known |-> FALSE]

(* The pane has just mounted and asked for its session.                    *)
Init ==
    /\ ring = [start |-> 0, seen |-> 0]
    /\ fresh = None
    /\ tap = NewTap
    /\ visible = FALSE /\ held = FALSE /\ wake = FALSE
    /\ attempts = 0
    /\ landing = NoLanding
    /\ inbox = <<[kind |-> "show"], AttachMsg(NewPane, FALSE)>>
    /\ wire = << >>
    /\ pane = Attaching(NewPane)
    /\ screen = BlankScreen
    /\ faults = {}

Loop == HandleShow \/ HandleHide \/ HandleAttach \/ Prepare \/ Land \/ LandError \/ Flush

Receive == FrameLive \/ FrameHeld \/ ReceiveGap \/ ReceiveStale \/ ReceiveReplay \/ ReceiveSnapshot

Next ==
    \/ \E n \in Chunks : Push(n)
    \/ Offer \/ Loop \/ Receive
    \/ Hide \/ Show \/ Reconnect

Spec == Init /\ [][Next]_vars

(* Some thread of the two processes with a step to take takes one; output  *)
(* and faults need not happen, and a hidden pane may stay hidden.          *)
Progress ==
    Offer \/ HandleShow \/ HandleHide \/ HandleAttach \/ Prepare \/ Land \/ Flush \/ Receive

Fairness == WF_vars(Progress)

FairSpec == Spec /\ Fairness

-----------------------------------------------------------------------------
(* Properties                                                              *)

Offsets == 0 .. MaxOutput
Items == [kind : {"frame", "gap"}, from : Offsets, to : Offsets]
Snapshots == [kind : {"snapshot"}, to : Offsets]
Replays == [kind : {"replay"}, from : Offsets, to : Offsets, data : 0 .. MaxOutput + SgrLen]
Attaches == [kind : {"attach"}, snapshot : BOOLEAN, resume : BOOLEAN, from : Offsets]

(* The shape of every variable.                                            *)
TypeOK ==
    /\ ring \in [start : Offsets, seen : Offsets]
    /\ fresh \in Items \cup {None}
    /\ tap \in [queue : Seq(Items), pending : Items \cup {None}, frames : Nat, bytes : Nat,
                dropping : BOOLEAN, anchor : Offsets, dropped : Offsets, cutoff : Offsets]
    /\ {visible, held, wake} \subseteq BOOLEAN
    /\ attempts \in Nat
    /\ landing \in {NoLanding} \cup Attaches \cup Snapshots \cup Replays
    /\ inbox \in Seq({[kind |-> "show"], [kind |-> "hide"]} \cup Attaches)
    /\ wire \in Seq(Items \cup [kind : {"reply"}, attempt : Nat, body : Snapshots \cup Replays])
    /\ pane \in [synced : BOOLEAN, cursor : Offsets, pending : Seq(Items), catchup : BOOLEAN,
                 awaiting : BOOLEAN, overflow : BOOLEAN, skip : BOOLEAN, shown : BOOLEAN,
                 sent : Nat, known : BOOLEAN]
    /\ screen \in [from : Offsets, to : Offsets, whole : BOOLEAN]
    /\ faults \subseteq Faults \cup Leaks

(* What the tap will still send, in order.                                 *)
Unsent ==
    Finalized(tap).queue \o OpenGap(tap)
        \o (IF fresh # None /\ visible /\ ~Covered(tap, fresh) THEN <<fresh>> ELSE << >>)

(* A registered tap accounts for every byte: frames and gaps follow each   *)
(* other without a hole or an overlap, in stream order, up to the last     *)
(* byte the session wrote, whatever merges, drops, splits and attaches     *)
(* made of them.                                                           *)
TapTiles ==
    visible =>
        /\ \A i \in 1 .. Len(Unsent) - 1 : Unsent[i].to = Unsent[i + 1].from
        /\ Unsent # << >> => Last(Unsent).to = ring.seen

(* The counters a tap keeps are the frames and bytes it holds, and neither *)
(* passes its limit, however long the connection stalls.                   *)
TapCounts ==
    /\ tap.frames = FramesIn(Finalized(tap).queue) /\ tap.frames <= QueueDepth
    /\ tap.bytes = Bytes(Finalized(tap).queue) /\ tap.bytes <= QueueBytes

(* A frame never merges across an open drop episode: its gap would come    *)
(* before a frame that precedes the loss, or trip the assertion that the   *)
(* queue ends in a frame.                                                  *)
NoMergeAcrossGap == visible /\ fresh # None /\ tap.dropping => ~Merges(tap, fresh)

(* Both ends number attaches alike: the loop's count and the attaches it   *)
(* has still to answer add up to what the pane sent.  A count that drifts  *)
(* makes the pane ignore every later reply.                                *)
AttemptsAgree ==
    attempts + Cardinality({i \in DOMAIN inbox : inbox[i].kind = "attach"})
             + (IF landing = NoLanding THEN 0 ELSE 1) = pane.sent

(* What is painted is one unbroken run, as PaneView specifies, unless one  *)
(* of the two leaks let a hole through.                                    *)
View == INSTANCE PaneView WITH
    produced <- ring.seen,
    view <- IF screen.whole \/ faults \cap Leaks # {}
              THEN [from |-> screen.from, to |-> screen.to] ELSE screen

PaneShowsOneRun == View!Spec

(* When output and faults end, a shown pane ends up showing the last byte, *)
(* unless an attach of it failed, it went live on held frames and ignored  *)
(* its reply, or it was hidden while its write queue recovered from an     *)
(* overflow: the attach of a pane shown again asks for what follows a      *)
(* cursor that counts the discarded bytes.                                 *)
CaughtUp ==
    <>[](\/ faults \cap {"error", "cap"} # {} \/ {"overflow", "hide"} \subseteq faults
         \/ pane.shown => screen.to = ring.seen)

=============================================================================
