----------------------- MODULE InstructionTurnsProofs -----------------------
(***************************************************************************)
(* More theorems about InstructionQueue: one instruction runs at a time, a *)
(* restart waits for the end of the turn it interrupted, the limits of the *)
(* table hold, reserved request numbers are reachable, and Houston's own   *)
(* input is settled with its pane.                                         *)
(***************************************************************************)
EXTENDS InstructionQueueProofs

-----------------------------------------------------------------------------
(* Steady steps.  Four kinds of step matter: an acceptance, the claim of   *)
(* the head, the receipt of a written Enter, and all others, which leave   *)
(* every row where it is: they deliver, accept and prune none, complete    *)
(* some, and may forget a reserved number.                                 *)

RowSteady(i) ==
    /\ rows'[i].mode = rows[i].mode
    /\ rows'[i].state = "delivered" <=> rows[i].state = "delivered"
    /\ rows'[i].state = "none" <=> rows[i].state = "none"
    /\ rows'[i].state = "pruned" <=> rows[i].state = "pruned"
    /\ Pending(rows'[i]) => Pending(rows[i])
    /\ rows[i].completed => rows'[i].completed
    /\ Open(rows'[i]) /\ rows[i].adopted => rows'[i].adopted
    /\ rows'[i].request_id \in {rows[i].request_id, 0}

(* The reservation is kept with its snapshot, or dropped.                  *)
WriteSteady == \/ write'.id = 0
               \/ write'.id = write.id /\ write'.previous = write.previous

Steady == (\A i \in Ids : RowSteady(i)) /\ WriteSteady

Delivers == EnterReceipt /\ AllWritten /\ TargetLive(write)

(* The columns of a row that a steady step may leave alone.                *)
LEMMA SameRowsSteady ==
    ASSUME UNCHANGED rows
    PROVE  \A i \in Ids : RowSteady(i)
BY DEF RowSteady

(* One row changes its state among those of an instruction that waits, is  *)
(* written or is cancelled.                                                *)
LEMMA OneRowSteady ==
    ASSUME rows \in [Ids -> Row], NEW i \in Ids, NEW row \in Row,
           rows' = [rows EXCEPT ![i] = row], row.mode = rows[i].mode,
           rows[i].state \notin {"delivered", "none", "pruned"},
           row.state \notin {"delivered", "none", "pruned"},
           Pending(row) => Pending(rows[i]),
           row.completed = rows[i].completed, row.adopted = rows[i].adopted,
           row.request_id \in {rows[i].request_id, 0}
    PROVE  \A j \in Ids : RowSteady(j)
<1> SUFFICES ASSUME NEW j \in Ids PROVE RowSteady(j)
  OBVIOUS
<1>1. CASE j # i
  <2>1. rows'[j] = rows[j]
    BY <1>1
  <2> QED BY <2>1 DEF RowSteady
<1>2. CASE j = i
  <2>1. rows'[j] = row
    BY <1>2
  <2> QED BY <1>2, <2>1 DEF RowSteady
<1> QED BY <1>1, <1>2

(* A reservation that is dropped is steady.                                *)
LEMMA ReleaseSteady ==
    ASSUME NEW keep, Release(keep)
    PROVE  WriteSteady
BY DEF Release, NoWrite, WriteSteady

(* The calls other than an acceptance are steady.                          *)
LEMMA CallerSteady ==
    ASSUME TypeOK, NEW i \in Ids, AcceptWake(i) \/ Cancel(i) \/ Resume(i)
    PROVE  Steady
<1>1. rows \in [Ids -> Row] /\ rows[i] \in Row
  BY DEF TypeOK
<1>2. WriteSteady
  BY DEF AcceptWake, Cancel, Resume, WriteSteady
<1>3. CASE AcceptWake(i)
  BY <1>2, <1>3, SameRowsSteady DEF AcceptWake, Steady
<1>4. CASE Cancel(i)
  <2> DEFINE row == [rows[i] EXCEPT !.state = "cancelled"]
  <2>1. /\ rows' = [rows EXCEPT ![i] = row]
        /\ rows[i].state \notin {"delivered", "none", "pruned"}
    BY <1>4 DEF Cancel, Retained
  <2>2. /\ row \in Row /\ row.mode = rows[i].mode /\ row.state = "cancelled"
        /\ row.completed = rows[i].completed /\ row.adopted = rows[i].adopted
        /\ row.request_id = rows[i].request_id
    BY <1>1 DEF Row, RowStates
  <2> HIDE DEF row
  <2>3. ~Pending(row)
    BY <2>2 DEF Pending
  <2>4. \A j \in Ids : RowSteady(j)
    BY <1>1, <2>1, <2>2, <2>3, OneRowSteady
  <2> QED BY <1>2, <2>4 DEF Steady
<1>5. CASE Resume(i)
  <2> DEFINE row == [rows[i] EXCEPT !.state = "queued"]
  <2>1. rows' = [rows EXCEPT ![i] = row] /\ rows[i].state = "held"
    BY <1>5 DEF Resume
  <2>2. /\ row \in Row /\ row.mode = rows[i].mode /\ row.state = "queued"
        /\ row.completed = rows[i].completed /\ row.adopted = rows[i].adopted
        /\ row.request_id = rows[i].request_id
    BY <1>1 DEF Row, RowStates
  <2> HIDE DEF row
  <2>3. Pending(rows[i])
    BY <2>1 DEF Pending
  <2>4. \A j \in Ids : RowSteady(j)
    BY <1>1, <2>1, <2>2, <2>3, OneRowSteady
  <2> QED BY <1>2, <2>4 DEF Steady
<1> QED BY <1>3, <1>4, <1>5

(* So is a dispatch that claims nothing.                                   *)
LEMMA DispatchSteady ==
    ASSUME TypeOK, NEW t \in Threads,
           DispatchNothing(t) \/ DispatchEnded(t) \/ DispatchHeld(t)
    PROVE  Steady
<1>1. rows \in [Ids -> Row]
  BY DEF TypeOK
<1>2. WriteSteady
  BY DEF DispatchNothing, DispatchEnded, DispatchHeld, WriteSteady
<1>3. CASE DispatchNothing(t) \/ DispatchHeld(t)
  BY <1>2, <1>3, SameRowsSteady DEF DispatchNothing, DispatchHeld, Steady
<1>4. CASE DispatchEnded(t)
  <2>1. Head \in Ids /\ rows[Head].state = "queued"
    BY <1>4, HeadIsActive DEF DispatchEnded, Claimable
  <2> DEFINE row == [rows[Head] EXCEPT !.state = "held"]
  <2>2. rows' = [rows EXCEPT ![Head] = row]
    BY <1>4 DEF DispatchEnded
  <2>3. /\ row \in Row /\ row.mode = rows[Head].mode /\ row.state = "held"
        /\ row.completed = rows[Head].completed /\ row.adopted = rows[Head].adopted
        /\ row.request_id = rows[Head].request_id
    BY <1>1, <2>1 DEF Row, RowStates
  <2> HIDE DEF row
  <2>4. Pending(rows[Head])
    BY <2>1 DEF Pending
  <2>5. \A j \in Ids : RowSteady(j)
    BY <1>1, <2>1, <2>2, <2>3, <2>4, OneRowSteady
  <2> QED BY <1>2, <2>5 DEF Steady
<1> QED BY <1>3, <1>4

(* So are the receipts of the interrupt and of the paste.                  *)
LEMMA ReceiptSteady ==
    ASSUME TypeOK, InterruptReceipt \/ PasteReceipt
    PROVE  Steady
<1> DEFINE i == write.id
<1>1. /\ rows \in [Ids -> Row] /\ write \in Write /\ i \in Ids /\ rows[i] \in Row
      /\ rows[i].state = "uncertain" /\ Pending(rows[i])
  BY DEF TypeOK, Write, InterruptReceipt, PasteReceipt, Resumed, Pending
<1>2. WriteSteady
  <2>1. CASE InterruptReceipt
    BY <2>1, ReleaseSteady DEF InterruptReceipt
  <2>2. CASE PasteReceipt /\ AllWritten /\ TargetLive(write)
    BY <1>1, <2>2 DEF PasteReceipt, WriteSteady, Write
  <2>3. CASE PasteReceipt /\ ~(AllWritten /\ TargetLive(write))
    BY <2>3, ReleaseSteady DEF PasteReceipt
  <2> QED BY <2>1, <2>2, <2>3
<1>3. PICK row \in Row : /\ rows' = [rows EXCEPT ![i] = row] /\ row.mode = rows[i].mode
                         /\ row.state \in {"queued", "uncertain", "held"}
                         /\ row.completed = rows[i].completed /\ row.adopted = rows[i].adopted
                         /\ row.request_id \in {rows[i].request_id, 0}
  <2>1. CASE InterruptReceipt /\ AllWritten /\ TargetLive(write)
    <3> DEFINE ready == rows[i].restart_ready \/ write.restart_ready
               row == [rows[i] EXCEPT !.state = "queued", !.interrupt_sent = TRUE,
                                      !.restart_ready = ready]
    <3>1. rows' = [rows EXCEPT ![i] = row] /\ ready \in BOOLEAN
      BY <2>1 DEF InterruptReceipt
    <3> HIDE DEF ready
    <3>2. /\ row \in Row /\ row.mode = rows[i].mode /\ row.state = "queued"
          /\ row.completed = rows[i].completed /\ row.adopted = rows[i].adopted
          /\ row.request_id = rows[i].request_id
      BY <1>1, <3>1 DEF Row, RowStates
    <3> HIDE DEF row
    <3> QED BY <3>1, <3>2
  <2>2. CASE \/ PasteReceipt /\ AllWritten /\ TargetLive(write)
             \/ ~(AllWritten /\ TargetLive(write)) /\ ~NothingWritten
    <3>1. rows' = [rows EXCEPT ![i] = rows[i]]
      BY <1>1, <2>2 DEF InterruptReceipt, PasteReceipt
    <3> QED BY <1>1, <3>1
  <2>3. CASE ~(AllWritten /\ TargetLive(write)) /\ NothingWritten
    <3> DEFINE row == Unwritten(rows[i])
    <3>1. rows' = [rows EXCEPT ![i] = row]
      BY <2>3 DEF InterruptReceipt, PasteReceipt
    <3>2. row \in Row /\ row.mode = rows[i].mode
      BY <1>1, UnwrittenFacts
    <3>3. /\ row.state \in {"queued", "uncertain", "held"} /\ row.request_id = 0
          /\ row.completed = rows[i].completed /\ row.adopted = rows[i].adopted
      BY <1>1 DEF Unwritten, Row
    <3> HIDE DEF row
    <3> QED BY <3>1, <3>2, <3>3
  <2> QED BY <2>1, <2>2, <2>3
<1>4. \A j \in Ids : RowSteady(j)
  <2> HIDE DEF i
  <2> QED BY <1>1, <1>3, OneRowSteady
<1> QED BY <1>2, <1>4 DEF Steady

(* Adoption marks one row.                                                 *)
LEMMA AdoptRowsSteady ==
    ASSUME rows \in [Ids -> Row], NEW k \in Ids \cup {0}, NEW named,
           rows' = AdoptRows(rows, k, named)
    PROVE  \A i \in Ids : RowSteady(i)
<1>1. CASE k = 0
  BY <1>1, SameRowsSteady DEF AdoptRows
<1>2. CASE k # 0
  <2> DEFINE a == rows[k].adopted \/ rows[k].state = "delivered"
             b == rows[k].named_adoption \/ (Delegated /\ named # 0)
             row == [rows[k] EXCEPT !.adopted = a, !.named_adoption = b]
  <2>1. k \in Ids /\ rows[k] \in Row /\ rows' = [rows EXCEPT ![k] = row]
    BY <1>2 DEF AdoptRows, Row
  <2>2. a \in BOOLEAN /\ b \in BOOLEAN /\ (rows[k].adopted => a)
    OBVIOUS
  <2> HIDE DEF a, b
  <2>3. /\ row.state = rows[k].state /\ row.mode = rows[k].mode
        /\ row.completed = rows[k].completed /\ row.request_id = rows[k].request_id
        /\ row.adopted = a
    BY <2>1 DEF Row
  <2> HIDE DEF row
  <2> SUFFICES ASSUME NEW i \in Ids PROVE RowSteady(i)
    OBVIOUS
  <2>4. CASE i # k
    <3>1. rows'[i] = rows[i]
      BY <2>1, <2>4
    <3> QED BY <3>1 DEF RowSteady
  <2>5. CASE i = k
    <3>1. rows'[i] = row
      BY <2>1, <2>5
    <3> QED BY <2>2, <2>3, <2>5, <3>1 DEF RowSteady, Pending
  <2> QED BY <2>4, <2>5
<1> QED BY <1>1, <1>2

(* A turn end completes rows.                                              *)
LEMMA TurnEndSteady ==
    ASSUME rows \in [Ids -> Row], NEW event, NEW prompt,
           rows' = TurnEndRows(event, prompt)
    PROVE  \A i \in Ids : RowSteady(i)
<1> SUFFICES ASSUME NEW i \in Ids PROVE RowSteady(i)
  OBVIOUS
<1> DEFINE c == rows[i].completed \/ (/\ Open(rows[i]) /\ rows[i].adopted
                                      /\ \/ ~Stale(rows[i], prompt)
                                         \/ rows[i].named_adoption)
           d == rows[i].restart_ready \/ (/\ event # "QuietSettle"
                                          /\ rows[i].state = "queued"
                                          /\ rows[i].interrupt_sent)
           row == [rows[i] EXCEPT !.completed = c, !.restart_ready = d]
<1>1. rows'[i] = row /\ rows[i] \in Row
  BY DEF TurnEndRows
<1>2. rows[i].completed => c
  OBVIOUS
<1> HIDE DEF c, d
<1>3. /\ row.state = rows[i].state /\ row.mode = rows[i].mode
      /\ row.completed = c /\ row.adopted = rows[i].adopted
      /\ row.request_id = rows[i].request_id
  BY <1>1 DEF Row
<1> HIDE DEF row
<1> QED BY <1>1, <1>2, <1>3 DEF RowSteady, Pending

(* The end of a pane, or of a turn that failed, puts rows aside.           *)
LEMMA EndedSteady ==
    ASSUME rows \in [Ids -> Row], rows' = EndedRows
    PROVE  /\ \A i \in Ids : RowSteady(i)
           /\ ~Delegated => \A i \in Ids : ~Open(rows'[i])
<1> SUFFICES ASSUME NEW i \in Ids PROVE RowSteady(i) /\ (~Delegated => ~Open(rows'[i]))
  OBVIOUS
<1>1. rows[i] \in Row
  OBVIOUS
<1>2. CASE rows[i].state = "queued"
  <2> DEFINE s == IF rows[i].touched THEN "uncertain" ELSE "held"
             row == [rows[i] EXCEPT !.state = s]
  <2>1. rows'[i] = row
    BY <1>2 DEF EndedRows
  <2>2. s \in {"uncertain", "held"}
    OBVIOUS
  <2> HIDE DEF s
  <2>3. /\ row.state = s /\ row.mode = rows[i].mode /\ row.completed = rows[i].completed
        /\ row.adopted = rows[i].adopted /\ row.request_id = rows[i].request_id
    BY <1>1 DEF Row
  <2> HIDE DEF row
  <2> QED BY <1>2, <2>1, <2>2, <2>3 DEF RowSteady, Pending, Open
<1>3. CASE rows[i].state # "queued" /\ ~Delegated /\ Open(rows[i])
  <2> DEFINE row == [rows[i] EXCEPT !.adopted = TRUE, !.completed = TRUE]
  <2>1. rows'[i] = row
    BY <1>3 DEF EndedRows
  <2>2. /\ row.state = rows[i].state /\ row.mode = rows[i].mode /\ row.completed
        /\ row.adopted /\ row.request_id = rows[i].request_id
    BY <1>1 DEF Row
  <2> HIDE DEF row
  <2> QED BY <1>3, <2>1, <2>2 DEF RowSteady, Pending, Open
<1>4. CASE rows[i].state # "queued" /\ ~(~Delegated /\ Open(rows[i]))
  <2>1. rows'[i] = rows[i]
    BY <1>4 DEF EndedRows
  <2> QED BY <1>4, <2>1 DEF RowSteady
<1> QED BY <1>2, <1>3, <1>4

(* Evidence and adoption keep the reservation and its snapshot.            *)
LEMMA EvidenceSteady ==
    ASSUME write \in Write, NEW event, NEW prompt, NEW rs, NEW k
    PROVE  /\ AdoptEvidence(rs, k, write).id = write.id
           /\ AdoptEvidence(rs, k, write).previous = write.previous
           /\ AdoptEvidence(rs, k, Evidence(event, prompt)).id = write.id
           /\ AdoptEvidence(rs, k, Evidence(event, prompt)).previous = write.previous
<1>0. Evidence(event, prompt).previous = write.previous
  BY DEF Evidence, Write
<1>1. /\ Evidence(event, prompt) \in Write /\ Evidence(event, prompt).id = write.id
      /\ Evidence(event, prompt).previous = write.previous
  BY <1>0, EvidenceType, EvidenceKeeps
<1>2. ASSUME NEW e \in Write
      PROVE  AdoptEvidence(rs, k, e).id = e.id /\ AdoptEvidence(rs, k, e).previous = e.previous
  BY DEF AdoptEvidence, Write
<1> QED BY <1>1, <1>2

(* instruction_lifecycle is steady.                                        *)
LEMMA LifecycleSteady ==
    ASSUME TypeOK, NEW event, NEW prompt, Lifecycle(event, prompt)
    PROVE  Steady
<1>0. rows \in [Ids -> Row] /\ write \in Write
  BY DEF TypeOK
<1>1. CASE UNCHANGED <<rows, write, delegation, awaiting, wake, typed>>
  BY <1>1, SameRowsSteady DEF Steady, WriteSteady
<1>2. CASE ~(\/ event # "SessionEnded" /\ session.closing
             \/ Retained = {})
  <2> DEFINE evidence == Evidence(event, prompt)
             staleActivity == \E i \in Ids : /\ Open(rows[i]) /\ ~rows[i].adopted
                                             /\ Stale(rows[i], prompt)
             adopts == \/ event = "PromptSubmitted"
                       \/ event = "Activity" /\ Working /\ ~staleActivity
             k == IF adopts THEN Adopted(rows, evidence, 0) ELSE 0
  <2>1. /\ rows' = CASE event \in {"TurnEnded", "QuietSettle"} ->
                           TurnEndRows(event, prompt)
                     [] event \in {"SessionEnded", "TurnFailed"} -> EndedRows
                     [] OTHER -> AdoptRows(rows, k, 0)
        /\ write' = AdoptEvidence(rows, k, Evidence(event, prompt))
    BY <1>2 DEF Lifecycle
  <2>2. k \in Ids \cup {0}
    BY AdoptedIsInstruction
  <2> HIDE DEF k
  <2>3. WriteSteady
    BY <1>0, <2>1, EvidenceSteady DEF WriteSteady
  <2>4. \A i \in Ids : RowSteady(i)
    <3>1. CASE rows' = EndedRows
      BY <1>0, <3>1, EndedSteady
    <3>2. CASE rows' = TurnEndRows(event, prompt)
      BY <1>0, <3>2, TurnEndSteady
    <3>3. CASE rows' = AdoptRows(rows, k, 0)
      BY <1>0, <2>2, <3>3, AdoptRowsSteady
    <3> QED BY <2>1, <3>1, <3>2, <3>3
  <2> QED BY <2>3, <2>4 DEF Steady
<1> QED BY <1>1, <1>2 DEF Lifecycle

(* So is adoption by a hook or a hand-back.                                *)
LEMMA AdoptionSteady ==
    ASSUME TypeOK, HookDelegation \/ \E named \in Nat : NamedHandback(named)
    PROVE  Steady
<1>0. rows \in [Ids -> Row] /\ write \in Write
  BY DEF TypeOK
<1>1. CASE UNCHANGED <<rows, write>>
  BY <1>1, SameRowsSteady DEF Steady, WriteSteady
<1>2. ASSUME NEW k \in Ids \cup {0}, NEW named,
             rows' = AdoptRows(rows, k, named),
             write' = AdoptEvidence(rows, k, write)
      PROVE  Steady
  <2>1. \A i \in Ids : RowSteady(i)
    BY <1>0, <1>2, AdoptRowsSteady
  <2>2. WriteSteady
    BY <1>0, <1>2, EvidenceSteady DEF WriteSteady
  <2> QED BY <2>1, <2>2 DEF Steady
<1>3. CASE HookDelegation /\ ~UNCHANGED <<rows, write>>
  <2>1. OpenRound(delegation.state)
    BY <1>3 DEF HookDelegation
  <2> DEFINE k == Adopted(rows, write, 0)
  <2>2. rows' = AdoptRows(rows, k, 0) /\ write' = AdoptEvidence(rows, k, write)
    BY <1>3, <2>1 DEF OpenRound
  <2>3. k \in Ids \cup {0}
    BY AdoptedIsInstruction
  <2> HIDE DEF k
  <2> QED BY <1>2, <2>2, <2>3
<1>4. ASSUME NEW named \in Nat, NamedHandback(named) PROVE Steady
  <2> DEFINE k == Adopted(rows, write, named)
  <2>1. /\ rows' = AdoptRows(rows, k, named)
        /\ write' = AdoptEvidence(rows, k, write)
    BY <1>4 DEF NamedHandback
  <2>2. k \in Ids \cup {0}
    BY AdoptedIsInstruction
  <2> HIDE DEF k
  <2> QED BY <1>2, <2>1, <2>2
<1> QED BY <1>1, <1>3, <1>4

(* So is what happens around the queue, a crash included.                  *)
LEMMA SurroundingsSteady ==
    ASSUME TypeOK,
           \/ WakeExit \/ RefusalBegins \/ RefusalEnds \/ TurnEndWithheld
           \/ HoldBegins \/ HoldEnds \/ CloseReserved \/ CloseDropped
           \/ SessionExits \/ Withdrawn \/ Submit \/ Crash
           \/ \E event \in HookEvents, prompt \in PromptIds \cup {0} :
                HookStatus(event, prompt)
           \/ \E outcome \in {"written", "unwritten", "partial"} : PtyWrite(outcome)
    PROVE  Steady
<1>0. rows \in [Ids -> Row] /\ write \in Write
  BY DEF TypeOK
<1>1. CASE Crash
  <2>1. WriteSteady
    BY <1>1 DEF Crash, NoWrite, WriteSteady
  <2>2. ASSUME NEW i \in Ids PROVE RowSteady(i)
    <3>1. rows[i] \in Row /\ rows'[i] = Recovered(rows[i])
      BY <1>0, <1>1 DEF Crash
    <3>2. CASE rows'[i] = rows[i]
      BY <3>2 DEF RowSteady
    <3>3. CASE rows'[i] # rows[i]
      <4> DEFINE s == IF rows[i].touched THEN "uncertain" ELSE "held"
                 row == [rows[i] EXCEPT !.state = s]
      <4>1. rows'[i] = row /\ rows[i].state \in {"queued", "uncertain"}
        BY <3>1, <3>3 DEF Recovered
      <4>2. s \in {"uncertain", "held"}
        OBVIOUS
      <4> HIDE DEF s
      <4>3. /\ row.state = s /\ row.mode = rows[i].mode /\ row.completed = rows[i].completed
            /\ row.adopted = rows[i].adopted /\ row.request_id = rows[i].request_id
        BY <3>1 DEF Row
      <4> HIDE DEF row
      <4> QED BY <4>1, <4>2, <4>3 DEF RowSteady, Pending, Open
    <3> QED BY <3>2, <3>3
  <2> QED BY <2>1, <2>2 DEF Steady
<1>2. CASE Withdrawn
  <2>1. WriteSteady /\ UNCHANGED rows
    BY <1>2, ReleaseSteady DEF Withdrawn
  <2> QED BY <2>1, SameRowsSteady DEF Steady
<1>3. CASE Submit
  <2>1. UNCHANGED rows
    BY <1>3 DEF Submit
  <2>2. WriteSteady
    <3>1. CASE Release(FALSE)
      BY <3>1, ReleaseSteady
    <3>2. CASE write' = [write EXCEPT !.pc = "enter"]
      BY <1>0, <3>2 DEF WriteSteady, Write
    <3> QED BY <1>3, <3>1, <3>2 DEF Submit
  <2> QED BY <2>1, <2>2, SameRowsSteady DEF Steady
<1>4. ASSUME NEW outcome \in {"written", "unwritten", "partial"}, PtyWrite(outcome)
      PROVE  Steady
  <2>1. UNCHANGED rows /\ write'.id = write.id /\ write'.previous = write.previous
    BY <1>0, <1>4 DEF PtyWrite, Write
  <2> QED BY <2>1, SameRowsSteady DEF Steady, WriteSteady
<1>5. CASE \/ WakeExit \/ RefusalBegins \/ RefusalEnds \/ TurnEndWithheld
           \/ HoldBegins \/ HoldEnds \/ CloseReserved \/ CloseDropped
           \/ SessionExits
           \/ \E event \in HookEvents, prompt \in PromptIds \cup {0} :
                HookStatus(event, prompt)
  <2>1. UNCHANGED rows /\ UNCHANGED write
    BY <1>5 DEF WakeExit, RefusalBegins, RefusalEnds, TurnEndWithheld, HoldBegins,
           HoldEnds, CloseReserved, CloseDropped, SessionExits, HookStatus,
           SessionBecomes
  <2> QED BY <2>1, SameRowsSteady DEF Steady, WriteSteady
<1> QED BY <1>1, <1>2, <1>3, <1>4, <1>5

(* The kinds of step.                                                      *)
LEMMA TurnSteps ==
    ASSUME TypeOK, [Next]_vars
    PROVE  \/ Steady \/ Claims \/ Delivers
           \/ \E mode \in Modes : Accept(mode)
<1>1. ASSUME NEW i \in Ids, AcceptWake(i) \/ Cancel(i) \/ Resume(i) PROVE Steady
  BY <1>1, CallerSteady
<1>2. ASSUME NEW t \in Threads, Dispatch(t) PROVE Steady \/ Claims
  BY <1>2, DispatchSteady DEF Dispatch, Claims
<1>3. CASE Continue
  <2>1. CASE EnterReceipt /\ ~(AllWritten /\ TargetLive(write))
    <3>1. WriteSteady /\ UNCHANGED rows
      BY <2>1, ReleaseSteady DEF EnterReceipt
    <3> QED BY <3>1, SameRowsSteady DEF Steady
  <2> QED BY <1>3, <2>1, SurroundingsSteady, ReceiptSteady DEF Continue, Delivers
<1>4. CASE HookLifecycle \/ ExitLifecycle
  BY <1>4, LifecycleSteady DEF HookLifecycle, ExitLifecycle
<1>5. CASE \/ HookDelegation
           \/ \E named \in 1 .. MaxHooks + MaxInstr + 1 : NamedHandback(named)
  <2>1. HookDelegation \/ \E named \in Nat : NamedHandback(named)
    BY <1>5, ConstantsAssumption
  <2> QED BY <2>1, AdoptionSteady
<1>6. CASE \/ WakeExit \/ RefusalBegins \/ RefusalEnds \/ TurnEndWithheld
           \/ HoldBegins \/ HoldEnds \/ CloseReserved \/ CloseDropped
           \/ SessionExits \/ Crash
           \/ \E event \in HookEvents, prompt \in PromptIds \cup {0} :
                HookStatus(event, prompt)
           \/ \E outcome \in {"written", "unwritten", "partial"} : PtyWrite(outcome)
  BY <1>6, SurroundingsSteady
<1>7. CASE UNCHANGED vars
  BY <1>7, SameRowsSteady DEF vars, Steady, WriteSteady
<1> QED BY <1>1, <1>2, <1>3, <1>4, <1>5, <1>6, <1>7 DEF Next

-----------------------------------------------------------------------------
(* One instruction runs at a time.  The reservation takes a snapshot of    *)
(* what it may pass; nothing else is delivered while it writes, so when    *)
(* Enter is written the snapshot is all that can still be open.            *)

(* Nothing before a delivered row still waits to be typed.                 *)
DeliveredInOrder ==
    \A i, j \in Ids : i < j /\ rows[j].state = "delivered" => ~Pending(rows[i])

(* What is open while a row is written is in the snapshot of the claim,    *)
(* and is running.                                                         *)
Passed ==
    write.id # 0 =>
        /\ rows[write.id].state # "delivered"
        /\ \A i \in Ids : Open(rows[i]) => i \in write.previous /\ rows[i].adopted

OpenInv == OneOpen /\ DeliveredInOrder /\ Passed

(* The claim: the head is marked, the snapshot is taken.                   *)
LEMMA ClaimSteady ==
    ASSUME TypeOK, Claims
    PROVE  /\ Head \in Ids /\ rows[Head].state = "queued" /\ write'.id = Head
           /\ rows'[Head].state = "uncertain" /\ rows'[Head].mode = rows[Head].mode
           /\ rows'[Head].completed = rows[Head].completed
           /\ \A i \in Ids : i # Head => rows'[i] = rows[i]
           /\ write'.previous = {j \in Ids : Open(rows[j]) /\ rows[j].adopted}
<1>1. PICK t, pc, request, prompt :
        Claimable /\ BeginWrite(t, Head, pc, request, prompt)
  BY DEF Claims, DispatchInterrupt, DispatchPaste
<1>2. Head \in Ids /\ rows[Head].state = "queued" /\ write'.id = Head
  BY ClaimFacts
<1>3. rows \in [Ids -> Row] /\ rows[Head] \in Row
  BY <1>2 DEF TypeOK
<1>4. write'.previous = {j \in Ids : Open(rows[j]) /\ rows[j].adopted}
  BY <1>1 DEF BeginWrite, NoWrite
<1>5. /\ rows'[Head].state = "uncertain" /\ rows'[Head].mode = rows[Head].mode
      /\ rows'[Head].completed = rows[Head].completed
      /\ \A i \in Ids : i # Head => rows'[i] = rows[i]
  BY <1>1, <1>2, <1>3 DEF BeginWrite, Row
<1> QED BY <1>2, <1>4, <1>5

(* The receipt of a written Enter: the row is delivered, and what an       *)
(* immediate mode passed is completed.                                     *)
LEMMA DeliverSteady ==
    ASSUME TypeOK, Delivers
    PROVE  /\ write.id \in Ids /\ rows[write.id].state = "uncertain"
           /\ write'.id = 0
           /\ \A i \in Ids :
                /\ rows'[i].mode = rows[i].mode
                /\ rows'[i].request_id = rows[i].request_id
                /\ rows'[i].state = IF i = write.id THEN "delivered" ELSE rows[i].state
                /\ rows[i].completed => rows'[i].completed
                /\ rows[i].adopted => rows'[i].adopted
                /\ /\ i # write.id /\ rows[write.id].mode # "queue" /\ i \in write.previous
                   /\ rows[i].adopted /\ rows[i].state = "delivered"
                   => rows'[i].completed
<1> DEFINE w == write.id
           k == IF write.started THEN Adopted(Sent, write, 0) ELSE 0
           rs == AdoptRows(Sent, k, 0)
           done == rs[w].completed \/ (/\ write.started /\ write.ended
                                       /\ rs[w].adopted)
<1>1. /\ rows \in [Ids -> Row] /\ write \in Write /\ w \in Ids
      /\ rows[w].state = "uncertain"
  BY DEF TypeOK, Write, Delivers, EnterReceipt, Resumed
<1>2. write'.id = 0
  BY DEF Delivers, EnterReceipt, Release, NoWrite
<1>3. rows' = [rs EXCEPT ![w].completed = done]
  BY DEF Delivers, EnterReceipt
<1>4. k \in Ids \cup {0}
  BY AdoptedIsInstruction
<1>5. Sent \in [Ids -> Row]
  BY SentType DEF TypeOK
<1> HIDE DEF k
<1>6. rs \in [Ids -> Row]
  BY <1>4, <1>5, AdoptRowsType
<1>7. ASSUME NEW i \in Ids
      PROVE  /\ rs[i].mode = Sent[i].mode /\ rs[i].state = Sent[i].state
             /\ rs[i].request_id = Sent[i].request_id
             /\ rs[i].completed = Sent[i].completed
             /\ Sent[i].adopted => rs[i].adopted
  <2>1. Sent[i] \in Row
    BY <1>5
  <2>2. CASE k = 0
    BY <2>2 DEF AdoptRows
  <2>3. CASE k # 0
    <3> DEFINE S == Sent
               a == S[k].adopted \/ S[k].state = "delivered"
               b == S[k].named_adoption \/ (Delegated /\ 0 # 0)
               row == [S[k] EXCEPT !.adopted = a, !.named_adoption = b]
    <3>1. k \in Ids /\ S[k] \in Row /\ S \in [Ids -> Row]
      BY <1>4, <1>5, <2>3
    <3>2. rs = [S EXCEPT ![k] = row]
      <4> HIDE DEF S
      <4> QED BY <2>3, <3>1 DEF AdoptRows, Row, S
    <3>3. S[k].adopted => a
      OBVIOUS
    <3> HIDE DEF S, a, b
    <3>4. /\ row.state = S[k].state /\ row.mode = S[k].mode
          /\ row.completed = S[k].completed /\ row.request_id = S[k].request_id
          /\ row.adopted = a
      BY <3>1 DEF Row
    <3> HIDE DEF row, rs
    <3>5. rs[i] = IF i = k THEN row ELSE S[i]
      BY <3>1, <3>2
    <3>6. CASE i = k
      BY <3>3, <3>4, <3>5, <3>6 DEF S
    <3>7. CASE i # k
      BY <3>5, <3>7 DEF S
    <3> QED BY <3>6, <3>7
  <2> QED BY <2>2, <2>3
<1>8. rs[w].completed => done
  OBVIOUS
<1> HIDE DEF rs, done
<1>9. ASSUME NEW i \in Ids
      PROVE  /\ rows'[i].mode = rs[i].mode /\ rows'[i].state = rs[i].state
             /\ rows'[i].request_id = rs[i].request_id
             /\ rows'[i].adopted = rs[i].adopted
             /\ rows'[i].completed = IF i = w THEN done ELSE rs[i].completed
  <2>1. rs[i] \in Row
    BY <1>6
  <2>2. CASE i = w
    <3>1. rows'[i] = [rs[w] EXCEPT !.completed = done]
      BY <1>3, <1>6, <2>2
    <3> QED BY <2>1, <2>2, <3>1 DEF Row
  <2>3. CASE i # w
    BY <1>3, <1>6, <2>3
  <2> QED BY <2>2, <2>3
<1>10. ASSUME NEW i \in Ids
       PROVE  /\ Sent[i].mode = rows[i].mode
              /\ Sent[i].request_id = rows[i].request_id
              /\ Sent[i].adopted = rows[i].adopted
              /\ Sent[i].state = IF i = w THEN "delivered" ELSE rows[i].state
              /\ rows[i].completed => Sent[i].completed
              /\ i # w /\ i \in Superseded /\ rows[i].adopted /\ rows[i].state = "delivered"
                 => Sent[i].completed
  <2>1. rows[i] \in Row
    BY <1>1
  <2> QED BY <2>1 DEF Sent, Row
<1>11. rows[w].mode # "queue" => Superseded = write.previous
  BY DEF Superseded
<1>12. ASSUME NEW i \in Ids
       PROVE  /\ rows'[i].mode = rows[i].mode
              /\ rows'[i].request_id = rows[i].request_id
              /\ rows'[i].state = IF i = w THEN "delivered" ELSE rows[i].state
              /\ rows[i].completed => rows'[i].completed
              /\ rows[i].adopted => rows'[i].adopted
              /\ /\ i # w /\ rows[w].mode # "queue" /\ i \in write.previous
                 /\ rows[i].adopted /\ rows[i].state = "delivered"
                 => rows'[i].completed
  <2> HIDE DEF w
  <2>1. rows[i].completed => rows'[i].completed
    BY <1>7, <1>8, <1>9, <1>10
  <2>2. rows[i].adopted => rows'[i].adopted
    BY <1>7, <1>9, <1>10
  <2>3. /\ rows'[i].mode = rows[i].mode /\ rows'[i].request_id = rows[i].request_id
        /\ rows'[i].state = IF i = w THEN "delivered" ELSE rows[i].state
    BY <1>7, <1>9, <1>10
  <2>4. ASSUME i # w, rows[w].mode # "queue", i \in write.previous,
               rows[i].adopted, rows[i].state = "delivered"
        PROVE  rows'[i].completed
    <3>1. Sent[i].completed
      BY <1>10, <1>11, <2>4
    <3> QED BY <1>7, <1>9, <2>4, <3>1
  <2> QED BY <2>1, <2>2, <2>3, <2>4
<1> QED BY <1>1, <1>2, <1>12

(* An acceptance: the next row is queued, another may be pruned.           *)
LEMMA AcceptSteady ==
    ASSUME IInv, NEW mode \in Modes, Accept(mode)
    PROVE  /\ next \in Ids /\ rows[next].state = "none" /\ UNCHANGED write
           /\ rows'[next] = NewRow(mode, "queued")
           /\ \A i \in Ids : i # next => \/ rows'[i] = rows[i]
                                         \/ /\ rows'[i].state = "pruned"
                                            /\ rows'[i].mode = rows[i].mode
                                            /\ rows'[i].request_id = rows[i].request_id
                                            /\ Final(rows[i])
           /\ \A i \in Ids : i > next => rows[i].state = "none"
           /\ write.id # 0 => write.id \in Ids /\ write.id # next
<1>1. /\ next \in Ids /\ rows \in [Ids -> Row] /\ UNCHANGED write /\ write \in Write
      /\ Ids \subseteq Nat
  BY ConstantTypes DEF IInv, TypeOK, Accept
<1>2. ASSUME NEW i \in Ids, i >= next PROVE rows[i].state = "none"
  BY <1>2 DEF IInv, RowInv, Unaccepted
<1>3. rows[next].state = "none" /\ \A i \in Ids : i > next => rows[i].state = "none"
  BY <1>1, <1>2
<1>4. rows'[next] = NewRow(mode, "queued")
  BY <1>1 DEF Accept
<1>5. ASSUME NEW i \in Ids, i # next
      PROVE  \/ rows'[i] = rows[i]
             \/ /\ rows'[i].state = "pruned" /\ rows'[i].mode = rows[i].mode
                /\ rows'[i].request_id = rows[i].request_id /\ Final(rows[i])
  <2>1. CASE Full /\ i = First(Prunable)
    <3>1. Prunable \in SUBSET Ids /\ Prunable # {}
      BY <2>1 DEF Prunable, Accept
    <3>2. i \in Prunable
      BY <2>1, <3>1, FirstIsLeast
    <3>3. rows[i] \in Row /\ Final(rows[i])
      BY <1>1, <3>2 DEF Prunable
    <3>4. rows'[i] = [rows[i] EXCEPT !.state = "pruned"]
      BY <1>5, <2>1 DEF Accept
    <3> QED BY <3>3, <3>4 DEF Row
  <2>2. CASE ~(Full /\ i = First(Prunable))
    BY <1>5, <2>2 DEF Accept
  <2> QED BY <2>1, <2>2
<1>6. write.id # 0 => write.id \in Ids /\ write.id # next
  BY <1>1, <1>3 DEF IInv, WriteInv, Claim, Write
<1> QED BY <1>1, <1>3, <1>4, <1>5, <1>6

(* A head that can be claimed: either nothing is open, or what is open     *)
(* runs and the head is of an immediate mode.                              *)
LEMMA HeadPasses ==
    ASSUME TypeOK, OpenInv, ActiveIds # {}, rows[Head].state = "queued",
           NEW i \in Ids, Open(rows[i])
    PROVE  rows[i].adopted /\ rows[Head].mode # "queue"
<1> DEFINE first == First(ActiveIds)
<1>1. /\ first \in ActiveIds /\ first \in Ids /\ Active(rows[first])
      /\ \A j \in ActiveIds : first <= j
  <2>1. ActiveIds \in SUBSET Ids
    BY DEF ActiveIds
  <2>2. first \in ActiveIds /\ \A j \in ActiveIds : first <= j
    BY <2>1, FirstIsLeast
  <2> QED BY <2>2 DEF ActiveIds
<1> HIDE DEF first
<1>2. CASE rows[first].state = "delivered" /\ rows[first].adopted /\ Immediate # {}
  <2>1. Open(rows[first])
    BY <1>1, <1>2 DEF Active, Pending
  <2>2. i = first
    BY <1>1, <2>1 DEF OpenInv, OneOpen
  <2>3. Head = First(Immediate) /\ Immediate \in SUBSET Ids
    BY <1>2 DEF Head, first, Immediate
  <2>4. Head \in Immediate
    BY <1>2, <2>3, FirstIsLeast
  <2> QED BY <1>2, <2>2, <2>4 DEF Immediate
<1>3. CASE ~(rows[first].state = "delivered" /\ rows[first].adopted /\ Immediate # {})
  <2>1. rows[first].state = "queued"
    BY <1>3 DEF Head, first
  <2>2. i \in ActiveIds /\ rows[i].state = "delivered"
    BY DEF ActiveIds, Active, Open
  <2>3. first <= i /\ first # i /\ first \in Nat /\ i \in Nat
    BY <1>1, <2>1, <2>2, ConstantTypes
  <2>4. ~Pending(rows[first])
    BY <1>1, <2>2, <2>3 DEF OpenInv, DeliveredInOrder
  <2> QED BY <2>1, <2>4 DEF Pending
<1> QED BY <1>2, <1>3

(* Every step keeps it.                                                    *)
LEMMA OpenStep ==
    ASSUME IInv, OrderInv, OpenInv, [Next]_vars
    PROVE  OpenInv'
<1>0. TypeOK /\ write.id \in Ids \cup {0} /\ 0 \notin Ids /\ Ids \subseteq Nat
  BY ConstantTypes DEF IInv, TypeOK, Write
<1>1. CASE Steady
  <2>1. ASSUME NEW i \in Ids, Open(rows'[i]) PROVE Open(rows[i])
    BY <1>1, <2>1 DEF Steady, RowSteady, Open
  <2>2. write'.id # 0 => /\ write'.id = write.id /\ write'.previous = write.previous
                         /\ write.id \in Ids /\ rows'[write.id].mode = rows[write.id].mode
                         /\ rows'[write.id].state = "delivered" => rows[write.id].state = "delivered"
    BY <1>0, <1>1 DEF Steady, WriteSteady, RowSteady
  <2>3. OneOpen'
    BY <2>1, <2>2 DEF OpenInv, OneOpen
  <2>4. DeliveredInOrder'
    BY <1>1 DEF OpenInv, DeliveredInOrder, Steady, RowSteady
  <2>5. ASSUME NEW i \in Ids, Open(rows'[i]), write'.id # 0
        PROVE  i \in write'.previous /\ rows'[i].adopted
    <3>1. Open(rows[i]) /\ write.id # 0
      BY <2>1, <2>2, <2>5
    <3>2. i \in write.previous /\ rows[i].adopted
      BY <3>1 DEF OpenInv, Passed
    <3> QED BY <1>1, <2>2, <2>5, <3>2 DEF Steady, RowSteady
  <2>6. Passed'
    BY <2>2, <2>5 DEF OpenInv, Passed
  <2> QED BY <2>3, <2>4, <2>6 DEF OpenInv
<1>2. CASE Claims
  <2>0. /\ Head \in Ids /\ rows[Head].state = "queued" /\ write'.id = Head
        /\ rows'[Head].state = "uncertain" /\ rows'[Head].mode = rows[Head].mode
        /\ \A i \in Ids : i # Head => rows'[i] = rows[i]
        /\ write'.previous = {j \in Ids : Open(rows[j]) /\ rows[j].adopted}
    BY <1>0, <1>2, ClaimSteady
  <2>1. ActiveIds # {}
    BY <1>2 DEF Claims, DispatchInterrupt, DispatchPaste, Claimable
  <2>2. ASSUME NEW i \in Ids, Open(rows'[i])
        PROVE  i # Head /\ Open(rows[i]) /\ rows[i].adopted /\ rows[Head].mode # "queue"
    <3>1. i # Head /\ Open(rows[i])
      BY <2>0, <2>2 DEF Open
    <3> QED BY <1>0, <2>0, <2>1, <3>1, HeadPasses
  <2>3. OneOpen'
    BY <2>0, <2>2 DEF OpenInv, OneOpen
  <2>4. DeliveredInOrder'
    <3> SUFFICES ASSUME NEW i \in Ids, NEW j \in Ids, i < j, rows'[j].state = "delivered"
                 PROVE  ~Pending(rows'[i])
      BY DEF DeliveredInOrder
    <3>1. rows[j].state = "delivered"
      BY <2>0
    <3>2. ~Pending(rows[i])
      BY <3>1 DEF OpenInv, DeliveredInOrder
    <3>3. i # Head
      BY <2>0, <3>2 DEF Pending
    <3> QED BY <2>0, <3>2, <3>3
  <2>5. Passed'
    BY <2>0, <2>2 DEF Passed
  <2> QED BY <2>3, <2>4, <2>5 DEF OpenInv
<1>3. CASE Delivers
  <2> DEFINE w == write.id
  <2>0. /\ w \in Ids /\ w # 0 /\ rows[w].state = "uncertain" /\ write'.id = 0
        /\ \A i \in Ids :
             /\ rows'[i].state = IF i = w THEN "delivered" ELSE rows[i].state
             /\ rows[i].completed => rows'[i].completed
             /\ /\ i # w /\ rows[w].mode # "queue" /\ i \in write.previous
                /\ rows[i].adopted /\ rows[i].state = "delivered"
                => rows'[i].completed
    BY <1>0, <1>3, DeliverSteady
  <2> HIDE DEF w
  <2>1. ASSUME NEW i \in Ids, Open(rows'[i]) PROVE i = w
    <3> SUFFICES ASSUME i # w PROVE FALSE
      OBVIOUS
    <3>1. Open(rows[i]) /\ rows[i].state = "delivered" /\ ~rows'[i].completed
      BY <2>0, <2>1 DEF Open
    <3>2. i \in write.previous /\ rows[i].adopted
      BY <2>0, <3>1 DEF OpenInv, Passed, w
    <3>3. rows[w].mode # "queue"
      BY <2>0, <3>1 DEF OpenInv, OneOpen, w
    <3> QED BY <2>0, <3>1, <3>2, <3>3
  <2>2. OneOpen'
    BY <2>0, <2>1 DEF OneOpen
  <2>3. DeliveredInOrder'
    <3> SUFFICES ASSUME NEW i \in Ids, NEW j \in Ids, i < j, rows'[j].state = "delivered"
                 PROVE  ~Pending(rows'[i])
      BY DEF DeliveredInOrder
    <3>1. ~Pending(rows[i])
      <4>1. CASE j = w
        BY <2>0, <4>1 DEF OrderInv, TypedInOrder, w
      <4>2. CASE j # w
        BY <2>0, <4>2 DEF OpenInv, DeliveredInOrder
      <4> QED BY <4>1, <4>2
    <3> QED BY <2>0, <3>1 DEF Pending
  <2>4. Passed'
    BY <2>0 DEF Passed
  <2> QED BY <2>2, <2>3, <2>4 DEF OpenInv
<1>4. ASSUME NEW mode \in Modes, Accept(mode) PROVE OpenInv'
  <2>1. /\ next \in Ids /\ rows[next].state = "none" /\ UNCHANGED write
        /\ rows'[next] = NewRow(mode, "queued")
        /\ \A i \in Ids : i # next => \/ rows'[i] = rows[i]
                                      \/ /\ rows'[i].state = "pruned"
                                         /\ rows'[i].mode = rows[i].mode
        /\ \A i \in Ids : i > next => rows[i].state = "none"
        /\ write.id # 0 => write.id \in Ids /\ write.id # next
    BY <1>4, AcceptSteady
  <2>2. rows'[next].state = "queued"
    BY <2>1 DEF NewRow
  <2>3. ASSUME NEW i \in Ids, Open(rows'[i]) PROVE i # next /\ rows'[i] = rows[i]
    BY <2>1, <2>2, <2>3 DEF Open
  <2>4. write.id # 0 => /\ rows'[write.id].mode = rows[write.id].mode
                        /\ rows'[write.id].state = "delivered" => rows[write.id].state = "delivered"
    BY <2>1
  <2>5. OneOpen'
    BY <2>1, <2>3, <2>4 DEF OpenInv, OneOpen
  <2>6. DeliveredInOrder'
    <3> SUFFICES ASSUME NEW i \in Ids, NEW j \in Ids, i < j, rows'[j].state = "delivered"
                 PROVE  ~Pending(rows'[i])
      BY DEF DeliveredInOrder
    <3>1. j # next /\ rows'[j] = rows[j]
      BY <2>1, <2>2
    <3>2. ~(j > next)
      BY <2>1, <3>1
    <3>3. i # next
      BY <1>0, <2>1, <3>1, <3>2
    <3>4. ~Pending(rows[i])
      BY <3>1 DEF OpenInv, DeliveredInOrder
    <3> QED BY <2>1, <3>3, <3>4 DEF Pending
  <2>7. Passed'
    BY <2>1, <2>3, <2>4 DEF OpenInv, Passed
  <2> QED BY <2>5, <2>6, <2>7 DEF OpenInv
<1> QED BY <1>0, <1>1, <1>2, <1>3, <1>4, TurnSteps

(* What is open, and in which order rows are delivered, holds always.      *)
LEMMA OpenHolds == Spec => []OpenInv
<1>1. Init => IInv /\ OrderInv /\ OpenInv
  <2>1. Init => OrderInv
    BY DEF Init, NewRow, NoWrite, OrderInv, Passable, TypedInOrder, Pending
  <2>2. Init => OpenInv
    BY DEF Init, NewRow, NoWrite, OpenInv, OneOpen, DeliveredInOrder, Passed, Open
  <2> QED BY <2>1, <2>2, InitInv
<1>2. IInv /\ OrderInv /\ OpenInv /\ [Next]_vars => (IInv /\ OrderInv /\ OpenInv)'
  <2> SUFFICES ASSUME IInv, OrderInv, OpenInv, [Next]_vars
               PROVE  IInv' /\ OrderInv' /\ OpenInv'
    OBVIOUS
  <2>1. TypeOK /\ IInv'
    BY NextInv DEF IInv
  <2>2. OrderInv'
    BY <2>1, StepKinds, QuietOrder, SubmitOrder, ClaimsOrder, AcceptOrder
  <2> QED BY <2>1, <2>2, OpenStep
<1> QED BY <1>1, <1>2, PTL DEF Spec

(* At most one delivered instruction of a pane is not complete, and queue  *)
(* mode is not typed into the turn of another: a start or a turn end that  *)
(* the hooks report is always credited to the one it is about, for every   *)
(* mix of modes, number of rows, crash and lost receipt.                   *)
THEOREM OneRuns == Spec => []OneOpen
<1>1. OpenInv => OneOpen
  BY DEF OpenInv
<1> QED BY <1>1, OpenHolds, PTL

-----------------------------------------------------------------------------
(* The limits of the table.                                                *)

(* A set of instructions is finite, and a smaller one is no larger; one    *)
(* more instruction adds at most one.                                      *)
LEMMA IdsCount ==
    ASSUME NEW S \in SUBSET Ids, NEW T \in SUBSET Ids
    PROVE  /\ Cardinality(S) \in Nat
           /\ S \subseteq T => Cardinality(S) <= Cardinality(T)
           /\ \A x \in Ids : S \subseteq T \cup {x} => Cardinality(S) <= Cardinality(T) + 1
           /\ \A x \in Ids, y \in T : S \subseteq (T \ {y}) \cup {x}
                                      => Cardinality(S) <= Cardinality(T)
<1>1. IsFiniteSet(Ids)
  BY ConstantsAssumption, FS_Interval, MaxInstr \in Int, 1 \in Int DEF Ids
<1>2. ASSUME NEW U \in SUBSET Ids PROVE IsFiniteSet(U) /\ Cardinality(U) \in Nat
  BY <1>1, FS_Subset, FS_CardinalityType
<1>3. ASSUME NEW U \in SUBSET Ids, NEW V \in SUBSET Ids, V \subseteq U
      PROVE  Cardinality(V) <= Cardinality(U)
  BY <1>2, <1>3, FS_Subset
<1>4. ASSUME NEW U \in SUBSET Ids, NEW x \in Ids
      PROVE  U \cup {x} \in SUBSET Ids /\ Cardinality(U \cup {x}) <= Cardinality(U) + 1
  <2>1. IsFiniteSet(U) /\ Cardinality(U) \in Nat
    BY <1>2
  <2>2. Cardinality(U \cup {x}) = IF x \in U THEN Cardinality(U) ELSE Cardinality(U) + 1
    BY <2>1, FS_AddElement
  <2> QED BY <2>1, <2>2
<1>5. ASSUME NEW x \in Ids, S \subseteq T \cup {x} PROVE Cardinality(S) <= Cardinality(T) + 1
  <2> DEFINE V == T \cup {x}
  <2>1. V \in SUBSET Ids /\ Cardinality(V) <= Cardinality(T) + 1 /\ S \subseteq V
    BY <1>4, <1>5
  <2> HIDE DEF V
  <2>2. /\ Cardinality(S) <= Cardinality(V) /\ Cardinality(S) \in Nat
        /\ Cardinality(V) \in Nat /\ Cardinality(T) \in Nat
    BY <1>2, <1>3, <2>1
  <2> QED BY <2>1, <2>2
<1>6. ASSUME NEW x \in Ids, NEW y \in T, S \subseteq (T \ {y}) \cup {x}
      PROVE  Cardinality(S) <= Cardinality(T)
  <2> DEFINE U == T \ {y}
  <2>1. U \in SUBSET Ids /\ IsFiniteSet(T) /\ Cardinality(T) \in Nat
    BY <1>2
  <2>2. Cardinality(U) = Cardinality(T) - 1
    BY <2>1, FS_RemoveElement
  <2>3. S \subseteq U \cup {x}
    BY <1>6
  <2> HIDE DEF U
  <2>4. /\ U \cup {x} \in SUBSET Ids /\ Cardinality(U \cup {x}) <= Cardinality(U) + 1
        /\ Cardinality(S) <= Cardinality(U \cup {x})
    BY <1>3, <1>4, <2>1, <2>3
  <2>5. Cardinality(S) \in Nat /\ Cardinality(U \cup {x}) \in Nat
    BY <1>2, <2>4
  <2> QED BY <2>1, <2>2, <2>4, <2>5
<1> QED BY <1>2, <1>3, <1>5, <1>6

(* A step other than an acceptance makes no row active and retains none.   *)
LEMMA LimitsFrame ==
    ASSUME WithinLimits, \A i \in Ids : /\ Active(rows'[i]) => Active(rows[i])
                                        /\ rows[i].state \in {"none", "pruned"} =>
                                             rows'[i].state \in {"none", "pruned"}
    PROVE  WithinLimits'
<1> DEFINE A == ActiveIds
           B == ActiveIds'
           C == Retained
           D == Retained'
<1>1. A \in SUBSET Ids /\ B \in SUBSET Ids /\ C \in SUBSET Ids /\ D \in SUBSET Ids
  BY DEF ActiveIds, Retained
<1>2. B \subseteq A /\ D \subseteq C
  BY DEF ActiveIds, Retained
<1>3. Cardinality(A) <= ActiveMax /\ Cardinality(C) <= RetainedMax
  BY DEF WithinLimits
<1>4. WithinLimits' <=> (Cardinality(B) <= ActiveMax /\ Cardinality(D) <= RetainedMax)
  BY DEF WithinLimits
<1> HIDE DEF A, B, C, D
<1>5. /\ Cardinality(A) \in Nat /\ Cardinality(B) \in Nat /\ Cardinality(C) \in Nat
      /\ Cardinality(D) \in Nat
      /\ Cardinality(B) <= Cardinality(A) /\ Cardinality(D) <= Cardinality(C)
  BY <1>1, <1>2, IdsCount
<1> QED BY <1>3, <1>4, <1>5, ConstantsAssumption

(* An acceptance takes the place of a terminal row in a full table.        *)
LEMMA LimitsAccept ==
    ASSUME IInv, WithinLimits, NEW mode \in Modes, Accept(mode)
    PROVE  WithinLimits'
<1> DEFINE A == ActiveIds
           B == ActiveIds'
           C == Retained
           D == Retained'
<1>1. A \in SUBSET Ids /\ B \in SUBSET Ids /\ C \in SUBSET Ids /\ D \in SUBSET Ids
  BY DEF ActiveIds, Retained
<1>2. /\ next \in Ids /\ rows[next].state = "none"
      /\ \A i \in Ids : i # next => \/ rows'[i] = rows[i]
                                    \/ /\ rows'[i].state = "pruned" /\ Final(rows[i])
  BY AcceptSteady
<1>3. B \subseteq A \cup {next} /\ D \subseteq C \cup {next}
  BY <1>2 DEF ActiveIds, Active, Pending, Open, Retained, Final
<1>4. Full => \E p \in C : D \subseteq (C \ {p}) \cup {next}
  <2> SUFFICES ASSUME Full PROVE \E p \in C : D \subseteq (C \ {p}) \cup {next}
    OBVIOUS
  <2> DEFINE p == First(Prunable)
  <2>1. Prunable \in SUBSET Ids /\ Prunable # {}
    BY DEF Prunable, Accept
  <2>2. p \in Prunable
    BY <2>1, FirstIsLeast
  <2>3. p \in Ids /\ Final(rows[p]) /\ p # next
    BY <1>2, <2>2 DEF Prunable, Final
  <2>4. p \in C
    BY <2>3 DEF Retained, Final
  <2>5. rows'[p] = [rows[p] EXCEPT !.state = "pruned"]
    BY <2>3 DEF Accept
  <2>6. rows'[p].state = "pruned"
    BY <2>3, <2>5 DEF IInv, TypeOK, Row
  <2>7. p \notin D
    BY <2>6 DEF Retained
  <2> HIDE DEF p
  <2> QED BY <1>3, <2>4, <2>7
<1>5. /\ Cardinality(A) < ActiveMax /\ Cardinality(C) <= RetainedMax
      /\ ~Full => ~(Cardinality(C) >= RetainedMax)
  BY DEF Accept, WithinLimits, Full
<1>6. WithinLimits' <=> (Cardinality(B) <= ActiveMax /\ Cardinality(D) <= RetainedMax)
  BY DEF WithinLimits
<1> HIDE DEF A, B, C, D
<1>7. /\ Cardinality(A) \in Nat /\ Cardinality(B) \in Nat /\ Cardinality(C) \in Nat
      /\ Cardinality(D) \in Nat
      /\ Cardinality(B) <= Cardinality(A) + 1 /\ Cardinality(D) <= Cardinality(C) + 1
  BY <1>1, <1>2, <1>3, IdsCount
<1>8. Cardinality(B) <= ActiveMax
  BY <1>5, <1>7, ConstantsAssumption
<1>9. CASE Full
  <2>1. PICK p \in C : D \subseteq (C \ {p}) \cup {next}
    BY <1>4, <1>9
  <2>2. Cardinality(D) <= Cardinality(C)
    BY <1>1, <1>2, <2>1, IdsCount
  <2> QED BY <1>5, <1>6, <1>7, <1>8, <2>2, ConstantsAssumption
<1>10. CASE ~Full
  BY <1>5, <1>6, <1>7, <1>8, <1>10, ConstantsAssumption
<1> QED BY <1>9, <1>10

(* Whatever is pruned and whatever resumes, a pane never has more active   *)
(* instructions than INSTRUCTION_ACTIVE_MAX nor its table more rows than   *)
(* INSTRUCTION_RETAINED_MAX: a full table gives up a finished row for each *)
(* one it takes.                                                           *)
THEOREM LimitsHold == Spec => []WithinLimits
<1>1. Init => WithinLimits
  <2> SUFFICES ASSUME Init PROVE WithinLimits
    OBVIOUS
  <2>1. ActiveIds = {} /\ Retained = {}
    BY DEF Init, NewRow, ActiveIds, Active, Pending, Open, Retained
  <2> QED BY <2>1, FS_EmptySet, ConstantsAssumption DEF WithinLimits
<1>2. IInv /\ WithinLimits /\ [Next]_vars => WithinLimits'
  <2> SUFFICES ASSUME IInv, WithinLimits, [Next]_vars PROVE WithinLimits'
    OBVIOUS
  <2>0. TypeOK
    BY DEF IInv
  <2>1. CASE Steady
    BY <2>1, LimitsFrame DEF Steady, RowSteady, Active, Open
  <2>2. CASE Claims
    <3>1. /\ Head \in Ids /\ rows[Head].state = "queued" /\ rows'[Head].state = "uncertain"
          /\ \A i \in Ids : i # Head => rows'[i] = rows[i]
      BY <2>0, <2>2, ClaimSteady
    <3> QED BY <3>1, LimitsFrame DEF Active, Pending
  <2>3. CASE Delivers
    <3>1. /\ write.id \in Ids /\ rows[write.id].state = "uncertain"
          /\ \A i \in Ids :
               /\ rows'[i].state = IF i = write.id THEN "delivered" ELSE rows[i].state
               /\ rows[i].completed => rows'[i].completed
      BY <2>0, <2>3, DeliverSteady
    <3> QED BY <3>1, LimitsFrame DEF Active, Pending, Open
  <2>4. ASSUME NEW mode \in Modes, Accept(mode) PROVE WithinLimits'
    BY <2>4, LimitsAccept
  <2> QED BY <2>0, <2>1, <2>2, <2>3, <2>4, TurnSteps
<1> QED BY <1>1, <1>2, Invariance, PTL DEF Spec

-----------------------------------------------------------------------------
(* Requests.                                                               *)

(* Adoption never lowers the round.                                        *)
LEMMA AdoptionGrows ==
    ASSUME NEW rs, NEW i, NEW d, d.round \in Nat
    PROVE  AdoptDelegation(rs, i, d).round \in Nat /\ AdoptDelegation(rs, i, d).round >= d.round
<1>1. CASE AdoptDelegation(rs, i, d) = d
  BY <1>1
<1>2. CASE AdoptDelegation(rs, i, d) # d
  <2>1. AdoptDelegation(rs, i, d).round = d.round + 1
    BY <1>2 DEF AdoptDelegation
  <2> QED BY <2>1
<1> QED BY <1>1, <1>2

(* No step lowers it: rounds are opened and never taken back.              *)
LEMMA RoundGrows ==
    ASSUME TypeOK, [Next]_vars
    PROVE  delegation'.round >= delegation.round
<1>0. /\ delegation.round \in Nat
      /\ \A s : /\ [delegation EXCEPT !.state = s].round = delegation.round
                /\ [delegation EXCEPT !.round = s].round = s
  BY DEF TypeOK
<1>1. CASE UNCHANGED delegation
  BY <1>0, <1>1
<1>2. CASE EnterReceipt
  <2>1. delegation' = delegation \/ \E rs, k : delegation' = AdoptDelegation(rs, k, delegation)
    BY <1>2 DEF EnterReceipt
  <2> QED BY <1>0, <2>1, AdoptionGrows
<1>3. CASE HookDelegation
  <2>1. CASE OpenRound(delegation.state)
    <3> DEFINE d == [delegation EXCEPT !.state = "working"]
    <3>1. d.round = delegation.round
      BY <1>0
    <3>2. \/ \E k : delegation' = AdoptDelegation(rows, k, d)
          \/ delegation'.round \in {delegation.round, delegation.round + 1}
      BY <2>1 DEF OpenRound
    <3> HIDE DEF d
    <3>3. CASE \E k : delegation' = AdoptDelegation(rows, k, d)
      <4>1. d.round \in Nat
        BY <1>0, <3>1
      <4>2. PICK k : delegation' = AdoptDelegation(rows, k, d)
        BY <3>3
      <4> QED BY <3>1, <4>1, <4>2, AdoptionGrows
    <3>4. CASE delegation'.round \in {delegation.round, delegation.round + 1}
      BY <1>0, <3>4
    <3> QED BY <3>2, <3>3, <3>4
  <2>2. CASE \E to : delegation' = [delegation EXCEPT !.state = to]
    BY <1>0, <2>2
  <2> QED BY <1>1, <1>3, <2>1, <2>2 DEF HookDelegation
<1>4. CASE HookLifecycle \/ ExitLifecycle
  <2>1. delegation' = delegation \/ \E k : delegation' = AdoptDelegation(rows, k, delegation)
    BY <1>4 DEF HookLifecycle, ExitLifecycle, Lifecycle
  <2> QED BY <1>0, <2>1, AdoptionGrows
<1>5. ASSUME NEW named, NamedHandback(named) PROVE delegation'.round >= delegation.round
  <2> DEFINE d == AdoptDelegation(rows, Adopted(rows, write, named), delegation)
  <2>1. d.round \in Nat /\ d.round >= delegation.round
    BY <1>0, AdoptionGrows
  <2>2. delegation' = d \/ delegation' = [d EXCEPT !.round = @ + 1]
    BY <1>5 DEF NamedHandback
  <2>3. d \in DelegationType
    BY AdoptDelegationType DEF TypeOK, DelegationType
  <2> HIDE DEF d
  <2>4. [d EXCEPT !.round = @ + 1].round = d.round + 1
    BY <2>3 DEF DelegationType
  <2>5. delegation'.round \in {d.round, d.round + 1}
    BY <2>2, <2>4, Zenon
  <2> QED BY <1>0, <2>1, <2>5
<1>6. CASE Crash
  <2>1. delegation' = delegation \/ \E s : delegation' = [delegation EXCEPT !.state = s]
    BY <1>6 DEF Crash
  <2>2. delegation'.round = delegation.round
    BY <1>0, <2>1
  <2> QED BY <1>0, <2>2
<1>7. CASE \/ \E mode \in Modes : Accept(mode)
           \/ \E i \in Ids : AcceptWake(i) \/ Cancel(i) \/ Resume(i)
           \/ \E outcome \in {"written", "unwritten", "partial"} : PtyWrite(outcome)
           \/ Withdrawn \/ InterruptReceipt \/ PasteReceipt \/ Submit
           \/ WakeExit
  BY <1>1, <1>7 DEF Accept, AcceptWake, Cancel, Resume, PtyWrite, Withdrawn,
     InterruptReceipt, PasteReceipt, Submit, WakeExit
<1>8. ASSUME NEW t \in Threads, Dispatch(t) PROVE UNCHANGED delegation
  BY <1>8 DEF Dispatch, DispatchNothing, DispatchEnded, DispatchHeld,
     DispatchInterrupt, DispatchPaste, BeginWrite
<1>9. CASE \/ \E event \in HookEvents, prompt \in PromptIds \cup {0} :
                HookStatus(event, prompt)
           \/ TurnEndWithheld \/ HoldBegins \/ HoldEnds \/ CloseReserved
           \/ CloseDropped \/ SessionExits \/ RefusalBegins \/ RefusalEnds
  BY <1>1, <1>9 DEF HookStatus, TurnEndWithheld, HoldBegins, HoldEnds, CloseReserved,
     CloseDropped, SessionExits, RefusalBegins, RefusalEnds, SessionBecomes
<1>10. CASE UNCHANGED vars
  BY <1>1, <1>10 DEF vars
<1> QED BY <1>1, <1>2, <1>3, <1>4, <1>5, <1>6, <1>7, <1>8, <1>9, <1>10 DEF Next, Continue

(* The number a claim reserves is at most one past the round.              *)
LEMMA ClaimReserves ==
    ASSUME TypeOK, Claims
    PROVE  rows'[Head].request_id <= delegation.round + 1
<1>1. delegation.round \in Nat /\ rows \in [Ids -> Row]
  BY DEF TypeOK
<1>2. PICK request \in {0, RequestOf} :
        \E t, pc, prompt : BeginWrite(t, Head, pc, request, prompt)
  <2>1. PICK t \in Threads : DispatchInterrupt(t) \/ DispatchPaste(t)
    BY DEF Claims
  <2>2. CASE DispatchInterrupt(t)
    BY <2>2 DEF DispatchInterrupt
  <2>3. CASE DispatchPaste(t)
    BY <2>3 DEF DispatchPaste
  <2> QED BY <2>1, <2>2, <2>3
<1>3. Head \in Ids /\ rows[Head] \in Row
  BY <1>1, ClaimFacts
<1>4. rows'[Head].request_id = request
  BY <1>1, <1>2, <1>3 DEF BeginWrite, Row
<1>5. RequestOf \in {0, delegation.round, delegation.round + 1}
  BY DEF RequestOf
<1> QED BY <1>1, <1>2, <1>4, <1>5

(* The number a row carries is at most one past the round of the child,    *)
(* however many prompts the operator sends while it is written: adoption   *)
(* never meets a number that skips a round (instruction_adopt_locked       *)
(* refuses one).                                                           *)
THEOREM RequestsReachable == Spec => []ReservedIsReachable
<1>1. Init => ReservedIsReachable
  <2> SUFFICES ASSUME Init, NEW i \in Ids PROVE rows[i].request_id <= delegation.round + 1
    BY DEF ReservedIsReachable
  <2>1. rows[i].request_id = 0 /\ delegation.round \in {0, 1}
    BY DEF Init, NewRow
  <2> QED BY <2>1
<1>2. IInv /\ ReservedIsReachable /\ [Next]_vars => ReservedIsReachable'
  <2> SUFFICES ASSUME IInv, ReservedIsReachable, [Next]_vars, NEW i \in Ids
               PROVE  rows'[i].request_id <= delegation'.round + 1
    BY DEF ReservedIsReachable
  <2>0. /\ TypeOK /\ rows[i] \in Row /\ delegation.round \in Nat
        /\ delegation'.round \in Nat /\ rows[i].request_id \in Nat
    BY NextType DEF IInv, TypeOK, Row
  <2>1. delegation'.round >= delegation.round /\ rows[i].request_id <= delegation.round + 1
    BY <2>0, RoundGrows DEF ReservedIsReachable
  <2>2. \/ rows'[i].request_id \in {rows[i].request_id, 0}
        \/ /\ rows'[i].request_id <= delegation.round + 1 /\ rows'[i].request_id \in Nat
    <3>1. CASE Steady
      BY <3>1 DEF Steady, RowSteady
    <3>2. CASE Claims
      <4>1. rows'[i].request_id \in Nat
        BY NextType DEF IInv, TypeOK, Row
      <4> QED BY <2>0, <3>2, <4>1, ClaimReserves, ClaimSteady
    <3>3. CASE Delivers
      BY <2>0, <3>3, DeliverSteady
    <3>4. ASSUME NEW mode \in Modes, Accept(mode)
          PROVE  rows'[i].request_id \in {rows[i].request_id, 0}
      <4>1. CASE i = next
        <5>1. rows'[i] = NewRow(mode, "queued")
          BY <3>4, <4>1, AcceptSteady
        <5>2. NewRow(mode, "queued").request_id = 0
          BY DEF NewRow
        <5> QED BY <5>1, <5>2
      <4>2. CASE i # next
        BY <3>4, <4>2, AcceptSteady
      <4> QED BY <4>1, <4>2
    <3> QED BY <2>0, <3>1, <3>2, <3>3, <3>4, TurnSteps
  <2> QED BY <2>0, <2>1, <2>2
<1> QED BY <1>1, <1>2, Invariance, PTL DEF Spec

-----------------------------------------------------------------------------
(* Restart.  What the paste of a restart waits for is carried from the     *)
(* hook to the claim in three places: the evidence of the write while its  *)
(* interrupt is under way, the row's restart_ready once the receipt came,  *)
(* and the claim of the paste, which looked at it.                         *)

ReadyRows == \A i \in Ids : rows[i].restart_ready => typed[i].idle

ReadyWrite ==
    write.id # 0 =>
        /\ write.pc = "interrupt" /\ write.restart_ready => typed[write.id].idle
        /\ write.pc # "interrupt" /\ typed[write.id].interrupt > 0 => typed[write.id].idle

ReadyInv == ReadyRows /\ ReadyWrite /\ RestartWaitsForIdle

(* What most steps do: no key is typed, the write goes on from its paste   *)
(* or its Enter and no interrupt begins, and readiness has its reason.     *)
RowCalm(i) ==
    /\ SameKeys(i)
    /\ typed[i].idle => typed'[i].idle
    /\ rows'[i].restart_ready => rows[i].restart_ready \/ typed'[i].idle

WriteCalm ==
    \/ write'.id = 0
    \/ /\ write'.id = write.id
       /\ write'.pc = "interrupt" <=> write.pc = "interrupt"
       /\ write.pc = "interrupt" /\ write'.restart_ready
             => write.restart_ready \/ typed'[write.id].idle

Calm == (\A i \in Ids : RowCalm(i)) /\ WriteCalm

(* A calm step keeps it.                                                   *)
LEMMA CalmReady ==
    ASSUME TypeOK, TypeOK', ReadyInv, Calm
    PROVE  ReadyInv'
<1>0. write.id \in Ids \cup {0} /\ 0 \notin Ids
  BY ConstantTypes DEF TypeOK, Write
<1>1. ReadyRows'
  BY DEF ReadyInv, ReadyRows, Calm, RowCalm
<1>2. RestartWaitsForIdle'
  BY DEF ReadyInv, RestartWaitsForIdle, Calm, RowCalm, SameKeys
<1>3. ReadyWrite'
  <2> SUFFICES ASSUME write'.id # 0 PROVE ReadyWrite'
    BY DEF ReadyWrite
  <2>1. /\ write'.id = write.id /\ write.id \in Ids /\ write.id # 0
        /\ write'.pc = "interrupt" <=> write.pc = "interrupt"
        /\ write.pc = "interrupt" /\ write'.restart_ready
             => write.restart_ready \/ typed'[write.id].idle
    BY <1>0 DEF Calm, WriteCalm
  <2>2. RowCalm(write.id)
    BY <2>1 DEF Calm
  <2>3. write.pc = "interrupt" /\ write'.restart_ready => typed'[write.id].idle
    BY <2>1, <2>2 DEF ReadyInv, ReadyWrite, RowCalm
  <2>4. write.pc # "interrupt" /\ typed'[write.id].interrupt > 0 => typed'[write.id].idle
    BY <2>1, <2>2 DEF ReadyInv, ReadyWrite, RowCalm, SameKeys
  <2> QED BY <2>1, <2>3, <2>4 DEF ReadyWrite
<1> QED BY <1>1, <1>2, <1>3 DEF ReadyInv

(* Steps that touch neither the rows, nor the write, nor the terminal.     *)
LEMMA SameIsCalm ==
    ASSUME UNCHANGED rows, UNCHANGED write, UNCHANGED typed
    PROVE  Calm
BY DEF Calm, RowCalm, WriteCalm, SameKeys

(* Steps that change a column of one row other than its readiness.         *)
LEMMA StateIsCalm ==
    ASSUME rows \in [Ids -> Row], UNCHANGED typed, WriteCalm, NEW i, NEW row,
           rows' = [rows EXCEPT ![i] = row], i \in Ids => row.restart_ready = rows[i].restart_ready
    PROVE  Calm
<1>1. ASSUME NEW j \in Ids PROVE RowCalm(j)
  <2>1. rows'[j].restart_ready = rows[j].restart_ready
    <3>1. rows'[j] = IF j = i THEN row ELSE rows[j]
      OBVIOUS
    <3> QED BY <3>1
  <2> QED BY <2>1 DEF RowCalm, SameKeys
<1> QED BY <1>1 DEF Calm

(* The calls and the dispatches that claim nothing are calm.               *)
LEMMA CallersCalm ==
    ASSUME IInv, \/ \E mode \in Modes : Accept(mode)
                 \/ \E i \in Ids : AcceptWake(i) \/ Cancel(i) \/ Resume(i)
                 \/ \E t \in Threads : DispatchNothing(t) \/ DispatchEnded(t) \/ DispatchHeld(t)
    PROVE  Calm
<1>0. rows \in [Ids -> Row]
  BY DEF IInv, TypeOK
<1>1. ASSUME NEW mode \in Modes, Accept(mode) PROVE Calm
  <2>1. /\ UNCHANGED write /\ UNCHANGED typed /\ next \in Ids
        /\ rows'[next] = NewRow(mode, "queued")
    BY <1>1, AcceptSteady DEF Accept
  <2>2. ~rows'[next].restart_ready
    BY <2>1 DEF NewRow
  <2>3. ASSUME NEW i \in Ids, i # next PROVE rows'[i].restart_ready = rows[i].restart_ready
    <3>1. rows'[i] \in {rows[i], [rows[i] EXCEPT !.state = "pruned"]} /\ rows[i] \in Row
      BY <1>0, <1>1, <2>3 DEF Accept
    <3> QED BY <3>1 DEF Row
  <2> QED BY <2>1, <2>2, <2>3 DEF Calm, RowCalm, WriteCalm, SameKeys
<1>2. ASSUME NEW i \in Ids, AcceptWake(i) \/ Cancel(i) \/ Resume(i) PROVE Calm
  <2>1. UNCHANGED write /\ UNCHANGED typed /\ WriteCalm /\ rows[i] \in Row
    BY <1>0, <1>2 DEF AcceptWake, Cancel, Resume, WriteCalm
  <2>2. CASE AcceptWake(i)
    BY <2>1, <2>2, SameIsCalm DEF AcceptWake
  <2>3. CASE Cancel(i) \/ Resume(i)
    <3> DEFINE row(s) == [rows[i] EXCEPT !.state = s]
    <3>1. PICK s : rows' = [rows EXCEPT ![i] = row(s)]
      BY <2>3 DEF Cancel, Resume
    <3>2. row(s).restart_ready = rows[i].restart_ready
      BY <2>1 DEF Row
    <3> HIDE DEF row
    <3> QED BY <1>0, <2>1, <3>1, <3>2, StateIsCalm
  <2> QED BY <1>2, <2>2, <2>3
<1>3. ASSUME NEW t \in Threads, DispatchNothing(t) \/ DispatchEnded(t) \/ DispatchHeld(t)
      PROVE  Calm
  <2>1. UNCHANGED write /\ UNCHANGED typed /\ WriteCalm
    BY <1>3 DEF DispatchNothing, DispatchEnded, DispatchHeld, WriteCalm
  <2>2. CASE DispatchNothing(t) \/ DispatchHeld(t)
    BY <2>1, <2>2, SameIsCalm DEF DispatchNothing, DispatchHeld
  <2>3. CASE DispatchEnded(t)
    <3> DEFINE h == Head
               row == [rows[h] EXCEPT !.state = "held"]
    <3>1. rows' = [rows EXCEPT ![h] = row] /\ h \in Ids
      BY <2>3, HeadIsActive DEF DispatchEnded, Claimable
    <3>2. row.restart_ready = rows[h].restart_ready
      BY <1>0, <3>1 DEF Row
    <3> HIDE DEF row, h
    <3> QED BY <1>0, <2>1, <3>1, <3>2, StateIsCalm
  <2> QED BY <1>3, <2>2, <2>3
<1> QED BY <1>1, <1>2, <1>3

(* Releasing the reservation is calm.                                      *)
LEMMA ReleaseCalm ==
    ASSUME NEW keep, Release(keep)
    PROVE  WriteCalm
BY DEF Release, NoWrite, WriteCalm

(* Delivering a row leaves the readiness of every row alone.               *)
LEMMA DeliverReady ==
    ASSUME TypeOK, Delivers, NEW i \in Ids
    PROVE  rows'[i].restart_ready = rows[i].restart_ready
<1> DEFINE w == write.id
           k == IF write.started THEN Adopted(Sent, write, 0) ELSE 0
           rs == AdoptRows(Sent, k, 0)
           done == rs[w].completed \/ (/\ write.started /\ write.ended
                                       /\ rs[w].adopted)
<1>1. rows \in [Ids -> Row] /\ write \in Write /\ w \in Ids
  BY DEF TypeOK, Write, Delivers, EnterReceipt, Resumed
<1>2. rows' = [rs EXCEPT ![w].completed = done]
  BY DEF Delivers, EnterReceipt
<1>3. k \in Ids \cup {0} /\ Sent \in [Ids -> Row]
  BY AdoptedIsInstruction, SentType DEF TypeOK
<1>4. Sent[i].restart_ready = rows[i].restart_ready
  <2>1. rows[i] \in Row
    BY <1>1
  <2> QED BY <2>1 DEF Sent, Row
<1> DEFINE S == Sent
<1> HIDE DEF k, S
<1>5. rs \in [Ids -> Row] /\ S \in [Ids -> Row]
  BY <1>3, AdoptRowsType DEF S
<1>6. rs[i].restart_ready = S[i].restart_ready
  <2>1. CASE k = 0
    BY <2>1 DEF AdoptRows, S
  <2>2. CASE k # 0
    <3> DEFINE a == S[k].adopted \/ S[k].state = "delivered"
               b == S[k].named_adoption \/ (Delegated /\ 0 # 0)
               row == [S[k] EXCEPT !.adopted = a, !.named_adoption = b]
    <3>1. k \in Ids /\ S[k] \in Row
      BY <1>3, <1>5, <2>2
    <3>2. rs = [S EXCEPT ![k] = row]
      BY <1>5, <2>2, <3>1 DEF AdoptRows, Row, S
    <3> HIDE DEF a, b
    <3>3. row.restart_ready = S[k].restart_ready
      BY <3>1 DEF Row
    <3> HIDE DEF row, rs
    <3> QED BY <1>5, <3>1, <3>2, <3>3
  <2> QED BY <2>1, <2>2
<1> HIDE DEF rs, done
<1>7. rows'[i].restart_ready = rs[i].restart_ready
  <2>1. rs[i] \in Row /\ rows'[i] \in {rs[i], [rs[i] EXCEPT !.completed = done]}
    BY <1>1, <1>2, <1>5
  <2> QED BY <2>1 DEF Row
<1> QED BY <1>4, <1>6, <1>7 DEF S

(* The receipts are calm: an interrupt's moves its readiness to the row.   *)
LEMMA ContinueCalm ==
    ASSUME IInv, ReadyInv, Continue
    PROVE  Calm
<1> DEFINE w == write.id
<1>0. rows \in [Ids -> Row] /\ write \in Write /\ TypeOK
  BY DEF IInv, TypeOK
<1>1. UNCHANGED typed
  BY DEF Continue, Withdrawn, InterruptReceipt, PasteReceipt, Submit, EnterReceipt
<1>2. CASE Withdrawn
  <2>1. WriteCalm /\ UNCHANGED rows
    BY <1>2, ReleaseCalm DEF Withdrawn
  <2> QED BY <1>1, <2>1 DEF Calm, RowCalm, SameKeys
<1>3. CASE Submit
  <2>1. UNCHANGED rows /\ write.pc = "settle"
    BY <1>3 DEF Submit, Resumed
  <2>2. CASE Release(FALSE)
    BY <1>1, <2>1, <2>2, ReleaseCalm DEF Calm, RowCalm, SameKeys
  <2>3. CASE write' = [write EXCEPT !.pc = "enter"]
    <3>1. write'.id = write.id /\ write'.pc = "enter"
      BY <1>0, <2>3 DEF Write
    <3>2. WriteCalm
      BY <2>1, <3>1 DEF WriteCalm
    <3> QED BY <1>1, <2>1, <3>2 DEF Calm, RowCalm, SameKeys
  <2> QED BY <1>3, <2>2, <2>3 DEF Submit
<1>4. CASE InterruptReceipt
  <2>0. w \in Ids /\ w # 0 /\ rows[w] \in Row /\ write.pc = "interrupt"
    BY <1>0, <1>4 DEF InterruptReceipt, Resumed, Write
  <2>1. WriteCalm
    BY <1>4, ReleaseCalm DEF InterruptReceipt
  <2>2. CASE AllWritten /\ TargetLive(write)
    <3> DEFINE ready == rows[w].restart_ready \/ write.restart_ready
               row == [rows[w] EXCEPT !.state = "queued", !.interrupt_sent = TRUE,
                                      !.restart_ready = ready]
    <3>1. rows' = [rows EXCEPT ![w] = row]
      BY <1>4, <2>2 DEF InterruptReceipt
    <3>2. ready => rows[w].restart_ready \/ typed[w].idle
      BY <2>0 DEF ReadyInv, ReadyWrite
    <3> HIDE DEF ready
    <3>3. row.restart_ready = ready
      BY <2>0 DEF Row
    <3> HIDE DEF row, w
    <3>4. ASSUME NEW i \in Ids PROVE RowCalm(i)
      <4>1. CASE i = w
        <5>1. rows'[i] = row
          BY <1>0, <3>1, <4>1
        <5> QED BY <1>1, <3>2, <3>3, <4>1, <5>1 DEF RowCalm, SameKeys
      <4>2. CASE i # w
        <5>1. rows'[i] = rows[i]
          BY <1>0, <3>1, <4>2
        <5> QED BY <1>1, <5>1 DEF RowCalm, SameKeys
      <4> QED BY <4>1, <4>2
    <3> QED BY <2>1, <3>4 DEF Calm
  <2>3. CASE ~(AllWritten /\ TargetLive(write))
    <3> DEFINE row == IF NothingWritten THEN Unwritten(rows[w]) ELSE rows[w]
    <3>1. rows' = [rows EXCEPT ![w] = row]
      BY <1>4, <2>3 DEF InterruptReceipt
    <3>2. row.restart_ready = rows[w].restart_ready
      BY <2>0 DEF Unwritten, Row
    <3> HIDE DEF row, w
    <3> QED BY <1>0, <1>1, <2>1, <3>1, <3>2, StateIsCalm
  <2> QED BY <2>2, <2>3
<1>5. CASE PasteReceipt
  <2>0. w \in Ids /\ w # 0 /\ rows[w] \in Row /\ write.pc = "paste"
    BY <1>0, <1>5 DEF PasteReceipt, Resumed, Write
  <2>1. CASE AllWritten /\ TargetLive(write)
    <3>1. UNCHANGED rows /\ write' = [write EXCEPT !.pc = "settle"]
      BY <1>5, <2>1 DEF PasteReceipt
    <3>2. write'.id = write.id /\ write'.pc = "settle"
      BY <1>0, <3>1 DEF Write
    <3>3. WriteCalm
      BY <2>0, <3>2 DEF WriteCalm
    <3> QED BY <1>1, <3>1, <3>3 DEF Calm, RowCalm, SameKeys
  <2>2. CASE ~(AllWritten /\ TargetLive(write))
    <3> DEFINE row == IF NothingWritten THEN Unwritten(rows[w]) ELSE rows[w]
    <3>1. rows' = [rows EXCEPT ![w] = row] /\ WriteCalm
      BY <1>5, <2>2, ReleaseCalm DEF PasteReceipt
    <3>2. row.restart_ready = rows[w].restart_ready
      BY <2>0 DEF Unwritten, Row
    <3> HIDE DEF row, w
    <3> QED BY <1>0, <1>1, <3>1, <3>2, StateIsCalm
  <2> QED BY <2>1, <2>2
<1>6. CASE EnterReceipt
  <2>1. WriteCalm
    BY <1>6, ReleaseCalm DEF EnterReceipt
  <2>2. CASE ~(AllWritten /\ TargetLive(write))
    BY <1>1, <1>6, <2>1, <2>2 DEF EnterReceipt, Calm, RowCalm, SameKeys
  <2>3. CASE AllWritten /\ TargetLive(write)
    <3>1. ASSUME NEW i \in Ids PROVE rows'[i].restart_ready = rows[i].restart_ready
      BY <1>0, <1>6, <2>3, <3>1, DeliverReady DEF Delivers
    <3> QED BY <1>1, <2>1, <3>1 DEF Calm, RowCalm, SameKeys
  <2> QED BY <2>2, <2>3
<1> QED BY <1>2, <1>3, <1>4, <1>5, <1>6 DEF Continue

(* What the hooks told of an instruction is not forgotten; a turn end is   *)
(* told of every interrupt that was sent or is being written.              *)
LEMMA ToldIdle ==
    ASSUME typed \in [Ids -> TypedKeys], NEW event, NEW prompt, NEW i \in Ids
    PROVE  /\ typed[i].idle => Told(event, prompt)[i].idle
           /\ /\ event = "TurnEnded"
              /\ rows[i].interrupt_sent \/ (write.id = i /\ write.pc = "interrupt")
              => Told(event, prompt)[i].idle
<1> DEFINE a == typed[i].idle \/ (/\ event = "TurnEnded"
                                  /\ \/ rows[i].interrupt_sent
                                     \/ write.id = i /\ write.pc = "interrupt")
           b == typed[i].fresh \/ (/\ event \in {"PromptSubmitted", "Activity"}
                                   /\ rows[i].touched
                                   /\ \/ prompt = 0
                                      \/ prompt # rows[i].dispatch_prompt_id)
<1>1. Told(event, prompt)[i] = [typed[i] EXCEPT !.idle = a, !.fresh = b]
  BY DEF Told
<1>2. /\ typed[i].idle => a
      /\ /\ event = "TurnEnded"
         /\ rows[i].interrupt_sent \/ (write.id = i /\ write.pc = "interrupt")
         => a
  OBVIOUS
<1>3. typed[i] \in TypedKeys
  OBVIOUS
<1> HIDE DEF a, b
<1>4. [typed[i] EXCEPT !.idle = a, !.fresh = b].idle = a
  BY <1>3 DEF TypedKeys
<1> QED BY <1>1, <1>2, <1>4

(* Adoption and the end of a pane leave readiness alone; a turn end grants *)
(* it to a queued row whose interrupt was sent.                            *)
LEMMA RowsReady ==
    ASSUME rows \in [Ids -> Row], NEW event, NEW prompt, NEW named,
           NEW k \in Ids \cup {0}, NEW i \in Ids
    PROVE  /\ AdoptRows(rows, k, named)[i].restart_ready = rows[i].restart_ready
           /\ EndedRows[i].restart_ready = rows[i].restart_ready
           /\ TurnEndRows(event, prompt)[i].restart_ready =>
                \/ rows[i].restart_ready
                \/ event # "QuietSettle" /\ rows[i].interrupt_sent
<1>0. rows[i] \in Row
  OBVIOUS
<1>1. AdoptRows(rows, k, named)[i].restart_ready = rows[i].restart_ready
  <2>1. CASE k = 0
    BY <2>1 DEF AdoptRows
  <2>2. CASE k # 0
    <3> DEFINE a == rows[k].adopted \/ rows[k].state = "delivered"
               b == rows[k].named_adoption \/ (Delegated /\ named # 0)
               row == [rows[k] EXCEPT !.adopted = a, !.named_adoption = b]
    <3>1. k \in Ids /\ rows[k] \in Row /\ AdoptRows(rows, k, named) = [rows EXCEPT ![k] = row]
      BY <2>2 DEF AdoptRows, Row
    <3> HIDE DEF a, b
    <3>2. row.restart_ready = rows[k].restart_ready
      BY <3>1 DEF Row
    <3> HIDE DEF row
    <3> QED BY <3>1, <3>2
  <2> QED BY <2>1, <2>2
<1>2. EndedRows[i].restart_ready = rows[i].restart_ready
  BY <1>0 DEF EndedRows, Row
<1>3. TurnEndRows(event, prompt)[i].restart_ready =>
         \/ rows[i].restart_ready
         \/ event # "QuietSettle" /\ rows[i].interrupt_sent
  <2> DEFINE c == rows[i].completed \/ (/\ Open(rows[i]) /\ rows[i].adopted
                                        /\ \/ ~Stale(rows[i], prompt)
                                           \/ rows[i].named_adoption)
             d == rows[i].restart_ready \/ (/\ event # "QuietSettle"
                                            /\ rows[i].state = "queued"
                                            /\ rows[i].interrupt_sent)
             row == [rows[i] EXCEPT !.completed = c, !.restart_ready = d]
  <2>1. TurnEndRows(event, prompt)[i] = row
    BY DEF TurnEndRows
  <2>2. d => \/ rows[i].restart_ready
             \/ event # "QuietSettle" /\ rows[i].interrupt_sent
    OBVIOUS
  <2> HIDE DEF c, d
  <2>3. row.restart_ready = d
    BY <1>0 DEF Row
  <2> HIDE DEF row
  <2> QED BY <2>1, <2>2, <2>3
<1> QED BY <1>1, <1>2, <1>3

(* Only a turn end is evidence that an interrupt was handled.              *)
LEMMA EvidenceReady ==
    ASSUME write \in Write, NEW event, NEW prompt, NEW rs, NEW k
    PROVE  /\ AdoptEvidence(rs, k, write).restart_ready = write.restart_ready
           /\ AdoptEvidence(rs, k, Evidence(event, prompt)).restart_ready
                => write.restart_ready \/ event = "TurnEnded"
<1>1. ASSUME NEW e \in Write
      PROVE  AdoptEvidence(rs, k, e).restart_ready = e.restart_ready
  BY DEF AdoptEvidence, Write
<1>2. Evidence(event, prompt).restart_ready => write.restart_ready \/ event = "TurnEnded"
  <2>1. CASE event \in {"TurnEnded", "QuietSettle"} /\ Evidence(event, prompt) # write
    <3> DEFINE stale == Stale(rows[write.id], prompt)
               correlated == /\ rows[write.id].dispatch_prompt_id # 0 /\ prompt # 0
                             /\ rows[write.id].dispatch_prompt_id # prompt
               proven == ~stale /\ (write.submitted \/ correlated)
               a == write.ended \/ (/\ write.started
                                    /\ proven \/ (/\ write.submitted
                                                  /\ rows[write.id].named_adoption))
               b == write.restart_ready \/ event # "QuietSettle"
               e == [write EXCEPT !.ended = a, !.restart_ready = b]
    <3>1. Evidence(event, prompt) = e
      BY <2>1 DEF Evidence
    <3>2. b => write.restart_ready \/ event = "TurnEnded"
      BY <2>1
    <3> HIDE DEF a, b
    <3>3. e.restart_ready = b
      BY DEF Write
    <3> HIDE DEF e
    <3> QED BY <3>1, <3>2, <3>3
  <2>2. CASE event \notin {"TurnEnded", "QuietSettle"}
    BY <2>2 DEF Evidence, Write
  <2>3. CASE Evidence(event, prompt) = write
    BY <2>3
  <2> QED BY <2>1, <2>2, <2>3
<1>3. Evidence(event, prompt) \in Write
  BY EvidenceType
<1> QED BY <1>1, <1>2, <1>3

(* instruction_lifecycle is calm: readiness comes with the turn end told.  *)
LEMMA LifecycleCalm ==
    ASSUME TypeOK, NEW event, NEW prompt, Lifecycle(event, prompt)
    PROVE  Calm
<1>0. rows \in [Ids -> Row] /\ write \in Write /\ typed \in [Ids -> TypedKeys]
  BY DEF TypeOK
<1>1. CASE UNCHANGED <<rows, write, delegation, awaiting, wake, typed>>
  BY <1>1, SameIsCalm
<1>2. CASE ~(\/ event # "SessionEnded" /\ session.closing
             \/ Retained = {})
  <2> DEFINE evidence == Evidence(event, prompt)
             staleActivity == \E i \in Ids : /\ Open(rows[i]) /\ ~rows[i].adopted
                                             /\ Stale(rows[i], prompt)
             adopts == \/ event = "PromptSubmitted"
                       \/ event = "Activity" /\ Working /\ ~staleActivity
             k == IF adopts THEN Adopted(rows, evidence, 0) ELSE 0
  <2>1. /\ rows' = CASE event \in {"TurnEnded", "QuietSettle"} ->
                           TurnEndRows(event, prompt)
                     [] event \in {"SessionEnded", "TurnFailed"} -> EndedRows
                     [] OTHER -> AdoptRows(rows, k, 0)
        /\ write' = AdoptEvidence(rows, k, Evidence(event, prompt))
        /\ typed' = Told(event, prompt)
    BY <1>2 DEF Lifecycle
  <2>2. k \in Ids \cup {0}
    BY AdoptedIsInstruction
  <2> HIDE DEF k
  <2>3. ASSUME NEW i \in Ids PROVE RowCalm(i)
    <3>1. SameKeys(i)
      BY <1>0, <2>1, ToldKeeps DEF SameKeys
    <3>2. typed[i].idle => typed'[i].idle
      BY <1>0, <2>1, ToldIdle
    <3>3. rows'[i].restart_ready => rows[i].restart_ready \/ typed'[i].idle
      <4>1. CASE event \in {"TurnEnded", "QuietSettle"}
        <5>1. rows' = TurnEndRows(event, prompt)
          BY <2>1, <4>1
        <5>2. rows'[i].restart_ready => \/ rows[i].restart_ready
                                        \/ event # "QuietSettle" /\ rows[i].interrupt_sent
          BY <1>0, <2>2, <5>1, RowsReady
        <5>3. event = "TurnEnded" /\ rows[i].interrupt_sent => typed'[i].idle
          BY <1>0, <2>1, ToldIdle
        <5> QED BY <4>1, <5>2, <5>3
      <4>2. CASE event \notin {"TurnEnded", "QuietSettle"}
        <5>1. rows' = EndedRows \/ rows' = AdoptRows(rows, k, 0)
          BY <2>1, <4>2
        <5> QED BY <1>0, <2>2, <5>1, RowsReady
      <4> QED BY <4>1, <4>2
    <3> QED BY <3>1, <3>2, <3>3 DEF RowCalm
  <2>4. WriteCalm
    <3>1. Evidence(event, prompt) \in Write
      BY <1>0, EvidenceType
    <3>2. write'.id = write.id /\ write'.pc = write.pc
      BY <1>0, <2>1, <3>1, AdoptEvidenceKeeps, EvidenceKeeps
    <3>3. write'.restart_ready => write.restart_ready \/ event = "TurnEnded"
      BY <1>0, <2>1, EvidenceReady
    <3>4. write.id \in Ids /\ write.pc = "interrupt" /\ event = "TurnEnded"
            => typed'[write.id].idle
      BY <1>0, <2>1, ToldIdle
    <3>5. write.id \in Ids \cup {0}
      BY <1>0 DEF Write
    <3> QED BY <3>2, <3>3, <3>4, <3>5 DEF WriteCalm
  <2> QED BY <2>3, <2>4 DEF Calm
<1> QED BY <1>1, <1>2 DEF Lifecycle

(* Adoption by a hook or a hand-back is calm.                              *)
LEMMA AdoptionCalm ==
    ASSUME TypeOK, HookDelegation \/ \E named \in Nat : NamedHandback(named)
    PROVE  Calm
<1>0. rows \in [Ids -> Row] /\ write \in Write /\ typed \in [Ids -> TypedKeys]
  BY DEF TypeOK
<1>1. ASSUME NEW i \in Ids
      PROVE  SameKeys(i) /\ (typed[i].idle => typed'[i].idle)
  <2>1. CASE typed' = typed
    BY <2>1 DEF SameKeys
  <2>2. CASE \E event, prompt : typed' = Told(event, prompt)
    <3>1. PICK event, prompt : typed' = Told(event, prompt)
      BY <2>2
    <3> QED BY <1>0, <3>1, ToldKeeps, ToldIdle DEF SameKeys
  <2>3. CASE \E k \in Ids : typed' = [typed EXCEPT ![k].fresh = TRUE]
    <3>1. PICK k \in Ids : typed' = [typed EXCEPT ![k].fresh = TRUE]
      BY <2>3
    <3>2. typed[i] \in TypedKeys /\ typed'[i] \in {typed[i], [typed[i] EXCEPT !.fresh = TRUE]}
      BY <1>0, <3>1
    <3> QED BY <3>2 DEF SameKeys, TypedKeys
  <2>4. ASSUME NEW named \in Nat, NamedHandback(named), typed' # typed
        PROVE  \E k \in Ids : typed' = [typed EXCEPT ![k].fresh = TRUE]
    <3> DEFINE k == Adopted(rows, write, named)
    <3>1. typed' = IF k = 0 THEN typed ELSE [typed EXCEPT ![k].fresh = TRUE]
      BY <2>4 DEF NamedHandback
    <3>2. k \in Ids \cup {0}
      BY AdoptedIsInstruction
    <3> HIDE DEF k
    <3> QED BY <2>4, <3>1, <3>2
  <2>5. ASSUME HookDelegation, typed' # typed
        PROVE  \E event, prompt : typed' = Told(event, prompt)
    BY <2>5 DEF HookDelegation
  <2> QED BY <2>1, <2>2, <2>3, <2>4, <2>5
<1>2. CASE UNCHANGED <<rows, write>>
  BY <1>1, <1>2 DEF Calm, RowCalm, WriteCalm
<1>3. ASSUME NEW k \in Ids \cup {0}, NEW named,
             rows' = AdoptRows(rows, k, named),
             write' = AdoptEvidence(rows, k, write)
      PROVE  Calm
  <2>1. ASSUME NEW i \in Ids PROVE RowCalm(i)
    <3>1. rows'[i].restart_ready = rows[i].restart_ready
      BY <1>0, <1>3, RowsReady
    <3> QED BY <1>1, <3>1 DEF RowCalm
  <2>2. WriteCalm
    <3>1. /\ write'.id = write.id /\ write'.pc = write.pc
          /\ write'.restart_ready = write.restart_ready
      BY <1>0, <1>3, AdoptEvidenceKeeps, EvidenceReady
    <3> QED BY <3>1 DEF WriteCalm
  <2> QED BY <2>1, <2>2 DEF Calm
<1>4. CASE HookDelegation /\ ~UNCHANGED <<rows, write>>
  <2>1. OpenRound(delegation.state)
    BY <1>4 DEF HookDelegation
  <2> DEFINE k == Adopted(rows, write, 0)
  <2>2. rows' = AdoptRows(rows, k, 0) /\ write' = AdoptEvidence(rows, k, write)
    BY <1>4, <2>1 DEF OpenRound
  <2>3. k \in Ids \cup {0}
    BY AdoptedIsInstruction
  <2> HIDE DEF k
  <2> QED BY <1>3, <2>2, <2>3
<1>5. ASSUME NEW named \in Nat, NamedHandback(named) PROVE Calm
  <2> DEFINE k == Adopted(rows, write, named)
  <2>1. /\ rows' = AdoptRows(rows, k, named)
        /\ write' = AdoptEvidence(rows, k, write)
    BY <1>5 DEF NamedHandback
  <2>2. k \in Ids \cup {0}
    BY AdoptedIsInstruction
  <2> HIDE DEF k
  <2> QED BY <1>3, <2>1, <2>2
<1> QED BY <1>2, <1>4, <1>5

(* So is what happens around the queue: a crash forgets the evidence of a  *)
(* write and keeps the readiness of every row.                             *)
LEMMA SurroundingsCalm ==
    ASSUME TypeOK,
           \/ WakeExit \/ RefusalBegins \/ RefusalEnds \/ TurnEndWithheld
           \/ HoldBegins \/ HoldEnds \/ CloseReserved \/ CloseDropped
           \/ SessionExits \/ Crash
           \/ \E event \in HookEvents, prompt \in PromptIds \cup {0} :
                HookStatus(event, prompt)
    PROVE  Calm
<1>0. rows \in [Ids -> Row]
  BY DEF TypeOK
<1>1. CASE Crash
  <2>1. WriteCalm /\ UNCHANGED typed
    BY <1>1 DEF Crash, NoWrite, WriteCalm
  <2>2. ASSUME NEW i \in Ids PROVE rows'[i].restart_ready = rows[i].restart_ready
    <3>1. rows[i] \in Row /\ rows'[i] = Recovered(rows[i])
      BY <1>0, <1>1 DEF Crash
    <3> QED BY <3>1 DEF Recovered, Row
  <2> QED BY <2>1, <2>2 DEF Calm, RowCalm, SameKeys
<1>2. CASE ~Crash
  <2>1. UNCHANGED rows /\ UNCHANGED write /\ UNCHANGED typed
    BY <1>2 DEF WakeExit, RefusalBegins, RefusalEnds, TurnEndWithheld, HoldBegins,
           HoldEnds, CloseReserved, CloseDropped, SessionExits, HookStatus,
           SessionBecomes
  <2> QED BY <2>1, SameIsCalm
<1> QED BY <1>1, <1>2

(* The stdin writer types a prompt only under a claim that saw the idle.   *)
LEMMA PtyWriteReady ==
    ASSUME IInv, ReadyInv, NEW outcome \in {"written", "unwritten", "partial"},
           PtyWrite(outcome)
    PROVE  ReadyInv'
<1> DEFINE w == write.id
<1>0. /\ typed \in [Ids -> TypedKeys] /\ write \in Write /\ w \in Ids /\ w # 0
      /\ Claim(w) /\ UNCHANGED rows /\ job = "queued"
  BY DEF IInv, TypeOK, WriteInv, PtyWrite, Write
<1>1. /\ write'.id = w /\ write'.pc = write.pc
      /\ write'.restart_ready = write.restart_ready
  BY <1>0 DEF PtyWrite, Write
<1>2. CASE UNCHANGED typed
  BY <1>0, <1>1, <1>2 DEF ReadyInv, ReadyRows, ReadyWrite, RestartWaitsForIdle
<1>3. CASE typed' = Typed(write.pc)
  <2>0. typed[w] \in TypedKeys
    BY <1>0
  <2>1. ASSUME NEW i \in Ids, i # w PROVE typed'[i] = typed[i]
    BY <1>0, <1>3, <2>1 DEF Typed
  <2>2. /\ typed'[w].interrupt =
             typed[w].interrupt + (IF write.pc = "interrupt" THEN 1 ELSE 0)
        /\ typed'[w].paste = typed[w].paste + (IF write.pc = "paste" THEN 1 ELSE 0)
        /\ typed'[w].idle = typed[w].idle
    BY <1>0, <1>3, <2>0 DEF Typed, TypedKeys
  <2>3. typed[w].interrupt \in Nat /\ typed[w].paste \in Nat
    BY <2>0 DEF TypedKeys
  <2>4. ReadyRows'
    BY <1>0, <2>1, <2>2 DEF ReadyInv, ReadyRows
  <2>5. ReadyWrite'
    <3>1. CASE write.pc = "interrupt"
      BY <1>0, <1>1, <2>2, <3>1 DEF ReadyInv, ReadyWrite
    <3>2. CASE write.pc # "interrupt"
      BY <1>0, <1>1, <2>2, <2>3, <3>2 DEF ReadyInv, ReadyWrite
    <3> QED BY <3>1, <3>2
  <2>6. typed'[w].interrupt > 0 /\ typed'[w].paste > 0 => typed'[w].idle
    <3>1. CASE write.pc = "interrupt"
      BY <1>0, <2>2, <2>3, <3>1 DEF Claim
    <3>2. CASE write.pc # "interrupt"
      BY <1>0, <2>2, <2>3, <3>2 DEF ReadyInv, ReadyWrite
    <3> QED BY <3>1, <3>2
  <2>7. RestartWaitsForIdle'
    BY <1>0, <2>1, <2>6 DEF ReadyInv, RestartWaitsForIdle
  <2> QED BY <2>4, <2>5, <2>7 DEF ReadyInv
<1> QED BY <1>2, <1>3 DEF PtyWrite

(* A prompt is claimed after an interrupt only when the row is ready.      *)
LEMMA ClaimReady ==
    ASSUME IInv, ReadyInv, Claims
    PROVE  ReadyInv'
<1>0. /\ TypeOK /\ rows \in [Ids -> Row] /\ typed \in [Ids -> TypedKeys]
      /\ \A i \in Ids : RowInv(i)
  BY DEF IInv, TypeOK
<1> DEFINE h == Head
<1>1. PICK t, pc, request, prompt :
         /\ BeginWrite(t, h, pc, request, prompt) /\ Claimable
         /\ pc \in {"interrupt", "paste"} /\ (pc = "paste" => ~AwaitsIdle(rows[h]))
  BY DEF Claims, DispatchInterrupt, DispatchPaste
<1>2. h \in Ids /\ rows[h].state = "queued" /\ UNCHANGED typed
  BY <1>1, HeadIsActive DEF Claimable, BeginWrite
<1> HIDE DEF h
<1>3. /\ write'.id = h /\ write'.pc = pc /\ ~write'.restart_ready
  BY <1>1 DEF BeginWrite, NoWrite
<1>4. ASSUME NEW i \in Ids PROVE rows'[i].restart_ready = rows[i].restart_ready
  <2> DEFINE row == [rows[h] EXCEPT !.touched = TRUE, !.state = "uncertain",
                                    !.request_id = request, !.dispatch_prompt_id = prompt]
  <2>1. rows' = [rows EXCEPT ![h] = row] /\ rows[h] \in Row
    BY <1>0, <1>1, <1>2 DEF BeginWrite
  <2>2. row.restart_ready = rows[h].restart_ready
    BY <2>1 DEF Row
  <2> HIDE DEF row
  <2> QED BY <1>0, <1>2, <2>1, <2>2
<1>5. ReadyRows' /\ RestartWaitsForIdle'
  BY <1>2, <1>4 DEF ReadyInv, ReadyRows, RestartWaitsForIdle
<1>6. ReadyWrite'
  <2>1. CASE pc = "interrupt"
    BY <1>3, <2>1 DEF ReadyWrite
  <2>2. CASE pc = "paste"
    <3>1. ~rows[h].interrupt_sent => typed[h].interrupt = 0
      BY <1>0, <1>2 DEF RowInv, Claimables
    <3>2. rows[h].interrupt_sent => typed[h].idle
      BY <1>1, <1>2, <2>2 DEF AwaitsIdle, ReadyInv, ReadyRows
    <3> QED BY <1>2, <1>3, <2>2, <3>1, <3>2 DEF ReadyWrite
  <2> QED BY <1>1, <2>1, <2>2
<1> QED BY <1>5, <1>6 DEF ReadyInv

(* Every step keeps it.                                                    *)
LEMMA ReadyStep ==
    ASSUME IInv, TypeOK', ReadyInv, [Next]_vars
    PROVE  ReadyInv'
<1>0. TypeOK
  BY DEF IInv
<1>1. ASSUME NEW t \in Threads, Dispatch(t) PROVE Calm \/ Claims
  BY <1>1, CallersCalm DEF Dispatch, Claims
<1>2. CASE \/ \E mode \in Modes : Accept(mode)
           \/ \E i \in Ids : AcceptWake(i) \/ Cancel(i) \/ Resume(i)
  BY <1>0, <1>2, CallersCalm, CalmReady
<1>3. CASE Continue
  BY <1>0, <1>3, ContinueCalm, CalmReady
<1>4. CASE HookLifecycle \/ ExitLifecycle
  BY <1>0, <1>4, LifecycleCalm, CalmReady DEF HookLifecycle, ExitLifecycle
<1>5. CASE \/ HookDelegation
           \/ \E named \in 1 .. MaxHooks + MaxInstr + 1 : NamedHandback(named)
  <2>1. HookDelegation \/ \E named \in Nat : NamedHandback(named)
    BY <1>5, ConstantsAssumption
  <2> QED BY <1>0, <2>1, AdoptionCalm, CalmReady
<1>6. CASE \/ WakeExit \/ RefusalBegins \/ RefusalEnds \/ TurnEndWithheld
           \/ HoldBegins \/ HoldEnds \/ CloseReserved \/ CloseDropped
           \/ SessionExits \/ Crash
           \/ \E event \in HookEvents, prompt \in PromptIds \cup {0} :
                HookStatus(event, prompt)
  BY <1>0, <1>6, SurroundingsCalm, CalmReady
<1>7. CASE \E outcome \in {"written", "unwritten", "partial"} : PtyWrite(outcome)
  BY <1>7, PtyWriteReady
<1>8. CASE UNCHANGED vars
  <2>1. UNCHANGED rows /\ UNCHANGED write /\ UNCHANGED typed
    BY <1>8 DEF vars
  <2> QED BY <1>0, <2>1, SameIsCalm, CalmReady
<1>9. CASE \E t \in Threads : Dispatch(t)
  BY <1>0, <1>1, <1>9, CalmReady, ClaimReady
<1> QED BY <1>2, <1>3, <1>4, <1>5, <1>6, <1>7, <1>8, <1>9 DEF Next

(* The prompt that follows an interrupt is typed only after a turn end     *)
(* that was seen after the interrupt was claimed, whatever receipts,       *)
(* crashes, hooks and other instructions come between (instruction_        *)
(* dispatch, instruction_lifecycle).                                       *)
THEOREM RestartIsPatient == Spec => []RestartWaitsForIdle
<1>1. Init => ReadyInv
  <2> SUFFICES ASSUME Init PROVE ReadyInv
    OBVIOUS
  <2>1. ASSUME NEW i \in Ids
        PROVE  ~rows[i].restart_ready /\ typed[i].interrupt = 0
    BY DEF Init, NewRow
  <2>2. write.id = 0
    BY DEF Init, NoWrite
  <2> QED BY <2>1, <2>2 DEF ReadyInv, ReadyRows, ReadyWrite, RestartWaitsForIdle
<1>2. IInv /\ IInv' /\ ReadyInv /\ [Next]_vars => ReadyInv'
  BY ReadyStep DEF IInv
<1>3. ReadyInv => RestartWaitsForIdle
  BY DEF ReadyInv
<1> QED BY <1>1, <1>2, <1>3, Invariance, PTL DEF Spec

-----------------------------------------------------------------------------
(* The end of a pane.  Only the exit of the process ends a pane, and the   *)
(* lifecycle handler it owes settles what is open; the handler itself may  *)
(* run late, so the receipt of an Enter can come between.                  *)

(* A step that ends no pane and handles no end.                            *)
Elsewhere == session'.live = session.live /\ exiting' = exiting

(* Which steps do.                                                         *)
LEMMA PaneSteps ==
    ASSUME TypeOK, [Next]_vars
    PROVE  Elsewhere \/ SessionExits \/ ExitLifecycle \/ Crash
<1>0. session \in [live : BOOLEAN, closing : BOOLEAN, hold : BOOLEAN,
                   status : {"idle", "working", "owed", "needs_input"}]
  BY DEF TypeOK
<1>1. CASE \/ \E mode \in Modes : Accept(mode)
           \/ \E i \in Ids : AcceptWake(i) \/ Cancel(i) \/ Resume(i)
  BY <1>1 DEF Accept, AcceptWake, Cancel, Resume, Elsewhere
<1>2. CASE \E t \in Threads : Dispatch(t)
  BY <1>2 DEF Dispatch, DispatchNothing, DispatchEnded, DispatchHeld,
     DispatchInterrupt, DispatchPaste, BeginWrite, Elsewhere
<1>3. CASE Continue
  BY <1>3 DEF Continue, Withdrawn, InterruptReceipt, PasteReceipt, Submit,
     EnterReceipt, Elsewhere
<1>4. CASE \/ WakeExit \/ RefusalBegins \/ RefusalEnds \/ HookDelegation
           \/ HookLifecycle
           \/ \E outcome \in {"written", "unwritten", "partial"} : PtyWrite(outcome)
           \/ \E named \in 1 .. MaxHooks + MaxInstr + 1 : NamedHandback(named)
  BY <1>4 DEF WakeExit, RefusalBegins, RefusalEnds, HookDelegation, HookLifecycle,
     PtyWrite, NamedHandback, Elsewhere
<1>5. ASSUME NEW event \in HookEvents, NEW prompt \in PromptIds \cup {0},
             HookStatus(event, prompt)
      PROVE  Elsewhere
  BY <1>0, <1>5 DEF HookStatus, Elsewhere
<1>6. CASE TurnEndWithheld \/ HoldBegins \/ HoldEnds \/ CloseReserved \/ CloseDropped
  BY <1>0, <1>6 DEF TurnEndWithheld, HoldBegins, HoldEnds, CloseReserved,
     CloseDropped, SessionBecomes, Elsewhere
<1>7. CASE UNCHANGED vars
  BY <1>7 DEF vars, Elsewhere
<1> QED BY <1>1, <1>2, <1>3, <1>4, <1>5, <1>6, <1>7 DEF Next

(* Only the receipt of an Enter in a live pane opens a row.                *)
LEMMA OpensLive ==
    ASSUME TypeOK, [Next]_vars, ~session.live, NEW i \in Ids, Open(rows'[i])
    PROVE  Open(rows[i])
<1>1. CASE Steady
  BY <1>1 DEF Steady, RowSteady, Open
<1>2. CASE Claims
  BY <1>2 DEF Claims, DispatchInterrupt, DispatchPaste
<1>3. CASE Delivers
  BY <1>3 DEF Delivers, TargetLive
<1>4. ASSUME NEW mode \in Modes, Accept(mode) PROVE FALSE
  BY <1>4 DEF Accept
<1> QED BY <1>1, <1>2, <1>3, <1>4, TurnSteps

(* Once the end of a pane that only the daemon prompts was handled, none   *)
(* of Houston's own input is open (finish_session, instruction_lifecycle), *)
(* as long as the daemon does not crash: a crash may find the pane dead    *)
(* with no exit left to handle.                                            *)
THEOREM DaemonInputIsSettled ==
    ASSUME "crash" \notin Disturbances
    PROVE  Spec => []DaemonInputSettles
<1>1. Init => DaemonInputSettles
  BY DEF Init, DaemonInputSettles
<1>2. TypeOK /\ DaemonInputSettles /\ [Next]_vars => DaemonInputSettles'
  <2> SUFFICES ASSUME TypeOK, DaemonInputSettles, [Next]_vars, ~Delegated,
                      ~session'.live, ~exiting', NEW i \in Ids, Open(rows'[i])
               PROVE  FALSE
    BY DEF DaemonInputSettles, Open
  <2>1. CASE Elsewhere
    <3>1. ~session.live /\ ~exiting
      BY <2>1 DEF Elsewhere
    <3> QED BY <3>1, OpensLive DEF DaemonInputSettles
  <2>2. CASE SessionExits
    BY <2>2 DEF SessionExits
  <2>3. CASE ExitLifecycle
    <3>1. Lifecycle("SessionEnded", 0) /\ rows \in [Ids -> Row]
      BY <2>3 DEF ExitLifecycle, TypeOK
    <3>2. CASE Retained = {}
      <4>1. UNCHANGED rows
        BY <3>1, <3>2 DEF Lifecycle
      <4> QED BY <3>2, <4>1 DEF Retained, Open
    <3>3. CASE Retained # {}
      <4>1. rows' = EndedRows
        BY <3>1, <3>3 DEF Lifecycle
      <4> QED BY <3>1, <4>1, EndedSteady
    <3> QED BY <3>2, <3>3
  <2>4. CASE Crash
    BY <2>4 DEF Crash, Disturbed
  <2> QED BY <2>1, <2>2, <2>3, <2>4, PaneSteps
<1> QED BY <1>1, <1>2, TypeCorrect, PTL DEF Spec

=============================================================================
