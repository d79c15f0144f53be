---------------------- MODULE InstructionRoundsProofs ----------------------
(***************************************************************************)
(* Theorems about the rounds of a delegated child in InstructionQueue: the *)
(* request numbers that its instructions carry increase, an instruction    *)
(* completes only after the agent was seen to start it, and a prompt that  *)
(* waits for its hook has a row for the hook to adopt.                     *)
(***************************************************************************)
EXTENDS InstructionTurnsProofs

-----------------------------------------------------------------------------
(* Steps that credit nothing.  A row awaits its start while it is being    *)
(* typed or is delivered and not adopted.  Most steps adopt and complete   *)
(* nothing, and let no further row await its start.                        *)

Credited(row) == row.adopted \/ row.completed

Awaits(i) ==
    \/ Open(rows[i]) /\ ~rows[i].adopted
    \/ write.id = i /\ rows[i].state = "uncertain" /\ write.pc # "interrupt"

RowKeeps(i) ==
    /\ Credited(rows'[i]) => Credited(rows[i])
    /\ Awaits(i)' => /\ Awaits(i)
                     /\ rows'[i].dispatch_prompt_id = rows[i].dispatch_prompt_id
                     /\ rows'[i].request_id = rows[i].request_id
    /\ Open(rows[i]) => Open(rows'[i])
    /\ rows'[i].state = "delivered" => /\ rows[i].state = "delivered"
                                       /\ rows'[i].touched = rows[i].touched
    /\ typed[i].fresh => typed'[i].fresh

WriteKeeps ==
    write'.id # 0 => /\ write'.id = write.id
                     /\ write'.started = write.started
                     /\ write'.pc # "interrupt" => write.pc # "interrupt"

Keeps == (\A i \in Ids : RowKeeps(i)) /\ WriteKeeps

(* A row that does not change keeps what it awaits.                        *)
LEMMA SameRowKeeps ==
    ASSUME NEW i \in Ids, WriteKeeps, rows'[i] = rows[i],
           typed'[i].fresh = typed[i].fresh
    PROVE  RowKeeps(i)
<1>1. i # 0
  BY ConstantTypes
<1>2. Awaits(i)' => Awaits(i)
  BY <1>1 DEF Awaits, WriteKeeps
<1> QED BY <1>2 DEF RowKeeps

(* Nor does one that changes its state before it is delivered, and is not  *)
(* being typed.                                                            *)
LEMMA StateKeeps ==
    ASSUME rows \in [Ids -> Row], NEW i \in Ids, NEW row \in Row,
           rows' = [rows EXCEPT ![i] = row], UNCHANGED typed, WriteKeeps,
           row.adopted = rows[i].adopted, row.completed = rows[i].completed,
           rows[i].state # "delivered", row.state # "delivered", row.state = "uncertain" => write'.id # i
    PROVE  \A j \in Ids : RowKeeps(j)
<1> SUFFICES ASSUME NEW j \in Ids PROVE RowKeeps(j)
  OBVIOUS
<1>1. CASE j # i
  <2>1. rows'[j] = rows[j]
    BY <1>1
  <2> QED BY <2>1, SameRowKeeps
<1>2. CASE j = i
  <2>1. rows'[j] = row
    BY <1>2
  <2>2. ~Awaits(j)'
    BY <1>2, <2>1 DEF Awaits, Open
  <2> QED BY <1>2, <2>1, <2>2 DEF RowKeeps, Credited, Open
<1> QED BY <1>1, <1>2

(* A reservation that is dropped, or left alone.                           *)
LEMMA ReleaseKeeps ==
    ASSUME UNCHANGED write \/ (\E keep : Release(keep))
    PROVE  WriteKeeps
BY DEF Release, NoWrite, WriteKeeps

(* The calls and the dispatches that claim nothing.                        *)
LEMMA CallersKeep ==
    ASSUME IInv, \/ \E mode \in Modes : Accept(mode)
                 \/ \E i \in Ids : AcceptWake(i) \/ Cancel(i) \/ Resume(i)
                 \/ \E t \in Threads : DispatchNothing(t) \/ DispatchEnded(t) \/ DispatchHeld(t)
    PROVE  Keeps
<1>0. rows \in [Ids -> Row]
  BY DEF IInv, TypeOK
<1>1. ASSUME NEW mode \in Modes, Accept(mode) PROVE Keeps
  <2>1. /\ UNCHANGED write /\ UNCHANGED typed /\ WriteKeeps
        /\ rows'[next] = NewRow(mode, "queued")
    BY <1>1, AcceptSteady, ReleaseKeeps DEF Accept
  <2>2. ASSUME NEW i \in Ids, i = next PROVE RowKeeps(i)
    <3>1. rows'[i].state = "queued" /\ ~Credited(rows'[i])
      BY <2>1, <2>2 DEF NewRow, Credited
    <3>2. ~Awaits(i)'
      BY <3>1 DEF Awaits, Open
    <3>3. ~Open(rows[i])
      BY <1>1, <2>2, AcceptSteady DEF Open
    <3> QED BY <2>1, <3>1, <3>2, <3>3 DEF RowKeeps
  <2>3. ASSUME NEW i \in Ids, i # next PROVE RowKeeps(i)
    <3>1. rows'[i] \in {rows[i], [rows[i] EXCEPT !.state = "pruned"]} /\ rows[i] \in Row
      BY <1>0, <1>1, <2>3 DEF Accept
    <3>2. CASE rows'[i] = rows[i]
      BY <2>1, <3>2, SameRowKeeps
    <3>3. CASE rows'[i] = [rows[i] EXCEPT !.state = "pruned"]
      <4>1. /\ rows'[i].state = "pruned" /\ rows'[i].adopted = rows[i].adopted
            /\ rows'[i].completed = rows[i].completed
        BY <3>1, <3>3 DEF Row
      <4>2. ~Awaits(i)'
        BY <4>1 DEF Awaits, Open
      <4>3. rows'[i] = rows[i] \/ Final(rows[i])
        BY <1>1, <2>3, AcceptSteady
      <4>4. rows'[i] # rows[i] => ~Open(rows[i])
        BY <4>3 DEF Final, Open
      <4>5. rows'[i] = rows[i] => ~Open(rows[i])
        BY <4>1 DEF Open
      <4> QED BY <2>1, <4>1, <4>2, <4>4, <4>5 DEF RowKeeps, Credited
    <3> QED BY <3>1, <3>2, <3>3
  <2> QED BY <2>1, <2>2, <2>3 DEF Keeps
<1>2. ASSUME NEW i \in Ids, AcceptWake(i) \/ Cancel(i) \/ Resume(i) PROVE Keeps
  <2>1. UNCHANGED write /\ UNCHANGED typed /\ WriteKeeps /\ rows[i] \in Row
    BY <1>0, <1>2, ReleaseKeeps DEF AcceptWake, Cancel, Resume
  <2>2. CASE AcceptWake(i)
    BY <2>1, <2>2, SameRowKeeps DEF AcceptWake, Keeps
  <2>3. CASE Cancel(i) \/ Resume(i)
    <3> DEFINE row(s) == [rows[i] EXCEPT !.state = s]
    <3>1. /\ rows[i].state # "delivered"
          /\ \E s \in {"cancelled", "queued"} : rows' = [rows EXCEPT ![i] = row(s)]
      BY <2>3 DEF Cancel, Resume
    <3> PICK s \in {"cancelled", "queued"} : rows' = [rows EXCEPT ![i] = row(s)]
      BY <3>1
    <3>2. /\ row(s) \in Row /\ row(s).state = s /\ row(s).adopted = rows[i].adopted
          /\ row(s).completed = rows[i].completed
      BY <2>1 DEF Row, RowStates
    <3> HIDE DEF row
    <3>3. \A j \in Ids : RowKeeps(j)
      BY <1>0, <2>1, <3>1, <3>2, StateKeeps
    <3> QED BY <2>1, <3>3 DEF Keeps
  <2> QED BY <1>2, <2>2, <2>3
<1>3. ASSUME NEW t \in Threads, DispatchNothing(t) \/ DispatchEnded(t) \/ DispatchHeld(t)
      PROVE  Keeps
  <2>1. UNCHANGED write /\ UNCHANGED typed /\ WriteKeeps
    BY <1>3, ReleaseKeeps DEF DispatchNothing, DispatchEnded, DispatchHeld
  <2>2. CASE DispatchNothing(t) \/ DispatchHeld(t)
    BY <2>1, <2>2, SameRowKeeps DEF DispatchNothing, DispatchHeld, Keeps
  <2>3. CASE DispatchEnded(t)
    <3> DEFINE h == Head
               row == [rows[h] EXCEPT !.state = "held"]
    <3>1. /\ rows' = [rows EXCEPT ![h] = row] /\ h \in Ids
          /\ rows[h].state = "queued"
      BY <2>3, HeadIsActive DEF DispatchEnded, Claimable
    <3>2. /\ row \in Row /\ row.state = "held" /\ row.adopted = rows[h].adopted
          /\ row.completed = rows[h].completed
      BY <1>0, <3>1 DEF Row, RowStates
    <3> HIDE DEF row, h
    <3>3. \A j \in Ids : RowKeeps(j)
      BY <1>0, <2>1, <3>1, <3>2, StateKeeps
    <3> QED BY <2>1, <3>3 DEF Keeps
  <2> QED BY <1>3, <2>2, <2>3
<1> QED BY <1>1, <1>2, <1>3

(* The receipts, but for that of a written Enter.                          *)
LEMMA ContinueKeeps ==
    ASSUME IInv, Continue, ~Delivers
    PROVE  Keeps
<1> DEFINE w == write.id
<1>0. rows \in [Ids -> Row] /\ write \in Write
  BY DEF IInv, TypeOK
<1>1. UNCHANGED typed
  BY DEF Continue, Withdrawn, InterruptReceipt, PasteReceipt, Submit, EnterReceipt
<1>2. ASSUME UNCHANGED rows, WriteKeeps PROVE Keeps
  BY <1>1, <1>2, SameRowKeeps DEF Keeps
<1>3. CASE Withdrawn \/ EnterReceipt
  <2>1. WriteKeeps /\ UNCHANGED rows
    BY <1>3, ReleaseKeeps DEF Withdrawn, EnterReceipt, Delivers
  <2> QED BY <1>2, <2>1
<1>4. CASE Submit
  <2>1. UNCHANGED rows /\ write.pc = "settle"
    BY <1>4 DEF Submit, Resumed
  <2>2. CASE Release(FALSE)
    BY <1>2, <2>1, <2>2, ReleaseKeeps
  <2>3. CASE write' = [write EXCEPT !.pc = "enter"]
    <3>1. write'.id = write.id /\ write'.started = write.started
      BY <1>0, <2>3 DEF Write
    <3> QED BY <1>2, <2>1, <3>1 DEF WriteKeeps
  <2> QED BY <1>4, <2>2, <2>3 DEF Submit
<1>5. ASSUME InterruptReceipt \/ (PasteReceipt /\ write' = NoWrite) PROVE Keeps
  <2>0. w \in Ids /\ rows[w] \in Row /\ rows[w].state = "uncertain"
    BY <1>0, <1>5 DEF InterruptReceipt, PasteReceipt, Resumed, Write
  <2>1. write'.id = 0 /\ WriteKeeps
    BY <1>5, ReleaseKeeps DEF InterruptReceipt, Release, NoWrite, WriteKeeps
  <2>2. PICK row \in Row :
          /\ rows' = [rows EXCEPT ![w] = row] /\ row.state # "delivered"
          /\ row.adopted = rows[w].adopted /\ row.completed = rows[w].completed
    <3> DEFINE ready == rows[w].restart_ready \/ write.restart_ready
               sent == [rows[w] EXCEPT !.state = "queued", !.interrupt_sent = TRUE,
                                       !.restart_ready = ready]
               back == Unwritten(rows[w])
    <3>1. ready \in BOOLEAN
      OBVIOUS
    <3>2. back \in Row
      BY <2>0, UnwrittenType
    <3>3. /\ back.state # "delivered" /\ back.adopted = rows[w].adopted
          /\ back.completed = rows[w].completed
      BY <2>0 DEF Unwritten, Row
    <3>4. rows' = [rows EXCEPT ![w] = sent] \/ rows' = [rows EXCEPT ![w] = back]
          \/ rows' = [rows EXCEPT ![w] = rows[w]]
      BY <1>0, <1>5, <2>0 DEF InterruptReceipt, PasteReceipt, NoWrite
    <3> HIDE DEF ready, back
    <3>5. /\ sent \in Row /\ sent.state = "queued" /\ sent.adopted = rows[w].adopted
          /\ sent.completed = rows[w].completed
      BY <2>0, <3>1 DEF Row, RowStates
    <3> HIDE DEF sent
    <3> QED BY <2>0, <3>2, <3>3, <3>4, <3>5
  <2>3. \A i \in Ids : RowKeeps(i)
    <3> HIDE DEF w
    <3>1. write'.id # w
      BY <2>0, <2>1, ConstantTypes
    <3> QED BY <1>0, <1>1, <2>0, <2>1, <2>2, <3>1, StateKeeps
  <2> QED BY <2>1, <2>3 DEF Keeps
<1>6. CASE PasteReceipt /\ write' # NoWrite
  <2>1. UNCHANGED rows /\ write' = [write EXCEPT !.pc = "settle"] /\ write.pc = "paste"
    BY <1>6 DEF PasteReceipt, Release, Resumed
  <2>2. write'.id = write.id /\ write'.started = write.started
    BY <1>0, <2>1 DEF Write
  <2>3. WriteKeeps
    BY <2>1, <2>2 DEF WriteKeeps
  <2> QED BY <1>2, <2>1, <2>3
<1> QED BY <1>3, <1>4, <1>5, <1>6 DEF Continue

(* The stdin writer, and what happens around the queue.                    *)
LEMMA SurroundingsKeep ==
    ASSUME IInv,
           \/ \E outcome \in {"written", "unwritten", "partial"} : PtyWrite(outcome)
           \/ WakeExit \/ RefusalBegins \/ RefusalEnds \/ TurnEndWithheld
           \/ HoldBegins \/ HoldEnds \/ CloseReserved \/ CloseDropped
           \/ SessionExits \/ Crash
           \/ \E event \in HookEvents, prompt \in PromptIds \cup {0} :
                HookStatus(event, prompt)
    PROVE  Keeps
<1>0. rows \in [Ids -> Row] /\ write \in Write /\ typed \in [Ids -> TypedKeys]
  BY DEF IInv, TypeOK
<1>1. CASE Crash
  <2>1. write'.id = 0 /\ WriteKeeps /\ UNCHANGED typed
    BY <1>1 DEF Crash, NoWrite, WriteKeeps
  <2>2. ASSUME NEW i \in Ids PROVE RowKeeps(i)
    <3>1. rows[i] \in Row /\ rows'[i] = Recovered(rows[i]) /\ write'.id # i
      BY <1>0, <1>1, <2>1, ConstantTypes DEF Crash
    <3>2. /\ rows'[i].adopted = rows[i].adopted /\ rows'[i].completed = rows[i].completed
          /\ rows'[i].state = "delivered" <=> rows[i].state = "delivered"
          /\ rows'[i].dispatch_prompt_id = rows[i].dispatch_prompt_id
          /\ rows'[i].request_id = rows[i].request_id
          /\ rows'[i].touched = rows[i].touched
      BY <3>1 DEF Recovered, Row
    <3>3. Awaits(i)' => Awaits(i)
      BY <3>1, <3>2 DEF Awaits, Open
    <3> QED BY <2>1, <3>2, <3>3 DEF RowKeeps, Credited, Open
  <2> QED BY <2>1, <2>2 DEF Keeps
<1>2. ASSUME NEW outcome \in {"written", "unwritten", "partial"}, PtyWrite(outcome)
      PROVE  Keeps
  <2>1. UNCHANGED rows
    BY <1>2 DEF PtyWrite
  <2>2. WriteKeeps
    <3> DEFINE b == write.submitted \/ (write.pc = "enter" /\ outcome = "written")
    <3>1. write' = [write EXCEPT !.submitted = b]
      BY <1>2 DEF PtyWrite
    <3> HIDE DEF b
    <3>2. /\ write'.id = write.id /\ write'.started = write.started
          /\ write'.pc = write.pc
      BY <1>0, <3>1 DEF Write
    <3> QED BY <3>2 DEF WriteKeeps
  <2>3. ASSUME NEW i \in Ids PROVE typed'[i].fresh = typed[i].fresh
    <3>1. typed' = typed \/ typed' = Typed(write.pc)
      BY <1>2 DEF PtyWrite
    <3>2. CASE typed' = Typed(write.pc)
      <4>1. CASE i = write.id
        BY <1>0, <3>2, <4>1 DEF Typed, TypedKeys
      <4>2. CASE i # write.id
        BY <1>0, <3>2, <4>2 DEF Typed
      <4> QED BY <4>1, <4>2
    <3> QED BY <3>1, <3>2
  <2> QED BY <2>1, <2>2, <2>3, SameRowKeeps DEF Keeps
<1>3. CASE ~Crash /\ ~\E outcome \in {"written", "unwritten", "partial"} : PtyWrite(outcome)
  <2>1. UNCHANGED rows /\ UNCHANGED write /\ UNCHANGED typed
    BY <1>3 DEF WakeExit, RefusalBegins, RefusalEnds, TurnEndWithheld, HoldBegins,
           HoldEnds, CloseReserved, CloseDropped, SessionExits, HookStatus,
           SessionBecomes
  <2>2. WriteKeeps
    BY <2>1, ReleaseKeeps
  <2> QED BY <2>1, <2>2, SameRowKeeps DEF Keeps
<1> QED BY <1>1, <1>2, <1>3

(* The kinds of step.                                                      *)
LEMMA RoundSteps ==
    ASSUME IInv, [Next]_vars
    PROVE  \/ Keeps \/ Claims \/ Delivers
           \/ HookDelegation \/ HookLifecycle \/ ExitLifecycle
           \/ \E named \in Nat : NamedHandback(named)
<1>1. ASSUME NEW mode \in Modes, Accept(mode) PROVE Keeps
  BY <1>1, CallersKeep
<1>2. ASSUME NEW i \in Ids, AcceptWake(i) \/ Cancel(i) \/ Resume(i) PROVE Keeps
  BY <1>2, CallersKeep
<1>3. ASSUME NEW t \in Threads, Dispatch(t) PROVE Keeps \/ Claims
  BY <1>3, CallersKeep DEF Dispatch, Claims
<1>4. CASE Continue
  BY <1>4, ContinueKeeps
<1>5. ASSUME NEW named \in 1 .. MaxHooks + MaxInstr + 1, NamedHandback(named)
      PROVE  \E n \in Nat : NamedHandback(n)
  BY <1>5, ConstantsAssumption
<1>6. CASE \/ WakeExit \/ RefusalBegins \/ RefusalEnds \/ TurnEndWithheld
           \/ HoldBegins \/ HoldEnds \/ CloseReserved \/ CloseDropped
           \/ SessionExits \/ Crash
           \/ \E event \in HookEvents, prompt \in PromptIds \cup {0} :
                HookStatus(event, prompt)
           \/ \E outcome \in {"written", "unwritten", "partial"} : PtyWrite(outcome)
  BY <1>6, SurroundingsKeep
<1>7. CASE UNCHANGED vars
  BY <1>7, SameRowKeeps, ReleaseKeeps DEF vars, Keeps
<1> QED BY <1>1, <1>2, <1>3, <1>4, <1>5, <1>6, <1>7 DEF Next

-----------------------------------------------------------------------------
(* Adoption.                                                               *)

(* A row as adoption leaves it: the one adopted is marked, if delivered.   *)
Marked(row, old, chosen) ==
    /\ row.state = old.state
    /\ row.touched = old.touched
    /\ row.request_id = old.request_id
    /\ row.dispatch_prompt_id = old.dispatch_prompt_id
    /\ row.completed = old.completed
    /\ row.adopted <=> old.adopted \/ (chosen /\ old.state = "delivered")

LEMMA AdoptRowsMark ==
    ASSUME NEW rs \in [Ids -> Row], NEW k \in Ids \cup {0}, NEW named, NEW i \in Ids
    PROVE  Marked(AdoptRows(rs, k, named)[i], rs[i], i = k)
<1>1. CASE i # k \/ k = 0
  <2>1. AdoptRows(rs, k, named)[i] = rs[i] /\ i # k
    BY <1>1, ConstantTypes DEF AdoptRows
  <2> QED BY <2>1 DEF Marked
<1>2. CASE i = k /\ k # 0
  <2> DEFINE a == rs[i].adopted \/ rs[i].state = "delivered"
             b == rs[i].named_adoption \/ (Delegated /\ named # 0)
             row == [rs[i] EXCEPT !.adopted = a, !.named_adoption = b]
  <2>1. AdoptRows(rs, k, named)[i] = row
    BY <1>2 DEF AdoptRows, Row
  <2>2. a <=> rs[i].adopted \/ (i = k /\ rs[i].state = "delivered")
    BY <1>2
  <2> HIDE DEF a, b
  <2>3. /\ row.state = rs[i].state /\ row.touched = rs[i].touched
        /\ row.request_id = rs[i].request_id
        /\ row.dispatch_prompt_id = rs[i].dispatch_prompt_id
        /\ row.completed = rs[i].completed /\ row.adopted = a
    BY DEF Row
  <2> HIDE DEF row
  <2> QED BY <2>1, <2>2, <2>3 DEF Marked
<1> QED BY <1>1, <1>2

(* What is adopted was neither adopted nor complete: it is delivered, or   *)
(* it is being written and was started, or named, before its receipt.      *)
LEMMA AdoptedIsNew ==
    ASSUME NEW rs, NEW evidence, NEW named, Adopted(rs, evidence, named) # 0
    PROVE  LET k == Adopted(rs, evidence, named)
           IN /\ k \in Ids /\ ~rs[k].completed /\ ~rs[k].adopted
              /\ \/ rs[k].state = "delivered"
                 \/ /\ rs[k].state = "uncertain" /\ evidence.id = k
                    /\ evidence.started \/ named # 0
BY AdoptedIsInstruction DEF Adoptable

(* The round of the delegation catches up with the number of the adopted.  *)
LEMMA AdoptionCatchesUp ==
    ASSUME NEW rs, NEW k, k # 0, NEW d, d.round \in Nat, rs[k].request_id \in Nat,
           rs[k].request_id <= d.round + 1
    PROVE  rs[k].request_id <= AdoptDelegation(rs, k, d).round
BY DEF AdoptDelegation

(* A row is credited once, when it has been delivered, and the round then  *)
(* is at least its number.                                                 *)
RowCredits(i) ==
    Credited(rows'[i]) /\ ~Credited(rows[i]) =>
        rows'[i].state = "delivered" /\ rows'[i].request_id <= delegation'.round

LEMMA AdoptionCredits ==
    ASSUME TypeOK, ReservedIsReachable, NEW k \in Ids \cup {0}, NEW named,
           rows' = AdoptRows(rows, k, named), NEW d, d.round = delegation.round,
           k # 0 => delegation'.round >= AdoptDelegation(rows, k, d).round,
           delegation'.round \in Nat, NEW i \in Ids
    PROVE  RowCredits(i)
<1>0. rows \in [Ids -> Row] /\ rows[i] \in Row /\ delegation.round \in Nat
  BY DEF TypeOK
<1>1. SUFFICES ASSUME Credited(rows'[i]), ~Credited(rows[i])
               PROVE  rows'[i].state = "delivered" /\ rows'[i].request_id <= delegation'.round
  BY DEF RowCredits
<1> DEFINE rs == rows
<1>2. /\ rows'[i].state = rs[i].state /\ rows'[i].request_id = rs[i].request_id
      /\ i = k /\ rs[i].state = "delivered"
  <2>1. rs \in [Ids -> Row] /\ rows' = AdoptRows(rs, k, named)
    BY <1>0
  <2> HIDE DEF rs
  <2>2. ~Credited(rs[i])
    BY <1>1 DEF rs
  <2>3. Marked(rows'[i], rs[i], i = k)
    BY <2>1, AdoptRowsMark
  <2> QED BY <1>1, <2>2, <2>3 DEF Credited, Marked
<1>3. rows[k].request_id <= delegation.round + 1 /\ rows[k].request_id \in Nat /\ k # 0
  BY <1>0, <1>2, ConstantTypes DEF ReservedIsReachable, Row
<1>4. rows[k].request_id <= AdoptDelegation(rows, k, d).round
  BY <1>0, <1>3, AdoptionCatchesUp
<1>5. AdoptDelegation(rows, k, d).round \in Nat
  BY <1>0, AdoptionGrows
<1> QED BY <1>0, <1>2, <1>3, <1>4, <1>5

(* A turn end completes what was adopted; the end of the pane of a child   *)
(* completes nothing.                                                      *)
LEMMA EndsCredit ==
    ASSUME rows \in [Ids -> Row], NEW event, NEW prompt, NEW i \in Ids
    PROVE  /\ Credited(TurnEndRows(event, prompt)[i]) => Credited(rows[i])
           /\ Delegated /\ Credited(EndedRows[i]) => Credited(rows[i])
<1>0. rows[i] \in Row
  OBVIOUS
<1>1. ASSUME Credited(TurnEndRows(event, prompt)[i]) PROVE Credited(rows[i])
  <2> DEFINE c == rows[i].completed \/ (/\ Open(rows[i]) /\ rows[i].adopted
                                        /\ \/ ~Stale(rows[i], prompt)
                                           \/ rows[i].named_adoption)
             d == rows[i].restart_ready \/ (/\ event # "QuietSettle"
                                            /\ rows[i].state = "queued"
                                            /\ rows[i].interrupt_sent)
             row == [rows[i] EXCEPT !.completed = c, !.restart_ready = d]
  <2>1. TurnEndRows(event, prompt)[i] = row
    BY DEF TurnEndRows
  <2>2. c => rows[i].completed \/ rows[i].adopted
    OBVIOUS
  <2> HIDE DEF c, d
  <2>3. row.completed = c /\ row.adopted = rows[i].adopted
    BY <1>0 DEF Row
  <2> HIDE DEF row
  <2> QED BY <1>1, <2>1, <2>2, <2>3 DEF Credited
<1>2. ASSUME Delegated, Credited(EndedRows[i]) PROVE Credited(rows[i])
  <2>1. /\ EndedRows[i].adopted = rows[i].adopted
        /\ EndedRows[i].completed = rows[i].completed
    BY <1>0, <1>2 DEF EndedRows, Row
  <2> QED BY <1>2, <2>1 DEF Credited
<1> QED BY <1>1, <1>2

(* instruction_lifecycle, when it does not return early.                   *)
Adopter(event, prompt) ==
    LET staleActivity == \E i \in Ids : /\ Open(rows[i]) /\ ~rows[i].adopted
                                        /\ Stale(rows[i], prompt)
        adopts == \/ event = "PromptSubmitted"
                  \/ event = "Activity" /\ Working /\ ~staleActivity
    IN IF adopts THEN Adopted(rows, Evidence(event, prompt), 0) ELSE 0

LEMMA LifecycleActs ==
    ASSUME NEW event, NEW prompt, Lifecycle(event, prompt)
    PROVE  \/ UNCHANGED <<rows, write, delegation, awaiting, typed>>
           \/ /\ write' = AdoptEvidence(rows, Adopter(event, prompt), Evidence(event, prompt))
              /\ delegation' = AdoptDelegation(rows, Adopter(event, prompt), delegation)
              /\ awaiting' = AdoptAwaiting(Adopter(event, prompt))
              /\ typed' = Told(event, prompt)
              /\ \/ /\ event \in {"TurnEnded", "QuietSettle"}
                    /\ rows' = TurnEndRows(event, prompt)
                 \/ /\ event \in {"SessionEnded", "TurnFailed"}
                    /\ rows' = EndedRows
                 \/ /\ event \notin {"TurnEnded", "QuietSettle", "SessionEnded", "TurnFailed"}
                    /\ rows' = AdoptRows(rows, Adopter(event, prompt), 0)
<1>1. CASE UNCHANGED <<rows, write, delegation, awaiting, wake, typed>>
  BY <1>1
<1>2. CASE ~(\/ event # "SessionEnded" /\ session.closing
             \/ Retained = {})
  BY <1>2 DEF Lifecycle, Adopter
<1> QED BY <1>1, <1>2 DEF Lifecycle

-----------------------------------------------------------------------------
(* Request numbers.                                                        *)

(* The columns of a row that a claim leaves alone.                         *)
LEMMA ClaimMarks ==
    ASSUME TypeOK, Claims, NEW i \in Ids
    PROVE  /\ rows'[i].adopted = rows[i].adopted
           /\ rows'[i].completed = rows[i].completed
<1>1. PICK t, pc, request, prompt : BeginWrite(t, Head, pc, request, prompt)
  BY DEF Claims, DispatchInterrupt, DispatchPaste
<1>2. rows \in [Ids -> Row] /\ Head \in Ids /\ rows[i] \in Row
  BY ClaimFacts DEF TypeOK
<1>3. CASE i = Head
  BY <1>1, <1>2, <1>3 DEF BeginWrite, Row
<1>4. CASE i # Head
  BY <1>1, <1>2, <1>4 DEF BeginWrite
<1> QED BY <1>3, <1>4

(* The receipt of a written Enter: what the evidence started is adopted.   *)
Starts == IF write.started THEN Adopted(Sent, write, 0) ELSE 0

LEMMA SentMarks ==
    ASSUME rows \in [Ids -> Row], NEW i \in Ids
    PROVE  /\ Sent[i].adopted = rows[i].adopted
           /\ Sent[i].touched = rows[i].touched
           /\ Sent[i].request_id = rows[i].request_id
           /\ Sent[i].dispatch_prompt_id = rows[i].dispatch_prompt_id
           /\ Sent[i].state = IF i = write.id THEN "delivered" ELSE rows[i].state
           /\ rows[i].completed => Sent[i].completed
           /\ Sent[i].completed => Credited(rows[i])
BY DEF Sent, Row, Credited

LEMMA DeliverMarks ==
    ASSUME TypeOK, Delivers, NEW i \in Ids
    PROVE  /\ Starts \in Ids \cup {0}
           /\ delegation' = AdoptDelegation(Sent, Starts, delegation)
           /\ rows'[i].touched = rows[i].touched
           /\ rows'[i].dispatch_prompt_id = rows[i].dispatch_prompt_id
           /\ rows'[i].adopted => rows[i].adopted \/ i = Starts
           /\ rows'[i].completed => Credited(rows[i]) \/ i = Starts
<1> DEFINE w == write.id
           S == Sent
           k == Starts
           rs == AdoptRows(S, k, 0)
           done == rs[w].completed \/ (/\ write.started /\ write.ended
                                       /\ rs[w].adopted)
<1>1. rows \in [Ids -> Row] /\ w \in Ids
  BY DEF TypeOK, Write, Delivers, EnterReceipt, Resumed
<1>2. rows' = [rs EXCEPT ![w].completed = done]
      /\ delegation' = AdoptDelegation(Sent, k, delegation)
  BY DEF Delivers, EnterReceipt, Starts
<1>3. k \in Ids \cup {0} /\ S \in [Ids -> Row]
  BY <1>1, AdoptedIsInstruction, SentType DEF Starts
<1> HIDE DEF k, S
<1>4. rs \in [Ids -> Row]
  BY <1>3, AdoptRowsType
<1>5. ASSUME NEW j \in Ids
      PROVE  /\ rs[j].touched = rows[j].touched
             /\ rs[j].dispatch_prompt_id = rows[j].dispatch_prompt_id
             /\ rs[j].adopted => rows[j].adopted \/ j = k
             /\ rs[j].completed => Credited(rows[j])
  <2>1. /\ S[j].adopted = rows[j].adopted /\ S[j].touched = rows[j].touched
        /\ S[j].dispatch_prompt_id = rows[j].dispatch_prompt_id
        /\ S[j].completed => Credited(rows[j])
    BY <1>1, SentMarks DEF S
  <2>2. Marked(rs[j], S[j], j = k)
    BY <1>3, AdoptRowsMark
  <2> HIDE DEF rs
  <2> QED BY <2>1, <2>2 DEF Marked
<1>6. done => Credited(rows[w]) \/ w = k
  BY <1>1, <1>5 DEF Credited
<1> HIDE DEF rs, done
<1>7. /\ rows'[i].touched = rs[i].touched
      /\ rows'[i].dispatch_prompt_id = rs[i].dispatch_prompt_id
      /\ rows'[i].adopted = rs[i].adopted
      /\ rows'[i].completed = IF i = w THEN done ELSE rs[i].completed
  <2>1. rs[i] \in Row
    BY <1>4
  <2>2. CASE i = w
    <3>1. rows'[i] = [rs[i] EXCEPT !.completed = done]
      BY <1>2, <1>4, <2>2
    <3> QED BY <2>1, <2>2, <3>1 DEF Row
  <2>3. CASE i # w
    BY <1>2, <1>4, <2>3
  <2> QED BY <2>2, <2>3
<1>8. rows'[i].completed => Credited(rows[i]) \/ i = k
  BY <1>5, <1>6, <1>7
<1> QED BY <1>2, <1>3, <1>5, <1>7, <1>8 DEF k

LEMMA DeliverCredits ==
    ASSUME TypeOK, ReservedIsReachable, Delivers, NEW i \in Ids
    PROVE  RowCredits(i)
<1>1. SUFFICES ASSUME Credited(rows'[i]), ~Credited(rows[i])
               PROVE  rows'[i].state = "delivered" /\ rows'[i].request_id <= delegation'.round
  BY DEF RowCredits
<1>2. rows \in [Ids -> Row] /\ rows[i] \in Row /\ delegation.round \in Nat
  BY DEF TypeOK
<1>3. i = Starts /\ i # 0 /\ delegation' = AdoptDelegation(Sent, i, delegation)
  BY <1>1, DeliverMarks, ConstantTypes DEF Credited
<1>4. Sent[i].request_id = rows[i].request_id /\ rows[i].request_id \in Nat
      /\ rows[i].request_id <= delegation.round + 1
  BY <1>2, SentMarks DEF ReservedIsReachable, Row
<1>5. rows[i].request_id <= delegation'.round
  BY <1>2, <1>3, <1>4, AdoptionCatchesUp
<1>6. Sent[i].state \in {"delivered", "uncertain"} /\ (Sent[i].state = "uncertain" => i = write.id)
  BY <1>3, AdoptedIsNew DEF Starts
<1>7. /\ rows'[i].state = IF i = write.id THEN "delivered" ELSE rows[i].state
      /\ rows'[i].request_id = rows[i].request_id
  BY DeliverSteady
<1>8. rows'[i].state = "delivered"
  BY <1>2, <1>6, <1>7, SentMarks
<1> QED BY <1>5, <1>7, <1>8

(* A credited row has been delivered, and its number is not past the round *)
(* of the child.                                                           *)
RoundInv ==
    \A i \in Ids : Credited(rows[i]) => /\ rows[i].state \in {"delivered", "pruned"}
                                        /\ rows[i].request_id <= delegation.round

(* Every step of a child credits what was delivered.                       *)
LEMMA StepCredits ==
    ASSUME IInv, ReservedIsReachable, Delegated, [Next]_vars, NEW i \in Ids
    PROVE  RowCredits(i)
<1>0. /\ TypeOK /\ rows \in [Ids -> Row] /\ delegation.round \in Nat
      /\ delegation'.round \in Nat /\ delegation \in DelegationType
  BY NextType DEF IInv, TypeOK, DelegationType
<1>1. CASE Keeps
  BY <1>1 DEF Keeps, RowKeeps, RowCredits
<1>2. CASE Claims
  BY <1>0, <1>2, ClaimMarks DEF RowCredits, Credited
<1>3. CASE Delivers
  BY <1>0, <1>3, DeliverCredits
<1>4. CASE UNCHANGED rows
  BY <1>4 DEF RowCredits
<1>5. CASE HookDelegation /\ ~UNCHANGED rows
  <2> DEFINE k == Adopted(rows, write, 0)
             d == [delegation EXCEPT !.state = "working"]
  <2>1. OpenRound(delegation.state)
    BY <1>5 DEF HookDelegation
  <2>2. rows' = AdoptRows(rows, k, 0) /\ delegation' = AdoptDelegation(rows, k, d)
    BY <1>5, <2>1 DEF OpenRound
  <2>3. k \in Ids \cup {0}
    BY AdoptedIsInstruction
  <2>4. d.round = delegation.round
    BY <1>0 DEF DelegationType
  <2> HIDE DEF k, d
  <2>5. delegation'.round >= AdoptDelegation(rows, k, d).round
    BY <1>0, <2>2
  <2> QED BY <1>0, <2>2, <2>3, <2>4, <2>5, AdoptionCredits
<1>6. CASE HookLifecycle \/ ExitLifecycle
  <2>1. PICK event, prompt : Lifecycle(event, prompt)
    BY <1>6 DEF HookLifecycle, ExitLifecycle
  <2>2. CASE rows' = TurnEndRows(event, prompt) \/ rows' = EndedRows
    BY <1>0, <2>2, EndsCredit DEF RowCredits
  <2>3. ASSUME rows' = AdoptRows(rows, Adopter(event, prompt), 0),
               delegation' = AdoptDelegation(rows, Adopter(event, prompt), delegation)
        PROVE  RowCredits(i)
    <3> DEFINE k == Adopter(event, prompt)
    <3>1. k \in Ids \cup {0}
      BY AdoptedIsInstruction DEF Adopter
    <3> HIDE DEF k
    <3>2. rows' = AdoptRows(rows, k, 0) /\ delegation' = AdoptDelegation(rows, k, delegation)
      BY <2>3 DEF k
    <3>3. delegation'.round >= AdoptDelegation(rows, k, delegation).round
      BY <1>0, <3>2
    <3> QED BY <1>0, <3>1, <3>2, <3>3, AdoptionCredits
  <2> QED BY <1>4, <2>1, <2>2, <2>3, LifecycleActs
<1>7. ASSUME NEW named \in Nat, NamedHandback(named) PROVE RowCredits(i)
  <2> DEFINE k == Adopted(rows, write, named)
             d == AdoptDelegation(rows, k, delegation)
  <2>1. k \in Ids \cup {0}
    BY AdoptedIsInstruction
  <2>2. rows' = AdoptRows(rows, k, named)
        /\ (delegation' = d \/ delegation' = [d EXCEPT !.round = @ + 1])
    BY <1>7 DEF NamedHandback
  <2> HIDE DEF k
  <2>3. d \in DelegationType
    BY <1>0, AdoptDelegationType
  <2>4. delegation'.round >= d.round
    <3> HIDE DEF d
    <3>1. d.round \in Nat /\ [d EXCEPT !.round = @ + 1].round = d.round + 1
      BY <2>3 DEF DelegationType
    <3>2. delegation'.round \in {d.round, d.round + 1}
      BY <2>2, <3>1, Zenon
    <3> QED BY <3>1, <3>2
  <2> QED BY <1>0, <2>1, <2>2, <2>4, AdoptionCredits
<1> QED BY <1>1, <1>2, <1>3, <1>4, <1>5, <1>6, <1>7, RoundSteps

LEMMA InitRounds == Init => RoundInv
BY DEF Init, NewRow, RoundInv, Credited

LEMMA RoundStep ==
    ASSUME IInv, ReservedIsReachable, RoundInv, Delegated, [Next]_vars
    PROVE  RoundInv'
<1> SUFFICES ASSUME NEW i \in Ids, Credited(rows'[i])
             PROVE  /\ rows'[i].state \in {"delivered", "pruned"}
                    /\ rows'[i].request_id <= delegation'.round
  BY DEF RoundInv
<1>0. /\ TypeOK /\ delegation.round \in Nat /\ delegation'.round \in Nat
      /\ rows[i] \in Row /\ delegation'.round >= delegation.round
  BY NextType, RoundGrows DEF IInv, TypeOK
<1>1. CASE ~Credited(rows[i])
  BY <1>1, StepCredits DEF RowCredits
<1>2. CASE Credited(rows[i])
  <2>1. /\ rows[i].state \in {"delivered", "pruned"}
        /\ rows[i].request_id <= delegation.round /\ rows[i].request_id \in Nat
    BY <1>0, <1>2 DEF RoundInv, Row
  <2>2. /\ rows'[i].state \in {"delivered", "pruned"}
        /\ rows'[i].request_id \in {rows[i].request_id, 0}
    <3>1. CASE Steady
      BY <2>1, <3>1 DEF Steady, RowSteady
    <3>2. CASE Claims
      <4>1. i # Head
        BY <1>0, <2>1, <3>2, ClaimSteady
      <4> QED BY <1>0, <2>1, <3>2, <4>1, ClaimSteady
    <3>3. CASE Delivers
      <4>1. i # write.id
        BY <1>0, <2>1, <3>3, DeliverSteady
      <4> QED BY <1>0, <2>1, <3>3, <4>1, DeliverSteady
    <3>4. ASSUME NEW mode \in Modes, Accept(mode)
          PROVE  /\ rows'[i].state \in {"delivered", "pruned"}
                 /\ rows'[i].request_id \in {rows[i].request_id, 0}
      <4>1. i # next
        BY <2>1, <3>4, AcceptSteady
      <4> QED BY <2>1, <3>4, <4>1, AcceptSteady
    <3> QED BY <1>0, <3>1, <3>2, <3>3, <3>4, TurnSteps
  <2> QED BY <1>0, <2>1, <2>2
<1> QED BY <1>1, <1>2

(* A claim of a prompt finds every delivered row credited, so that it      *)
(* reserves a number beyond all of theirs: the next of the round.          *)
LEMMA ClaimIncreases ==
    ASSUME IInv, OpenInv, RoundInv, Delegated, [Next]_vars,
           NEW i \in Ids, NEW j \in Ids, rows[i].state = "delivered",
           write.id = 0, write'.id = j, write'.pc = "paste"
    PROVE  \/ rows[i].request_id < rows'[j].request_id
           \/ /\ delegation.state = "spawning"
              /\ rows[i].request_id = rows'[j].request_id
<1>0. /\ TypeOK /\ j # 0 /\ rows \in [Ids -> Row] /\ rows[i] \in Row
      /\ delegation.round \in Nat
  BY ConstantTypes DEF IInv, TypeOK
<1>1. Claims
  <2>1. ~Quiet
    BY <1>0 DEF Quiet, WriteQuiet
  <2>2. ~Submit
    BY DEF Submit, Resumed
  <2>3. ASSUME NEW mode \in Modes, Accept(mode) PROVE FALSE
    BY <1>0, <2>3 DEF Accept
  <2> QED BY <1>0, <2>1, <2>2, <2>3, StepKinds
<1>2. PICK t \in Threads : DispatchPaste(t)
  <2>1. PICK t \in Threads : DispatchInterrupt(t) \/ DispatchPaste(t)
    BY <1>1 DEF Claims
  <2>2. ~DispatchInterrupt(t)
    BY DEF DispatchInterrupt, BeginWrite, NoWrite
  <2> QED BY <2>1, <2>2
<1>3. Head = j /\ rows[Head].state = "queued" /\ ActiveIds # {} /\ rows[j] \in Row
  BY <1>0, <1>1, <1>2, ClaimFacts DEF DispatchPaste, Claimable
<1>4. rows'[j].request_id = RequestOf
  BY <1>0, <1>2, <1>3 DEF DispatchPaste, BeginWrite, Row
<1>5. Credited(rows[i])
  BY <1>0, <1>3, HeadPasses DEF Open, Credited
<1>6. rows[i].request_id <= delegation.round /\ rows[i].request_id \in Nat
  BY <1>0, <1>5 DEF RoundInv, Row
<1>7. RequestOf = IF delegation.state = "spawning" THEN delegation.round
                  ELSE delegation.round + 1
  BY DEF RequestOf
<1> QED BY <1>0, <1>4, <1>6, <1>7

(* A request number is given out once, whatever is typed into a child      *)
(* meanwhile, whatever it hands back and in whatever order its hooks and   *)
(* the writer's receipts come: what an instruction reserves is beyond the  *)
(* number of every delivered one, but for a child that is still spawning.  *)
THEOREM RequestsAreFresh == Spec => RequestsIncrease
<1> DEFINE Rounds == Delegated => RoundInv
           Increases(i, j) ==
             /\ Delegated /\ rows[i].state = "delivered"
             /\ write.id = 0 /\ write'.id = j /\ write'.pc = "paste"
             => \/ rows[i].request_id < rows'[j].request_id
                \/ /\ delegation.state = "spawning"
                   /\ rows[i].request_id = rows'[j].request_id
<1>1. Init => Rounds
  BY InitRounds
<1>2. IInv /\ ReservedIsReachable /\ Rounds /\ [Next]_vars => Rounds'
  BY RoundStep
<1>3. ASSUME IInv, OpenInv, Rounds, [Next]_vars, NEW i \in Ids, NEW j \in Ids
      PROVE  Increases(i, j)
  BY <1>3, ClaimIncreases
<1>4. IInv /\ OpenInv /\ Rounds /\ [Next]_vars
        => [\A i, j \in Ids : Increases(i, j)]_vars
  BY <1>3
<1> HIDE DEF Rounds
<1> QED BY <1>1, <1>2, <1>4, Invariance, OpenHolds, RequestsReachable, PTL
        DEF Spec, RequestsIncrease

-----------------------------------------------------------------------------
(* Completion.  A prompt that the agent was on when an instruction was     *)
(* claimed is its dispatch prompt; until the agent is seen on another, or  *)
(* its request is named, nothing may credit the instruction.  A prompt     *)
(* hook is applied in three steps: from the first, which remembers its     *)
(* prompt, until the second, what awaits its start is about to be told.    *)

Prompting == hook.pc # "idle" /\ hook.event = "PromptSubmitted"

(* A hook that names no prompt, or another than the row was claimed on.    *)
News(row, prompt) == prompt = 0 \/ prompt # row.dispatch_prompt_id

Unstarted(i) ==
    Awaits(i) /\ ~typed[i].fresh =>
        IF Prompting THEN hook.pc = "delegation" /\ News(rows[i], hook.prompt)
        ELSE rows[i].dispatch_prompt_id = lastPrompt

CreditFresh(i) ==
    /\ Credited(rows[i]) => typed[i].fresh
    /\ write.id = i /\ write.started => typed[i].fresh
    /\ rows[i].state = "delivered" => rows[i].touched

FreshRow(i) == Unstarted(i) /\ CreditFresh(i)

(* While a prompt hook is applied the pane works: nothing but a steer is   *)
(* claimed.                                                                *)
FreshInv == /\ Prompting => session.status = "working"
            /\ \A i \in Ids : FreshRow(i) /\ rows[i].mode # "steer"

(* What a step does to a row, short of a claim.                            *)
RowGoes(i) ==
    /\ CreditFresh(i)'
    /\ Awaits(i)' => /\ Awaits(i)
                     /\ rows'[i].dispatch_prompt_id = rows[i].dispatch_prompt_id
    /\ typed[i].fresh => typed'[i].fresh

HookKept == /\ hook'.pc = hook.pc /\ hook'.event = hook.event
            /\ hook'.prompt = hook.prompt /\ lastPrompt' = lastPrompt
            /\ session'.status = session.status \/ hook.pc = "idle"

LEMMA GoesFresh ==
    ASSUME NEW i \in Ids, FreshRow(i), RowGoes(i), HookKept
    PROVE  FreshRow(i)'
<1>1. Prompting' <=> Prompting
  BY DEF HookKept, Prompting
<1>2. Unstarted(i)'
  BY <1>1 DEF FreshRow, Unstarted, RowGoes, HookKept, News
<1> QED BY <1>2 DEF FreshRow, RowGoes

LEMMA KeepsGoes ==
    ASSUME NEW i \in Ids, FreshRow(i), Keeps
    PROVE  RowGoes(i)
<1>1. i # 0
  BY ConstantTypes
<1>2. RowKeeps(i)
  BY DEF Keeps
<1>3. write'.id = i => write.id = i /\ write'.started = write.started
  BY <1>1 DEF Keeps, WriteKeeps
<1>4. CreditFresh(i)'
  BY <1>2, <1>3 DEF FreshRow, CreditFresh, RowKeeps
<1> QED BY <1>2, <1>4 DEF RowGoes, RowKeeps

(* The hook in progress, and the prompt the pane is on.                    *)
LEMMA HookSteps ==
    ASSUME TypeOK, "crash" \notin Disturbances, [Next]_vars
    PROVE  \/ HookKept \/ HookDelegation \/ HookLifecycle
           \/ \E event \in HookEvents, prompt \in PromptIds \cup {0} :
                HookStatus(event, prompt)
<1>0. /\ session \in [live : BOOLEAN, closing : BOOLEAN, hold : BOOLEAN,
                      status : {"idle", "working", "owed", "needs_input"}]
      /\ hook \in [pc : {"idle", "delegation", "lifecycle"},
                   event : AgentEvents, prompt : Nat, seen : Nat]
  BY DEF TypeOK
<1>1. CASE UNCHANGED <<hook, lastPrompt, session>>
  BY <1>1 DEF HookKept
<1>2. CASE \/ \E mode \in Modes : Accept(mode)
           \/ \E i \in Ids : AcceptWake(i) \/ Cancel(i) \/ Resume(i)
           \/ \E outcome \in {"written", "unwritten", "partial"} : PtyWrite(outcome)
           \/ WakeExit \/ RefusalBegins \/ RefusalEnds \/ ExitLifecycle
  BY <1>1, <1>2 DEF Accept, AcceptWake, Cancel, Resume, PtyWrite, WakeExit,
     RefusalBegins, RefusalEnds, ExitLifecycle
<1>3. CASE \E t \in Threads : Dispatch(t)
  BY <1>1, <1>3 DEF Dispatch, DispatchNothing, DispatchEnded, DispatchHeld,
     DispatchInterrupt, DispatchPaste, BeginWrite
<1>4. CASE Continue
  BY <1>1, <1>4 DEF Continue, Withdrawn, InterruptReceipt, PasteReceipt, Submit,
     EnterReceipt
<1>5. ASSUME NEW named, NamedHandback(named) PROVE HookKept
  <2> DEFINE h == [hook EXCEPT !.seen = @ + 1]
  <2>1. hook' = h /\ UNCHANGED <<lastPrompt, session>>
    BY <1>5 DEF NamedHandback
  <2>2. h.pc = hook.pc /\ h.event = hook.event /\ h.prompt = hook.prompt
    BY <1>0
  <2> HIDE DEF h
  <2> QED BY <2>1, <2>2 DEF HookKept
<1>6. CASE \/ TurnEndWithheld \/ HoldBegins \/ HoldEnds \/ CloseReserved
           \/ CloseDropped \/ SessionExits
  <2>1. hook.pc = "idle" \/ session'.status = session.status
    BY <1>0, <1>6 DEF TurnEndWithheld, HoldBegins, HoldEnds, CloseReserved,
       CloseDropped, SessionExits, SessionBecomes
  <2>2. UNCHANGED <<hook, lastPrompt>>
    BY <1>6 DEF TurnEndWithheld, HoldBegins, HoldEnds, CloseReserved,
       CloseDropped, SessionExits, SessionBecomes
  <2> QED BY <2>1, <2>2 DEF HookKept
<1>7. ~Crash
  BY DEF Crash, Disturbed
<1>8. CASE UNCHANGED vars
  BY <1>1, <1>8 DEF vars
<1> QED BY <1>2, <1>3, <1>4, <1>5, <1>6, <1>7, <1>8 DEF Next

(* What the hooks told of a start is kept; a prompt or an activity that is *)
(* news to a claimed row is told of it.                                    *)
LEMMA ToldFresh ==
    ASSUME typed \in [Ids -> TypedKeys], NEW event, NEW prompt, NEW i \in Ids
    PROVE  /\ typed[i].fresh => Told(event, prompt)[i].fresh
           /\ /\ event \in {"PromptSubmitted", "Activity"}
              /\ rows[i].touched /\ News(rows[i], prompt)
              => Told(event, prompt)[i].fresh
<1> DEFINE a == typed[i].idle \/ (/\ event = "TurnEnded"
                                  /\ \/ rows[i].interrupt_sent
                                     \/ write.id = i /\ write.pc = "interrupt")
           b == typed[i].fresh \/ (/\ event \in {"PromptSubmitted", "Activity"}
                                   /\ rows[i].touched
                                   /\ \/ prompt = 0
                                      \/ prompt # rows[i].dispatch_prompt_id)
<1>1. Told(event, prompt)[i] = [typed[i] EXCEPT !.idle = a, !.fresh = b]
  BY DEF Told
<1>2. /\ typed[i].fresh => b
      /\ /\ event \in {"PromptSubmitted", "Activity"}
         /\ rows[i].touched /\ News(rows[i], prompt)
         => b
  BY DEF News
<1>3. typed[i] \in TypedKeys
  OBVIOUS
<1> HIDE DEF a, b
<1>4. [typed[i] EXCEPT !.idle = a, !.fresh = b].fresh = b
  BY <1>3 DEF TypedKeys
<1> QED BY <1>1, <1>2, <1>4

(* Evidence that a write was started is news to its row.                   *)
LEMMA EvidenceFresh ==
    ASSUME write \in Write, NEW event, NEW prompt, Evidence(event, prompt).started,
           ~write.started
    PROVE  /\ write.id # 0 /\ rows[write.id].state = "uncertain"
           /\ event \in {"PromptSubmitted", "Activity"}
           /\ News(rows[write.id], prompt)
<1> DEFINE row == rows[write.id]
           correlated == /\ row.dispatch_prompt_id # 0 /\ prompt # 0
                         /\ row.dispatch_prompt_id # prompt
           proven == ~Stale(row, prompt) /\ (write.submitted \/ correlated)
           c == write.ended \/ (/\ write.started
                                /\ proven \/ (/\ write.submitted /\ row.named_adoption))
           d == write.restart_ready \/ event # "QuietSettle"
           a == write.started \/ proven
           b == write.started \/ (proven /\ Working)
<1>1. write.id # 0 /\ row.state = "uncertain"
  BY DEF Evidence
<1>2. Evidence(event, prompt) =
         CASE event = "PromptSubmitted" -> [write EXCEPT !.started = a]
           [] event = "Activity" -> [write EXCEPT !.started = b]
           [] event \in {"TurnEnded", "QuietSettle"} ->
                [write EXCEPT !.ended = c, !.restart_ready = d]
           [] event = "SessionEnded" -> [write EXCEPT !.session_ended = TRUE]
           [] OTHER -> write
  BY <1>1 DEF Evidence
<1>3. a \/ b => News(row, prompt)
  BY DEF Stale, News
<1> HIDE DEF a, b, c, d, row
<1>4. /\ [write EXCEPT !.started = a].started = a
      /\ [write EXCEPT !.started = b].started = b
      /\ [write EXCEPT !.ended = c, !.restart_ready = d].started = write.started
      /\ [write EXCEPT !.session_ended = TRUE].started = write.started
  BY DEF Write
<1>5. event \in {"PromptSubmitted", "Activity"}
  BY <1>2, <1>4
<1>6. CASE event = "PromptSubmitted"
  BY <1>1, <1>2, <1>3, <1>4, <1>5, <1>6 DEF row
<1>7. CASE event = "Activity"
  BY <1>1, <1>2, <1>3, <1>4, <1>5, <1>7 DEF row
<1> QED BY <1>5, <1>6, <1>7

(* Adoption of a row that was started, or named.                           *)
LEMMA AdoptionGoes ==
    ASSUME rows \in [Ids -> Row], NEW k \in Ids \cup {0}, NEW named,
           NEW e \in Write, e.id = write.id, e.pc = write.pc,
           rows' = AdoptRows(rows, k, named), write' = AdoptEvidence(rows, k, e),
           k # 0 => /\ typed'[k].fresh
                    /\ rows[k].state = "uncertain" => e.id = k,
           NEW i \in Ids, FreshRow(i), typed[i].fresh => typed'[i].fresh,
           e.id = i /\ e.started => typed'[i].fresh
    PROVE  RowGoes(i)
<1>1. Marked(rows'[i], rows[i], i = k)
  <2> DEFINE rs == rows
  <2>1. rs \in [Ids -> Row] /\ rows' = AdoptRows(rs, k, named)
    OBVIOUS
  <2> HIDE DEF rs
  <2>2. Marked(rows'[i], rs[i], i = k)
    BY <2>1, AdoptRowsMark
  <2> QED BY <2>2 DEF rs
<1>2. /\ write'.id = write.id /\ write'.pc = write.pc
      /\ write'.started => e.started \/ (k # 0 /\ rows[k].state = "uncertain")
  BY AdoptEvidenceKeeps DEF AdoptEvidence
<1>3. i # 0
  BY ConstantTypes
<1>4. Credited(rows'[i]) => typed'[i].fresh
  BY <1>1, <1>3 DEF Marked, Credited, FreshRow, CreditFresh
<1>5. write'.id = i /\ write'.started => typed'[i].fresh
  BY <1>2
<1>6. rows'[i].state = "delivered" => rows'[i].touched
  BY <1>1 DEF Marked, FreshRow, CreditFresh
<1>7. Awaits(i)' => Awaits(i)
  BY <1>1, <1>2 DEF Marked, Awaits, Open
<1>8. rows'[i].dispatch_prompt_id = rows[i].dispatch_prompt_id
  BY <1>1 DEF Marked
<1> QED BY <1>4, <1>5, <1>6, <1>7, <1>8 DEF RowGoes, CreditFresh

(* A turn end, and the end of the pane, set aside what is queued and keep  *)
(* the other columns.                                                      *)
LEMMA EndsMark ==
    ASSUME rows \in [Ids -> Row], NEW i \in Ids, Delegated, NEW event, NEW prompt,
           rows' = TurnEndRows(event, prompt) \/ rows' = EndedRows
    PROVE  /\ rows'[i].touched = rows[i].touched
           /\ rows'[i].dispatch_prompt_id = rows[i].dispatch_prompt_id
           /\ rows'[i].request_id = rows[i].request_id
           /\ rows'[i].adopted = rows[i].adopted
           /\ rows[i].completed => rows'[i].completed
           /\ rows'[i].state # rows[i].state => rows[i].state = "queued"
           /\ rows'[i].state = "delivered" => rows[i].state = "delivered"
<1>0. rows[i] \in Row
  OBVIOUS
<1>1. CASE rows' = TurnEndRows(event, prompt)
  <2> DEFINE c == rows[i].completed \/ (/\ Open(rows[i]) /\ rows[i].adopted
                                        /\ \/ ~Stale(rows[i], prompt)
                                           \/ rows[i].named_adoption)
             d == rows[i].restart_ready \/ (/\ event # "QuietSettle"
                                            /\ rows[i].state = "queued"
                                            /\ rows[i].interrupt_sent)
             row == [rows[i] EXCEPT !.completed = c, !.restart_ready = d]
  <2>1. rows'[i] = row
    BY <1>1 DEF TurnEndRows
  <2>2. rows[i].completed => c
    OBVIOUS
  <2> HIDE DEF c, d
  <2>3. /\ row.touched = rows[i].touched /\ row.adopted = rows[i].adopted
        /\ row.dispatch_prompt_id = rows[i].dispatch_prompt_id
        /\ row.completed = c /\ row.state = rows[i].state
        /\ row.request_id = rows[i].request_id
    BY <1>0 DEF Row
  <2> HIDE DEF row
  <2> QED BY <2>1, <2>2, <2>3
<1>2. CASE rows' = EndedRows
  <2> DEFINE s == IF rows[i].touched THEN "uncertain" ELSE "held"
             row == [rows[i] EXCEPT !.state = s]
  <2>1. rows'[i] = IF rows[i].state = "queued" THEN row ELSE rows[i]
    BY <1>2 DEF EndedRows
  <2>2. s # "delivered"
    OBVIOUS
  <2> HIDE DEF s
  <2>3. /\ row.touched = rows[i].touched /\ row.adopted = rows[i].adopted
        /\ row.dispatch_prompt_id = rows[i].dispatch_prompt_id
        /\ row.completed = rows[i].completed /\ row.state = s
        /\ row.request_id = rows[i].request_id
    BY <1>0 DEF Row
  <2> HIDE DEF row
  <2> QED BY <2>1, <2>2, <2>3
<1> QED BY <1>1, <1>2

(* A turn end, and the end of the pane of a child.                         *)
LEMMA EndsGo ==
    ASSUME IInv, NEW i \in Ids, FreshRow(i), Delegated, NEW event, NEW prompt,
           rows' = TurnEndRows(event, prompt) \/ rows' = EndedRows,
           write'.id = write.id, write'.pc = write.pc,
           typed[i].fresh => typed'[i].fresh,
           write'.id = i /\ write'.started => typed'[i].fresh
    PROVE  RowGoes(i)
<1>0. rows \in [Ids -> Row] /\ rows[i] \in Row /\ i # 0
  BY ConstantTypes DEF IInv, TypeOK
<1>1. Credited(rows'[i]) => Credited(rows[i])
  BY <1>0, EndsCredit
<1>2. /\ rows'[i].touched = rows[i].touched
      /\ rows'[i].dispatch_prompt_id = rows[i].dispatch_prompt_id
      /\ rows'[i].adopted = rows[i].adopted
      /\ rows[i].completed => rows'[i].completed
      /\ rows'[i].state # rows[i].state => rows[i].state = "queued"
      /\ rows'[i].state = "delivered" => rows[i].state = "delivered"
  BY <1>0, EndsMark
<1>3. write.id = i => rows[i].state # "queued"
  BY <1>0 DEF IInv, WriteInv, Claim
<1>4. Awaits(i)' => Awaits(i)
  BY <1>2, <1>3 DEF Awaits, Open
<1>5. CreditFresh(i)'
  BY <1>1, <1>2 DEF FreshRow, CreditFresh
<1> QED BY <1>2, <1>4, <1>5 DEF RowGoes

(* A row that a step leaves alone.                                         *)
LEMMA SameRowGoes ==
    ASSUME UNCHANGED <<rows, write>>, NEW i \in Ids, FreshRow(i),
           typed[i].fresh => typed'[i].fresh
    PROVE  RowGoes(i)
<1>1. Awaits(i)' => Awaits(i)
  BY DEF Awaits
<1> QED BY <1>1 DEF FreshRow, CreditFresh, RowGoes

(* A row that awaits its start has been marked by its claim.               *)
LEMMA AwaitsTouched ==
    ASSUME IInv, NEW i \in Ids, FreshRow(i), Awaits(i)
    PROVE  rows[i].touched
BY DEF IInv, RowInv, UncertainIsTouched, FreshRow, CreditFresh, Awaits, Open

(* advance_delegation: a prompt hook tells every row that awaits its start *)
(* of it, before it adopts one.                                            *)
LEMMA DelegationFresh ==
    ASSUME IInv, FreshInv, HookDelegation, NEW i \in Ids
    PROVE  FreshRow(i)' /\ (Prompting' => session'.status = "working")
<1>0. /\ TypeOK /\ rows \in [Ids -> Row] /\ write \in Write
      /\ typed \in [Ids -> TypedKeys] /\ 0 \notin Ids
      /\ \A j \in Ids : FreshRow(j)
  BY ConstantTypes DEF IInv, TypeOK, FreshInv
<1>1. /\ hook.pc = "delegation" /\ hook'.pc = "lifecycle" /\ hook'.event = hook.event
      /\ hook'.prompt = hook.prompt /\ UNCHANGED <<lastPrompt, session>>
  BY <1>0 DEF HookDelegation, TypeOK
<1>2. /\ Prompting <=> hook.event = "PromptSubmitted"
      /\ Prompting' <=> hook.event = "PromptSubmitted"
  BY <1>1 DEF Prompting
<1>3. Prompting' => session'.status = "working"
  BY <1>1, <1>2 DEF FreshInv
<1>4. ASSUME NEW j \in Ids PROVE typed[j].fresh => typed'[j].fresh
  <2>1. typed' = typed \/ typed' = Told(hook.event, hook.prompt)
    BY DEF HookDelegation
  <2> QED BY <1>0, <2>1, ToldFresh
<1>5. CASE hook.event # "PromptSubmitted"
  <2>1. UNCHANGED <<rows, write>> /\ typed' = typed
    BY <1>5 DEF HookDelegation
  <2>2. RowGoes(i)
    BY <1>0, <1>4, <2>1, SameRowGoes
  <2>3. Unstarted(i)'
    BY <1>0, <1>1, <1>2, <1>5, <2>1, <2>2 DEF FreshRow, Unstarted, RowGoes
  <2> QED BY <1>3, <2>2, <2>3 DEF FreshRow, RowGoes
<1>6. CASE hook.event = "PromptSubmitted"
  <2>1. ASSUME NEW j \in Ids, Awaits(j) PROVE typed'[j].fresh
    <3>1. typed[j].fresh \/ News(rows[j], hook.prompt)
      BY <1>0, <1>2, <1>6, <2>1 DEF FreshRow, Unstarted
    <3>2. rows[j].touched
      BY <1>0, <2>1, AwaitsTouched
    <3>3. typed' = Told(hook.event, hook.prompt)
      BY <1>6 DEF HookDelegation
    <3> QED BY <1>0, <1>6, <3>1, <3>2, <3>3, ToldFresh
  <2>2. RowGoes(i)
    <3>1. CASE UNCHANGED <<rows, write>>
      BY <1>0, <1>4, <3>1, SameRowGoes
    <3>2. CASE ~UNCHANGED <<rows, write>>
      <4> DEFINE k == Adopted(rows, write, 0)
      <4>1. OpenRound(delegation.state)
        BY <3>2 DEF HookDelegation
      <4>2. /\ rows' = AdoptRows(rows, k, 0) /\ write' = AdoptEvidence(rows, k, write)
            /\ k # 0
        BY <3>2, <4>1 DEF OpenRound
      <4>3. /\ k \in Ids /\ ~rows[k].completed /\ ~rows[k].adopted
            /\ \/ rows[k].state = "delivered"
               \/ rows[k].state = "uncertain" /\ write.id = k /\ write.started
        BY <4>2, AdoptedIsNew
      <4> HIDE DEF k
      <4>4. typed'[k].fresh
        <5>1. CASE rows[k].state = "delivered"
          BY <2>1, <4>3, <5>1 DEF Awaits, Open
        <5>2. CASE write.id = k /\ write.started
          BY <1>0, <1>4, <4>3, <5>2 DEF FreshRow, CreditFresh
        <5> QED BY <4>3, <5>1, <5>2
      <4>5. write.id = i /\ write.started => typed'[i].fresh
        BY <1>0, <1>4 DEF FreshRow, CreditFresh
      <4>6. rows[k].state = "uncertain" => write.id = k
        BY <4>3
      <4> QED BY <1>0, <1>4, <4>2, <4>3, <4>4, <4>5, <4>6, AdoptionGoes
    <3> QED BY <3>1, <3>2
  <2>3. Unstarted(i)'
    BY <2>1, <2>2 DEF Unstarted, RowGoes
  <2> QED BY <1>3, <2>2, <2>3 DEF FreshRow, RowGoes
<1> QED BY <1>5, <1>6

(* instruction_lifecycle: what it adopts was told of its start before, or  *)
(* is by this very event.                                                  *)
LEMMA LifecycleGoes ==
    ASSUME IInv, FreshInv, Delegated, NEW event, NEW prompt, Lifecycle(event, prompt),
           event = "PromptSubmitted" => Prompting /\ hook.pc = "lifecycle",
           NEW i \in Ids
    PROVE  RowGoes(i)
<1> DEFINE k == Adopter(event, prompt)
           e == Evidence(event, prompt)
<1>0. /\ TypeOK /\ rows \in [Ids -> Row] /\ write \in Write
      /\ typed \in [Ids -> TypedKeys] /\ 0 \notin Ids
      /\ \A j \in Ids : FreshRow(j)
  BY ConstantTypes DEF IInv, TypeOK, FreshInv
<1>1. CASE UNCHANGED <<rows, write, delegation, awaiting, typed>>
  BY <1>0, <1>1, SameRowGoes
<1>2. CASE ~UNCHANGED <<rows, write, delegation, awaiting, typed>>
  <2>1. /\ write' = AdoptEvidence(rows, k, e) /\ typed' = Told(event, prompt)
        /\ \/ /\ event \notin {"PromptSubmitted", "Activity"}
              /\ rows' = TurnEndRows(event, prompt) \/ rows' = EndedRows
           \/ rows' = AdoptRows(rows, k, 0)
    BY <1>2, LifecycleActs, Zenon
  <2>2. /\ e \in Write /\ e.id = write.id /\ e.pc = write.pc
    BY <1>0, EvidenceType, EvidenceKeeps
  <2>3. ASSUME NEW j \in Ids PROVE typed[j].fresh => typed'[j].fresh
    BY <1>0, <2>1, ToldFresh
  <2>4. ASSUME NEW j \in Ids, e.id = j, e.started PROVE typed'[j].fresh
    <3>1. CASE write.started
      BY <1>0, <2>2, <2>3, <2>4, <3>1 DEF FreshRow, CreditFresh
    <3>2. CASE ~write.started
      <4>1. /\ write.id = j /\ rows[j].state = "uncertain"
            /\ event \in {"PromptSubmitted", "Activity"} /\ News(rows[j], prompt)
        BY <1>0, <2>2, <2>4, <3>2, EvidenceFresh
      <4>2. rows[j].touched
        BY <4>1 DEF IInv, RowInv, UncertainIsTouched
      <4> QED BY <1>0, <2>1, <4>1, <4>2, ToldFresh
    <3> QED BY <3>1, <3>2
  <2>5. CASE event \notin {"PromptSubmitted", "Activity"}
             /\ (rows' = TurnEndRows(event, prompt) \/ rows' = EndedRows)
    <3>1. k = 0
      BY <2>5 DEF Adopter
    <3>2. write' = e
      BY <2>1, <3>1 DEF AdoptEvidence
    <3> HIDE DEF e, k
    <3> QED BY <1>0, <2>2, <2>3, <2>4, <2>5, <3>2, EndsGo
  <2>6. CASE rows' = AdoptRows(rows, k, 0)
    <3>1. k \in Ids \cup {0}
      BY AdoptedIsInstruction DEF Adopter
    <3>2. k # 0 => typed'[k].fresh /\ (rows[k].state = "uncertain" => e.id = k)
      <4> SUFFICES ASSUME k # 0
                   PROVE  typed'[k].fresh /\ (rows[k].state = "uncertain" => e.id = k)
        OBVIOUS
      <4>1. k = Adopted(rows, e, 0)
        BY DEF Adopter
      <4>2. \/ event = "PromptSubmitted"
            \/ /\ event = "Activity"
               /\ ~\E j \in Ids : Open(rows[j]) /\ ~rows[j].adopted /\ Stale(rows[j], prompt)
        BY DEF Adopter
      <4>3. /\ k \in Ids /\ ~rows[k].completed /\ ~rows[k].adopted
            /\ \/ rows[k].state = "delivered"
               \/ rows[k].state = "uncertain" /\ e.id = k /\ e.started
        BY <4>1, AdoptedIsNew
      <4> HIDE DEF k, e
      <4>4. CASE rows[k].state = "delivered"
        <5>1. Open(rows[k]) /\ Awaits(k) /\ rows[k].touched
          BY <1>0, <4>3, <4>4 DEF Awaits, Open, FreshRow, CreditFresh
        <5>2. CASE event = "PromptSubmitted"
          <6>1. typed[k].fresh
            BY <1>0, <4>3, <5>1, <5>2 DEF FreshRow, Unstarted
          <6> QED BY <2>3, <4>3, <4>4, <6>1
        <5>3. CASE event = "Activity" /\ ~Stale(rows[k], prompt)
          <6>1. News(rows[k], prompt)
            BY <5>3 DEF Stale, News
          <6> QED BY <1>0, <2>1, <4>3, <4>4, <5>1, <5>3, <6>1, ToldFresh
        <5> QED BY <4>2, <4>3, <5>1, <5>2, <5>3
      <4>5. CASE rows[k].state = "uncertain" /\ e.id = k /\ e.started
        BY <2>4, <4>3, <4>5
      <4> QED BY <4>3, <4>4, <4>5
    <3> HIDE DEF e, k
    <3> QED BY <1>0, <2>1, <2>2, <2>3, <2>4, <2>6, <3>1, <3>2, AdoptionGoes
  <2> QED BY <2>1, <2>5, <2>6
<1> QED BY <1>1, <1>2

(* A hand-back that names the request of a row adopts it as told.          *)
LEMMA HandbackGoes ==
    ASSUME IInv, FreshInv, NEW named, NamedHandback(named), NEW i \in Ids
    PROVE  RowGoes(i)
<1> DEFINE k == Adopted(rows, write, named)
<1>0. /\ rows \in [Ids -> Row] /\ write \in Write /\ typed \in [Ids -> TypedKeys]
      /\ \A j \in Ids : FreshRow(j)
  BY DEF IInv, TypeOK, FreshInv
<1>1. /\ rows' = AdoptRows(rows, k, named) /\ write' = AdoptEvidence(rows, k, write)
      /\ typed' = IF k = 0 THEN typed ELSE [typed EXCEPT ![k].fresh = TRUE]
  BY DEF NamedHandback
<1>2. k \in Ids \cup {0}
  BY AdoptedIsInstruction
<1>3. k # 0 /\ rows[k].state = "uncertain" => write.id = k
  BY AdoptedIsNew
<1> HIDE DEF k
<1>4. ASSUME NEW j \in Ids PROVE typed[j].fresh => typed'[j].fresh
  <2>1. typed[j] \in TypedKeys /\ typed'[j] \in {typed[j], [typed[j] EXCEPT !.fresh = TRUE]}
    BY <1>0, <1>1, <1>2
  <2> QED BY <2>1 DEF TypedKeys
<1>5. k # 0 => typed'[k].fresh
  BY <1>0, <1>1, <1>2 DEF TypedKeys
<1>6. write.id = i /\ write.started => typed'[i].fresh
  BY <1>0, <1>4 DEF FreshRow, CreditFresh
<1> QED BY <1>0, <1>1, <1>2, <1>3, <1>4, <1>5, <1>6, AdoptionGoes

(* The receipt of a written Enter adopts nothing but the row it delivers:  *)
(* whatever else is open was running when that row was claimed.            *)
LEMMA DeliverGoes ==
    ASSUME IInv, OpenInv, FreshInv, Delivers, NEW i \in Ids
    PROVE  RowGoes(i)
<1> DEFINE w == write.id
<1>0. /\ TypeOK /\ rows \in [Ids -> Row] /\ 0 \notin Ids /\ FreshRow(i)
      /\ UNCHANGED typed /\ write.pc = "enter"
  BY ConstantTypes DEF IInv, TypeOK, FreshInv, Delivers, EnterReceipt, Resumed
<1>1. /\ w \in Ids /\ rows[w].state = "uncertain" /\ write'.id = 0
      /\ rows'[i].state = IF i = w THEN "delivered" ELSE rows[i].state
      /\ rows[i].completed => rows'[i].completed
      /\ rows[i].adopted => rows'[i].adopted
  BY <1>0, DeliverSteady
<1>2. /\ rows'[i].touched = rows[i].touched
      /\ rows'[i].dispatch_prompt_id = rows[i].dispatch_prompt_id
      /\ Credited(rows'[i]) => Credited(rows[i]) \/ i = Starts
  BY <1>0, DeliverMarks DEF Credited
<1>3. i = Starts => i = w /\ write.started
  <2> SUFFICES ASSUME i = Starts PROVE i = w /\ write.started
    OBVIOUS
  <2>1. write.started /\ i = Adopted(Sent, write, 0)
    BY <1>0 DEF Starts
  <2>2. /\ ~Sent[i].completed /\ ~Sent[i].adopted
        /\ Sent[i].state = "delivered" \/ w = i
    BY <1>0, <2>1, AdoptedIsNew
  <2>3. CASE i # w
    <3>1. rows[i].state = "delivered" /\ ~rows[i].completed /\ ~rows[i].adopted
      BY <1>0, <2>2, <2>3, SentMarks
    <3> QED BY <1>0, <1>1, <3>1 DEF OpenInv, Passed, Open
  <2> QED BY <2>1, <2>3
<1>4. Credited(rows'[i]) => typed'[i].fresh
  BY <1>0, <1>2, <1>3 DEF FreshRow, CreditFresh
<1>5. rows'[i].state = "delivered" => rows'[i].touched
  BY <1>0, <1>1, <1>2 DEF IInv, RowInv, UncertainIsTouched, FreshRow, CreditFresh
<1>6. Awaits(i)' => Awaits(i)
  BY <1>0, <1>1 DEF Awaits, Open
<1> QED BY <1>0, <1>1, <1>2, <1>4, <1>5, <1>6 DEF RowGoes, CreditFresh

(* A claim takes note of the prompt that the pane is on; a pane that is    *)
(* told of another one works, and is not prompted.                         *)
LEMMA ClaimFresh ==
    ASSUME IInv, FreshInv, Claims, NEW i \in Ids
    PROVE  FreshRow(i)' /\ HookKept
<1>0. /\ TypeOK /\ rows \in [Ids -> Row] /\ rows[i] \in Row /\ i # 0 /\ FreshRow(i)
  BY ConstantTypes DEF IInv, TypeOK, FreshInv
<1>1. PICK t \in Threads : DispatchInterrupt(t) \/ DispatchPaste(t)
  BY DEF Claims
<1>2. PICK pc, request, prompt :
        /\ BeginWrite(t, Head, pc, request, prompt)
        /\ \/ pc = "interrupt"
           \/ /\ pc = "paste" /\ prompt = lastPrompt
              /\ ~HeldFor(rows[Head].mode)
  BY <1>1 DEF DispatchInterrupt, DispatchPaste
<1>3. /\ HookKept /\ UNCHANGED typed /\ UNCHANGED <<hook, lastPrompt>>
      /\ write'.id = Head /\ write'.pc = pc /\ ~write'.started
  BY <1>2 DEF BeginWrite, NoWrite, HookKept
<1>4. Credited(rows'[i]) <=> Credited(rows[i])
  BY <1>0, ClaimMarks DEF Credited
<1>5. /\ Head \in Ids
      /\ i # Head => rows'[i] = rows[i]
      /\ i = Head => rows'[i].state = "uncertain"
  BY <1>0, ClaimSteady
<1>6. CASE i # Head
  <2>1. Awaits(i)' => Awaits(i)
    BY <1>3, <1>5, <1>6 DEF Awaits
  <2>2. RowGoes(i)
    <3>1. write'.id # i /\ rows'[i] = rows[i]
      BY <1>3, <1>5, <1>6
    <3> QED BY <1>0, <1>3, <2>1, <3>1 DEF RowGoes, FreshRow, CreditFresh
  <2> QED BY <1>0, <1>3, <2>2, GoesFresh
<1>7. CASE i = Head
  <2>1. CreditFresh(i)'
    BY <1>0, <1>3, <1>4, <1>5, <1>7 DEF FreshRow, CreditFresh
  <2>2. CASE pc = "interrupt"
    <3>1. ~Awaits(i)'
      BY <1>3, <1>5, <1>7, <2>2 DEF Awaits, Open
    <3> QED BY <1>3, <2>1, <3>1 DEF FreshRow, Unstarted
  <2>3. CASE prompt = lastPrompt /\ ~HeldFor(rows[Head].mode)
    <3>1. rows'[i].dispatch_prompt_id = lastPrompt
      BY <1>0, <1>2, <1>7, <2>3 DEF BeginWrite, Row
    <3>2. session.status # "working"
      BY <1>7, <2>3 DEF FreshInv, HeldFor, PasteHeld
    <3>3. ~Prompting'
      BY <1>3, <3>2 DEF FreshInv, Prompting
    <3> QED BY <1>3, <2>1, <3>1, <3>3 DEF FreshRow, Unstarted
  <2> QED BY <1>2, <2>2, <2>3
<1> QED BY <1>6, <1>7

(* The first step of a hook: what awaits its start was claimed on the      *)
(* prompt before this one.                                                 *)
LEMMA StatusFresh ==
    ASSUME IInv, FreshInv, NEW event, NEW prompt, HookStatus(event, prompt), NEW i \in Ids
    PROVE  FreshRow(i)' /\ (Prompting' => session'.status = "working")
<1>0. /\ FreshRow(i) /\ ~Prompting
      /\ session \in [live : BOOLEAN, closing : BOOLEAN, hold : BOOLEAN,
                      status : {"idle", "working", "owed", "needs_input"}]
  BY DEF FreshInv, HookStatus, Prompting, IInv, TypeOK
<1>1. UNCHANGED <<rows, write, typed>>
  BY DEF HookStatus
<1>2. RowGoes(i)
  BY <1>0, <1>1, SameRowGoes
<1>3. /\ hook'.pc = "delegation" /\ hook'.event = event /\ hook'.prompt = prompt
      /\ session'.status = StatusOf(event)
  BY <1>0 DEF HookStatus
<1>4. Prompting' => event = "PromptSubmitted"
  BY <1>3 DEF Prompting
<1>5. Unstarted(i)'
  <2> SUFFICES ASSUME Awaits(i)', ~typed'[i].fresh
               PROVE  IF Prompting' THEN /\ hook'.pc = "delegation"
                                         /\ News(rows'[i], hook'.prompt)
                      ELSE rows'[i].dispatch_prompt_id = lastPrompt'
    BY DEF Unstarted
  <2>1. rows[i].dispatch_prompt_id = lastPrompt
    BY <1>0, <1>1, <1>2 DEF RowGoes, FreshRow, Unstarted
  <2>2. CASE event = "PromptSubmitted"
    <3>1. News(rows'[i], prompt)
      BY <1>1, <2>1, <2>2 DEF HookStatus, News
    <3> QED BY <1>3, <2>2, <3>1 DEF Prompting
  <2>3. CASE event # "PromptSubmitted"
    BY <1>1, <1>4, <2>1, <2>3 DEF HookStatus
  <2> QED BY <2>2, <2>3
<1>6. Prompting' => session'.status = "working"
  BY <1>3, <1>4 DEF StatusOf
<1> QED BY <1>2, <1>5, <1>6 DEF FreshRow, RowGoes

(* No mode comes from anywhere but a call.                                 *)
LEMMA ModeStep ==
    ASSUME IInv, [Next]_vars, NEW i \in Ids
    PROVE  rows'[i].mode = rows[i].mode \/ rows'[i].mode \in Modes
<1>0. TypeOK
  BY DEF IInv
<1>1. CASE Steady
  BY <1>1 DEF Steady, RowSteady
<1>2. CASE Claims
  BY <1>0, <1>2, ClaimFacts
<1>3. CASE Delivers
  BY <1>0, <1>3, DeliverSteady
<1>4. ASSUME NEW mode \in Modes, Accept(mode)
      PROVE  rows'[i].mode = rows[i].mode \/ rows'[i].mode \in Modes
  <2>1. CASE i = next
    <3>1. rows'[i] = NewRow(mode, "queued")
      BY <1>4, <2>1, AcceptSteady
    <3> QED BY <3>1 DEF NewRow
  <2>2. CASE i # next
    BY <1>4, <2>2, AcceptSteady
  <2> QED BY <2>1, <2>2
<1> QED BY <1>0, <1>1, <1>2, <1>3, <1>4, TurnSteps

LEMMA FreshStep ==
    ASSUME "steer" \notin Modes, "crash" \notin Disturbances,
           IInv, OpenInv, FreshInv, Delegated, [Next]_vars
    PROVE  FreshInv'
<1>0. /\ TypeOK /\ \A i \in Ids : FreshRow(i)
      /\ \A i \in Ids : rows[i].mode # "steer"
      /\ Prompting => session.status = "working"
  BY DEF IInv, FreshInv
<1>1. \A i \in Ids : rows'[i].mode # "steer"
  BY <1>0, ModeStep
<1>2. CASE HookKept
  <2>1. Prompting' => session'.status = "working"
    BY <1>0, <1>2 DEF HookKept, Prompting
  <2>2. ASSUME NEW i \in Ids PROVE FreshRow(i)'
    <3>1. ASSUME RowGoes(i) PROVE FreshRow(i)'
      BY <1>0, <1>2, <3>1, GoesFresh
    <3>2. CASE Keeps
      BY <1>0, <3>1, <3>2, KeepsGoes
    <3>3. CASE Claims
      BY <3>3, ClaimFresh
    <3>4. CASE Delivers
      BY <3>1, <3>4, DeliverGoes
    <3>5. CASE HookDelegation
      BY <3>5, DelegationFresh
    <3>6. CASE HookLifecycle
      <4>1. Lifecycle(hook.event, hook.prompt)
            /\ (hook.event = "PromptSubmitted" => Prompting /\ hook.pc = "lifecycle")
        BY <3>6 DEF HookLifecycle, Prompting
      <4> QED BY <3>1, <4>1, LifecycleGoes
    <3>7. CASE ExitLifecycle
      <4>1. Lifecycle("SessionEnded", 0)
        BY <3>7 DEF ExitLifecycle
      <4> QED BY <3>1, <4>1, LifecycleGoes
    <3>8. ASSUME NEW named \in Nat, NamedHandback(named) PROVE FreshRow(i)'
      BY <3>1, <3>8, HandbackGoes
    <3> QED BY <3>2, <3>3, <3>4, <3>5, <3>6, <3>7, <3>8, RoundSteps
  <2> QED BY <1>1, <2>1, <2>2 DEF FreshInv
<1>3. CASE HookDelegation
  <2>1. ASSUME NEW i \in Ids PROVE FreshRow(i)'
    BY <1>3, DelegationFresh
  <2>2. Prompting' => session'.status = "working"
    <3>1. hook.pc = "delegation" /\ hook'.event = hook.event /\ UNCHANGED session
      BY <1>0, <1>3 DEF HookDelegation, TypeOK
    <3> QED BY <1>0, <3>1 DEF Prompting
  <2> QED BY <1>1, <2>1, <2>2 DEF FreshInv
<1>4. CASE HookLifecycle
  <2>1. /\ Lifecycle(hook.event, hook.prompt) /\ hook.pc = "lifecycle"
        /\ hook.event = "PromptSubmitted" => Prompting
        /\ ~Prompting' /\ UNCHANGED lastPrompt
    BY <1>4 DEF HookLifecycle, Prompting, NoHook
  <2>2. ASSUME NEW i \in Ids PROVE FreshRow(i)'
    <3>1. RowGoes(i)
      BY <2>1, LifecycleGoes
    <3>2. Unstarted(i)'
      BY <1>0, <2>1, <3>1 DEF RowGoes, FreshRow, Unstarted
    <3> QED BY <3>1, <3>2 DEF FreshRow, RowGoes
  <2> QED BY <1>1, <2>1, <2>2 DEF FreshInv
<1>5. ASSUME NEW event, NEW prompt, HookStatus(event, prompt) PROVE FreshInv'
  <2>1. ASSUME NEW i \in Ids PROVE FreshRow(i)'
    BY <1>5, StatusFresh
  <2>2. Prompting' => session'.status = "working"
    <3>1. Prompting' => event = "PromptSubmitted" /\ session'.status = StatusOf(event)
      BY <1>0, <1>5 DEF HookStatus, Prompting, TypeOK
    <3> QED BY <3>1 DEF StatusOf
  <2> QED BY <1>1, <2>1, <2>2 DEF FreshInv
<1> QED BY <1>0, <1>2, <1>3, <1>4, <1>5, HookSteps

(* A child's instruction is complete only after a start of its own: an     *)
(* event that repeats the prompt it was claimed on, or arrives between the *)
(* writer's receipts, or while another hook is half applied, cannot start  *)
(* or finish it.  A steer is typed into a pane that is being told of a     *)
(* prompt, and a crash forgets that prompt; neither is covered.            *)
THEOREM CompletesAfterStart ==
    ASSUME "steer" \notin Modes, "crash" \notin Disturbances
    PROVE  Spec => []CompletedAfterFreshStart
<1> DEFINE Fresh == Delegated => FreshInv
<1>1. Init => Fresh
  <2> SUFFICES ASSUME Init PROVE FreshInv
    OBVIOUS
  <2>1. ASSUME NEW i \in Ids
        PROVE  /\ rows[i].state = "none" /\ ~Credited(rows[i]) /\ rows[i].mode = "queue"
               /\ write.id # i
    BY ConstantTypes DEF Init, NewRow, NoWrite, Credited
  <2>2. ASSUME NEW i \in Ids PROVE FreshRow(i)
    BY <2>1 DEF FreshRow, Unstarted, CreditFresh, Awaits, Open
  <2>3. ~Prompting
    BY DEF Init, NoHook, Prompting
  <2> QED BY <2>1, <2>2, <2>3 DEF FreshInv
<1>2. IInv /\ OpenInv /\ Fresh /\ [Next]_vars => Fresh'
  BY FreshStep
<1>3. Fresh => CompletedAfterFreshStart
  BY DEF FreshInv, FreshRow, CreditFresh, Credited, CompletedAfterFreshStart
<1> HIDE DEF Fresh
<1> QED BY <1>1, <1>2, <1>3, Invariance, OpenHolds, PTL DEF Spec

-----------------------------------------------------------------------------
(* The mark of a prompt that awaits its hook.  While the mark is set, the  *)
(* delivered instruction that the hook will adopt exists and its number is *)
(* not behind the round; what is being written is not behind it either.    *)

Owns(i) == /\ Open(rows[i]) /\ ~rows[i].adopted
           /\ rows[i].request_id >= delegation.round

WriteReaches(i) ==
    write.id = i /\ rows[i].state = "uncertain" /\ write.pc # "interrupt" =>
        rows[i].request_id >= delegation.round

Reaches == /\ \A i \in Ids : WriteReaches(i)
           /\ awaiting => \E i \in Ids : Owns(i)

(* A child that asks for no input: no hook asks, the delegation does not   *)
(* wait.                                                                   *)
NeverAsks == hook.event # "NeedsInput" /\ delegation.state # "needs_input"

AwaitInv == NeverAsks /\ delegation.round >= 1 /\ Reaches

(* A step that opens no round and sets no mark.                            *)
LEMMA CalmReaches ==
    ASSUME Reaches, delegation'.round = delegation.round, awaiting' => awaiting,
           write'.id # 0 => /\ write'.id = write.id
                            /\ write'.pc # "interrupt" => write.pc # "interrupt",
           \A i \in Ids :
             /\ write.id = i /\ rows'[i].state = "uncertain" =>
                  /\ rows[i].state = "uncertain"
                  /\ rows'[i].request_id = rows[i].request_id
             /\ Open(rows[i]) /\ ~rows[i].adopted =>
                  /\ Open(rows'[i]) /\ ~rows'[i].adopted
                  /\ rows'[i].request_id = rows[i].request_id
    PROVE  Reaches'
<1>1. ASSUME NEW i \in Ids PROVE WriteReaches(i)'
  <2>1. i # 0
    BY ConstantTypes
  <2> QED BY <2>1 DEF Reaches, WriteReaches
<1>2. awaiting' => \E i \in Ids : Owns(i)'
  BY DEF Reaches, Owns
<1> QED BY <1>1, <1>2 DEF Reaches

(* Nothing is written while the mark is set: a claim finds every delivered *)
(* row adopted.                                                            *)
LEMMA OwnerWritesNothing ==
    ASSUME OpenInv, Reaches, awaiting
    PROVE  write.id = 0
BY DEF Reaches, Owns, OpenInv, Passed

(* The row that owns the mark is what a prompt hook finds to adopt.        *)
LEMMA OwnerIsAdopted ==
    ASSUME TypeOK, OpenInv, Reaches, delegation.round >= 1, awaiting,
           NEW evidence, evidence.id = write.id
    PROVE  Adopted(rows, evidence, 0) # 0
<1> DEFINE found == Adoptable(rows, evidence, 0)
<1>1. PICK i \in Ids : Owns(i)
  BY DEF Reaches
<1>2. write.id = 0 /\ 0 \notin Ids
  BY OwnerWritesNothing, ConstantTypes
<1>3. i \in found
  BY <1>1 DEF Owns, Open, Adoptable
<1>4. ASSUME NEW j \in found PROVE j = i
  <2>1. j \in Ids /\ Open(rows[j])
    BY <1>2, <1>4 DEF Adoptable, Open
  <2> QED BY <1>1, <2>1 DEF OpenInv, OneOpen, Owns
<1>5. First(found) = i
  <2>1. found \in SUBSET Ids /\ found # {}
    BY <1>3 DEF Adoptable
  <2> HIDE DEF found
  <2>2. First(found) \in found
    BY <2>1, FirstIsLeast
  <2> QED BY <1>4, <2>2
<1>6. rows[i].request_id # 0
  <2>1. rows[i].request_id \in Nat /\ delegation.round \in Nat
    BY DEF TypeOK, Row
  <2> QED BY <1>1, <2>1 DEF Owns
<1>7. i # 0
  BY <1>2
<1> QED BY <1>3, <1>5, <1>6, <1>7 DEF Adopted

(* Adoption clears the mark, and the round it opens is that of the row     *)
(* being written, if one is.                                               *)
LEMMA AdoptionReaches ==
    ASSUME IInv, OpenInv, Reaches, Delegated,
           NEW e \in Write, e.id = write.id, e.pc = write.pc, NEW named,
           NEW k, k = Adopted(rows, e, named), NEW d, d.round = delegation.round,
           rows' = AdoptRows(rows, k, named), write' = AdoptEvidence(rows, k, e),
           delegation'.round = AdoptDelegation(rows, k, d).round,
           awaiting' = AdoptAwaiting(k)
    PROVE  Reaches'
<1>0. /\ rows \in [Ids -> Row] /\ delegation.round \in Nat
      /\ write'.id = write.id /\ write'.pc = write.pc /\ 0 \notin Ids
  BY AdoptEvidenceKeeps, ConstantTypes DEF IInv, TypeOK
<1>1. CASE k = 0
  <2>1. /\ rows' = rows /\ (awaiting' => awaiting)
        /\ delegation'.round = delegation.round
    BY <1>1 DEF AdoptRows, AdoptAwaiting, AdoptDelegation
  <2> QED BY <1>0, <2>1, CalmReaches
<1>2. CASE k # 0
  <2>1. ~awaiting'
    BY <1>2 DEF AdoptAwaiting
  <2>2. /\ k \in Ids /\ ~rows[k].completed /\ ~rows[k].adopted
        /\ rows[k].state = "delivered" \/ e.id = k
    BY <1>2, AdoptedIsNew
  <2>3. ASSUME NEW i \in Ids PROVE WriteReaches(i)'
    <3>1. SUFFICES ASSUME write'.id = i, rows'[i].state = "uncertain",
                          write'.pc # "interrupt"
                   PROVE  rows'[i].request_id >= delegation'.round
      BY DEF WriteReaches
    <3>2. /\ rows'[i].state = rows[i].state
          /\ rows'[i].request_id = rows[i].request_id
      <4> DEFINE rs == rows
      <4>1. rs \in [Ids -> Row] /\ rows' = AdoptRows(rs, k, named)
        BY <1>0
      <4> HIDE DEF rs
      <4>2. Marked(rows'[i], rs[i], i = k)
        BY <2>2, <4>1, AdoptRowsMark
      <4> QED BY <4>2 DEF Marked, rs
    <3>3. rows[i].request_id >= delegation.round /\ rows[i].request_id \in Nat
      BY <1>0, <3>1, <3>2 DEF Reaches, WriteReaches, Row
    <3>4. k = i
      <4>1. write.id = i /\ i # 0
        BY <1>0, <3>1
      <4>2. ~Open(rows[k])
        BY <2>2, <4>1 DEF OpenInv, Passed
      <4> QED BY <2>2, <4>1, <4>2 DEF Open
    <3> QED BY <1>0, <3>2, <3>3, <3>4 DEF AdoptDelegation
  <2> QED BY <2>1, <2>3 DEF Reaches
<1> QED BY <1>1, <1>2

(* The steps that change the round, the state of the delegation or the     *)
(* mark.                                                                   *)
LEMMA DelegationSteps ==
    ASSUME [Next]_vars
    PROVE  \/ UNCHANGED <<delegation, awaiting>>
           \/ Crash \/ Delivers \/ HookDelegation \/ HookLifecycle \/ ExitLifecycle
           \/ \E named \in Nat : NamedHandback(named)
<1>1. CASE \/ \E mode \in Modes : Accept(mode)
           \/ \E i \in Ids : AcceptWake(i) \/ Cancel(i) \/ Resume(i)
           \/ \E outcome \in {"written", "unwritten", "partial"} : PtyWrite(outcome)
           \/ WakeExit \/ RefusalBegins \/ RefusalEnds \/ TurnEndWithheld
           \/ HoldBegins \/ HoldEnds \/ CloseReserved \/ CloseDropped \/ SessionExits
           \/ \E event \in HookEvents, prompt \in PromptIds \cup {0} :
                HookStatus(event, prompt)
  BY <1>1 DEF Accept, AcceptWake, Cancel, Resume, PtyWrite, WakeExit, RefusalBegins,
     RefusalEnds, TurnEndWithheld, HoldBegins, HoldEnds, CloseReserved,
     CloseDropped, SessionExits, SessionBecomes, HookStatus
<1>2. CASE \E t \in Threads : Dispatch(t)
  BY <1>2 DEF Dispatch, DispatchNothing, DispatchEnded, DispatchHeld,
     DispatchInterrupt, DispatchPaste, BeginWrite
<1>3. CASE Continue /\ ~Delivers
  BY <1>3 DEF Continue, Withdrawn, InterruptReceipt, PasteReceipt, Submit,
     EnterReceipt, Delivers
<1>4. ASSUME NEW named \in 1 .. MaxHooks + MaxInstr + 1, NamedHandback(named)
      PROVE  \E n \in Nat : NamedHandback(n)
  BY <1>4, ConstantsAssumption
<1>5. CASE UNCHANGED vars
  BY <1>5 DEF vars
<1> QED BY <1>1, <1>2, <1>3, <1>4, <1>5 DEF Next

(* No hook asks for input, and no other step makes the delegation wait.    *)
LEMMA NeverAsksStep ==
    ASSUME "NeedsInput" \notin HookEvents, TypeOK, NeverAsks, Delegated, [Next]_vars
    PROVE  NeverAsks'
<1>0. /\ hook \in [pc : {"idle", "delegation", "lifecycle"},
                   event : AgentEvents, prompt : Nat, seen : Nat]
      /\ delegation \in DelegationType
  BY DEF TypeOK, DelegationType
<1>1. hook'.event # "NeedsInput"
  <2>1. CASE UNCHANGED hook \/ \E n : hook' = NoHook(n)
    BY <2>1 DEF NeverAsks, NoHook
  <2>2. CASE \E h \in {[hook EXCEPT !.seen = @ + 1], [hook EXCEPT !.pc = "lifecycle"]} :
               hook' = h
    BY <1>0, <2>2 DEF NeverAsks
  <2>3. CASE \E event \in HookEvents, prompt \in PromptIds \cup {0} :
               HookStatus(event, prompt)
    BY <2>3 DEF HookStatus
  <2>4. CASE Crash \/ HookLifecycle
    BY <2>1, <2>4 DEF Crash, HookLifecycle
  <2>5. CASE HookDelegation \/ \E named : NamedHandback(named)
    BY <2>2, <2>5 DEF HookDelegation, NamedHandback
  <2>6. CASE \/ \E mode \in Modes : Accept(mode)
             \/ \E i \in Ids : AcceptWake(i) \/ Cancel(i) \/ Resume(i)
             \/ \E outcome \in {"written", "unwritten", "partial"} : PtyWrite(outcome)
             \/ WakeExit \/ RefusalBegins \/ RefusalEnds \/ TurnEndWithheld
             \/ HoldBegins \/ HoldEnds \/ CloseReserved \/ CloseDropped
             \/ SessionExits \/ ExitLifecycle
    BY <2>1, <2>6 DEF Accept, AcceptWake, Cancel, Resume, PtyWrite, WakeExit,
       RefusalBegins, RefusalEnds, TurnEndWithheld, HoldBegins, HoldEnds,
       CloseReserved, CloseDropped, SessionExits, ExitLifecycle, SessionBecomes
  <2>7. CASE \E t \in Threads : Dispatch(t)
    <3>1. UNCHANGED hook
      BY <2>7 DEF Dispatch, DispatchNothing, DispatchEnded, DispatchHeld,
         DispatchInterrupt, DispatchPaste, BeginWrite
    <3> QED BY <2>1, <3>1
  <2>8. CASE Continue
    <3>1. UNCHANGED hook
      BY <2>8 DEF Continue, Withdrawn, InterruptReceipt, PasteReceipt, Submit,
         EnterReceipt
    <3> QED BY <2>1, <3>1
  <2>9. CASE UNCHANGED vars
    BY <2>1, <2>9 DEF vars
  <2> QED BY <2>3, <2>4, <2>5, <2>6, <2>7, <2>8, <2>9 DEF Next
<1>2. delegation'.state # "needs_input"
  <2>1. ASSUME NEW rs, NEW k, NEW d \in DelegationType, d.state # "needs_input"
        PROVE  AdoptDelegation(rs, k, d).state # "needs_input"
    BY <2>1 DEF AdoptDelegation
  <2>2. CASE UNCHANGED delegation \/ \E rs, k : delegation' = AdoptDelegation(rs, k, delegation)
    BY <1>0, <2>1, <2>2 DEF NeverAsks
  <2>3. CASE Crash
    BY <1>0, <2>3 DEF Crash, NeverAsks, DelegationType
  <2>4. CASE Delivers
    BY <2>2, <2>4 DEF Delivers, EnterReceipt
  <2>5. CASE HookDelegation
    <3>1. CASE OpenRound(delegation.state)
      <4> DEFINE d == [delegation EXCEPT !.state = "working"]
      <4>1. d \in DelegationType /\ d.state # "needs_input"
        BY <1>0 DEF DelegationType
      <4>2. \/ \E k : delegation' = AdoptDelegation(rows, k, d)
            \/ delegation'.state = "working"
        BY <3>1 DEF OpenRound
      <4> HIDE DEF d
      <4> QED BY <2>1, <4>1, <4>2
    <3>2. CASE \E to \in Transition(hook.event, delegation.state) :
                 delegation' = [delegation EXCEPT !.state = to]
      <4>1. PICK to \in Transition(hook.event, delegation.state) :
              delegation' = [delegation EXCEPT !.state = to]
        BY <3>2
      <4>2. delegation'.state = to
        BY <1>0, <4>1 DEF DelegationType
      <4>3. to # "needs_input"
        BY DEF Transition, NeverAsks
      <4> QED BY <4>2, <4>3
    <3> QED BY <2>2, <2>5, <3>1, <3>2 DEF HookDelegation
  <2>6. CASE HookLifecycle \/ ExitLifecycle
    <3>1. PICK event, prompt : Lifecycle(event, prompt)
      BY <2>6 DEF HookLifecycle, ExitLifecycle
    <3> QED BY <2>2, <3>1, LifecycleActs
  <2>7. ASSUME NEW named, NamedHandback(named) PROVE delegation'.state # "needs_input"
    <3> DEFINE d == AdoptDelegation(rows, Adopted(rows, write, named), delegation)
               e == [d EXCEPT !.round = @ + 1]
    <3>1. delegation' = d \/ delegation' = e
      BY <2>7 DEF NamedHandback
    <3>2. d \in DelegationType /\ d.state # "needs_input"
      BY <1>0, <2>1, AdoptDelegationType DEF NeverAsks
    <3> HIDE DEF d
    <3>3. e.state = d.state
      BY <3>2 DEF DelegationType
    <3> QED BY <3>1, <3>2, <3>3
  <2> QED BY <2>2, <2>3, <2>4, <2>5, <2>6, <2>7, DelegationSteps
<1> QED BY <1>1, <1>2 DEF NeverAsks

(* The claim of a prompt reserves the number of the round or the next.     *)
LEMMA ClaimReaches ==
    ASSUME IInv, OpenInv, Reaches, Delegated, Claims
    PROVE  Reaches'
<1>0. /\ TypeOK /\ rows \in [Ids -> Row] /\ delegation.round \in Nat
      /\ rows[Head] \in Row /\ Head \in Ids
  BY ClaimFacts DEF IInv, TypeOK
<1>1. PICK t \in Threads : DispatchInterrupt(t) \/ DispatchPaste(t)
  BY DEF Claims
<1>2. /\ UNCHANGED <<delegation, awaiting>> /\ write'.id = Head
      /\ ActiveIds # {} /\ rows[Head].state = "queued"
  BY <1>1 DEF DispatchInterrupt, DispatchPaste, Claimable, BeginWrite, NoWrite
<1>3. ~awaiting
  <2>1. \A i \in Ids : Open(rows[i]) => rows[i].adopted
    BY <1>0, <1>2, HeadPasses
  <2> QED BY <2>1 DEF Reaches, Owns
<1>4. write'.pc # "interrupt" => rows'[Head].request_id >= delegation.round
  <2>1. CASE DispatchInterrupt(t)
    BY <2>1 DEF DispatchInterrupt, BeginWrite, NoWrite
  <2>2. CASE DispatchPaste(t)
    <3>1. rows'[Head].request_id = RequestOf
      BY <1>0, <2>2 DEF DispatchPaste, BeginWrite, Row
    <3>2. RequestOf \in {delegation.round, delegation.round + 1}
      BY DEF RequestOf
    <3> QED BY <1>0, <3>1, <3>2
  <2> QED BY <1>1, <2>1, <2>2
<1> QED BY <1>2, <1>3, <1>4 DEF Reaches, WriteReaches

(* The receipt of a written Enter sets the mark for the row it delivers.   *)
LEMMA DeliverReaches ==
    ASSUME IInv, OpenInv, RoundInv, Reaches, Delegated, Delivers
    PROVE  Reaches'
<1> DEFINE w == write.id
<1>0. /\ TypeOK /\ 0 \notin Ids /\ write.pc = "enter"
      /\ w \in Ids /\ rows[w].state = "uncertain" /\ write'.id = 0
  BY ConstantTypes, DeliverSteady DEF IInv, TypeOK, Delivers, EnterReceipt, Resumed
<1>1. \A i \in Ids : WriteReaches(i)'
  BY <1>0 DEF WriteReaches
<1>2. CASE ~awaiting'
  BY <1>1, <1>2 DEF Reaches
<1>3. CASE awaiting'
  <2>1. ~awaiting
    BY <1>0, OwnerWritesNothing
  <2>2. ~write.started
    BY <1>3, <2>1 DEF Delivers, EnterReceipt, AdoptAwaiting
  <2>3. Starts = 0
    BY <2>2 DEF Starts
  <2>4. ~Credited(rows[w])
    BY <1>0 DEF RoundInv
  <2>5. /\ rows'[w].state = "delivered" /\ rows'[w].request_id = rows[w].request_id
        /\ ~rows'[w].adopted /\ ~rows'[w].completed
    BY <1>0, <2>3, <2>4, DeliverSteady, DeliverMarks DEF Credited
  <2>6. delegation' = delegation
    BY <1>0, <2>3, DeliverMarks DEF AdoptDelegation
  <2>7. ASSUME NEW i \in Ids, i = w PROVE Owns(i)'
    <3>1. rows[i].request_id >= delegation.round
      BY <1>0, <2>7 DEF Reaches, WriteReaches
    <3> QED BY <2>5, <2>6, <2>7, <3>1 DEF Owns, Open
  <2> QED BY <1>0, <1>1, <2>7 DEF Reaches
<1> QED BY <1>2, <1>3

(* instruction_lifecycle.                                                  *)
LEMMA LifecycleReaches ==
    ASSUME IInv, OpenInv, Reaches, Delegated, NEW event, NEW prompt,
           Lifecycle(event, prompt)
    PROVE  Reaches'
<1> DEFINE k == Adopter(event, prompt)
           e == Evidence(event, prompt)
<1>0. /\ TypeOK /\ rows \in [Ids -> Row] /\ write \in Write /\ e \in Write
      /\ e.id = write.id /\ e.pc = write.pc /\ 0 \notin Ids
  BY ConstantTypes, EvidenceType, EvidenceKeeps DEF IInv, TypeOK
<1>1. CASE UNCHANGED <<rows, write, delegation, awaiting, typed>>
  BY <1>1, CalmReaches
<1>2. CASE ~UNCHANGED <<rows, write, delegation, awaiting, typed>>
  <2>1. /\ write' = AdoptEvidence(rows, k, e)
        /\ delegation' = AdoptDelegation(rows, k, delegation)
        /\ awaiting' = AdoptAwaiting(k)
        /\ \/ /\ event \notin {"PromptSubmitted", "Activity"}
              /\ rows' = TurnEndRows(event, prompt) \/ rows' = EndedRows
           \/ rows' = AdoptRows(rows, k, 0)
    BY <1>2, LifecycleActs, Zenon
  <2>2. k = 0 \/ k = Adopted(rows, e, 0)
    BY DEF Adopter
  <2>3. event \notin {"PromptSubmitted", "Activity"} => k = 0
    BY DEF Adopter
  <2> HIDE DEF k, e
  <2>4. CASE k = 0
    <3>1. /\ write' = e /\ delegation' = delegation /\ (awaiting' => awaiting)
      BY <2>1, <2>4 DEF AdoptEvidence, AdoptDelegation, AdoptAwaiting
    <3>2. CASE rows' = AdoptRows(rows, k, 0)
      <4>1. rows' = rows
        BY <2>4, <3>2 DEF AdoptRows
      <4> QED BY <1>0, <3>1, <4>1, CalmReaches
    <3>3. CASE rows' = TurnEndRows(event, prompt) \/ rows' = EndedRows
      <4>1. ASSUME NEW i \in Ids
            PROVE  /\ write.id = i /\ rows'[i].state = "uncertain" =>
                        /\ rows[i].state = "uncertain"
                        /\ rows'[i].request_id = rows[i].request_id
                   /\ Open(rows[i]) /\ ~rows[i].adopted =>
                        /\ Open(rows'[i]) /\ ~rows'[i].adopted
                        /\ rows'[i].request_id = rows[i].request_id
        <5>1. /\ rows'[i].request_id = rows[i].request_id
              /\ rows'[i].adopted = rows[i].adopted
              /\ rows'[i].state # rows[i].state => rows[i].state = "queued"
          BY <1>0, <3>3, EndsMark
        <5>2. Credited(rows'[i]) => Credited(rows[i])
          BY <1>0, <3>3, EndsCredit
        <5>3. write.id = i => rows[i].state # "queued"
          BY <1>0 DEF IInv, WriteInv, Claim
        <5> QED BY <5>1, <5>2, <5>3 DEF Open, Credited
      <4> QED BY <1>0, <3>1, <4>1, CalmReaches
    <3> QED BY <2>1, <3>2, <3>3
  <2>5. CASE k # 0
    <3>1. k = Adopted(rows, e, 0) /\ rows' = AdoptRows(rows, k, 0)
      BY <2>1, <2>2, <2>3, <2>5
    <3> QED BY <1>0, <2>1, <3>1, AdoptionReaches
  <2> QED BY <2>4, <2>5
<1> QED BY <1>1, <1>2

(* advance_delegation.                                                     *)
LEMMA DelegationReaches ==
    ASSUME IInv, OpenInv, AwaitInv, Delegated, HookDelegation
    PROVE  Reaches'
<1>0. /\ TypeOK /\ rows \in [Ids -> Row] /\ write \in Write
      /\ delegation \in DelegationType /\ Reaches
  BY DEF IInv, TypeOK, DelegationType, AwaitInv
<1>1. CASE UNCHANGED <<rows, write, awaiting>> /\ delegation'.round = delegation.round
  BY <1>0, <1>1, CalmReaches
<1>2. CASE OpenRound(delegation.state)
  <2> DEFINE k == Adopted(rows, write, 0)
             d == [delegation EXCEPT !.state = "working"]
  <2>1. d.round = delegation.round
    BY <1>0 DEF DelegationType
  <2>2. CASE k # 0
    <3>1. /\ rows' = AdoptRows(rows, k, 0) /\ write' = AdoptEvidence(rows, k, write)
          /\ delegation' = AdoptDelegation(rows, k, d) /\ awaiting' = AdoptAwaiting(k)
      BY <1>2, <2>2 DEF OpenRound
    <3> HIDE DEF d
    <3> QED BY <1>0, <2>1, <3>1, AdoptionReaches
  <2>3. CASE k = 0
    <3>1. ~awaiting
      BY <1>0, <2>3, OwnerIsAdopted DEF AwaitInv
    <3>2. UNCHANGED <<rows, write>> /\ ~awaiting' /\ delegation'.round = delegation.round
      BY <1>2, <2>3, <3>1 DEF OpenRound, AwaitInv, NeverAsks
    <3> QED BY <1>0, <3>2, CalmReaches
  <2> QED BY <2>2, <2>3
<1>3. CASE \E to : delegation' = [delegation EXCEPT !.state = to]
           /\ UNCHANGED <<rows, write, awaiting>>
  <2>1. delegation'.round = delegation.round
    BY <1>0, <1>3 DEF DelegationType
  <2> QED BY <1>1, <1>3, <2>1
<1> QED BY <1>1, <1>2, <1>3 DEF HookDelegation

(* A hand-back that opens a round of its own does so with the mark set, so *)
(* that nothing is being written.                                          *)
LEMMA HandbackReaches ==
    ASSUME IInv, OpenInv, Reaches, NEW named, NamedHandback(named)
    PROVE  Reaches'
<1> DEFINE k == Adopted(rows, write, named)
           d == AdoptDelegation(rows, k, delegation)
           asked == /\ AdoptAwaiting(k) /\ named = d.round + 1
                    /\ d.state # "done"
<1>0. /\ TypeOK /\ rows \in [Ids -> Row] /\ write \in Write
  BY DEF IInv, TypeOK
<1>1. /\ Delegated /\ rows' = AdoptRows(rows, k, named)
      /\ write' = AdoptEvidence(rows, k, write)
      /\ awaiting' = (AdoptAwaiting(k) /\ ~asked)
      /\ delegation' = IF asked THEN [d EXCEPT !.round = @ + 1] ELSE d
  BY DEF NamedHandback
<1>2. CASE asked
  <2>1. awaiting /\ ~awaiting'
    BY <1>1, <1>2 DEF AdoptAwaiting
  <2>2. write.id = 0
    BY <2>1, OwnerWritesNothing
  <2>3. write'.id = 0
    BY <1>0, <1>1, <2>2, AdoptEvidenceKeeps
  <2>4. 0 \notin Ids
    BY ConstantTypes
  <2> QED BY <2>1, <2>3, <2>4 DEF Reaches, WriteReaches
<1>3. CASE ~asked
  <2>1. delegation' = d /\ awaiting' = AdoptAwaiting(k)
    <3>1. AdoptAwaiting(k) \in BOOLEAN
      BY DEF AdoptAwaiting
    <3> HIDE DEF asked, k, d
    <3> QED BY <1>1, <1>3, <3>1
  <2> HIDE DEF asked
  <2> QED BY <1>0, <1>1, <2>1, AdoptionReaches
<1> QED BY <1>2, <1>3

LEMMA AwaitStep ==
    ASSUME "NeedsInput" \notin HookEvents,
           IInv, OpenInv, RoundInv, AwaitInv, Delegated, [Next]_vars
    PROVE  AwaitInv'
<1>0. /\ TypeOK /\ Reaches /\ 0 \notin Ids
      /\ delegation.round \in Nat /\ delegation'.round \in Nat
  BY ConstantTypes, NextType DEF IInv, TypeOK, AwaitInv
<1>1. NeverAsks'
  BY <1>0, NeverAsksStep DEF AwaitInv
<1>2. delegation'.round >= 1
  <2>1. delegation'.round >= delegation.round
    BY <1>0, RoundGrows
  <2> QED BY <1>0, <2>1 DEF AwaitInv
<1>3. Reaches'
  <2>1. CASE Keeps /\ delegation'.round = delegation.round /\ (awaiting' => awaiting)
    <3>1. ASSUME NEW i \in Ids, Owns(i) PROVE Owns(i)'
      <4>1. Open(rows'[i]) /\ ~rows'[i].adopted
        BY <2>1, <3>1 DEF Keeps, RowKeeps, Owns, Open, Credited
      <4>2. rows'[i].request_id = rows[i].request_id
        BY <2>1, <4>1 DEF Keeps, RowKeeps, Awaits
      <4> QED BY <2>1, <3>1, <4>1, <4>2 DEF Owns
    <3>2. ASSUME NEW i \in Ids PROVE WriteReaches(i)'
      <4>1. SUFFICES ASSUME write'.id = i, rows'[i].state = "uncertain",
                            write'.pc # "interrupt"
                     PROVE  rows'[i].request_id >= delegation'.round
        BY DEF WriteReaches
      <4>2. write.id = i /\ write.pc # "interrupt"
        BY <1>0, <2>1, <4>1 DEF Keeps, WriteKeeps
      <4>3. Awaits(i) /\ rows'[i].request_id = rows[i].request_id
        BY <2>1, <4>1 DEF Keeps, RowKeeps, Awaits
      <4>4. rows[i].state = "uncertain"
        BY <2>1, <4>1, <4>3 DEF Keeps, RowKeeps, Awaits, Open
      <4> QED BY <1>0, <2>1, <4>2, <4>3, <4>4 DEF Reaches, WriteReaches
    <3> QED BY <1>0, <2>1, <3>1, <3>2 DEF Reaches
  <2>2. CASE Claims
    BY <1>0, <2>2, ClaimReaches
  <2>3. CASE Delivers
    BY <1>0, <2>3, DeliverReaches
  <2>4. CASE HookDelegation
    BY <2>4, DelegationReaches
  <2>5. CASE HookLifecycle \/ ExitLifecycle
    BY <1>0, <2>5, LifecycleReaches DEF HookLifecycle, ExitLifecycle
  <2>6. ASSUME NEW named \in Nat, NamedHandback(named) PROVE Reaches'
    BY <1>0, <2>6, HandbackReaches
  <2>7. CASE Crash
    BY <1>0, <2>7 DEF Crash, NoWrite, Reaches, WriteReaches
  <2>8. CASE Keeps /\ UNCHANGED <<delegation, awaiting>>
    BY <2>1, <2>8
  <2> QED BY <2>2, <2>3, <2>4, <2>5, <2>6, <2>7, <2>8, RoundSteps, DelegationSteps
<1> QED BY <1>1, <1>2, <1>3 DEF AwaitInv

(* The mark of a prompt that awaits its hook never outlives the row that   *)
(* the hook will adopt, whatever is claimed, cancelled, handed back or     *)
(* crashes meanwhile: a hook that finds the mark finds the row, and opens  *)
(* no round of its own.  A child that asks for input while an instruction  *)
(* is written opens a round with the next prompt hook, before the receipt, *)
(* and leaves the number of that instruction behind; it is not covered.    *)
THEOREM MarkHasItsRow ==
    ASSUME "NeedsInput" \notin HookEvents
    PROVE  Spec => []AwaitingHasRow
<1> DEFINE Rounds == Delegated => RoundInv
           Marks == Delegated => AwaitInv
<1>1. Init => Rounds /\ Marks
  <2>1. Init /\ Delegated => AwaitInv
    BY ConstantTypes DEF Init, AwaitInv, NeverAsks, Reaches, WriteReaches, NoHook, NoWrite
  <2> QED BY <2>1, InitRounds
<1>2. IInv /\ ReservedIsReachable /\ Rounds /\ [Next]_vars => Rounds'
  BY RoundStep
<1>3. IInv /\ OpenInv /\ Rounds /\ Marks /\ [Next]_vars => Marks'
  BY AwaitStep
<1>4. Marks => AwaitingHasRow
  BY DEF AwaitInv, Reaches, Owns, AwaitingHasRow
<1> HIDE DEF Rounds, Marks
<1> QED BY <1>1, <1>2, <1>3, <1>4, Invariance, OpenHolds, RequestsReachable, PTL DEF Spec

=============================================================================
