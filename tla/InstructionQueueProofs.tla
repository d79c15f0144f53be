----------------------- MODULE InstructionQueueProofs -----------------------
(***************************************************************************)
(* Theorems about InstructionQueue, for every number of instructions,      *)
(* every limit and every set of modes, events and disturbances.            *)
(***************************************************************************)
EXTENDS InstructionQueue, FiniteSetTheorems, TLAPS

-----------------------------------------------------------------------------
(* Operators.                                                              *)

(* A nonempty set of instructions has a first one: the sets of the members *)
(* up to each member are finite, so one of them is minimal.                *)
LEMMA FirstIsLeast ==
    ASSUME NEW S \in SUBSET Ids, S # {}
    PROVE  First(S) \in S /\ \A j \in S : First(S) <= j
<1> DEFINE Upto(i) == {j \in S : j <= i}
           T == {Upto(i) : i \in S}
<1>0. MaxInstr \in Nat /\ S \subseteq 1 .. MaxInstr
  BY ConstantsAssumption DEF Ids
<1>1. IsFiniteSet(S)
  BY <1>0, FS_Interval, FS_Subset, MaxInstr \in Int, 1 \in Int
<1>2. IsWellFoundedOn(StrictSubsetOrdering(S), SUBSET S)
  BY <1>1, FS_StrictSubsetOrderingWellFounded, FS_FiniteSubsetsOfFinite
<1>3. T \subseteq SUBSET S /\ T # {}
  OBVIOUS
<1> HIDE DEF T
<1>4. PICK X \in T : \A Y \in T : ~(<<Y, X>> \in StrictSubsetOrdering(S))
  BY <1>2, <1>3, WFMin, Zenon
<1>5. PICK i \in S : X = Upto(i)
  BY <1>4 DEF T
<1>6. ASSUME NEW j \in S PROVE i <= j
  <2>1. Upto(j) \in T /\ Upto(j) \in SUBSET S /\ X \in SUBSET S
    BY <1>5 DEF T
  <2>2. Upto(j) \subseteq X => Upto(j) = X
    BY <1>4, <2>1 DEF StrictSubsetOrdering
  <2>3. i \in Nat /\ j \in Nat
    BY <1>0
  <2>4. CASE ~(i <= j)
    <3>1. \A k \in S : k <= j => k <= i
      BY <1>0, <2>3, <2>4
    <3>2. Upto(j) \subseteq X
      BY <1>5, <3>1
    <3>3. i \in Upto(j)
      BY <1>5, <2>2, <2>3, <3>2
    <3> QED BY <2>4, <3>3
  <2> QED BY <2>4
<1>7. \E x \in S : \A y \in S : x <= y
  BY <1>6
<1> QED BY <1>7 DEF First

(* The head of a queue that has one is an active row; no active row comes  *)
(* before it, or it is an immediate one.                                   *)
LEMMA HeadIsActive ==
    ASSUME ActiveIds # {}
    PROVE  /\ Head \in ActiveIds /\ Head \in Ids
           /\ \/ \A j \in ActiveIds : Head <= j
              \/ Head \in Immediate
<1>1. ActiveIds \in SUBSET Ids /\ Immediate \in SUBSET Ids
  BY DEF ActiveIds, Immediate
<1>2. Immediate \subseteq ActiveIds
  BY DEF Immediate, ActiveIds, Active, Pending
<1>3. First(ActiveIds) \in ActiveIds /\ \A j \in ActiveIds : First(ActiveIds) <= j
  BY <1>1, FirstIsLeast
<1>4. Immediate # {} => First(Immediate) \in Immediate
  BY <1>1, FirstIsLeast
<1> QED BY <1>1, <1>2, <1>3, <1>4 DEF Head

(* What adoption finds is an instruction or nothing.                       *)
LEMMA AdoptedIsInstruction ==
    ASSUME NEW rs, NEW evidence, NEW named
    PROVE  /\ Adopted(rs, evidence, named) \in Ids \cup {0}
           /\ Adopted(rs, evidence, named) # 0 =>
                Adopted(rs, evidence, named) \in Adoptable(rs, evidence, named)
<1>1. Adoptable(rs, evidence, named) \in SUBSET Ids
  BY DEF Adoptable
<1>2. Adoptable(rs, evidence, named) # {} =>
        First(Adoptable(rs, evidence, named)) \in Adoptable(rs, evidence, named)
  BY <1>1, FirstIsLeast
<1> QED BY <1>1, <1>2 DEF Adopted

(* Two rows that differ in marks of adoption and completion at the most.   *)
Alike(row, other) == /\ row.state = other.state /\ row.mode = other.mode
                     /\ row.touched = other.touched
                     /\ row.interrupt_sent = other.interrupt_sent
                     /\ row.request_id = other.request_id

(* Adoption changes marks of one row, never its state or what was typed.   *)
LEMMA AdoptRowsType ==
    ASSUME NEW rs \in [Ids -> Row], NEW i \in Ids \cup {0}, NEW named
    PROVE  /\ AdoptRows(rs, i, named) \in [Ids -> Row]
           /\ \A j \in Ids : Alike(AdoptRows(rs, i, named)[j], rs[j])
<1>1. CASE i = 0
  BY <1>1 DEF AdoptRows, Alike
<1>2. CASE i # 0
  <2> DEFINE a == rs[i].adopted \/ rs[i].state = "delivered"
             b == rs[i].named_adoption \/ (Delegated /\ named # 0)
             r == [rs[i] EXCEPT !.adopted = a, !.named_adoption = b]
  <2>1. i \in Ids
    BY <1>2
  <2>2. AdoptRows(rs, i, named) = [rs EXCEPT ![i] = r]
    BY <1>2, <2>1 DEF AdoptRows, Row
  <2>3. a \in BOOLEAN /\ b \in BOOLEAN
    OBVIOUS
  <2> HIDE DEF a, b
  <2>4. r \in Row /\ Alike(r, rs[i])
    BY <2>1, <2>3 DEF Row, Alike
  <2>5. \A j \in Ids : Alike(rs[j], rs[j])
    BY DEF Alike
  <2> HIDE DEF r
  <2> QED BY <2>1, <2>2, <2>4, <2>5
<1> QED BY <1>1, <1>2

-----------------------------------------------------------------------------
(* Type correctness.                                                       *)

(* The types of the constants, in the form the proofs below use them.      *)
LEMMA ConstantTypes ==
    /\ MaxInstr \in Nat /\ Ids = 1 .. MaxInstr /\ Ids \subseteq Nat \ {0}
    /\ Delegated \in BOOLEAN /\ HookEvents \subseteq AgentEvents
    /\ PromptIds \subseteq Nat /\ Modes \subseteq {"queue", "steer", "restart"}
BY ConstantsAssumption DEF Ids

(* An accepted row is a row.                                               *)
LEMMA NewRowType ==
    ASSUME NEW mode \in {"queue", "steer", "restart"}, NEW state \in RowStates
    PROVE  NewRow(mode, state) \in Row
BY DEF NewRow, Row

(* A change of state keeps a row a row.                                    *)
LEMMA RowStateType ==
    ASSUME NEW row \in Row, NEW state \in RowStates
    PROVE  [row EXCEPT !.state = state] \in Row
BY DEF Row

(* No reservation is a write.                                              *)
LEMMA NoWriteType == NoWrite \in Write
BY DEF NoWrite, Write, Threads, WakeThread

(* No hook under way is a hook.                                            *)
LEMMA NoHookType ==
    ASSUME NEW seen \in Nat
    PROVE  NoHook(seen) \in [pc : {"idle", "delegation", "lifecycle"},
                             event : AgentEvents, prompt : Nat, seen : Nat]
BY DEF NoHook, AgentEvents

(* The initial state is well typed.                                        *)
LEMMA InitType == Init => TypeOK
<1> SUFFICES ASSUME Init PROVE TypeOK
  OBVIOUS
<1>1. rows \in [Ids -> Row]
  BY NewRowType DEF Init, RowStates
<1>2. next \in 1 .. MaxInstr + 1
  BY ConstantTypes DEF Init
<1>3. write \in Write
  BY NoWriteType DEF Init
<1>4. hook \in [pc : {"idle", "delegation", "lifecycle"},
                event : AgentEvents, prompt : Nat, seen : Nat]
  BY NoHookType DEF Init
<1>5. typed \in [Ids -> TypedKeys]
  BY DEF Init, TypedKeys
<1>6. session \in [live : BOOLEAN, closing : BOOLEAN, hold : BOOLEAN,
                   status : {"idle", "working", "owed", "needs_input"}]
  BY DEF Init
<1>7. delegation \in [state : {"none", "spawning", "working", "needs_input",
                               "done"}, round : Nat]
  BY DEF Init
<1> QED BY <1>1, <1>2, <1>3, <1>4, <1>5, <1>6, <1>7 DEF Init, TypeOK

(* Accepting, pruning included, keeps the types.                           *)
LEMMA AcceptType ==
    ASSUME TypeOK, NEW mode \in Modes, Accept(mode)
    PROVE  TypeOK'
<1>1. next \in Ids /\ next' = next + 1 /\ next' \in 1 .. MaxInstr + 1
  BY ConstantTypes DEF Accept
<1>2. NewRow(mode, "queued") \in Row
  BY ConstantTypes, NewRowType DEF RowStates
<1>3. ASSUME NEW i \in Ids PROVE [rows[i] EXCEPT !.state = "pruned"] \in Row
  BY RowStateType DEF TypeOK, RowStates
<1>4. rows' \in [Ids -> Row]
  <2>1. ASSUME NEW i \in Ids
        PROVE  (IF i = next THEN NewRow(mode, "queued")
                ELSE IF Full /\ i = First(Prunable)
                     THEN [rows[i] EXCEPT !.state = "pruned"]
                ELSE rows[i]) \in Row
    BY <1>2, <1>3 DEF TypeOK
  <2> QED BY <2>1 DEF Accept
<1>5. callers' \in [Ids -> {"dispatch", "writing", "wake", "done"}]
  BY DEF Accept, TypeOK
<1> QED BY <1>1, <1>4, <1>5 DEF Accept, TypeOK

(* instruction_wake leaves a wake thread state.                            *)
LEMMA WokenType ==
    ASSUME wake \in {"off", "run", "writing", "exit"}
    PROVE  Woken \in {"off", "run", "writing", "exit"}
BY DEF Woken

(* The threads that a dispatch hands back to.                              *)
ThreadTypes ==
    /\ wake \in {"off", "run", "writing", "exit"}
    /\ callers \in [Ids -> {"dispatch", "writing", "wake", "done"}]

(* So does a dispatch that returns to its thread.                          *)
LEMMA ReturnedType ==
    ASSUME ThreadTypes, NEW t \in Threads, NEW keep, Returned(t, keep)
    PROVE  ThreadTypes'
BY DEF Returned, Threads, ThreadTypes

(* And one that has claimed a row.                                         *)
LEMMA ClaimedType ==
    ASSUME ThreadTypes, NEW t \in Threads, Claimed(t)
    PROVE  ThreadTypes'
BY DEF Claimed, Threads, ThreadTypes

(* The wake after an acceptance, a cancel and a resume keep the types.     *)
LEMMA CallerType ==
    ASSUME TypeOK, NEW i \in Ids, AcceptWake(i) \/ Cancel(i) \/ Resume(i)
    PROVE  TypeOK'
<1>1. CASE AcceptWake(i)
  BY <1>1, WokenType DEF AcceptWake, TypeOK
<1>2. \A state \in RowStates : [rows EXCEPT ![i].state = state] \in [Ids -> Row]
  BY RowStateType DEF TypeOK
<1>3. CASE Cancel(i)
  <2>1. rows' \in [Ids -> Row]
    BY <1>2, <1>3 DEF Cancel, RowStates
  <2> QED BY <1>3, <2>1, WokenType DEF Cancel, Disturbed, TypeOK
<1>4. CASE Resume(i)
  <2>1. rows' \in [Ids -> Row]
    BY <1>2, <1>4 DEF Resume, RowStates
  <2> QED BY <1>4, <2>1, WokenType DEF Resume, TypeOK
<1> QED BY <1>1, <1>3, <1>4

(* The write-ahead mark keeps the rows well typed.                         *)
LEMMA BeginWriteType ==
    ASSUME TypeOK, NEW t \in Threads, NEW pc \in {"interrupt", "paste"},
           NEW request \in Nat, NEW prompt \in Nat, NEW i \in Ids,
           BeginWrite(t, i, pc, request, prompt)
    PROVE  TypeOK'
<1>1. [rows[i] EXCEPT !.touched = TRUE, !.state = "uncertain",
                      !.request_id = request, !.dispatch_prompt_id = prompt] \in Row
  <2>1. rows[i] \in Row
    BY DEF TypeOK
  <2> QED BY <2>1 DEF Row, RowStates
<1>2. rows' \in [Ids -> Row]
  BY <1>1 DEF BeginWrite, TypeOK
<1>3. write' \in Write
  BY DEF BeginWrite, NoWrite, Write
<1>4. ThreadTypes'
  BY ClaimedType DEF BeginWrite, ThreadTypes, TypeOK
<1>5. job' \in {"unwritten", "queued"}
  BY DEF BeginWrite, Enqueued
<1> QED BY <1>2, <1>3, <1>4, <1>5 DEF BeginWrite, ThreadTypes, TypeOK

(* A dispatch up to its first write keeps the types.                       *)
LEMMA DispatchType ==
    ASSUME TypeOK, NEW t \in Threads, Dispatch(t)
    PROVE  TypeOK'
<1>0. ThreadTypes
  BY DEF TypeOK, ThreadTypes
<1>1. CASE DispatchNothing(t)
  <2>1. ThreadTypes'
    BY <1>0, <1>1, ReturnedType DEF DispatchNothing
  <2> QED BY <1>1, <2>1 DEF DispatchNothing, TypeOK, ThreadTypes
<1>2. CASE DispatchEnded(t)
  <2>1. ThreadTypes'
    BY <1>0, <1>2, ReturnedType DEF DispatchEnded
  <2>2. Head \in Ids
    BY <1>2, HeadIsActive DEF DispatchEnded, Claimable
  <2>3. [rows[Head] EXCEPT !.state = "held"] \in Row
    BY <2>2, RowStateType DEF TypeOK, RowStates
  <2>4. rows' \in [Ids -> Row]
    BY <1>2, <2>2, <2>3 DEF DispatchEnded, TypeOK
  <2> QED BY <1>2, <2>1, <2>4 DEF DispatchEnded, TypeOK, ThreadTypes
<1>3. CASE DispatchHeld(t)
  <2>1. ThreadTypes'
    BY <1>0, <1>3, ReturnedType DEF DispatchHeld
  <2> QED BY <1>3, <2>1 DEF DispatchHeld, TypeOK, ThreadTypes
<1>4. CASE DispatchInterrupt(t)
  BY <1>4, BeginWriteType, HeadIsActive DEF DispatchInterrupt, Claimable
<1>5. CASE DispatchPaste(t)
  <2>1. RequestOf \in Nat /\ lastPrompt \in Nat
    BY DEF RequestOf, TypeOK
  <2> QED BY <1>5, <2>1, BeginWriteType, HeadIsActive DEF DispatchPaste, Claimable
<1> QED BY <1>1, <1>2, <1>3, <1>4, <1>5 DEF Dispatch

(* The history of keys stays well typed.                                   *)
LEMMA TypedType ==
    ASSUME typed \in [Ids -> TypedKeys], NEW pc
    PROVE  Typed(pc) \in [Ids -> TypedKeys]
<1>1. CASE write.id \in Ids
  <2> DEFINE k == typed[write.id]
             a == k.interrupt + (IF pc = "interrupt" THEN 1 ELSE 0)
             b == k.paste + (IF pc = "paste" THEN 1 ELSE 0)
             c == k.enter + (IF pc = "enter" THEN 1 ELSE 0)
             new == [k EXCEPT !.interrupt = a, !.paste = b, !.enter = c]
  <2>1. k \in TypedKeys
    BY <1>1
  <2>2. a \in Nat /\ b \in Nat /\ c \in Nat
    BY <2>1 DEF TypedKeys
  <2>3. Typed(pc) = [typed EXCEPT ![write.id] = new]
    BY DEF Typed
  <2> HIDE DEF k, a, b, c
  <2>4. new \in TypedKeys
    BY <2>1, <2>2 DEF TypedKeys
  <2> QED BY <1>1, <2>3, <2>4
<1>2. CASE write.id \notin Ids
  BY <1>2 DEF Typed
<1> QED BY <1>1, <1>2

(* The stdin writer keeps the types.                                       *)
LEMMA PtyWriteType ==
    ASSUME TypeOK, NEW outcome \in {"written", "unwritten", "partial"},
           PtyWrite(outcome)
    PROVE  TypeOK'
<1>1. typed' \in [Ids -> TypedKeys]
  BY TypedType DEF PtyWrite, TypeOK
<1>2. write' \in Write
  <2>1. write \in Write /\ (write.submitted \/ (write.pc = "enter"
                                              /\ outcome = "written")) \in BOOLEAN
    BY DEF TypeOK
  <2> QED BY <2>1 DEF PtyWrite, Write
<1>3. disturbed' \in Nat
  BY DEF PtyWrite, Disturbed, TypeOK
<1> QED BY <1>1, <1>2, <1>3 DEF PtyWrite, TypeOK

DelegationType == [state : {"none", "spawning", "working", "needs_input",
                            "done"}, round : Nat]

(* Adoption leaves a delegation.                                           *)
LEMMA AdoptDelegationType ==
    ASSUME NEW rs, NEW i, NEW d \in DelegationType
    PROVE  AdoptDelegation(rs, i, d) \in DelegationType
BY DEF AdoptDelegation, DelegationType

(* Adoption leaves a write.                                                *)
LEMMA AdoptEvidenceType ==
    ASSUME NEW rs, NEW i, NEW evidence \in Write
    PROVE  AdoptEvidence(rs, i, evidence) \in Write
BY DEF AdoptEvidence, Write

(* Adoption leaves a mark.                                                 *)
LEMMA AdoptAwaitingType ==
    ASSUME NEW i
    PROVE  AdoptAwaiting(i) \in BOOLEAN
BY DEF AdoptAwaiting

(* A receipt of nothing written keeps the rows well typed.                 *)
LEMMA UnwrittenType ==
    ASSUME NEW row \in Row
    PROVE  Unwritten(row) \in Row
<1> DEFINE state == IF TargetLive(write) THEN "queued"
                    ELSE IF row.interrupt_sent THEN "uncertain" ELSE "held"
<1>1. state \in RowStates
  BY DEF RowStates
<1> DEFINE sent == row.interrupt_sent
<1>2. sent \in BOOLEAN
  BY DEF Row
<1>3. Unwritten(row) = [row EXCEPT !.state = state, !.touched = sent,
                                   !.request_id = 0]
  BY DEF Unwritten
<1> HIDE DEF state, sent
<1>4. [row EXCEPT !.state = state, !.touched = sent, !.request_id = 0] \in Row
  BY <1>1, <1>2 DEF Row
<1> QED BY <1>3, <1>4

(* Releasing the reservation keeps the types.                              *)
LEMMA ReleaseType ==
    ASSUME TypeOK, NEW keep, Release(keep)
    PROVE  ThreadTypes' /\ write' \in Write /\ job' = "idle"
<1>1. ThreadTypes /\ write.owner \in Threads
  BY DEF TypeOK, ThreadTypes, Write
<1> QED BY <1>1, NoWriteType, ReturnedType DEF Release

(* A withdrawn write keeps the types.                                      *)
LEMMA WithdrawnType ==
    ASSUME TypeOK, Withdrawn
    PROVE  TypeOK'
<1>1. ThreadTypes' /\ write' \in Write /\ job' = "idle"
  BY ReleaseType DEF Withdrawn
<1> QED BY <1>1 DEF Withdrawn, ThreadTypes, TypeOK

(* The receipt of the interrupt keeps the types.                           *)
LEMMA InterruptReceiptType ==
    ASSUME TypeOK, InterruptReceipt
    PROVE  TypeOK'
<1>1. write.id \in Ids /\ rows[write.id] \in Row
  BY DEF InterruptReceipt, Resumed, TypeOK, Write
<1> DEFINE old == rows[write.id]
           ready == old.restart_ready \/ write.restart_ready
           sent == [old EXCEPT !.state = "queued", !.interrupt_sent = TRUE,
                               !.restart_ready = ready]
           new == IF AllWritten /\ TargetLive(write) THEN sent
                  ELSE IF NothingWritten THEN Unwritten(old) ELSE old
<1>2. ready \in BOOLEAN
  OBVIOUS
<1>3. rows' = [rows EXCEPT ![write.id] = new]
  BY DEF InterruptReceipt
<1> HIDE DEF ready
<1>4. sent \in Row
  BY <1>1, <1>2 DEF Row, RowStates
<1>5. new \in Row
  BY <1>1, <1>4, UnwrittenType
<1>6. rows' \in [Ids -> Row]
  BY <1>1, <1>3, <1>5 DEF TypeOK
<1>7. ThreadTypes' /\ write' \in Write /\ job' = "idle"
  BY ReleaseType DEF InterruptReceipt
<1> QED BY <1>6, <1>7 DEF InterruptReceipt, ThreadTypes, TypeOK

(* The receipt of the paste keeps the types.                               *)
LEMMA PasteReceiptType ==
    ASSUME TypeOK, PasteReceipt
    PROVE  TypeOK'
<1>1. write.id \in Ids /\ rows[write.id] \in Row /\ write \in Write
  BY DEF PasteReceipt, Resumed, TypeOK, Write
<1>2. CASE AllWritten /\ TargetLive(write)
  <2>1. write' \in Write
    BY <1>1, <1>2 DEF PasteReceipt, Write
  <2> QED BY <1>2, <2>1 DEF PasteReceipt, TypeOK
<1>3. CASE ~(AllWritten /\ TargetLive(write))
  <2>1. (IF NothingWritten THEN Unwritten(rows[write.id]) ELSE rows[write.id]) \in Row
    BY <1>1, UnwrittenType
  <2>2. rows' \in [Ids -> Row]
    BY <1>1, <1>3, <2>1 DEF PasteReceipt, TypeOK
  <2>3. ThreadTypes' /\ write' \in Write /\ job' = "idle"
    BY <1>3, ReleaseType DEF PasteReceipt
  <2> QED BY <1>3, <2>2, <2>3 DEF PasteReceipt, ThreadTypes, TypeOK
<1> QED BY <1>2, <1>3

(* Handing Enter to the writer keeps the types.                            *)
LEMMA SubmitType ==
    ASSUME TypeOK, Submit
    PROVE  TypeOK'
<1>1. CASE HeldFor(rows[write.id].mode) \/ ~TargetLive(write)
  <2>1. ThreadTypes' /\ write' \in Write /\ job' = "idle"
    BY <1>1, ReleaseType DEF Submit
  <2> QED BY <1>1, <2>1 DEF Submit, ThreadTypes, TypeOK
<1>2. CASE ~(HeldFor(rows[write.id].mode) \/ ~TargetLive(write))
  <2>1. write \in Write
    BY DEF TypeOK
  <2>2. write' \in Write
    BY <1>2, <2>1 DEF Submit, Write
  <2>3. job' \in {"unwritten", "queued"}
    BY <1>2 DEF Submit, Enqueued
  <2> QED BY <1>2, <2>2, <2>3 DEF Submit, TypeOK
<1> QED BY <1>1, <1>2

(* A completed row is a row.                                               *)
LEMMA RowCompletedType ==
    ASSUME NEW row \in Row, NEW b \in BOOLEAN
    PROVE  [row EXCEPT !.completed = b] \in Row
BY DEF Row

(* A row settled by the end of its pane is a row.                          *)
LEMMA RowEndedType ==
    ASSUME NEW row \in Row, NEW b \in BOOLEAN, NEW c \in BOOLEAN
    PROVE  [row EXCEPT !.completed = b, !.restart_ready = c] \in Row
BY DEF Row

(* The rows after Enter are rows.                                          *)
LEMMA SentType ==
    ASSUME rows \in [Ids -> Row]
    PROVE  Sent \in [Ids -> Row]
<1>1. ASSUME NEW i \in Ids
      PROVE  /\ [rows[i] EXCEPT !.state = "delivered"] \in Row
             /\ [rows[i] EXCEPT !.completed = TRUE] \in Row
             /\ rows[i] \in Row
  BY RowStateType, RowCompletedType DEF RowStates
<1> QED BY <1>1 DEF Sent

(* The receipt of Enter keeps the types.                                   *)
LEMMA EnterReceiptType ==
    ASSUME TypeOK, EnterReceipt
    PROVE  TypeOK'
<1>0. ThreadTypes' /\ write' \in Write /\ job' = "idle"
  BY ReleaseType DEF EnterReceipt
<1>1. CASE AllWritten /\ TargetLive(write)
  <2> DEFINE k == IF write.started THEN Adopted(Sent, write, 0) ELSE 0
             rs == AdoptRows(Sent, k, 0)
             done == rs[write.id].completed \/ (/\ write.started /\ write.ended
                                                /\ rs[write.id].adopted)
  <2>1. /\ rows' = [rs EXCEPT ![write.id].completed = done]
        /\ delegation' = AdoptDelegation(Sent, k, delegation)
        /\ awaiting' = IF write.started THEN AdoptAwaiting(k) ELSE TRUE
    BY <1>1 DEF EnterReceipt
  <2>2. k \in Ids \cup {0}
    BY AdoptedIsInstruction
  <2>3. Sent \in [Ids -> Row]
    BY SentType DEF TypeOK
  <2> HIDE DEF k
  <2>4. rs \in [Ids -> Row]
    BY <2>2, <2>3, AdoptRowsType
  <2>5. done \in BOOLEAN
    OBVIOUS
  <2>6. write.id \in Ids
    BY DEF EnterReceipt, Resumed, TypeOK, Write
  <2> HIDE DEF rs, done
  <2>7. [rs[write.id] EXCEPT !.completed = done] \in Row
    BY <2>4, <2>5, <2>6, RowCompletedType
  <2>8. rows' \in [Ids -> Row]
    BY <2>1, <2>4, <2>6, <2>7
  <2>9. delegation' \in DelegationType
    BY <2>1, AdoptDelegationType DEF TypeOK, DelegationType
  <2>10. awaiting' \in BOOLEAN
    BY <2>1, AdoptAwaitingType
  <2> QED BY <1>0, <2>8, <2>9, <2>10 DEF EnterReceipt, ThreadTypes, DelegationType,
                                        TypeOK
<1>2. CASE ~(AllWritten /\ TargetLive(write))
  BY <1>0, <1>2 DEF EnterReceipt, ThreadTypes, TypeOK
<1> QED BY <1>1, <1>2

(* The first step of a hook keeps the types.                               *)
LEMMA HookStatusType ==
    ASSUME TypeOK, NEW event \in HookEvents, NEW prompt \in PromptIds \cup {0},
           HookStatus(event, prompt)
    PROVE  TypeOK'
<1>1. lastPrompt' \in Nat
  BY ConstantTypes DEF HookStatus, TypeOK
<1>2. session' \in [live : BOOLEAN, closing : BOOLEAN, hold : BOOLEAN,
                    status : {"idle", "working", "owed", "needs_input"}]
  BY DEF HookStatus, StatusOf, TypeOK
<1>3. hook' \in [pc : {"idle", "delegation", "lifecycle"},
                 event : AgentEvents, prompt : Nat, seen : Nat]
  BY ConstantTypes DEF HookStatus, TypeOK
<1> QED BY <1>1, <1>2, <1>3 DEF HookStatus, TypeOK

(* What hooks tell keeps the history well typed.                           *)
LEMMA ToldType ==
    ASSUME typed \in [Ids -> TypedKeys], NEW event, NEW prompt
    PROVE  Told(event, prompt) \in [Ids -> TypedKeys]
<1>1. ASSUME NEW r \in TypedKeys, NEW b \in BOOLEAN, NEW c \in BOOLEAN
      PROVE  [r EXCEPT !.idle = b, !.fresh = c] \in TypedKeys
  BY DEF TypedKeys
<1>2. ASSUME NEW i \in Ids
      PROVE  Told(event, prompt)[i] \in TypedKeys
  <2> DEFINE b == typed[i].idle \/ (/\ event = "TurnEnded"
                                    /\ \/ rows[i].interrupt_sent
                                       \/ write.id = i /\ write.pc = "interrupt")
             c == typed[i].fresh \/ (/\ event \in {"PromptSubmitted", "Activity"}
                                     /\ rows[i].touched
                                     /\ \/ prompt = 0
                                        \/ prompt # rows[i].dispatch_prompt_id)
  <2>1. b \in BOOLEAN /\ c \in BOOLEAN
    OBVIOUS
  <2>2. Told(event, prompt)[i] = [typed[i] EXCEPT !.idle = b, !.fresh = c]
    BY DEF Told, TypedKeys
  <2>3. typed[i] \in TypedKeys
    OBVIOUS
  <2> HIDE DEF b, c
  <2> QED BY <1>1, <2>1, <2>2, <2>3
<1> QED BY <1>2 DEF Told

(* What the steps that only look at evidence leave typed.                  *)
HookTypes ==
    /\ rows \in [Ids -> Row] /\ write \in Write
    /\ delegation \in DelegationType /\ awaiting \in BOOLEAN

(* Opening a round leaves a delegation.                                    *)
LEMMA OpenRoundType ==
    ASSUME HookTypes, NEW from, OpenRound(from)
    PROVE  HookTypes'
<1> DEFINE k == Adopted(rows, write, 0)
           d == [delegation EXCEPT !.state = "working"]
<1>1. k \in Ids \cup {0}
  BY AdoptedIsInstruction
<1>2. d \in DelegationType
  BY DEF HookTypes, DelegationType
<1>3. CASE k # 0
  <2>1. /\ rows' = AdoptRows(rows, k, 0) /\ write' = AdoptEvidence(rows, k, write)
        /\ delegation' = AdoptDelegation(rows, k, d)
        /\ awaiting' = AdoptAwaiting(k)
    BY <1>3 DEF OpenRound
  <2> HIDE DEF k, d
  <2> QED BY <1>1, <1>2, <2>1, AdoptRowsType, AdoptEvidenceType,
             AdoptDelegationType, AdoptAwaitingType DEF HookTypes
<1>4. CASE k = 0
  <2>1. /\ \E bump \in BOOLEAN :
             delegation' = [state |-> "working",
                            round |-> IF bump THEN delegation.round + 1
                                      ELSE delegation.round]
        /\ awaiting' = FALSE /\ UNCHANGED <<rows, write>>
    BY <1>4 DEF OpenRound
  <2>2. delegation.round \in Nat
    BY DEF HookTypes, DelegationType
  <2>3. delegation' \in DelegationType
    BY <2>1, <2>2 DEF DelegationType
  <2> QED BY <2>1, <2>3 DEF HookTypes
<1> QED BY <1>3, <1>4

(* The delegation step of a hook keeps the types.                          *)
LEMMA HookDelegationType ==
    ASSUME TypeOK, HookDelegation
    PROVE  TypeOK'
<1>1. hook' \in [pc : {"idle", "delegation", "lifecycle"},
                 event : AgentEvents, prompt : Nat, seen : Nat]
  BY DEF HookDelegation, TypeOK
<1>2. typed' \in [Ids -> TypedKeys]
  BY ToldType DEF HookDelegation, TypeOK
<1>3. disturbed' \in Nat
  <2>1. disturbed \in Nat
    BY DEF TypeOK
  <2>2. disturbed' = disturbed \/ disturbed' = disturbed + 1
    BY DEF HookDelegation, Disturbed
  <2> QED BY <2>1, <2>2
<1>4. HookTypes
  BY DEF TypeOK, HookTypes, DelegationType
<1>5. HookTypes'
  <2>1. CASE OpenRound(delegation.state)
    BY <1>4, <2>1, OpenRoundType
  <2>2. CASE UNCHANGED <<rows, write, delegation, awaiting>>
    BY <1>4, <2>2 DEF HookTypes
  <2>3. CASE /\ \E to \in Transition(hook.event, delegation.state) :
                  delegation' = [delegation EXCEPT !.state = to]
             /\ UNCHANGED <<rows, write, awaiting>>
    <3>1. delegation.state \in {"none", "spawning", "working", "needs_input", "done"}
      BY <1>4 DEF HookTypes, DelegationType
    <3>2. Transition(hook.event, delegation.state) \subseteq
            {"none", "spawning", "working", "needs_input", "done"}
      BY <3>1 DEF Transition
    <3> QED BY <1>4, <2>3, <3>2 DEF HookTypes, DelegationType
  <2> QED BY <2>1, <2>2, <2>3 DEF HookDelegation
<1> QED BY <1>1, <1>2, <1>3, <1>5 DEF HookDelegation, HookTypes, DelegationType,
                                      TypeOK

(* Evidence of a hook leaves a write.                                      *)
LEMMA EvidenceType ==
    ASSUME write \in Write, NEW event, NEW prompt
    PROVE  Evidence(event, prompt) \in Write
<1>1. ASSUME NEW b \in BOOLEAN
      PROVE  /\ [write EXCEPT !.started = b] \in Write
             /\ [write EXCEPT !.session_ended = b] \in Write
             /\ \A c \in BOOLEAN :
                  [write EXCEPT !.ended = b, !.restart_ready = c] \in Write
  BY DEF Write
<1> DEFINE row == rows[write.id]
           stale == Stale(row, prompt)
           correlated == /\ row.dispatch_prompt_id # 0 /\ prompt # 0
                         /\ row.dispatch_prompt_id # prompt
           proven == ~stale /\ (write.submitted \/ correlated)
           s == write.started \/ proven
           a == write.started \/ (proven /\ Working)
           e == write.ended \/ (/\ write.started
                                /\ proven \/ (/\ write.submitted
                                              /\ row.named_adoption))
           r == write.restart_ready \/ event # "QuietSettle"
<1>2. s \in BOOLEAN /\ a \in BOOLEAN /\ e \in BOOLEAN /\ r \in BOOLEAN
  OBVIOUS
<1>3. Evidence(event, prompt) \in
        {write, [write EXCEPT !.started = s], [write EXCEPT !.started = a],
         [write EXCEPT !.ended = e, !.restart_ready = r],
         [write EXCEPT !.session_ended = TRUE]}
  BY DEF Evidence, Write
<1> HIDE DEF s, a, e, r
<1> QED BY <1>1, <1>2, <1>3

(* A turn end leaves rows.                                                 *)
LEMMA TurnEndRowsType ==
    ASSUME rows \in [Ids -> Row], NEW event, NEW prompt
    PROVE  TurnEndRows(event, prompt) \in [Ids -> Row]
<1>1. ASSUME NEW i \in Ids
      PROVE  TurnEndRows(event, prompt)[i] \in Row
  <2> DEFINE b == rows[i].completed \/ (/\ Open(rows[i]) /\ rows[i].adopted
                                        /\ \/ ~Stale(rows[i], prompt)
                                           \/ rows[i].named_adoption)
             c == rows[i].restart_ready \/ (/\ event # "QuietSettle"
                                            /\ rows[i].state = "queued"
                                            /\ rows[i].interrupt_sent)
  <2>1. b \in BOOLEAN /\ c \in BOOLEAN /\ rows[i] \in Row
    OBVIOUS
  <2>2. TurnEndRows(event, prompt)[i] =
          [rows[i] EXCEPT !.completed = b, !.restart_ready = c]
    BY DEF TurnEndRows, Row
  <2> HIDE DEF b, c
  <2> QED BY <2>1, <2>2, RowEndedType
<1> QED BY <1>1 DEF TurnEndRows

(* The end of the pane leaves rows.                                        *)
LEMMA EndedRowsType ==
    ASSUME rows \in [Ids -> Row]
    PROVE  EndedRows \in [Ids -> Row]
<1>1. ASSUME NEW row \in Row
      PROVE  [row EXCEPT !.adopted = TRUE, !.completed = TRUE] \in Row
  BY DEF Row
<1>2. ASSUME NEW i \in Ids
      PROVE  [rows[i] EXCEPT !.state = IF rows[i].touched THEN "uncertain"
                                       ELSE "held"] \in Row
  BY RowStateType DEF RowStates
<1> QED BY <1>1, <1>2 DEF EndedRows

(* instruction_lifecycle keeps the types.                                  *)
LEMMA LifecycleType ==
    ASSUME HookTypes, typed \in [Ids -> TypedKeys],
           wake \in {"off", "run", "writing", "exit"},
           NEW event, NEW prompt, Lifecycle(event, prompt)
    PROVE  /\ HookTypes' /\ typed' \in [Ids -> TypedKeys]
           /\ wake' \in {"off", "run", "writing", "exit"}
<1>1. CASE UNCHANGED <<rows, write, delegation, awaiting, wake, typed>>
  BY <1>1 DEF HookTypes
<1>2. CASE ~(\/ event # "SessionEnded" /\ session.closing
             \/ Retained = {})
  <2> DEFINE evidence == Evidence(event, prompt)
             staleActivity == \E i \in Ids : /\ Open(rows[i]) /\ ~rows[i].adopted
                                             /\ Stale(rows[i], prompt)
             adopts == \/ event = "PromptSubmitted"
                       \/ event = "Activity" /\ Working /\ ~staleActivity
             k == IF adopts THEN Adopted(rows, evidence, 0) ELSE 0
  <2>1. /\ rows' = CASE event \in {"TurnEnded", "QuietSettle"} ->
                           TurnEndRows(event, prompt)
                     [] event \in {"SessionEnded", "TurnFailed"} -> EndedRows
                     [] OTHER -> AdoptRows(rows, k, 0)
        /\ write' = AdoptEvidence(rows, k, evidence)
        /\ delegation' = AdoptDelegation(rows, k, delegation)
        /\ awaiting' = AdoptAwaiting(k)
        /\ wake' = Woken
        /\ typed' = Told(event, prompt)
    BY <1>2 DEF Lifecycle
  <2>2. k \in Ids \cup {0}
    BY AdoptedIsInstruction
  <2>3. evidence \in Write
    BY EvidenceType DEF HookTypes
  <2> HIDE DEF k, evidence
  <2>4. rows' \in [Ids -> Row]
    <3>1. rows \in [Ids -> Row]
      BY DEF HookTypes
    <3>2. AdoptRows(rows, k, 0) \in [Ids -> Row]
      BY <2>2, <3>1, AdoptRowsType
    <3> QED BY <2>1, <3>1, <3>2, TurnEndRowsType, EndedRowsType
  <2>5. write' \in Write /\ delegation' \in DelegationType /\ awaiting' \in BOOLEAN
    BY <2>1, <2>3, AdoptEvidenceType, AdoptDelegationType, AdoptAwaitingType
       DEF HookTypes
  <2> QED BY <2>1, <2>4, <2>5, WokenType, ToldType DEF HookTypes
<1> QED BY <1>1, <1>2 DEF Lifecycle

(* The last step of a hook keeps the types.                                *)
LEMMA HookLifecycleType ==
    ASSUME TypeOK, HookLifecycle
    PROVE  TypeOK'
<1>1. HookTypes /\ hook.seen \in Nat
  BY DEF TypeOK, HookTypes, DelegationType
<1>2. /\ HookTypes' /\ typed' \in [Ids -> TypedKeys]
      /\ wake' \in {"off", "run", "writing", "exit"}
  BY <1>1, LifecycleType DEF HookLifecycle, TypeOK
<1>3. hook' \in [pc : {"idle", "delegation", "lifecycle"},
                 event : AgentEvents, prompt : Nat, seen : Nat]
  BY <1>1, NoHookType DEF HookLifecycle
<1> QED BY <1>2, <1>3 DEF HookLifecycle, HookTypes, DelegationType, TypeOK

(* A hand-back keeps the types.                                            *)
LEMMA NamedHandbackType ==
    ASSUME TypeOK, NEW named \in Nat, NamedHandback(named)
    PROVE  TypeOK'
<1> DEFINE k == Adopted(rows, write, named)
           d == AdoptDelegation(rows, k, delegation)
           asked == /\ AdoptAwaiting(k) /\ named = d.round + 1
                    /\ d.state # "done"
<1>1. HookTypes
  BY DEF TypeOK, HookTypes, DelegationType
<1>2. k \in Ids \cup {0}
  BY AdoptedIsInstruction
<1>3. /\ rows' = AdoptRows(rows, k, named)
      /\ write' = AdoptEvidence(rows, k, write)
      /\ typed' = IF k = 0 THEN typed ELSE [typed EXCEPT ![k].fresh = TRUE]
      /\ awaiting' = (AdoptAwaiting(k) /\ ~asked)
      /\ delegation' = IF asked THEN [d EXCEPT !.round = @ + 1] ELSE d
  BY DEF NamedHandback
<1>4. d \in DelegationType
  BY <1>1, AdoptDelegationType DEF HookTypes
<1>5. awaiting' \in BOOLEAN
  BY <1>3
<1> HIDE DEF asked, d, k
<1>6. delegation' \in DelegationType
  BY <1>3, <1>4 DEF DelegationType
<1>7. rows' \in [Ids -> Row] /\ write' \in Write
  BY <1>1, <1>2, <1>3, AdoptRowsType, AdoptEvidenceType DEF HookTypes
<1>8. typed' \in [Ids -> TypedKeys]
  <2>1. \A r \in TypedKeys : [r EXCEPT !.fresh = TRUE] \in TypedKeys
    BY DEF TypedKeys
  <2>2. typed \in [Ids -> TypedKeys]
    BY DEF TypeOK
  <2> QED BY <1>2, <1>3, <2>1, <2>2
<1>9. hook' \in [pc : {"idle", "delegation", "lifecycle"},
                 event : AgentEvents, prompt : Nat, seen : Nat]
  BY DEF NamedHandback, TypeOK
<1> QED BY <1>5, <1>6, <1>7, <1>8, <1>9 DEF NamedHandback, DelegationType, TypeOK

(* Holds, closes and exits keep the types.                                 *)
LEMMA SurroundingsType ==
    ASSUME TypeOK,
           \/ TurnEndWithheld \/ HoldBegins \/ HoldEnds
           \/ CloseReserved \/ CloseDropped \/ SessionExits
    PROVE  TypeOK'
<1> DEFINE SessionType == [live : BOOLEAN, closing : BOOLEAN, hold : BOOLEAN,
                           status : {"idle", "working", "owed", "needs_input"}]
<1>1. session \in SessionType /\ disturbed \in Nat
  BY DEF TypeOK
<1>2. PICK s : SessionBecomes(s) /\ s \in SessionType
  <2>1. \A b \in BOOLEAN : /\ [session EXCEPT !.hold = b] \in SessionType
                           /\ [session EXCEPT !.closing = b] \in SessionType
    BY <1>1
  <2>2. /\ [session EXCEPT !.status = "owed"] \in SessionType
        /\ [session EXCEPT !.live = FALSE, !.hold = FALSE] \in SessionType
        /\ [session EXCEPT !.live = TRUE, !.status = "idle"] \in SessionType
    BY <1>1
  <2> HIDE DEF SessionType
  <2> QED BY <2>1, <2>2 DEF TurnEndWithheld, HoldBegins, HoldEnds, CloseReserved,
                            CloseDropped, SessionExits
<1>3. disturbed' = disturbed \/ disturbed' = disturbed + 1
  BY DEF TurnEndWithheld, HoldBegins, HoldEnds, CloseReserved, CloseDropped,
         SessionExits, Disturbed
<1>4. exiting' = exiting \/ exiting' = TRUE
  BY DEF TurnEndWithheld, HoldBegins, HoldEnds, CloseReserved, CloseDropped,
         SessionExits
<1>5. session' \in SessionType /\ disturbed' \in Nat
  BY <1>1, <1>2, <1>3 DEF SessionBecomes
<1>6. exiting' \in BOOLEAN
  BY <1>4 DEF TypeOK
<1> QED BY <1>2, <1>5, <1>6 DEF SessionBecomes, TypeOK

(* A refusing daemon keeps the types.                                      *)
LEMMA RefusalType ==
    ASSUME TypeOK, WakeExit \/ RefusalBegins \/ RefusalEnds
    PROVE  TypeOK'
<1>1. CASE WakeExit
  BY <1>1 DEF WakeExit, TypeOK
<1>2. CASE RefusalBegins
  <2>1. disturbed' \in Nat
    BY <1>2 DEF RefusalBegins, Disturbed, TypeOK
  <2> QED BY <1>2, <2>1 DEF RefusalBegins, TypeOK
<1>3. CASE RefusalEnds
  <2>1. refusing' \in BOOLEAN
    BY <1>3 DEF RefusalEnds
  <2>2. UNCHANGED <<rows, next, write, job, wake, callers, session, lastPrompt,
                    awaiting, delegation, hook, exiting, disturbed, typed>>
    BY <1>3 DEF RefusalEnds
  <2> QED BY <2>1, <2>2 DEF TypeOK
<1> QED BY <1>1, <1>2, <1>3

(* The lifecycle of an exit keeps the types.                               *)
LEMMA ExitLifecycleType ==
    ASSUME TypeOK, ExitLifecycle
    PROVE  TypeOK'
<1>1. HookTypes
  BY DEF TypeOK, HookTypes, DelegationType
<1>2. /\ HookTypes' /\ typed' \in [Ids -> TypedKeys]
      /\ wake' \in {"off", "run", "writing", "exit"}
  BY <1>1, LifecycleType DEF ExitLifecycle, TypeOK
<1> QED BY <1>2 DEF ExitLifecycle, HookTypes, DelegationType, TypeOK

(* A crash and its recovery keep the types.                                *)
LEMMA CrashType ==
    ASSUME TypeOK, Crash
    PROVE  TypeOK'
<1>1. rows' \in [Ids -> Row]
  <2>1. ASSUME NEW i \in Ids PROVE Recovered(rows[i]) \in Row
    BY RowStateType DEF Recovered, RowStates, TypeOK
  <2> QED BY <2>1 DEF Crash
<1>2. session' \in [live : BOOLEAN, closing : BOOLEAN, hold : BOOLEAN,
                    status : {"idle", "working", "owed", "needs_input"}]
  BY DEF Crash, TypeOK
<1>3. delegation' \in DelegationType
  BY DEF Crash, TypeOK, DelegationType
<1>4. hook' \in [pc : {"idle", "delegation", "lifecycle"},
                 event : AgentEvents, prompt : Nat, seen : Nat]
  BY NoHookType DEF Crash, TypeOK
<1>5. write' \in Write /\ lastPrompt' \in Nat /\ disturbed' \in Nat
  BY NoWriteType DEF Crash, Disturbed, TypeOK
<1> QED BY <1>1, <1>2, <1>3, <1>4, <1>5 DEF Crash, DelegationType, TypeOK

(* Every step keeps the types.                                             *)
LEMMA NextType == TypeOK /\ [Next]_vars => TypeOK'
<1> SUFFICES ASSUME TypeOK, [Next]_vars PROVE TypeOK'
  OBVIOUS
<1>1. ASSUME NEW mode \in Modes, Accept(mode) PROVE TypeOK'
  BY <1>1, AcceptType
<1>2. ASSUME NEW i \in Ids, AcceptWake(i) \/ Cancel(i) \/ Resume(i) PROVE TypeOK'
  BY <1>2, CallerType
<1>3. ASSUME NEW t \in Threads, Dispatch(t) PROVE TypeOK'
  BY <1>3, DispatchType
<1>4. ASSUME NEW outcome \in {"written", "unwritten", "partial"}, PtyWrite(outcome)
      PROVE  TypeOK'
  BY <1>4, PtyWriteType
<1>5. CASE Continue
  BY <1>5, WithdrawnType, InterruptReceiptType, PasteReceiptType, SubmitType,
     EnterReceiptType DEF Continue
<1>6. ASSUME NEW event \in HookEvents, NEW prompt \in PromptIds \cup {0},
             HookStatus(event, prompt)
      PROVE  TypeOK'
  BY <1>6, HookStatusType
<1>7. CASE HookDelegation \/ HookLifecycle
  BY <1>7, HookDelegationType, HookLifecycleType
<1>8. ASSUME NEW named \in 1 .. MaxHooks + MaxInstr + 1, NamedHandback(named)
      PROVE  TypeOK'
  <2>1. named \in Nat
    BY ConstantsAssumption
  <2> QED BY <1>8, <2>1, NamedHandbackType
<1>9. CASE \/ TurnEndWithheld \/ HoldBegins \/ HoldEnds
           \/ CloseReserved \/ CloseDropped \/ SessionExits
  BY <1>9, SurroundingsType
<1>10. CASE WakeExit \/ RefusalBegins \/ RefusalEnds
  BY <1>10, RefusalType
<1>11. CASE ExitLifecycle \/ Crash
  BY <1>11, ExitLifecycleType, CrashType
<1>12. CASE UNCHANGED vars
  BY <1>12 DEF vars, TypeOK
<1> QED BY <1>1, <1>2, <1>3, <1>4, <1>5, <1>6, <1>7, <1>8, <1>9, <1>10, <1>11,
           <1>12 DEF Next

(* Every state of the queue is well typed: the table, the reservation, the *)
(* threads and the rounds keep the shapes that the daemon's structures     *)
(* give them, whatever the limits and whatever disturbs the queue.         *)
THEOREM TypeCorrect == Spec => []TypeOK
<1>1. Init => TypeOK
  BY InitType
<1>2. TypeOK /\ [Next]_vars => TypeOK'
  BY NextType
<1> QED BY <1>1, <1>2, PTL DEF Spec

-----------------------------------------------------------------------------
(* What reaches the terminal.  The inductive invariant relates the row of  *)
(* an instruction to the keys typed for it: a row that may be claimed has  *)
(* left no prompt on the terminal, and only a claimed one may be typed.    *)

(* No row beyond the next one was accepted, none of its keys was typed.    *)
Unaccepted(i) ==
    i >= next => /\ rows[i].state = "none" /\ rows[i].mode = "queue"
                 /\ typed[i].interrupt = 0 /\ typed[i].paste = 0
                 /\ typed[i].enter = 0

(* A row that a dispatch or a resume may take up again: no prompt of it is *)
(* on the terminal, its interrupt only if the row says so.                 *)
Claimables(i) ==
    rows[i].state \in {"queued", "held"} =>
        /\ typed[i].paste = 0 /\ typed[i].enter = 0
        /\ ~rows[i].interrupt_sent => typed[i].interrupt = 0
        /\ ~rows[i].touched => ~rows[i].interrupt_sent

(* The write-ahead mark is set before anything can become uncertain.       *)
UncertainIsTouched(i) == rows[i].state = "uncertain" => rows[i].touched

TypedOnce(i) == /\ typed[i].interrupt <= 1
                /\ typed[i].enter <= typed[i].paste
                /\ typed[i].paste <= 1

DeliveredTyped(i) == rows[i].state = "delivered" =>
                        typed[i].paste = 1 /\ typed[i].enter = 1

RowInv(i) == /\ Unaccepted(i) /\ Claimables(i) /\ UncertainIsTouched(i)
             /\ TypedOnce(i) /\ DeliveredTyped(i)

(* No byte of the job of the stdin writer is on the terminal.              *)
JobUnwritten == job \in {"queued", "unwritten"}

(* The progress of the one write, step by step.                            *)
Claim(i) ==
    /\ rows[i].state \in {"uncertain", "cancelled", "pruned"}
    /\ write.pc \in {"interrupt", "paste", "settle", "enter"}
    /\ write.pc = "interrupt" =>
         /\ job # "idle" /\ typed[i].paste = 0 /\ typed[i].enter = 0
         /\ ~rows[i].interrupt_sent
         /\ JobUnwritten => typed[i].interrupt = 0
    /\ write.pc = "paste" =>
         /\ job # "idle" /\ typed[i].enter = 0
         /\ ~rows[i].interrupt_sent => typed[i].interrupt = 0
         /\ JobUnwritten => typed[i].paste = 0
         /\ ~JobUnwritten => typed[i].paste = 1
    /\ write.pc = "settle" =>
         job = "idle" /\ typed[i].paste = 1 /\ typed[i].enter = 0
    /\ write.pc = "enter" =>
         /\ job # "idle" /\ typed[i].paste = 1
         /\ JobUnwritten => typed[i].enter = 0
         /\ ~JobUnwritten => typed[i].enter = 1

WriteInv == /\ write.id = 0 => job = "idle"
            /\ write.id # 0 => Claim(write.id)

IInv == TypeOK /\ (\A i \in Ids : RowInv(i)) /\ WriteInv

(* What a step keeps of a row, of the keys typed and of the write.         *)
SameRow(i) == /\ rows'[i].state = rows[i].state
              /\ rows'[i].mode = rows[i].mode
              /\ rows'[i].touched = rows[i].touched
              /\ rows'[i].interrupt_sent = rows[i].interrupt_sent

SameKeys(i) == /\ typed'[i].interrupt = typed[i].interrupt
               /\ typed'[i].paste = typed[i].paste
               /\ typed'[i].enter = typed[i].enter

SameClaim == write'.id = write.id /\ write'.pc = write.pc /\ job' = job

(* A row that keeps its fields and keys keeps its invariant.               *)
LEMMA SameRowInv ==
    ASSUME NEW i \in Ids, RowInv(i), SameRow(i), SameKeys(i), next' = next
    PROVE  RowInv(i)'
BY DEF RowInv, SameRow, SameKeys, Unaccepted, Claimables, UncertainIsTouched,
       TypedOnce, DeliveredTyped

(* A claimed row that keeps its fields and keys keeps its claim.           *)
LEMMA SameClaimInv ==
    ASSUME TypeOK, WriteInv, SameClaim,
           \A i \in Ids : SameRow(i) /\ SameKeys(i)
    PROVE  WriteInv'
<1>1. write.id # 0 => write.id \in Ids
  BY DEF TypeOK, Write
<1>2. CASE write.id = 0
  BY <1>2 DEF WriteInv, SameClaim
<1>3. CASE write.id # 0
  BY <1>1, <1>3 DEF WriteInv, SameClaim, SameRow, SameKeys, Claim, JobUnwritten
<1> QED BY <1>2, <1>3

(* A step that changes neither of these preserves the invariant.           *)
LEMMA FrameInv ==
    ASSUME IInv, TypeOK', SameClaim, next' = next,
           \A i \in Ids : SameRow(i) /\ SameKeys(i)
    PROVE  IInv'
BY SameRowInv, SameClaimInv DEF IInv

(* The initial state satisfies the inductive invariant.                    *)
LEMMA InitInv == Init => IInv
<1> SUFFICES ASSUME Init PROVE IInv
  OBVIOUS
<1>1. TypeOK
  BY InitType
<1>2. ASSUME NEW i \in Ids PROVE RowInv(i)
  BY DEF Init, NewRow, RowInv, Unaccepted, Claimables, UncertainIsTouched,
         TypedOnce, DeliveredTyped
<1>3. WriteInv
  BY DEF Init, NoWrite, WriteInv
<1> QED BY <1>1, <1>2, <1>3 DEF IInv

(* Accepting keeps it.                                                     *)
LEMMA AcceptInv ==
    ASSUME IInv, TypeOK', NEW mode \in Modes, Accept(mode)
    PROVE  IInv'
<1>0. TypeOK /\ next \in Ids
  BY DEF IInv, Accept
<1>1. ASSUME NEW i \in Ids PROVE RowInv(i)'
  <2>1. RowInv(i) /\ next \in Nat /\ i \in Nat /\ next' = next + 1 /\ typed' = typed
    BY <1>0, ConstantTypes DEF IInv, Accept
  <2>2. CASE i = next
    <3>1. rows'[i] = NewRow(mode, "queued")
      BY <2>2 DEF Accept
    <3> QED BY <2>1, <2>2, <3>1 DEF NewRow, RowInv, Unaccepted, Claimables,
                UncertainIsTouched, TypedOnce, DeliveredTyped
  <2>3. CASE i # next /\ rows'[i] = rows[i]
    BY <2>1, <2>3 DEF RowInv, Unaccepted, Claimables, UncertainIsTouched,
                      TypedOnce, DeliveredTyped
  <2>4. CASE i # next /\ rows'[i] # rows[i]
    <3>1. /\ rows'[i] = [rows[i] EXCEPT !.state = "pruned"]
          /\ Full /\ i = First(Prunable) /\ Prunable # {}
      BY <2>4 DEF Accept
    <3>2. i \in Prunable
      BY <3>1, FirstIsLeast DEF Prunable
    <3>3. rows[i].state \in {"cancelled", "delivered"} /\ rows[i] \in Row
      BY <1>0, <3>2 DEF Prunable, Final, TypeOK
    <3>4. rows'[i].state = "pruned"
      BY <3>1, <3>3 DEF Row
    <3> QED BY <2>1, <3>3, <3>4 DEF RowInv, Unaccepted, Claimables,
               UncertainIsTouched, TypedOnce, DeliveredTyped
  <2> QED BY <2>2, <2>3, <2>4
<1>2. WriteInv'
  <2>1. CASE write.id = 0
    BY <2>1 DEF IInv, WriteInv, Accept
  <2>2. CASE write.id # 0
    <3> DEFINE i == write.id
    <3>1. i \in Ids /\ Claim(i) /\ RowInv(i)
      BY <1>0, <2>2 DEF IInv, WriteInv, TypeOK, Write
    <3>2. i # next
      BY <1>0, <3>1, ConstantTypes DEF Claim, RowInv, Unaccepted
    <3>3. \/ rows'[i] = rows[i]
          \/ rows'[i] = [rows[i] EXCEPT !.state = "pruned"]
      BY <3>1, <3>2 DEF Accept
    <3>4. rows[i] \in Row
      BY <1>0, <3>1 DEF TypeOK
    <3>5. /\ rows'[i].state \in {"uncertain", "cancelled", "pruned"}
          /\ rows'[i].interrupt_sent = rows[i].interrupt_sent
      BY <3>1, <3>3, <3>4 DEF Claim, Row
    <3>6. UNCHANGED <<write, job, typed>>
      BY DEF Accept
    <3>7. Claim(i)'
      BY <3>1, <3>5, <3>6 DEF Claim, JobUnwritten
    <3> QED BY <2>2, <3>6, <3>7 DEF WriteInv
  <2> QED BY <2>1, <2>2
<1> QED BY <1>1, <1>2 DEF IInv

(* Cancelling, resuming and holding change the state of one row.           *)
LEMMA StateChangeInv ==
    ASSUME IInv, TypeOK', NEW i \in Ids, NEW state,
           \/ state = "cancelled" /\ rows[i].state # "none"
           \/ state \in {"queued", "held"} /\ rows[i].state \in {"queued", "held"},
           rows' = [rows EXCEPT ![i].state = state],
           UNCHANGED <<next, write, job, typed>>
    PROVE  IInv'
<1>0. TypeOK /\ rows[i] \in Row
  BY DEF IInv, TypeOK
<1>1. /\ rows'[i].state = state /\ rows'[i].mode = rows[i].mode
      /\ rows'[i].touched = rows[i].touched
      /\ rows'[i].interrupt_sent = rows[i].interrupt_sent
      /\ \A j \in Ids : j # i => rows'[j] = rows[j]
  BY <1>0 DEF TypeOK, Row
<1>2. ASSUME NEW j \in Ids PROVE RowInv(j)'
  <2>1. RowInv(j) /\ typed'[j] = typed[j] /\ next' = next
    BY DEF IInv
  <2>2. CASE j # i
    BY <1>1, <2>1, <2>2, SameRowInv DEF SameRow, SameKeys
  <2>3. CASE j = i
    BY <1>1, <2>1, <2>3 DEF RowInv, Unaccepted, Claimables, UncertainIsTouched,
                            TypedOnce, DeliveredTyped
  <2> QED BY <2>2, <2>3
<1>3. WriteInv'
  <2>1. CASE write.id = 0
    BY <2>1 DEF IInv, WriteInv
  <2>2. CASE write.id # 0
    <3>1. write.id \in Ids /\ Claim(write.id)
      BY <1>0, <2>2 DEF IInv, WriteInv, TypeOK, Write
    <3>2. CASE write.id # i
      BY <1>1, <2>2, <3>1, <3>2 DEF WriteInv, Claim, JobUnwritten
    <3>3. CASE write.id = i
      <4>1. state = "cancelled"
        BY <3>1, <3>3 DEF Claim
      <4> QED BY <1>1, <2>2, <3>1, <3>3, <4>1 DEF WriteInv, Claim, JobUnwritten
    <3> QED BY <3>2, <3>3
  <2> QED BY <2>1, <2>2
<1> QED BY <1>2, <1>3 DEF IInv

(* The wake after an acceptance, a cancel and a resume keep it.            *)
LEMMA CallerInv ==
    ASSUME IInv, TypeOK', NEW i \in Ids, AcceptWake(i) \/ Cancel(i) \/ Resume(i)
    PROVE  IInv'
<1>1. CASE AcceptWake(i)
  BY <1>1, FrameInv DEF AcceptWake, SameRow, SameKeys, SameClaim
<1>2. CASE Cancel(i)
  BY <1>2, StateChangeInv DEF Cancel, Retained
<1>3. CASE Resume(i)
  BY <1>3, StateChangeInv DEF Resume
<1> QED BY <1>1, <1>2, <1>3

(* The write-ahead claim: only a queued row is claimed, so no prompt of it *)
(* is on the terminal; an interrupt is claimed only before it was sent.    *)
LEMMA BeginWriteInv ==
    ASSUME IInv, TypeOK', NEW t \in Threads, NEW pc \in {"interrupt", "paste"},
           NEW request \in Nat, NEW prompt \in Nat, NEW i \in Ids,
           rows[i].state = "queued", pc = "interrupt" => ~rows[i].interrupt_sent,
           BeginWrite(t, i, pc, request, prompt)
    PROVE  IInv'
<1>0. TypeOK /\ rows[i] \in Row
  BY DEF IInv, TypeOK
<1>1. /\ rows'[i].state = "uncertain" /\ rows'[i].mode = rows[i].mode
      /\ rows'[i].touched = TRUE
      /\ rows'[i].interrupt_sent = rows[i].interrupt_sent
      /\ \A j \in Ids : j # i => rows'[j] = rows[j]
  BY <1>0 DEF BeginWrite, TypeOK, Row
<1>2. write'.id = i /\ write'.pc = pc /\ job' \in {"queued", "unwritten"}
  BY DEF BeginWrite, NoWrite, Enqueued
<1>3. typed' = typed /\ next' = next
  BY DEF BeginWrite
<1>4. ASSUME NEW j \in Ids PROVE RowInv(j)'
  <2>1. RowInv(j)
    BY DEF IInv
  <2>2. CASE j # i
    BY <1>1, <1>3, <2>1, <2>2, SameRowInv DEF SameRow, SameKeys
  <2>3. CASE j = i
    BY <1>1, <1>3, <2>1, <2>3 DEF RowInv, Unaccepted, Claimables,
       UncertainIsTouched, TypedOnce, DeliveredTyped
  <2> QED BY <2>2, <2>3
<1>5. WriteInv'
  <2>1. /\ typed[i].paste = 0 /\ typed[i].enter = 0
        /\ ~rows[i].interrupt_sent => typed[i].interrupt = 0
    BY DEF IInv, RowInv, Claimables
  <2>2. Claim(i)'
    BY <1>1, <1>2, <1>3, <2>1 DEF Claim, JobUnwritten
  <2>3. i # 0
    BY ConstantTypes
  <2> QED BY <1>2, <2>2, <2>3 DEF WriteInv
<1> QED BY <1>4, <1>5 DEF IInv

(* A dispatch up to its first write keeps it: the row is claimed.          *)
LEMMA DispatchInv ==
    ASSUME IInv, TypeOK', NEW t \in Threads, Dispatch(t)
    PROVE  IInv'
<1>1. CASE DispatchNothing(t)
  BY <1>1, FrameInv DEF DispatchNothing, SameRow, SameKeys, SameClaim
<1>2. CASE DispatchEnded(t)
  BY <1>2, HeadIsActive, StateChangeInv DEF DispatchEnded, Claimable
<1>3. CASE DispatchHeld(t)
  BY <1>3, FrameInv DEF DispatchHeld, SameRow, SameKeys, SameClaim
<1>4. CASE DispatchInterrupt(t)
  BY <1>4, BeginWriteInv, HeadIsActive DEF DispatchInterrupt, Claimable,
     NeedsInterrupt
<1>5. CASE DispatchPaste(t)
  <2>1. RequestOf \in Nat /\ lastPrompt \in Nat
    BY DEF RequestOf, IInv, TypeOK
  <2> QED BY <1>5, <2>1, BeginWriteInv, HeadIsActive DEF DispatchPaste, Claimable
<1> QED BY <1>1, <1>2, <1>3, <1>4, <1>5 DEF Dispatch

(* The stdin writer keeps it: the keys it adds are the claimed ones.       *)
LEMMA PtyWriteInv ==
    ASSUME IInv, TypeOK', NEW outcome \in {"written", "unwritten", "partial"},
           PtyWrite(outcome)
    PROVE  IInv'
<1>0. TypeOK
  BY DEF IInv
<1> DEFINE i == write.id
<1>1. /\ job = "queued" /\ job' = outcome /\ rows' = rows /\ next' = next
      /\ write.id # 0 /\ i \in Ids /\ Claim(i) /\ RowInv(i)
  BY <1>0 DEF PtyWrite, IInv, WriteInv, TypeOK, Write
<1>2. write'.id = write.id /\ write'.pc = write.pc
  BY <1>0 DEF PtyWrite, TypeOK, Write
<1>3. ASSUME NEW j \in Ids, j # i PROVE typed'[j] = typed[j]
  BY <1>0, <1>3 DEF PtyWrite, Typed, TypeOK
<1>4. CASE outcome = "unwritten"
  <2>1. typed' = typed
    BY <1>4 DEF PtyWrite
  <2>2. ASSUME NEW j \in Ids PROVE RowInv(j)'
    BY <1>1, <2>1, SameRowInv DEF IInv, SameRow, SameKeys
  <2>3. WriteInv'
    BY <1>1, <1>2, <1>4, <2>1 DEF WriteInv, Claim, JobUnwritten
  <2> QED BY <2>2, <2>3 DEF IInv
<1>5. CASE outcome # "unwritten"
  <2>1. typed[i] \in TypedKeys
    BY <1>0, <1>1 DEF TypeOK
  <2>2. /\ typed'[i].interrupt =
             typed[i].interrupt + (IF write.pc = "interrupt" THEN 1 ELSE 0)
        /\ typed'[i].paste = typed[i].paste + (IF write.pc = "paste" THEN 1 ELSE 0)
        /\ typed'[i].enter = typed[i].enter + (IF write.pc = "enter" THEN 1 ELSE 0)
    BY <1>0, <1>1, <1>5, <2>1 DEF PtyWrite, Typed, TypeOK, TypedKeys
  <2>3. /\ typed[i].interrupt \in Nat /\ typed[i].paste \in Nat
        /\ typed[i].enter \in Nat
    BY <2>1 DEF TypedKeys
  <2>4. /\ write.pc \in {"interrupt", "paste", "enter"}
        /\ write.pc = "interrupt" => /\ typed'[i].interrupt = 1
                                     /\ typed'[i].paste = 0 /\ typed'[i].enter = 0
        /\ write.pc = "paste" => /\ typed'[i].interrupt = typed[i].interrupt
                                 /\ typed'[i].paste = 1 /\ typed'[i].enter = 0
        /\ write.pc = "enter" => /\ typed'[i].interrupt = typed[i].interrupt
                                 /\ typed'[i].paste = 1 /\ typed'[i].enter = 1
    BY <1>1, <2>2, <2>3 DEF Claim, JobUnwritten
  <2>5. ASSUME NEW j \in Ids, j = i PROVE RowInv(j)'
    <3>1. rows[i].state \in {"uncertain", "cancelled", "pruned"}
      BY <1>1 DEF Claim
    <3> QED BY <1>1, <2>4, <2>5, <3>1 DEF RowInv, Unaccepted, Claimables,
               UncertainIsTouched, TypedOnce, DeliveredTyped
  <2>6. ASSUME NEW j \in Ids PROVE RowInv(j)'
    BY <1>1, <1>3, <2>5, SameRowInv DEF IInv, SameRow, SameKeys
  <2>7. WriteInv'
    BY <1>1, <1>2, <1>5, <2>4 DEF WriteInv, Claim, JobUnwritten
  <2> QED BY <2>6, <2>7 DEF IInv
<1> QED BY <1>4, <1>5

(* Releasing the reservation keeps it.                                     *)
LEMMA ReleaseInv ==
    ASSUME NEW keep, Release(keep)
    PROVE  WriteInv'
BY DEF Release, NoWrite, WriteInv

(* A receipt that rewrites the row of the write and drops the reservation  *)
(* has to make that row right, and leaves the others as they are.          *)
LEMMA ReceiptInv ==
    ASSUME IInv, TypeOK', NEW i \in Ids, NEW row \in Row,
           rows' = [rows EXCEPT ![i] = row],
           UNCHANGED <<next, typed>>, WriteInv',
           rows[i].state = "uncertain", row.mode = rows[i].mode,
           row.state \in {"queued", "held"} =>
              /\ typed[i].paste = 0 /\ typed[i].enter = 0
              /\ ~row.interrupt_sent => typed[i].interrupt = 0
              /\ ~row.touched => ~row.interrupt_sent,
           row.state = "uncertain" => row.touched,
           row.state \in {"queued", "held", "uncertain"}
    PROVE  IInv'
<1>0. TypeOK
  BY DEF IInv
<1>1. rows'[i] = row /\ \A j \in Ids : j # i => rows'[j] = rows[j]
  BY <1>0 DEF TypeOK
<1>2. ASSUME NEW j \in Ids PROVE RowInv(j)'
  <2>1. RowInv(j)
    BY DEF IInv
  <2>2. CASE j # i
    BY <1>1, <2>1, <2>2, SameRowInv DEF SameRow, SameKeys
  <2>3. CASE j = i
    BY <1>1, <2>1, <2>3 DEF RowInv, Unaccepted, Claimables, UncertainIsTouched,
                            TypedOnce, DeliveredTyped
  <2> QED BY <2>2, <2>3
<1> QED BY <1>2 DEF IInv

(* A withdrawn write keeps it.                                             *)
LEMMA WithdrawnInv ==
    ASSUME IInv, TypeOK', Withdrawn
    PROVE  IInv'
<1>1. WriteInv'
  BY ReleaseInv DEF Withdrawn
<1>2. ASSUME NEW j \in Ids PROVE RowInv(j)'
  BY SameRowInv DEF Withdrawn, IInv, SameRow, SameKeys
<1> QED BY <1>1, <1>2 DEF IInv

(* What a receipt of no byte makes of the row.                             *)
LEMMA UnwrittenFacts ==
    ASSUME NEW row \in Row
    PROVE  /\ Unwritten(row) \in Row
           /\ Unwritten(row).mode = row.mode
           /\ Unwritten(row).touched = row.interrupt_sent
           /\ Unwritten(row).interrupt_sent = row.interrupt_sent
           /\ Unwritten(row).state \in {"queued", "held", "uncertain"}
           /\ Unwritten(row).state = "uncertain" => row.interrupt_sent
<1>1. Unwritten(row) \in Row
  BY UnwrittenType
<1> QED BY <1>1 DEF Unwritten, Row

(* The receipt of the interrupt keeps it.                                  *)
LEMMA InterruptReceiptInv ==
    ASSUME IInv, TypeOK', InterruptReceipt
    PROVE  IInv'
<1> DEFINE i == write.id
           old == rows[i]
<1>1. /\ TypeOK /\ i \in Ids /\ Claim(i) /\ RowInv(i) /\ old \in Row
      /\ old.state = "uncertain" /\ old.touched
      /\ write.pc = "interrupt" /\ job \in {"written", "unwritten", "partial"}
      /\ job \in {"idle", "queued", "written", "unwritten", "partial"}
  BY DEF InterruptReceipt, Resumed, IInv, TypeOK, Write, WriteInv, Claim, RowInv,
         UncertainIsTouched
<1>2. /\ typed[i].paste = 0 /\ typed[i].enter = 0 /\ ~old.interrupt_sent
      /\ job = "unwritten" => typed[i].interrupt = 0
  BY <1>1 DEF Claim, JobUnwritten
<1>3. WriteInv'
  BY ReleaseInv DEF InterruptReceipt
<1>4. UNCHANGED <<next, typed>>
  BY DEF InterruptReceipt
<1>5. CASE AllWritten /\ TargetLive(write)
  <2> DEFINE ready == old.restart_ready \/ write.restart_ready
             row == [old EXCEPT !.state = "queued", !.interrupt_sent = TRUE,
                                !.restart_ready = ready]
  <2>1. rows' = [rows EXCEPT ![i] = row]
    BY <1>5 DEF InterruptReceipt
  <2>2. ready \in BOOLEAN
    OBVIOUS
  <2> HIDE DEF ready
  <2>3. /\ row \in Row /\ row.state = "queued" /\ row.interrupt_sent
        /\ row.mode = old.mode /\ row.touched
    BY <1>1, <2>2 DEF Row, RowStates
  <2> HIDE DEF row
  <2> QED BY <1>1, <1>2, <1>3, <1>4, <2>1, <2>3, ReceiptInv
<1>6. CASE ~(AllWritten /\ TargetLive(write)) /\ NothingWritten
  <2>1. rows' = [rows EXCEPT ![i] = Unwritten(old)]
    BY <1>6 DEF InterruptReceipt
  <2>2. typed[i].interrupt = 0
    BY <1>2, <1>6 DEF NothingWritten
  <2> QED BY <1>1, <1>2, <1>3, <1>4, <2>1, <2>2, ReceiptInv, UnwrittenFacts
<1>7. CASE ~(AllWritten /\ TargetLive(write)) /\ ~NothingWritten
  <2>1. rows' = [rows EXCEPT ![i] = old]
    BY <1>7 DEF InterruptReceipt
  <2> QED BY <1>1, <1>3, <1>4, <2>1, ReceiptInv
<1> QED BY <1>5, <1>6, <1>7

(* The receipt of the paste keeps it.                                      *)
LEMMA PasteReceiptInv ==
    ASSUME IInv, TypeOK', PasteReceipt
    PROVE  IInv'
<1> DEFINE i == write.id
           old == rows[i]
<1>1. /\ TypeOK /\ i \in Ids /\ i # 0 /\ Claim(i) /\ RowInv(i) /\ old \in Row
      /\ old.state = "uncertain" /\ old.touched /\ write.pc = "paste"
      /\ job \in {"written", "unwritten", "partial"}
  BY DEF PasteReceipt, Resumed, IInv, TypeOK, Write, WriteInv, Claim, RowInv,
         UncertainIsTouched
<1>2. /\ typed[i].enter = 0
      /\ ~old.interrupt_sent => typed[i].interrupt = 0
      /\ job = "unwritten" => typed[i].paste = 0
      /\ job # "unwritten" => typed[i].paste = 1
  BY <1>1 DEF Claim, JobUnwritten
<1>4. UNCHANGED <<next, typed>>
  BY DEF PasteReceipt
<1>5. CASE AllWritten /\ TargetLive(write)
  <2>1. rows' = rows /\ write' = [write EXCEPT !.pc = "settle"] /\ job' = "idle"
    BY <1>5 DEF PasteReceipt
  <2>2. ASSUME NEW j \in Ids PROVE RowInv(j)'
    BY <1>4, <2>1, SameRowInv DEF IInv, SameRow, SameKeys
  <2>3. write'.id = i /\ write'.pc = "settle"
    BY <1>1, <2>1 DEF TypeOK, Write
  <2>4. WriteInv'
    BY <1>1, <1>2, <1>4, <1>5, <2>1, <2>3 DEF WriteInv, Claim, AllWritten
  <2> QED BY <2>2, <2>4 DEF IInv
<1>6. CASE ~(AllWritten /\ TargetLive(write))
  <2>1. WriteInv'
    BY <1>6, ReleaseInv DEF PasteReceipt
  <2>2. CASE NothingWritten
    <3>1. rows' = [rows EXCEPT ![i] = Unwritten(old)]
      BY <1>6, <2>2 DEF PasteReceipt
    <3>2. typed[i].paste = 0
      BY <1>2, <2>2 DEF NothingWritten
    <3> QED BY <1>1, <1>2, <1>4, <2>1, <3>1, <3>2, ReceiptInv, UnwrittenFacts
  <2>3. CASE ~NothingWritten
    <3>1. rows' = [rows EXCEPT ![i] = old]
      BY <1>6, <2>3 DEF PasteReceipt
    <3> QED BY <1>1, <1>4, <2>1, <3>1, ReceiptInv
  <2> QED BY <2>2, <2>3
<1> QED BY <1>5, <1>6

(* Handing Enter to the writer keeps it.                                   *)
LEMMA SubmitInv ==
    ASSUME IInv, TypeOK', Submit
    PROVE  IInv'
<1> DEFINE i == write.id
<1>1. /\ TypeOK /\ i \in Ids /\ i # 0 /\ Claim(i) /\ write.pc = "settle"
      /\ typed[i].paste = 1 /\ typed[i].enter = 0
  BY DEF Submit, Resumed, IInv, TypeOK, Write, WriteInv, Claim
<1>2. UNCHANGED <<rows, next, typed>>
  BY DEF Submit
<1>3. ASSUME NEW j \in Ids PROVE RowInv(j)'
  BY <1>2, SameRowInv DEF IInv, SameRow, SameKeys
<1>4. CASE HeldFor(rows[write.id].mode) \/ ~TargetLive(write)
  <2>1. WriteInv'
    BY <1>4, ReleaseInv DEF Submit
  <2> QED BY <1>3, <2>1 DEF IInv
<1>5. CASE ~(HeldFor(rows[write.id].mode) \/ ~TargetLive(write))
  <2>1. write' = [write EXCEPT !.pc = "enter"] /\ job' \in {"queued", "unwritten"}
    BY <1>5 DEF Submit, Enqueued
  <2>2. write'.id = i /\ write'.pc = "enter"
    BY <1>1, <2>1 DEF TypeOK, Write
  <2>3. WriteInv'
    BY <1>1, <1>2, <2>1, <2>2 DEF WriteInv, Claim, JobUnwritten
  <2> QED BY <1>3, <2>3 DEF IInv
<1> QED BY <1>4, <1>5

(* The receipt of Enter keeps it: delivered means typed.                   *)
LEMMA EnterReceiptInv ==
    ASSUME IInv, TypeOK', EnterReceipt
    PROVE  IInv'
<1> DEFINE i == write.id
<1>1. /\ TypeOK /\ i \in Ids /\ Claim(i) /\ write.pc = "enter"
      /\ typed[i].paste = 1
      /\ job = "written" => typed[i].enter = 1
  BY DEF EnterReceipt, Resumed, IInv, TypeOK, Write, WriteInv, Claim, JobUnwritten
<1>2. WriteInv' /\ UNCHANGED <<next, typed>>
  BY ReleaseInv DEF EnterReceipt
<1>3. CASE AllWritten /\ TargetLive(write)
  <2> DEFINE k == IF write.started THEN Adopted(Sent, write, 0) ELSE 0
             rs == AdoptRows(Sent, k, 0)
             done == rs[i].completed \/ (/\ write.started /\ write.ended
                                         /\ rs[i].adopted)
  <2>1. rows' = [rs EXCEPT ![i].completed = done]
    BY <1>3 DEF EnterReceipt
  <2>2. k \in Ids \cup {0}
    BY AdoptedIsInstruction
  <2>3. Sent \in [Ids -> Row]
    BY <1>1, SentType DEF TypeOK
  <2> HIDE DEF k
  <2>4. /\ rs \in [Ids -> Row]
        /\ \A j \in Ids : /\ rs[j].state = Sent[j].state
                          /\ rs[j].mode = Sent[j].mode
                          /\ rs[j].touched = Sent[j].touched
                          /\ rs[j].interrupt_sent = Sent[j].interrupt_sent
    <3>1. AdoptRows(Sent, k, 0) \in [Ids -> Row]
      BY <2>2, <2>3, AdoptRowsType
    <3>2. \A j \in Ids : Alike(AdoptRows(Sent, k, 0)[j], Sent[j])
      BY <2>2, <2>3, AdoptRowsType
    <3> QED BY <3>1, <3>2 DEF Alike
  <2> HIDE DEF rs, done
  <2>5. ASSUME NEW j \in Ids
        PROVE  /\ rows'[j].state = rs[j].state
               /\ rows'[j].mode = rs[j].mode
               /\ rows'[j].touched = rs[j].touched
               /\ rows'[j].interrupt_sent = rs[j].interrupt_sent
    BY <1>1, <2>1, <2>4 DEF Row
  <2>6. ASSUME NEW j \in Ids
        PROVE  /\ Sent[j].state = IF j = i THEN "delivered" ELSE rows[j].state
               /\ Sent[j].mode = rows[j].mode
               /\ Sent[j].touched = rows[j].touched
               /\ Sent[j].interrupt_sent = rows[j].interrupt_sent
    <3>1. rows[j] \in Row
      BY <1>1 DEF TypeOK
    <3> QED BY <3>1 DEF Sent, Row
  <2>7. ASSUME NEW j \in Ids PROVE RowInv(j)'
    <3>1. RowInv(j)
      BY DEF IInv
    <3>2. CASE j # i
      BY <1>2, <2>4, <2>5, <2>6, <3>1, <3>2, SameRowInv DEF SameRow, SameKeys
    <3>3. CASE j = i
      <4>1. rows'[j].state = "delivered" /\ rows'[j].mode = rows[j].mode
        BY <2>4, <2>5, <2>6, <3>3
      <4>2. typed'[j].paste = 1 /\ typed'[j].enter = 1
        BY <1>1, <1>2, <1>3, <3>3 DEF AllWritten
      <4>3. rows[j].state # "none"
        BY <1>1, <3>3 DEF Claim
      <4> QED BY <1>2, <3>1, <4>1, <4>2, <4>3 DEF RowInv, Unaccepted, Claimables,
                 UncertainIsTouched, TypedOnce, DeliveredTyped
    <3> QED BY <3>2, <3>3
  <2> QED BY <1>2, <2>7 DEF IInv
<1>4. CASE ~(AllWritten /\ TargetLive(write))
  <2>1. ASSUME NEW j \in Ids PROVE RowInv(j)'
    BY <1>2, <1>4, SameRowInv DEF EnterReceipt, IInv, SameRow, SameKeys
  <2> QED BY <1>2, <2>1 DEF IInv
<1> QED BY <1>3, <1>4

(* What the agent's hooks tell changes no key, no claim and no state.      *)
LEMMA ToldKeeps ==
    ASSUME typed \in [Ids -> TypedKeys], NEW event, NEW prompt, NEW i \in Ids
    PROVE  /\ Told(event, prompt)[i].interrupt = typed[i].interrupt
           /\ Told(event, prompt)[i].paste = typed[i].paste
           /\ Told(event, prompt)[i].enter = typed[i].enter
BY DEF Told, TypedKeys

(* Adoption keeps the claim of the write.                                  *)
LEMMA AdoptEvidenceKeeps ==
    ASSUME NEW rs, NEW i, NEW evidence \in Write
    PROVE  /\ AdoptEvidence(rs, i, evidence).id = evidence.id
           /\ AdoptEvidence(rs, i, evidence).pc = evidence.pc
BY DEF AdoptEvidence, Write

(* So does the evidence of a hook.                                         *)
LEMMA EvidenceKeeps ==
    ASSUME write \in Write, NEW event, NEW prompt
    PROVE  /\ Evidence(event, prompt).id = write.id
           /\ Evidence(event, prompt).pc = write.pc
BY DEF Evidence, Write

(* Adoption keeps what the invariant says of a row.                        *)
LEMMA AdoptRowsKeep ==
    ASSUME rows \in [Ids -> Row], NEW i \in Ids \cup {0}, NEW named,
           rows' = AdoptRows(rows, i, named), NEW j \in Ids
    PROVE  SameRow(j)
<1>1. PICK rs : rs = rows
  OBVIOUS
<1>2. rs \in [Ids -> Row]
  BY <1>1
<1>3. Alike(AdoptRows(rs, i, named)[j], rs[j])
  BY <1>2, AdoptRowsType
<1> QED BY <1>1, <1>3 DEF SameRow, Alike

(* So does a turn end.                                                     *)
LEMMA TurnEndRowsKeep ==
    ASSUME rows \in [Ids -> Row], NEW event, NEW prompt, NEW i \in Ids
    PROVE  /\ TurnEndRows(event, prompt)[i].state = rows[i].state
           /\ TurnEndRows(event, prompt)[i].mode = rows[i].mode
           /\ TurnEndRows(event, prompt)[i].touched = rows[i].touched
           /\ TurnEndRows(event, prompt)[i].interrupt_sent = rows[i].interrupt_sent
<1>1. rows[i] \in Row
  OBVIOUS
<1> QED BY <1>1 DEF TurnEndRows, Row

(* Ending and recovering: what was queued becomes uncertain if touched,    *)
(* and is held otherwise.                                                  *)
SettledRow(i) ==
    /\ rows'[i].mode = rows[i].mode
    /\ rows'[i].touched = rows[i].touched
    /\ rows'[i].interrupt_sent = rows[i].interrupt_sent
    /\ rows'[i].state = IF rows[i].state # "queued" THEN rows[i].state
                        ELSE IF rows[i].touched THEN "uncertain" ELSE "held"

(* A row that is settled keeps its invariant.                              *)
LEMMA SettledRowInv ==
    ASSUME NEW i \in Ids, RowInv(i), SettledRow(i), SameKeys(i), next' = next
    PROVE  RowInv(i)'
BY DEF RowInv, SettledRow, SameKeys, Unaccepted, Claimables, UncertainIsTouched,
       TypedOnce, DeliveredTyped

(* The end of a pane settles rows and does nothing else.                   *)
LEMMA EndedRowsSettle ==
    ASSUME rows \in [Ids -> Row], rows' = EndedRows, NEW i \in Ids
    PROVE  SettledRow(i)
<1>1. rows[i] \in Row
  OBVIOUS
<1> QED BY <1>1 DEF EndedRows, Row, SettledRow, Open

(* instruction_lifecycle keeps the inductive invariant.                    *)
LEMMA LifecycleInv ==
    ASSUME IInv, TypeOK', NEW event, NEW prompt, Lifecycle(event, prompt),
           next' = next, job' = job
    PROVE  IInv'
<1>0. TypeOK /\ rows \in [Ids -> Row] /\ write \in Write
      /\ typed \in [Ids -> TypedKeys]
  BY DEF IInv, TypeOK
<1>1. CASE UNCHANGED <<rows, write, delegation, awaiting, wake, typed>>
  BY <1>1, FrameInv DEF SameRow, SameKeys, SameClaim
<1>2. CASE ~(\/ event # "SessionEnded" /\ session.closing
             \/ Retained = {})
  <2> DEFINE evidence == Evidence(event, prompt)
             staleActivity == \E i \in Ids : /\ Open(rows[i]) /\ ~rows[i].adopted
                                             /\ Stale(rows[i], prompt)
             adopts == \/ event = "PromptSubmitted"
                       \/ event = "Activity" /\ Working /\ ~staleActivity
             k == IF adopts THEN Adopted(rows, evidence, 0) ELSE 0
  <2>1. /\ rows' = CASE event \in {"TurnEnded", "QuietSettle"} ->
                           TurnEndRows(event, prompt)
                     [] event \in {"SessionEnded", "TurnFailed"} -> EndedRows
                     [] OTHER -> AdoptRows(rows, k, 0)
        /\ write' = AdoptEvidence(rows, k, evidence)
        /\ typed' = Told(event, prompt)
    BY <1>2 DEF Lifecycle
  <2>2. k \in Ids \cup {0}
    BY AdoptedIsInstruction
  <2>3. evidence \in Write /\ evidence.id = write.id /\ evidence.pc = write.pc
    BY <1>0, EvidenceType, EvidenceKeeps
  <2> HIDE DEF k, evidence
  <2>4. SameClaim
    BY <2>1, <2>3, AdoptEvidenceKeeps DEF SameClaim
  <2>5. ASSUME NEW i \in Ids PROVE SameKeys(i)
    BY <1>0, <2>1, ToldKeeps DEF SameKeys
  <2>6. CASE event \in {"SessionEnded", "TurnFailed"}
    <3>1. rows' = EndedRows
      BY <2>1, <2>6
    <3>2. ASSUME NEW i \in Ids PROVE SettledRow(i)
      BY <1>0, <3>1, EndedRowsSettle
    <3>3. ASSUME NEW i \in Ids PROVE RowInv(i)'
      BY <2>5, <3>2, SettledRowInv DEF IInv
    <3>4. WriteInv'
      <4>1. CASE write.id = 0
        BY <2>4, <4>1 DEF IInv, WriteInv, SameClaim
      <4>2. CASE write.id # 0
        <5>1. write.id \in Ids /\ Claim(write.id)
          BY <1>0, <4>2 DEF IInv, WriteInv, Write
        <5> QED BY <2>4, <2>5, <3>2, <4>2, <5>1 DEF WriteInv, Claim, SameClaim,
                   SameKeys, SettledRow, JobUnwritten
      <4> QED BY <4>1, <4>2
    <3> QED BY <3>3, <3>4 DEF IInv
  <2>7. CASE event \in {"TurnEnded", "QuietSettle"}
    <3>1. ASSUME NEW i \in Ids PROVE SameRow(i)
      <4>1. rows' = TurnEndRows(event, prompt)
        BY <2>1, <2>7
      <4> QED BY <1>0, <4>1, TurnEndRowsKeep DEF SameRow
    <3> QED BY <2>4, <2>5, <3>1, FrameInv
  <2>8. CASE event \notin {"TurnEnded", "QuietSettle", "SessionEnded", "TurnFailed"}
    <3>1. ASSUME NEW i \in Ids PROVE SameRow(i)
      <4>1. rows' = AdoptRows(rows, k, 0)
        BY <2>1, <2>8
      <4> QED BY <1>0, <2>2, <4>1, AdoptRowsKeep
    <3> QED BY <2>4, <2>5, <3>1, FrameInv
  <2> QED BY <2>6, <2>7, <2>8
<1> QED BY <1>1, <1>2 DEF Lifecycle

(* The delegation step of a hook keeps it.                                 *)
LEMMA HookDelegationInv ==
    ASSUME IInv, TypeOK', HookDelegation
    PROVE  IInv'
<1>0. /\ TypeOK /\ rows \in [Ids -> Row] /\ write \in Write
      /\ typed \in [Ids -> TypedKeys] /\ next' = next /\ job' = job
  BY DEF IInv, TypeOK, HookDelegation
<1>1. ASSUME NEW i \in Ids PROVE SameKeys(i)
  BY <1>0, ToldKeeps DEF HookDelegation, SameKeys
<1>2. CASE UNCHANGED <<rows, write>>
  BY <1>0, <1>1, <1>2, FrameInv DEF SameRow, SameClaim
<1>3. CASE OpenRound(delegation.state) /\ ~UNCHANGED <<rows, write>>
  <2> DEFINE k == Adopted(rows, write, 0)
  <2>1. rows' = AdoptRows(rows, k, 0) /\ write' = AdoptEvidence(rows, k, write)
    BY <1>3 DEF OpenRound
  <2>2. k \in Ids \cup {0}
    BY AdoptedIsInstruction
  <2> HIDE DEF k
  <2>3. ASSUME NEW i \in Ids PROVE SameRow(i)
    BY <1>0, <2>1, <2>2, AdoptRowsKeep
  <2>4. SameClaim
    BY <1>0, <2>1, AdoptEvidenceKeeps DEF SameClaim
  <2> QED BY <1>0, <1>1, <2>3, <2>4, FrameInv
<1> QED BY <1>2, <1>3 DEF HookDelegation

(* A hand-back keeps it.                                                   *)
LEMMA NamedHandbackInv ==
    ASSUME IInv, TypeOK', NEW named \in Nat, NamedHandback(named)
    PROVE  IInv'
<1>0. /\ TypeOK /\ rows \in [Ids -> Row] /\ write \in Write
      /\ typed \in [Ids -> TypedKeys] /\ next' = next /\ job' = job
  BY DEF IInv, TypeOK, NamedHandback
<1> DEFINE k == Adopted(rows, write, named)
<1>1. /\ rows' = AdoptRows(rows, k, named)
      /\ write' = AdoptEvidence(rows, k, write)
      /\ typed' = IF k = 0 THEN typed ELSE [typed EXCEPT ![k].fresh = TRUE]
  BY DEF NamedHandback
<1>2. k \in Ids \cup {0}
  BY AdoptedIsInstruction
<1> HIDE DEF k
<1>3. ASSUME NEW i \in Ids PROVE SameRow(i)
  BY <1>0, <1>1, <1>2, AdoptRowsKeep
<1>4. SameClaim
  BY <1>0, <1>1, AdoptEvidenceKeeps DEF SameClaim
<1>5. ASSUME NEW i \in Ids PROVE SameKeys(i)
  BY <1>0, <1>1, <1>2 DEF SameKeys, TypedKeys
<1> QED BY <1>0, <1>3, <1>4, <1>5, FrameInv

(* A crash keeps it: what may have been typed is uncertain.                *)
LEMMA CrashInv ==
    ASSUME IInv, TypeOK', Crash
    PROVE  IInv'
<1>1. ASSUME NEW i \in Ids PROVE RowInv(i)'
  <2>1. RowInv(i) /\ rows[i] \in Row /\ typed' = typed /\ next' = next
    BY DEF IInv, TypeOK, Crash
  <2>2. rows'[i] = Recovered(rows[i])
    BY DEF Crash
  <2>3. SettledRow(i)
    BY <2>1, <2>2 DEF SettledRow, Recovered, Row, RowInv, UncertainIsTouched
  <2> QED BY <2>1, <2>3, SettledRowInv DEF SameKeys
<1>2. WriteInv'
  BY DEF Crash, NoWrite, WriteInv
<1> QED BY <1>1, <1>2 DEF IInv

(* Holds, closes and exits keep it.                                        *)
LEMMA SurroundingsInv ==
    ASSUME IInv, TypeOK',
           \/ WakeExit \/ RefusalBegins \/ RefusalEnds \/ TurnEndWithheld
           \/ HoldBegins \/ HoldEnds \/ CloseReserved \/ CloseDropped
           \/ SessionExits
           \/ \E event \in HookEvents, prompt \in PromptIds \cup {0} :
                HookStatus(event, prompt)
    PROVE  IInv'
<1>1. UNCHANGED <<rows, next, write, job, typed>>
  BY DEF WakeExit, RefusalBegins, RefusalEnds, TurnEndWithheld, HoldBegins,
         HoldEnds, CloseReserved, CloseDropped, SessionExits,
         HookStatus, SessionBecomes
<1> QED BY <1>1, FrameInv DEF SameRow, SameKeys, SameClaim

(* Every step keeps it.                                                    *)
LEMMA NextInv == IInv /\ [Next]_vars => IInv'
<1> SUFFICES ASSUME IInv, [Next]_vars PROVE IInv'
  OBVIOUS
<1>0. TypeOK'
  BY NextType DEF IInv
<1>1. ASSUME NEW mode \in Modes, Accept(mode) PROVE IInv'
  BY <1>0, <1>1, AcceptInv
<1>2. ASSUME NEW i \in Ids, AcceptWake(i) \/ Cancel(i) \/ Resume(i) PROVE IInv'
  BY <1>0, <1>2, CallerInv
<1>3. ASSUME NEW t \in Threads, Dispatch(t) PROVE IInv'
  BY <1>0, <1>3, DispatchInv
<1>4. ASSUME NEW outcome \in {"written", "unwritten", "partial"}, PtyWrite(outcome)
      PROVE  IInv'
  BY <1>0, <1>4, PtyWriteInv
<1>5. CASE Continue
  BY <1>0, <1>5, WithdrawnInv, InterruptReceiptInv, PasteReceiptInv, SubmitInv,
     EnterReceiptInv DEF Continue
<1>6. CASE HookDelegation
  BY <1>0, <1>6, HookDelegationInv
<1>7. CASE HookLifecycle \/ ExitLifecycle
  BY <1>0, <1>7, LifecycleInv DEF HookLifecycle, ExitLifecycle
<1>8. ASSUME NEW named \in 1 .. MaxHooks + MaxInstr + 1, NamedHandback(named)
      PROVE  IInv'
  <2>1. named \in Nat
    BY ConstantsAssumption
  <2> QED BY <1>0, <1>8, <2>1, NamedHandbackInv
<1>9. CASE \/ WakeExit \/ RefusalBegins \/ RefusalEnds \/ TurnEndWithheld
           \/ HoldBegins \/ HoldEnds \/ CloseReserved \/ CloseDropped
           \/ SessionExits
           \/ \E event \in HookEvents, prompt \in PromptIds \cup {0} :
                HookStatus(event, prompt)
  BY <1>0, <1>9, SurroundingsInv
<1>10. CASE Crash
  BY <1>0, <1>10, CrashInv
<1>11. CASE UNCHANGED vars
  BY <1>0, <1>11, FrameInv DEF vars, SameRow, SameKeys, SameClaim
<1> QED BY <1>1, <1>2, <1>3, <1>4, <1>5, <1>6, <1>7, <1>8, <1>9, <1>10, <1>11
        DEF Next

(* The invariant holds in every state, for every table and every limit: it *)
(* is what the claim of instruction_begin_write and the receipts maintain. *)
THEOREM Invariance == Spec => []IInv
<1>1. Init => IInv
  BY InitInv
<1>2. IInv /\ [Next]_vars => IInv'
  BY NextInv
<1> QED BY <1>1, <1>2, PTL DEF Spec

(* No instruction is typed twice, whatever crashes, lost receipts, partial *)
(* writes, cancellations and resumptions happen around its dispatch.       *)
THEOREM AtMostOnce == Spec => []TypedAtMostOnce
<1>1. IInv => TypedAtMostOnce
  BY DEF IInv, RowInv, TypedOnce, TypedAtMostOnce
<1> QED BY <1>1, Invariance, PTL

(* A row that instruction_resume accepts, and one that is queued without   *)
(* the write-ahead mark, has left no byte on the terminal.                 *)
THEOREM ResumableIsUntyped == Spec => []ResumableWasNeverTyped
<1>1. IInv => ResumableWasNeverTyped
  BY DEF IInv, RowInv, Claimables, ResumableWasNeverTyped
<1> QED BY <1>1, Invariance, PTL

(* A row is delivered only when its whole prompt and its Enter were typed. *)
THEOREM DeliveredIsTyped == Spec => []DeliveredWasTyped
<1>1. IInv => DeliveredWasTyped
  BY DEF IInv, RowInv, DeliveredTyped, DeliveredWasTyped
<1> QED BY <1>1, Invariance, PTL

-----------------------------------------------------------------------------
(* Order and cancellation.  Three kinds of step matter: an acceptance, the *)
(* claim of the head, and the Enter after the pause.  Every other step     *)
(* makes no row pending, revives none and hands no key to the writer.      *)

(* Cancelled, and perhaps pruned from the table since.                     *)
Gone(row) == row.state \in {"cancelled", "pruned"}

RowQuiet(i) == /\ rows'[i].mode = rows[i].mode
               /\ Pending(rows'[i]) => Pending(rows[i])
               /\ Gone(rows[i]) => Gone(rows'[i])

WriteQuiet == write'.id \in {write.id, 0} /\ (job' = "queued" => job = "queued")

Quiet == (\A i \in Ids : RowQuiet(i)) /\ WriteQuiet

Claims == \E t \in Threads : DispatchInterrupt(t) \/ DispatchPaste(t)

(* A step that keeps a row is quiet about it.                              *)
LEMMA SameIsQuiet ==
    ASSUME NEW i \in Ids, SameRow(i)
    PROVE  RowQuiet(i)
BY DEF SameRow, RowQuiet, Pending, Gone

(* So is one that settles it.                                              *)
LEMMA SettledIsQuiet ==
    ASSUME NEW i \in Ids, SettledRow(i)
    PROVE  RowQuiet(i)
BY DEF SettledRow, RowQuiet, Pending, Gone

(* A step that changes the state of one row, which was pending or becomes  *)
(* final, and keeps its mode.                                              *)
LEMMA OneRowQuiet ==
    ASSUME rows \in [Ids -> Row], NEW i \in Ids, NEW row \in Row,
           rows' = [rows EXCEPT ![i] = row], row.mode = rows[i].mode,
           \/ row.state = "cancelled"
           \/ Pending(rows[i]) /\ ~Gone(rows[i])
    PROVE  \A j \in Ids : RowQuiet(j)
BY DEF RowQuiet, Pending, Gone

(* Releasing the reservation is quiet.                                     *)
LEMMA ReleaseQuiet ==
    ASSUME NEW keep, Release(keep)
    PROVE  WriteQuiet
BY DEF Release, NoWrite, WriteQuiet

(* The wake after an acceptance, a cancel and a resume are quiet.          *)
LEMMA CallerQuiet ==
    ASSUME TypeOK, NEW i \in Ids, AcceptWake(i) \/ Cancel(i) \/ Resume(i)
    PROVE  Quiet
<1>1. rows \in [Ids -> Row] /\ rows[i] \in Row
  BY DEF TypeOK
<1>2. WriteQuiet
  BY DEF AcceptWake, Cancel, Resume, WriteQuiet
<1>3. CASE AcceptWake(i)
  BY <1>2, <1>3 DEF AcceptWake, Quiet, RowQuiet
<1>4. CASE Cancel(i)
  <2> DEFINE row == [rows[i] EXCEPT !.state = "cancelled"]
  <2>1. rows' = [rows EXCEPT ![i] = row]
    BY <1>4 DEF Cancel
  <2>2. row \in Row /\ row.mode = rows[i].mode /\ row.state = "cancelled"
    BY <1>1 DEF Row, RowStates
  <2> HIDE DEF row
  <2> QED BY <1>1, <1>2, <2>1, <2>2, OneRowQuiet DEF Quiet
<1>5. CASE Resume(i)
  <2> DEFINE row == [rows[i] EXCEPT !.state = "queued"]
  <2>1. rows' = [rows EXCEPT ![i] = row] /\ rows[i].state = "held"
    BY <1>5 DEF Resume
  <2>2. row \in Row /\ row.mode = rows[i].mode
    BY <1>1 DEF Row, RowStates
  <2> HIDE DEF row
  <2> QED BY <1>1, <1>2, <2>1, <2>2, OneRowQuiet DEF Quiet, Pending, Gone
<1> QED BY <1>3, <1>4, <1>5

(* A dispatch that claims nothing is quiet.                                *)
LEMMA DispatchQuiet ==
    ASSUME TypeOK, NEW t \in Threads,
           DispatchNothing(t) \/ DispatchEnded(t) \/ DispatchHeld(t)
    PROVE  Quiet
<1>1. rows \in [Ids -> Row]
  BY DEF TypeOK
<1>2. WriteQuiet
  BY DEF DispatchNothing, DispatchEnded, DispatchHeld, WriteQuiet
<1>3. CASE DispatchNothing(t) \/ DispatchHeld(t)
  BY <1>2, <1>3 DEF DispatchNothing, DispatchHeld, Quiet, RowQuiet
<1>4. CASE DispatchEnded(t)
  <2>1. Head \in Ids /\ rows[Head].state = "queued"
    BY <1>4, HeadIsActive DEF DispatchEnded, Claimable
  <2> DEFINE row == [rows[Head] EXCEPT !.state = "held"]
  <2>2. rows' = [rows EXCEPT ![Head] = row]
    BY <1>4 DEF DispatchEnded
  <2>3. row \in Row /\ row.mode = rows[Head].mode
    BY <1>1, <2>1 DEF Row, RowStates
  <2> HIDE DEF row
  <2> QED BY <1>1, <1>2, <2>1, <2>2, <2>3, OneRowQuiet DEF Quiet, Pending, Gone
<1> QED BY <1>3, <1>4

(* The receipts of the interrupt and the paste are quiet.                  *)
LEMMA ReceiptQuiet ==
    ASSUME TypeOK, InterruptReceipt \/ PasteReceipt
    PROVE  Quiet
<1> DEFINE i == write.id
<1>1. /\ rows \in [Ids -> Row] /\ write \in Write /\ i \in Ids /\ rows[i] \in Row
      /\ rows[i].state = "uncertain"
  BY DEF TypeOK, Write, InterruptReceipt, PasteReceipt, Resumed
<1>2. WriteQuiet
  <2>1. CASE InterruptReceipt
    BY <2>1, ReleaseQuiet DEF InterruptReceipt
  <2>2. CASE PasteReceipt /\ AllWritten /\ TargetLive(write)
    BY <1>1, <2>2 DEF PasteReceipt, WriteQuiet, Write
  <2>3. CASE PasteReceipt /\ ~(AllWritten /\ TargetLive(write))
    BY <2>3, ReleaseQuiet DEF PasteReceipt
  <2> QED BY <2>1, <2>2, <2>3
<1>3. PICK row \in Row : rows' = [rows EXCEPT ![i] = row] /\ row.mode = rows[i].mode
  <2>1. CASE InterruptReceipt /\ AllWritten /\ TargetLive(write)
    <3> DEFINE ready == rows[i].restart_ready \/ write.restart_ready
               row == [rows[i] EXCEPT !.state = "queued", !.interrupt_sent = TRUE,
                                      !.restart_ready = ready]
    <3>1. rows' = [rows EXCEPT ![i] = row] /\ ready \in BOOLEAN
      BY <2>1 DEF InterruptReceipt
    <3> HIDE DEF ready
    <3>2. row \in Row /\ row.mode = rows[i].mode
      BY <1>1, <3>1 DEF Row, RowStates
    <3> QED BY <3>1, <3>2
  <2>2. CASE \/ PasteReceipt /\ AllWritten /\ TargetLive(write)
             \/ ~(AllWritten /\ TargetLive(write)) /\ ~NothingWritten
    <3>1. rows' = [rows EXCEPT ![i] = rows[i]]
      BY <1>1, <2>2 DEF InterruptReceipt, PasteReceipt
    <3> QED BY <1>1, <3>1
  <2>3. CASE ~(AllWritten /\ TargetLive(write)) /\ NothingWritten
    <3>1. rows' = [rows EXCEPT ![i] = Unwritten(rows[i])]
      BY <2>3 DEF InterruptReceipt, PasteReceipt
    <3> QED BY <1>1, <3>1, UnwrittenFacts
  <2> QED BY <2>1, <2>2, <2>3
<1> QED BY <1>1, <1>2, <1>3, OneRowQuiet DEF Quiet, Pending, Gone

(* The receipt of Enter is quiet.                                          *)
LEMMA EnterReceiptQuiet ==
    ASSUME TypeOK, EnterReceipt
    PROVE  Quiet
<1> DEFINE i == write.id
<1>1. /\ rows \in [Ids -> Row] /\ write \in Write /\ i \in Ids
      /\ rows[i].state = "uncertain"
  BY DEF TypeOK, Write, EnterReceipt, Resumed
<1>2. WriteQuiet
  BY ReleaseQuiet DEF EnterReceipt
<1>3. CASE ~(AllWritten /\ TargetLive(write))
  BY <1>2, <1>3 DEF EnterReceipt, Quiet, RowQuiet
<1>4. CASE AllWritten /\ TargetLive(write)
  <2> DEFINE k == IF write.started THEN Adopted(Sent, write, 0) ELSE 0
             rs == AdoptRows(Sent, k, 0)
             done == rs[i].completed \/ (/\ write.started /\ write.ended
                                         /\ rs[i].adopted)
  <2>1. rows' = [rs EXCEPT ![i].completed = done]
    BY <1>4 DEF EnterReceipt
  <2>2. k \in Ids \cup {0}
    BY AdoptedIsInstruction
  <2>3. Sent \in [Ids -> Row]
    BY SentType DEF TypeOK
  <2> HIDE DEF k
  <2>4. /\ rs \in [Ids -> Row]
        /\ \A j \in Ids : rs[j].state = Sent[j].state /\ rs[j].mode = Sent[j].mode
    <3>1. rs \in [Ids -> Row] /\ \A j \in Ids : Alike(rs[j], Sent[j])
      BY <2>2, <2>3, AdoptRowsType
    <3> QED BY <3>1 DEF Alike
  <2> HIDE DEF rs, done
  <2>5. ASSUME NEW j \in Ids PROVE RowQuiet(j)
    <3>1. rows'[j].state = rs[j].state /\ rows'[j].mode = rs[j].mode
      BY <1>1, <2>1, <2>4 DEF Row
    <3>2. rows[j] \in Row
      BY <1>1
    <3>3. /\ Sent[j].state = IF j = i THEN "delivered" ELSE rows[j].state
          /\ Sent[j].mode = rows[j].mode
      BY <3>2 DEF Sent, Row
    <3> QED BY <1>1, <2>4, <3>1, <3>3 DEF RowQuiet, Pending, Gone
  <2> QED BY <1>2, <2>5 DEF Quiet
<1> QED BY <1>3, <1>4

(* instruction_lifecycle is quiet.                                         *)
LEMMA LifecycleQuiet ==
    ASSUME TypeOK, NEW event, NEW prompt, Lifecycle(event, prompt), job' = job
    PROVE  Quiet
<1>0. rows \in [Ids -> Row] /\ write \in Write
  BY DEF TypeOK
<1>1. CASE UNCHANGED <<rows, write, delegation, awaiting, wake, typed>>
  BY <1>1 DEF Quiet, RowQuiet, WriteQuiet
<1>2. CASE ~(\/ event # "SessionEnded" /\ session.closing
             \/ Retained = {})
  <2> DEFINE evidence == Evidence(event, prompt)
             staleActivity == \E i \in Ids : /\ Open(rows[i]) /\ ~rows[i].adopted
                                             /\ Stale(rows[i], prompt)
             adopts == \/ event = "PromptSubmitted"
                       \/ event = "Activity" /\ Working /\ ~staleActivity
             k == IF adopts THEN Adopted(rows, evidence, 0) ELSE 0
  <2>1. /\ rows' = CASE event \in {"TurnEnded", "QuietSettle"} ->
                           TurnEndRows(event, prompt)
                     [] event \in {"SessionEnded", "TurnFailed"} -> EndedRows
                     [] OTHER -> AdoptRows(rows, k, 0)
        /\ write' = AdoptEvidence(rows, k, evidence)
    BY <1>2 DEF Lifecycle
  <2>2. k \in Ids \cup {0}
    BY AdoptedIsInstruction
  <2>3. evidence \in Write /\ evidence.id = write.id
    BY <1>0, EvidenceType, EvidenceKeeps
  <2> HIDE DEF k, evidence
  <2>4. WriteQuiet
    BY <2>1, <2>3, AdoptEvidenceKeeps DEF WriteQuiet
  <2>5. ASSUME NEW i \in Ids PROVE RowQuiet(i)
    <3>1. CASE rows' = EndedRows
      BY <1>0, <3>1, EndedRowsSettle, SettledIsQuiet
    <3>2. CASE rows' = TurnEndRows(event, prompt)
      BY <1>0, <3>2, TurnEndRowsKeep, SameIsQuiet DEF SameRow
    <3>3. CASE rows' = AdoptRows(rows, k, 0)
      BY <1>0, <2>2, <3>3, AdoptRowsKeep, SameIsQuiet
    <3> QED BY <2>1, <3>1, <3>2, <3>3
  <2> QED BY <2>4, <2>5 DEF Quiet
<1> QED BY <1>1, <1>2 DEF Lifecycle

(* Adoption by a hook or a hand-back is quiet.                             *)
LEMMA AdoptionQuiet ==
    ASSUME TypeOK, HookDelegation \/ \E named \in Nat : NamedHandback(named)
    PROVE  Quiet
<1>0. rows \in [Ids -> Row] /\ write \in Write /\ job' = job
  BY DEF TypeOK, HookDelegation, NamedHandback
<1>1. CASE UNCHANGED <<rows, write>>
  BY <1>0, <1>1 DEF Quiet, RowQuiet, WriteQuiet
<1>2. ASSUME NEW k \in Ids \cup {0}, NEW named,
             rows' = AdoptRows(rows, k, named),
             write' = AdoptEvidence(rows, k, write)
      PROVE  Quiet
  <2>1. ASSUME NEW i \in Ids PROVE RowQuiet(i)
    BY <1>0, <1>2, AdoptRowsKeep, SameIsQuiet
  <2>2. WriteQuiet
    BY <1>0, <1>2, AdoptEvidenceKeeps DEF WriteQuiet
  <2> QED BY <2>1, <2>2 DEF Quiet
<1>3. CASE HookDelegation /\ ~UNCHANGED <<rows, write>>
  <2>1. OpenRound(delegation.state)
    BY <1>3 DEF HookDelegation
  <2> DEFINE k == Adopted(rows, write, 0)
  <2>2. rows' = AdoptRows(rows, k, 0) /\ write' = AdoptEvidence(rows, k, write)
    BY <1>3, <2>1 DEF OpenRound
  <2>3. k \in Ids \cup {0}
    BY AdoptedIsInstruction
  <2> HIDE DEF k
  <2> QED BY <1>2, <2>2, <2>3
<1>4. ASSUME NEW named \in Nat, NamedHandback(named) PROVE Quiet
  <2> DEFINE k == Adopted(rows, write, named)
  <2>1. /\ rows' = AdoptRows(rows, k, named)
        /\ write' = AdoptEvidence(rows, k, write)
    BY <1>4 DEF NamedHandback
  <2>2. k \in Ids \cup {0}
    BY AdoptedIsInstruction
  <2> HIDE DEF k
  <2> QED BY <1>2, <2>1, <2>2
<1> QED BY <1>1, <1>3, <1>4

(* So is what happens around the queue, a crash included.                  *)
LEMMA SurroundingsQuiet ==
    ASSUME TypeOK,
           \/ WakeExit \/ RefusalBegins \/ RefusalEnds \/ TurnEndWithheld
           \/ HoldBegins \/ HoldEnds \/ CloseReserved \/ CloseDropped
           \/ SessionExits \/ Withdrawn \/ Crash
           \/ \E event \in HookEvents, prompt \in PromptIds \cup {0} :
                HookStatus(event, prompt)
           \/ \E outcome \in {"written", "unwritten", "partial"} : PtyWrite(outcome)
    PROVE  Quiet
<1>0. rows \in [Ids -> Row] /\ write \in Write
  BY DEF TypeOK
<1>1. CASE Crash
  <2>1. WriteQuiet
    BY <1>1 DEF Crash, NoWrite, WriteQuiet
  <2>2. ASSUME NEW i \in Ids PROVE RowQuiet(i)
    <3>1. rows[i] \in Row /\ rows'[i] = Recovered(rows[i])
      BY <1>0, <1>1 DEF Crash
    <3> QED BY <3>1 DEF Recovered, Row, RowQuiet, Pending, Gone
  <2> QED BY <2>1, <2>2 DEF Quiet
<1>2. CASE Withdrawn
  BY <1>2, ReleaseQuiet DEF Withdrawn, Quiet, RowQuiet
<1>3. ASSUME NEW outcome \in {"written", "unwritten", "partial"}, PtyWrite(outcome)
      PROVE  Quiet
  <2>1. rows' = rows /\ job' # "queued" /\ write'.id = write.id
    BY <1>0, <1>3 DEF PtyWrite, Write
  <2> QED BY <2>1 DEF Quiet, RowQuiet, WriteQuiet
<1>4. CASE \/ WakeExit \/ RefusalBegins \/ RefusalEnds \/ TurnEndWithheld
           \/ HoldBegins \/ HoldEnds \/ CloseReserved \/ CloseDropped
           \/ SessionExits
           \/ \E event \in HookEvents, prompt \in PromptIds \cup {0} :
                HookStatus(event, prompt)
  <2>1. UNCHANGED <<rows, write, job>>
    BY <1>4 DEF WakeExit, RefusalBegins, RefusalEnds, TurnEndWithheld, HoldBegins,
           HoldEnds, CloseReserved, CloseDropped, SessionExits, HookStatus,
           SessionBecomes
  <2> QED BY <2>1 DEF Quiet, RowQuiet, WriteQuiet
<1> QED BY <1>1, <1>2, <1>3, <1>4

(* The kinds of step.                                                      *)
LEMMA StepKinds ==
    ASSUME TypeOK, [Next]_vars
    PROVE  \/ Quiet \/ Submit \/ Claims
           \/ \E mode \in Modes : Accept(mode)
<1>1. ASSUME NEW i \in Ids, AcceptWake(i) \/ Cancel(i) \/ Resume(i) PROVE Quiet
  BY <1>1, CallerQuiet
<1>2. ASSUME NEW t \in Threads, Dispatch(t) PROVE Quiet \/ Claims
  BY <1>2, DispatchQuiet DEF Dispatch, Claims
<1>3. CASE Continue
  BY <1>3, SurroundingsQuiet, ReceiptQuiet, EnterReceiptQuiet DEF Continue
<1>4. CASE HookLifecycle \/ ExitLifecycle
  BY <1>4, LifecycleQuiet DEF HookLifecycle, ExitLifecycle
<1>5. CASE \/ HookDelegation
           \/ \E named \in 1 .. MaxHooks + MaxInstr + 1 : NamedHandback(named)
  <2>1. HookDelegation \/ \E named \in Nat : NamedHandback(named)
    BY <1>5, ConstantsAssumption
  <2> QED BY <2>1, AdoptionQuiet
<1>6. CASE \/ WakeExit \/ RefusalBegins \/ RefusalEnds \/ TurnEndWithheld
           \/ HoldBegins \/ HoldEnds \/ CloseReserved \/ CloseDropped
           \/ SessionExits \/ Crash
           \/ \E event \in HookEvents, prompt \in PromptIds \cup {0} :
                HookStatus(event, prompt)
           \/ \E outcome \in {"written", "unwritten", "partial"} : PtyWrite(outcome)
  BY <1>6, SurroundingsQuiet
<1>7. CASE UNCHANGED vars
  BY <1>7 DEF vars, Quiet, RowQuiet, WriteQuiet
<1> QED BY <1>1, <1>2, <1>3, <1>4, <1>5, <1>6, <1>7 DEF Next

(* The claim is of a queued row with no pending row before it, provided    *)
(* that no pending row comes before an immediate one.                      *)
Passable == \A i, j \in Ids : j < i /\ rows[i].mode # "queue" => ~Pending(rows[j])

OrderInv == Passable /\ TypedInOrder

(* What a dispatch knows of the rows when it claims one.                   *)
LEMMA ClaimFacts ==
    ASSUME TypeOK, Claims
    PROVE  /\ Head \in Ids /\ rows[Head].state = "queued" /\ write'.id = Head
           /\ \/ \A j \in ActiveIds : Head <= j
              \/ Head \in Immediate
           /\ \A i \in Ids : /\ rows'[i].mode = rows[i].mode
                             /\ Pending(rows'[i]) <=> Pending(rows[i])
                             /\ Gone(rows'[i]) <=> Gone(rows[i])
<1>1. PICK t, pc, request, prompt :
        Claimable /\ BeginWrite(t, Head, pc, request, prompt)
  BY DEF Claims, DispatchInterrupt, DispatchPaste
<1>2. /\ Head \in Ids /\ rows[Head].state = "queued"
      /\ \/ \A j \in ActiveIds : Head <= j
         \/ Head \in Immediate
  BY <1>1, HeadIsActive DEF Claimable
<1>3. write'.id = Head
  BY <1>1 DEF BeginWrite, NoWrite
<1>4. ASSUME NEW i \in Ids
      PROVE  /\ rows'[i].mode = rows[i].mode
             /\ Pending(rows'[i]) <=> Pending(rows[i])
             /\ Gone(rows'[i]) <=> Gone(rows[i])
  <2>1. rows[i] \in Row /\ rows[Head] \in Row /\ rows \in [Ids -> Row]
    BY <1>2 DEF TypeOK
  <2>2. CASE i = Head
    <3>1. rows'[i].state = "uncertain" /\ rows'[i].mode = rows[i].mode
      BY <1>1, <1>2, <2>1, <2>2 DEF BeginWrite, Row
    <3> QED BY <1>2, <2>2, <3>1 DEF Pending, Gone
  <2>3. CASE i # Head
    BY <1>1, <1>2, <2>1, <2>3 DEF BeginWrite
  <2> QED BY <2>2, <2>3
<1> QED BY <1>2, <1>3, <1>4

(* A quiet step keeps the order of typing.                                 *)
LEMMA QuietOrder ==
    ASSUME TypeOK, OrderInv, Quiet
    PROVE  OrderInv'
<1>1. write.id \in Ids \cup {0} /\ 0 \notin Ids
  BY ConstantTypes DEF TypeOK, Write
<1>2. Passable'
  BY DEF OrderInv, Passable, Quiet, RowQuiet
<1>3. TypedInOrder'
  BY <1>1 DEF OrderInv, TypedInOrder, Quiet, RowQuiet, WriteQuiet
<1> QED BY <1>2, <1>3 DEF OrderInv

(* Handing Enter to the writer keeps it.                                   *)
LEMMA SubmitOrder ==
    ASSUME TypeOK, OrderInv, Submit
    PROVE  OrderInv'
<1>1. rows' = rows /\ write \in Write
  BY DEF Submit, TypeOK
<1>2. write'.id \in {write.id, 0}
  <2>1. CASE Release(FALSE)
    BY <2>1, ReleaseQuiet DEF WriteQuiet
  <2>2. CASE write' = [write EXCEPT !.pc = "enter"]
    BY <1>1, <2>2 DEF Write
  <2> QED BY <2>1, <2>2 DEF Submit
<1>3. TypedInOrder'
  BY <1>1, <1>2 DEF OrderInv, TypedInOrder
<1>4. Passable'
  BY <1>1 DEF OrderInv, Passable
<1> QED BY <1>3, <1>4 DEF OrderInv

(* Claiming a row keeps it.                                                *)
LEMMA ClaimsOrder ==
    ASSUME TypeOK, OrderInv, Claims
    PROVE  OrderInv'
<1>1. Passable'
  BY ClaimFacts DEF OrderInv, Passable
<1>2. ASSUME NEW i \in Ids, i < Head PROVE ~Pending(rows'[i])
  <2>1. Head \in Ids /\ i \in Nat /\ Head \in Nat
    BY ClaimFacts, ConstantTypes
  <2>2. ~Pending(rows[i])
    <3>1. CASE Head \in Immediate
      BY <1>2, <2>1, <3>1 DEF OrderInv, Passable, Immediate
    <3>2. CASE \A j \in ActiveIds : Head <= j
      BY <1>2, <2>1, <3>2 DEF ActiveIds, Active
    <3> QED BY <3>1, <3>2, ClaimFacts
  <2> QED BY <2>2, ClaimFacts
<1>3. TypedInOrder'
  BY <1>2, ClaimFacts DEF TypedInOrder
<1> QED BY <1>1, <1>3 DEF OrderInv

(* Accepting keeps it.                                                     *)
LEMMA AcceptOrder ==
    ASSUME IInv, OrderInv, NEW mode \in Modes, Accept(mode)
    PROVE  OrderInv'
<1>0. /\ TypeOK /\ next \in Ids /\ next \in Nat /\ Ids \subseteq Nat
      /\ rows \in [Ids -> Row] /\ write' = write /\ write \in Write
  BY ConstantTypes DEF IInv, Accept, TypeOK
<1>1. ASSUME NEW i \in Ids, i # next
      PROVE  rows'[i].mode = rows[i].mode /\ (Pending(rows'[i]) => Pending(rows[i]))
  <2>1. rows'[i] \in {rows[i], [rows[i] EXCEPT !.state = "pruned"]}
    BY <1>1 DEF Accept
  <2>2. rows[i] \in Row
    BY <1>0
  <2> QED BY <2>1, <2>2 DEF Row, Pending
<1>2. rows'[next].mode = mode
  BY <1>0 DEF Accept, NewRow
<1>3. ASSUME NEW i \in Ids, i > next PROVE rows[i].mode = "queue"
  BY <1>0, <1>3 DEF IInv, RowInv, Unaccepted
<1>4. mode # "queue" => \A i \in Ids : ~Pending(rows[i])
  BY DEF Accept
<1>5. ASSUME NEW i \in Ids, NEW j \in Ids, j < i, rows'[i].mode # "queue"
      PROVE  ~Pending(rows'[j])
  <2>1. CASE i = next
    BY <1>0, <1>1, <1>2, <1>4, <1>5, <2>1
  <2>2. CASE i # next
    <3>1. rows[i].mode # "queue" /\ ~(i > next) /\ i < next /\ j # next
      BY <1>0, <1>1, <1>3, <1>5, <2>2
    <3> QED BY <1>1, <1>5, <3>1 DEF OrderInv, Passable
  <2> QED BY <2>1, <2>2
<1>6. TypedInOrder'
  <2>1. CASE write.id = 0
    BY <1>0, <2>1 DEF TypedInOrder
  <2>2. CASE write.id # 0
    <3>0. write.id \in Ids /\ RowInv(write.id) /\ Claim(write.id)
      BY <1>0, <2>2 DEF Write, IInv, WriteInv
    <3>1. rows[write.id].state # "none"
      BY <3>0 DEF Claim
    <3>2. ~(write.id >= next)
      BY <3>0, <3>1 DEF RowInv, Unaccepted
    <3>3. ASSUME NEW i \in Ids, i < write.id PROVE ~Pending(rows'[i])
      <4>0. i \in Nat /\ write.id \in Nat /\ next \in Nat
        BY <1>0, <3>0
      <4>1. i # next
        BY <3>2, <3>3, <4>0
      <4>2. ~Pending(rows[i])
        BY <2>2, <3>3 DEF OrderInv, TypedInOrder
      <4> QED BY <1>1, <4>1, <4>2
    <3> QED BY <1>0, <3>3 DEF TypedInOrder
  <2> QED BY <2>1, <2>2
<1> QED BY <1>5, <1>6 DEF OrderInv, Passable

(* Instructions are typed in the order of acceptance, whatever modes they  *)
(* are accepted in: an immediate one passes what runs, never what waits.   *)
THEOREM InOrder == Spec => []TypedInOrder
<1>1. Init => IInv /\ OrderInv
  <2>1. Init => OrderInv
    BY DEF Init, NewRow, NoWrite, OrderInv, Passable, TypedInOrder, Pending
  <2> QED BY <2>1, InitInv
<1>2. IInv /\ OrderInv /\ [Next]_vars => (IInv /\ OrderInv)'
  <2> SUFFICES ASSUME IInv, OrderInv, [Next]_vars PROVE IInv' /\ OrderInv'
    OBVIOUS
  <2>1. TypeOK /\ IInv'
    BY NextInv DEF IInv
  <2>2. OrderInv'
    BY <2>1, StepKinds, QuietOrder, SubmitOrder, ClaimsOrder, AcceptOrder
  <2> QED BY <2>1, <2>2
<1>3. OrderInv => TypedInOrder
  BY DEF OrderInv
<1> QED BY <1>1, <1>2, <1>3, PTL DEF Spec

(* Cancelling wins the race with a dispatch: a step leaves a cancelled row *)
(* cancelled, and hands no key of it to the stdin writer, however far its  *)
(* write had come when the locks were released.                            *)
THEOREM CancelWins == Spec => CancelledStaysSilent
<1> DEFINE Silent(i) ==
             rows[i].state \in {"cancelled", "pruned"} =>
               /\ rows'[i].state \in {"cancelled", "pruned"}
               /\ ~(write'.id = i /\ job' = "queued" /\ job # "queued")
<1>1. ASSUME IInv, [Next]_vars, NEW i \in Ids PROVE Silent(i)
  <2>0. TypeOK /\ rows \in [Ids -> Row] /\ rows[i] \in Row
    BY <1>1 DEF IInv, TypeOK
  <2>1. CASE Quiet
    BY <2>1 DEF Quiet, RowQuiet, WriteQuiet, Gone
  <2>2. CASE Submit
    <3>1. rows' = rows /\ write.id \in Ids /\ rows[write.id].state = "uncertain"
      BY <2>0, <2>2 DEF Submit, Resumed, TypeOK, Write
    <3>2. CASE Release(FALSE)
      BY <3>1, <3>2 DEF Release
    <3>3. CASE write' = [write EXCEPT !.pc = "enter"]
      <4>1. write'.id = write.id
        BY <2>0, <3>3 DEF TypeOK, Write
      <4> QED BY <3>1, <4>1
    <3> QED BY <2>2, <3>2, <3>3 DEF Submit
  <2>3. CASE Claims
    BY <2>0, <2>3, ClaimFacts DEF Gone
  <2>4. ASSUME NEW mode \in Modes, Accept(mode) PROVE Silent(i)
    <3>1. write' = write /\ job' = job /\ next \in Ids
      BY <2>4 DEF Accept
    <3>2. CASE i = next
      <4>1. i >= next
        BY <3>1, <3>2, ConstantTypes
      <4> QED BY <1>1, <4>1 DEF IInv, RowInv, Unaccepted
    <3>3. CASE i # next
      <4>1. rows'[i] \in {rows[i], [rows[i] EXCEPT !.state = "pruned"]}
        BY <2>4, <3>3 DEF Accept
      <4> QED BY <2>0, <3>1, <4>1 DEF Row
    <3> QED BY <3>2, <3>3
  <2> QED BY <1>1, <2>0, <2>1, <2>2, <2>3, <2>4, StepKinds
<1>2. IInv /\ [Next]_vars => [\A i \in Ids : Silent(i)]_vars
  BY <1>1
<1> QED BY <1>2, Invariance, PTL DEF Spec, CancelledStaysSilent

=============================================================================
