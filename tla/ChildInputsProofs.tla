------------------------- MODULE ChildInputsProofs --------------------------
(***************************************************************************)
(* Theorems about ChildInputs, for every number of asks and keys and every *)
(* set of faults.                                                          *)
(***************************************************************************)
EXTENDS ChildInputs, CommonLemmas

-----------------------------------------------------------------------------
(* Types, in the detail the proofs need.                                   *)

Events == {"open", "submit", "stop", "interrupt"} \cup Ends

HookType == [ev : Events, p : Prompts \cup {None}]

HookAt == [at : {"idle", "resolve", "apply", "own", "advance", "activity"},
           ev : Events \cup {"none"}, gone : SUBSET Prompts, cleared : BOOLEAN]

AskType == [source : Prompts \cup {None}, kind : Kinds, owner : {"orchestrator", "user"},
            open : BOOLEAN, denied : BOOLEAN]

JobType == [who : {"deny", "orchestrator", "operator"}, ask : Nat, marked : BOOLEAN]

ProviderType == [shown : SUBSET Prompts, kind : [Prompts -> Kinds],
                 running : BOOLEAN, next : 1 .. (MaxAsks + 1)]

DelegationType == [state : Closed \cup {"working", "asked_orchestrator", "needs_input"},
                   staged : BOOLEAN]

InputType == [pending : BOOLEAN, current : Nat, on : BOOLEAN, captured : Nat]

(* The shape of every variable.                                            *)
Shapes ==
    /\ provider \in ProviderType
    /\ hooks \in Seq(HookType) /\ hook \in HookAt
    /\ episodes \in SUBSET Prompts
    /\ status \in {"working", "needs_input", "idle"}
    /\ asks \in Seq(AskType)
    /\ delegation \in DelegationType
    /\ panes \in [child : BOOLEAN, parent : BOOLEAN]
    /\ input \in InputType
    /\ stdin \in Seq(JobType)
    /\ unsent \in SUBSET Nat /\ keys \in Nat /\ faults \in SUBSET Faults
    /\ denials \in [AskIds -> Nat]

(* Whatever names an ask names one of the table.                           *)
Named ==
    /\ input.current \in DOMAIN asks \cup {None}
    /\ input.captured \in DOMAIN asks \cup {None}
    /\ unsent \subseteq DOMAIN asks
    /\ \A i \in DOMAIN stdin :
          /\ stdin[i].ask \in DOMAIN asks \cup {None}
          /\ stdin[i].who = "deny" => stdin[i].ask # None

(* The prompts shown so far and the reports are within the bound, every    *)
(* prompt anybody knows of was shown, and none has two asks.               *)
ReportIds(ts) == {a \in DOMAIN ts : ts[a].source = None}

Distinct(ts) ==
    \A a, b \in DOMAIN ts : ts[a].source = ts[b].source /\ ts[a].source # None => a = b

Counted ==
    /\ provider.next - 1 + Cardinality(ReportIds(asks)) <= MaxAsks
    /\ \A p \in provider.shown \cup episodes : p < provider.next
    /\ \A i \in DOMAIN hooks : hooks[i].ev = "open" => /\ hooks[i].p # None
                                                       /\ hooks[i].p < provider.next
    /\ \A a \in DOMAIN asks : asks[a].source < provider.next
    /\ Distinct(asks)

(* A report is a question.                                                 *)
Asked == \A a \in DOMAIN asks : asks[a].source = None => asks[a].kind = "question"

TypeInv == Shapes /\ Named /\ Counted /\ Asked

-----------------------------------------------------------------------------
(* Operators.                                                              *)

(* The constants.                                                          *)
LEMMA Constants == MaxAsks \in Nat /\ Prompts = 1 .. MaxAsks /\ AskIds = 1 .. MaxAsks
                   /\ Prompts \subseteq Nat /\ 0 \notin Prompts /\ None = 0
BY ChildInputsAssumption DEF Prompts, AskIds, None

(* A nonempty set of numbers has a first one.                              *)
LEMMA FirstIsLeast ==
    ASSUME NEW S \in SUBSET Nat, S # {}
    PROVE  First(S) \in S /\ \A b \in S : First(S) <= b
<1>1. \E a \in S : \A b \in S : a <= b
  BY LeastExists
<1> QED BY <1>1 DEF First

(* A table is a function on the numbers of its asks.                       *)
LEMMA TableIsFunction ==
    ASSUME NEW ts \in Seq(AskType)
    PROVE  /\ Len(ts) \in Nat /\ DOMAIN ts = 1 .. Len(ts)
           /\ DOMAIN ts \subseteq Nat /\ 0 \notin DOMAIN ts
           /\ \A a \in DOMAIN ts : ts[a] \in AskType
OBVIOUS

(* The ask shown is an open one, and the operator's if there is any of     *)
(* those.                                                                  *)
LEMMA TopIsOpen ==
    ASSUME NEW ts \in Seq(AskType)
    PROVE  /\ Top(ts) = None <=> Open(ts) = {}
           /\ Top(ts) # None => Top(ts) \in Open(ts)
           /\ Top(ts) \in DOMAIN ts \cup {None} /\ Top(ts) \in Nat
           /\ Top(ts) # None =>
                (ts[Top(ts)].owner = "user" <=> \E a \in Open(ts) : ts[a].owner = "user")
<1> DEFINE users == {a \in Open(ts) : ts[a].owner = "user"}
           mine == IF users # {} THEN users ELSE Open(ts)
           perms == {a \in mine : ts[a].kind = "permission"}
           best == IF perms # {} THEN perms ELSE mine
<1>1. Open(ts) \subseteq DOMAIN ts /\ DOMAIN ts \subseteq Nat /\ 0 \notin DOMAIN ts
  BY TableIsFunction DEF Open
<1>2. Top(ts) = IF mine = {} THEN None ELSE First(best)
  BY DEF Top
<1>3. mine \subseteq Open(ts) /\ best \subseteq mine /\ (mine = {} <=> Open(ts) = {})
  OBVIOUS
<1>4. mine # {} => First(best) \in best
  <2>1. best \in SUBSET Nat /\ (mine # {} => best # {})
    BY <1>1, <1>3
  <2> HIDE DEF best, mine
  <2> QED BY <2>1, FirstIsLeast
<1>5. \A a \in mine : ts[a].owner = "user" <=> users # {}
  OBVIOUS
<1> HIDE DEF best, mine
<1>6. Top(ts) # None => Top(ts) \in mine
  BY <1>2, <1>3, <1>4
<1>7. mine # {} => Top(ts) # None
  BY <1>1, <1>2, <1>3, <1>4 DEF None
<1>8. Top(ts) = None <=> Open(ts) = {}
  BY <1>2, <1>3, <1>7
<1> QED BY <1>1, <1>3, <1>5, <1>6, <1>8 DEF None

(* A table that has grown out of another: it keeps what was asked, by whom *)
(* and what was denied; what is resolved stays so, and what the operator   *)
(* owns too.  New asks are not denied.                                     *)
Grown(ts, bs) ==
    /\ bs \in Seq(AskType) /\ Len(ts) <= Len(bs)
    /\ \A a \in DOMAIN ts : /\ bs[a].source = ts[a].source /\ bs[a].kind = ts[a].kind
                            /\ bs[a].denied = ts[a].denied
                            /\ bs[a].open => ts[a].open
                            /\ ts[a].owner = "user" => bs[a].owner = "user"
    /\ \A a \in DOMAIN bs \ DOMAIN ts : ~bs[a].denied

(* The same asks.                                                          *)
Alike(ts, bs) == Grown(ts, bs) /\ Len(ts) = Len(bs)

(* A table is like itself, and likeness carries on.                        *)
LEMMA GrownReflexive ==
    ASSUME NEW ts \in Seq(AskType)
    PROVE  Alike(ts, ts)
BY DEF Alike, Grown

(* Asks rewritten in place after others were added are the table grown.    *)
LEMMA GrownTransitive ==
    ASSUME NEW ts \in Seq(AskType), NEW bs, NEW cs, Grown(ts, bs), Alike(bs, cs)
    PROVE  Grown(ts, cs) /\ (Len(ts) = Len(bs) => Alike(ts, cs))
<1>1. bs \in Seq(AskType) /\ cs \in Seq(AskType) /\ DOMAIN ts = 1 .. Len(ts)
      /\ DOMAIN bs = 1 .. Len(bs) /\ DOMAIN cs = DOMAIN bs /\ DOMAIN ts \subseteq DOMAIN bs
  BY DEF Alike, Grown
<1>2. DOMAIN cs \ DOMAIN ts \subseteq DOMAIN bs /\ DOMAIN cs = DOMAIN bs
  BY <1>1
<1>3. ASSUME NEW a \in DOMAIN ts
      PROVE  /\ cs[a].source = ts[a].source /\ cs[a].kind = ts[a].kind
             /\ cs[a].denied = ts[a].denied /\ cs[a].open => ts[a].open
             /\ ts[a].owner = "user" => cs[a].owner = "user"
  BY <1>1 DEF Alike, Grown
<1> QED BY <1>1, <1>2, <1>3 DEF Alike, Grown

(* Asks with one column changed.                                           *)
LEMMA ResolvedAsk ==
    ASSUME NEW r \in AskType
    PROVE  LET s == [r EXCEPT !.open = FALSE]
           IN  /\ s \in AskType /\ s.source = r.source /\ s.kind = r.kind
               /\ s.denied = r.denied /\ s.owner = r.owner /\ s.open = FALSE
BY DEF AskType

(* An ask handed to the user keeps its other columns.                      *)
LEMMA EscalatedAsk ==
    ASSUME NEW r \in AskType
    PROVE  LET s == [r EXCEPT !.owner = "user"]
           IN  /\ s \in AskType /\ s.source = r.source /\ s.kind = r.kind
               /\ s.denied = r.denied /\ s.open = r.open /\ s.owner = "user"
BY DEF AskType

(* An ask marked denied, or unmarked, keeps its other columns.             *)
LEMMA DeniedAsk ==
    ASSUME NEW r \in AskType, NEW d \in BOOLEAN
    PROVE  LET s == [r EXCEPT !.denied = d]
           IN  /\ s \in AskType /\ s.source = r.source /\ s.kind = r.kind
               /\ s.denied = d /\ s.open = r.open /\ s.owner = r.owner
BY DEF AskType

(* The columns of an ask.                                                  *)
LEMMA AskColumns ==
    ASSUME NEW r \in AskType
    PROVE  /\ r.source \in Prompts \cup {None} /\ r.kind \in Kinds
           /\ r.owner \in {"orchestrator", "user"} /\ r.open \in BOOLEAN
           /\ r.denied \in BOOLEAN /\ r.source \in Nat
BY Constants DEF AskType

(* Resolving and escalating give a table alike.                            *)
LEMMA ResolveAlike ==
    ASSUME NEW ts \in Seq(AskType), NEW S
    PROVE  /\ Alike(ts, Resolve(ts, S))
           /\ \A a \in DOMAIN ts : /\ Resolve(ts, S)[a].open = (ts[a].open /\ a \notin S)
                                   /\ Resolve(ts, S)[a].owner = ts[a].owner
<1>1. /\ DOMAIN Resolve(ts, S) = DOMAIN ts
      /\ \A a \in DOMAIN ts : Resolve(ts, S)[a] = IF a \in S THEN [ts[a] EXCEPT !.open = FALSE] ELSE ts[a]
  BY DEF Resolve
<1>2. \A a \in DOMAIN ts : ts[a] \in AskType
  OBVIOUS
<1>3. Resolve(ts, S) \in Seq(AskType) /\ Len(Resolve(ts, S)) = Len(ts)
  BY <1>1, <1>2, ResolvedAsk DEF Resolve
<1>4. ASSUME NEW a \in DOMAIN ts
      PROVE  /\ Resolve(ts, S)[a].source = ts[a].source /\ Resolve(ts, S)[a].kind = ts[a].kind
             /\ Resolve(ts, S)[a].denied = ts[a].denied /\ Resolve(ts, S)[a].owner = ts[a].owner
             /\ Resolve(ts, S)[a].open = (ts[a].open /\ a \notin S)
  <2>1. ts[a] \in AskType /\ ts[a].open \in BOOLEAN
    BY <1>2, AskColumns
  <2>2. CASE a \in S
    BY <1>1, <2>1, <2>2, ResolvedAsk
  <2>3. CASE a \notin S
    BY <1>1, <2>1, <2>3
  <2> QED BY <2>2, <2>3
<1>5. \A a \in DOMAIN ts : Resolve(ts, S)[a].open => ts[a].open
  BY <1>4
<1>6. Alike(ts, Resolve(ts, S))
  <2> HIDE DEF Resolve
  <2> QED BY <1>1, <1>3, <1>4, <1>5 DEF Alike, Grown
<1> QED BY <1>4, <1>6

(* Handing asks to the user changes the owner of the open ones and nothing *)
(* else.                                                                   *)
LEMMA EscalatedAlike ==
    ASSUME NEW ts \in Seq(AskType), NEW S
    PROVE  /\ Alike(ts, Escalated(ts, S))
           /\ \A a \in DOMAIN ts :
                /\ Escalated(ts, S)[a].open = ts[a].open
                /\ Escalated(ts, S)[a].owner = IF a \in S \cap Open(ts) THEN "user" ELSE ts[a].owner
<1>1. /\ DOMAIN Escalated(ts, S) = DOMAIN ts
      /\ \A a \in DOMAIN ts : Escalated(ts, S)[a] =
            IF a \in S \cap Open(ts) THEN [ts[a] EXCEPT !.owner = "user"] ELSE ts[a]
  BY DEF Escalated
<1>2. \A a \in DOMAIN ts : ts[a] \in AskType
  OBVIOUS
<1>3. Escalated(ts, S) \in Seq(AskType) /\ Len(Escalated(ts, S)) = Len(ts)
  BY <1>1, <1>2, EscalatedAsk DEF Escalated
<1>4. ASSUME NEW a \in DOMAIN ts
      PROVE  /\ Escalated(ts, S)[a].source = ts[a].source
             /\ Escalated(ts, S)[a].kind = ts[a].kind
             /\ Escalated(ts, S)[a].denied = ts[a].denied
             /\ Escalated(ts, S)[a].open = ts[a].open
             /\ Escalated(ts, S)[a].owner = IF a \in S \cap Open(ts) THEN "user" ELSE ts[a].owner
  <2>1. CASE a \in S \cap Open(ts)
    <3>1. ts[a] \in AskType /\ Escalated(ts, S)[a] = [ts[a] EXCEPT !.owner = "user"]
      BY <1>1, <1>2, <2>1
    <3> QED BY <2>1, <3>1, EscalatedAsk
  <2>2. CASE a \notin S \cap Open(ts)
    BY <1>1, <2>2
  <2> QED BY <2>1, <2>2
<1> QED BY <1>1, <1>3, <1>4 DEF Alike, Grown

(* Escalation hands every open ask of a live child to the user and changes *)
(* nothing else.                                                           *)
LEMMA EscalateAllAlike ==
    ASSUME NEW ts \in Seq(AskType), NEW d
    PROVE  /\ Alike(ts, EscalateAll(d, ts))
           /\ \A a \in DOMAIN ts : EscalateAll(d, ts)[a].open = ts[a].open
           /\ panes.child /\ d.state \notin Closed
                => \A a \in Open(ts) : EscalateAll(d, ts)[a].owner = "user"
<1>1. CASE panes.child /\ d.state \notin Closed
  <2>1. EscalateAll(d, ts) = Escalated(ts, DOMAIN ts)
    BY <1>1 DEF EscalateAll
  <2> QED BY <2>1, EscalatedAlike DEF Open
<1>2. CASE ~(panes.child /\ d.state \notin Closed)
  <2>1. EscalateAll(d, ts) = ts
    BY <1>2 DEF EscalateAll
  <2> QED BY <1>2, <2>1, GrownReflexive
<1> QED BY <1>1, <1>2

(* An expiry rewrites asks in place.                                       *)
LEMMA ExpiredAlike ==
    ASSUME NEW ts \in Seq(AskType), NEW d
    PROVE  Alike(ts, Expired(d, ts))
BY ResolveAlike, GrownReflexive DEF Expired

(* An answer rewrites asks in place.                                       *)
LEMMA AnsweredAlike ==
    ASSUME NEW ts \in Seq(AskType), NEW inp
    PROVE  Alike(ts, Answered(inp, ts))
BY ResolveAlike DEF Answered

(* A new ask.                                                              *)
LEMMA NewAsk ==
    ASSUME NEW source \in Prompts \cup {None}, NEW kind \in Kinds
    PROVE  LET r == Ask(source, kind)
           IN  /\ r \in AskType /\ r.source = source /\ r.kind = kind /\ r.open /\ ~r.denied
               /\ r.owner = "orchestrator"
BY DEF Ask, AskType

(* A report more.                                                          *)
LEMMA AppendGrown ==
    ASSUME NEW ts \in Seq(AskType)
    PROVE  /\ Grown(ts, Append(ts, Ask(None, "question")))
           /\ Len(Append(ts, Ask(None, "question"))) = Len(ts) + 1
           /\ Append(ts, Ask(None, "question"))[Len(ts) + 1] = Ask(None, "question")
<1>1. Ask(None, "question") \in AskType /\ Ask(None, "question").open
      /\ ~Ask(None, "question").denied
  BY DEF Ask, AskType, Kinds
<1> HIDE DEF Ask
<1> QED BY <1>1 DEF Grown

(* The asks a prompt opens: one for each prompt without, behind the others.*)
LEMMA OpenedGrown ==
    ASSUME NEW ts \in Seq(AskType), episodes \in SUBSET Prompts, provider \in ProviderType
    PROVE  LET bs == Opened(ts)
               new == DOMAIN bs \ DOMAIN ts
           IN  /\ Grown(ts, bs)
               /\ \A a \in DOMAIN ts : bs[a] = ts[a]
               /\ \A a \in new : bs[a].source \in Unasked(ts) /\ bs[a].open
               /\ \A a, b \in new : bs[a].source = bs[b].source => a = b
               /\ \A p \in Unasked(ts) : \E a \in new : bs[a].source = p
<1> DEFINE N == Unasked(ts)
           n == Cardinality(N)
           Place(i) == CHOOSE p \in N : Cardinality({q \in N : q < p}) = i - 1
           add == [i \in 1 .. n |-> Place(i)]
           tail == [i \in DOMAIN add |-> Ask(add[i], provider.kind[add[i]])]
           bs == Opened(ts)
<1>1. N \in SUBSET Nat /\ N \subseteq Prompts /\ IsFiniteSet(N)
  <2>1. N \subseteq Prompts /\ N \in SUBSET Prompts /\ Prompts = 1 .. MaxAsks
        /\ MaxAsks \in Int /\ 1 \in Int /\ N \in SUBSET Nat
    <3>1. N \subseteq episodes
      BY DEF Unasked
    <3> HIDE DEF N
    <3> QED BY <3>1, Constants
  <2>2. IsFiniteSet(Prompts)
    BY <2>1, FS_Interval
  <2> QED BY <2>1, <2>2, FS_Subset
<1>2. n \in Nat
  BY <1>1, FS_CardinalityType
<1>3. bs = ts \o tail
  BY DEF Opened
<1> HIDE DEF N
<1>4. \A i \in 1 .. n : Place(i) \in N /\ Cardinality({q \in N : q < Place(i)}) = i - 1
  BY <1>1, PlaceExists
<1> HIDE DEF Place
<1>5. add \in [1 .. n -> N] /\ DOMAIN add = 1 .. n
  BY <1>4
<1>6. \A i, j \in 1 .. n : add[i] = add[j] => i = j
  <2> SUFFICES ASSUME NEW i \in 1 .. n, NEW j \in 1 .. n, add[i] = add[j] PROVE i = j
    OBVIOUS
  <2>1. i - 1 = j - 1
    BY <1>4
  <2> QED BY <1>2, <2>1
<1>7. \A p \in N : \E i \in 1 .. n : add[i] = p
  <2>1. IsFiniteSet(1 .. n) /\ Cardinality(1 .. n) = n
    BY <1>2, FS_Interval, 1 \in Int, n \in Int
  <2>2. add \in Injection(1 .. n, N)
    BY <1>5, <1>6, Zenon DEF Injection, IsInjective
  <2>3. add \in Surjection(1 .. n, N)
    BY <1>1, <2>1, <2>2, FS_Injection, Zenon
  <2> QED BY <2>3, Zenon DEF Surjection
<1> HIDE DEF add
<1>8. \A i \in 1 .. n : /\ tail[i] = Ask(add[i], provider.kind[add[i]])
                        /\ add[i] \in Prompts /\ provider.kind[add[i]] \in Kinds
  BY <1>1, <1>5 DEF ProviderType
<1>9. \A i \in 1 .. n : /\ tail[i] \in AskType /\ tail[i].source = add[i] /\ tail[i].open
                        /\ ~tail[i].denied
  <2> HIDE DEF tail
  <2> SUFFICES ASSUME NEW i \in 1 .. n
               PROVE  /\ tail[i] \in AskType /\ tail[i].source = add[i] /\ tail[i].open
                      /\ ~tail[i].denied
    OBVIOUS
  <2> QED BY <1>8, NewAsk
<1>10. tail \in Seq(AskType) /\ Len(tail) = n
  <2>1. tail \in [1 .. n -> AskType]
    <3>1. DOMAIN tail = 1 .. n /\ tail = [i \in 1 .. n |-> tail[i]]
      BY <1>5
    <3> HIDE DEF tail
    <3> QED BY <1>9, <3>1
  <2> HIDE DEF tail
  <2> QED BY <1>2, <2>1
<1> HIDE DEF tail, bs
<1>11. /\ bs \in Seq(AskType) /\ Len(bs) = Len(ts) + n /\ Len(ts) \in Nat
       /\ DOMAIN ts = 1 .. Len(ts) /\ DOMAIN bs = 1 .. (Len(ts) + n)
       /\ \A a \in DOMAIN ts : bs[a] = ts[a]
       /\ \A i \in 1 .. n : bs[Len(ts) + i] = tail[i]
  <2>1. /\ ts \o tail \in Seq(AskType) /\ Len(ts) \in Nat
        /\ Len(ts \o tail) = Len(ts) + Len(tail) /\ DOMAIN ts = 1 .. Len(ts)
        /\ DOMAIN (ts \o tail) = 1 .. (Len(ts) + Len(tail))
        /\ \A a \in DOMAIN ts : (ts \o tail)[a] = ts[a]
        /\ \A i \in 1 .. Len(tail) : (ts \o tail)[Len(ts) + i] = tail[i]
    BY <1>10
  <2> QED BY <1>3, <1>10, <2>1, Zenon
<1>12. \A a \in DOMAIN bs \ DOMAIN ts : a - Len(ts) \in 1 .. n /\ bs[a] = tail[a - Len(ts)]
  <2> SUFFICES ASSUME NEW a \in DOMAIN bs \ DOMAIN ts
               PROVE  a - Len(ts) \in 1 .. n /\ bs[a] = tail[a - Len(ts)]
    OBVIOUS
  <2>1. a - Len(ts) \in 1 .. n /\ a = Len(ts) + (a - Len(ts))
    BY <1>2, <1>11
  <2> QED BY <1>11, <2>1
<1>13. Grown(ts, bs)
  <2>1. Len(ts) <= Len(bs)
    BY <1>2, <1>11
  <2> QED BY <1>9, <1>11, <1>12, <2>1 DEF Grown
<1>14. \A a \in DOMAIN bs \ DOMAIN ts : bs[a].source = add[a - Len(ts)] /\ bs[a].open
  BY <1>9, <1>12
<1>15. \A a \in DOMAIN bs \ DOMAIN ts : bs[a].source \in N
  BY <1>5, <1>12, <1>14
<1>16. \A a, b \in DOMAIN bs \ DOMAIN ts : bs[a].source = bs[b].source => a = b
  <2> SUFFICES ASSUME NEW a \in DOMAIN bs \ DOMAIN ts, NEW b \in DOMAIN bs \ DOMAIN ts,
                      bs[a].source = bs[b].source
               PROVE  a = b
    OBVIOUS
  <2>1. a - Len(ts) = b - Len(ts)
    BY <1>6, <1>12, <1>14
  <2> QED BY <1>11, <2>1
<1>17. \A p \in N : \E a \in DOMAIN bs \ DOMAIN ts : bs[a].source = p
  <2> SUFFICES ASSUME NEW p \in N PROVE \E a \in DOMAIN bs \ DOMAIN ts : bs[a].source = p
    OBVIOUS
  <2>1. PICK i \in 1 .. n : add[i] = p
    BY <1>7
  <2>2. Len(ts) + i \in DOMAIN bs \ DOMAIN ts
    BY <1>2, <1>11
  <2> QED BY <1>9, <1>11, <2>1, <2>2
<1> QED BY <1>11, <1>13, <1>14, <1>15, <1>16, <1>17 DEF N, bs

-----------------------------------------------------------------------------
(* Counting the asks.                                                      *)

(* Reports are numbered by the table.                                      *)
LEMMA ReportsFinite ==
    ASSUME NEW ts \in Seq(AskType)
    PROVE  /\ IsFiniteSet(DOMAIN ts) /\ Cardinality(DOMAIN ts) = Len(ts)
           /\ IsFiniteSet(ReportIds(ts)) /\ Cardinality(ReportIds(ts)) \in Nat
<1>1. DOMAIN ts = 1 .. Len(ts) /\ Len(ts) \in Nat /\ Len(ts) \in Int /\ 1 \in Int
  BY TableIsFunction
<1>2. IsFiniteSet(DOMAIN ts) /\ Cardinality(DOMAIN ts) = Len(ts)
  BY <1>1, UpTo
<1>3. ReportIds(ts) \in SUBSET DOMAIN ts
  BY DEF ReportIds
<1> QED BY <1>2, <1>3, FS_Subset, FS_CardinalityType

(* With one ask at most for each prompt below n, the table is no longer    *)
(* than the prompts and the reports together.                              *)
LEMMA TableBound ==
    ASSUME NEW ts \in Seq(AskType), NEW n \in Nat \ {0}, Distinct(ts),
           \A a \in DOMAIN ts : ts[a].source < n
    PROVE  Len(ts) <= n - 1 + Cardinality(ReportIds(ts))
<1> DEFINE D == DOMAIN ts
           R == ReportIds(ts)
           P == D \ R
           f == [a \in P |-> ts[a].source]
           T == 1 .. (n - 1)
<1>1. IsFiniteSet(D) /\ Cardinality(D) = Len(ts) /\ IsFiniteSet(R) /\ Cardinality(R) \in Nat
  BY ReportsFinite
<1>2. R \subseteq D /\ D \cap R = R
  BY DEF ReportIds
<1>3. IsFiniteSet(P) /\ Cardinality(P) = Cardinality(D) - Cardinality(R)
  <2> HIDE DEF D, R
  <2>1. IsFiniteSet(D \ R) /\ Cardinality(D \ R) = Cardinality(D) - Cardinality(D \cap R)
    BY <1>1, FS_Difference
  <2> QED BY <1>2, <2>1
<1>4. f \in [P -> T]
  <2> SUFFICES ASSUME NEW a \in P PROVE ts[a].source \in T
    OBVIOUS
  <2>1. a \in DOMAIN ts /\ ts[a].source # None /\ ts[a].source \in Nat /\ ts[a].source < n
    BY TableIsFunction, AskColumns DEF ReportIds
  <2> QED BY <2>1 DEF None
<1>5. \A a, b \in P : f[a] = f[b] => a = b
  BY DEF Distinct, ReportIds
<1>6. f \in Injection(P, T)
  BY <1>4, <1>5, Zenon DEF Injection, IsInjective
<1>7. IsFiniteSet(T) /\ Cardinality(T) = n - 1
  BY FS_Interval, n - 1 \in Int, 1 \in Int, n \in Nat \ {0}
<1>8. Cardinality(P) <= Cardinality(T)
  BY <1>6, <1>7, FS_Injection
<1>9. Len(ts) \in Nat
  BY TableIsFunction
<1> QED BY <1>1, <1>3, <1>7, <1>8, <1>9

(* What the tables below share of counting.                                *)
LEMMA AlikeCounts ==
    ASSUME NEW ts \in Seq(AskType), NEW bs, Alike(ts, bs)
    PROVE  /\ bs \in Seq(AskType) /\ DOMAIN bs = DOMAIN ts /\ ReportIds(bs) = ReportIds(ts)
           /\ Distinct(ts) => Distinct(bs)
<1>1. bs \in Seq(AskType) /\ DOMAIN bs = DOMAIN ts
  BY DEF Alike, Grown
<1>2. \A a \in DOMAIN ts : bs[a].source = ts[a].source
  BY DEF Alike, Grown
<1> QED BY <1>1, <1>2 DEF ReportIds, Distinct

(* An ask a report opens adds one to the reports' asks and takes no        *)
(* prompt's name.                                                          *)
LEMMA AppendCounts ==
    ASSUME NEW ts \in Seq(AskType)
    PROVE  LET bs == Append(ts, Ask(None, "question"))
           IN  /\ Cardinality(ReportIds(bs)) = Cardinality(ReportIds(ts)) + 1
               /\ Distinct(ts) => Distinct(bs)
<1> DEFINE r == Ask(None, "question")
           bs == Append(ts, r)
           n == Len(ts) + 1
<1>1. r \in AskType /\ r.source = None
  BY NewAsk DEF Kinds
<1> HIDE DEF r
<1>2. /\ DOMAIN bs = DOMAIN ts \cup {n} /\ n \notin DOMAIN ts /\ bs[n] = r
      /\ \A a \in DOMAIN ts : bs[a] = ts[a]
  BY <1>1
<1>3. ReportIds(bs) = ReportIds(ts) \cup {n} /\ n \notin ReportIds(ts)
  BY <1>1, <1>2 DEF ReportIds
<1>4. Cardinality(ReportIds(bs)) = Cardinality(ReportIds(ts)) + 1
  BY <1>3, ReportsFinite, FS_AddElement
<1>5. Distinct(ts) => Distinct(bs)
  <2> HIDE DEF bs, n
  <2> QED BY <1>1, <1>2 DEF Distinct
<1> QED BY <1>4, <1>5 DEF r

(* An ask opened for a prompt counts as no report's, is of a known episode *)
(* and the only one of its prompt.                                         *)
LEMMA OpenedCounts ==
    ASSUME NEW ts \in Seq(AskType), episodes \in SUBSET Prompts, provider \in ProviderType
    PROVE  /\ ReportIds(Opened(ts)) = ReportIds(ts)
           /\ Distinct(ts) => Distinct(Opened(ts))
           /\ \A a \in DOMAIN Opened(ts) \ DOMAIN ts : /\ Opened(ts)[a].source \in episodes
                                                       /\ Opened(ts)[a].source # None
<1> DEFINE bs == Opened(ts)
           new == DOMAIN bs \ DOMAIN ts
<1>1. /\ \A a \in DOMAIN ts : bs[a] = ts[a]
      /\ \A a \in new : bs[a].source \in Unasked(ts)
      /\ \A a, b \in new : bs[a].source = bs[b].source => a = b
      /\ DOMAIN ts \subseteq DOMAIN bs
  <2>1. Grown(ts, bs) => DOMAIN ts \subseteq DOMAIN bs
    BY DEF Grown
  <2> QED BY <2>1, OpenedGrown
<1>2. \A p \in Unasked(ts) : /\ p \in episodes /\ p # None
                             /\ \A a \in DOMAIN ts : ts[a].source # p
  BY Constants DEF Unasked
<1> HIDE DEF bs
<1>3. ReportIds(bs) = ReportIds(ts)
  BY <1>1, <1>2 DEF ReportIds
<1>4. Distinct(ts) => Distinct(bs)
  BY <1>1, <1>2 DEF Distinct
<1> QED BY <1>1, <1>2, <1>3, <1>4 DEF bs

-----------------------------------------------------------------------------
(* Type correctness.                                                       *)

(* The state a delegation gets from its asks.                              *)
LEMMA ProjectType ==
    ASSUME NEW d \in DelegationType, NEW ts
    PROVE  /\ Project(d, ts) \in DelegationType
           /\ d.state \in Closed => Project(d, ts) = d
           /\ d.state \notin Closed =>
                /\ Project(d, ts).state \notin Closed
                /\ Project(d, ts).state = IF Top(ts) = None THEN "working"
                                          ELSE IF ts[Top(ts)].owner = "user" THEN "needs_input"
                                          ELSE "asked_orchestrator"
BY DEF Project, DelegationType, Closed

(* What a session remembers of the ask shown.                              *)
LEMMA BroadcastType ==
    ASSUME NEW inp \in InputType, NEW ts \in Seq(AskType)
    PROVE  /\ Broadcast(inp, ts) \in InputType
           /\ Broadcast(inp, ts).current \in DOMAIN ts \cup {None}
           /\ Broadcast(inp, ts).captured = inp.captured /\ Broadcast(inp, ts).on = inp.on
<1>1. Top(ts) \in DOMAIN ts \cup {None} /\ Top(ts) \in Nat /\ (Top(ts) # None) \in BOOLEAN
  BY TopIsOpen
<1> QED BY <1>1 DEF Broadcast, InputType

(* A transaction.                                                          *)
LEMMA CommitType ==
    ASSUME Shapes, NEW bs \in Seq(AskType), Commit(bs)
    PROVE  /\ asks' = bs /\ delegation' \in DelegationType /\ input' \in InputType
           /\ input'.current \in DOMAIN bs \cup {None}
           /\ input'.captured = input.captured /\ input'.on = input.on
BY ProjectType, BroadcastType DEF Commit, Shapes

(* A step that keeps the table alike keeps what is said of it.             *)
LEMMA AlikeInv ==
    ASSUME TypeInv, Shapes', Alike(asks, asks'), UNCHANGED <<provider, hooks, stdin, unsent>>,
           episodes' \subseteq episodes,
           input'.current \in DOMAIN asks' \cup {None},
           input'.captured \in {input.captured, None}
    PROVE  TypeInv'
<1>1. asks \in Seq(AskType)
  BY DEF TypeInv, Shapes
<1>2. /\ DOMAIN asks' = DOMAIN asks /\ ReportIds(asks') = ReportIds(asks)
      /\ Distinct(asks) => Distinct(asks')
  BY <1>1, AlikeCounts
<1>3. \A a \in DOMAIN asks : asks'[a].source = asks[a].source /\ asks'[a].kind = asks[a].kind
  BY DEF Alike, Grown
<1>4. Named'
  BY <1>2 DEF TypeInv, Named
<1>5. Counted'
  BY <1>2, <1>3 DEF TypeInv, Counted
<1>6. Asked'
  BY <1>2, <1>3 DEF TypeInv, Asked
<1> QED BY <1>4, <1>5, <1>6 DEF TypeInv

(* So does a transaction.                                                  *)
LEMMA CommitInv ==
    ASSUME TypeInv, NEW bs, Alike(asks, bs), Commit(bs), hook' \in HookAt,
           panes' \in [child : BOOLEAN, parent : BOOLEAN], faults' \in SUBSET Faults,
           UNCHANGED <<provider, hooks, episodes, status, stdin, unsent, keys, denials>>
    PROVE  TypeInv'
<1>1. bs \in Seq(AskType)
  BY DEF Alike, Grown
<1>2. /\ asks' = bs /\ delegation' \in DelegationType /\ input' \in InputType
      /\ input'.current \in DOMAIN bs \cup {None} /\ input'.captured = input.captured
  BY <1>1, CommitType DEF TypeInv
<1>3. Shapes'
  BY <1>1, <1>2 DEF TypeInv, Shapes
<1> QED BY <1>2, <1>3, AlikeInv

(* A fault is one of those the instance allows.                            *)
LEMMA FaultType ==
    ASSUME Shapes, NEW kind, Fault(kind)
    PROVE  faults' \in SUBSET Faults
BY DEF Fault, Shapes

(* What remains of a hook.                                                 *)
LEMMA RestType == Idle \in HookAt /\ \A h : Rest(h) \in HookAt
BY DEF Rest, Idle, HookAt

(* Steps of the agent in the pane.                                         *)
LEMMA ShowPromptType == ASSUME TypeInv, NEW kind \in Kinds, ShowPrompt(kind) PROVE TypeInv'
<1> DEFINE p == provider.next
           h == Hook("open", p)
<1>1. asks \in Seq(AskType) /\ provider \in ProviderType /\ hooks \in Seq(HookType)
  BY DEF TypeInv, Shapes
<1>2. p \in Nat /\ p >= 1 /\ p <= MaxAsks /\ p \in Prompts
      /\ p + Cardinality(ReportIds(asks)) <= MaxAsks
  <2>1. Cardinality(ReportIds(asks)) \in Nat
    BY <1>1, ReportsFinite
  <2>2. p \in 1 .. (MaxAsks + 1)
    BY <1>1 DEF ProviderType
  <2>3. p + Cardinality(ReportIds(asks)) <= MaxAsks
    BY DEF ShowPrompt, CanAsk, ReportIds
  <2> QED BY <2>1, <2>2, <2>3, Constants
<1>3. /\ provider' \in ProviderType /\ provider'.next = p + 1
      /\ provider'.shown = provider.shown \cup {p}
  <2> DEFINE k == [provider.kind EXCEPT ![p] = kind]
  <2>1. k \in [Prompts -> Kinds] /\ provider.shown \cup {p} \in SUBSET Prompts
        /\ p + 1 \in 1 .. (MaxAsks + 1)
    BY <1>1, <1>2, Constants DEF ProviderType
  <2>2. provider' = [provider EXCEPT !.shown = provider.shown \cup {p}, !.kind = k, !.next = p + 1]
    BY <1>1 DEF ShowPrompt, ProviderType
  <2> HIDE DEF k
  <2> QED BY <1>1, <2>1, <2>2 DEF ProviderType
<1>4. h \in HookType /\ h.p = p
  BY <1>2 DEF Hook, HookType, Events
<1>5. hooks' = Append(hooks, h)
  BY DEF ShowPrompt
<1> HIDE DEF h
<1>6. hooks' \in Seq(HookType)
  BY <1>1, <1>4, <1>5
<1>7. Shapes'
  BY <1>3, <1>6 DEF ShowPrompt, TypeInv, Shapes
<1>8. Named' /\ Asked'
  BY DEF ShowPrompt, TypeInv, Named, Asked
<1>9. Counted'
  <2>1. UNCHANGED <<asks, episodes>>
    BY DEF ShowPrompt
  <2>2. provider'.next - 1 + Cardinality(ReportIds(asks')) <= MaxAsks
    BY <1>1, <1>2, <1>3, <2>1, ReportsFinite
  <2>3. \A q \in provider'.shown \cup episodes' : q < provider'.next
    <3>1. \A q \in provider.shown \cup episodes : q \in Nat /\ q < p
      BY <1>1, Constants DEF TypeInv, Shapes, Counted, ProviderType
    <3> QED BY <1>2, <1>3, <2>1, <3>1
  <2>4. \A i \in DOMAIN hooks' : hooks'[i].ev = "open" => /\ hooks'[i].p # None
                                                       /\ hooks'[i].p < provider'.next
    <3> SUFFICES ASSUME NEW i \in DOMAIN hooks', hooks'[i].ev = "open"
                 PROVE  hooks'[i].p # None /\ hooks'[i].p < p + 1
      BY <1>3
    <3>1. CASE i \in DOMAIN hooks
      <4>1. hooks'[i] = hooks[i] /\ hooks[i] \in HookType
        BY <1>1, <1>4, <1>5, <3>1
      <4>2. hooks[i].p # None /\ hooks[i].p < p /\ hooks[i].p \in Nat
        BY <3>1, <4>1, Constants DEF TypeInv, Counted, HookType
      <4> QED BY <1>2, <4>1, <4>2
    <3>2. CASE i \notin DOMAIN hooks
      <4>1. hooks'[i] = h
        BY <1>1, <1>4, <1>5, <3>2
      <4> QED BY <1>2, <1>4, <4>1 DEF None
    <3> QED BY <3>1, <3>2
  <2>5. \A a \in DOMAIN asks' : asks'[a].source < provider'.next
    <3> SUFFICES ASSUME NEW a \in DOMAIN asks PROVE asks[a].source < p + 1
      BY <1>3, <2>1
    <3>1. asks[a].source \in Nat
      BY <1>1, TableIsFunction, AskColumns
    <3>2. asks[a].source < p
      BY DEF TypeInv, Counted
    <3> QED BY <1>2, <3>1, <3>2
  <2>6. Distinct(asks')
    BY <2>1 DEF TypeInv, Counted
  <2> QED BY <2>2, <2>3, <2>4, <2>5, <2>6 DEF Counted
<1> QED BY <1>7, <1>8, <1>9 DEF TypeInv

(* Hooks that open a prompt name one that was shown.                       *)
HooksKnown(hs, n) ==
    \A i \in DOMAIN hs : hs[i].ev = "open" => hs[i].p # None /\ hs[i].p < n

(* A step that leaves the table alone keeps what is said of it.            *)
LEMMA SameTableInv ==
    ASSUME TypeInv, Shapes', Named', UNCHANGED asks, provider'.next = provider.next,
           provider'.shown \subseteq provider.shown,
           \A p \in episodes' : p < provider.next, HooksKnown(hooks', provider.next)
    PROVE  TypeInv'
BY DEF TypeInv, Counted, Asked, HooksKnown

(* The hooks on their way speak of prompts that were shown.                *)
LEMMA HooksAreKnown == TypeInv => HooksKnown(hooks, provider.next)
BY DEF TypeInv, Counted, HooksKnown

(* The open episodes are of prompts that were shown.                       *)
LEMMA EpisodesAreKnown == TypeInv => \A p \in episodes : p < provider.next
BY DEF TypeInv, Counted

(* A hook that opens nothing.                                              *)
LEMMA AppendHook ==
    ASSUME TypeInv, NEW h \in HookType, h.ev # "open", hooks' = Append(hooks, h)
    PROVE  hooks' \in Seq(HookType) /\ HooksKnown(hooks', provider.next)
<1>1. hooks \in Seq(HookType) /\ HooksKnown(hooks, provider.next)
  BY HooksAreKnown DEF TypeInv, Shapes
<1>2. \A i \in DOMAIN hooks' : hooks'[i] = h \/ (i \in DOMAIN hooks /\ hooks'[i] = hooks[i])
  BY <1>1
<1>3. hooks' \in Seq(HookType)
  BY <1>1
<1>4. HooksKnown(hooks', provider.next)
  BY <1>1, <1>2 DEF HooksKnown
<1> QED BY <1>3, <1>4

(* The hook taken from the queue is well formed and so are those behind it.*)
LEMMA TailHooks ==
    ASSUME TypeInv, hooks # << >>, hooks' = Tail(hooks)
    PROVE  /\ hooks' \in Seq(HookType) /\ HooksKnown(hooks', provider.next)
           /\ Head(hooks) \in HookType
           /\ Head(hooks).ev = "open" => /\ Head(hooks).p # None
                                         /\ Head(hooks).p < provider.next
<1>1. hooks \in Seq(HookType) /\ HooksKnown(hooks, provider.next)
  BY HooksAreKnown DEF TypeInv, Shapes
<1>2. \A i \in DOMAIN hooks' : i + 1 \in DOMAIN hooks /\ hooks'[i] = hooks[i + 1]
  BY <1>1
<1>3. 1 \in DOMAIN hooks /\ Head(hooks) = hooks[1] /\ Head(hooks) \in HookType
      /\ hooks' \in Seq(HookType)
  BY <1>1
<1>4. HooksKnown(hooks', provider.next)
  BY <1>1, <1>2 DEF HooksKnown
<1> QED BY <1>1, <1>3, <1>4 DEF HooksKnown

(* A provider with prompts fewer.                                          *)
LEMMA ProviderTypes ==
    ASSUME NEW S \in SUBSET Prompts, NEW r \in BOOLEAN, NEW q \in ProviderType
    PROVE  LET s == [q EXCEPT !.shown = S, !.running = r]
           IN  s \in ProviderType /\ s.shown = S /\ s.running = r /\ s.next = q.next
BY DEF ProviderType

(* The provider's end of a turn keeps the types.                           *)
LEMMA EndTurnType == ASSUME TypeInv, EndTurn PROVE TypeInv'
<1> DEFINE h == Hook("stop", None)
<1>1. h \in HookType /\ h.ev # "open"
  BY DEF Hook, HookType, Events
<1>2. hooks' \in Seq(HookType) /\ HooksKnown(hooks', provider.next)
  <2> HIDE DEF h
  <2>1. hooks' = Append(hooks, h)
    BY DEF EndTurn, h
  <2> QED BY <1>1, <2>1, AppendHook
<1>3. provider' \in ProviderType /\ provider'.next = provider.next
      /\ provider'.shown = provider.shown
  BY DEF EndTurn, TypeInv, Shapes, ProviderType
<1>4. Shapes' /\ Named'
  BY <1>2, <1>3 DEF EndTurn, TypeInv, Shapes, Named
<1>5. UNCHANGED <<asks, episodes>>
  BY DEF EndTurn
<1> QED BY <1>2, <1>3, <1>4, <1>5, SameTableInv, EpisodesAreKnown

(* A hook replayed from an earlier prompt keeps the types.                 *)
LEMMA ReplayHookType == ASSUME TypeInv, NEW p \in Prompts, ReplayHook(p) PROVE TypeInv'
<1> DEFINE h == Hook("open", p)
<1>1. h \in HookType /\ h.p # None /\ h.p < provider.next
  BY Constants DEF Hook, HookType, Events, ReplayHook
<1>2. hooks' = <<h>>
  BY DEF ReplayHook
<1> HIDE DEF h
<1>3. hooks' \in Seq(HookType) /\ HooksKnown(hooks', provider.next)
  BY <1>1, <1>2 DEF HooksKnown
<1>4. faults' \in SUBSET Faults
  BY FaultType DEF ReplayHook, TypeInv
<1>5. Shapes' /\ Named'
  BY <1>3, <1>4 DEF ReplayHook, TypeInv, Shapes, Named
<1>6. UNCHANGED <<asks, episodes, provider>>
  BY DEF ReplayHook
<1> QED BY <1>3, <1>5, <1>6, SameTableInv, EpisodesAreKnown

(* Sections of a hook that leave the table alone.                          *)
LEMMA BeginHookType == ASSUME TypeInv, BeginHook PROVE TypeInv'
<1> DEFINE h == Head(hooks)
           gone == CASE h.ev = "open"  -> {}
                     [] h.ev \in Ends -> episodes \cap {h.p}
                     [] OTHER         -> episodes
           left == IF h.ev = "open" THEN episodes \cup {h.p} ELSE episodes \ gone
           now == [at |-> IF gone # {} THEN "resolve" ELSE "apply", ev |-> h.ev,
                   gone |-> gone, cleared |-> gone # {} /\ left = {}]
<1>1. /\ hooks' \in Seq(HookType) /\ HooksKnown(hooks', provider.next)
      /\ h \in HookType /\ (h.ev = "open" => h.p # None /\ h.p < provider.next)
  BY TailHooks DEF BeginHook
<1>2. /\ episodes' = left /\ hook' \in {now, Rest(now)}
      /\ UNCHANGED <<provider, status, asks, delegation, panes, input, stdin,
                     unsent, keys, faults, denials>>
  BY DEF BeginHook
<1>3. h.ev \in Events /\ h.p \in Prompts \cup {None}
  BY <1>1 DEF HookType
<1> HIDE DEF h
<1>4. episodes \in SUBSET Prompts
  BY DEF TypeInv, Shapes
<1>5. gone \in SUBSET Prompts /\ gone \subseteq episodes
  BY <1>3, <1>4 DEF Events, Ends
<1>6. left \in SUBSET Prompts
  BY <1>1, <1>3, <1>4
<1>7. \A p \in left : p < provider.next
  BY <1>1, EpisodesAreKnown
<1> HIDE DEF gone, left
<1>8. now \in HookAt
  BY <1>3, <1>5 DEF HookAt
<1>9. hook' \in HookAt
  BY <1>2, <1>8, RestType
<1>10. Shapes'
  BY <1>1, <1>2, <1>6, <1>9 DEF TypeInv, Shapes
<1>11. Named'
  BY <1>2 DEF TypeInv, Named
<1> QED BY <1>1, <1>2, <1>7, <1>10, <1>11, SameTableInv

(* The sections of a hook's handler that write no ask keep the types.      *)
LEMMA QuietSectionsType ==
    ASSUME TypeInv, DropReplay \/ IgnoreEvent \/ OwnInput \/ NoteActivity PROVE TypeInv'
<1>1. /\ UNCHANGED <<provider, hooks, asks, delegation, panes, stdin, unsent, keys, faults, denials>>
      /\ episodes' \subseteq episodes
      /\ status' \in {status, "working"}
  BY DEF DropReplay, IgnoreEvent, OwnInput, NoteActivity
<1>2. hook' \in HookAt
  <2>1. hook \in HookAt
    BY DEF TypeInv, Shapes
  <2>2. CASE OwnInput
    BY <2>1, <2>2 DEF OwnInput, HookAt
  <2>3. CASE DropReplay \/ IgnoreEvent \/ NoteActivity
    BY <2>3, RestType DEF DropReplay, IgnoreEvent, NoteActivity
  <2> QED BY <2>2, <2>3
<1>3. /\ input' \in InputType /\ input'.current = input.current
      /\ input'.captured = input.captured
  <2>1. input \in InputType
    BY DEF TypeInv, Shapes
  <2>2. input' = input \/ input' = [input EXCEPT !.pending = Top(asks) # None]
    BY DEF DropReplay, IgnoreEvent, OwnInput, NoteActivity
  <2> QED BY <2>1, <2>2 DEF InputType
<1>4. Shapes'
  BY <1>1, <1>2, <1>3 DEF TypeInv, Shapes
<1>5. Named'
  BY <1>1, <1>3 DEF TypeInv, Named
<1> QED BY <1>1, <1>4, <1>5, SameTableInv, HooksAreKnown, EpisodesAreKnown

(* Calls that leave the table alone.                                       *)
LEMMA JobIsJob ==
    ASSUME NEW who \in {"deny", "orchestrator", "operator"}, NEW a \in Nat, NEW m \in BOOLEAN
    PROVE  LET j == Job(who, a, m)
           IN  j \in JobType /\ j.who = who /\ j.ask = a /\ j.marked = m
BY DEF Job, JobType

(* A job handed to the stdin writer joins well-formed jobs.                *)
LEMMA AppendJob ==
    ASSUME TypeInv, NEW j \in JobType, stdin' = Append(stdin, j),
           j.ask \in DOMAIN asks \cup {None}, j.who = "deny" => j.ask # None
    PROVE  /\ stdin' \in Seq(JobType)
           /\ \A i \in DOMAIN stdin' : /\ stdin'[i].ask \in DOMAIN asks \cup {None}
                                       /\ stdin'[i].who = "deny" => stdin'[i].ask # None
<1>1. stdin \in Seq(JobType)
  BY DEF TypeInv, Shapes
<1>2. \A i \in DOMAIN stdin' : stdin'[i] = j \/ (i \in DOMAIN stdin /\ stdin'[i] = stdin[i])
  BY <1>1
<1>3. stdin' \in Seq(JobType)
  BY <1>1
<1> QED BY <1>2, <1>3 DEF TypeInv, Named

(* The job the stdin writer takes is well formed and so are those behind   *)
(* it.                                                                     *)
LEMMA TailJobs ==
    ASSUME TypeInv, stdin # << >>, stdin' = Tail(stdin)
    PROVE  /\ stdin' \in Seq(JobType) /\ Head(stdin) \in JobType
           /\ Head(stdin).ask \in DOMAIN asks \cup {None}
           /\ Head(stdin).who = "deny" => Head(stdin).ask # None
           /\ \A i \in DOMAIN stdin' : /\ stdin'[i].ask \in DOMAIN asks \cup {None}
                                       /\ stdin'[i].who = "deny" => stdin'[i].ask # None
<1>1. stdin \in Seq(JobType)
  BY DEF TypeInv, Shapes
<1>2. \A i \in DOMAIN stdin' : i + 1 \in DOMAIN stdin /\ stdin'[i] = stdin[i + 1]
  BY <1>1
<1>3. 1 \in DOMAIN stdin /\ Head(stdin) = stdin[1] /\ Head(stdin) \in JobType
      /\ stdin' \in Seq(JobType)
  BY <1>1
<1> QED BY <1>2, <1>3 DEF TypeInv, Named

(* The keys of a terminal message keep the types.                          *)
LEMMA SendKeysType == ASSUME TypeInv, SendKeys PROVE TypeInv'
<1> DEFINE j == Job("orchestrator", None, FALSE)
<1>1. j \in JobType /\ j.who # "deny" /\ j.ask = None
  BY JobIsJob DEF None
<1>2. stdin' = Append(stdin, j)
  BY DEF SendKeys
<1> HIDE DEF j
<1>3. /\ stdin' \in Seq(JobType)
      /\ \A i \in DOMAIN stdin' : /\ stdin'[i].ask \in DOMAIN asks \cup {None}
                                  /\ stdin'[i].who = "deny" => stdin'[i].ask # None
  BY <1>1, <1>2, AppendJob
<1>4. /\ UNCHANGED <<provider, hooks, hook, episodes, status, asks, delegation,
                     panes, input, unsent, faults, denials>>
      /\ keys' = keys + 1
  BY DEF SendKeys
<1>5. Shapes'
  BY <1>3, <1>4 DEF TypeInv, Shapes
<1>6. Named'
  BY <1>3, <1>4 DEF TypeInv, Named
<1> QED BY <1>4, <1>5, <1>6, SameTableInv, HooksAreKnown, EpisodesAreKnown

(* The operator's typing keeps the types.                                  *)
LEMMA TypeType == ASSUME TypeInv, Type PROVE TypeInv'
<1> DEFINE marks == (input.pending \/ status = "needs_input") /\ ~input.on
           a == IF marks THEN input.current ELSE None
           j == Job("operator", a, marks)
<1>1. input \in InputType /\ input.current \in DOMAIN asks \cup {None} /\ input.current \in Nat
      /\ input.captured \in DOMAIN asks \cup {None}
  BY DEF TypeInv, Shapes, Named, InputType
<1>2. marks \in BOOLEAN /\ a \in DOMAIN asks \cup {None} /\ a \in Nat
  BY <1>1 DEF None
<1>3. /\ stdin' = Append(stdin, j) /\ keys' = keys + 1
      /\ input' = IF marks THEN [input EXCEPT !.on = TRUE, !.captured = input.current] ELSE input
      /\ UNCHANGED <<provider, hooks, hook, episodes, status, asks, delegation,
                     panes, unsent, faults, denials>>
  BY DEF Type
<1> HIDE DEF a, marks
<1>4. j \in JobType /\ j.who # "deny" /\ j.ask = a
  BY <1>2 DEF Job, JobType
<1> HIDE DEF j
<1>5. /\ stdin' \in Seq(JobType)
      /\ \A i \in DOMAIN stdin' : /\ stdin'[i].ask \in DOMAIN asks \cup {None}
                                  /\ stdin'[i].who = "deny" => stdin'[i].ask # None
  BY <1>2, <1>3, <1>4, AppendJob
<1>6. /\ input' \in InputType /\ input'.current \in DOMAIN asks \cup {None}
      /\ input'.captured \in DOMAIN asks \cup {None}
  BY <1>1, <1>3 DEF InputType
<1>7. Shapes'
  BY <1>3, <1>5, <1>6 DEF TypeInv, Shapes
<1>8. Named'
  BY <1>3, <1>5, <1>6 DEF TypeInv, Named
<1> QED BY <1>3, <1>7, <1>8, SameTableInv, HooksAreKnown, EpisodesAreKnown

(* The operator's Enter keeps the types.                                   *)
LEMMA SubmitType == ASSUME TypeInv, Submit PROVE TypeInv'
<1>1. /\ delegation' = [delegation EXCEPT !.staged = TRUE]
      /\ input' = Broadcast(input, asks)
      /\ UNCHANGED <<provider, hooks, hook, episodes, status, asks, panes, stdin,
                     unsent, keys, faults, denials>>
  BY DEF Submit
<1>2. delegation' \in DelegationType
  BY <1>1 DEF TypeInv, Shapes, DelegationType
<1>3. /\ input' \in InputType /\ input'.current \in DOMAIN asks \cup {None}
      /\ input'.captured = input.captured
  BY <1>1, BroadcastType DEF TypeInv, Shapes
<1>4. Shapes'
  BY <1>1, <1>2, <1>3 DEF TypeInv, Shapes
<1>5. Named'
  BY <1>1, <1>3 DEF TypeInv, Named
<1> QED BY <1>1, <1>4, <1>5, SameTableInv, HooksAreKnown, EpisodesAreKnown

(* The child's exit keeps the types.                                       *)
LEMMA ChildExitsType == ASSUME TypeInv, ChildExits PROVE TypeInv'
<1>1. /\ panes' = [panes EXCEPT !.child = FALSE]
      /\ provider' = [provider EXCEPT !.shown = {}, !.running = FALSE]
      /\ UNCHANGED <<hooks, hook, episodes, status, asks, delegation, input,
                     stdin, unsent, keys, denials>>
      /\ faults' \in SUBSET Faults
  BY FaultType DEF ChildExits, TypeInv
<1>2. provider' \in ProviderType /\ provider'.next = provider.next /\ provider'.shown = {}
  BY <1>1 DEF TypeInv, Shapes, ProviderType
<1>3. panes' \in [child : BOOLEAN, parent : BOOLEAN]
  BY <1>1 DEF TypeInv, Shapes
<1>4. Shapes'
  BY <1>1, <1>2, <1>3 DEF TypeInv, Shapes
<1>5. Named'
  BY <1>1 DEF TypeInv, Named
<1> QED BY <1>1, <1>2, <1>4, <1>5, SameTableInv, HooksAreKnown, EpisodesAreKnown

(* What typing does to the provider.                                       *)
LEMMA TypedType ==
    ASSUME TypeInv, NEW who, Typed(who)
    PROVE  /\ provider' \in ProviderType /\ provider'.next = provider.next
           /\ provider'.shown \subseteq provider.shown
           /\ hooks' \in Seq(HookType) /\ HooksKnown(hooks', provider.next)
<1>1. provider \in ProviderType /\ provider.shown \in SUBSET Prompts
      /\ hooks \in Seq(HookType) /\ HooksKnown(hooks, provider.next)
  BY HooksAreKnown DEF TypeInv, Shapes, ProviderType
<1>2. ASSUME NEW ev \in Events \ {"open"}, NEW p \in Prompts \cup {None},
             hooks' = Append(hooks, Hook(ev, p))
      PROVE  hooks' \in Seq(HookType) /\ HooksKnown(hooks', provider.next)
  <2>1. Hook(ev, p) \in HookType /\ Hook(ev, p).ev # "open"
    BY DEF Hook, HookType
  <2> QED BY <1>2, <2>1, AppendHook
<1>3. CASE AnswerPrompt(who)
  <2> DEFINE p == First(provider.shown)
             ev == IF who = "deny" THEN "PermissionDenied" ELSE "PostToolUse"
  <2>1. p \in provider.shown
    BY <1>1, <1>3, FirstIsLeast, Constants DEF AnswerPrompt
  <2>2. provider' = [provider EXCEPT !.shown = provider.shown \ {p}]
        /\ hooks' = Append(hooks, Hook(ev, p)) /\ ev \in Events \ {"open"}
    BY <1>1, <1>3 DEF AnswerPrompt, Events, Ends
  <2> HIDE DEF p, ev
  <2>3. provider' \in ProviderType /\ provider'.next = provider.next
        /\ provider'.shown = provider.shown \ {p}
    BY <1>1, <2>2 DEF ProviderType
  <2> QED BY <1>1, <1>2, <2>1, <2>2, <2>3
<1>4. CASE InterruptTurn
  <2>1. provider' = [provider EXCEPT !.shown = {}, !.running = FALSE]
        /\ hooks' = Append(hooks, Hook("interrupt", None))
    BY <1>4 DEF InterruptTurn
  <2>2. provider' \in ProviderType /\ provider'.next = provider.next /\ provider'.shown = {}
    BY <1>1, <2>1 DEF ProviderType
  <2> QED BY <1>2, <2>1, <2>2 DEF Events
<1>5. CASE StartTurn
  <2>1. provider' = [provider EXCEPT !.running = TRUE]
        /\ hooks' = Append(hooks, Hook("submit", None))
    BY <1>5 DEF StartTurn
  <2>2. provider' \in ProviderType /\ provider'.next = provider.next
        /\ provider'.shown = provider.shown
    BY <1>1, <2>1 DEF ProviderType
  <2> QED BY <1>2, <2>1, <2>2 DEF Events
<1>6. CASE UNCHANGED <<provider, hooks>>
  BY <1>1, <1>6
<1> QED BY <1>3, <1>4, <1>5, <1>6 DEF Typed

(* A write of the stdin writer keeps the types.                            *)
LEMMA WriteType == ASSUME TypeInv, Write PROVE TypeInv'
<1> DEFINE j == Head(stdin)
<1>1. /\ stdin' \in Seq(JobType) /\ j \in JobType
      /\ j.ask \in DOMAIN asks \cup {None} /\ (j.who = "deny" => j.ask # None)
      /\ \A i \in DOMAIN stdin' : /\ stdin'[i].ask \in DOMAIN asks \cup {None}
                                  /\ stdin'[i].who = "deny" => stdin'[i].ask # None
  BY TailJobs DEF Write
<1>2. /\ Typed(j.who)
      /\ denials' = IF j.who = "deny" THEN [denials EXCEPT ![j.ask] = @ + 1] ELSE denials
      /\ UNCHANGED <<hook, episodes, status, asks, delegation, panes, input,
                     unsent, keys, faults>>
  BY DEF Write
<1> HIDE DEF j
<1>3. denials' \in [AskIds -> Nat]
  <2>1. denials \in [AskIds -> Nat]
    BY DEF TypeInv, Shapes
  <2>2. [denials EXCEPT ![j.ask] = denials[j.ask] + 1] \in [AskIds -> Nat]
    <3>1. CASE j.ask \in AskIds
      <4>1. denials[j.ask] + 1 \in Nat
        BY <2>1, <3>1
      <4> QED BY <2>1, <3>1, <4>1
    <3>2. CASE j.ask \notin AskIds
      BY <2>1, <3>2
    <3> QED BY <3>1, <3>2
  <2> QED BY <1>2, <2>1, <2>2
<1>4. /\ provider' \in ProviderType /\ provider'.next = provider.next
      /\ provider'.shown \subseteq provider.shown
      /\ hooks' \in Seq(HookType) /\ HooksKnown(hooks', provider.next)
  BY <1>2, TypedType
<1>5. Shapes'
  BY <1>1, <1>2, <1>3, <1>4 DEF TypeInv, Shapes
<1>6. Named'
  BY <1>1, <1>2 DEF TypeInv, Named
<1> QED BY <1>2, <1>4, <1>5, <1>6, SameTableInv, EpisodesAreKnown

(* A failed write of the stdin writer keeps the types.                     *)
LEMMA WriteFailsType == ASSUME TypeInv, WriteFails PROVE TypeInv'
<1> DEFINE j == Head(stdin)
<1>1. /\ stdin' \in Seq(JobType) /\ j \in JobType
      /\ j.ask \in DOMAIN asks \cup {None} /\ (j.who = "deny" => j.ask # None)
      /\ \A i \in DOMAIN stdin' : /\ stdin'[i].ask \in DOMAIN asks \cup {None}
                                  /\ stdin'[i].who = "deny" => stdin'[i].ask # None
  BY TailJobs DEF WriteFails
<1>2. /\ unsent' = IF j.who = "deny" THEN unsent \cup {j.ask} ELSE unsent
      /\ input' = IF j.marked THEN [input EXCEPT !.on = FALSE, !.captured = None] ELSE input
      /\ UNCHANGED <<provider, hooks, hook, episodes, status, asks, delegation,
                     panes, keys, denials>>
      /\ faults' \in SUBSET Faults
  <2>1. faults' \in SUBSET Faults
    BY FaultType DEF WriteFails, TypeInv, Shapes
  <2> QED BY <2>1 DEF WriteFails
<1> HIDE DEF j
<1>3. /\ input' \in InputType /\ input'.current = input.current
      /\ input'.captured \in {input.captured, None}
  BY <1>2 DEF TypeInv, Shapes, InputType, None
<1>4. unsent' \subseteq DOMAIN asks /\ unsent' \in SUBSET Nat
  <2>1. DOMAIN asks \subseteq Nat /\ unsent \subseteq DOMAIN asks
    BY TableIsFunction DEF TypeInv, Shapes, Named
  <2> QED BY <1>1, <1>2, <2>1
<1>5. Shapes'
  BY <1>1, <1>2, <1>3, <1>4 DEF TypeInv, Shapes
<1>6. Named'
  BY <1>1, <1>2, <1>3, <1>4 DEF TypeInv, Named
<1> QED BY <1>2, <1>5, <1>6, SameTableInv, HooksAreKnown, EpisodesAreKnown

(* Calls and sections that are a transaction on the asks there are.        *)
LEMMA CommitSteps ==
    ASSUME TypeInv,
           \/ ResolveHook \/ Escalate \/ ParentTurnEnds \/ Progress
           \/ \E a \in DOMAIN asks : Reply(a) \/ Dismiss(a)
    PROVE  /\ TypeInv' /\ Alike(asks, asks') /\ Commit(asks')
           /\ UNCHANGED <<provider, hooks, episodes, status, panes, stdin, unsent,
                          keys, faults, denials>>
           /\ hook' = hook \/ ResolveHook
<1>1. asks \in Seq(AskType) /\ hook \in HookAt
  BY DEF TypeInv, Shapes
<1>2. /\ UNCHANGED <<provider, hooks, episodes, status, panes, stdin, unsent, keys, faults, denials>>
      /\ hook' \in HookAt /\ (hook' = hook \/ ResolveHook)
  <2>1. CASE ResolveHook
    <3>1. hook' \in HookAt
      <4>1. [Idle EXCEPT !.at = "apply", !.ev = hook.ev] \in HookAt
        BY <1>1 DEF Idle, HookAt
      <4> QED BY <2>1, <4>1, RestType DEF ResolveHook
    <3> QED BY <2>1, <3>1 DEF ResolveHook
  <2>2. CASE ~ResolveHook
    BY <1>1, <2>2 DEF Escalate, ParentTurnEnds, Progress, Reply, Dismiss
  <2> QED BY <2>1, <2>2
<1>3. \E bs : Alike(asks, bs) /\ Commit(bs)
  <2>1. CASE ResolveHook
    BY <1>1, <2>1, ResolveAlike DEF ResolveHook
  <2>2. CASE Escalate
    <3>1. Alike(asks, asks) /\ Alike(asks, Escalated(asks, {Top(asks)}))
      BY <1>1, GrownReflexive, EscalatedAlike
    <3> QED BY <2>2, <3>1 DEF Escalate
  <2>3. CASE ParentTurnEnds
    BY <1>1, <2>3, EscalateAllAlike DEF ParentTurnEnds
  <2>4. CASE Progress
    <3> DEFINE bs == Resolve(asks, Reports(asks))
    <3>1. Alike(asks, bs)
      BY <1>1, ResolveAlike
    <3>2. Commit(IF panes.parent THEN bs ELSE EscalateAll(delegation, bs))
      BY <2>4 DEF Progress
    <3> HIDE DEF bs
    <3>3. Alike(asks, EscalateAll(delegation, bs))
      <4>1. bs \in Seq(AskType) /\ Grown(asks, bs) /\ Len(asks) = Len(bs)
        BY <3>1 DEF Alike, Grown
      <4>2. Alike(bs, EscalateAll(delegation, bs))
        BY <4>1, EscalateAllAlike
      <4> QED BY <1>1, <4>1, <4>2, GrownTransitive
    <3> QED BY <3>1, <3>2, <3>3
  <2>5. CASE \E a \in DOMAIN asks : Reply(a) \/ Dismiss(a)
    <3>1. PICK a \in DOMAIN asks : Reply(a) \/ Dismiss(a)
      BY <2>5
    <3>2. Commit(Resolve(asks, {a}))
      BY <3>1 DEF Reply, Dismiss
    <3> QED BY <1>1, <3>2, ResolveAlike
  <2> QED BY <2>1, <2>2, <2>3, <2>4, <2>5
<1>4. PICK bs : Alike(asks, bs) /\ Commit(bs)
  BY <1>3
<1>5. asks' = bs
  BY <1>4 DEF Commit
<1>6. panes' \in [child : BOOLEAN, parent : BOOLEAN] /\ faults' \in SUBSET Faults
  BY <1>2 DEF TypeInv, Shapes
<1>7. TypeInv'
  BY <1>2, <1>4, <1>6, CommitInv
<1> QED BY <1>2, <1>4, <1>5, <1>7

(* The parent's exit keeps the types and hands every open ask of a live    *)
(* child to the user.                                                      *)
LEMMA ParentExitsType ==
    ASSUME TypeInv, ParentExits
    PROVE  /\ TypeInv' /\ Alike(asks, asks')
           /\ Commit(asks') \/ UNCHANGED <<asks, delegation, input>>
           /\ asks' = EscalateAll(delegation, asks)
           /\ UNCHANGED <<provider, hooks, hook, episodes, status, stdin, unsent, keys, denials>>
           /\ panes' = [panes EXCEPT !.parent = FALSE]
<1>1. asks \in Seq(AskType) /\ hook \in HookAt
      /\ panes \in [child : BOOLEAN, parent : BOOLEAN]
  BY DEF TypeInv, Shapes
<1>2. /\ UNCHANGED <<provider, hooks, hook, episodes, status, stdin, unsent, keys, denials>>
      /\ panes' = [panes EXCEPT !.parent = FALSE]
      /\ IF EscalateAll(delegation, asks) = asks THEN UNCHANGED <<asks, delegation, input>>
         ELSE Commit(EscalateAll(delegation, asks))
  BY DEF ParentExits
<1>3. panes' \in [child : BOOLEAN, parent : BOOLEAN] /\ faults' \in SUBSET Faults
      /\ hook' \in HookAt
  BY <1>1, <1>2, FaultType DEF ParentExits, TypeInv
<1>4. CASE EscalateAll(delegation, asks) = asks
  <2>1. Shapes'
    BY <1>2, <1>3, <1>4 DEF TypeInv, Shapes
  <2>2. Alike(asks, asks') /\ input'.current \in DOMAIN asks' \cup {None}
    BY <1>1, <1>2, <1>4, GrownReflexive DEF TypeInv, Named
  <2> QED BY <1>2, <1>4, <2>1, <2>2, AlikeInv
<1>5. CASE EscalateAll(delegation, asks) # asks
  <2>1. Alike(asks, EscalateAll(delegation, asks)) /\ Commit(EscalateAll(delegation, asks))
    BY <1>1, <1>2, <1>5, EscalateAllAlike
  <2>2. asks' = EscalateAll(delegation, asks)
    BY <2>1 DEF Commit
  <2> QED BY <1>2, <1>3, <2>1, <2>2, CommitInv
<1> QED BY <1>4, <1>5

(* A prompt found resolved keeps the types and adds no ask.                *)
LEMMA ApplyResolvedType ==
    ASSUME TypeInv, ApplyResolved PROVE TypeInv' /\ Alike(asks, asks')
<1>1. asks \in Seq(AskType) /\ hook \in HookAt /\ input \in InputType
      /\ delegation \in DelegationType
  BY DEF TypeInv, Shapes
<1> DEFINE bs == Answered(input, asks)
           inp == IF input.on /\ CapturedReport THEN Broadcast(input, bs) ELSE input
<1>2. /\ asks' = bs /\ delegation' = Project(delegation, bs)
      /\ input' = [inp EXCEPT !.on = FALSE, !.captured = IF input.on THEN None ELSE inp.captured]
      /\ status' \in {"idle", "working"} /\ episodes' = {}
      /\ hook' = [hook EXCEPT !.at = "own"]
      /\ UNCHANGED <<provider, hooks, panes, stdin, unsent, keys, faults, denials>>
  BY DEF ApplyResolved
<1>3. Alike(asks, bs)
  BY <1>1, AnsweredAlike
<1> HIDE DEF bs
<1>4. bs \in Seq(AskType) /\ DOMAIN bs = DOMAIN asks
  BY <1>1, <1>3, AlikeCounts
<1>5. /\ inp \in InputType /\ inp.current \in DOMAIN bs \cup {None}
      /\ inp.captured = input.captured
  BY <1>1, <1>4, BroadcastType DEF TypeInv, Named
<1> HIDE DEF inp
<1>6. /\ input' \in InputType /\ input'.current \in DOMAIN bs \cup {None}
      /\ input'.captured \in {input.captured, None}
  BY <1>2, <1>5 DEF InputType, None
<1>7. hook' \in HookAt /\ delegation' \in DelegationType
  <2>1. hook' \in HookAt
    BY <1>1, <1>2 DEF HookAt
  <2> QED BY <1>1, <1>2, <2>1, ProjectType
<1>8. Shapes'
  BY <1>2, <1>4, <1>6, <1>7 DEF TypeInv, Shapes
<1> QED BY <1>2, <1>3, <1>6, <1>8, AlikeInv

(* The delegation's own move.                                              *)
LEMMA MovedType ==
    ASSUME NEW d \in DelegationType, NEW ev PROVE Moved(d, ev) \in DelegationType
BY DEF Moved, DelegationType, Closed

(* An activity hook keeps the types and adds no ask.                       *)
LEMMA AdvanceHookType ==
    ASSUME TypeInv, AdvanceHook PROVE TypeInv' /\ Alike(asks, asks')
<1>1. asks \in Seq(AskType) /\ hook \in HookAt /\ input \in InputType
      /\ delegation \in DelegationType
  BY DEF TypeInv, Shapes
<1>2. /\ hook' \in HookAt
      /\ UNCHANGED <<provider, hooks, episodes, status, panes, stdin, unsent, keys,
                     faults, denials>>
  BY RestType DEF AdvanceHook
<1>3. /\ Alike(asks, asks') /\ delegation' \in DelegationType
      /\ input' = input \/ input' = Broadcast(input, asks')
  <2>1. CASE ~panes.child
    BY <1>1, <2>1, GrownReflexive DEF AdvanceHook
  <2>2. CASE panes.child /\ Top(asks) # None /\ hook.ev # "interrupt"
    <3>1. UNCHANGED asks /\ input' = Broadcast(input, asks)
          /\ delegation' = [delegation EXCEPT !.staged = delegation.staged /\
                ~(hook.ev = "open" /\ asks[Top(asks)].owner = "orchestrator")]
      BY <2>2 DEF AdvanceHook
    <3>2. delegation' \in DelegationType
      BY <1>1, <3>1 DEF DelegationType
    <3> QED BY <1>1, <3>1, <3>2, GrownReflexive
  <2>3. CASE panes.child /\ ~(Top(asks) # None /\ hook.ev # "interrupt")
    <3> DEFINE d == Moved(delegation, hook.ev)
               bs == IF delegation.state \in Closed THEN asks ELSE Expired(d, asks)
    <3>1. asks' = bs /\ delegation' = Project(d, bs) /\ input' = Broadcast(input, bs)
      BY <2>3 DEF AdvanceHook
    <3>2. d \in DelegationType
      BY <1>1, MovedType
    <3>3. Alike(asks, bs)
      BY <1>1, ExpiredAlike, GrownReflexive
    <3> HIDE DEF bs, d
    <3> QED BY <3>1, <3>2, <3>3, ProjectType
  <2> QED BY <2>1, <2>2, <2>3
<1>4. asks' \in Seq(AskType) /\ DOMAIN asks' = DOMAIN asks
  BY <1>1, <1>3, AlikeCounts
<1>5. /\ input' \in InputType /\ input'.current \in DOMAIN asks' \cup {None}
      /\ input'.captured = input.captured
  BY <1>1, <1>3, <1>4, BroadcastType DEF TypeInv, Named
<1>6. Shapes'
  BY <1>2, <1>3, <1>4, <1>5 DEF TypeInv, Shapes
<1> QED BY <1>2, <1>3, <1>5, <1>6, AlikeInv

(* Closing the delegation keeps the types and adds no ask.                 *)
LEMMA CloseDelegationType ==
    ASSUME TypeInv, CloseDelegation PROVE TypeInv' /\ Alike(asks, asks')
<1>1. asks \in Seq(AskType) /\ input \in InputType /\ delegation \in DelegationType
  BY DEF TypeInv, Shapes
<1>2. /\ delegation' = [state |-> IF delegation.staged THEN "done" ELSE "failed",
                        staged |-> FALSE]
      /\ asks' = Expired(delegation', asks) /\ input' = Broadcast(input, asks')
      /\ UNCHANGED <<provider, hooks, hook, episodes, status, panes, stdin,
                     unsent, keys, faults, denials>>
  BY DEF CloseDelegation
<1>3. delegation' \in DelegationType
  BY <1>2 DEF DelegationType, Closed
<1>4. Alike(asks, asks')
  BY <1>1, <1>2, ExpiredAlike
<1>5. asks' \in Seq(AskType) /\ DOMAIN asks' = DOMAIN asks
  BY <1>1, <1>4, AlikeCounts
<1>6. /\ input' \in InputType /\ input'.current \in DOMAIN asks' \cup {None}
      /\ input'.captured = input.captured
  BY <1>1, <1>2, <1>5, BroadcastType
<1>7. Shapes'
  BY <1>2, <1>3, <1>5, <1>6 DEF TypeInv, Shapes
<1> QED BY <1>2, <1>4, <1>6, <1>7, AlikeInv

(* A step that adds asks.                                                  *)
LEMMA GrownInv ==
    ASSUME TypeInv, Shapes', Grown(asks, asks'),
           UNCHANGED <<provider, hooks, episodes, stdin, unsent>>,
           input'.current \in DOMAIN asks' \cup {None}, input'.captured = input.captured,
           provider.next - 1 + Cardinality(ReportIds(asks')) <= MaxAsks, Distinct(asks'),
           \A a \in DOMAIN asks' \ DOMAIN asks :
              /\ asks'[a].source < provider.next
              /\ asks'[a].source = None => asks'[a].kind = "question"
    PROVE  TypeInv'
<1>1. asks \in Seq(AskType) /\ asks' \in Seq(AskType) /\ Len(asks) <= Len(asks')
  BY DEF TypeInv, Shapes, Grown
<1>2. DOMAIN asks \subseteq DOMAIN asks'
  BY <1>1
<1>3. \A a \in DOMAIN asks : asks'[a].source = asks[a].source /\ asks'[a].kind = asks[a].kind
  BY DEF Grown
<1>4. Named'
  BY <1>2 DEF TypeInv, Named
<1>5. \A a \in DOMAIN asks' : asks'[a].source < provider'.next
  BY <1>3 DEF TypeInv, Counted
<1>6. Counted'
  BY <1>5 DEF TypeInv, Counted
<1>7. Asked'
  BY <1>3 DEF TypeInv, Asked
<1> QED BY <1>4, <1>6, <1>7 DEF TypeInv

(* A child's report keeps the types; what it adds is committed with the    *)
(* state that follows from it.                                             *)
LEMMA ReportType ==
    ASSUME TypeInv, Report
    PROVE  /\ TypeInv' /\ Grown(asks, asks') /\ Commit(asks')
           /\ UNCHANGED <<provider, hooks, hook, episodes, status, panes, stdin,
                          unsent, keys, faults, denials>>
           /\ panes.child /\ delegation.state \notin Closed
           /\ ~panes.parent =>
                \E bs \in Seq(AskType) : asks' = EscalateAll(delegation, bs)
<1> DEFINE bs == Append(asks, Ask(None, "question"))
           cs == IF panes.parent THEN bs ELSE EscalateAll(delegation, bs)
<1>1. /\ Commit(cs) /\ CanAsk /\ panes.child /\ delegation.state \notin Closed
      /\ UNCHANGED <<provider, hooks, hook, episodes, status, panes, stdin,
                     unsent, keys, faults, denials>>
  BY DEF Report
<1>2. asks \in Seq(AskType) /\ provider \in ProviderType
  BY DEF TypeInv, Shapes
<1>3. /\ Grown(asks, bs) /\ Len(bs) = Len(asks) + 1 /\ bs[Len(asks) + 1] = Ask(None, "question")
      /\ Cardinality(ReportIds(bs)) = Cardinality(ReportIds(asks)) + 1
      /\ Distinct(asks) => Distinct(bs)
  BY <1>2, AppendGrown, AppendCounts
<1> HIDE DEF bs
<1>4. bs \in Seq(AskType) /\ DOMAIN bs = 1 .. (Len(asks) + 1)
  BY <1>2, <1>3 DEF Grown
<1>5. Alike(bs, cs)
  BY <1>4, GrownReflexive, EscalateAllAlike
<1>6. asks' = cs
  BY <1>1 DEF Commit
<1>7. ~panes.parent => cs = EscalateAll(delegation, bs)
  OBVIOUS
<1> HIDE DEF cs
<1>8. /\ Grown(asks, cs) /\ cs \in Seq(AskType) /\ DOMAIN cs = DOMAIN bs
      /\ ReportIds(cs) = ReportIds(bs) /\ (Distinct(bs) => Distinct(cs))
  BY <1>2, <1>3, <1>4, <1>5, GrownTransitive, AlikeCounts
<1>9. /\ delegation' \in DelegationType /\ input' \in InputType
      /\ input'.current \in DOMAIN cs \cup {None} /\ input'.captured = input.captured
  BY <1>1, <1>8, CommitType DEF TypeInv
<1>10. Shapes'
  BY <1>1, <1>6, <1>8, <1>9 DEF TypeInv, Shapes
<1>11. provider.next - 1 + Cardinality(ReportIds(cs)) <= MaxAsks
  <2>1. provider.next + Cardinality(ReportIds(asks)) <= MaxAsks
    BY <1>1 DEF CanAsk, ReportIds
  <2>2. provider.next \in Nat /\ Cardinality(ReportIds(asks)) \in Nat
    BY <1>2, ReportsFinite, Constants DEF ProviderType
  <2> QED BY <1>3, <1>8, <2>1, <2>2, Constants
<1>12. Distinct(cs)
  BY <1>3, <1>8 DEF TypeInv, Counted
<1>13. \A a \in DOMAIN cs \ DOMAIN asks :
          cs[a].source < provider.next /\ (cs[a].source = None => cs[a].kind = "question")
  <2> SUFFICES ASSUME NEW a \in DOMAIN cs \ DOMAIN asks
               PROVE  /\ cs[a].source < provider.next
                      /\ cs[a].source = None => cs[a].kind = "question"
    OBVIOUS
  <2>1. a = Len(asks) + 1 /\ a \in DOMAIN bs
    BY <1>2, <1>4, <1>8
  <2>2. cs[a].source = bs[a].source /\ cs[a].kind = bs[a].kind
    BY <1>5, <2>1 DEF Alike, Grown
  <2>3. bs[a].source = None /\ bs[a].kind = "question"
    BY <1>3, <2>1, NewAsk DEF Kinds
  <2> QED BY <1>2, <2>2, <2>3, Constants DEF ProviderType
<1>14. TypeInv'
  BY <1>1, <1>6, <1>8, <1>9, <1>10, <1>11, <1>12, <1>13, GrownInv
<1> QED BY <1>1, <1>4, <1>6, <1>7, <1>8, <1>14

(* A prompt found open keeps the types; its ask is added once and escalated*)
(* when the parent is gone.                                                *)
LEMMA ApplyNeedsInputType ==
    ASSUME TypeInv, ApplyNeedsInput
    PROVE  /\ TypeInv' /\ Grown(asks, asks') /\ Alike(Opened(asks), asks')
           /\ delegation' = Project(delegation, asks')
           /\ asks' = IF panes.parent THEN Opened(asks) ELSE EscalateAll(delegation, Opened(asks))
           /\ UNCHANGED <<provider, hooks, episodes, panes, stdin, unsent, keys,
                          faults, denials>>
           /\ input'.on = input.on /\ input'.captured = input.captured
<1> DEFINE bs == Opened(asks)
           cs == IF panes.parent THEN bs ELSE EscalateAll(delegation, bs)
<1>1. /\ asks' = cs /\ delegation' = Project(delegation, cs) /\ status' = "needs_input"
      /\ input' = input \/ input' = Broadcast(input, cs)
      /\ hook' = [hook EXCEPT !.at = "own"]
      /\ UNCHANGED <<provider, hooks, episodes, panes, stdin, unsent, keys, faults, denials>>
  BY DEF ApplyNeedsInput, Commit
<1>2. /\ asks \in Seq(AskType) /\ provider \in ProviderType /\ episodes \in SUBSET Prompts
      /\ delegation \in DelegationType /\ input \in InputType /\ hook \in HookAt
  BY DEF TypeInv, Shapes
<1>3. /\ Grown(asks, bs) /\ ReportIds(bs) = ReportIds(asks)
      /\ Distinct(asks) => Distinct(bs)
      /\ \A a \in DOMAIN bs \ DOMAIN asks : bs[a].source \in episodes /\ bs[a].source # None
  BY <1>2, OpenedGrown, OpenedCounts
<1> HIDE DEF bs
<1>4. bs \in Seq(AskType) /\ DOMAIN asks \subseteq DOMAIN bs
  BY <1>2, <1>3 DEF Grown
<1>5. Alike(bs, cs)
  BY <1>4, GrownReflexive, EscalateAllAlike
<1> HIDE DEF cs
<1>6. /\ Grown(asks, cs) /\ cs \in Seq(AskType) /\ DOMAIN cs = DOMAIN bs
      /\ ReportIds(cs) = ReportIds(bs) /\ (Distinct(bs) => Distinct(cs))
  BY <1>2, <1>3, <1>4, <1>5, GrownTransitive, AlikeCounts
<1>7. /\ input' \in InputType /\ input'.current \in DOMAIN cs \cup {None}
      /\ input'.captured = input.captured /\ input'.on = input.on
  BY <1>1, <1>2, <1>4, <1>6, BroadcastType DEF TypeInv, Named
<1>8. delegation' \in DelegationType /\ hook' \in HookAt
  <2>1. hook' \in HookAt
    BY <1>1, <1>2 DEF HookAt
  <2> QED BY <1>1, <1>2, <2>1, ProjectType
<1>9. Shapes'
  BY <1>1, <1>6, <1>7, <1>8 DEF TypeInv, Shapes
<1>10. provider.next - 1 + Cardinality(ReportIds(cs)) <= MaxAsks /\ Distinct(cs)
  BY <1>3, <1>6 DEF TypeInv, Counted
<1>11. \A a \in DOMAIN cs \ DOMAIN asks : cs[a].source < provider.next /\ cs[a].source # None
  <2>1. \A a \in DOMAIN bs : cs[a].source = bs[a].source
    BY <1>5 DEF Alike, Grown
  <2> QED BY <1>3, <1>6, <2>1, EpisodesAreKnown
<1>12. TypeInv'
  BY <1>1, <1>6, <1>7, <1>9, <1>10, <1>11, GrownInv
<1> QED BY <1>1, <1>5, <1>6, <1>7, <1>12 DEF bs, cs

(* A column of one ask changed.                                            *)
LEMMA DeniedColumn ==
    ASSUME NEW ts \in Seq(AskType), NEW a \in DOMAIN ts, NEW d \in BOOLEAN
    PROVE  LET bs == [ts EXCEPT ![a].denied = d]
           IN  /\ bs \in Seq(AskType) /\ DOMAIN bs = DOMAIN ts
               /\ bs[a].denied = d
               /\ \A b \in DOMAIN ts : /\ bs[b].source = ts[b].source /\ bs[b].kind = ts[b].kind
                                       /\ bs[b].open = ts[b].open /\ bs[b].owner = ts[b].owner
                                       /\ b # a => bs[b].denied = ts[b].denied
<1> DEFINE r == [ts[a] EXCEPT !.denied = d]
           bs == [ts EXCEPT ![a] = r]
<1>1. ts[a] \in AskType
  OBVIOUS
<1>2. /\ r \in AskType /\ r.source = ts[a].source /\ r.kind = ts[a].kind
      /\ r.denied = d /\ r.open = ts[a].open /\ r.owner = ts[a].owner
  BY <1>1, DeniedAsk
<1>3. [ts EXCEPT ![a].denied = d] = bs
  OBVIOUS
<1> HIDE DEF r
<1>4. bs \in Seq(AskType) /\ DOMAIN bs = DOMAIN ts /\ bs[a] = r
      /\ \A b \in DOMAIN ts : b # a => bs[b] = ts[b]
  BY <1>2
<1> HIDE DEF bs
<1> QED BY <1>2, <1>3, <1>4

(* A table with another denied column.                                     *)
Redenied(ts, bs) ==
    /\ bs \in Seq(AskType) /\ DOMAIN bs = DOMAIN ts
    /\ \A b \in DOMAIN ts : /\ bs[b].source = ts[b].source /\ bs[b].kind = ts[b].kind
                            /\ bs[b].open = ts[b].open /\ bs[b].owner = ts[b].owner

(* Writing the column does no more.                                        *)
LEMMA DeniedIs ==
    ASSUME NEW ts \in Seq(AskType), NEW a \in DOMAIN ts, NEW d \in BOOLEAN
    PROVE  Redenied(ts, [ts EXCEPT ![a].denied = d])
BY DeniedColumn DEF Redenied

(* Claiming a denial, and giving the claim back.                           *)
LEMMA RedeniedInv ==
    ASSUME TypeInv, Redenied(asks, asks'), Shapes', Named', UNCHANGED <<provider, hooks, episodes>>
    PROVE  TypeInv'
<1>1. ReportIds(asks') = ReportIds(asks) /\ (Distinct(asks) => Distinct(asks'))
  BY DEF Redenied, ReportIds, Distinct
<1>2. Counted'
  BY <1>1 DEF TypeInv, Counted, Redenied
<1>3. Asked'
  BY DEF TypeInv, Asked, Redenied
<1> QED BY <1>2, <1>3 DEF TypeInv

(* A denial keeps the types and rewrites only its mark.                    *)
LEMMA DenyType ==
    ASSUME TypeInv, NEW a \in DOMAIN asks, Deny(a)
    PROVE  TypeInv' /\ Redenied(asks, asks')
<1> DEFINE j == Job("deny", a, FALSE)
<1>1. /\ asks' = [asks EXCEPT ![a].denied = TRUE] /\ stdin' = Append(stdin, j)
      /\ UNCHANGED <<provider, hooks, hook, episodes, status, delegation, panes,
                     input, unsent, keys, faults, denials>>
  BY DEF Deny
<1>2. asks \in Seq(AskType) /\ a \in Nat /\ a # None
  BY TableIsFunction DEF TypeInv, Shapes, None
<1>3. Redenied(asks, asks')
  <2>1. TRUE \in BOOLEAN
    OBVIOUS
  <2>2. Redenied(asks, [asks EXCEPT ![a].denied = TRUE])
    BY <1>2, <2>1, DeniedIs, Zenon
  <2> QED BY <1>1, <2>2
<1>4. j \in JobType /\ j.ask = a
  BY <1>2 DEF Job, JobType
<1> HIDE DEF j
<1>5. /\ stdin' \in Seq(JobType)
      /\ \A i \in DOMAIN stdin' : /\ stdin'[i].ask \in DOMAIN asks \cup {None}
                                  /\ stdin'[i].who = "deny" => stdin'[i].ask # None
  BY <1>1, <1>2, <1>4, AppendJob
<1>6. asks' \in Seq(AskType) /\ DOMAIN asks' = DOMAIN asks
  BY <1>3 DEF Redenied
<1>7. Shapes'
  BY <1>1, <1>5, <1>6 DEF TypeInv, Shapes
<1>8. Named'
  BY <1>1, <1>5, <1>6 DEF TypeInv, Named
<1> QED BY <1>1, <1>3, <1>7, <1>8, RedeniedInv

(* A denial's return keeps the types and rewrites only its mark.           *)
LEMMA DenyReturnsType ==
    ASSUME TypeInv, NEW a \in DOMAIN asks, DenyReturns(a)
    PROVE  TypeInv' /\ Redenied(asks, asks')
<1> DEFINE d == asks[a].denied /\ ~asks[a].open
<1>1. asks \in Seq(AskType) /\ asks[a] \in AskType /\ unsent \in SUBSET Nat
      /\ unsent \subseteq DOMAIN asks
  BY DEF TypeInv, Shapes, Named
<1>2. /\ asks' = [asks EXCEPT ![a].denied = d] /\ unsent' = unsent \ {a}
      /\ UNCHANGED <<provider, hooks, hook, episodes, status, delegation, panes,
                     input, stdin, keys, faults, denials>>
  BY <1>1 DEF DenyReturns
<1>3. d \in BOOLEAN
  OBVIOUS
<1> HIDE DEF d
<1>4. Redenied(asks, asks')
  BY <1>1, <1>2, <1>3, DeniedColumn DEF Redenied
<1>5. asks' \in Seq(AskType) /\ DOMAIN asks' = DOMAIN asks
  BY <1>4 DEF Redenied
<1>6. Shapes'
  BY <1>1, <1>2, <1>5 DEF TypeInv, Shapes
<1>7. Named'
  BY <1>1, <1>2, <1>5 DEF TypeInv, Named
<1> QED BY <1>2, <1>4, <1>6, <1>7, RedeniedInv

(* The steps that leave the table alone.                                   *)
QuietStep ==
    \/ \E kind \in Kinds : ShowPrompt(kind)
    \/ EndTurn
    \/ \E p \in Prompts : ReplayHook(p)
    \/ BeginHook \/ DropReplay \/ IgnoreEvent \/ OwnInput \/ NoteActivity
    \/ SendKeys \/ Submit \/ ChildExits \/ Type \/ Write \/ WriteFails

(* The steps that write no ask keep the types and the table.               *)
LEMMA QuietStepType == ASSUME TypeInv, QuietStep PROVE TypeInv' /\ UNCHANGED asks
<1>1. TypeInv'
  BY ShowPromptType, EndTurnType, ReplayHookType, BeginHookType, QuietSectionsType,
     SendKeysType, SubmitType, ChildExitsType, TypeType, WriteType, WriteFailsType
  DEF QuietStep
<1>2. UNCHANGED asks
  BY DEF QuietStep, ShowPrompt, EndTurn, ReplayHook, BeginHook, DropReplay, IgnoreEvent,
         OwnInput, NoteActivity, SendKeys, Submit, ChildExits, Type, Write, WriteFails
<1> QED BY <1>1, <1>2

(* The steps, by what they do to the table.                                *)
CommitStep ==
    \/ ResolveHook \/ Escalate \/ ParentTurnEnds \/ Progress
    \/ \E a \in DOMAIN asks : Reply(a) \/ Dismiss(a)

(* The steps, grouped by what they do to the table of asks.                *)
LEMMA NextSteps ==
    ASSUME Next
    PROVE  \/ QuietStep \/ CommitStep \/ ParentExits \/ Report \/ ApplyNeedsInput
           \/ ApplyResolved \/ AdvanceHook \/ CloseDelegation
           \/ \E a \in DOMAIN asks : Deny(a) \/ DenyReturns(a)
BY DEF Next, QuietStep, CommitStep

(* No step but a denial's touches the denied column, and none reopens or   *)
(* forgets an ask.                                                         *)
LEMMA NextGrown ==
    ASSUME TypeInv, Next
    PROVE  /\ TypeInv'
           /\ \/ Grown(asks, asks')
              \/ Redenied(asks, asks') /\ \E a \in DOMAIN asks : Deny(a) \/ DenyReturns(a)
<1>1. CASE QuietStep
  BY <1>1, QuietStepType, GrownReflexive DEF TypeInv, Shapes, Alike
<1>2. CASE CommitStep
  BY <1>2, CommitSteps DEF CommitStep, Alike
<1>3. CASE ParentExits
  BY <1>3, ParentExitsType DEF Alike
<1>4. CASE Report
  BY <1>4, ReportType
<1>5. CASE ApplyNeedsInput
  BY <1>5, ApplyNeedsInputType
<1>6. CASE ApplyResolved
  BY <1>6, ApplyResolvedType DEF Alike
<1>7. CASE AdvanceHook
  BY <1>7, AdvanceHookType DEF Alike
<1>8. CASE CloseDelegation
  BY <1>8, CloseDelegationType DEF Alike
<1>9. CASE \E a \in DOMAIN asks : Deny(a) \/ DenyReturns(a)
  BY <1>9, DenyType, DenyReturnsType
<1> QED BY <1>1, <1>2, <1>3, <1>4, <1>5, <1>6, <1>7, <1>8, <1>9, NextSteps

(* The invariant holds at the start.                                       *)
LEMMA InitType == Init => TypeInv
<1> SUFFICES ASSUME Init PROVE TypeInv
  OBVIOUS
<1>1. ReportIds(asks) = {} /\ Cardinality(ReportIds(asks)) = 0
  <2>1. ReportIds(asks) = {}
    BY DEF Init, ReportIds
  <2> QED BY <2>1, FS_EmptySet
<1>2. provider \in ProviderType
  BY Constants DEF Init, ProviderType, Kinds
<1>3. hook \in HookAt
  BY RestType DEF Init
<1>4. delegation \in DelegationType /\ input \in InputType
  BY DEF Init, DelegationType, InputType, None
<1>5. denials \in [AskIds -> Nat]
  BY DEF Init
<1>6. Shapes
  BY <1>2, <1>3, <1>4, <1>5 DEF Init, Shapes
<1>7. Named
  BY DEF Init, Named
<1>8. Counted
  BY <1>1, Constants DEF Init, Counted, Distinct
<1>9. Asked
  BY DEF Init, Asked
<1> QED BY <1>6, <1>7, <1>8, <1>9 DEF TypeInv

(* The invariant holds when nothing changes.                               *)
LEMMA StutterType == ASSUME TypeInv, UNCHANGED vars PROVE TypeInv'
<1>1. Shapes'
  BY DEF vars, TypeInv, Shapes
<1>2. Named'
  BY DEF vars, TypeInv, Named
<1>3. Counted'
  BY DEF vars, TypeInv, Counted
<1>4. Asked'
  BY DEF vars, TypeInv, Asked
<1> QED BY <1>1, <1>2, <1>3, <1>4 DEF TypeInv

(* TypeInv holds throughout.                                               *)
LEMMA TypeInvariant == Spec => []TypeInv
<1>1. TypeInv /\ [Next]_vars => TypeInv'
  BY NextGrown, StutterType
<1> QED BY <1>1, InitType, PTL DEF Spec

(* The inductive type invariant implies the one the runs check.            *)
LEMMA TypeInvImplies == TypeInv => TypeOK
<1> SUFFICES ASSUME TypeInv PROVE TypeOK
  OBVIOUS
<1>1. asks \in Seq(AskType) /\ provider \in ProviderType /\ input \in InputType
      /\ hook \in HookAt /\ hooks \in Seq(HookType)
  BY DEF TypeInv, Shapes
<1>2. DOMAIN asks \subseteq AskIds
  <2>1. provider.next \in Nat \ {0}
    BY <1>1, Constants DEF ProviderType
  <2>2. Len(asks) <= provider.next - 1 + Cardinality(ReportIds(asks))
    BY <1>1, <2>1, TableBound DEF TypeInv, Counted
  <2>3. Cardinality(ReportIds(asks)) \in Nat /\ Len(asks) \in Nat /\ DOMAIN asks = 1 .. Len(asks)
    BY <1>1, ReportsFinite, TableIsFunction
  <2>4. provider.next - 1 + Cardinality(ReportIds(asks)) <= MaxAsks
    BY DEF TypeInv, Counted
  <2> QED BY <2>1, <2>2, <2>3, <2>4, Constants
<1>3. \A a \in DOMAIN asks :
          asks[a] \in [source : Prompts \cup {None}, kind : Kinds, open : BOOLEAN,
                      owner : {"orchestrator", "user"}, denied : BOOLEAN]
  <2> SUFFICES ASSUME NEW r \in AskType
               PROVE  r \in [source : Prompts \cup {None}, kind : Kinds, open : BOOLEAN,
                             owner : {"orchestrator", "user"}, denied : BOOLEAN]
    BY <1>1
  <2> QED BY DEF AskType
<1>4. input \in [pending : BOOLEAN, current : DOMAIN asks \cup {None},
                 on : BOOLEAN, captured : DOMAIN asks \cup {None}]
  <2>1. input.current \in DOMAIN asks \cup {None} /\ input.captured \in DOMAIN asks \cup {None}
    BY DEF TypeInv, Named
  <2> QED BY <1>1, <2>1 DEF InputType
<1>5. \A i \in DOMAIN hooks : hooks[i].p \in Prompts \cup {None}
  <2>1. \A h \in HookType : h.p \in Prompts \cup {None}
    BY DEF HookType
  <2> QED BY <1>1, <2>1
<1>6. hook.at \in {"idle", "resolve", "apply", "own", "advance", "activity"}
  BY <1>1 DEF HookAt
<1>7. /\ provider \in [shown : SUBSET Prompts, kind : [Prompts -> Kinds],
                       running : BOOLEAN, next : 1 .. (MaxAsks + 1)]
      /\ delegation \in [state : Closed \cup {"working", "asked_orchestrator", "needs_input"},
                         staged : BOOLEAN]
      /\ episodes \subseteq Prompts /\ status \in {"working", "needs_input", "idle"}
      /\ panes \in [child : BOOLEAN, parent : BOOLEAN] /\ faults \subseteq Faults
      /\ unsent \subseteq DOMAIN asks
  BY DEF TypeInv, Shapes, Named, ProviderType, DelegationType
<1> QED BY <1>2, <1>3, <1>4, <1>5, <1>6, <1>7 DEF TypeOK

(* Every variable keeps its type; the table never has more asks than the   *)
(* prompts shown and the questions reported, as a prompt opens one ask at  *)
(* most however often its hook is delivered, and every key on its way to   *)
(* the terminal names an ask of the table.                                 *)
THEOREM TypeCorrect == Spec => []TypeOK
BY TypeInvariant, TypeInvImplies, PTL

-----------------------------------------------------------------------------
(* The state of the delegation, and who owes an answer.                    *)

Follows(d, ts) ==
    LET owners == {ts[a].owner : a \in Open(ts)}
    IN  d.state \notin Closed =>
          d.state = IF "user" \in owners THEN "needs_input"
                    ELSE IF owners # {} THEN "asked_orchestrator"
                    ELSE "working"

(* project establishes it.                                                 *)
LEMMA ProjectFollows ==
    ASSUME NEW d \in DelegationType, NEW ts \in Seq(AskType)
    PROVE  Follows(Project(d, ts), ts)
<1>1. CASE d.state \in Closed
  BY <1>1, ProjectType DEF Follows
<1>2. CASE d.state \notin Closed
  <2>1. /\ Project(d, ts).state = IF Top(ts) = None THEN "working"
                                  ELSE IF ts[Top(ts)].owner = "user" THEN "needs_input"
                                  ELSE "asked_orchestrator"
    BY <1>2, ProjectType
  <2>2. /\ Top(ts) = None <=> Open(ts) = {}
        /\ Top(ts) # None =>
              (ts[Top(ts)].owner = "user" <=> \E a \in Open(ts) : ts[a].owner = "user")
    BY TopIsOpen
  <2> QED BY <2>1, <2>2 DEF Follows
<1> QED BY <1>1, <1>2

(* It depends on the open asks, their owners and the state only.           *)
LEMMA FollowsSame ==
    ASSUME NEW d, NEW e, NEW ts, NEW bs, Follows(d, ts), e.state = d.state,
           DOMAIN bs = DOMAIN ts,
           \A a \in DOMAIN ts : bs[a].open = ts[a].open /\ bs[a].owner = ts[a].owner
    PROVE  Follows(e, bs)
<1>1. Open(bs) = Open(ts) /\ \A a \in Open(ts) : bs[a].owner = ts[a].owner
  BY DEF Open
<1>2. {bs[a].owner : a \in Open(bs)} = {ts[a].owner : a \in Open(ts)}
  BY <1>1
<1> QED BY <1>2 DEF Follows

(* Every step that writes an ask writes the delegation's state with it.    *)
LEMMA FollowsStep ==
    ASSUME TypeInv, TypeInv', StateFollowsAsks, Next PROVE StateFollowsAsks'
<1>1. /\ asks \in Seq(AskType) /\ asks' \in Seq(AskType)
      /\ delegation \in DelegationType /\ delegation' \in DelegationType
  BY DEF TypeInv, Shapes
<1>2. Follows(delegation, asks)
  BY DEF StateFollowsAsks, Follows
<1>3. SUFFICES Follows(delegation', asks')
  BY DEF StateFollowsAsks, Follows
<1>4. CASE delegation' = Project(delegation, asks')
  BY <1>1, <1>4, ProjectFollows
<1>5. CASE UNCHANGED asks /\ delegation'.state = delegation.state
  BY <1>2, <1>5, FollowsSame
<1>6. CASE QuietStep
  <2>1. delegation'.state = delegation.state
    <3>1. CASE Submit
      <4>1. delegation' = [delegation EXCEPT !.staged = TRUE]
        BY <3>1 DEF Submit
      <4> QED BY <1>1, <4>1 DEF DelegationType
    <3>2. CASE ~Submit
      <4>1. UNCHANGED delegation
        BY <1>6, <3>2 DEF QuietStep, ShowPrompt, EndTurn, ReplayHook, BeginHook, DropReplay,
           IgnoreEvent, OwnInput, NoteActivity, SendKeys, ChildExits, Type, Write, WriteFails
      <4> QED BY <4>1
    <3> QED BY <3>1, <3>2
  <2>2. UNCHANGED asks
    BY <1>6, QuietStepType
  <2> QED BY <1>5, <2>1, <2>2
<1>7. CASE CommitStep
  BY <1>4, <1>7, CommitSteps DEF CommitStep, Commit
<1>8. CASE ParentExits
  BY <1>4, <1>5, <1>8, ParentExitsType DEF Commit
<1>9. CASE Report
  BY <1>4, <1>9, ReportType DEF Commit
<1>10. CASE ApplyNeedsInput
  BY <1>4, <1>10, ApplyNeedsInputType
<1>11. CASE ApplyResolved
  BY <1>4, <1>11 DEF ApplyResolved
<1>12. CASE AdvanceHook
  <2>1. CASE ~panes.child
    BY <1>5, <1>12, <2>1 DEF AdvanceHook
  <2>2. CASE panes.child /\ Top(asks) # None /\ hook.ev # "interrupt"
    <3>1. UNCHANGED asks /\ delegation' = [delegation EXCEPT !.staged = delegation.staged /\
                ~(hook.ev = "open" /\ asks[Top(asks)].owner = "orchestrator")]
      BY <1>12, <2>2 DEF AdvanceHook
    <3>2. delegation'.state = delegation.state
      BY <1>1, <3>1 DEF DelegationType
    <3> QED BY <1>5, <3>1, <3>2
  <2>3. CASE panes.child /\ ~(Top(asks) # None /\ hook.ev # "interrupt")
    <3> DEFINE d == Moved(delegation, hook.ev)
    <3>1. delegation' = Project(d, asks')
      BY <1>12, <2>3 DEF AdvanceHook
    <3>2. d \in DelegationType
      BY <1>1, MovedType
    <3> HIDE DEF d
    <3> QED BY <1>1, <3>1, <3>2, ProjectFollows
  <2> QED BY <2>1, <2>2, <2>3
<1>13. CASE CloseDelegation
  <2>1. delegation'.state \in Closed
    BY <1>13 DEF CloseDelegation, Closed
  <2> QED BY <2>1 DEF Follows
<1>14. CASE \E a \in DOMAIN asks : Deny(a) \/ DenyReturns(a)
  <2>1. Redenied(asks, asks') /\ UNCHANGED delegation
    BY <1>14, DenyType, DenyReturnsType DEF Deny, DenyReturns
  <2> QED BY <1>2, <2>1, FollowsSame DEF Redenied
<1> QED BY <1>6, <1>7, <1>8, <1>9, <1>10, <1>11, <1>12, <1>13, <1>14, NextSteps

(* Through every section of every call the state of an open delegation     *)
(* tells who owes an answer: the operator, the parent or nobody.           *)
THEOREM StateFollows == Spec => []StateFollowsAsks
<1>1. Init => StateFollowsAsks
  BY DEF Init, StateFollowsAsks, Open
<1>2. TypeInv /\ TypeInv' /\ StateFollowsAsks /\ [Next]_vars => StateFollowsAsks'
  <2>1. ASSUME StateFollowsAsks, UNCHANGED vars PROVE StateFollowsAsks'
    BY <2>1 DEF StateFollowsAsks, vars, Open
  <2> QED BY <2>1, FollowsStep
<1> QED BY <1>1, <1>2, TypeInvariant, PTL DEF Spec

-----------------------------------------------------------------------------
(* A parent that is gone.                                                  *)

Owned(ts) == \A a \in Open(ts) : ts[a].owner = "user"

(* What the operator owns stays so.                                        *)
LEMMA OwnedAlike ==
    ASSUME NEW ts \in Seq(AskType), NEW bs, Alike(ts, bs), Owned(ts)
    PROVE  Owned(bs)
<1>1. DOMAIN bs = DOMAIN ts
  BY DEF Alike, Grown
<1> QED BY <1>1 DEF Owned, Open, Alike, Grown

(* After an escalation the parent owns no open ask.                        *)
LEMMA OwnedEscalated ==
    ASSUME NEW ts \in Seq(AskType), NEW d, panes.child, d.state \notin Closed
    PROVE  Owned(EscalateAll(d, ts))
<1>1. /\ Alike(ts, EscalateAll(d, ts))
      /\ \A a \in DOMAIN ts : EscalateAll(d, ts)[a].open = ts[a].open
      /\ \A a \in Open(ts) : EscalateAll(d, ts)[a].owner = "user"
  BY EscalateAllAlike
<1>2. DOMAIN EscalateAll(d, ts) = DOMAIN ts
  BY <1>1 DEF Alike, Grown
<1>3. Open(EscalateAll(d, ts)) = Open(ts)
  BY <1>1, <1>2 DEF Open
<1> QED BY <1>1, <1>3 DEF Owned

(* No step gives an open ask to a parent that is gone.                     *)
LEMMA GoneParentStep ==
    ASSUME TypeInv, TypeInv', GoneParentOwnsNothing, Next PROVE GoneParentOwnsNothing'
<1>1. /\ asks \in Seq(AskType) /\ asks' \in Seq(AskType)
      /\ delegation \in DelegationType /\ delegation' \in DelegationType
      /\ panes \in [child : BOOLEAN, parent : BOOLEAN]
  BY DEF TypeInv, Shapes
<1>2. SUFFICES ASSUME ~panes'.parent, panes'.child, delegation'.state \notin Closed
               PROVE  Owned(asks')
  BY DEF GoneParentOwnsNothing, Owned
<1>3. ASSUME ~panes.parent, panes.child, delegation.state \notin Closed, Alike(asks, asks')
      PROVE  Owned(asks')
  <2>1. Owned(asks)
    BY <1>3 DEF GoneParentOwnsNothing, Owned
  <2> QED BY <1>1, <1>3, <2>1, OwnedAlike
<1>4. CASE QuietStep
  <2>1. ~panes.parent /\ panes.child /\ delegation.state \notin Closed
    <3>1. CASE ChildExits
      BY <1>1, <1>2, <3>1 DEF ChildExits
    <3>2. CASE Submit
      BY <1>2, <3>2 DEF Submit
    <3>3. CASE ~ChildExits /\ ~Submit
      BY <1>2, <1>4, <3>3 DEF QuietStep, ShowPrompt, EndTurn, ReplayHook, BeginHook, DropReplay,
           IgnoreEvent, OwnInput, NoteActivity, SendKeys, Type, Write, WriteFails
    <3> QED BY <3>1, <3>2, <3>3
  <2>2. Alike(asks, asks')
    BY <1>1, <1>4, QuietStepType, GrownReflexive
  <2> QED BY <1>3, <2>1, <2>2
<1>5. CASE CommitStep
  <2>1. Alike(asks, asks') /\ UNCHANGED panes /\ delegation' = Project(delegation, asks')
    BY <1>5, CommitSteps DEF CommitStep, Commit
  <2> QED BY <1>1, <1>2, <1>3, <2>1, ProjectType
<1>6. CASE ParentExits
  <2>1. /\ asks' = EscalateAll(delegation, asks) /\ panes'.child = panes.child
        /\ delegation' = delegation \/ delegation' = Project(delegation, asks')
    BY <1>1, <1>6, ParentExitsType DEF Commit
  <2> QED BY <1>1, <1>2, <2>1, ProjectType, OwnedEscalated
<1>7. CASE Report
  <2>1. ~panes.parent /\ panes.child /\ delegation.state \notin Closed
    BY <1>2, <1>7, ReportType
  <2>2. PICK bs \in Seq(AskType) : asks' = EscalateAll(delegation, bs)
    BY <1>7, <2>1, ReportType
  <2> QED BY <2>1, <2>2, OwnedEscalated
<1>8. CASE ApplyNeedsInput
  <2>1. /\ UNCHANGED panes /\ delegation' = Project(delegation, asks')
        /\ Alike(Opened(asks), asks')
        /\ asks' = IF panes.parent THEN Opened(asks) ELSE EscalateAll(delegation, Opened(asks))
    BY <1>8, ApplyNeedsInputType
  <2>2. Opened(asks) \in Seq(AskType)
    BY <1>1, OpenedGrown DEF TypeInv, Shapes, Grown
  <2> QED BY <1>1, <1>2, <2>1, <2>2, ProjectType, OwnedEscalated
<1>9. CASE ApplyResolved
  <2>1. Alike(asks, asks') /\ UNCHANGED panes /\ delegation' = Project(delegation, asks')
    BY <1>9, ApplyResolvedType DEF ApplyResolved
  <2> QED BY <1>1, <1>2, <1>3, <2>1, ProjectType
<1>10. CASE AdvanceHook
  <2>1. Alike(asks, asks') /\ UNCHANGED panes
    BY <1>10, AdvanceHookType DEF AdvanceHook
  <2>2. CASE delegation.state \notin Closed
    BY <1>2, <1>3, <2>1, <2>2
  <2>3. CASE delegation.state \in Closed
    <3>1. Top(asks) = None
      <4>1. CASE Top(asks) # None /\ hook.ev # "interrupt"
        <5>1. delegation' = [delegation EXCEPT !.staged = delegation.staged /\
                ~(hook.ev = "open" /\ asks[Top(asks)].owner = "orchestrator")]
          BY <1>2, <1>10, <2>1, <4>1 DEF AdvanceHook
        <5>2. delegation'.state = delegation.state
          BY <1>1, <5>1 DEF DelegationType
        <5> QED BY <1>2, <2>3, <5>2
      <4>2. CASE hook.ev = "interrupt"
        <5>1. Moved(delegation, hook.ev) = delegation
          BY <2>3, <4>2 DEF Moved, Ends
        <5>2. delegation' = Project(delegation, asks')
          BY <1>2, <1>10, <2>1, <4>2, <5>1 DEF AdvanceHook
        <5> QED BY <1>1, <1>2, <2>3, <5>2, ProjectType
      <4> QED BY <4>1, <4>2
    <3>2. Owned(asks)
      BY <1>1, <3>1, TopIsOpen DEF Owned
    <3> QED BY <1>1, <2>1, <3>2, OwnedAlike
  <2> QED BY <2>2, <2>3
<1>11. CASE CloseDelegation
  BY <1>2, <1>11 DEF CloseDelegation, Closed
<1>12. CASE \E a \in DOMAIN asks : Deny(a) \/ DenyReturns(a)
  <2>1. Redenied(asks, asks') /\ UNCHANGED <<delegation, panes>>
    BY <1>12, DenyType, DenyReturnsType DEF Deny, DenyReturns
  <2>2. Owned(asks)
    BY <1>2, <2>1 DEF GoneParentOwnsNothing, Owned
  <2> QED BY <2>1, <2>2 DEF Owned, Open, Redenied
<1> QED BY <1>4, <1>5, <1>6, <1>7, <1>8, <1>9, <1>10, <1>11, <1>12, NextSteps

(* No ask of a live child waits for a parent that is gone: not one opened  *)
(* before the exit, not one a hook or a report opens after it, and not     *)
(* when a turn reopens the delegation.                                     *)
THEOREM GoneParent == Spec => []GoneParentOwnsNothing
<1>1. Init => GoneParentOwnsNothing
  BY DEF Init, GoneParentOwnsNothing
<1>2. TypeInv /\ TypeInv' /\ GoneParentOwnsNothing /\ [Next]_vars => GoneParentOwnsNothing'
  <2>1. ASSUME GoneParentOwnsNothing, UNCHANGED vars PROVE GoneParentOwnsNothing'
    BY <2>1 DEF GoneParentOwnsNothing, vars, Open
  <2> QED BY <2>1, GoneParentStep
<1> QED BY <1>1, <1>2, TypeInvariant, PTL DEF Spec

-----------------------------------------------------------------------------
(* Denials.                                                                *)

(* The jobs that deny an ask, and all that became of its denials.          *)
Denying(a) == {j \in JobType : j.who = "deny" /\ j.ask = a}

Total(st, dn, un, a) ==
    Cardinality(Places(st, Denying(a))) + dn[a] + (IF a \in un THEN 1 ELSE 0)

(* The invariant: an ask that is not in the table yet has no denial.       *)
DenialInv ==
    /\ \A a \in Open(asks) :
          Total(stdin, denials, unsent, a) = IF asks[a].denied THEN 1 ELSE 0
    /\ \A a \in AskIds \ DOMAIN asks : denials[a] = 0

(* The inductive account of the denials implies the one the runs check.    *)
LEMMA DenialInvImplies == TypeInv => (DenialInv => DenialAccounted)
<1> SUFFICES ASSUME TypeInv, DenialInv PROVE DenialAccounted
  OBVIOUS
<1>1. stdin \in Seq(JobType)
  BY DEF TypeInv, Shapes
<1>2. \A a : {i \in DOMAIN stdin : stdin[i].who = "deny" /\ stdin[i].ask = a}
               = Places(stdin, Denying(a))
  BY <1>1 DEF Places, Denying
<1> QED BY <1>2 DEF DenialInv, Total, DenialAccounted

(* What a total is made of.                                                *)
LEMMA TotalParts ==
    ASSUME TypeInv, NEW a \in DOMAIN asks
    PROVE  /\ a \in AskIds /\ denials[a] \in Nat
           /\ Cardinality(Places(stdin, Denying(a))) \in Nat
<1>1. stdin \in Seq(JobType) /\ denials \in [AskIds -> Nat]
  BY DEF TypeInv, Shapes
<1>2. a \in AskIds
  BY TypeInvImplies DEF TypeOK
<1> QED BY <1>1, <1>2, PlacesFinite

(* An ask that is new has no denial.                                       *)
LEMMA NewAskTotal ==
    ASSUME TypeInv, DenialInv, NEW a \in AskIds \ DOMAIN asks
    PROVE  Total(stdin, denials, unsent, a) = 0
<1>1. Places(stdin, Denying(a)) = {}
  <2>1. \A i \in DOMAIN stdin : stdin[i].who = "deny" => stdin[i].ask \in DOMAIN asks
    BY DEF TypeInv, Named
  <2> QED BY <2>1 DEF Places, Denying
<1>2. a \notin unsent
  BY DEF TypeInv, Named
<1>3. denials[a] = 0
  BY DEF DenialInv
<1>4. Cardinality(Places(stdin, Denying(a))) = 0
  BY <1>1, FS_EmptySet
<1> QED BY <1>2, <1>3, <1>4 DEF Total

(* Steps that do nothing to the denials.                                   *)
LEMMA DenialKept ==
    ASSUME TypeInv, TypeInv', DenialInv, Grown(asks, asks'), UNCHANGED <<stdin, denials, unsent>>
    PROVE  DenialInv'
<1>1. asks \in Seq(AskType) /\ asks' \in Seq(AskType) /\ DOMAIN asks \subseteq DOMAIN asks'
      /\ DOMAIN asks' \subseteq AskIds
  <2>1. DOMAIN asks' \subseteq AskIds
    <3>1. TypeOK'
      BY TypeInvImplies, PTL
    <3> QED BY <3>1 DEF TypeOK
  <2> QED BY <2>1 DEF TypeInv, Shapes, Grown
<1>2. ASSUME NEW a \in Open(asks')
      PROVE  Total(stdin, denials, unsent, a) = IF asks'[a].denied THEN 1 ELSE 0
  <2>1. a \in DOMAIN asks' /\ asks'[a].open
    BY DEF Open
  <2>2. CASE a \in DOMAIN asks
    <3>1. asks[a].open /\ asks'[a].denied = asks[a].denied
      BY <2>1, <2>2 DEF Grown
    <3> QED BY <2>2, <3>1 DEF DenialInv, Open
  <2>3. CASE a \notin DOMAIN asks
    <3>1. ~asks'[a].denied
      BY <2>1, <2>3 DEF Grown
    <3> QED BY <1>1, <2>1, <2>3, <3>1, NewAskTotal
  <2> QED BY <2>2, <2>3
<1>3. \A a \in AskIds \ DOMAIN asks' : denials[a] = 0
  BY <1>1 DEF DenialInv
<1> QED BY <1>2, <1>3 DEF DenialInv

(* A key that denies nothing.                                              *)
LEMMA OtherKey ==
    ASSUME TypeInv, DenialInv, NEW j \in JobType, j.who # "deny", stdin' = Append(stdin, j),
           UNCHANGED <<asks, denials, unsent>>
    PROVE  DenialInv'
<1>1. stdin \in Seq(JobType)
  BY DEF TypeInv, Shapes
<1>2. ASSUME NEW a \in DOMAIN asks
      PROVE  Total(stdin', denials, unsent, a) = Total(stdin, denials, unsent, a)
  <2>1. j \notin Denying(a)
    BY DEF Denying
  <2>2. Cardinality(Places(stdin', Denying(a))) = Cardinality(Places(stdin, Denying(a)))
    BY <1>1, <2>1, TotalParts, CountAppend
  <2> QED BY <2>2 DEF Total
<1> QED BY <1>2 DEF DenialInv, Open

(* A write of the stdin writer keeps the denials accounted for.            *)
LEMMA WriteDenial == ASSUME TypeInv, DenialInv, Write PROVE DenialInv'
<1> DEFINE j == Head(stdin)
<1>1. /\ stdin # << >> /\ stdin' = Tail(stdin)
      /\ denials' = IF j.who = "deny" THEN [denials EXCEPT ![j.ask] = @ + 1] ELSE denials
      /\ UNCHANGED <<asks, unsent>>
  BY DEF Write
<1>2. /\ stdin \in Seq(JobType) /\ denials \in [AskIds -> Nat] /\ j \in JobType
      /\ j.who = "deny" => j.ask \in DOMAIN asks
  BY <1>1, TailJobs DEF TypeInv, Shapes
<1>3. ASSUME NEW a
      PROVE  Cardinality(Places(stdin, Denying(a)))
               = Cardinality(Places(stdin', Denying(a))) + (IF j \in Denying(a) THEN 1 ELSE 0)
  BY <1>1, <1>2, CountTail
<1> HIDE DEF j
<1>4. ASSUME NEW a \in DOMAIN asks
      PROVE  Total(stdin', denials', unsent, a) = Total(stdin, denials, unsent, a)
  <2>1. a \in AskIds /\ denials[a] \in Nat
    BY TotalParts
  <2>2. Cardinality(Places(stdin', Denying(a))) \in Nat
    <3>1. stdin' \in Seq(JobType)
      BY <1>1, <1>2
    <3> QED BY <3>1, PlacesFinite
  <2>3. denials'[a] = IF j \in Denying(a) THEN denials[a] + 1 ELSE denials[a]
    BY <1>1, <1>2, <2>1 DEF Denying
  <2> QED BY <1>3, <2>1, <2>2, <2>3 DEF Total
<1>5. \A a \in AskIds \ DOMAIN asks : denials'[a] = denials[a]
  BY <1>1, <1>2
<1> QED BY <1>1, <1>4, <1>5 DEF DenialInv, Open

(* A failed write keeps the denials accounted for.                         *)
LEMMA WriteFailsDenial == ASSUME TypeInv, DenialInv, WriteFails PROVE DenialInv'
<1> DEFINE j == Head(stdin)
<1>1. /\ stdin # << >> /\ stdin' = Tail(stdin)
      /\ unsent' = IF j.who = "deny" THEN unsent \cup {j.ask} ELSE unsent
      /\ UNCHANGED <<asks, denials>>
  BY DEF WriteFails
<1>2. stdin \in Seq(JobType) /\ j \in JobType
  BY <1>1, TailJobs DEF TypeInv, Shapes
<1>3. ASSUME NEW a
      PROVE  Cardinality(Places(stdin, Denying(a)))
               = Cardinality(Places(stdin', Denying(a))) + (IF j \in Denying(a) THEN 1 ELSE 0)
  BY <1>1, <1>2, CountTail
<1> HIDE DEF j
<1>4. ASSUME NEW a \in Open(asks)
      PROVE  Total(stdin', denials, unsent', a) = Total(stdin, denials, unsent, a)
  <2>1. a \in DOMAIN asks /\ denials[a] \in Nat
    BY TotalParts DEF Open
  <2>2. Cardinality(Places(stdin', Denying(a))) \in Nat
    <3>1. stdin' \in Seq(JobType)
      BY <1>1, <1>2
    <3> QED BY <3>1, PlacesFinite
  <2>3. Total(stdin, denials, unsent, a) <= 1
    BY DEF DenialInv
  <2>4. a \in unsent' <=> a \in unsent \/ j \in Denying(a)
    BY <1>1, <1>2 DEF Denying
  <2> QED BY <1>3, <2>1, <2>2, <2>3, <2>4 DEF Total
<1> QED BY <1>1, <1>4 DEF DenialInv, Open

(* A denial is accounted for from the mark on.                             *)
LEMMA DenyDenial ==
    ASSUME TypeInv, DenialInv, NEW a \in DOMAIN asks, Deny(a) PROVE DenialInv'
<1> DEFINE j == Job("deny", a, FALSE)
<1>1. /\ asks' = [asks EXCEPT ![a].denied = TRUE] /\ stdin' = Append(stdin, j)
      /\ ~asks[a].denied /\ UNCHANGED <<unsent, denials>>
  BY DEF Deny
<1>2. /\ asks \in Seq(AskType) /\ stdin \in Seq(JobType) /\ a \in Nat
  BY TableIsFunction DEF TypeInv, Shapes
<1>3. /\ DOMAIN asks' = DOMAIN asks /\ asks'[a].denied
      /\ \A b \in DOMAIN asks : /\ asks'[b].open = asks[b].open
                                /\ b # a => asks'[b].denied = asks[b].denied
  BY <1>1, <1>2, DeniedColumn
<1>4. j \in JobType /\ j.who = "deny" /\ j.ask = a
  BY <1>2 DEF Job, JobType
<1> HIDE DEF j
<1>5. ASSUME NEW b \in Open(asks)
      PROVE  Total(stdin', denials, unsent, b) = IF asks'[b].denied THEN 1 ELSE 0
  <2>1. b \in DOMAIN asks /\ denials[b] \in Nat /\ Cardinality(Places(stdin, Denying(b))) \in Nat
    BY TotalParts DEF Open
  <2>2. Cardinality(Places(stdin', Denying(b)))
          = Cardinality(Places(stdin, Denying(b))) + (IF j \in Denying(b) THEN 1 ELSE 0)
    BY <1>1, <1>2, <1>4, CountAppend
  <2>3. j \in Denying(b) <=> b = a
    BY <1>4 DEF Denying
  <2>4. Total(stdin, denials, unsent, b) = IF asks[b].denied THEN 1 ELSE 0
    BY DEF DenialInv
  <2>5. Total(stdin', denials, unsent, b)
          = Total(stdin, denials, unsent, b) + (IF b = a THEN 1 ELSE 0)
    BY <2>1, <2>2, <2>3 DEF Total
  <2>6. CASE b = a
    BY <1>1, <1>3, <2>4, <2>5, <2>6
  <2>7. CASE b # a
    BY <1>3, <2>1, <2>4, <2>5, <2>7
  <2> QED BY <2>6, <2>7
<1>6. Open(asks') = Open(asks)
  BY <1>3 DEF Open
<1> QED BY <1>1, <1>3, <1>5, <1>6 DEF DenialInv

(* A denial that returns leaves the account as its answer says.            *)
LEMMA DenyReturnsDenial ==
    ASSUME TypeInv, DenialInv, NEW a \in DOMAIN asks, DenyReturns(a) PROVE DenialInv'
<1> DEFINE d == asks[a].denied /\ ~asks[a].open
<1>1. asks \in Seq(AskType)
  BY DEF TypeInv, Shapes
<1>2. /\ asks' = [asks EXCEPT ![a].denied = d] /\ unsent' = unsent \ {a} /\ a \in unsent
      /\ UNCHANGED <<stdin, denials>>
  BY <1>1 DEF DenyReturns
<1>3. d \in BOOLEAN /\ (asks[a].open => ~d)
  OBVIOUS
<1> HIDE DEF d
<1>4. /\ DOMAIN asks' = DOMAIN asks /\ asks'[a].denied = d
      /\ \A b \in DOMAIN asks : /\ asks'[b].open = asks[b].open
                                /\ b # a => asks'[b].denied = asks[b].denied
  BY <1>1, <1>2, <1>3, DeniedColumn
<1>5. ASSUME NEW b \in Open(asks)
      PROVE  Total(stdin, denials, unsent', b) = IF asks'[b].denied THEN 1 ELSE 0
  <2>1. /\ b \in DOMAIN asks /\ asks[b].open /\ denials[b] \in Nat
        /\ Cardinality(Places(stdin, Denying(b))) \in Nat
    BY TotalParts DEF Open
  <2>2. Total(stdin, denials, unsent, b) = IF asks[b].denied THEN 1 ELSE 0
    BY DEF DenialInv
  <2>3. CASE b = a
    <3>1. Total(stdin, denials, unsent, a) <= 1 /\ a \in unsent /\ a \notin unsent'
      BY <1>2, <2>2, <2>3
    <3>2. Total(stdin, denials, unsent', a) = 0
      BY <2>1, <2>3, <3>1 DEF Total
    <3> QED BY <1>3, <1>4, <2>1, <2>3, <3>2
  <2>4. CASE b # a
    <3>1. Total(stdin, denials, unsent', b) = Total(stdin, denials, unsent, b)
      BY <1>2, <2>4 DEF Total
    <3> QED BY <1>4, <2>1, <2>2, <2>4, <3>1
  <2> QED BY <2>3, <2>4
<1>6. Open(asks') = Open(asks)
  BY <1>4 DEF Open
<1> QED BY <1>2, <1>4, <1>5, <1>6 DEF DenialInv

(* Every step keeps the denials accounted for.                             *)
LEMMA DenialStep == ASSUME TypeInv, TypeInv', DenialInv, Next PROVE DenialInv'
<1>1. CASE Write
  BY <1>1, WriteDenial
<1>2. CASE WriteFails
  BY <1>2, WriteFailsDenial
<1>3. CASE SendKeys
  <2> DEFINE j == Job("orchestrator", None, FALSE)
  <2>1. j \in JobType /\ j.who # "deny"
    BY JobIsJob DEF None
  <2>2. stdin' = Append(stdin, j) /\ UNCHANGED <<asks, denials, unsent>>
    BY <1>3 DEF SendKeys
  <2> HIDE DEF j
  <2> QED BY <2>1, <2>2, OtherKey
<1>4. CASE Type
  <2> DEFINE marks == (input.pending \/ status = "needs_input") /\ ~input.on
             a == IF marks THEN input.current ELSE None
             j == Job("operator", a, marks)
  <2>1. a \in Nat /\ marks \in BOOLEAN
    BY DEF TypeInv, Shapes, InputType, None
  <2>2. stdin' = Append(stdin, j) /\ UNCHANGED <<asks, denials, unsent>>
    BY <1>4 DEF Type
  <2> HIDE DEF a, marks
  <2>3. j \in JobType /\ j.who # "deny"
    BY <2>1, JobIsJob
  <2> HIDE DEF j
  <2> QED BY <2>2, <2>3, OtherKey
<1>5. CASE \E a \in DOMAIN asks : Deny(a) \/ DenyReturns(a)
  BY <1>5, DenyDenial, DenyReturnsDenial
<1>6. CASE ~(Write \/ WriteFails \/ SendKeys \/ Type)
           /\ ~\E a \in DOMAIN asks : Deny(a) \/ DenyReturns(a)
  <2>1. Grown(asks, asks')
    BY <1>6, NextGrown
  <2>2. UNCHANGED <<stdin, denials, unsent>>
    BY <1>6 DEF Next, ShowPrompt, EndTurn, ReplayHook, BeginHook, ResolveHook, DropReplay,
       IgnoreEvent, ApplyNeedsInput, ApplyResolved, OwnInput, AdvanceHook, NoteActivity,
       Reply, Dismiss, Escalate, ParentTurnEnds, ParentExits, Report, Progress, Submit,
       ChildExits, CloseDelegation
  <2> QED BY <2>1, <2>2, DenialKept
<1> QED BY <1>1, <1>2, <1>3, <1>4, <1>5, <1>6

(* A permission claimed for denial has exactly one denial on its way: in   *)
(* the queue, typed, or about to be given back; an unclaimed one has none. *)
(* So no permission is denied twice, nor its claim kept without a denial.  *)
THEOREM Denials == Spec => []DenialAccounted
<1>1. Init => DenialInv
  BY DEF Init, DenialInv, Open
<1>2. TypeInv /\ TypeInv' /\ DenialInv /\ [Next]_vars => DenialInv'
  <2>1. ASSUME DenialInv, UNCHANGED vars PROVE DenialInv'
    BY <2>1 DEF DenialInv, vars, Open, Total, Places
  <2> QED BY <2>1, DenialStep
<1> QED BY <1>1, <1>2, TypeInvariant, DenialInvImplies, PTL DEF Spec

-----------------------------------------------------------------------------
(* The operator's key before the parent's denial.                          *)

(* No denial behind a marked key of the same ask.                          *)
InOrder(st) ==
    \A i, j \in DOMAIN st : i < j /\ st[i].marked /\ st[j].who = "deny"
                               => st[i].ask # st[j].ask

(* While a marked key waits and the pane lives, its intervention is on, or *)
(* the ask it took over is no permission the parent could deny.            *)
Taken(st, on, perms) == \A i \in DOMAIN st : st[i].marked => on \/ st[i].ask \notin perms

OperatorInv ==
    "unwritten" \notin faults =>
        /\ InOrder(stdin)
        /\ panes.child => Taken(stdin, input.on, OpenPermissions(asks))

(* The queue with a key more and with a key fewer.                         *)
LEMMA AppendOrder ==
    ASSUME NEW st \in Seq(JobType), NEW j \in JobType, InOrder(st),
           j.who = "deny" => \A i \in DOMAIN st : st[i].marked => st[i].ask # j.ask
    PROVE  InOrder(Append(st, j))
<1> DEFINE n == Len(st) + 1
           tt == Append(st, j)
<1>1. /\ DOMAIN st = 1 .. Len(st) /\ DOMAIN tt = 1 .. n /\ Len(st) \in Nat /\ tt[n] = j
      /\ \A i \in DOMAIN st : tt[i] = st[i]
  OBVIOUS
<1> HIDE DEF tt
<1> SUFFICES ASSUME NEW i \in DOMAIN tt, NEW k \in DOMAIN tt, i < k, tt[i].marked,
                    tt[k].who = "deny"
             PROVE  tt[i].ask # tt[k].ask
  BY DEF InOrder, tt
<1>2. i \in DOMAIN st
  BY <1>1
<1>3. CASE k = n
  BY <1>1, <1>2, <1>3
<1>4. CASE k # n
  BY <1>1, <1>2, <1>4 DEF InOrder
<1> QED BY <1>3, <1>4

(* Jobs taken from the front stay in order, and marked ones stay taken by  *)
(* the operator.                                                           *)
LEMMA TailOrder ==
    ASSUME NEW st \in Seq(JobType), st # << >>, NEW on, NEW perms
    PROVE  /\ InOrder(st) => InOrder(Tail(st))
           /\ Taken(st, on, perms) => Taken(Tail(st), on, perms)
<1>1. \A i \in DOMAIN Tail(st) : i \in Nat /\ i + 1 \in DOMAIN st /\ Tail(st)[i] = st[i + 1]
  OBVIOUS
<1>2. InOrder(st) => InOrder(Tail(st))
  BY <1>1 DEF InOrder
<1>3. Taken(st, on, perms) => Taken(Tail(st), on, perms)
  BY <1>1 DEF Taken
<1> QED BY <1>2, <1>3

(* A marked job joins the queue only while the operator has the prompt.    *)
LEMMA AppendTaken ==
    ASSUME NEW st \in Seq(JobType), NEW j \in JobType, NEW on, NEW perms, Taken(st, on, perms),
           j.marked => on
    PROVE  Taken(Append(st, j), on, perms)
<1>1. \A i \in DOMAIN Append(st, j) :
         Append(st, j)[i] = j \/ (i \in DOMAIN st /\ Append(st, j)[i] = st[i])
  OBVIOUS
<1> QED BY <1>1 DEF Taken

(* No step opens a permission again that somebody could name already.      *)
LEMMA PermissionsShrink ==
    ASSUME TypeInv, Next
    PROVE  OpenPermissions(asks') \cap (DOMAIN asks \cup {None}) \subseteq OpenPermissions(asks)
<1>1. asks \in Seq(AskType) /\ asks' \in Seq(AskType)
  BY NextGrown DEF TypeInv, Shapes
<1>2. None \notin DOMAIN asks'
  BY <1>1, TableIsFunction DEF None
<1>3. \A a \in DOMAIN asks : /\ asks'[a].kind = asks[a].kind
                             /\ asks'[a].open => asks[a].open
  BY NextGrown DEF Grown, Redenied
<1> QED BY <1>2, <1>3 DEF OpenPermissions, Open

(* A key on its way names an ask of the table.                             *)
LEMMA TakenShrink ==
    ASSUME TypeInv, Next, Taken(stdin, input.on, OpenPermissions(asks)),
           NEW on, input.on => on
    PROVE  Taken(stdin, on, OpenPermissions(asks'))
<1>1. \A i \in DOMAIN stdin : stdin[i].ask \in DOMAIN asks \cup {None}
  BY DEF TypeInv, Named
<1> QED BY <1>1, PermissionsShrink DEF Taken

(* The evidence an intervention waits for resolves every permission.       *)
LEMMA NoPermissionLeft ==
    ASSUME TypeInv, ApplyResolved PROVE OpenPermissions(asks') = {}
<1>1. asks \in Seq(AskType)
  BY DEF TypeInv, Shapes
<1> DEFINE S == {a \in Open(asks) : asks[a].source # None}
                  \cup (IF input.on THEN Reports(asks) \cap {input.captured} ELSE {})
<1>2. asks' = Resolve(asks, S)
  BY DEF ApplyResolved, Answered
<1>3. \A a \in Open(asks) : asks[a].kind = "permission" => a \in S
  BY DEF TypeInv, Asked, Open
<1> HIDE DEF S
<1>4. /\ \A a \in DOMAIN asks : asks'[a].open = (asks[a].open /\ a \notin S)
      /\ Alike(asks, asks')
  BY <1>1, <1>2, ResolveAlike
<1>5. DOMAIN asks' = DOMAIN asks /\ \A a \in DOMAIN asks : asks'[a].kind = asks[a].kind
  BY <1>4 DEF Alike, Grown
<1> QED BY <1>3, <1>4, <1>5 DEF OpenPermissions, Open

(* Every step keeps the operator's answer first.                           *)
LEMMA OperatorStep == ASSUME TypeInv, TypeInv', OperatorInv, Next PROVE OperatorInv'
<1>1. SUFFICES ASSUME "unwritten" \notin faults'
               PROVE  /\ InOrder(stdin')
                      /\ panes'.child => Taken(stdin', input'.on, OpenPermissions(asks'))
  BY DEF OperatorInv
<1>2. /\ stdin \in Seq(JobType) /\ asks \in Seq(AskType) /\ input \in InputType
      /\ panes \in [child : BOOLEAN, parent : BOOLEAN] /\ delegation \in DelegationType
  BY DEF TypeInv, Shapes
<1>3. faults \subseteq faults' /\ (panes'.child => panes.child)
  <2>1. faults \subseteq faults'
    BY DEF Next, ShowPrompt, EndTurn, ReplayHook, BeginHook, ResolveHook, DropReplay,
       IgnoreEvent, ApplyNeedsInput, ApplyResolved, OwnInput, AdvanceHook, NoteActivity,
       Reply, Dismiss, Escalate, ParentTurnEnds, ParentExits, Report, Progress, Submit,
       ChildExits, CloseDelegation, Deny, DenyReturns, SendKeys, Type, Write, WriteFails, Fault
  <2>2. panes'.child => panes.child
    <3>1. CASE ParentExits
      BY <1>2, <3>1 DEF ParentExits
    <3>2. CASE ChildExits
      BY <1>2, <3>2 DEF ChildExits
    <3>3. CASE ~ParentExits /\ ~ChildExits
      BY <3>3 DEF Next, ShowPrompt, EndTurn, ReplayHook, BeginHook, ResolveHook, DropReplay,
       IgnoreEvent, ApplyNeedsInput, ApplyResolved, OwnInput, AdvanceHook, NoteActivity,
       Reply, Dismiss, Escalate, ParentTurnEnds, Report, Progress, Submit,
       CloseDelegation, Deny, DenyReturns, SendKeys, Type, Write, WriteFails
    <3> QED BY <3>1, <3>2, <3>3
  <2> QED BY <2>1, <2>2
<1>4. InOrder(stdin) /\ (panes.child => Taken(stdin, input.on, OpenPermissions(asks)))
  BY <1>1, <1>3 DEF OperatorInv
<1>5. ASSUME UNCHANGED stdin, input.on => input'.on
      PROVE  /\ InOrder(stdin')
             /\ panes'.child => Taken(stdin', input'.on, OpenPermissions(asks'))
  BY <1>3, <1>4, <1>5, TakenShrink
<1>6. CASE ApplyResolved
  <2>1. UNCHANGED stdin /\ OpenPermissions(asks') = {}
    BY <1>6, NoPermissionLeft DEF ApplyResolved
  <2> QED BY <1>4, <2>1 DEF Taken
<1>7. CASE Write
  <2>1. stdin # << >> /\ stdin' = Tail(stdin) /\ UNCHANGED <<input, asks>>
    BY <1>7 DEF Write
  <2> QED BY <1>2, <1>3, <1>4, <2>1, TailOrder
<1>8. CASE WriteFails
  <2>1. stdin # << >> /\ stdin' = Tail(stdin) /\ UNCHANGED panes /\ ~panes.child
    BY <1>1, <1>8 DEF WriteFails, Fault
  <2> QED BY <1>2, <1>4, <2>1, TailOrder
<1>9. CASE SendKeys
  <2> DEFINE j == Job("orchestrator", None, FALSE)
  <2>1. j \in JobType /\ j.who # "deny" /\ ~j.marked
    BY JobIsJob DEF None
  <2>2. stdin' = Append(stdin, j) /\ UNCHANGED <<asks, input>>
    BY <1>9 DEF SendKeys
  <2> HIDE DEF j
  <2> QED BY <1>2, <1>3, <1>4, <2>1, <2>2, AppendOrder, AppendTaken
<1>10. CASE Type
  <2> DEFINE marks == (input.pending \/ status = "needs_input") /\ ~input.on
             a == IF marks THEN input.current ELSE None
             j == Job("operator", a, marks)
  <2>1. a \in Nat /\ marks \in BOOLEAN
    BY <1>2 DEF InputType, None
  <2>2. /\ stdin' = Append(stdin, j) /\ UNCHANGED asks
        /\ input' = IF marks THEN [input EXCEPT !.on = TRUE, !.captured = input.current] ELSE input
    BY <1>10 DEF Type
  <2>3. (marks => input'.on) /\ (input.on => input'.on)
    BY <1>2, <2>2 DEF InputType
  <2> HIDE DEF a, marks
  <2>4. j \in JobType /\ j.who # "deny" /\ j.marked = marks
    BY <2>1, JobIsJob
  <2> HIDE DEF j
  <2>5. InOrder(stdin')
    BY <1>2, <1>4, <2>2, <2>4, AppendOrder
  <2>6. panes'.child => Taken(stdin, input'.on, OpenPermissions(asks'))
    BY <1>3, <1>4, <2>2, <2>3 DEF Taken
  <2> QED BY <1>2, <2>2, <2>3, <2>4, <2>5, <2>6, AppendTaken
<1>11. CASE \E a \in DOMAIN asks : Deny(a)
  <2>1. PICK a \in DOMAIN asks : Deny(a)
    BY <1>11
  <2> DEFINE j == Job("deny", a, FALSE)
  <2>2. /\ stdin' = Append(stdin, j) /\ UNCHANGED <<input, panes>> /\ ~input.on /\ panes.child
        /\ OpenPermissions(asks) # {} /\ a = First(OpenPermissions(asks))
    BY <2>1 DEF Deny, NoIntervention
  <2>3. j \in JobType /\ ~j.marked /\ j.ask = a
    BY <1>2, TableIsFunction, JobIsJob
  <2> HIDE DEF j
  <2>4. a \in OpenPermissions(asks)
    <3>1. OpenPermissions(asks) \in SUBSET Nat
      BY <1>2, TableIsFunction DEF OpenPermissions, Open
    <3> QED BY <2>2, <3>1, FirstIsLeast
  <2>5. InOrder(stdin')
    BY <1>2, <1>4, <2>2, <2>3, <2>4, AppendOrder DEF Taken
  <2>6. Taken(stdin, input'.on, OpenPermissions(asks'))
    BY <1>4, <2>2, TakenShrink
  <2> QED BY <1>2, <2>2, <2>3, <2>5, <2>6, AppendTaken
<1>12. CASE ~(ApplyResolved \/ Write \/ WriteFails \/ SendKeys \/ Type)
            /\ ~\E a \in DOMAIN asks : Deny(a)
  <2>1. UNCHANGED stdin
    BY <1>12 DEF Next, ShowPrompt, EndTurn, ReplayHook, BeginHook, ResolveHook, DropReplay,
       IgnoreEvent, ApplyNeedsInput, OwnInput, AdvanceHook, NoteActivity,
       DenyReturns, Reply, Dismiss, Escalate, ParentTurnEnds, ParentExits, Report, Progress,
       Submit, ChildExits, CloseDelegation
  <2>2. \/ UNCHANGED input
        \/ input' = [input EXCEPT !.pending = Top(asks) # None]
        \/ input' = Broadcast(input, asks')
    <3>1. CASE ApplyNeedsInput
      BY <3>1 DEF ApplyNeedsInput, Commit
    <3>2. CASE AdvanceHook
      BY <3>2 DEF AdvanceHook
    <3>3. CASE ~ApplyNeedsInput /\ ~AdvanceHook
      BY <1>12, <3>3 DEF Next, ShowPrompt, EndTurn, ReplayHook, BeginHook, ResolveHook, DropReplay,
       IgnoreEvent, OwnInput, NoteActivity, DenyReturns, Reply, Dismiss, Escalate,
       ParentTurnEnds, ParentExits, Report, Progress, Submit, ChildExits, CloseDelegation, Commit
    <3> QED BY <3>1, <3>2, <3>3
  <2>3. input'.on = input.on
    <3>1. [input EXCEPT !.pending = Top(asks) # None].on = input.on
      BY <1>2 DEF InputType
    <3>2. Broadcast(input, asks').on = input.on
      BY <1>2 DEF Broadcast, InputType
    <3> QED BY <2>2, <3>1, <3>2
  <2> QED BY <1>5, <2>1, <2>3
<1> QED BY <1>6, <1>7, <1>8, <1>9, <1>10, <1>11, <1>12

(* While every key is written, the parent's denial is never queued behind  *)
(* a key with which the operator took the same ask over, however often the *)
(* operator types and whatever the hooks resolve meanwhile.                *)
THEOREM OperatorFirst == Spec => []OperatorAnswersFirst
<1>1. Init => OperatorInv
  BY DEF Init, OperatorInv, InOrder, Taken
<1>2. TypeInv /\ TypeInv' /\ OperatorInv /\ [Next]_vars => OperatorInv'
  <2>1. ASSUME OperatorInv, UNCHANGED vars PROVE OperatorInv'
    BY <2>1 DEF OperatorInv, vars, OpenPermissions, Open, InOrder, Taken
  <2> QED BY <2>1, OperatorStep
<1>3. OperatorInv => OperatorAnswersFirst
  BY DEF OperatorInv, OperatorAnswersFirst, InOrder
<1> QED BY <1>1, <1>2, <1>3, TypeInvariant, PTL DEF Spec

-----------------------------------------------------------------------------
(* The provider, the episodes and the asks.                                *)

(* What a hook opens and what it closes.                                   *)
Opens(h, p) == h.ev = "open" /\ h.p = p

Closes(h, p) == h.ev \notin Ends \cup {"open"} \/ (h.ev \in Ends /\ h.p = p)

(* A prompt is tracked once the hooks are applied: it is tracked now, or a *)
(* hook opens it, and no hook behind closes it.                            *)
Showing(es, hs, p) ==
    \/ p \in es /\ \A j \in DOMAIN hs : ~Closes(hs[j], p)
    \/ \E i \in DOMAIN hs : /\ Opens(hs[i], p)
                            /\ \A j \in DOMAIN hs : j > i => ~Closes(hs[j], p)

(* The prompts with an ask that is open, and with one that is not.         *)
OpenSources(ts) == {p \in Prompts : \E a \in DOMAIN ts : ts[a].source = p /\ ts[a].open}
DoneSources(ts) == {p \in Prompts : \E a \in DOMAIN ts : ts[a].source = p /\ ~ts[a].open}

(* What holds between two sections of a hook.                              *)
Sections(h, es, st, open) ==
    /\ h.at \in {"idle", "own", "advance", "activity"} =>
          open = es /\ (st = "needs_input" <=> es # {})
    /\ h.at \in {"own", "advance"} /\ h.ev # "open" => es = {}
    /\ h.at = "resolve" => /\ open = es \cup h.gone /\ h.gone \cap es = {}
                           /\ st = "needs_input" /\ h.ev # "open"
                           /\ (h.ev \in Ends /\ ~h.cleared) <=> es # {}
    /\ h.at = "apply" /\ h.ev = "open" => open \subseteq es /\ es # {}
    /\ h.at = "apply" /\ h.ev # "open" =>
          open = {} /\ es = {} /\ (h.ev \in Ends => st = "needs_input")

(* The hooks on their way open prompts nobody has asked about.             *)
FreshHooks(hs, known) ==
    /\ \A i \in DOMAIN hs : hs[i].ev = "open" => hs[i].p \notin known
    /\ \A i, j \in DOMAIN hs : hs[i].ev = "open" /\ hs[j].ev = "open" /\ hs[i].p = hs[j].p
                                  => i = j

Agrees ==
    /\ \A p \in Prompts : p \in provider.shown <=> Showing(episodes, hooks, p)
    /\ ~provider.running => provider.shown = {}
    /\ FreshHooks(hooks, episodes \cup OpenSources(asks) \cup DoneSources(asks))
    /\ episodes \cap DoneSources(asks) = {}
    /\ Sections(hook, episodes, status, OpenSources(asks))

AgreeInv == panes.child /\ "replayed" \notin faults => Agrees

(* A hook more, a hook applied, and no hook left.                          *)
LEMMA ShowingAppend ==
    ASSUME NEW es, NEW hs \in Seq(HookType), NEW h \in HookType, NEW p
    PROVE  Showing(es, Append(hs, h), p) <=> Opens(h, p) \/ (Showing(es, hs, p) /\ ~Closes(h, p))
<1> DEFINE n == Len(hs) + 1
           gs == Append(hs, h)
<1>1. /\ Len(hs) \in Nat /\ DOMAIN hs = 1 .. Len(hs) /\ DOMAIN gs = DOMAIN hs \cup {n}
      /\ gs[n] = h /\ (\A i \in DOMAIN hs : gs[i] = hs[i] /\ i < n /\ ~(i > n) /\ i \in Nat)
      /\ ~(n > n) /\ n \in Nat
  OBVIOUS
<1>2. Opens(h, p) => ~Closes(h, p)
  BY DEF Opens, Closes, Ends
<1> HIDE DEF gs, n
<1>3. ASSUME Opens(h, p) PROVE Showing(es, gs, p)
  <2>1. n \in DOMAIN gs /\ Opens(gs[n], p) /\ \A j \in DOMAIN gs : ~(j > n)
    BY <1>1, <1>3
  <2> QED BY <2>1 DEF Showing
<1>4. ASSUME Showing(es, hs, p), ~Closes(h, p) PROVE Showing(es, gs, p)
  <2>1. CASE p \in es /\ \A j \in DOMAIN hs : ~Closes(hs[j], p)
    BY <1>1, <1>4, <2>1 DEF Showing
  <2>2. CASE \E i \in DOMAIN hs : /\ Opens(hs[i], p)
                                  /\ \A j \in DOMAIN hs : j > i => ~Closes(hs[j], p)
    <3>1. PICK i \in DOMAIN hs : /\ Opens(hs[i], p)
                                 /\ \A j \in DOMAIN hs : j > i => ~Closes(hs[j], p)
      BY <2>2
    <3>2. i \in DOMAIN gs /\ Opens(gs[i], p) /\ \A j \in DOMAIN gs : j > i => ~Closes(gs[j], p)
      BY <1>1, <1>4, <3>1
    <3> QED BY <3>2 DEF Showing
  <2> QED BY <1>4, <2>1, <2>2 DEF Showing
<1>5. ASSUME Showing(es, gs, p), ~Opens(h, p) PROVE Showing(es, hs, p) /\ ~Closes(h, p)
  <2>1. CASE p \in es /\ \A j \in DOMAIN gs : ~Closes(gs[j], p)
    BY <1>1, <1>5, <2>1 DEF Showing
  <2>2. CASE \E i \in DOMAIN gs : /\ Opens(gs[i], p)
                                  /\ \A j \in DOMAIN gs : j > i => ~Closes(gs[j], p)
    <3>1. PICK i \in DOMAIN gs : /\ Opens(gs[i], p)
                                 /\ \A j \in DOMAIN gs : j > i => ~Closes(gs[j], p)
      BY <2>2
    <3>2. i \in DOMAIN hs /\ i < n /\ n > i
      BY <1>1, <1>5, <3>1
    <3>3. Opens(hs[i], p) /\ \A j \in DOMAIN hs : j > i => ~Closes(hs[j], p)
      BY <1>1, <3>1, <3>2
    <3>4. ~Closes(h, p)
      BY <1>1, <3>1, <3>2
    <3> QED BY <3>2, <3>3, <3>4 DEF Showing
  <2> QED BY <1>5, <2>1, <2>2 DEF Showing
<1> QED BY <1>2, <1>3, <1>4, <1>5 DEF gs

(* A hook applied to the episodes shows what the queue with it showed.     *)
LEMMA ShowingTail ==
    ASSUME NEW es, NEW hs \in Seq(HookType), hs # << >>, NEW gs, NEW p,
           p \in gs <=> Opens(Head(hs), p) \/ (p \in es /\ ~Closes(Head(hs), p))
    PROVE  Showing(es, hs, p) <=> Showing(gs, Tail(hs), p)
<1> DEFINE ts == Tail(hs)
<1>1. /\ 1 \in DOMAIN hs /\ hs[1] = Head(hs)
      /\ \A i \in DOMAIN ts : i \in Nat /\ i + 1 \in DOMAIN hs /\ ts[i] = hs[i + 1] /\ i + 1 > 1
      /\ \A j \in DOMAIN hs : j \in Nat /\ (j = 1 \/ (j > 1 /\ j - 1 \in DOMAIN ts /\ hs[j] = ts[j - 1]))
  OBVIOUS
<1> HIDE DEF ts
<1>2. (\A j \in DOMAIN hs : j > 1 => ~Closes(hs[j], p)) <=> \A j \in DOMAIN ts : ~Closes(ts[j], p)
  BY <1>1
<1>3. (\A j \in DOMAIN hs : ~Closes(hs[j], p))
        <=> ~Closes(Head(hs), p) /\ \A j \in DOMAIN ts : ~Closes(ts[j], p)
  BY <1>1, <1>2
<1>4. ASSUME NEW i \in DOMAIN ts
      PROVE  (\A j \in DOMAIN hs : j > i + 1 => ~Closes(hs[j], p))
                <=> \A j \in DOMAIN ts : j > i => ~Closes(ts[j], p)
  <2>1. ASSUME \A j \in DOMAIN hs : j > i + 1 => ~Closes(hs[j], p), NEW j \in DOMAIN ts, j > i
        PROVE  ~Closes(ts[j], p)
    BY <1>1, <2>1
  <2>2. ASSUME \A j \in DOMAIN ts : j > i => ~Closes(ts[j], p), NEW j \in DOMAIN hs, j > i + 1
        PROVE  ~Closes(hs[j], p)
    <3>1. j - 1 \in DOMAIN ts /\ hs[j] = ts[j - 1] /\ j - 1 > i
      BY <1>1, <2>2
    <3> QED BY <2>2, <3>1
  <2> QED BY <2>1, <2>2
<1>5. ASSUME Showing(es, hs, p) PROVE Showing(gs, ts, p)
  <2>1. CASE p \in es /\ \A j \in DOMAIN hs : ~Closes(hs[j], p)
    BY <1>3, <2>1 DEF Showing
  <2>2. CASE \E i \in DOMAIN hs : /\ Opens(hs[i], p)
                                  /\ \A j \in DOMAIN hs : j > i => ~Closes(hs[j], p)
    <3>1. PICK i \in DOMAIN hs : /\ Opens(hs[i], p)
                                 /\ \A j \in DOMAIN hs : j > i => ~Closes(hs[j], p)
      BY <2>2
    <3>2. CASE i = 1
      BY <1>1, <1>2, <3>1, <3>2 DEF Showing
    <3>3. CASE i # 1
      <4>1. i - 1 \in DOMAIN ts /\ hs[i] = ts[i - 1] /\ (i - 1) + 1 = i
        BY <1>1, <3>3
      <4>2. Opens(ts[i - 1], p) /\ \A j \in DOMAIN ts : j > i - 1 => ~Closes(ts[j], p)
        BY <1>4, <3>1, <4>1
      <4> QED BY <4>1, <4>2 DEF Showing
    <3> QED BY <3>2, <3>3
  <2> QED BY <1>5, <2>1, <2>2 DEF Showing
<1>6. ASSUME Showing(gs, ts, p) PROVE Showing(es, hs, p)
  <2>1. CASE p \in gs /\ \A j \in DOMAIN ts : ~Closes(ts[j], p)
    <3>1. CASE Opens(Head(hs), p)
      BY <1>1, <1>2, <2>1, <3>1 DEF Showing
    <3>2. CASE p \in es /\ ~Closes(Head(hs), p)
      BY <1>3, <2>1, <3>2 DEF Showing
    <3> QED BY <2>1, <3>1, <3>2
  <2>2. CASE \E i \in DOMAIN ts : /\ Opens(ts[i], p)
                                  /\ \A j \in DOMAIN ts : j > i => ~Closes(ts[j], p)
    <3>1. PICK i \in DOMAIN ts : /\ Opens(ts[i], p)
                                 /\ \A j \in DOMAIN ts : j > i => ~Closes(ts[j], p)
      BY <2>2
    <3>2. i + 1 \in DOMAIN hs /\ Opens(hs[i + 1], p)
          /\ \A j \in DOMAIN hs : j > i + 1 => ~Closes(hs[j], p)
      BY <1>1, <1>4, <3>1
    <3> QED BY <3>2 DEF Showing
  <2> QED BY <1>6, <2>1, <2>2 DEF Showing
<1> QED BY <1>5, <1>6 DEF ts

(* The hooks that stay fresh.                                              *)
LEMMA FreshSubset ==
    ASSUME NEW hs, NEW S, NEW T, FreshHooks(hs, S), T \subseteq S PROVE FreshHooks(hs, T)
BY DEF FreshHooks

(* A hook that opens a prompt nobody named yet keeps the opening hooks     *)
(* distinct.                                                               *)
LEMMA FreshAppend ==
    ASSUME NEW hs \in Seq(HookType), NEW h \in HookType, NEW S, FreshHooks(hs, S),
           h.ev = "open" => /\ h.p \notin S
                            /\ \A i \in DOMAIN hs : hs[i].ev = "open" => hs[i].p # h.p
    PROVE  FreshHooks(Append(hs, h), S)
<1> DEFINE n == Len(hs) + 1
           gs == Append(hs, h)
<1>1. /\ DOMAIN gs = DOMAIN hs \cup {n} /\ gs[n] = h
      /\ \A i \in DOMAIN hs : gs[i] = hs[i]
  OBVIOUS
<1> HIDE DEF gs, n
<1>2. FreshHooks(gs, S)
  BY <1>1 DEF FreshHooks
<1> QED BY <1>2 DEF gs

(* The opening hook taken from the queue is of a prompt not opened before. *)
LEMMA FreshTail ==
    ASSUME NEW hs \in Seq(HookType), hs # << >>, NEW S, FreshHooks(hs, S)
    PROVE  /\ FreshHooks(Tail(hs), IF Head(hs).ev = "open" THEN S \cup {Head(hs).p} ELSE S)
           /\ Head(hs).ev = "open" => Head(hs).p \notin S
<1> DEFINE ts == Tail(hs)
<1>1. /\ 1 \in DOMAIN hs /\ hs[1] = Head(hs)
      /\ \A i \in DOMAIN ts : i \in Nat /\ i + 1 \in DOMAIN hs /\ ts[i] = hs[i + 1] /\ i + 1 # 1
  OBVIOUS
<1> HIDE DEF ts
<1>2. Head(hs).ev = "open" => Head(hs).p \notin S
  BY <1>1 DEF FreshHooks
<1>3. \A i \in DOMAIN ts : ts[i].ev = "open" =>
         ts[i].p \notin S /\ (Head(hs).ev = "open" => ts[i].p # Head(hs).p)
  BY <1>1 DEF FreshHooks
<1>4. \A i, j \in DOMAIN ts : ts[i].ev = "open" /\ ts[j].ev = "open" /\ ts[i].p = ts[j].p => i = j
  <2> SUFFICES ASSUME NEW i \in DOMAIN ts, NEW j \in DOMAIN ts, ts[i].ev = "open",
                      ts[j].ev = "open", ts[i].p = ts[j].p
               PROVE  i = j
    OBVIOUS
  <2>1. i + 1 = j + 1
    BY <1>1 DEF FreshHooks
  <2> QED BY <1>1, <2>1
<1> QED BY <1>2, <1>3, <1>4 DEF FreshHooks, ts

(* Tables with the same prompts, open and done.                            *)
Keeps(ts, bs) ==
    /\ DOMAIN ts \subseteq DOMAIN bs
    /\ \A a \in DOMAIN ts : /\ bs[a].source = ts[a].source
                            /\ ts[a].source # None => (bs[a].open <=> ts[a].open)
    /\ \A a \in DOMAIN bs \ DOMAIN ts : bs[a].source = None

(* A table that keeps its prompts' asks keeps which prompts are open and   *)
(* which are done.                                                         *)
LEMMA KeepsSources ==
    ASSUME NEW ts, NEW bs, Keeps(ts, bs)
    PROVE  OpenSources(bs) = OpenSources(ts) /\ DoneSources(bs) = DoneSources(ts)
<1>1. \A p \in Prompts : p # None
  BY Constants
<1>2. \A p \in Prompts, a \in DOMAIN bs : bs[a].source = p => a \in DOMAIN ts
  BY <1>1 DEF Keeps
<1> QED BY <1>1, <1>2 DEF Keeps, OpenSources, DoneSources

(* A table keeps its own prompts' asks.                                    *)
LEMMA KeepsReflexive == \A ts : Keeps(ts, ts)
BY DEF Keeps

(* Tables that keep the prompts' asks one after the other keep them.       *)
LEMMA KeepsTransitive ==
    ASSUME NEW ts, NEW bs, NEW cs, Keeps(ts, bs), Keeps(bs, cs) PROVE Keeps(ts, cs)
BY DEF Keeps

(* Resolving reports' asks keeps the prompts' asks.                        *)
LEMMA KeepsResolve ==
    ASSUME NEW ts \in Seq(AskType), NEW S, \A a \in S \cap DOMAIN ts : ts[a].source = None
    PROVE  Keeps(ts, Resolve(ts, S))
<1>1. /\ Alike(ts, Resolve(ts, S))
      /\ \A a \in DOMAIN ts : Resolve(ts, S)[a].open = (ts[a].open /\ a \notin S)
  BY ResolveAlike
<1>2. DOMAIN Resolve(ts, S) = DOMAIN ts
  BY DEF Resolve
<1>3. \A a \in DOMAIN ts : ts[a].open \in BOOLEAN
  BY TableIsFunction, AskColumns
<1> HIDE DEF Resolve
<1> QED BY <1>1, <1>2, <1>3 DEF Keeps, Alike, Grown

(* Handing asks to the user keeps the prompts' asks.                       *)
LEMMA KeepsEscalated ==
    ASSUME NEW ts \in Seq(AskType), NEW S, NEW d
    PROVE  Keeps(ts, Escalated(ts, S)) /\ Keeps(ts, EscalateAll(d, ts))
<1>1. ASSUME NEW T PROVE Keeps(ts, Escalated(ts, T))
  <2>1. Alike(ts, Escalated(ts, T)) /\ \A a \in DOMAIN ts : Escalated(ts, T)[a].open = ts[a].open
    BY EscalatedAlike
  <2>2. DOMAIN Escalated(ts, T) = DOMAIN ts
    BY DEF Escalated
  <2> QED BY <2>1, <2>2 DEF Keeps, Alike, Grown
<1>2. Keeps(ts, EscalateAll(d, ts))
  BY <1>1, KeepsReflexive DEF EscalateAll
<1> QED BY <1>1, <1>2

(* An ask a report opens keeps the prompts' asks.                          *)
LEMMA KeepsAppend ==
    ASSUME NEW ts \in Seq(AskType)
    PROVE  Keeps(ts, Append(ts, Ask(None, "question")))
<1> DEFINE r == Ask(None, "question")
<1>1. r \in AskType /\ r.source = None
  BY NewAsk DEF Kinds
<1> HIDE DEF r
<1>2. /\ DOMAIN Append(ts, r) = DOMAIN ts \cup {Len(ts) + 1} /\ Append(ts, r)[Len(ts) + 1] = r
      /\ \A a \in DOMAIN ts : Append(ts, r)[a] = ts[a]
  BY <1>1
<1>3. Keeps(ts, Append(ts, r))
  BY <1>1, <1>2 DEF Keeps
<1> QED BY <1>3 DEF r

(* Steps that neither the provider nor a hook takes.                       *)
LEMMA KeepSteps ==
    ASSUME TypeInv,
           \/ Escalate \/ SendKeys \/ ParentTurnEnds \/ ParentExits \/ Report \/ Progress
           \/ Submit \/ Type \/ WriteFails
           \/ \E a \in DOMAIN asks : Deny(a) \/ DenyReturns(a) \/ Reply(a) \/ Dismiss(a)
    PROVE  Keeps(asks, asks') /\ UNCHANGED <<provider, hooks, hook, episodes, status>>
<1>1. asks \in Seq(AskType)
  BY DEF TypeInv, Shapes
<1>2. UNCHANGED <<provider, hooks, hook, episodes, status>>
  BY DEF Escalate, SendKeys, ParentTurnEnds, ParentExits, Report, Progress, Submit, Type,
         WriteFails, Deny, DenyReturns, Reply, Dismiss
<1>3. CASE SendKeys \/ Submit \/ Type \/ WriteFails
  BY <1>3, KeepsReflexive DEF SendKeys, Submit, Type, WriteFails
<1>4. CASE Escalate \/ ParentTurnEnds \/ ParentExits
  BY <1>1, <1>4, KeepsEscalated, KeepsReflexive DEF Escalate, ParentTurnEnds, ParentExits, Commit
<1>5. CASE Report
  <2> DEFINE bs == Append(asks, Ask(None, "question"))
  <2>1. asks' = bs \/ asks' = EscalateAll(delegation, bs)
    BY <1>5 DEF Report, Commit
  <2>2. Keeps(asks, bs) /\ bs \in Seq(AskType)
    BY <1>1, KeepsAppend, AppendGrown DEF Grown
  <2> HIDE DEF bs
  <2> QED BY <1>2, <2>1, <2>2, KeepsEscalated, KeepsTransitive
<1>6. CASE Progress
  <2> DEFINE bs == Resolve(asks, Reports(asks))
  <2>1. asks' = bs \/ asks' = EscalateAll(delegation, bs)
    BY <1>6 DEF Progress, Commit
  <2>2. Keeps(asks, bs) /\ bs \in Seq(AskType)
    BY <1>1, KeepsResolve, ResolveAlike DEF Alike, Grown, Reports
  <2> HIDE DEF bs
  <2> QED BY <1>2, <2>1, <2>2, KeepsEscalated, KeepsTransitive
<1>7. CASE \E a \in DOMAIN asks : Reply(a) \/ Dismiss(a)
  <2>1. PICK a \in DOMAIN asks : Reply(a) \/ Dismiss(a)
    BY <1>7
  <2>2. asks' = Resolve(asks, {a}) /\ asks[a].source = None
    BY <2>1 DEF Reply, Dismiss, Commit, Reports
  <2> QED BY <1>2, <1>1, <2>2, KeepsResolve
<1>8. CASE \E a \in DOMAIN asks : Deny(a) \/ DenyReturns(a)
  <2>1. Redenied(asks, asks')
    BY <1>8, DenyType, DenyReturnsType
  <2> QED BY <1>2, <2>1 DEF Redenied, Keeps
<1> QED BY <1>2, <1>3, <1>4, <1>5, <1>6, <1>7, <1>8

(* The agreement when nothing of it changes.                               *)
LEMMA AgreesKept ==
    ASSUME Agrees, Keeps(asks, asks'), UNCHANGED <<provider, hooks, hook, episodes, status>>
    PROVE  Agrees'
<1>1. OpenSources(asks') = OpenSources(asks) /\ DoneSources(asks') = DoneSources(asks)
  BY KeepsSources
<1> QED BY <1>1 DEF Agrees

(* The provider moves and reports it.                                      *)
LEMMA AgreesReported ==
    ASSUME TypeInv, Agrees, NEW h \in HookType, hooks' = Append(hooks, h),
           UNCHANGED <<hook, episodes, status, asks>>,
           \A p \in Prompts : p \in provider'.shown
                                <=> Opens(h, p) \/ (p \in provider.shown /\ ~Closes(h, p)),
           ~provider'.running => provider'.shown = {},
           h.ev = "open" => h.p = provider.next
    PROVE  Agrees'
<1>1. hooks \in Seq(HookType) /\ asks \in Seq(AskType)
  BY DEF TypeInv, Shapes
<1>2. \A p \in Prompts : p \in provider'.shown <=> Showing(episodes, hooks', p)
  <2> SUFFICES ASSUME NEW p \in Prompts
               PROVE  p \in provider'.shown <=> Showing(episodes, hooks', p)
    OBVIOUS
  <2>1. p \in provider.shown <=> Showing(episodes, hooks, p)
    BY DEF Agrees
  <2> QED BY <1>1, <2>1, ShowingAppend
<1> DEFINE known == episodes \cup OpenSources(asks) \cup DoneSources(asks)
<1>3. FreshHooks(hooks, known)
  BY DEF Agrees
<1>4. ASSUME h.ev = "open" PROVE /\ h.p \notin known
                                 /\ \A i \in DOMAIN hooks : hooks[i].ev = "open" => hooks[i].p # h.p
  <2>1. h.p = provider.next /\ provider.next \in Nat /\ ~(provider.next < provider.next)
    BY <1>4, Constants DEF TypeInv, Shapes, ProviderType
  <2>2. \A p \in known : p < provider.next
    BY DEF TypeInv, Counted, OpenSources, DoneSources
  <2>3. \A i \in DOMAIN hooks : hooks[i].ev = "open" => hooks[i].p < provider.next
    BY DEF TypeInv, Counted
  <2> HIDE DEF known
  <2> QED BY <2>1, <2>2, <2>3
<1> HIDE DEF known
<1>5. FreshHooks(hooks', known)
  BY <1>1, <1>3, <1>4, FreshAppend
<1>6. Sections(hook, episodes, status, OpenSources(asks)) /\ episodes \cap DoneSources(asks) = {}
  BY DEF Agrees
<1> QED BY <1>2, <1>5, <1>6 DEF Agrees, known

(* A prompt shown is announced by the hook that follows it.                *)
LEMMA ShowPromptAgrees ==
    ASSUME TypeInv, Agrees, NEW kind, ShowPrompt(kind) PROVE Agrees'
<1> DEFINE p == provider.next
           h == Hook("open", p)
<1>1. provider \in ProviderType /\ provider.next \in Nat
  BY Constants DEF TypeInv, Shapes, ProviderType
<1>2. p \in Prompts
  <2>1. p + Cardinality(ReportIds(asks)) <= MaxAsks
    BY DEF ShowPrompt, CanAsk, ReportIds
  <2>2. Cardinality(ReportIds(asks)) \in Nat
    BY ReportsFinite DEF TypeInv, Shapes
  <2>3. p >= 1
    BY <1>1, Constants DEF ProviderType
  <2> QED BY <1>1, <2>1, <2>2, <2>3, Constants
<1>3. h \in HookType /\ h.ev = "open" /\ h.p = p
  BY <1>2 DEF Hook, HookType, Events
<1>4. hooks' = Append(hooks, h) /\ UNCHANGED <<hook, episodes, status, asks>> /\ provider.running
  BY DEF ShowPrompt
<1>5. provider'.shown = provider.shown \cup {p} /\ provider'.running = provider.running
  BY <1>1 DEF ShowPrompt, ProviderType
<1> HIDE DEF h
<1>6. \A q \in Prompts : /\ Opens(h, q) <=> q = p
                         /\ ~Closes(h, q)
  BY <1>3 DEF Opens, Closes, Ends
<1> QED BY <1>3, <1>4, <1>5, <1>6, AgreesReported

(* A turn's end is announced by the hook that follows it.                  *)
LEMMA EndTurnAgrees == ASSUME TypeInv, Agrees, EndTurn PROVE Agrees'
<1> DEFINE h == Hook("stop", None)
<1>1. h \in HookType /\ h.ev = "stop"
  BY DEF Hook, HookType, Events
<1>2. hooks' = Append(hooks, h) /\ UNCHANGED <<hook, episodes, status, asks>>
  BY DEF EndTurn
<1>3. provider'.shown = {} /\ provider.shown = {}
  BY DEF EndTurn, TypeInv, Shapes, ProviderType
<1> HIDE DEF h
<1>4. \A q \in Prompts : ~Opens(h, q)
  BY <1>1 DEF Opens
<1> QED BY <1>1, <1>2, <1>3, <1>4, AgreesReported

(* Keys that answer the prompt are followed by the hook that says so.      *)
LEMMA WriteAgrees == ASSUME TypeInv, Agrees, Write PROVE Agrees'
<1>1. PICK who : Typed(who)
  BY DEF Write
<1>2. UNCHANGED <<hook, episodes, status, asks>>
  BY DEF Write
<1>3. provider \in ProviderType /\ provider.shown \in SUBSET Prompts
      /\ (~provider.running => provider.shown = {})
  BY DEF TypeInv, Shapes, ProviderType, Agrees
<1>4. CASE AnswerPrompt(who)
  <2> DEFINE p == First(provider.shown)
             ev == IF who = "deny" THEN "PermissionDenied" ELSE "PostToolUse"
             h == Hook(ev, p)
  <2>1. p \in provider.shown
    BY <1>3, <1>4, FirstIsLeast, Constants DEF AnswerPrompt
  <2>2. /\ provider' = [provider EXCEPT !.shown = provider.shown \ {p}]
        /\ hooks' = Append(hooks, h) /\ ev \in Ends
    BY <1>3, <1>4 DEF AnswerPrompt, Ends
  <2> HIDE DEF p, ev
  <2>3. h \in HookType /\ h.ev = ev /\ h.p = p
    BY <1>3, <2>1, <2>2 DEF Hook, HookType, Events
  <2> HIDE DEF h
  <2>4. provider'.shown = provider.shown \ {p} /\ provider'.running = provider.running
    BY <1>3, <2>2 DEF ProviderType
  <2>5. \A q \in Prompts : ~Opens(h, q) /\ (Closes(h, q) <=> q = p)
    BY <2>2, <2>3 DEF Opens, Closes, Ends
  <2>6. h.ev # "open"
    BY <2>2, <2>3 DEF Ends
  <2>7. ~provider'.running => provider'.shown = {}
    BY <1>3, <2>4
  <2> QED BY <1>2, <2>2, <2>3, <2>4, <2>5, <2>6, <2>7, AgreesReported
<1>5. CASE InterruptTurn
  <2> DEFINE h == Hook("interrupt", None)
  <2>1. provider' = [provider EXCEPT !.shown = {}, !.running = FALSE]
        /\ hooks' = Append(hooks, h)
    BY <1>5 DEF InterruptTurn
  <2>2. h \in HookType /\ h.ev = "interrupt"
    BY DEF Hook, HookType, Events
  <2> HIDE DEF h
  <2>3. provider'.shown = {}
    BY <1>3, <2>1 DEF ProviderType
  <2>4. \A q \in Prompts : ~Opens(h, q) /\ Closes(h, q)
    BY <2>2 DEF Opens, Closes, Ends
  <2> QED BY <1>2, <2>1, <2>2, <2>3, <2>4, AgreesReported
<1>6. CASE StartTurn
  <2> DEFINE h == Hook("submit", None)
  <2>1. provider' = [provider EXCEPT !.running = TRUE] /\ hooks' = Append(hooks, h)
        /\ ~provider.running
    BY <1>6 DEF StartTurn
  <2>2. h \in HookType /\ h.ev = "submit"
    BY DEF Hook, HookType, Events
  <2> HIDE DEF h
  <2>3. provider'.shown = {} /\ provider.shown = {}
    BY <1>3, <2>1 DEF ProviderType
  <2>4. \A q \in Prompts : ~Opens(h, q)
    BY <2>2 DEF Opens
  <2> QED BY <1>2, <2>1, <2>2, <2>3, <2>4, AgreesReported
<1>7. CASE UNCHANGED <<provider, hooks>>
  BY <1>2, <1>7, AgreesKept, KeepsReflexive
<1> QED BY <1>1, <1>4, <1>5, <1>6, <1>7 DEF Typed

(* A hook is taken up.                                                     *)
LEMMA BeginHookAgrees == ASSUME TypeInv, Agrees, BeginHook PROVE Agrees'
<1> DEFINE h == Head(hooks)
           gone == CASE h.ev = "open"  -> {}
                     [] h.ev \in Ends -> episodes \cap {h.p}
                     [] OTHER         -> episodes
           left == IF h.ev = "open" THEN episodes \cup {h.p} ELSE episodes \ gone
           now == [at |-> IF gone # {} THEN "resolve" ELSE "apply", ev |-> h.ev,
                   gone |-> gone, cleared |-> gone # {} /\ left = {}]
           open == OpenSources(asks)
           done == DoneSources(asks)
<1>1. /\ hook.at = "idle" /\ hooks # << >> /\ hooks' = Tail(hooks) /\ episodes' = left
      /\ hook' = IF gone = {} /\ h.ev \in Ends THEN Rest(now) ELSE now
      /\ UNCHANGED <<provider, status, asks>>
  BY DEF BeginHook
<1>2. hooks \in Seq(HookType) /\ h \in HookType /\ h.ev \in Events /\ episodes \in SUBSET Prompts
      /\ (h.ev = "open" => h.p \in Prompts)
  BY <1>1, TailHooks DEF HookType, TypeInv, Shapes
<1>3. open = episodes /\ (status = "needs_input" <=> episodes # {})
  BY <1>1 DEF Agrees, Sections
<1>4. /\ FreshHooks(Tail(hooks), IF h.ev = "open" THEN episodes \cup open \cup done \cup {h.p}
                                 ELSE episodes \cup open \cup done)
      /\ h.ev = "open" => h.p \notin episodes \cup open \cup done
  BY <1>1, <1>2, FreshTail DEF Agrees
<1>5. \A p \in Prompts : p \in left <=> Opens(h, p) \/ (p \in episodes /\ ~Closes(h, p))
  <2>1. CASE h.ev = "open"
    BY <2>1 DEF Opens, Closes, Ends
  <2>2. CASE h.ev \in Ends
    BY <2>2 DEF Opens, Closes, Ends
  <2>3. CASE h.ev \notin Ends \cup {"open"}
    BY <2>3 DEF Opens, Closes, Ends
  <2> QED BY <2>1, <2>2, <2>3
<1>6. \A p \in Prompts : p \in provider'.shown <=> Showing(episodes', hooks', p)
  <2> HIDE DEF left, h, gone
  <2> SUFFICES ASSUME NEW p \in Prompts
               PROVE  p \in provider.shown <=> Showing(left, Tail(hooks), p)
    BY <1>1
  <2>1. p \in provider.shown <=> Showing(episodes, hooks, p)
    BY DEF Agrees
  <2>2. Showing(episodes, hooks, p) <=> Showing(left, Tail(hooks), p)
    BY <1>1, <1>2, <1>5, ShowingTail DEF h
  <2> QED BY <2>1, <2>2
<1>7. FreshHooks(hooks', episodes' \cup OpenSources(asks') \cup DoneSources(asks'))
  <2>1. left \cup open \cup done \subseteq IF h.ev = "open" THEN episodes \cup open \cup done \cup {h.p}
                                           ELSE episodes \cup open \cup done
    OBVIOUS
  <2> HIDE DEF left, h, gone, open, done
  <2>2. FreshHooks(Tail(hooks), left \cup open \cup done)
    BY <1>4, <2>1, FreshSubset
  <2> QED BY <1>1, <2>2 DEF open, done
<1>8. episodes' \cap DoneSources(asks') = {}
  <2>1. episodes \cap done = {}
    BY DEF Agrees
  <2>2. left \subseteq IF h.ev = "open" THEN episodes \cup {h.p} ELSE episodes
    OBVIOUS
  <2> HIDE DEF left, h, gone
  <2> QED BY <1>1, <1>4, <2>1, <2>2
<1>9. Sections(hook', episodes', status', OpenSources(asks'))
  <2> HIDE DEF h, open, done
  <2>1. /\ now.at = IF gone # {} THEN "resolve" ELSE "apply"
        /\ now.ev = h.ev /\ now.gone = gone /\ (now.cleared <=> gone # {} /\ left = {})
    OBVIOUS
  <2>2. Rest(now).at \in {"idle", "activity"}
    BY DEF Rest, Idle
  <2>3. CASE h.ev = "open"
    <3>1. gone = {} /\ left = episodes \cup {h.p} /\ hook' = now /\ h.ev \notin Ends
      BY <1>1, <2>3 DEF Ends
    <3> HIDE DEF now, gone, left
    <3> QED BY <1>1, <1>3, <2>1, <2>3, <3>1 DEF Sections, open
  <2>4. CASE h.ev \in Ends
    <3>1. gone = episodes \cap {h.p} /\ left = episodes \ {h.p} /\ h.ev # "open"
      BY <2>4 DEF Ends
    <3>2. hook' = IF gone = {} THEN Rest(now) ELSE now
      BY <1>1, <2>4
    <3> HIDE DEF now, gone, left
    <3>3. CASE gone = {}
      <4>1. left = episodes
        BY <3>1, <3>3
      <4> QED BY <1>1, <1>3, <2>2, <3>2, <3>3, <4>1 DEF Sections, open
    <3>4. CASE gone # {}
      <4>1. open = left \cup gone /\ gone \cap left = {} /\ status = "needs_input"
        BY <1>3, <3>1, <3>4
      <4>2. now.at = "resolve" /\ now.ev = h.ev /\ now.gone = gone /\ (now.cleared <=> left = {})
        BY <2>1, <3>4
      <4> QED BY <1>1, <2>4, <3>1, <3>2, <3>4, <4>1, <4>2 DEF Sections, open
    <3> QED BY <3>3, <3>4
  <2>5. CASE h.ev \notin Ends \cup {"open"}
    <3>1. gone = episodes /\ left = {} /\ hook' = now
      BY <1>1, <2>5
    <3> HIDE DEF now, gone, left
    <3>2. CASE gone = {}
      BY <1>1, <1>3, <2>1, <2>5, <3>1, <3>2 DEF Sections, open
    <3>3. CASE gone # {}
      BY <1>1, <1>3, <2>1, <2>5, <3>1, <3>3 DEF Sections, open
    <3> QED BY <3>2, <3>3
  <2> QED BY <2>3, <2>4, <2>5
<1>10. ~provider'.running => provider'.shown = {}
  BY <1>1 DEF Agrees
<1> HIDE DEF h, gone, left, now, open, done
<1> QED BY <1>6, <1>7, <1>8, <1>9, <1>10 DEF Agrees

(* Resolving moves prompts from the open ones to the done ones.            *)
LEMMA ResolveSources ==
    ASSUME NEW ts \in Seq(AskType), NEW S
    PROVE  LET bs == Resolve(ts, S)
           IN  /\ OpenSources(bs) \subseteq OpenSources(ts)
               /\ DoneSources(bs) \subseteq DoneSources(ts) \cup OpenSources(ts)
               /\ \A p \in OpenSources(bs) :
                     \E a \in DOMAIN ts : ts[a].source = p /\ ts[a].open /\ a \notin S
               /\ \A p \in DoneSources(bs) \ DoneSources(ts) :
                     \E a \in DOMAIN ts : ts[a].source = p /\ ts[a].open /\ a \in S
               /\ \A p \in OpenSources(ts) : (\A a \in DOMAIN ts : ts[a].source = p => a \notin S)
                                                => p \in OpenSources(bs)
<1> DEFINE bs == Resolve(ts, S)
<1>1. /\ DOMAIN bs = DOMAIN ts
      /\ \A a \in DOMAIN ts : bs[a].open = (ts[a].open /\ a \notin S)
      /\ \A a \in DOMAIN ts : bs[a].source = ts[a].source
  <2>1. DOMAIN bs = DOMAIN ts
    BY DEF Resolve
  <2> HIDE DEF bs
  <2> QED BY <2>1, ResolveAlike DEF Alike, Grown, bs
<1>2. \A a \in DOMAIN ts : ts[a].open \in BOOLEAN
  BY TableIsFunction, AskColumns
<1>3. \A a \in DOMAIN ts : bs[a].open <=> ts[a].open /\ a \notin S
  BY <1>1, <1>2
<1> HIDE DEF bs
<1>4. \A p \in OpenSources(bs) :
         \E a \in DOMAIN ts : ts[a].source = p /\ ts[a].open /\ a \notin S
  BY <1>1, <1>3 DEF OpenSources
<1>5. \A p \in DoneSources(bs) \ DoneSources(ts) :
         \E a \in DOMAIN ts : ts[a].source = p /\ ts[a].open /\ a \in S
  BY <1>1, <1>3 DEF DoneSources
<1>6. OpenSources(bs) \subseteq OpenSources(ts)
  BY <1>1, <1>3 DEF OpenSources
<1>7. DoneSources(bs) \subseteq DoneSources(ts) \cup OpenSources(ts)
  BY <1>1, <1>3 DEF OpenSources, DoneSources
<1>8. \A p \in OpenSources(ts) : (\A a \in DOMAIN ts : ts[a].source = p => a \notin S)
                                   => p \in OpenSources(bs)
  BY <1>1, <1>3 DEF OpenSources
<1> QED BY <1>4, <1>5, <1>6, <1>7, <1>8 DEF bs

(* A section that leaves the provider and the hooks alone.                 *)
LEMMA AgreesSection ==
    ASSUME Agrees, UNCHANGED <<provider, hooks, episodes>>,
           OpenSources(asks') \cup DoneSources(asks')
              \subseteq episodes \cup OpenSources(asks) \cup DoneSources(asks),
           episodes \cap DoneSources(asks') = {},
           Sections(hook', episodes, status', OpenSources(asks'))
    PROVE  Agrees'
<1> DEFINE new == OpenSources(asks')
           done == DoneSources(asks')
           known == episodes \cup OpenSources(asks) \cup DoneSources(asks)
<1>1. FreshHooks(hooks, known)
  BY DEF Agrees
<1>2. episodes \cup new \cup done \subseteq known
  OBVIOUS
<1> HIDE DEF known, new, done
<1>3. FreshHooks(hooks, episodes \cup new \cup done)
  BY <1>1, <1>2, FreshSubset
<1> QED BY <1>3 DEF Agrees, new, done

(* A hook's handler goes on to the idle section or to the activity section.*)
LEMMA RestAt == \A h : Rest(h).at \in {"idle", "activity"}
BY DEF Rest, Idle

(* The section that closes an episode keeps the two pictures in agreement. *)
LEMMA ResolveHookAgrees == ASSUME TypeInv, Agrees, ResolveHook PROVE Agrees'
<1> DEFINE S == SourceAsks(asks, hook.gone)
<1>1. /\ hook.at = "resolve" /\ asks' = Resolve(asks, S)
      /\ hook' = IF hook.ev \in Ends /\ ~hook.cleared THEN Rest(hook)
                 ELSE [Idle EXCEPT !.at = "apply", !.ev = hook.ev]
      /\ UNCHANGED <<provider, hooks, episodes, status>>
  BY DEF ResolveHook, Commit
<1>2. asks \in Seq(AskType)
  BY DEF TypeInv, Shapes
<1>3. /\ OpenSources(asks) = episodes \cup hook.gone /\ hook.gone \cap episodes = {}
      /\ status = "needs_input" /\ hook.ev # "open"
      /\ (hook.ev \in Ends /\ ~hook.cleared) <=> episodes # {}
  BY <1>1 DEF Agrees, Sections
<1>4. \A a \in DOMAIN asks : asks[a].open => (a \in S <=> asks[a].source \in hook.gone)
  BY DEF SourceAsks, Open
<1> HIDE DEF S
<1>5. /\ OpenSources(asks') \subseteq OpenSources(asks)
      /\ DoneSources(asks') \subseteq DoneSources(asks) \cup OpenSources(asks)
      /\ \A p \in OpenSources(asks') :
            \E a \in DOMAIN asks : asks[a].source = p /\ asks[a].open /\ a \notin S
      /\ \A p \in DoneSources(asks') \ DoneSources(asks) :
            \E a \in DOMAIN asks : asks[a].source = p /\ asks[a].open /\ a \in S
  BY <1>1, <1>2, ResolveSources
<1>6. OpenSources(asks') \subseteq episodes
  BY <1>3, <1>4, <1>5
<1>7. episodes \cap DoneSources(asks') = {}
  <2>1. episodes \cap DoneSources(asks) = {}
    BY DEF Agrees
  <2> QED BY <1>3, <1>4, <1>5, <2>1
<1>8. episodes \subseteq OpenSources(asks')
  <2> SUFFICES ASSUME NEW p \in episodes PROVE p \in OpenSources(asks')
    OBVIOUS
  <2>1. p \in OpenSources(asks) /\ p \in Prompts
    BY <1>3 DEF OpenSources
  <2>2. PICK a \in DOMAIN asks : asks[a].source = p /\ asks[a].open
    BY <2>1 DEF OpenSources
  <2>3. a \notin S
    BY <1>3, <1>4, <2>2
  <2>4. a \in DOMAIN asks' /\ asks'[a].source = p /\ asks'[a].open
    <3>1. Alike(asks, asks') /\ asks'[a].open = (asks[a].open /\ a \notin S)
      BY <1>1, <1>2, ResolveAlike
    <3>2. DOMAIN asks' = DOMAIN asks /\ asks'[a].source = asks[a].source
      BY <1>2, <3>1 DEF Alike, Grown
    <3>3. asks[a].open = TRUE
      BY <1>2, <2>2, TableIsFunction, AskColumns
    <3> QED BY <2>2, <2>3, <3>1, <3>2, <3>3
  <2> QED BY <2>1, <2>4 DEF OpenSources
<1>9. Sections(hook', episodes, status', OpenSources(asks'))
  <2>1. CASE hook.ev \in Ends /\ ~hook.cleared
    BY <1>1, <1>3, <1>6, <1>8, <2>1, RestAt DEF Sections
  <2>2. CASE ~(hook.ev \in Ends /\ ~hook.cleared)
    <3>1. hook'.at = "apply" /\ hook'.ev = hook.ev
      BY <1>1, <2>2 DEF Idle
    <3> QED BY <1>1, <1>3, <1>6, <2>2, <3>1 DEF Sections
  <2> QED BY <2>1, <2>2
<1> QED BY <1>1, <1>5, <1>7, <1>9, AgreesSection

(* Neither a replay nor an event without a prompt is met.                  *)
LEMMA NothingIgnored ==
    ASSUME TypeInv, Agrees, panes.child PROVE ~DropReplay /\ ~IgnoreEvent
<1>1. ~AllAnswered
  <2> SUFFICES ASSUME AllAnswered PROVE FALSE
    OBVIOUS
  <2>1. PICK p \in episodes : \E a \in DOMAIN asks : asks[a].source = p /\ ~asks[a].open
    BY DEF AllAnswered
  <2>2. p \in DoneSources(asks)
    BY <2>1 DEF DoneSources, TypeInv, Shapes
  <2> QED BY <2>1, <2>2 DEF Agrees
<1>2. hook.at = "apply" /\ hook.ev \in Ends => status = "needs_input"
  BY DEF Agrees, Sections, Ends
<1> QED BY <1>1, <1>2 DEF DropReplay, IgnoreEvent

(* Every prompt tracked is asked about.                                    *)
LEMMA OpenedSources ==
    ASSUME TypeInv, Agrees
    PROVE  /\ OpenSources(Opened(asks)) = OpenSources(asks) \cup episodes
           /\ DoneSources(Opened(asks)) = DoneSources(asks)
<1> DEFINE bs == Opened(asks)
           new == DOMAIN bs \ DOMAIN asks
<1>1. asks \in Seq(AskType) /\ provider \in ProviderType /\ episodes \in SUBSET Prompts
  BY DEF TypeInv, Shapes
<1>2. /\ Grown(asks, bs)
      /\ \A a \in DOMAIN asks : bs[a] = asks[a]
      /\ \A a \in new : bs[a].source \in Unasked(asks) /\ bs[a].open
      /\ \A p \in Unasked(asks) : \E a \in new : bs[a].source = p
  BY <1>1, OpenedGrown
<1> HIDE DEF bs
<1>3. DOMAIN asks \subseteq DOMAIN bs
  BY <1>1, <1>2 DEF Grown
<1>4. Unasked(asks) = episodes \ (OpenSources(asks) \cup DoneSources(asks))
  BY <1>1 DEF Unasked, OpenSources, DoneSources
<1>5. DoneSources(bs) = DoneSources(asks)
  BY <1>2, <1>3 DEF DoneSources
<1>6. OpenSources(bs) = OpenSources(asks) \cup Unasked(asks)
  <2>1. Unasked(asks) \subseteq Prompts
    BY <1>1, <1>4
  <2>2. OpenSources(bs) \subseteq OpenSources(asks) \cup Unasked(asks)
    BY <1>2, <1>3 DEF OpenSources
  <2>3. OpenSources(asks) \subseteq OpenSources(bs)
    BY <1>2, <1>3 DEF OpenSources
  <2>4. Unasked(asks) \subseteq OpenSources(bs)
    BY <1>2, <2>1 DEF OpenSources
  <2> QED BY <2>2, <2>3, <2>4
<1>7. episodes \cap DoneSources(asks) = {}
  BY DEF Agrees
<1> QED BY <1>4, <1>5, <1>6, <1>7 DEF bs

(* The section that opens an ask keeps the two pictures in agreement.      *)
LEMMA ApplyNeedsInputAgrees == ASSUME TypeInv, Agrees, ApplyNeedsInput PROVE Agrees'
<1>1. /\ hook.at = "apply" /\ hook.ev = "open" /\ status' = "needs_input"
      /\ hook' = [hook EXCEPT !.at = "own"] /\ UNCHANGED <<provider, hooks, episodes>>
  BY DEF ApplyNeedsInput
<1>2. asks' = Opened(asks) \/ asks' = EscalateAll(delegation, Opened(asks))
  BY ApplyNeedsInputType
<1>3. Opened(asks) \in Seq(AskType)
  BY OpenedGrown DEF TypeInv, Shapes, Grown
<1>4. Keeps(Opened(asks), asks')
  BY <1>2, <1>3, KeepsEscalated, KeepsReflexive
<1>5. OpenSources(asks') = OpenSources(asks) \cup episodes /\ DoneSources(asks') = DoneSources(asks)
  BY <1>4, KeepsSources, OpenedSources
<1>6. OpenSources(asks) \subseteq episodes /\ episodes # {} /\ episodes \cap DoneSources(asks) = {}
  BY <1>1 DEF Agrees, Sections
<1>7. hook'.at = "own" /\ hook'.ev = "open"
  BY <1>1 DEF TypeInv, Shapes, HookAt
<1>8. Sections(hook', episodes, status', OpenSources(asks'))
  BY <1>1, <1>5, <1>6, <1>7 DEF Sections
<1> QED BY <1>1, <1>5, <1>6, <1>8, AgreesSection

(* The section that resolves an ask keeps the two pictures in agreement.   *)
LEMMA ApplyResolvedAgrees == ASSUME TypeInv, Agrees, ApplyResolved PROVE Agrees'
<1> DEFINE S == {a \in Open(asks) : asks[a].source # None}
                  \cup (IF input.on THEN Reports(asks) \cap {input.captured} ELSE {})
<1>1. /\ hook.at = "apply" /\ hook.ev # "open" /\ status' # "needs_input" /\ episodes' = {}
      /\ hook' = [hook EXCEPT !.at = "own"] /\ UNCHANGED <<provider, hooks>>
      /\ asks' = Resolve(asks, S)
  BY DEF ApplyResolved, Answered
<1> HIDE DEF S
<1>2. OpenSources(asks) = {} /\ episodes = {}
  BY <1>1 DEF Agrees, Sections
<1>3. OpenSources(asks') = {} /\ DoneSources(asks') \subseteq DoneSources(asks)
  BY <1>1, <1>2, ResolveSources DEF TypeInv, Shapes
<1>4. hook'.at = "own" /\ hook'.ev = hook.ev
  BY <1>1 DEF TypeInv, Shapes, HookAt
<1>5. Sections(hook', episodes, status', OpenSources(asks'))
  BY <1>1, <1>2, <1>3, <1>4 DEF Sections
<1> QED BY <1>1, <1>2, <1>3, <1>5, AgreesSection

(* An activity hook of a live child keeps the two pictures in agreement.   *)
LEMMA AdvanceHookAgrees == ASSUME TypeInv, Agrees, AdvanceHook, panes.child PROVE Agrees'
<1>1. hook.at = "advance" /\ hook' = Rest(hook) /\ UNCHANGED <<provider, hooks, episodes, status>>
  BY DEF AdvanceHook
<1>2. /\ OpenSources(asks) = episodes /\ (status = "needs_input" <=> episodes # {})
      /\ hook.ev # "open" => episodes = {}
  BY <1>1 DEF Agrees, Sections
<1>3. asks \in Seq(AskType)
  BY DEF TypeInv, Shapes
<1>4. \/ OpenSources(asks') = episodes /\ DoneSources(asks') = DoneSources(asks)
      \/ /\ episodes = {} /\ OpenSources(asks') = {}
         /\ DoneSources(asks') \subseteq DoneSources(asks)
  <2>1. CASE UNCHANGED asks
    BY <1>2, <2>1
  <2>2. CASE asks' # asks
    <3>1. asks' = Resolve(asks, Open(asks)) /\ ~(Top(asks) # None /\ hook.ev # "interrupt")
      BY <2>2 DEF AdvanceHook, Expired
    <3>2. OpenSources(asks) = {}
      <4>1. CASE Top(asks) = None
        <5>1. Open(asks) = {}
          BY <1>3, <4>1, TopIsOpen
        <5> QED BY <5>1 DEF OpenSources, Open
      <4>2. CASE hook.ev = "interrupt"
        BY <1>2, <4>2
      <4> QED BY <3>1, <4>1, <4>2
    <3> QED BY <1>2, <1>3, <3>1, <3>2, ResolveSources
  <2> QED BY <2>1, <2>2
<1>5. Sections(hook', episodes, status', OpenSources(asks'))
  BY <1>1, <1>2, <1>4, RestAt DEF Sections
<1>6. episodes \cap DoneSources(asks') = {}
  BY <1>4 DEF Agrees
<1>7. OpenSources(asks') \cup DoneSources(asks')
         \subseteq episodes \cup OpenSources(asks) \cup DoneSources(asks)
  BY <1>4
<1> QED BY <1>1, <1>5, <1>6, <1>7, AgreesSection

(* The sections that write no ask and no episode keep the two pictures in  *)
(* agreement.                                                              *)
LEMMA QuietSectionsAgree ==
    ASSUME TypeInv, Agrees, OwnInput \/ NoteActivity PROVE Agrees'
<1>1. UNCHANGED <<provider, hooks, episodes, asks>>
  BY DEF OwnInput, NoteActivity
<1>2. Sections(hook', episodes, status', OpenSources(asks'))
  <2>0. Sections(hook, episodes, status, OpenSources(asks))
    BY DEF Agrees
  <2>1. CASE OwnInput
    <3>1. hook.at = "own" /\ hook'.at = "advance" /\ hook'.ev = hook.ev /\ UNCHANGED status
      BY <2>1 DEF OwnInput, TypeInv, Shapes, HookAt
    <3> QED BY <1>1, <2>0, <3>1 DEF Sections
  <2>2. CASE NoteActivity
    <3>1. /\ hook.at = "activity" /\ hook'.at = "idle"
          /\ status' = status \/ (episodes = {} /\ status' = "working")
      BY <2>2 DEF NoteActivity, Idle
    <3> QED BY <1>1, <2>0, <3>1 DEF Sections
  <2> QED BY <2>1, <2>2
<1>3. episodes \cap DoneSources(asks') = {}
  BY <1>1 DEF Agrees
<1> QED BY <1>1, <1>2, <1>3, AgreesSection

(* Every step keeps the provider's and the daemon's pictures in agreement. *)
LEMMA AgreeStep == ASSUME TypeInv, AgreeInv, Next PROVE AgreeInv'
<1> SUFFICES ASSUME panes'.child, "replayed" \notin faults' PROVE Agrees'
  BY DEF AgreeInv
<1>1. faults \subseteq faults'
  BY DEF Next, ShowPrompt, EndTurn, ReplayHook, BeginHook, ResolveHook, DropReplay,
     IgnoreEvent, ApplyNeedsInput, ApplyResolved, OwnInput, AdvanceHook, NoteActivity,
     Reply, Dismiss, Escalate, ParentTurnEnds, ParentExits, Report, Progress, Submit,
     ChildExits, CloseDelegation, Deny, DenyReturns, SendKeys, Type, Write, WriteFails, Fault
<1>2. panes.child
  <2>0. panes \in [child : BOOLEAN, parent : BOOLEAN]
    BY DEF TypeInv, Shapes
  <2>1. CASE ParentExits
    BY <2>0, <2>1 DEF ParentExits
  <2>2. CASE ChildExits
    BY <2>2 DEF ChildExits
  <2>3. CASE ~ParentExits /\ ~ChildExits
    BY <2>3 DEF Next, ShowPrompt, EndTurn, ReplayHook, BeginHook, ResolveHook, DropReplay,
       IgnoreEvent, ApplyNeedsInput, ApplyResolved, OwnInput, AdvanceHook, NoteActivity,
       Reply, Dismiss, Escalate, ParentTurnEnds, Report, Progress, Submit,
       CloseDelegation, Deny, DenyReturns, SendKeys, Type, Write, WriteFails
  <2> QED BY <2>1, <2>2, <2>3
<1>3. Agrees
  BY <1>1, <1>2 DEF AgreeInv
<1>4. CASE \/ Escalate \/ SendKeys \/ ParentTurnEnds \/ ParentExits \/ Report \/ Progress
           \/ Submit \/ Type \/ WriteFails
           \/ \E a \in DOMAIN asks : Deny(a) \/ DenyReturns(a) \/ Reply(a) \/ Dismiss(a)
  BY <1>3, <1>4, KeepSteps, AgreesKept
<1>5. CASE \E kind \in Kinds : ShowPrompt(kind)
  BY <1>3, <1>5, ShowPromptAgrees
<1>6. CASE EndTurn \/ Write \/ BeginHook \/ ResolveHook
  BY <1>3, <1>6, EndTurnAgrees, WriteAgrees, BeginHookAgrees, ResolveHookAgrees
<1>7. CASE ApplyNeedsInput \/ ApplyResolved \/ AdvanceHook \/ OwnInput \/ NoteActivity
  BY <1>2, <1>3, <1>7, ApplyNeedsInputAgrees, ApplyResolvedAgrees, AdvanceHookAgrees,
     QuietSectionsAgree
<1>8. CASE DropReplay \/ IgnoreEvent
  BY <1>2, <1>3, <1>8, NothingIgnored
<1>9. CASE \E p \in Prompts : ReplayHook(p)
  BY <1>9 DEF ReplayHook, Fault
<1>10. CASE ChildExits
  BY <1>10 DEF ChildExits, TypeInv, Shapes
<1>11. CASE CloseDelegation
  BY <1>2, <1>11 DEF CloseDelegation
<1> QED BY <1>4, <1>5, <1>6, <1>7, <1>8, <1>9, <1>10, <1>11 DEF Next

(* The inductive agreement implies the one the runs check.                 *)
LEMMA AgreeInvImplies == TypeInv => (AgreeInv => ProviderAgrees)
<1> SUFFICES ASSUME TypeInv, AgreeInv, hooks = << >>, hook = Idle, panes.child,
                    "replayed" \notin faults
             PROVE  /\ episodes = provider.shown
                    /\ {asks[a].source : a \in Open(asks)} \ {None} = provider.shown
                    /\ status = "needs_input" <=> provider.shown # {}
  BY DEF ProviderAgrees
<1>1. Agrees /\ hook.at = "idle"
  BY DEF AgreeInv, Idle
<1>2. OpenSources(asks) = episodes /\ (status = "needs_input" <=> episodes # {})
  BY <1>1 DEF Agrees, Sections
<1>3. episodes \in SUBSET Prompts /\ provider.shown \in SUBSET Prompts /\ asks \in Seq(AskType)
  BY DEF TypeInv, Shapes, ProviderType
<1>4. \A p \in Prompts : p \in provider.shown <=> p \in episodes
  BY <1>1 DEF Agrees, Showing
<1>5. {asks[a].source : a \in Open(asks)} \ {None} = OpenSources(asks)
  <2>1. \A a \in DOMAIN asks : asks[a].source \in Prompts \cup {None}
    BY <1>3, TableIsFunction, AskColumns
  <2>2. None \notin Prompts
    BY Constants
  <2> QED BY <2>1, <2>2 DEF OpenSources, Open
<1> QED BY <1>2, <1>3, <1>4, <1>5

(* Once every hook is applied and none was delivered twice, the daemon's   *)
(* episodes, the open asks of its table and the status of the pane agree   *)
(* with the prompts the provider shows, however the sections of the hooks  *)
(* interleave with the calls of the parent, the operator and the writer.   *)
THEOREM PicturesAgree == Spec => []ProviderAgrees
<1>1. Init => AgreeInv
  <2> SUFFICES ASSUME Init PROVE Agrees
    BY DEF AgreeInv
  <2>1. hooks = << >> /\ asks = << >> /\ episodes = {} /\ hook.at = "idle" /\ status = "working"
        /\ provider.shown = {}
    BY DEF Init, Idle
  <2>2. OpenSources(asks) = {} /\ DoneSources(asks) = {}
    BY <2>1 DEF OpenSources, DoneSources
  <2>3. FreshHooks(hooks, episodes \cup OpenSources(asks) \cup DoneSources(asks))
    BY <2>1 DEF FreshHooks
  <2>4. Sections(hook, episodes, status, OpenSources(asks))
    BY <2>1, <2>2 DEF Sections
  <2>5. \A p \in Prompts : ~Showing(episodes, hooks, p)
    BY <2>1 DEF Showing
  <2> QED BY <2>1, <2>2, <2>3, <2>4, <2>5 DEF Agrees
<1>2. TypeInv /\ AgreeInv /\ [Next]_vars => AgreeInv'
  <2>1. ASSUME AgreeInv, UNCHANGED vars PROVE AgreeInv'
    BY <2>1, AgreesKept, KeepsReflexive DEF AgreeInv, vars
  <2> QED BY <2>1, AgreeStep
<1> QED BY <1>1, <1>2, TypeInvariant, AgreeInvImplies, PTL DEF Spec

=============================================================================
