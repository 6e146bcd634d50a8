------------------------- MODULE ActionDispatchProofs -------------------------
(***************************************************************************)
(* For every set of requests, every number of slots, connections and       *)
(* reports and every capacity of the channels: what a success of           *)
(* ActionDispatch stands for, what it shows, in which order reports are    *)
(* recorded, and that no slot is lost.                                     *)
(***************************************************************************)
EXTENDS ActionDispatch, FiniteSetTheorems, SequenceTheorems, TLAPS

-------------------------------------------------------------------------------
(* Sequences of reports *)

Items(s) == {s[i] : i \in 1..Len(s)}

\* Of the reports of one request in s, none falls behind an earlier one, and
\* nothing follows the verdict.
InSequence(s) ==
  \A i, j \in 1..Len(s) :
    i < j /\ s[i].req = s[j].req => s[i].status = "running" /\ s[i].progress <= s[j].progress

LEMMA EmptyItems == Items(<<>>) = {} /\ InSequence(<<>>) /\ <<>> \in Seq(Responses)
BY DEF Items, InSequence

LEMMA ItemsTyped == ASSUME NEW s \in Seq(Responses) PROVE Items(s) \subseteq Responses
BY DEF Items

LEMMA OneItem == ASSUME NEW m \in Responses PROVE Items(<<m>>) = {m} /\ <<m>> \in Seq(Responses)
BY DEF Items

LEMMA AppendItems ==
  ASSUME NEW s \in Seq(Responses), NEW m \in Responses
  PROVE  /\ Append(s, m) \in Seq(Responses) /\ Len(Append(s, m)) = Len(s) + 1
         /\ Items(Append(s, m)) = Items(s) \cup {m}
         /\ InSequence(s)
            /\ (\A e \in Items(s) : e.req = m.req => e.status = "running" /\ e.progress <= m.progress)
            => InSequence(Append(s, m))
<1>1. /\ Append(s, m) \in Seq(Responses) /\ Len(Append(s, m)) = Len(s) + 1 /\ Len(s) \in Nat
      /\ \A i \in 1..Len(s) : Append(s, m)[i] = s[i]
      /\ Append(s, m)[Len(s) + 1] = m
  BY AppendProperties, LenProperties
<1>2. Items(Append(s, m)) = Items(s) \cup {m}
  BY <1>1 DEF Items
<1>3. ASSUME InSequence(s),
             \A e \in Items(s) : e.req = m.req => e.status = "running" /\ e.progress <= m.progress
      PROVE  InSequence(Append(s, m))
  BY <1>1, <1>3 DEF InSequence, Items
<1> QED
  BY <1>1, <1>2, <1>3

LEMMA TailItems ==
  ASSUME NEW s \in Seq(Responses), s # <<>>
  PROVE  /\ Head(s) \in Items(s) /\ Head(s) \in Responses
         /\ Tail(s) \in Seq(Responses) /\ Len(Tail(s)) = Len(s) - 1
         /\ Items(Tail(s)) \subseteq Items(s)
         /\ Items(s) = Items(Tail(s)) \cup {Head(s)}
         /\ InSequence(s) =>
              /\ InSequence(Tail(s))
              /\ \A e \in Items(Tail(s)) : e.req = Head(s).req =>
                   Head(s).status = "running" /\ Head(s).progress <= e.progress
<1>1. /\ Head(s) \in Responses /\ Tail(s) \in Seq(Responses) /\ Len(Tail(s)) = Len(s) - 1
      /\ \A i \in 1..Len(Tail(s)) : Tail(s)[i] = s[i + 1]
      /\ Len(s) \in Nat \ {0} /\ Head(s) = s[1]
  BY HeadTailProperties, LenProperties, EmptySeq
<1>2. Items(s) = Items(Tail(s)) \cup {Head(s)}
  <2>1. ASSUME NEW i \in 1..Len(s) PROVE s[i] \in Items(Tail(s)) \cup {Head(s)}
    <3>1. CASE i = 1
      BY <1>1, <3>1
    <3>2. CASE i # 1
      <4>1. i - 1 \in 1..Len(Tail(s)) /\ s[i] = Tail(s)[i - 1]
        BY <1>1, <3>2
      <4> QED
        BY <4>1 DEF Items
    <3> QED
      BY <3>1, <3>2
  <2>2. Items(Tail(s)) \subseteq Items(s) /\ Head(s) \in Items(s)
    BY <1>1 DEF Items
  <2> QED
    BY <2>1, <2>2 DEF Items
<1>3. ASSUME InSequence(s)
      PROVE  /\ InSequence(Tail(s))
             /\ \A e \in Items(Tail(s)) : e.req = Head(s).req =>
                  Head(s).status = "running" /\ Head(s).progress <= e.progress
  BY <1>1, <1>3 DEF InSequence, Items
<1> QED
  BY <1>1, <1>2, <1>3

LEMMA PrefixItems ==
  ASSUME NEW s \in Seq(Responses), NEW n \in 0..Len(s)
  PROVE  /\ SubSeq(s, 1, n) \in Seq(Responses)
         /\ Items(SubSeq(s, 1, n)) \subseteq Items(s)
         /\ InSequence(s) => InSequence(SubSeq(s, 1, n))
<1>1. Len(s) \in Nat /\ \A i \in 1..n : s[i] \in Responses
  BY LenProperties, ElementOfSeq
<1>2. /\ SubSeq(s, 1, n) \in Seq(Responses) /\ Len(SubSeq(s, 1, n)) = n
      /\ \A i \in 1..n : SubSeq(s, 1, n)[i] = s[i]
  BY <1>1, SubSeqProperties
<1> QED
  BY <1>1, <1>2 DEF Items, InSequence

-------------------------------------------------------------------------------
(* The inductive invariant *)

\* What is on its way to the server is of a claimed task, on its connection,
\* and a verdict is the agent's.
MessagesAreTrue ==
  \A c \in Conns : \A m \in Items(up[c]) \cup Items(hand[c]) :
    /\ via[m.req] = c /\ status[m.req] # "queued"
    /\ m.status \in Verdicts => run[m.req] = m.status

MessagesInSequence == \A c \in Conns : InSequence(up[c])

\* So is what waits in a channel; and it is of the channel's task.
AnswersAreTrue ==
  \A r \in Requests : \A m \in Items(pending[r]) :
    m.req = r /\ (m.status \in Verdicts => run[r] = m.status)

TasksKeepStep ==
  \A r \in Requests :
    /\ status[r] = "queued" => run[r] = "none" /\ caller[r] = "none"
    /\ run[r] # "none" => via[r] \in Conns
    /\ caller[r] = "success" => run[r] = "success"
    /\ status[r] = "success" => caller[r] = "success"

\* The success of a task has been recorded, and is in a hand, in its channel or
\* with its caller.
Recorded(r) ==
  \/ caller[r] = "success"
  \/ \E m \in Items(pending[r]) : m.status = "success"
  \/ \E c \in Conns : \E m \in Items(hand[c]) : m.req = r /\ m.status = "success"

\* A recorded success is the last report that is recorded of its task.
RecordedIsLast ==
  \A r \in Requests : Recorded(r) =>
    step[r] = "success" /\ \A c \in Conns : \A m \in Items(up[c]) : m.req # r

\* The rows are behind the agent, and what is on its way is between the two.
ProgressGrows ==
  \A r \in Requests :
    /\ run[r] \notin Verdicts =>
         /\ progress[r] <= reported[r]
         /\ \A c \in Conns : \A m \in Items(up[c]) : m.req = r => m.progress <= reported[r]
    /\ run[r] \in {"none", "sent", "queued"} => reported[r] = 0
    /\ caller[r] = "waiting" =>
         \A c \in Conns : \A m \in Items(up[c]) : m.req = r => progress[r] <= m.progress

FlowInv ==
  /\ MessagesAreTrue /\ MessagesInSequence /\ AnswersAreTrue /\ TasksKeepStep
  /\ RecordedIsLast /\ SuccessIsWhole /\ ProgressGrows

Inv == TypeOK /\ SlotsAreExact /\ FlowInv

LEMMA InitInv == Init => Inv
<1> SUFFICES ASSUME Init PROVE Inv
  OBVIOUS
<1> USE DispatchAssumption, EmptyItems
<1>1. TypeOK
  BY DEF Init, TypeOK, Full
<1>2. Executing \ Control = {}
  BY DEF Init, Executing
<1>3. SlotsAreExact
  BY <1>2, FS_EmptySet DEF Init, SlotsAreExact
<1>4. MessagesAreTrue /\ MessagesInSequence /\ AnswersAreTrue /\ TasksKeepStep
  BY DEF Init, MessagesAreTrue, MessagesInSequence, AnswersAreTrue, TasksKeepStep
<1>5. RecordedIsLast /\ SuccessIsWhole /\ ProgressGrows
  BY DEF Init, RecordedIsLast, Recorded, SuccessIsWhole, ProgressGrows
<1> QED
  BY <1>1, <1>3, <1>4, <1>5 DEF Inv, FlowInv

-------------------------------------------------------------------------------
(* The semaphore *)

LEMMA SlotsAreFinite == IsFiniteSet(Executing \ Control)
BY DispatchAssumption, FS_Subset DEF Executing

\* An execution that begins takes a slot, and one that ends gives it back.
LEMMA StartSlots ==
  ASSUME TypeOK, SlotsAreExact, NEW r \in Requests, Start(r)
  PROVE  SlotsAreExact' /\ slots' \in 0..MaxConcurrent
<1> DEFINE E == Executing \ Control
<1>1. run[r] = "queued" /\ run' = [run EXCEPT ![r] = "executing"] /\ r \notin E
  BY DEF Start, Executing
<1>2. E' = IF r \in Control THEN E ELSE E \cup {r}
  BY <1>1 DEF Executing, TypeOK
<1>3. slots' = IF r \in Control THEN slots ELSE slots + 1
  BY DEF Start, TakesSlot
<1>4. SlotsAreExact'
  BY <1>1, <1>2, <1>3, SlotsAreFinite, FS_AddElement DEF SlotsAreExact
<1>5. r \in Control \/ slots < MaxConcurrent
  BY DEF Start, HasSlot
<1> QED
  BY <1>3, <1>4, <1>5, DispatchAssumption DEF TypeOK

LEMMA FinishSlots ==
  ASSUME TypeOK, SlotsAreExact, NEW r \in Requests, NEW v \in Verdicts, Finish(r, v)
  PROVE  SlotsAreExact' /\ slots' \in 0..MaxConcurrent
<1> DEFINE E == Executing \ Control
<1>1. run[r] = "executing" /\ run' = [run EXCEPT ![r] = v] /\ v # "executing"
  BY DEF Finish, Verdicts
<1>2. E' = E \ {r} /\ (r \in E <=> r \notin Control)
  BY <1>1 DEF Executing, TypeOK
<1>3. slots' = IF r \in Control THEN slots ELSE slots - 1
  BY DEF Finish, TakesSlot
<1>4. Cardinality(E') = IF r \in Control THEN Cardinality(E) ELSE Cardinality(E) - 1
  BY <1>2, SlotsAreFinite, FS_RemoveElement
<1>5. Cardinality(E') \in Nat
  BY <1>2, SlotsAreFinite, FS_Subset, FS_CardinalityType
<1>6. SlotsAreExact'
  BY <1>3, <1>4 DEF SlotsAreExact
<1> QED
  BY <1>3, <1>4, <1>5, <1>6, DispatchAssumption DEF TypeOK, SlotsAreExact

\* Nothing else begins or ends one.
LEMMA SameSlots ==
  ASSUME SlotsAreExact, Executing' = Executing, UNCHANGED slots
  PROVE  SlotsAreExact'
BY DEF SlotsAreExact

-------------------------------------------------------------------------------
(* Steps that leave the reports where they are *)

LEMMA FlyingTyped ==
  ASSUME TypeOK
  PROVE  /\ \A c \in Conns : \A m \in Items(up[c]) \cup Items(hand[c]) :
              m \in Responses /\ m.req \in Requests
         /\ \A r \in Requests : \A m \in Items(pending[r]) : m \in Responses
<1>1. \A c \in Conns : Items(up[c]) \subseteq Responses /\ Items(hand[c]) \subseteq Responses
  BY ItemsTyped DEF TypeOK
<1>2. \A r \in Requests : Items(pending[r]) \subseteq Responses
  BY ItemsTyped DEF TypeOK
<1>3. \A m \in Responses : m.req \in Requests
  BY DEF Responses
<1> QED
  BY <1>1, <1>2, <1>3

LEMMA ConnectStep == ASSUME Inv, NEW c \in Conns, Connect(c) PROVE Inv'
<1> USE DEF Inv, FlowInv, Connect, callVars, rowVars, agentVars
<1>1. TypeOK'
  BY DEF TypeOK
<1>2. SlotsAreExact'
  BY SameSlots DEF Executing
<1>3. FlowInv'
  BY DEF MessagesAreTrue, MessagesInSequence, AnswersAreTrue, TasksKeepStep,
         RecordedIsLast, Recorded, SuccessIsWhole, ProgressGrows
<1> QED
  BY <1>1, <1>2, <1>3

LEMMA ReadEndsStep == ASSUME Inv, NEW c \in Conns, ReadEnds(c) PROVE Inv'
<1> USE DEF Inv, FlowInv, ReadEnds, callVars, rowVars, agentVars
<1>1. TypeOK'
  BY DEF TypeOK
<1>2. SlotsAreExact'
  BY SameSlots DEF Executing
<1>3. FlowInv'
  BY DEF MessagesAreTrue, MessagesInSequence, AnswersAreTrue, TasksKeepStep,
         RecordedIsLast, Recorded, SuccessIsWhole, ProgressGrows
<1> QED
  BY <1>1, <1>2, <1>3

LEMMA DispatchFailsStep == ASSUME Inv, NEW r \in Requests, DispatchFails(r) PROVE Inv'
<1> USE DEF Inv, FlowInv, DispatchFails, Claim, connVars, agentVars
<1>1. TypeOK'
  BY DEF TypeOK, Verdicts
<1>2. SlotsAreExact'
  BY SameSlots DEF Executing
<1>3. MessagesAreTrue' /\ MessagesInSequence' /\ AnswersAreTrue' /\ TasksKeepStep'
  BY DEF TypeOK, MessagesAreTrue, MessagesInSequence, AnswersAreTrue, TasksKeepStep
<1>4. RecordedIsLast' /\ SuccessIsWhole' /\ ProgressGrows'
  BY DEF TypeOK, TasksKeepStep, RecordedIsLast, Recorded, SuccessIsWhole, ProgressGrows
<1> QED
  BY <1>1, <1>2, <1>3, <1>4

LEMMA DispatchStep == ASSUME Inv, NEW r \in Requests, Dispatch(r) PROVE Inv'
<1> USE DEF Inv, FlowInv, Dispatch, Claim, connVars
<1>1. /\ status[r] = "queued" /\ run[r] = "none" /\ caller[r] = "none" /\ entry \in Conns
      /\ \E x \in {"none", "sent"} : run' = [run EXCEPT ![r] = x]
  BY DEF TypeOK, TasksKeepStep
<1>2. PICK x \in {"none", "sent"} : run' = [run EXCEPT ![r] = x]
  BY <1>1
<1>3. TypeOK'
  BY <1>1, <1>2 DEF TypeOK, Verdicts
<1>4. SlotsAreExact'
  BY <1>1, <1>2, SameSlots DEF Executing, TypeOK
<1>5. \A c \in Conns : \A m \in Items(up[c]) \cup Items(hand[c]) : m.req # r
  BY <1>1 DEF MessagesAreTrue
<1>6. MessagesAreTrue' /\ MessagesInSequence'
  BY <1>1, <1>2, <1>5, ItemsTyped DEF TypeOK, Responses, MessagesAreTrue, MessagesInSequence
<1>7. AnswersAreTrue'
  BY <1>1, <1>2 DEF TypeOK, Verdicts, AnswersAreTrue
<1>8. TasksKeepStep'
  BY <1>1, <1>2 DEF TypeOK, TasksKeepStep
<1>9. RecordedIsLast' /\ SuccessIsWhole'
  BY <1>1 DEF TypeOK, RecordedIsLast, Recorded, SuccessIsWhole
<1>10. ProgressGrows'
  BY <1>1, <1>2, <1>5 DEF TypeOK, Verdicts, ProgressGrows
<1> QED
  BY <1>3, <1>4, <1>6, <1>7, <1>8, <1>9, <1>10

LEMMA UpdateStatusStep == ASSUME Inv, NEW r \in Requests, UpdateStatus(r) PROVE Inv'
<1> USE DEF Inv, FlowInv, UpdateStatus, connVars, callVars, agentVars
<1>1. PICK o \in Verdicts, n \in {0, Full} :
        /\ status' = [status EXCEPT ![r] = o] /\ progress' = [progress EXCEPT ![r] = n]
        /\ o = "success" <=> caller[r] = "success"
        /\ n = Full <=> caller[r] = "success"
  <2>1. Full # 0
    BY DispatchAssumption DEF Full
  <2> QED
    BY <2>1 DEF Verdicts
<1>2. 0 \in 0..Full /\ Full \in 0..Full
  BY DispatchAssumption DEF Full
<1>3. TypeOK'
  BY <1>1, <1>2 DEF TypeOK
<1>4. SlotsAreExact'
  BY SameSlots DEF Executing
<1>5. MessagesAreTrue' /\ MessagesInSequence' /\ AnswersAreTrue' /\ TasksKeepStep'
  BY <1>1, ItemsTyped DEF TypeOK, Responses, Verdicts, MessagesAreTrue, MessagesInSequence,
         AnswersAreTrue, TasksKeepStep
<1>6. RecordedIsLast' /\ SuccessIsWhole'
  BY <1>1 DEF TypeOK, RecordedIsLast, Recorded, SuccessIsWhole
<1>7. ProgressGrows'
  <2>1. caller[r] = "success" => run[r] \in Verdicts
    BY DEF TasksKeepStep, Verdicts
  <2> QED
    BY <1>1, <1>2, <2>1 DEF TypeOK, ProgressGrows
<1> QED
  BY <1>3, <1>4, <1>5, <1>6, <1>7

LEMMA ReceiveStep == ASSUME Inv, NEW r \in Requests, Receive(r) PROVE Inv'
<1> USE DEF Inv, FlowInv, Receive, connVars, callVars, rowVars
<1>1. TypeOK'
  BY DEF TypeOK
<1>2. SlotsAreExact'
  BY SameSlots DEF Executing, TypeOK
<1>3. MessagesAreTrue' /\ MessagesInSequence' /\ AnswersAreTrue'
  BY ItemsTyped DEF TypeOK, Responses, Verdicts, MessagesAreTrue, MessagesInSequence, AnswersAreTrue
<1>4. TasksKeepStep' /\ RecordedIsLast' /\ SuccessIsWhole'
  BY DEF TypeOK, TasksKeepStep, RecordedIsLast, Recorded, SuccessIsWhole
<1>5. ProgressGrows'
  BY DEF TypeOK, Verdicts, ProgressGrows
<1> QED
  BY <1>1, <1>2, <1>3, <1>4, <1>5

\* The agent forgets what it executes, and what it has sent is still true.
LEMMA AgentRestartStep == ASSUME Inv, AgentRestart PROVE Inv'
<1> USE DEF Inv, FlowInv, AgentRestart, callVars, rowVars
<1>1. TypeOK'
  BY DispatchAssumption DEF TypeOK
<1>2. SlotsAreExact'
  <2>1. (Executing \ Control)' = {}
    BY DEF Executing, TypeOK
  <2> QED
    BY <2>1, FS_EmptySet DEF SlotsAreExact
<1>3. \A r \in Requests : /\ run'[r] = run[r] \/ (run'[r] = "lost" /\ run[r] \notin Verdicts /\ run[r] # "none")
                          /\ run[r] \in Verdicts \cup {"none"} => run'[r] = run[r]
  BY DEF Verdicts
<1>4. MessagesAreTrue' /\ MessagesInSequence' /\ AnswersAreTrue'
  BY <1>3, FlyingTyped DEF MessagesAreTrue, MessagesInSequence, AnswersAreTrue
<1>5. TasksKeepStep' /\ RecordedIsLast' /\ SuccessIsWhole'
  BY <1>3 DEF TypeOK, Verdicts, TasksKeepStep, RecordedIsLast, Recorded, SuccessIsWhole
<1>6. ProgressGrows'
  BY <1>3 DEF TypeOK, Verdicts, ProgressGrows
<1> QED
  BY <1>1, <1>2, <1>4, <1>5, <1>6

-------------------------------------------------------------------------------
(* The caller *)

LEMMA BreakStep == ASSUME Inv, NEW c \in Conns, Break(c) PROVE Inv'
<1> USE DEF Inv, FlowInv, Break, callVars, rowVars, agentVars
<1>1. PICK n \in 0..Len(up[c]) : up' = [up EXCEPT ![c] = SubSeq(up[c], 1, n)]
  OBVIOUS
<1>2. /\ \A d \in Conns : up'[d] \in Seq(Responses) /\ Items(up'[d]) \subseteq Items(up[d])
      /\ MessagesInSequence'
  BY <1>1, PrefixItems DEF TypeOK, MessagesInSequence
<1>3. TypeOK'
  BY <1>1, <1>2 DEF TypeOK
<1>4. SlotsAreExact'
  BY SameSlots DEF Executing
<1>5. MessagesAreTrue' /\ AnswersAreTrue'
  BY <1>2 DEF MessagesAreTrue, AnswersAreTrue
<1>8. TasksKeepStep'
  BY DEF TasksKeepStep
<1>6. RecordedIsLast' /\ SuccessIsWhole'
  <2>1. RecordedIsLast'
    BY <1>2 DEF RecordedIsLast, Recorded
  <2>2. SuccessIsWhole'
    BY DEF SuccessIsWhole
  <2> QED
    BY <2>1, <2>2
<1>7. ProgressGrows'
  BY <1>2 DEF ProgressGrows
<1> QED
  BY <1>2, <1>3, <1>4, <1>5, <1>6, <1>7, <1>8

\* Dispatch returns an error, or a verdict that was in its channel.
LEMMA ReturnStep ==
  ASSUME Inv, NEW r \in Requests, NEW what \in {"success", "failed", "error"},
         caller[r] = "waiting", Return(r, what),
         what = "success" => \E m \in Items(pending[r]) : m.status = "success",
         UNCHANGED <<connVars, via, rowVars, agentVars>>
  PROVE  Inv'
<1> USE DEF Inv, FlowInv, Return, connVars, rowVars, agentVars
<1>1. TypeOK'
  BY EmptyItems, DispatchAssumption DEF TypeOK
<1>2. SlotsAreExact'
  BY SameSlots DEF Executing
<1>3. \A q \in Requests : /\ Items(pending'[q]) \subseteq Items(pending[q])
                          /\ Recorded(q)' => Recorded(q)
  BY EmptyItems DEF TypeOK, Recorded
<1>4. MessagesAreTrue' /\ MessagesInSequence' /\ AnswersAreTrue'
  BY <1>3 DEF MessagesAreTrue, MessagesInSequence, AnswersAreTrue
<1>5. TasksKeepStep'
  BY DEF TypeOK, Verdicts, TasksKeepStep, AnswersAreTrue
<1>6. RecordedIsLast' /\ SuccessIsWhole'
  BY <1>3 DEF RecordedIsLast, SuccessIsWhole
<1>7. ProgressGrows'
  BY DEF TypeOK, ProgressGrows
<1> QED
  BY <1>1, <1>2, <1>4, <1>5, <1>6, <1>7

LEMMA TakeResponseStep == ASSUME Inv, NEW r \in Requests, TakeResponse(r) PROVE Inv'
<1>1. /\ pending[r] \in Seq(Responses) /\ pending[r] # <<>> /\ caller[r] = "waiting"
      /\ Head(pending[r]) \in Items(pending[r])
      /\ UNCHANGED <<connVars, via, rowVars, agentVars>>
  BY TailItems DEF Inv, TypeOK, TakeResponse
<1>2. CASE Head(pending[r]).status = "success"
  <2>1. Return(r, "success")
    BY <1>2 DEF TakeResponse
  <2> QED
    BY <1>1, <1>2, <2>1, ReturnStep
<1>3. CASE Head(pending[r]).status = "failed"
  <2>1. Return(r, "failed")
    BY <1>3 DEF TakeResponse
  <2> QED
    BY <1>1, <2>1, ReturnStep
<1>4. CASE Head(pending[r]).status \notin Verdicts
  <2> USE DEF Inv, FlowInv, connVars, rowVars, agentVars
  <2>1. pending' = [pending EXCEPT ![r] = Tail(pending[r])] /\ UNCHANGED caller
    BY <1>4 DEF TakeResponse, Verdicts
  <2>2. \A q \in Requests : /\ Items(pending'[q]) \subseteq Items(pending[q])
                            /\ pending'[q] \in Seq(Responses) /\ Len(pending'[q]) <= Len(pending[q])
    BY <1>1, <2>1, TailItems, LenProperties DEF TypeOK
  <2>3. TypeOK'
    BY <1>1, <2>1, <2>2, LenProperties, DispatchAssumption DEF TypeOK
  <2>4. SlotsAreExact'
    BY <1>1, SameSlots DEF Executing
  <2>5. MessagesAreTrue' /\ MessagesInSequence'
    BY <1>1 DEF MessagesAreTrue, MessagesInSequence
  <2>8. AnswersAreTrue'
    BY <1>1, <2>2 DEF AnswersAreTrue
  <2>7. TasksKeepStep'
    BY <1>1, <2>1 DEF TasksKeepStep
  <2>6. RecordedIsLast' /\ SuccessIsWhole' /\ ProgressGrows'
    BY <1>1, <2>1, <2>2 DEF RecordedIsLast, Recorded, SuccessIsWhole, ProgressGrows
  <2> QED
    BY <2>3, <2>4, <2>5, <2>6, <2>7, <2>8
<1> QED
  BY <1>2, <1>3, <1>4 DEF Verdicts

LEMMA GiveUpStep == ASSUME Inv, NEW r \in Requests, NoticeDone(r) \/ TimeOut(r) PROVE Inv'
BY ReturnStep DEF NoticeDone, TimeOut

-------------------------------------------------------------------------------
(* Reports *)

LEMMA ReadResponseStep == ASSUME Inv, NEW c \in Conns, ReadResponse(c) PROVE Inv'
<1> USE DEF Inv, FlowInv, callVars, agentVars
<1>0. PICK m \in Responses : m = Head(up[c])
  BY TailItems DEF ReadResponse, TypeOK
<1>1. /\ up[c] \in Seq(Responses) /\ up[c] # <<>>
      /\ up' = [up EXCEPT ![c] = Tail(up[c])] /\ hand' = [hand EXCEPT ![c] = <<m>>]
      /\ progress' = [progress EXCEPT ![m.req] = m.progress]
      /\ step' = [step EXCEPT ![m.req] = m.status]
      /\ UNCHANGED <<conn, entry, callVars, agentVars, status>>
  BY <1>0 DEF ReadResponse, RecordResponse, TypeOK
<1>2. /\ m \in Items(up[c]) /\ m.req \in Requests /\ m.progress \in 0..Full
      /\ m.status \in {"running"} \cup Verdicts
  <2>1. m \in Items(up[c])
    BY <1>0, <1>1, TailItems
  <2> QED
    BY <2>1 DEF Responses
<1>3. /\ \A d \in Conns : up'[d] \in Seq(Responses) /\ Items(up'[d]) \subseteq Items(up[d])
      /\ Items(hand'[c]) = {m} /\ hand'[c] \in Seq(Responses) /\ Len(hand'[c]) = 1
      /\ \A d \in Conns \ {c} : hand'[d] = hand[d]
      /\ MessagesInSequence'
  BY <1>1, <1>2, TailItems, OneItem DEF TypeOK, MessagesInSequence
\* Whatever comes after m for its request comes on this connection.
<1>4. \A d \in Conns : \A e \in Items(up'[d]) : e.req = m.req =>
        d = c /\ m.status = "running" /\ m.progress <= e.progress
  <2>1. \A d \in Conns : \A e \in Items(up'[d]) : e.req = m.req => d = c
    <3>1. \A d \in Conns : \A e \in Items(up[d]) : via[e.req] = d
      BY DEF MessagesAreTrue
    <3> QED
      BY <1>2, <1>3, <3>1
  <2>2. \A e \in Items(Tail(up[c])) : e.req = m.req =>
          m.status = "running" /\ m.progress <= e.progress
    BY <1>0, <1>1, TailItems DEF MessagesInSequence
  <2> QED
    BY <1>1, <2>1, <2>2 DEF TypeOK
<1>5. ~Recorded(m.req)
  BY <1>2 DEF RecordedIsLast
<1>6. TypeOK'
  BY <1>1, <1>2, <1>3 DEF TypeOK
<1>7. SlotsAreExact'
  BY <1>1, SameSlots DEF Executing
<1>8. MessagesAreTrue'
  <2>1. \A d \in Conns : \A e \in Items(up'[d]) \cup Items(hand'[d]) :
          e \in Items(up[d]) \cup Items(hand[d])
    BY <1>2, <1>3
  <2> QED
    BY <1>1, <2>1 DEF MessagesAreTrue
<1>9. AnswersAreTrue' /\ TasksKeepStep'
  BY <1>1 DEF AnswersAreTrue, TasksKeepStep
<1>10. RecordedIsLast'
  <2>1. ASSUME NEW q \in Requests, Recorded(q)', q # m.req
        PROVE  step'[q] = "success" /\ \A d \in Conns : \A e \in Items(up'[d]) : e.req # q
    <3>1. Recorded(q)
      BY <1>1, <1>3, <2>1 DEF Recorded
    <3> QED
      BY <1>1, <1>3, <2>1, <3>1 DEF TypeOK, RecordedIsLast
  <2>2. ASSUME Recorded(m.req)'
        PROVE  step'[m.req] = "success" /\ \A d \in Conns : \A e \in Items(up'[d]) : e.req # m.req
    <3>1. m.status = "success"
      BY <1>1, <1>3, <1>5, <2>2 DEF Recorded
    <3> QED
      BY <1>1, <1>2, <1>4, <3>1 DEF TypeOK
  <2> QED
    BY <2>1, <2>2 DEF RecordedIsLast
<1>11. SuccessIsWhole'
  BY <1>1, <1>2, <1>5 DEF TypeOK, TasksKeepStep, Recorded, SuccessIsWhole
<1>12. ProgressGrows'
  BY <1>1, <1>2, <1>3, <1>4 DEF TypeOK, ProgressGrows
<1> QED
  BY <1>3, <1>6, <1>7, <1>8, <1>9, <1>10, <1>11, <1>12

LEMMA DeliverStep == ASSUME Inv, NEW c \in Conns, Deliver(c) PROVE Inv'
<1> USE DEF Inv, FlowInv, rowVars, agentVars
<1> DEFINE m == Head(hand[c])
<1>1. /\ hand[c] \in Seq(Responses) /\ hand[c] # <<>> /\ m \in Items(hand[c])
      /\ m \in Responses /\ m.req \in Requests
      /\ hand' = [hand EXCEPT ![c] = <<>>]
      /\ UNCHANGED <<conn, up, entry, caller, via, rowVars, agentVars>>
  BY TailItems DEF Deliver, TypeOK, Responses
<1>2. \A q \in Requests :
        /\ pending'[q] \in Seq(Responses) /\ Len(pending'[q]) <= Cap
        /\ \A e \in Items(pending'[q]) : e \in Items(pending[q]) \/ (e = m /\ q = m.req)
  <2>1. CASE pending' = pending
    BY <2>1 DEF TypeOK
  <2>2. CASE pending' = [pending EXCEPT ![m.req] = Append(pending[m.req], m)] /\ Len(pending[m.req]) < Cap
    BY <1>1, <2>2, AppendItems, LenProperties, DispatchAssumption DEF TypeOK
  <2> QED
    BY <2>1, <2>2 DEF Deliver
<1>3. pending' \in [Requests -> Seq(Responses)]
  BY <1>2 DEF Deliver, TypeOK
<1>4. TypeOK'
  BY <1>1, <1>2, <1>3, EmptyItems DEF TypeOK
<1>5. SlotsAreExact'
  BY <1>1, SameSlots DEF Executing
<1>6. \A d \in Conns : Items(hand'[d]) \subseteq Items(hand[d])
  BY <1>1, EmptyItems DEF TypeOK
<1>7. MessagesAreTrue' /\ MessagesInSequence'
  BY <1>1, <1>6 DEF MessagesAreTrue, MessagesInSequence
<1>8. AnswersAreTrue'
  BY <1>1, <1>2 DEF MessagesAreTrue, AnswersAreTrue
<1>9. TasksKeepStep' /\ SuccessIsWhole' /\ ProgressGrows'
  BY <1>1 DEF TasksKeepStep, SuccessIsWhole, ProgressGrows
<1>10. RecordedIsLast'
  <2>1. \A q \in Requests : Recorded(q)' => Recorded(q)
    BY <1>1, <1>2, <1>6 DEF Recorded
  <2> QED
    BY <1>1, <2>1 DEF RecordedIsLast
<1> QED
  BY <1>4, <1>5, <1>7, <1>8, <1>9, <1>10

\* What the agent sends while it executes comes after what it has sent.
LEMMA SendStep ==
  ASSUME Inv, NEW r \in Requests, NEW kind \in {"running"} \cup Verdicts, NEW n \in 1..Full,
         NEW x \in {"executing"} \cup Verdicts, NEW k \in 0..Reports,
         Send(r, kind, n), run[r] \in {"queued", "executing"},
         run' = [run EXCEPT ![r] = x], reported' = [reported EXCEPT ![r] = k],
         kind \in Verdicts => x = kind,
         reported[r] <= n, reported[r] <= k, x = "executing" => n <= k,
         UNCHANGED <<conn, hand, entry, callVars, rowVars>>
  PROVE  FlowInv' /\ up' \in [Conns -> Seq(Responses)]
<1> USE DEF Inv, FlowInv, callVars, rowVars
<1> DEFINE e == [req |-> r, status |-> kind, progress |-> n]
<1>1. /\ via[r] \in Conns /\ status[r] # "queued" /\ run[r] \notin Verdicts /\ e \in Responses
      /\ Reports \in Nat
  BY DispatchAssumption DEF TasksKeepStep, Verdicts, Responses
<1>2. \A m \in Items(up[via[r]]) : m.req = r => m.status = "running" /\ m.progress <= n
  <2>1. \A m \in Items(up[via[r]]) : m \in Responses /\ (m.req = r => m.status \notin Verdicts)
    BY <1>1, FlyingTyped DEF MessagesAreTrue
  <2>2. \A m \in Items(up[via[r]]) :
          m.status \in {"running"} \cup Verdicts /\ m.progress \in Int
    BY <2>1 DEF Responses, Full
  <2>3. \A m \in Items(up[via[r]]) : m.req = r => m.progress <= reported[r]
    BY <1>1 DEF ProgressGrows
  <2>4. reported[r] \in Int
    BY DEF TypeOK
  <2> QED
    BY <2>1, <2>2, <2>3, <2>4, <1>1 DEF Full
<1>3. /\ up' \in [Conns -> Seq(Responses)] /\ MessagesInSequence'
      /\ \A d \in Conns : \A m \in Items(up'[d]) : m \in Items(up[d]) \/ (m = e /\ d = via[r])
  <2>1. CASE up' = up
    BY <2>1 DEF TypeOK, MessagesInSequence
  <2>2. CASE up' = [up EXCEPT ![via[r]] = Append(up[via[r]], e)]
    <3>1. up[via[r]] \in Seq(Responses) /\ InSequence(up[via[r]])
      BY <1>1 DEF TypeOK, MessagesInSequence
    <3>2. /\ Append(up[via[r]], e) \in Seq(Responses)
          /\ Items(Append(up[via[r]], e)) = Items(up[via[r]]) \cup {e}
          /\ InSequence(Append(up[via[r]], e))
      BY <1>1, <1>2, <3>1, AppendItems
    <3> QED
      BY <1>1, <2>2, <3>2 DEF TypeOK, MessagesInSequence
  <2> QED
    BY <2>1, <2>2 DEF Send
<1>4. ~Recorded(r)
  BY <1>1 DEF Recorded, TasksKeepStep, AnswersAreTrue, MessagesAreTrue, Verdicts
<1>5. MessagesAreTrue'
  <2>1. ASSUME NEW d \in Conns, NEW m \in Items(up[d]) \cup Items(hand[d])
        PROVE  /\ via[m.req] = d /\ status[m.req] # "queued"
               /\ m.status \in Verdicts => run'[m.req] = m.status
    <3>1. m.req \in Requests /\ (m.status \in Verdicts => m.req # r)
      BY <1>1, FlyingTyped DEF MessagesAreTrue
    <3> QED
      BY <2>1, <3>1 DEF MessagesAreTrue, TypeOK
  <2>2. kind \in Verdicts => run'[r] = kind
    BY DEF TypeOK
  <2> QED
    BY <1>1, <1>3, <2>1, <2>2 DEF MessagesAreTrue
<1>6. AnswersAreTrue'
  <2>1. ASSUME NEW q \in Requests, NEW m \in Items(pending[q])
        PROVE  m.req = q /\ (m.status \in Verdicts => run'[q] = m.status)
    BY <1>1, <2>1 DEF AnswersAreTrue, TypeOK
  <2> QED
    BY <2>1 DEF AnswersAreTrue
<1>7. TasksKeepStep'
  BY <1>1 DEF TasksKeepStep, TypeOK, Verdicts
<1>8. RecordedIsLast' /\ SuccessIsWhole'
  <2>1. \A q \in Requests : Recorded(q)' <=> Recorded(q)
    BY DEF Recorded
  <2> QED
    BY <1>3, <1>4, <2>1 DEF RecordedIsLast, SuccessIsWhole
<1>9. ProgressGrows'
  <2>1. \A d \in Conns : \A m \in Items(up[d]) : m \in Responses /\ m.progress \in Int
    BY FlyingTyped DEF Responses, Full
  <2>2. ASSUME NEW q \in Requests, q # r
        PROVE  /\ run'[q] \notin Verdicts =>
                    /\ progress'[q] <= reported'[q]
                    /\ \A d \in Conns : \A m \in Items(up'[d]) : m.req = q => m.progress <= reported'[q]
               /\ run'[q] \in {"none", "sent", "queued"} => reported'[q] = 0
               /\ caller'[q] = "waiting" =>
                    \A d \in Conns : \A m \in Items(up'[d]) : m.req = q => progress'[q] <= m.progress
    BY <1>3, <2>2 DEF ProgressGrows, TypeOK
  <2>3. progress[r] <= reported[r] /\ reported[r] \in Int /\ progress[r] \in Int
    BY <1>1 DEF ProgressGrows, TypeOK
  <2>4. /\ run'[r] \notin Verdicts =>
             /\ progress'[r] <= reported'[r]
             /\ \A d \in Conns : \A m \in Items(up'[d]) : m.req = r => m.progress <= reported'[r]
        /\ run'[r] \in {"none", "sent", "queued"} => reported'[r] = 0
        /\ caller'[r] = "waiting" =>
             \A d \in Conns : \A m \in Items(up'[d]) : m.req = r => progress'[r] <= m.progress
    <3>1. run'[r] = x /\ reported'[r] = k
      BY DEF TypeOK
    <3>2. \A d \in Conns : \A m \in Items(up[d]) : m.req = r => m.progress <= reported[r]
      BY <1>1 DEF ProgressGrows
    <3>3. n \in Int /\ k \in Int /\ progress[r] <= n
      BY <1>1, <2>3 DEF Full
    <3>4. ASSUME run'[r] \notin Verdicts
          PROVE  /\ progress'[r] <= reported'[r]
                 /\ \A d \in Conns : \A m \in Items(up'[d]) : m.req = r => m.progress <= reported'[r]
      <4>1. x = "executing" /\ n <= k
        BY <3>1, <3>4
      <4>2. \A d \in Conns : \A m \in Items(up'[d]) : m.req = r => m.progress <= k
        BY <1>3, <2>1, <2>3, <3>2, <3>3, <4>1
      <4> QED
        BY <2>3, <3>1, <3>3, <4>2
    <3>5. ASSUME caller'[r] = "waiting"
          PROVE  \A d \in Conns : \A m \in Items(up'[d]) : m.req = r => progress'[r] <= m.progress
      BY <1>3, <3>3, <3>5 DEF ProgressGrows
    <3> QED
      BY <3>1, <3>4, <3>5 DEF Verdicts
  <2> QED
    BY <2>2, <2>4 DEF ProgressGrows
<1> QED
  BY <1>3, <1>5, <1>6, <1>7, <1>8, <1>9

LEMMA StartStep == ASSUME Inv, NEW r \in Requests, Start(r) PROVE Inv'
<1>1. run[r] = "queued" /\ reported[r] = 0
  BY DEF Start, Inv, FlowInv, ProgressGrows
<1>2. /\ run' = [run EXCEPT ![r] = "executing"] /\ reported' = [reported EXCEPT ![r] = 1]
      /\ Send(r, "running", 1) /\ UNCHANGED <<conn, hand, entry, callVars, rowVars>>
  BY DEF Start
<1>5. /\ 1 \in 1..Full /\ 1 \in 0..Reports /\ 1 <= 1 /\ reported[r] <= 1
      /\ "running" \notin Verdicts
  BY <1>1, DispatchAssumption DEF Full, Verdicts
<1>6. FlowInv' /\ up' \in [Conns -> Seq(Responses)]
  BY <1>1, <1>2, <1>5, SendStep
<1>3. SlotsAreExact' /\ slots' \in 0..MaxConcurrent
  BY StartSlots DEF Inv
<1>4. TypeOK'
  BY <1>2, <1>3, <1>5, <1>6 DEF Inv, TypeOK, callVars, rowVars
<1> QED
  BY <1>3, <1>4, <1>6 DEF Inv

LEMMA ReportStep == ASSUME Inv, NEW r \in Requests, Report(r) PROVE Inv'
<1>1. /\ run[r] = "executing" /\ reported[r] \in 0..Reports /\ reported[r] < Reports
      /\ run' = [run EXCEPT ![r] = "executing"]
      /\ reported' = [reported EXCEPT ![r] = reported[r] + 1]
      /\ Send(r, "running", reported[r] + 1)
      /\ UNCHANGED <<conn, hand, entry, callVars, rowVars, slots, run>>
  BY DEF Report, Inv, TypeOK
<1>5. /\ reported[r] + 1 \in 1..Full /\ reported[r] + 1 \in 0..Reports
      /\ reported[r] <= reported[r] + 1 /\ reported[r] + 1 <= reported[r] + 1
      /\ "running" \notin Verdicts
  BY <1>1, DispatchAssumption DEF Full, Verdicts
<1>2. FlowInv' /\ up' \in [Conns -> Seq(Responses)]
  BY <1>1, <1>5, SendStep
<1>3. SlotsAreExact'
  BY <1>1, SameSlots DEF Executing, Inv
<1>4. TypeOK'
  BY <1>1, <1>2, <1>5 DEF Inv, TypeOK, callVars, rowVars
<1> QED
  BY <1>2, <1>3, <1>4 DEF Inv

LEMMA FinishStep ==
  ASSUME Inv, NEW r \in Requests, NEW v \in Verdicts, Finish(r, v)
  PROVE  Inv'
<1>1. /\ run[r] = "executing" /\ reported[r] \in 0..Reports
      /\ run' = [run EXCEPT ![r] = v]
      /\ reported' = [reported EXCEPT ![r] = reported[r]]
      /\ Send(r, v, Full)
      /\ UNCHANGED <<conn, hand, entry, callVars, rowVars, reported>>
  BY DEF Finish, Inv, TypeOK
<1>5. /\ Full \in 1..Full /\ reported[r] <= Full /\ reported[r] <= reported[r]
      /\ v # "executing"
  BY <1>1, DispatchAssumption DEF Full, Verdicts
<1>2. FlowInv' /\ up' \in [Conns -> Seq(Responses)]
  BY <1>1, <1>5, SendStep
<1>3. SlotsAreExact' /\ slots' \in 0..MaxConcurrent
  BY FinishSlots DEF Inv
<1>4. TypeOK'
  BY <1>1, <1>2, <1>3 DEF Inv, TypeOK, callVars, rowVars, Verdicts
<1> QED
  BY <1>2, <1>3, <1>4 DEF Inv

-------------------------------------------------------------------------------
(* Theorems *)

LEMMA NextInv == ASSUME Inv, [Next]_vars PROVE Inv'
<1>1. CASE \E c \in Conns : Connect(c) \/ Break(c) \/ ReadEnds(c) \/ ReadResponse(c) \/ Deliver(c)
  BY <1>1, ConnectStep, BreakStep, ReadEndsStep, ReadResponseStep, DeliverStep
<1>2. ASSUME NEW r \in Requests,
             DispatchFails(r) \/ Dispatch(r) \/ TakeResponse(r) \/ NoticeDone(r) \/ TimeOut(r)
               \/ UpdateStatus(r) \/ Receive(r)
      PROVE  Inv'
  BY <1>2, DispatchFailsStep, DispatchStep, TakeResponseStep, GiveUpStep, UpdateStatusStep,
         ReceiveStep
<1>3. ASSUME NEW r \in Requests, Start(r) \/ Report(r) \/ \E v \in Verdicts : Finish(r, v)
      PROVE  Inv'
  BY <1>3, StartStep, ReportStep, FinishStep
<1>4. CASE AgentRestart
  BY <1>4, AgentRestartStep
<1>5. CASE UNCHANGED vars
  <2> USE <1>5 DEF Inv, FlowInv, vars, connVars, callVars, rowVars, agentVars
  <2>1. TypeOK'
    BY DEF TypeOK
  <2>2. SlotsAreExact'
    BY SameSlots DEF Executing
  <2>3. FlowInv'
    BY DEF MessagesAreTrue, MessagesInSequence, AnswersAreTrue, TasksKeepStep,
           RecordedIsLast, Recorded, SuccessIsWhole, ProgressGrows
  <2> QED
    BY <2>1, <2>2, <2>3
<1> QED
  BY <1>1, <1>2, <1>3, <1>4, <1>5 DEF Next

LEMMA InvHolds == Spec => []Inv
<1>1. Init => Inv
  BY InitInv
<1>2. Inv /\ [Next]_vars => Inv'
  BY NextInv
<1> QED
  BY <1>1, <1>2, PTL DEF Spec

\* The variables keep to their types; channels and slots to their bounds.
THEOREM TypeCorrect == Spec => []TypeOK
<1>1. Inv => TypeOK
  BY DEF Inv
<1> QED
  BY <1>1, InvHolds, PTL

\* A task succeeds only if the agent has executed its own action with success,
\* whatever is lost, late or delivered to a caller that has left.
THEOREM SuccessWasExecuted == Spec => []SuccessIsReal
<1>1. ASSUME Inv PROVE SuccessIsReal
  BY <1>1 DEF Inv, FlowInv, TasksKeepStep, SuccessIsReal
<1> QED
  BY <1>1, InvHolds, PTL

\* A task that has succeeded shows it in full: no report of it is recorded
\* after its verdict.
THEOREM SuccessShowsWhole == Spec => []SuccessIsWhole
<1>1. Inv => SuccessIsWhole
  BY DEF Inv, FlowInv
<1> QED
  BY <1>1, InvHolds, PTL

\* The semaphore counts what executes, and is never exceeded.
THEOREM SlotsCountExecutions == Spec => []SlotsAreExact
<1>1. Inv => SlotsAreExact
  BY DEF Inv
<1> QED
  BY <1>1, InvHolds, PTL

\* While a Dispatch waits, the progress of its task never falls.
THEOREM ProgressNeverFalls == Spec => ReportsInOrder
<1> DEFINE Rises ==
      \A r \in Requests :
        caller[r] = "waiting" /\ caller'[r] = "waiting" => progress'[r] >= progress[r]
<1>1. ASSUME Inv, [Next]_vars PROVE Rises
  <2>1. ASSUME NEW c \in Conns, ReadResponse(c) PROVE Rises
    <3>1. /\ up[c] \in Seq(Responses) /\ up[c] # <<>>
          /\ progress' = [progress EXCEPT ![Head(up[c]).req] = Head(up[c]).progress]
      BY <1>1, <2>1 DEF ReadResponse, RecordResponse, Inv, TypeOK
    <3>2. Head(up[c]) \in Items(up[c])
      BY <3>1, TailItems
    <3> QED
      BY <1>1, <3>1, <3>2, FlyingTyped DEF Inv, FlowInv, TypeOK, Responses, Full, ProgressGrows
  <2>2. ASSUME NEW r \in Requests, UpdateStatus(r) PROVE Rises
    BY <1>1, <2>2 DEF UpdateStatus, callVars, Inv, TypeOK
  <2>3. CASE UNCHANGED progress
    BY <1>1, <2>3 DEF Inv, TypeOK
  <2> QED
    BY <1>1, <2>1, <2>2, <2>3
       DEF Next, vars, Connect, Break, ReadEnds, Deliver, DispatchFails, Dispatch, TakeResponse,
           NoticeDone, TimeOut, Receive, Start, Report, Finish, AgentRestart, rowVars
<1>2. Inv /\ [Next]_vars => [Rises]_vars
  BY <1>1
<1> QED
  BY <1>2, InvHolds, PTL DEF Spec, ReportsInOrder
===============================================================================
