------------------------ MODULE StonxSnapshot_proofs ------------------------
(***************************************************************************)
(* Proofs about StonxSnapshot, for any number of concurrent calls, of      *)
(* executions and of clock ticks, and any windows that keep                *)
(* Reuse <= RefreshAfter <= MaxAge.                                        *)
(*                                                                         *)
(* The safety invariants are not inductive: they speak of calls that have  *)
(* answered, and rest on what a suspended call knows about the execution   *)
(* it waits for.  StoreInv and CallInv record that.                        *)
(***************************************************************************)
EXTENDS StonxSnapshot, TLAPS

\* The bucket holds accepted executions only, and a marker is stamped no later
\* than the submission it names.
StoreInv ==
    /\ snapshot # None => state[snapshot] = "completed"
    /\ marker # None =>
          /\ state[marker.id] # "unused"
          /\ at[marker.id] >= marker.started

Waiting == {"mark", "poll", "store", "clear"}
PastCheck == {"marker", "submit", "discard"} \cup Waiting

\* What a call knows of the snapshot it read and of the execution it waits for.
CallInv(c) ==
    /\ began[c] <= now
    /\ base[c] # None => state[base[c]] = "completed"
    /\ pc[c] \in PastCheck /\ base[c] # None => began[c] - at[base[c]] > RefreshAfter
    /\ pc[c] \in Waiting =>
          /\ job[c] \in Ids
          /\ state[job[c]] # "unused"
          /\ at[job[c]] >= began[c] - Reuse
    /\ pc[c] = "mark" => at[job[c]] >= began[c]
    /\ pc[c] \in {"store", "clear"} => state[job[c]] = "completed"
    /\ Answered(c) =>
          /\ state[answer[c]] = "completed"
          /\ Age(answer[c], began[c]) <= MaxAge
          /\ base[c] # None => at[answer[c]] >= at[base[c]]

IInv == TypeOK /\ StoreInv /\ \A c \in Calls : CallInv(c)

------------------------------------------------------------------------------
\* Every action keeps the types: IInv is needed where a job is written down.
LEMMA TypeStep == IInv /\ [Next]_vars => TypeOK'
<1> SUFFICES ASSUME IInv, [Next]_vars PROVE TypeOK'
  OBVIOUS
<1> TypeOK
  BY DEF IInv
<1> USE TimesAssumption, NamesAssumption
        DEF TypeOK, Ids, Times, States, Markers, Points, Goto, Answer, Forget,
            store, provider, call
<1>a. ASSUME NEW c \in Calls PROVE Fallback(c) \in Ids \cup {None, Unavailable}
  BY DEF Fallback
<1>b. NewDeadline \in Times
  BY DEF NewDeadline
<1>c. ASSUME NEW c \in Calls, pc[c] \in Waiting PROVE job[c] \in Ids
  BY <1>c DEF IInv, CallInv
<1>d. ASSUME NEW c \in Calls, Refuse(c)
      PROVE  /\ pc' \in [Calls -> Points]
             /\ answer' \in [Calls -> Ids \cup {None, Unavailable}]
             /\ job' \in [Calls -> Ids \cup {None}]
             /\ deadline' \in [Calls -> Times]
  <2>1. Fallback(c) \in Ids \cup {None, Unavailable}
    BY <1>a
  <2>2. answer' = [answer EXCEPT ![c] = Fallback(c)]
    BY <1>d DEF Refuse
  <2>3. answer' \in [Calls -> Ids \cup {None, Unavailable}]
    BY <2>1, <2>2
  <2> QED
    BY <1>d, <2>3 DEF Refuse
<1>1. ASSUME NEW c \in Calls, LoadSnapshot(c) PROVE TypeOK'
  <2>1. UNCHANGED <<now, state, at, snapshot, marker, began, job, deadline, answer>>
    BY <1>1 DEF LoadSnapshot
  <2>2. pc' \in [Calls -> Points]
    BY <1>1 DEF LoadSnapshot
  <2>3. base' \in [Calls -> Ids \cup {None}]
    BY <1>1 DEF LoadSnapshot
  <2> QED
    BY <2>1, <2>2, <2>3
<1>2. ASSUME NEW c \in Calls, CheckSnapshot(c) PROVE TypeOK'
  BY <1>2 DEF CheckSnapshot, IsCurrent
<1>3. ASSUME NEW c \in Calls, ReadMarker(c) PROVE TypeOK'
  <2> PICK m \in {marker, None} :
         IF IsFresh(m, began[c])
         THEN /\ Goto(c, "poll")
              /\ job' = [job EXCEPT ![c] = m.id]
              /\ deadline' = [deadline EXCEPT ![c] = NewDeadline]
         ELSE Goto(c, "submit") /\ UNCHANGED <<job, deadline>>
    BY <1>3 DEF ReadMarker
  <2>1. UNCHANGED <<now, state, at, snapshot, marker, base, began, answer>>
    BY <1>3 DEF ReadMarker
  <2>2. CASE IsFresh(m, began[c])
    <3>1. m.id \in Ids
      BY <2>2 DEF IsFresh
    <3> QED
      BY <1>b, <2>1, <2>2, <3>1
  <2>3. CASE ~IsFresh(m, began[c])
    BY <2>1, <2>3
  <2> QED
    BY <2>2, <2>3
<1>4. ASSUME NEW c \in Calls, Submit(c) PROVE TypeOK'
  <2>1. UNCHANGED <<now, snapshot, marker, base, began>>
    BY <1>4 DEF Submit
  <2>2. state' \in [Ids -> States] /\ at' \in [Ids -> Times]
    BY <1>4 DEF Submit, Accept
  <2>3. /\ pc' \in [Calls -> Points]
        /\ answer' \in [Calls -> Ids \cup {None, Unavailable}]
        /\ job' \in [Calls -> Ids \cup {None}]
        /\ deadline' \in [Calls -> Times]
    <3>1. CASE Refuse(c)
      BY <3>1, <1>d
    <3>2. CASE ~Refuse(c)
      BY <1>4, <3>2 DEF Submit
    <3> QED
      BY <3>1, <3>2
  <2> QED
    BY <2>1, <2>2, <2>3
<1>5. ASSUME NEW c \in Calls, WriteMarker(c) PROVE TypeOK'
  <2>1. job[c] \in Ids /\ began[c] \in Times
    BY <1>5, <1>c DEF WriteMarker, Waiting
  <2>2. marker' \in Markers \cup {None}
    BY <1>5, <2>1 DEF WriteMarker
  <2>3. pc' \in [Calls -> Points] /\ deadline' \in [Calls -> Times]
    BY <1>5, <1>b DEF WriteMarker
  <2> QED
    BY <1>5, <2>2, <2>3 DEF WriteMarker
<1>6. ASSUME NEW c \in Calls, PollCompleted(c) PROVE TypeOK'
  BY <1>6 DEF PollCompleted
<1>7. ASSUME NEW c \in Calls, PollFailed(c) PROVE TypeOK'
  BY <1>7 DEF PollFailed
<1>8. ASSUME NEW c \in Calls, PollGivesUp(c) \/ PollLost(c) PROVE TypeOK'
  BY <1>8, <1>d DEF PollGivesUp, PollLost
<1>9. ASSUME NEW c \in Calls, StoreSnapshot(c) PROVE TypeOK'
  BY <1>9, <1>c DEF StoreSnapshot, Waiting
<1>10. ASSUME NEW c \in Calls, ClearAndAnswer(c) \/ ClearAndRefuse(c) PROVE TypeOK'
  <2>1. CASE ClearAndAnswer(c)
    <3> DEFINE a == IF IsUsable(job[c], now) THEN job[c] ELSE Fallback(c)
    <3>1. a \in Ids \cup {None, Unavailable}
      BY <2>1, <1>a, <1>c DEF ClearAndAnswer, Waiting
    <3>2. answer' = [answer EXCEPT ![c] = a]
      BY <2>1 DEF ClearAndAnswer
    <3> HIDE DEF a
    <3>3. answer' \in [Calls -> Ids \cup {None, Unavailable}]
      BY <3>1, <3>2
    <3>4. /\ UNCHANGED <<now, state, at, snapshot, base, began>>
          /\ marker' \in Markers \cup {None}
          /\ pc' \in [Calls -> Points]
          /\ job' \in [Calls -> Ids \cup {None}]
          /\ deadline' \in [Calls -> Times]
      BY <2>1 DEF ClearAndAnswer
    <3> QED
      BY <3>3, <3>4
  <2>2. CASE ClearAndRefuse(c)
    BY <2>2, <1>d DEF ClearAndRefuse
  <2> QED
    BY <1>10, <2>1, <2>2
<1>11. ASSUME NEW c \in Calls, Return(c) PROVE TypeOK'
  BY <1>11 DEF Return
<1>12. ASSUME NEW i \in Ids, Finish(i) PROVE TypeOK'
  BY <1>12 DEF Finish
<1>13. ASSUME Tick PROVE TypeOK'
  BY <1>13 DEF Tick
<1>14. ASSUME UNCHANGED vars PROVE TypeOK'
  BY <1>14 DEF vars
<1> QED
  BY <1>1, <1>2, <1>3, <1>4, <1>5, <1>6, <1>7, <1>8, <1>9, <1>10, <1>11, <1>12,
     <1>13, <1>14 DEF Next, Step

------------------------------------------------------------------------------
\* An execution once accepted keeps its submission time, one that completed
\* stays completed, and the clock never runs back.
Kept ==
    /\ now' >= now
    /\ \A i \in Ids :
          state[i] # "unused" =>
             /\ state'[i] # "unused"
             /\ at'[i] = at[i]
             /\ state[i] = "completed" => state'[i] = "completed"

\* What no step does to an execution at the provider.
LEMMA ProviderStep == TypeOK /\ [Next]_vars => Kept
<1> SUFFICES ASSUME TypeOK, [Next]_vars PROVE Kept
  OBVIOUS
<1> USE DEF TypeOK, Times, States, Kept
<1>0. now \in Int
  BY TimesAssumption
<1>1. ASSUME UNCHANGED <<now, provider>> PROVE Kept
  BY <1>0, <1>1 DEF provider
<1>2. ASSUME NEW c \in Calls, Submit(c) PROVE Kept
  <2>1. now' = now
    BY <1>2 DEF Submit
  <2>2. CASE UNCHANGED provider
    BY <1>1, <2>1, <2>2
  <2>3. CASE \E i \in Ids : Accept(i)
    BY <1>0, <2>1, <2>3 DEF Accept
  <2> QED
    BY <1>2, <2>2, <2>3 DEF Submit
<1>3. ASSUME NEW i \in Ids, Finish(i) PROVE Kept
  BY <1>0, <1>3 DEF Finish
<1>4. CASE Tick
  BY <1>0, <1>4 DEF Tick, provider
<1>5. ASSUME NEW c \in Calls, LoadSnapshot(c) \/ Step(c) \/ PollLost(c) \/ Return(c)
      PROVE  Kept
  BY <1>1, <1>2, <1>5
     DEF Step, LoadSnapshot, CheckSnapshot, ReadMarker, WriteMarker, PollCompleted,
         PollFailed, PollLost, PollGivesUp, StoreSnapshot, ClearAndAnswer,
         ClearAndRefuse, Return
<1>6. CASE UNCHANGED vars
  BY <1>1, <1>6 DEF vars, provider
<1> QED
  BY <1>3, <1>4, <1>5, <1>6 DEF Next

\* The bucket: only completed executions are stored, and a marker is written by
\* the call whose submission it names.
LEMMA StoreStep == IInv /\ [Next]_vars => StoreInv'
<1> SUFFICES ASSUME IInv, [Next]_vars PROVE StoreInv'
  OBVIOUS
<1> USE DEF TypeOK, StoreInv
<1>0. TypeOK /\ StoreInv /\ Kept
  BY ProviderStep DEF IInv
<1>1. ASSUME UNCHANGED store PROVE StoreInv'
  BY <1>0, <1>1, NamesAssumption DEF store, Kept, Markers
<1>2. ASSUME NEW c \in Calls, WriteMarker(c) PROVE StoreInv'
  <2>1. job[c] \in Ids /\ state[job[c]] # "unused" /\ at[job[c]] >= began[c]
    BY <1>2 DEF WriteMarker, IInv, CallInv, Waiting
  <2>2. snapshot' = snapshot /\ state' = state /\ at' = at
    BY <1>2 DEF WriteMarker, provider
  <2>3. marker' \in {[id |-> job[c], started |-> began[c]], marker}
    BY <1>2 DEF WriteMarker
  <2> QED
    BY <1>0, <2>1, <2>2, <2>3
<1>3. ASSUME NEW c \in Calls, StoreSnapshot(c) PROVE StoreInv'
  <2>1. state[job[c]] = "completed"
    BY <1>3 DEF StoreSnapshot, IInv, CallInv
  <2> QED
    BY <1>0, <1>3, <2>1 DEF StoreSnapshot, provider
<1>4. ASSUME NEW c \in Calls, ClearAndAnswer(c) \/ ClearAndRefuse(c) PROVE StoreInv'
  BY <1>0, <1>4 DEF ClearAndAnswer, ClearAndRefuse, provider
<1>5. ASSUME NEW c \in Calls, LoadSnapshot(c) \/ Step(c) \/ PollLost(c) \/ Return(c)
      PROVE  StoreInv'
  BY <1>1, <1>2, <1>3, <1>4, <1>5
     DEF Step, LoadSnapshot, CheckSnapshot, ReadMarker, Submit, PollCompleted,
         PollFailed, PollLost, PollGivesUp, Return, store
<1>6. CASE \/ \E i \in Ids : Finish(i)
           \/ Tick
           \/ UNCHANGED vars
  BY <1>1, <1>6 DEF Finish, Tick, vars, store
<1> QED
  BY <1>5, <1>6 DEF Next

------------------------------------------------------------------------------
\* What a call knows survives any step that leaves its own variables alone.
LEMMA CallKept ==
    ASSUME TypeOK, Kept, NEW d \in Calls, CallInv(d),
           UNCHANGED <<pc[d], base[d], began[d], job[d], answer[d]>>,
           now' \in Times
    PROVE  CallInv(d)'
<1> USE NamesAssumption, TimesAssumption
    DEF TypeOK, Kept, CallInv, Times, Ids, Waiting, PastCheck, Answered, Age
<1>1. began'[d] <= now'
  OBVIOUS
<1>2. base[d] # None => at'[base[d]] = at[base[d]] /\ state'[base[d]] = "completed"
  OBVIOUS
<1>3. pc[d] \in Waiting =>
        at'[job[d]] = at[job[d]] /\ state'[job[d]] # "unused"
  OBVIOUS
<1>4. Answered(d) =>
        at'[answer[d]] = at[answer[d]] /\ state'[answer[d]] = "completed"
  OBVIOUS
<1> QED
  BY <1>1, <1>2, <1>3, <1>4

\* Every action keeps what the call that takes it knows.
LEMMA CallStep ==
    ASSUME IInv, NEW c \in Calls, Kept,
           LoadSnapshot(c) \/ Step(c) \/ PollLost(c) \/ Return(c)
    PROVE  CallInv(c)'
<1> USE NamesAssumption, TimesAssumption
    DEF TypeOK, Times, Ids, Goto, Answered, provider, store
<1>0. TypeOK /\ StoreInv /\ CallInv(c)
  BY DEF IInv
<1> USE <1>0
\* Answering with the fallback is safe wherever the check has been passed.
<1>a. ASSUME pc[c] \in PastCheck, Refuse(c), UNCHANGED <<now, base, began>>
      PROVE  CallInv(c)'
  <2>1. answer'[c] = Fallback(c) /\ pc'[c] = "done"
    BY <1>a DEF Refuse, Answer
  <2>2. Fallback(c) \in Ids =>
           /\ Fallback(c) = base[c] /\ base[c] # None
           /\ Age(base[c], began[c]) <= MaxAge
    BY DEF Fallback, IsUsable
  <2>3. began'[c] <= now' /\ base'[c] = base[c] /\ began'[c] = began[c]
    BY <1>a DEF CallInv
  <2>4. base[c] # None =>
           at'[base[c]] = at[base[c]] /\ state'[base[c]] = "completed"
    BY DEF CallInv, Kept
  <2> QED
    BY <2>1, <2>2, <2>3, <2>4 DEF CallInv, PastCheck, Waiting, Age
<1>1. CASE LoadSnapshot(c)
  BY <1>1 DEF LoadSnapshot, CallInv, PastCheck, Waiting, StoreInv
<1>2. CASE CheckSnapshot(c)
  BY <1>2 DEF CheckSnapshot, Answer, IsCurrent, Age, CallInv, PastCheck, Waiting
<1>3. CASE ReadMarker(c)
  <2> PICK m \in {marker, None} :
         IF IsFresh(m, began[c])
         THEN Goto(c, "poll") /\ job' = [job EXCEPT ![c] = m.id]
         ELSE Goto(c, "submit") /\ UNCHANGED job
    BY <1>3 DEF ReadMarker
  <2>1. pc[c] = "marker" /\ UNCHANGED <<now, state, at, base, began, answer>>
    BY <1>3 DEF ReadMarker
  <2>2. CASE IsFresh(m, began[c])
    <3>1. /\ m.id \in Ids /\ m.started \in Times
          /\ state[m.id] # "unused"
          /\ at[m.id] >= m.started
          /\ began[c] - m.started < Reuse
      BY <2>2 DEF IsFresh, StoreInv, Markers
    <3>2. at[m.id] >= began[c] - Reuse
      BY <3>1
    <3> QED
      BY <2>1, <2>2, <3>1, <3>2 DEF CallInv, PastCheck, Waiting
  <2>3. CASE ~IsFresh(m, began[c])
    BY <2>1, <2>3 DEF CallInv, PastCheck, Waiting
  <2> QED
    BY <2>2, <2>3
<1>4. CASE Submit(c)
  <2>1. CASE Refuse(c)
    BY <1>4, <1>a, <2>1 DEF Submit, PastCheck
  <2>2. CASE ~Refuse(c)
    <3> PICK i \in Ids : Accept(i) /\ Goto(c, "mark") /\ job' = [job EXCEPT ![c] = i]
      BY <1>4, <2>2 DEF Submit
    <3>1. state'[i] = "active" /\ at'[i] = now
      BY DEF Accept
    <3>2. pc[c] = "submit" /\ UNCHANGED <<now, base, began>>
      BY <1>4 DEF Submit
    <3>3. base[c] # None =>
             at'[base[c]] = at[base[c]] /\ state'[base[c]] = "completed"
      BY DEF CallInv, Kept
    <3> QED
      BY <3>1, <3>2, <3>3 DEF CallInv, PastCheck, Waiting
  <2> QED
    BY <2>1, <2>2
<1>5. CASE WriteMarker(c)
  BY <1>5 DEF WriteMarker, CallInv, PastCheck, Waiting
<1>6. CASE PollCompleted(c)
  BY <1>6 DEF PollCompleted, CallInv, PastCheck, Waiting
<1>7. CASE PollFailed(c)
  BY <1>7 DEF PollFailed, Forget, CallInv, PastCheck, Waiting
<1>8. CASE PollLost(c) \/ PollGivesUp(c) \/ ClearAndRefuse(c)
  BY <1>8, <1>a DEF PollLost, PollGivesUp, ClearAndRefuse, PastCheck, Waiting
<1>9. CASE StoreSnapshot(c)
  BY <1>9 DEF StoreSnapshot, CallInv, PastCheck, Waiting
\* The refresh is usable at the answer, hence at the check; and it was submitted
\* less than RefreshAfter before the check, unlike the snapshot first read.
<1>10. CASE ClearAndAnswer(c)
  <2>1. /\ pc[c] = "clear" /\ pc'[c] = "done"
        /\ UNCHANGED <<now, state, at, base, began>>
        /\ answer'[c] = IF IsUsable(job[c], now) THEN job[c] ELSE Fallback(c)
    BY <1>10 DEF ClearAndAnswer, Answer
  <2>2. /\ job[c] \in Ids
        /\ state[job[c]] = "completed"
        /\ at[job[c]] >= began[c] - Reuse
        /\ base[c] # None => began[c] - at[base[c]] > RefreshAfter
    BY <2>1 DEF CallInv, PastCheck, Waiting
  <2>3. began[c] <= now
    BY DEF CallInv
  <2>4. CASE IsUsable(job[c], now)
    <3>1. began[c] - at[job[c]] <= MaxAge
      BY <2>2, <2>3, <2>4 DEF IsUsable, Age
    <3>2. base[c] # None => at[job[c]] >= at[base[c]]
      BY <2>2
    <3> QED
      BY <2>1, <2>2, <2>4, <3>1, <3>2 DEF CallInv, PastCheck, Waiting, Age
  <2>5. CASE ~IsUsable(job[c], now)
    BY <2>1, <2>5 DEF Fallback, IsUsable, CallInv, PastCheck, Waiting, Age
  <2> QED
    BY <2>4, <2>5
<1>11. CASE Return(c)
  BY <1>11 DEF Return, Forget, CallInv, PastCheck, Waiting
<1> QED
  BY <1>1, <1>2, <1>3, <1>4, <1>5, <1>6, <1>7, <1>8, <1>9, <1>10, <1>11 DEF Step

\* A call writes no variable of another call.
LEMMA OthersKept ==
    ASSUME TypeOK, NEW c \in Calls, NEW d \in Calls, d # c,
           LoadSnapshot(c) \/ Step(c) \/ PollLost(c) \/ Return(c)
    PROVE  UNCHANGED <<pc[d], base[d], began[d], job[d], answer[d]>>
<1> USE DEF TypeOK, Goto, Answer, Forget, Refuse
<1>1. CASE LoadSnapshot(c) \/ CheckSnapshot(c) \/ ReadMarker(c) \/ Return(c)
  BY <1>1 DEF LoadSnapshot, CheckSnapshot, ReadMarker, Return
<1>2. CASE Submit(c)
  BY <1>2 DEF Submit
<1>3. CASE PollCompleted(c) \/ PollFailed(c) \/ PollLost(c) \/ PollGivesUp(c)
  BY <1>3 DEF PollCompleted, PollFailed, PollLost, PollGivesUp
<1>4. CASE WriteMarker(c) \/ StoreSnapshot(c) \/ ClearAndAnswer(c) \/ ClearAndRefuse(c)
  BY <1>4 DEF WriteMarker, StoreSnapshot, ClearAndAnswer, ClearAndRefuse
<1> QED
  BY <1>1, <1>2, <1>3, <1>4 DEF Step

\* The invariant holds at first.
LEMMA InitInv == Init => IInv
<1> SUFFICES ASSUME Init PROVE IInv
  OBVIOUS
<1> USE TimesAssumption, NamesAssumption DEF Init, Ids, Times
<1>1. TypeOK
  BY DEF TypeOK, States, Markers, Points
<1>2. StoreInv
  BY DEF StoreInv
<1>3. ASSUME NEW c \in Calls PROVE CallInv(c)
  BY DEF CallInv, PastCheck, Waiting, Answered
<1> QED
  BY <1>1, <1>2, <1>3 DEF IInv

\* And every step keeps it.
LEMMA InvStep == IInv /\ [Next]_vars => IInv'
<1> SUFFICES ASSUME IInv, [Next]_vars PROVE IInv'
  OBVIOUS
<1>1. TypeOK /\ TypeOK' /\ StoreInv' /\ Kept
  BY TypeStep, StoreStep, ProviderStep DEF IInv
<1>2. now' \in Times
  BY <1>1 DEF TypeOK
<1>3. ASSUME NEW d \in Calls PROVE CallInv(d)'
  <2>1. CallInv(d)
    BY DEF IInv
  <2>2. CASE LoadSnapshot(d) \/ Step(d) \/ PollLost(d) \/ Return(d)
    BY <1>1, <2>2, CallStep
  <2>3. ASSUME UNCHANGED <<pc[d], base[d], began[d], job[d], answer[d]>>
        PROVE  CallInv(d)'
    BY <1>1, <1>2, <2>1, <2>3, CallKept
  <2>4. ASSUME NEW c \in Calls, d # c,
               LoadSnapshot(c) \/ Step(c) \/ PollLost(c) \/ Return(c)
        PROVE  CallInv(d)'
    BY <1>1, <2>3, <2>4, OthersKept
  <2>5. CASE \/ \E i \in Ids : Finish(i)
             \/ Tick
             \/ UNCHANGED vars
    BY <2>3, <2>5 DEF Finish, Tick, vars, call
  <2> QED
    BY <2>2, <2>4, <2>5 DEF Next
<1> QED
  BY <1>1, <1>3 DEF IInv

\* The inductive invariant holds of every state: what the bucket holds is sound, and so
\* is what each suspended call knows.
THEOREM Invariance == Spec => []IInv
  BY InitInv, InvStep, PTL DEF Spec

------------------------------------------------------------------------------
\* The state never leaves its types (StonxSnapshot!TypeOK).
THEOREM TypeCorrect == Spec => []TypeOK
<1>1. IInv => TypeOK
  BY DEF IInv
<1> QED
  BY <1>1, Invariance, PTL

\* The bucket and every answer hold only executions that completed with valid
\* rows (storedSnapshot, waitForRefreshedSnapshot), for any number of calls.
THEOREM OnlyGoodSnapshotsHolds == Spec => []OnlyGoodSnapshots
<1>1. IInv => OnlyGoodSnapshots
  BY DEF IInv, StoreInv, CallInv, OnlyGoodSnapshots
<1> QED
  BY <1>1, Invariance, PTL

\* No call answers from a snapshot that was outside the seven-day window when it
\* looked at the bucket (isUsable in refreshOrFallback).
THEOREM AnswerWasUsableHolds == Spec => []AnswerWasUsable
<1>1. IInv => AnswerWasUsable
  BY DEF IInv, CallInv, AnswerWasUsable
<1> QED
  BY <1>1, Invariance, PTL

\* Refreshing, or joining another call's refresh, never answers with less recent
\* data than the bucket held: this is where Reuse <= RefreshAfter is needed.
THEOREM NeverOlderThanReadHolds == Spec => []NeverOlderThanRead
<1>1. IInv => NeverOlderThanRead
  BY DEF IInv, CallInv, NeverOlderThanRead
<1> QED
  BY <1>1, Invariance, PTL

------------------------------------------------------------------------------
(***************************************************************************)
(* The refinement: under the mapping of StonxSnapshot's Service, every     *)
(* step is a step of SnapshotService or changes nothing it speaks of.      *)
(* Beside the inductive invariant it needs only that what the provider     *)
(* finishes was submitted before now.                                      *)
(***************************************************************************)
\* No execution was submitted in the future.
SubmittedInv == \A i \in Ids : at[i] <= now

RInv == IInv /\ SubmittedInv

\* Executions stay submitted in the past.
LEMMA SubmittedStep == RInv /\ [Next]_vars => SubmittedInv'
<1> SUFFICES ASSUME RInv, [Next]_vars PROVE SubmittedInv'
  OBVIOUS
<1>0. /\ now \in Int /\ at \in [Ids -> Times] /\ \A i \in Ids : at[i] \in Int
      /\ \A i \in Ids : at[i] <= now
  BY TimesAssumption DEF RInv, IInv, TypeOK, SubmittedInv, Times
<1>1. ASSUME UNCHANGED <<now, at>> PROVE SubmittedInv'
  BY <1>0, <1>1 DEF SubmittedInv
<1>2. ASSUME NEW c \in Calls, Submit(c) PROVE SubmittedInv'
  <2>1. CASE \E i \in Ids : Accept(i)
    BY <1>0, <1>2, <2>1 DEF Submit, Accept, SubmittedInv
  <2>2. CASE UNCHANGED provider
    BY <1>1, <1>2, <2>2 DEF Submit, provider
  <2> QED
    BY <1>2, <2>1, <2>2 DEF Submit
<1>3. CASE Tick
  BY <1>0, <1>3 DEF Tick, provider, SubmittedInv
<1>4. ASSUME NEW c \in Calls, LoadSnapshot(c) \/ Step(c) \/ PollLost(c) \/ Return(c)
      PROVE  SubmittedInv'
  BY <1>1, <1>2, <1>4
     DEF Step, LoadSnapshot, CheckSnapshot, ReadMarker, WriteMarker, PollCompleted,
         PollFailed, PollLost, PollGivesUp, StoreSnapshot, ClearAndAnswer,
         ClearAndRefuse, Return, provider
<1>5. CASE (\E i \in Ids : Finish(i)) \/ UNCHANGED vars
  BY <1>1, <1>5 DEF Finish, vars
<1> QED
  BY <1>3, <1>4, <1>5 DEF Next

\* A call that moves from one point to another moves one phase.
LEMMA PhaseStep ==
    ASSUME TypeOK, NEW c \in Calls, NEW point, Goto(c, point)
    PROVE  Phase' = [Phase EXCEPT ![c] = PhaseOf(point)]
BY DEF TypeOK, Goto, Phase

\* Only an execution that completes changes what is on offer.
LEMMA OfferedKept ==
    ASSUME TypeOK, UNCHANGED provider \/ \E i \in Ids : Accept(i)
    PROVE  Offered' = Offered
<1>1. CASE UNCHANGED provider
  BY <1>1 DEF provider, Offered
<1>2. ASSUME NEW i \in Ids, Accept(i) PROVE Offered' = Offered
  <2>1. /\ \A k \in Ids : state'[k] = "completed" <=> state[k] = "completed"
        /\ \A k \in Ids : state[k] = "completed" => at'[k] = at[k]
    BY <1>2 DEF Accept, TypeOK
  <2> QED
    BY <2>1 DEF Offered
<1> QED
  BY <1>1, <1>2

\* The fallback is a reply the service allows.
LEMMA FallbackReplies ==
    ASSUME RInv, NEW c \in Calls
    PROVE  Fallback(c) \in Service!Replies(c, began[c])
<1>1. base[c] # None => base[c] \in DOMAIN Offered /\ Offered[base[c]] = at[base[c]]
  BY DEF RInv, IInv, CallInv, TypeOK, Offered
<1>2. began[c] \in Int /\ \A i \in Ids : at[i] \in Int
  BY DEF RInv, IInv, TypeOK, Times
<1> QED
  BY <1>1, <1>2 DEF Fallback, IsUsable, Age, Service!Replies, Service!Usable, RInv, IInv, TypeOK

\* A refusal of a call that waits is an answer of the service.
LEMMA RefuseReplies ==
    ASSUME RInv, NEW c \in Calls, Refuse(c), PhaseOf(pc[c]) = "waiting",
           Offered' = Offered, UNCHANGED <<now, snapshot, base, began>>
    PROVE  Service!Reply(c)
<1>1. Phase' = [Phase EXCEPT ![c] = "replied"]
  BY PhaseStep DEF Refuse, Answer, RInv, IInv, PhaseOf
<1>2. answer' = [answer EXCEPT ![c] = Fallback(c)]
  BY DEF Refuse, Answer
<1>3. Phase[c] = "waiting"
  BY DEF Phase
<1> QED
  BY <1>1, <1>2, <1>3, FallbackReplies DEF Service!Reply, Service!Answer

\* Each step of a call is a step of the service or leaves its state alone.
LEMMA CallRefines ==
    ASSUME RInv, NEW c \in Calls, LoadSnapshot(c) \/ Step(c) \/ PollLost(c) \/ Return(c)
    PROVE  Service!Next \/ UNCHANGED Service!vars
<1>0. TypeOK /\ CallInv(c) /\ StoreInv
  BY DEF RInv, IInv
<1>a. ASSUME UNCHANGED provider \/ \E i \in Ids : Accept(i),
             NEW p \in Points, Goto(c, p), PhaseOf(p) = PhaseOf(pc[c]),
             UNCHANGED <<now, snapshot, base, began, answer>>
      PROVE  UNCHANGED Service!vars
  <2>1. Offered' = Offered
    BY <1>0, <1>a, OfferedKept
  <2>2. Phase' = [Phase EXCEPT ![c] = Phase[c]]
    BY <1>0, <1>a, PhaseStep DEF Phase
  <2>3. Phase' = Phase
    BY <2>2 DEF Phase
  <2> QED
    BY <1>a, <2>1, <2>3 DEF Service!vars
<1>b. ASSUME UNCHANGED provider \/ \E i \in Ids : Accept(i), Refuse(c),
             pc[c] \in PastCheck, UNCHANGED <<now, snapshot, base, began>>
      PROVE  Service!Next
  <2>1. Offered' = Offered
    BY <1>0, <1>b, OfferedKept
  <2>2. PhaseOf(pc[c]) = "waiting"
    BY <1>b DEF PhaseOf, PastCheck, Waiting
  <2> QED
    BY <1>b, <2>1, <2>2, RefuseReplies DEF Service!Next
<1>1. CASE LoadSnapshot(c)
  <2>1. Offered' = Offered
    BY <1>0, <1>1, OfferedKept DEF LoadSnapshot
  <2>2. Phase' = [Phase EXCEPT ![c] = "reading"] /\ Phase[c] = "free"
    BY <1>0, <1>1, PhaseStep DEF LoadSnapshot, PhaseOf, Phase
  <2>3. Service!Ask(c)
    BY <1>1, <2>1, <2>2 DEF LoadSnapshot, Service!Ask, store
  <2> QED
    BY <2>3 DEF Service!Next
<1>2. CASE CheckSnapshot(c)
  <2>1. Offered' = Offered
    BY <1>0, <1>2, OfferedKept DEF CheckSnapshot
  <2>2. Phase[c] = "reading"
    BY <1>2 DEF CheckSnapshot, PhaseOf, Phase
  <2>3. CASE IsCurrent(base[c], now)
    <3>1. base[c] \in DOMAIN Offered /\ Offered[base[c]] = at[base[c]] /\ base[c] # None
      BY <1>0, <2>3 DEF IsCurrent, CallInv, TypeOK, Offered
    <3>2. at[base[c]] \in Int /\ now \in Int
      BY <1>0, <2>3 DEF IsCurrent, TypeOK, Times
    <3>3. base[c] \in Service!Replies(c, now)
      BY <2>3, <3>1, <3>2, TimesAssumption
         DEF IsCurrent, Age, Service!Replies, Service!Usable
    <3>4. Phase' = [Phase EXCEPT ![c] = "replied"] /\ answer' = [answer EXCEPT ![c] = base[c]]
      BY <1>0, <1>2, <2>3, PhaseStep DEF CheckSnapshot, Answer, PhaseOf
    <3> QED
      BY <1>2, <2>1, <2>2, <3>3, <3>4
         DEF CheckSnapshot, Service!Judge, Service!Answer, Service!Next, store
  <2>4. CASE ~IsCurrent(base[c], now)
    <3>1. Phase' = [Phase EXCEPT ![c] = "waiting"] /\ answer' = answer
      BY <1>0, <1>2, <2>4, PhaseStep DEF CheckSnapshot, PhaseOf
    <3> QED
      BY <1>2, <2>1, <2>2, <3>1 DEF CheckSnapshot, Service!Judge, Service!Next, store
  <2> QED
    BY <2>3, <2>4
<1>3. CASE ReadMarker(c)
  <2>1. \E p \in {"poll", "submit"} : Goto(c, p)
    BY <1>3 DEF ReadMarker
  <2>2. pc[c] = "marker" /\ UNCHANGED <<now, provider, snapshot, base, began, answer>>
    BY <1>3 DEF ReadMarker, store
  <2> QED
    BY <1>a, <2>1, <2>2 DEF PhaseOf, Points
<1>4. CASE Submit(c)
  <2>1. /\ UNCHANGED provider \/ \E i \in Ids : Accept(i)
        /\ UNCHANGED <<now, snapshot, base, began>> /\ pc[c] = "submit"
    BY <1>4 DEF Submit, store
  <2>2. CASE Refuse(c)
    BY <1>b, <2>1, <2>2 DEF PastCheck
  <2>3. CASE Goto(c, "mark") /\ UNCHANGED answer
    BY <1>a, <2>1, <2>3 DEF PhaseOf, Points
  <2> QED
    BY <1>4, <2>2, <2>3 DEF Submit
<1>5. CASE WriteMarker(c) \/ PollCompleted(c) \/ PollFailed(c)
  <2>1. /\ \E p \in {"poll", "store", "discard"} : Goto(c, p)
        /\ pc[c] \in {"mark", "poll"}
        /\ UNCHANGED <<now, provider, snapshot, base, began, answer>>
    BY <1>5 DEF WriteMarker, PollCompleted, PollFailed, store
  <2> QED
    BY <1>a, <2>1 DEF PhaseOf, Points
<1>6. CASE PollLost(c) \/ PollGivesUp(c) \/ ClearAndRefuse(c)
  BY <1>b, <1>6 DEF PollLost, PollGivesUp, ClearAndRefuse, PastCheck, Waiting, store
<1>7. CASE StoreSnapshot(c)
  <2>1. /\ Goto(c, "clear") /\ pc[c] = "store" /\ snapshot' \in {job[c], snapshot}
        /\ UNCHANGED <<now, provider, base, began, answer>>
    BY <1>7 DEF StoreSnapshot
  <2>2. CASE snapshot' = snapshot
    BY <1>a, <2>1, <2>2 DEF PhaseOf, Points
  <2>3. CASE snapshot' = job[c]
    <3>1. job[c] \in DOMAIN Offered
      BY <1>0, <2>1 DEF CallInv, Waiting, Offered
    <3>2. Offered' = Offered
      BY <1>0, <2>1, OfferedKept
    <3>3. Phase' = Phase
      <4>1. Phase' = [Phase EXCEPT ![c] = Phase[c]]
        BY <1>0, <2>1, PhaseStep DEF Phase, PhaseOf
      <4> QED
        BY <4>1 DEF Phase
    <3> QED
      BY <2>1, <2>3, <3>1, <3>2, <3>3 DEF Service!Keep, Service!session, Service!Next
  <2> QED
    BY <2>1, <2>2, <2>3
<1>8. CASE ClearAndAnswer(c)
  <2>1. /\ pc[c] = "clear" /\ UNCHANGED <<now, provider, snapshot, base, began>>
        /\ answer' = [answer EXCEPT ![c] =
                         IF IsUsable(job[c], now) THEN job[c] ELSE Fallback(c)]
        /\ Goto(c, "done")
    BY <1>8 DEF ClearAndAnswer, Answer
  <2>2. Offered' = Offered
    BY <1>0, <2>1, OfferedKept
  <2>3. Phase' = [Phase EXCEPT ![c] = "replied"] /\ Phase[c] = "waiting"
    BY <1>0, <2>1, PhaseStep DEF PhaseOf, Phase
  <2>4. CASE IsUsable(job[c], now)
    <3>1. /\ job[c] \in DOMAIN Offered /\ Offered[job[c]] = at[job[c]] /\ job[c] # None
          /\ base[c] # None => base[c] \in DOMAIN Offered /\ Offered[base[c]] = at[base[c]]
      BY <1>0, <2>1, <2>4 DEF CallInv, Waiting, Offered, IsUsable, TypeOK
    <3>2. /\ began[c] - at[job[c]] <= MaxAge
          /\ base[c] # None => at[job[c]] >= at[base[c]]
      <4>1. /\ began[c] <= now /\ now - at[job[c]] <= MaxAge
            /\ at[job[c]] >= began[c] - Reuse
            /\ base[c] # None => began[c] - at[base[c]] > RefreshAfter
        BY <1>0, <2>1, <2>4 DEF CallInv, PastCheck, Waiting, IsUsable, Age
      <4>2. {began[c], now, at[job[c]]} \subseteq Int /\ (base[c] # None => at[base[c]] \in Int)
        BY <1>0, <2>1 DEF TypeOK, CallInv, Waiting, Times
      <4> QED
        BY <4>1, <4>2, TimesAssumption
    <3>3. job[c] \in Service!Replies(c, began[c])
      BY <3>1, <3>2 DEF Service!Replies, Service!Usable
    <3> QED
      BY <2>1, <2>2, <2>3, <2>4, <3>3 DEF Service!Reply, Service!Answer, Service!Next
  <2>5. CASE ~IsUsable(job[c], now)
    BY <2>1, <2>2, <2>3, <2>5, FallbackReplies DEF Service!Reply, Service!Answer, Service!Next
  <2> QED
    BY <2>4, <2>5
<1>9. CASE Return(c)
  <2>1. Offered' = Offered
    BY <1>0, <1>9, OfferedKept DEF Return
  <2>2. Phase' = [Phase EXCEPT ![c] = "free"] /\ Phase[c] = "replied"
    BY <1>0, <1>9, PhaseStep DEF Return, PhaseOf, Phase
  <2>3. Service!Close(c)
    BY <1>9, <2>1, <2>2 DEF Return, Service!Close, store
  <2> QED
    BY <2>3 DEF Service!Next
<1> QED
  BY <1>1, <1>2, <1>3, <1>4, <1>5, <1>6, <1>7, <1>8, <1>9 DEF Step

\* An execution that completes is offered, at a time that has passed.
LEMMA FinishRefines ==
    ASSUME RInv, NEW i \in Ids, Finish(i)
    PROVE  Service!Next \/ UNCHANGED Service!vars
<1>0. TypeOK /\ at[i] <= now
  BY DEF RInv, IInv, SubmittedInv
<1>1. /\ UNCHANGED <<now, at, snapshot, pc, base, began, answer>> /\ state[i] = "active"
      /\ state' \in {[state EXCEPT ![i] = s] : s \in {"completed", "invalid", "failed"}}
  BY DEF Finish, store, call
<1>2. Phase' = Phase
  BY <1>1 DEF Phase
<1>3. CASE state' = [state EXCEPT ![i] = "completed"]
  <2>1. {k \in Ids : state'[k] = "completed"} = {k \in Ids : state[k] = "completed"} \cup {i}
    BY <1>0, <1>3 DEF TypeOK
  <2>2. Offered' = [k \in DOMAIN Offered \cup {i} |-> IF k = i THEN at[i] ELSE Offered[k]]
    BY <1>1, <2>1 DEF Offered
  <2>3. i \notin DOMAIN Offered /\ at[i] \in 0 .. now
    BY <1>0, <1>1, TimesAssumption DEF Offered, TypeOK, Times
  <2>4. Service!Offer(i)
    BY <1>1, <1>2, <2>2, <2>3 DEF Service!Offer, Service!session
  <2> QED
    BY <2>4 DEF Service!Next
<1>4. CASE \E s \in {"invalid", "failed"} : state' = [state EXCEPT ![i] = s]
  <2>1. {k \in Ids : state'[k] = "completed"} = {k \in Ids : state[k] = "completed"}
    BY <1>0, <1>1, <1>4 DEF TypeOK
  <2>2. Offered' = Offered
    BY <1>1, <2>1 DEF Offered
  <2> QED
    BY <1>1, <1>2, <2>2 DEF Service!vars
<1> QED
  BY <1>1, <1>3, <1>4

\* The calls, the provider and the bucket implement the service the tool
\* promises (recommendations.ts): for any number of calls and executions.
THEOREM KeepsServicePromiseHolds == Spec => KeepsServicePromise
<1>1. Init => Service!Init
  <2> SUFFICES ASSUME Init PROVE Service!Init
    OBVIOUS
  <2>1. DOMAIN Offered = {0} /\ 0 \in Ids
    BY TimesAssumption, NamesAssumption DEF Init, Offered, Ids
  <2>2. now \in Nat /\ at[0] \in 0 .. now
    BY <2>1, TimesAssumption DEF Init
  <2>3. Offered \in [DOMAIN Offered -> 0 .. now]
    BY <2>1, <2>2 DEF Offered
  <2>4. Phase = [c \in Calls |-> "free"]
    BY DEF Init, Phase, PhaseOf
  <2> QED
    BY <2>1, <2>2, <2>3, <2>4 DEF Init, Service!Init
<1>2. Init => RInv
  BY InitInv, TimesAssumption DEF RInv, SubmittedInv, Init
<1>3. RInv /\ [Next]_vars => RInv'
  BY InvStep, SubmittedStep DEF RInv
<1>4. RInv /\ [Next]_vars => [Service!Next]_Service!vars
  <2> SUFFICES ASSUME RInv, [Next]_vars PROVE Service!Next \/ UNCHANGED Service!vars
    OBVIOUS
  <2>1. CASE Tick
    <3>1. Offered' = Offered /\ Phase' = Phase
      BY <2>1 DEF Tick, provider, call, Offered, Phase
    <3>2. Service!Advance
      BY <2>1, <3>1 DEF Tick, store, call, Service!Advance, Service!session
    <3> QED
      BY <3>2 DEF Service!Next
  <2>2. CASE UNCHANGED vars
    <3>1. Offered' = Offered /\ Phase' = Phase
      BY <2>2 DEF vars, Offered, Phase
    <3> QED
      BY <2>2, <3>1 DEF vars, Service!vars
  <2> QED
    BY <2>1, <2>2, CallRefines, FinishRefines DEF Next
<1> QED
  BY <1>1, <1>2, <1>3, <1>4, PTL DEF Spec, KeepsServicePromise, Service!Spec
=============================================================================
