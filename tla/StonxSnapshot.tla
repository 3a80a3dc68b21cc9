---------------------------- MODULE StonxSnapshot ----------------------------
(***************************************************************************)
(* How get_stonx_allocation_recommendation obtains the snapshot it answers *)
(* from (src/src/recommendations.ts).  The Worker is stateless: concurrent *)
(* calls share nothing but two objects of the artifact bucket, the last    *)
(* good snapshot and a marker naming the refresh in flight, and the        *)
(* provider (Dune), which runs one execution per accepted submission.      *)
(*                                                                         *)
(* Every await is a point where the other calls, the provider and the      *)
(* clock may move, so an action is the code between two awaits.  A         *)
(* snapshot is named by the execution that produced it; execution 0 is     *)
(* whatever an earlier day left in the bucket.  Rows are not modelled:     *)
(* a finished execution has either a payload parseRecommendationSnapshot   *)
(* accepts ("completed") or one it throws on ("invalid").                  *)
(***************************************************************************)
EXTENDS Integers

CONSTANTS
    Calls,          \* concurrent invocations of the tool
    MaxExec,        \* bound: executions the provider may be asked for
    None,           \* no snapshot, no marker, no answer
    Unavailable,    \* the answer allocation_recommendations_unavailable
    RefreshAfter,   \* RECOMMENDATION_REFRESH_AFTER_MS, one day
    MaxAge,         \* MAX_RECOMMENDATION_AGE_MS, seven days
    Reuse,          \* REFRESH_REUSE_MS, ten minutes
    MaxWait,        \* REFRESH_MAX_WAIT_MS, twenty seconds
    StartTime,      \* the clock when the behaviour begins
    MaxTime         \* bound: the clock stops here

ASSUME TimesAssumption ==
    /\ {RefreshAfter, MaxAge, Reuse, MaxWait, StartTime, MaxTime} \subseteq Nat
    /\ Reuse <= RefreshAfter
    /\ RefreshAfter <= MaxAge
    /\ StartTime <= MaxTime

ASSUME NamesAssumption ==
    /\ MaxExec \in Nat
    /\ None \notin Int /\ Unavailable \notin Int /\ None # Unavailable

Ids == 0..MaxExec
Times == 0..MaxTime
States == {"unused", "active", "completed", "invalid", "failed"}
Markers == [id : Ids, started : Times]

\* Where a call is suspended.
Points == {"idle", "check", "marker", "submit", "mark", "poll",
           "store", "clear", "discard", "done"}

VARIABLES
    now,        \* Date.now()
    state,      \* state[i]: what the provider says of execution i
    at,         \* at[i]: its submitted_at
    snapshot,   \* recommendation/stonx-allocation/snapshot.json
    marker,     \* recommendation/stonx-allocation/refresh.json
    pc,         \* where each call is
    base,       \* the stored snapshot it read
    began,      \* the clock it judged that snapshot, and any marker, by
    job,        \* the execution it waits for
    deadline,   \* when it stops waiting
    answer      \* what it returned

store == <<snapshot, marker>>
provider == <<state, at>>
call == <<pc, base, began, job, deadline, answer>>
vars == <<now, state, at, snapshot, marker, pc, base, began, job, deadline, answer>>

------------------------------------------------------------------------------
Age(i, t) == t - at[i]
IsCurrent(i, t) == i # None /\ Age(i, t) <= RefreshAfter
IsUsable(i, t) == i # None /\ Age(i, t) <= MaxAge

\* Mutant: the usable window is not applied to the fallback.
FallbackOfAnyAge(c) == IF base[c] # None THEN base[c] ELSE Unavailable

\* Mutant: a failed refresh refuses the call, whatever the call had read.
NoFallback(c) == Unavailable

\* The const `fallback` of refreshOrFallback: decided once, at the check.
Fallback(c) == IF IsUsable(base[c], began[c]) THEN base[c] ELSE Unavailable

\* Mutant: a marker never expires.
IsFreshForever(m, t) == m # None /\ t - m.started >= 0

\* A marker is reused only by a call whose clock sample is not before it.
IsFresh(m, t) == m # None /\ t - m.started >= 0 /\ t - m.started < Reuse

NewDeadline == IF now + MaxWait <= MaxTime THEN now + MaxWait ELSE MaxTime

Goto(c, point) == pc' = [pc EXCEPT ![c] = point]

Answer(c, a) ==
    /\ Goto(c, "done")
    /\ answer' = [answer EXCEPT ![c] = a]

\* The locals of the wait go out of scope.
Forget(c) ==
    /\ job' = [job EXCEPT ![c] = None]
    /\ deadline' = [deadline EXCEPT ![c] = 0]

\* The catch clause: a failed refresh answers with the fallback or rethrows.
Refuse(c) ==
    /\ Answer(c, Fallback(c))
    /\ Forget(c)

------------------------------------------------------------------------------
Init ==
    /\ now = StartTime
    /\ \E t \in 0..StartTime, s \in {0, None} :
          /\ at = [i \in Ids |-> IF i = 0 THEN t ELSE 0]
          /\ snapshot = s
    /\ state = [i \in Ids |-> IF i = 0 THEN "completed" ELSE "unused"]
    /\ marker = None
    /\ pc = [c \in Calls |-> "idle"]
    /\ base = [c \in Calls |-> None]
    /\ began = [c \in Calls |-> 0]
    /\ job = [c \in Calls |-> None]
    /\ deadline = [c \in Calls |-> 0]
    /\ answer = [c \in Calls |-> None]

\* loadStoredSnapshot: a read that throws looks like an empty bucket.
LoadSnapshot(c) ==
    /\ pc[c] = "idle"
    /\ Goto(c, "check")
    /\ \E s \in {snapshot, None} : base' = [base EXCEPT ![c] = s]
    /\ UNCHANGED <<now, provider, store, began, job, deadline, answer>>

\* isCurrent, isUsable and refreshExecutionId's `now` are one clock sample.
CheckSnapshot(c) ==
    /\ pc[c] = "check"
    /\ began' = [began EXCEPT ![c] = now]
    /\ IF IsCurrent(base[c], now)
       THEN Answer(c, base[c])
       ELSE Goto(c, "marker") /\ UNCHANGED answer
    /\ UNCHANGED <<now, provider, store, base, job, deadline>>

\* refreshExecutionId, first half: join the refresh the marker names.
ReadMarker(c) ==
    /\ pc[c] = "marker"
    /\ \E m \in {marker, None} :
          IF IsFresh(m, began[c])
          THEN /\ Goto(c, "poll")
               /\ job' = [job EXCEPT ![c] = m.id]
               /\ deadline' = [deadline EXCEPT ![c] = NewDeadline]
          ELSE Goto(c, "submit") /\ UNCHANGED <<job, deadline>>
    /\ UNCHANGED <<now, provider, store, base, began, answer>>

\* The provider accepts the query as execution i.
Accept(i) ==
    /\ state[i] = "unused"
    /\ \A k \in Ids : k < i => state[k] # "unused"
    /\ state' = [state EXCEPT ![i] = "active"]
    /\ at' = [at EXCEPT ![i] = now]

\* The POST to sql/execute: it is answered, or refused, or its answer is lost.
Submit(c) ==
    /\ pc[c] = "submit"
    /\ \/ \E i \in Ids :
             /\ Accept(i)
             /\ \/ /\ Goto(c, "mark")
                   /\ job' = [job EXCEPT ![c] = i]
                   /\ UNCHANGED <<deadline, answer>>
                \/ Refuse(c)
       \/ Refuse(c) /\ UNCHANGED provider
    /\ UNCHANGED <<now, store, base, began>>

\* Mutant: the marker is stamped with when it expires, not when it started.
WriteExpiryMarker(c) ==
    /\ pc[c] = "mark"
    /\ marker' \in {[id |-> job[c], started |-> began[c] + Reuse], marker}
    /\ Goto(c, "poll")
    /\ deadline' = [deadline EXCEPT ![c] = NewDeadline]
    /\ UNCHANGED <<now, provider, snapshot, base, began, job, answer>>

\* writeStoredJson(REFRESH_STORE_KEY): a failed put is swallowed.
WriteMarker(c) ==
    /\ pc[c] = "mark"
    /\ marker' \in {[id |-> job[c], started |-> began[c]], marker}
    /\ Goto(c, "poll")
    /\ deadline' = [deadline EXCEPT ![c] = NewDeadline]
    /\ UNCHANGED <<now, provider, snapshot, base, began, job, answer>>

\* Mutant: any execution that has ended is stored, its rows never validated.
PollEnded(c) ==
    /\ pc[c] = "poll" /\ state[job[c]] \in {"completed", "invalid"}
    /\ Goto(c, "store")
    /\ deadline' = [deadline EXCEPT ![c] = 0]
    /\ UNCHANGED <<now, provider, store, base, began, job, answer>>

\* One turn of waitForRefreshedSnapshot's loop, up to its next await.
PollCompleted(c) ==
    /\ pc[c] = "poll" /\ state[job[c]] = "completed"
    /\ Goto(c, "store")
    /\ deadline' = [deadline EXCEPT ![c] = 0]
    /\ UNCHANGED <<now, provider, store, base, began, job, answer>>

PollFailed(c) ==
    /\ pc[c] = "poll" /\ state[job[c]] = "failed"
    /\ Goto(c, "discard")
    /\ Forget(c)
    /\ UNCHANGED <<now, provider, store, base, began, answer>>

\* The poll itself fails: the network, the status, or a body that is not JSON.
\* As below, the marker stays in the bucket.
PollLost(c) ==
    /\ pc[c] = "poll"
    /\ Refuse(c)
    /\ UNCHANGED <<now, provider, store, base, began>>

\* Mutant: the wait has no deadline.
PollForever(c) ==
    /\ pc[c] = "poll"
    /\ state[job[c]] = "invalid"
    /\ Refuse(c)
    /\ UNCHANGED <<now, provider, store, base, began>>

\* The rows do not parse, or the wait is over.  Before the deadline an active
\* execution is only polled again, which changes nothing.
PollGivesUp(c) ==
    /\ pc[c] = "poll"
    /\ \/ state[job[c]] = "invalid"
       \/ state[job[c]] = "active" /\ now >= deadline[c]
    /\ Refuse(c)
    /\ UNCHANGED <<now, provider, store, base, began>>

StoreSnapshot(c) ==
    /\ pc[c] = "store"
    /\ snapshot' \in {job[c], snapshot}
    /\ Goto(c, "clear")
    /\ UNCHANGED <<now, provider, marker, base, began, job, deadline, answer>>

\* clearStoredRefresh deletes the object whatever execution it names, then the
\* result is returned, unless it has itself left the usable window.
ClearAndAnswer(c) ==
    /\ pc[c] = "clear"
    /\ marker' \in {None, marker}
    /\ Answer(c, IF IsUsable(job[c], now) THEN job[c] ELSE Fallback(c))
    /\ Forget(c)
    /\ UNCHANGED <<now, provider, snapshot, base, began>>

ClearAndRefuse(c) ==
    /\ pc[c] = "discard"
    /\ marker' \in {None, marker}
    /\ Refuse(c)
    /\ UNCHANGED <<now, provider, snapshot, base, began>>

\* The response is sent; the slot can serve the next call.
Return(c) ==
    /\ pc[c] = "done"
    /\ Goto(c, "idle")
    /\ base' = [base EXCEPT ![c] = None]
    /\ began' = [began EXCEPT ![c] = 0]
    /\ Forget(c)
    /\ answer' = [answer EXCEPT ![c] = None]
    /\ UNCHANGED <<now, provider, store>>

\* The provider ends an execution; the code never cancels one.
Finish(i) ==
    /\ state[i] = "active"
    /\ state' \in {[state EXCEPT ![i] = s] : s \in {"completed", "invalid", "failed"}}
    /\ UNCHANGED <<now, at, store, call>>

Tick ==
    /\ now < MaxTime
    /\ now' = now + 1
    /\ UNCHANGED <<provider, store, call>>

Step(c) ==
    \/ CheckSnapshot(c) \/ ReadMarker(c) \/ Submit(c) \/ WriteMarker(c)
    \/ PollCompleted(c) \/ PollFailed(c) \/ PollGivesUp(c)
    \/ StoreSnapshot(c) \/ ClearAndAnswer(c) \/ ClearAndRefuse(c)

Next ==
    \/ \E c \in Calls : LoadSnapshot(c) \/ Step(c) \/ PollLost(c) \/ Return(c)
    \/ \E i \in Ids : Finish(i)
    \/ Tick

Spec == Init /\ [][Next]_vars

\* The runtime resumes every suspended call and the clock does not stop; no
\* fairness is asked of callers or of the provider, which may never finish.
FairSpec == Spec /\ WF_vars(Tick) /\ \A c \in Calls : WF_vars(Step(c))

------------------------------------------------------------------------------
(***************************************************************************)
(* Properties                                                              *)
(***************************************************************************)

\* Every variable has its type, and a call past the submission has a job.
TypeOK ==
    /\ now \in Times
    /\ state \in [Ids -> States]
    /\ at \in [Ids -> Times]
    /\ snapshot \in Ids \cup {None}
    /\ marker \in Markers \cup {None}
    /\ pc \in [Calls -> Points]
    /\ base \in [Calls -> Ids \cup {None}]
    /\ began \in [Calls -> Times]
    /\ job \in [Calls -> Ids \cup {None}]
    /\ deadline \in [Calls -> Times]
    /\ answer \in [Calls -> Ids \cup {None, Unavailable}]

Answered(c) == pc[c] = "done" /\ answer[c] \in Ids

\* Nothing but the result of an execution that completed with rows the parser
\* accepts is ever kept in the bucket or answered with, whichever call polled
\* it, whatever put, delete or poll failed, and whoever else was refreshing.
OnlyGoodSnapshots ==
    /\ snapshot # None => state[snapshot] = "completed"
    /\ \A c \in Calls : Answered(c) => state[answer[c]] = "completed"

\* A call that answers with a snapshot answers with one that was inside the
\* seven-day window when the call looked at the bucket, even if it answers
\* much later, with a fallback, or with a result it shares with other calls.
AnswerWasUsable ==
    \A c \in Calls : Answered(c) => Age(answer[c], began[c]) <= MaxAge

\* Waiting for a refresh never loses ground: the answer is at least as recent
\* as the snapshot the call first read.  It rests on the marker's age being
\* counted from before the submission and on Reuse <= RefreshAfter.
NeverOlderThanRead ==
    \A c \in Calls :
        Answered(c) /\ base[c] # None => at[answer[c]] >= at[base[c]]

\* Whatever the provider and the bucket do, a call that has looked at the
\* bucket returns: the deadline ends the wait for an execution that hangs.
EveryCallAnswers == \A c \in Calls : pc[c] = "check" ~> pc[c] = "done"

\* The completed executions are the snapshots on offer, and a call waits from the
\* check of what it read until it is done.
Offered == [i \in {k \in Ids : state[k] = "completed"} |-> at[i]]

PhaseOf(point) ==
    CASE point = "idle" -> "free" [] point = "check" -> "reading"
      [] point = "done" -> "replied" [] OTHER -> "waiting"

Phase == [c \in Calls |-> PhaseOf(pc[c])]

Service == INSTANCE SnapshotService WITH
    clock <- now, offered <- Offered, kept <- snapshot, phase <- Phase,
    read <- base, since <- began, reply <- answer

\* The calls, whatever they share and whatever is lost on the way, are the service the
\* tool promises: in particular a call that read a usable snapshot is never refused,
\* the bucket changes only to a snapshot on offer, and a reply once given stands.
KeepsServicePromise == Service!Spec

(***************************************************************************)
(* A claim of the documentation that the code does not keep                *)
(***************************************************************************)

\* README.md:658-662: a snapshot older than a day is refreshed, and "returns no
\* plan if the execution fails or does not complete within 20 seconds".
NoPlanFromStaleSnapshot ==
    \A c \in Calls : Answered(c) => Age(answer[c], began[c]) <= RefreshAfter
==============================================================================
