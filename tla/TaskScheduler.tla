----------------------------- MODULE TaskScheduler -----------------------------
(***************************************************************************)
(* The scheduled tasks of PyStrategyBase (py_strategy_base.h): a map from  *)
(* method names to tasks, looked through once per turn of the main loop.   *)
(* The tasks that are due are collected under a lock and called outside    *)
(* it.  A task may call poll_messages, which looks through the map again,  *)
(* so the rounds that are not called to the end form a stack.              *)
(***************************************************************************)
EXTENDS Naturals, Sequences, FiniteSets

CONSTANTS
    Tasks,              \* method names, numbers in the order of the map
    Interval,           \* interval_ms of a task
    MaxNow,             \* bound of the model: the clock ends here
    MaxDepth            \* bound of the model: nested rounds

ASSUME TaskAssumption ==
    /\ Tasks \subseteq Nat \ {0}
    /\ Interval \in Nat \ {0} /\ MaxNow \in Nat /\ MaxDepth \in Nat \ {0}

NoTask == 0

VARIABLES
    now,                \* the clock
    tasks,              \* scheduled_tasks_
    rounds,             \* functions_to_call of each nested round, innermost last
    scheduled,          \* history: first run time and calls owed at schedule_task
    started             \* history: times called since schedule_task

taskVars == <<now, tasks, rounds, scheduled, started>>

Unknown == [next |-> 0, on |-> FALSE, kind |-> "none"]
(* What scheduled_tasks_[name] makes of a name that is not there: interval *)
(* 0, enabled, no method name.  Its calls find no method and do nothing.   *)
Ghost == [next |-> 0, on |-> TRUE, kind |-> "ghost"]

TaskInit ==
    /\ now = 0
    /\ tasks = [t \in Tasks |-> Unknown]
    /\ rounds = <<>>
    /\ scheduled = [t \in Tasks |-> [first |-> 0, owed |-> 0]]
    /\ started = [t \in Tasks |-> 0]

Waiting(t) == Cardinality({i \in 1 .. Len(rounds) : t \in rounds[i].waiting})

Tick ==
    /\ now < MaxNow /\ now' = now + 1
    /\ UNCHANGED <<tasks, rounds, scheduled, started>>

(* schedule_task: calculate_first_run_time gives now or a later moment. *)
ScheduleTask(t, first) ==
    /\ first >= now
    /\ tasks' = [tasks EXCEPT ![t] = [next |-> first, on |-> TRUE, kind |-> "task"]]
    /\ scheduled' = [scheduled EXCEPT ![t] = [first |-> first, owed |-> Waiting(t)]]
    /\ started' = [started EXCEPT ![t] = 0]
    /\ UNCHANGED <<now, rounds>>

Known(t) == tasks[t].kind # "none"

UnscheduleTask(t) ==
    /\ Known(t)
    /\ tasks' = [tasks EXCEPT ![t] = Unknown]
    /\ UNCHANGED <<now, rounds, scheduled, started>>

PauseTask(t) ==
    /\ Known(t) /\ tasks[t].on
    /\ tasks' = [tasks EXCEPT ![t].on = FALSE]
    /\ UNCHANGED <<now, rounds, scheduled, started>>

ResumeTask(t) ==
    /\ Known(t) /\ ~ tasks[t].on
    /\ tasks' = [tasks EXCEPT ![t].on = TRUE]
    /\ UNCHANGED <<now, rounds, scheduled, started>>

Due(t) == tasks[t].kind = "task" /\ tasks[t].on /\ now >= tasks[t].next
DueTasks == {t \in Tasks : Due(t)}

Innermost == rounds[Len(rounds)]
(* Strategy code is running: between two rounds, or in a task. *)
InStrategy == rounds # <<>> => Innermost.running # NoTask

NewRound ==
    /\ InStrategy /\ Len(rounds) < MaxDepth
    /\ rounds' = Append(rounds, [waiting |-> DueTasks, running |-> NoTask])
    /\ UNCHANGED <<now, scheduled, started>>

(* Mutant: the next run time is left to the end of the task. *)
CollectOnly == NewRound /\ UNCHANGED tasks

(* process_scheduled_tasks, the part under the lock, called by the loop or *)
(* by poll_messages in a task.                                             *)
CollectDue ==
    /\ NewRound
    /\ tasks' = [t \in Tasks |->
                   IF Due(t) THEN [tasks[t] EXCEPT !.next = now + Interval] ELSE tasks[t]]

(* The waiting task that comes first is called, even if it was unscheduled *)
(* or paused while it waited.                                              *)
StartTask(t) ==
    /\ rounds # <<>> /\ Innermost.running = NoTask
    /\ t \in Innermost.waiting /\ \A u \in Innermost.waiting : t =< u
    /\ rounds' = [rounds EXCEPT ![Len(rounds)] =
                    [waiting |-> Innermost.waiting \ {t}, running |-> t]]
    /\ tasks' = IF Known(t) THEN tasks ELSE [tasks EXCEPT ![t] = Ghost]
    /\ started' = [started EXCEPT ![t] = started[t] + 1]
    /\ UNCHANGED <<now, scheduled>>

EndTask ==
    /\ rounds # <<>> /\ Innermost.running # NoTask
    /\ rounds' = [rounds EXCEPT ![Len(rounds)].running = NoTask]
    /\ UNCHANGED <<now, tasks, scheduled, started>>

(* Mutant: a task that throws ends the round. *)
LeaveRound ==
    /\ rounds # <<>> /\ Innermost.running = NoTask
    /\ rounds' = SubSeq(rounds, 1, Len(rounds) - 1)
    /\ UNCHANGED <<now, tasks, scheduled, started>>

EndRound ==
    /\ rounds # <<>> /\ Innermost.running = NoTask /\ Innermost.waiting = {}
    /\ rounds' = SubSeq(rounds, 1, Len(rounds) - 1)
    /\ UNCHANGED <<now, tasks, scheduled, started>>

StrategyCalls ==
    /\ InStrategy
    /\ \E t \in Tasks :
          \/ \E first \in now .. MaxNow : ScheduleTask(t, first)
          \/ UnscheduleTask(t) \/ PauseTask(t) \/ ResumeTask(t)

Round == CollectDue \/ (\E t \in Tasks : StartTask(t)) \/ EndRound

TaskNext == Tick \/ StrategyCalls \/ Round \/ EndTask

(* The loop goes on, and every call of a task's method returns in the end. *)
TaskFairness ==
    /\ WF_taskVars(Round)
    /\ \A d \in 1 .. MaxDepth : SF_taskVars(EndTask /\ Len(rounds) = d)

TaskSpec == TaskInit /\ [][TaskNext]_taskVars /\ TaskFairness

-----------------------------------------------------------------------------
(* A task is not called more often than its interval allows: at most once  *)
(* per interval since its first run time, however deep poll_messages nests *)
(* and whatever is paused, unscheduled or scheduled again meanwhile; calls *)
(* that were waiting when it was scheduled come on top.                    *)
NotTooOften ==
    \A t \in Tasks :
        started[t] > scheduled[t].owed =>
            scheduled[t].first + (started[t] - scheduled[t].owed - 1) * Interval =< now

(* A task that was collected is called, even if another task of its round  *)
(* fails, polls, or is unscheduled.                                        *)
CollectedIsCalled ==
    \A t \in Tasks : Waiting(t) > 0 ~> rounds # <<>> /\ Innermost.running = t

=============================================================================
