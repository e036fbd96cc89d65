----------------------------- MODULE Scheduler ------------------------------
(***************************************************************************)
(* The work-stealing scheduler of parlaylib (scheduler.h and               *)
(* work_stealing_deque.h), under one parallel loop: parfor measures the    *)
(* body on the first iterations, splits the rest, and pardo runs one half  *)
(* while the other is offered to thieves.  Then the scheduler shuts down.  *)
(*                                                                         *)
(* Thread 0 is the one that made the scheduler, the others run worker().   *)
(* A task is a range <<start, end>> of the loop, and the job that stands   *)
(* for it when it is offered; a frame of a stack is a parfor_ that is      *)
(* under way.  One action per access to a deque or a counter.  The         *)
(* increment of wake_up_counter and the notification are one step; of the  *)
(* counter only matters whether it has moved since a thread loaded it.     *)
(***************************************************************************)
EXTENDS Integers, Sequences, FiniteSets

CONSTANTS P,   \* num_threads
          N    \* the iterations of the loop

ASSUME ConstantsAssumption == P \in Nat \ {0} /\ N \in Nat \ {0}

Thread == 0..(P - 1)

VARIABLES deq, bot, age,   \* the deques: jobs, the bottom, and a tag with the top
          gran,            \* the granularity of the loop
          conservative,    \* whether a pardo waits without looking for work
          runs,            \* runs[k]: how often iteration k has been run
          done,            \* the jobs that are finished()
          stack,           \* stack[t]: the frames of thread t, the innermost first
          pc,
          reg,             \* reg[t]: what t has loaded from a deque
          num_awake_workers,
          unmoved,         \* those for whom wake_up_counter is as they loaded it
          asleep,          \* those in atomic_wait
          finished_flag, num_finished_workers

deques == <<deq, bot, age>>
loop == <<gran, conservative>>
sleeping == <<num_awake_workers, unmoved, asleep>>
ending == <<finished_flag, num_finished_workers>>
vars == <<deques, loop, runs, done, stack, pc, reg, sleeping, ending>>

Larger(a, b) == IF a > b THEN a ELSE b
Smaller(a, b) == IF a < b THEN a ELSE b

Frame(task, job) == [task |-> task, at |-> "start", job |-> job]
NoReg == [victim |-> 0, age |-> <<0, 0>>, bot |-> 0, job |-> <<0, 0>>, then |-> "run"]

Top(t) == Head(stack[t])
At(t, label) == stack[t] # <<>> /\ Top(t).at = label

(* Not in the middle, to avoid clashes in caches.                          *)
Mid(task) == task[1] + (9 * (task[2] - task[1] + 1)) \div 16

Left(task) == <<task[1], Mid(task)>>
Right(task) == <<Mid(task), task[2]>>

Goto(t, label) == pc' = [pc EXCEPT ![t] = label]
Forget(t) == reg' = [reg EXCEPT ![t] = NoReg]
SetTop(t, label) == stack' = [stack EXCEPT ![t][1].at = label]
Call(t, label, frame) ==
  stack' = [stack EXCEPT ![t] = <<frame, [Top(t) EXCEPT !.at = label]>> \o Tail(@)]

Init ==
  /\ deq = [t \in Thread |-> [j \in 0..N |-> <<0, 0>>]]
  /\ bot = [t \in Thread |-> 0]
  /\ age = [t \in Thread |-> <<0, 0>>]
  /\ gran = 0
  /\ conservative = FALSE
  /\ runs = [k \in 0..(N - 1) |-> 0]
  /\ done = {}
  /\ stack = [t \in Thread |-> <<>>]
  /\ pc = [t \in Thread |-> IF t = 0 THEN "parfor" ELSE "doze"]
  /\ reg = [t \in Thread |-> NoReg]
  /\ num_awake_workers = P
  /\ unmoved = {}
  /\ asleep = {}
  /\ finished_flag = FALSE
  /\ num_finished_workers = 0

-----------------------------------------------------------------------------
(***************************************************************************)
(* parfor and pardo.                                                       *)
(***************************************************************************)
RunRange(from, to) ==
  runs' = [k \in DOMAIN runs |-> IF k \in from..(to - 1) THEN runs[k] + 1 ELSE runs[k]]

(* get_granularity runs 1, 2, 4... iterations until they take long enough. *)
Parfor ==
  /\ pc[0] = "parfor"
  /\ \E e \in 1..N :
       LET sampled == Smaller(2^e - 1, N) IN
       /\ RunRange(0, sampled)
       /\ gran' = Larger(sampled, N \div (128 * P))
       /\ stack' = [stack EXCEPT ![0] = <<Frame(<<sampled, N>>, FALSE)>>]
  /\ conservative' \in BOOLEAN
  /\ Goto(0, "run")
  /\ UNCHANGED <<deques, done, reg, sleeping, ending>>

(* parfor_: a range that is not worth a split.                             *)
Leaf(t) ==
  /\ pc[t] = "run" /\ At(t, "start")
  /\ Top(t).task[2] - Top(t).task[1] <= gran
  /\ RunRange(Top(t).task[1], Top(t).task[2])
  /\ SetTop(t, "end")
  /\ UNCHANGED <<deques, loop, done, pc, reg, sleeping, ending>>

(* pardo, spawn, push_bottom: the job is stored before bot moves.          *)
PushJob(t) ==
  /\ pc[t] = "run" /\ At(t, "start")
  /\ Top(t).task[2] - Top(t).task[1] > gran
  /\ deq' = [deq EXCEPT ![t][bot[t]] = Right(Top(t).task)]
  /\ Goto(t, "push")
  /\ UNCHANGED <<bot, age, loop, runs, done, stack, reg, sleeping, ending>>

PushBot(t) ==
  /\ pc[t] = "push"
  /\ bot' = [bot EXCEPT ![t] = @ + 1]
  /\ Call(t, "left", Frame(Left(Top(t).task), FALSE))
  /\ Goto(t, IF bot[t] = 0 THEN "wake" ELSE "run")
  /\ UNCHANGED <<deq, age, loop, runs, done, reg, sleeping, ending>>

(* A frame ends.  A job that was stolen is done now; the pardo below goes  *)
(* on to its right half, or ends as well.                                  *)
Return(t) ==
  /\ pc[t] = "run" /\ At(t, "end")
  /\ LET rest == Tail(stack[t])
         next == IF rest # <<>> /\ Head(rest).at = "right"
                   THEN [rest EXCEPT ![1].at = "end"] ELSE rest
     IN /\ stack' = [stack EXCEPT ![t] = next]
        /\ Goto(t, IF rest # <<>> /\ Head(rest).at = "left" THEN "pop" ELSE "run")
  /\ done' = IF Top(t).job THEN done \cup {Top(t).task} ELSE done
  /\ UNCHANGED <<deques, loop, runs, reg, sleeping, ending>>

-----------------------------------------------------------------------------
(***************************************************************************)
(* pop_bottom, by the pardo whose left half has returned or by get_job.    *)
(***************************************************************************)

(* pardo has to wait for a thief; get_job has to become one.               *)
NoJob(t) ==
  /\ Forget(t)
  /\ IF At(t, "left") THEN SetTop(t, "wait") /\ Goto(t, "run")
                      ELSE UNCHANGED stack /\ Goto(t, "hunt")

PopEmpty(t) ==
  /\ pc[t] = "pop" /\ bot[t] = 0
  /\ NoJob(t)
  /\ UNCHANGED <<deques, loop, runs, done, sleeping, ending>>

PopBot(t) ==
  /\ pc[t] = "pop" /\ bot[t] # 0
  /\ bot' = [bot EXCEPT ![t] = @ - 1]
  /\ Goto(t, "popage")
  /\ UNCHANGED <<deq, age, loop, runs, done, stack, reg, sleeping, ending>>

(* Mutant: the last job is taken without a compare-and-swap.               *)
PopGreedy(t) ==
  /\ pc[t] = "popage"
  /\ reg' = [reg EXCEPT ![t].age = age[t], ![t].bot = bot[t], ![t].job = deq[t][bot[t]]]
  /\ Goto(t, IF bot[t] >= age[t][2] THEN "got" ELSE "popreset")
  /\ UNCHANGED <<deques, loop, runs, done, stack, sleeping, ending>>

PopAge(t) ==
  /\ pc[t] = "popage"
  /\ reg' = [reg EXCEPT ![t].age = age[t], ![t].bot = bot[t], ![t].job = deq[t][bot[t]]]
  /\ Goto(t, IF bot[t] > age[t][2] THEN "got" ELSE "popreset")
  /\ UNCHANGED <<deques, loop, runs, done, stack, sleeping, ending>>

PopReset(t) ==
  /\ pc[t] = "popreset"
  /\ bot' = [bot EXCEPT ![t] = 0]
  /\ Goto(t, "popcas")
  /\ UNCHANGED <<deq, age, loop, runs, done, stack, reg, sleeping, ending>>

NewAge(t) == <<reg[t].age[1] + 1, 0>>

PopCAS(t) ==
  /\ pc[t] = "popcas"
  /\ IF reg[t].bot = reg[t].age[2] /\ age[t] = reg[t].age
       THEN age' = [age EXCEPT ![t] = NewAge(t)] /\ Goto(t, "got")
       ELSE UNCHANGED age /\ Goto(t, "popstore")
  /\ UNCHANGED <<deq, bot, loop, runs, done, stack, reg, sleeping, ending>>

(* Mutant: top goes back to 0 with the tag it had.                         *)
PopKeepsTag(t) ==
  /\ pc[t] = "popstore"
  /\ age' = [age EXCEPT ![t] = <<reg[t].age[1], 0>>]
  /\ NoJob(t)
  /\ UNCHANGED <<deq, bot, loop, runs, done, sleeping, ending>>

PopStore(t) ==
  /\ pc[t] = "popstore"
  /\ age' = [age EXCEPT ![t] = NewAge(t)]
  /\ NoJob(t)
  /\ UNCHANGED <<deq, bot, loop, runs, done, sleeping, ending>>

(* pardo runs its right half itself, whatever the job; get_job has a job.  *)
Got(t) ==
  /\ pc[t] = "got"
  /\ IF At(t, "left") THEN Call(t, "right", Frame(Right(Top(t).task), FALSE))
     ELSE stack' = [stack EXCEPT ![t] = <<Frame(reg[t].job, TRUE)>> \o @]
  /\ Forget(t)
  /\ Goto(t, "run")
  /\ UNCHANGED <<deques, loop, runs, done, sleeping, ending>>

-----------------------------------------------------------------------------
(***************************************************************************)
(* get_job and steal_job, until break_early() holds: the job of the pardo  *)
(* that waits is finished, or for a worker with nothing to do the          *)
(* scheduler is.                                                           *)
(***************************************************************************)
Idle(t) == t # 0 /\ stack[t] = <<>>
Looking(t) == Idle(t) \/ At(t, "wait")

BreakEarly(t) == IF Idle(t) THEN finished_flag ELSE Right(Top(t).task) \in done

Break(t) ==
  /\ pc[t] \in {"run", "hunt"} /\ Looking(t)
  /\ BreakEarly(t)
  /\ IF Idle(t) THEN UNCHANGED stack /\ Goto(t, "exit")
                ELSE SetTop(t, "end") /\ Goto(t, "run")
  /\ UNCHANGED <<deques, loop, runs, done, reg, sleeping, ending>>

GetJob(t) ==
  /\ pc[t] = "run" /\ Looking(t)
  /\ ~BreakEarly(t)
  /\ Idle(t) \/ ~conservative
  /\ Goto(t, "pop")
  /\ UNCHANGED <<deques, loop, runs, done, stack, reg, sleeping, ending>>

(* try_steal and pop_top: any deque may be the target, one's own as well.  *)
StealAge(t) ==
  /\ pc[t] = "hunt"
  /\ ~BreakEarly(t)
  /\ \E v \in Thread : reg' = [reg EXCEPT ![t].victim = v, ![t].age = age[v]]
  /\ Goto(t, "stealbot")
  /\ UNCHANGED <<deques, loop, runs, done, stack, sleeping, ending>>

StealBot(t) ==
  /\ pc[t] = "stealbot"
  /\ LET b == bot[reg[t].victim] IN
     IF b > reg[t].age[2]
       THEN reg' = [reg EXCEPT ![t].bot = b] /\ Goto(t, "stealjob")
       ELSE Forget(t) /\ Goto(t, "hunt")
  /\ UNCHANGED <<deques, loop, runs, done, stack, sleeping, ending>>

StealJob(t) ==
  /\ pc[t] = "stealjob"
  /\ reg' = [reg EXCEPT ![t].job = deq[reg[t].victim][reg[t].age[2]]]
  /\ Goto(t, "stealcas")
  /\ UNCHANGED <<deques, loop, runs, done, stack, sleeping, ending>>

(* A thief that leaves jobs behind wakes another, whether it got one or    *)
(* not.  A compare_exchange_strong that fails stores the age it found in   *)
(* old_age: either way bot, as loaded before, is compared with the top     *)
(* that the swap met.                                                      *)
StealCAS(t) ==
  /\ pc[t] = "stealcas"
  /\ LET v == reg[t].victim
         top == age[v][2]
         won == age[v] = reg[t].age
         then == IF won THEN "run" ELSE "hunt"
     IN /\ age' = IF won THEN [age EXCEPT ![v][2] = top + 1] ELSE age
        /\ stack' = IF won THEN [stack EXCEPT ![t] = <<Frame(reg[t].job, TRUE)>> \o @]
                           ELSE stack
        /\ reg' = [reg EXCEPT ![t] = [NoReg EXCEPT !.then = then]]
        /\ Goto(t, IF reg[t].bot = top + 1 THEN then ELSE "wake")
  /\ UNCHANGED <<deq, bot, loop, runs, done, sleeping, ending>>

-----------------------------------------------------------------------------
(***************************************************************************)
(* Sleeping and waking.                                                    *)
(***************************************************************************)

(* wake_up_a_worker.                                                       *)
Wake(t) ==
  /\ pc[t] = "wake"
  /\ Goto(t, IF num_awake_workers < P THEN "notify" ELSE reg[t].then)
  /\ UNCHANGED <<deques, loop, runs, done, stack, reg, sleeping, ending>>

Notify(t) ==
  /\ pc[t] = "notify"
  /\ unmoved' = {}
  /\ IF asleep = {} THEN UNCHANGED asleep
     ELSE \E u \in asleep : asleep' = asleep \ {u}
  /\ Goto(t, reg[t].then)
  /\ UNCHANGED <<deques, loop, runs, done, stack, reg, num_awake_workers, ending>>

(* A worker that finds nothing in STEAL_TIMEOUT.                           *)
GiveUp(t) ==
  /\ pc[t] = "hunt" /\ Idle(t) /\ ~finished_flag
  /\ Goto(t, "doze")
  /\ UNCHANGED <<deques, loop, runs, done, stack, reg, sleeping, ending>>

(* wait_for_work: the counter is loaded after num_awake_workers has been   *)
(* lowered, and compared again when the thread goes to sleep.              *)
Doze(t) ==
  /\ pc[t] = "doze"
  /\ num_awake_workers' = num_awake_workers - 1
  /\ Goto(t, "load")
  /\ UNCHANGED <<deques, loop, runs, done, stack, reg, unmoved, asleep, ending>>

LoadCounter(t) ==
  /\ pc[t] = "load"
  /\ unmoved' = unmoved \cup {t}
  /\ Goto(t, "wait")
  /\ UNCHANGED <<deques, loop, runs, done, stack, reg, num_awake_workers, asleep, ending>>

Sleep(t) ==
  /\ pc[t] = "wait"
  /\ asleep' = IF t \in unmoved THEN asleep \cup {t} ELSE asleep
  /\ Goto(t, "asleep")
  /\ UNCHANGED <<deques, loop, runs, done, stack, reg, num_awake_workers, unmoved, ending>>

(* Mutant: a worker that wakes is not counted again.                       *)
AwakeUncounted(t) ==
  /\ pc[t] = "asleep" /\ t \notin asleep
  /\ Goto(t, "run")
  /\ UNCHANGED <<deques, loop, runs, done, stack, reg, sleeping, ending>>

Awake(t) ==
  /\ pc[t] = "asleep" /\ t \notin asleep
  /\ num_awake_workers' = num_awake_workers + 1
  /\ Goto(t, "run")
  /\ UNCHANGED <<deques, loop, runs, done, stack, reg, unmoved, asleep, ending>>

-----------------------------------------------------------------------------
(***************************************************************************)
(* The end of a worker, and shutdown.                                      *)
(***************************************************************************)
Exit(t) ==
  /\ pc[t] = "exit"
  /\ num_finished_workers' = num_finished_workers + 1
  /\ Goto(t, "gone")
  /\ UNCHANGED <<deques, loop, runs, done, stack, reg, sleeping, finished_flag>>

Shutdown ==
  /\ pc[0] = "run" /\ stack[0] = <<>>
  /\ finished_flag' = TRUE
  /\ Goto(0, "spam")
  /\ UNCHANGED <<deques, loop, runs, done, stack, reg, sleeping, num_finished_workers>>

(* Mutant: the sleepers are notified but wake_up_counter is not moved, so  *)
(* that they go back to sleep.                                             *)
WakeAllUnmoved ==
  /\ pc[0] = "spam" /\ num_finished_workers < P - 1
  /\ num_awake_workers < P
  /\ UNCHANGED vars

(* wake_up_all_workers, until every worker has finished.                   *)
WakeAll ==
  /\ pc[0] = "spam" /\ num_finished_workers < P - 1
  /\ num_awake_workers < P
  /\ unmoved' = {}
  /\ asleep' = {}
  /\ UNCHANGED <<deques, loop, runs, done, stack, pc, reg, num_awake_workers, ending>>

Join ==
  /\ pc[0] = "spam" /\ num_finished_workers = P - 1
  /\ Goto(0, "gone")
  /\ UNCHANGED <<deques, loop, runs, done, stack, reg, sleeping, ending>>

Ended ==
  /\ \A t \in Thread : pc[t] = "gone"
  /\ UNCHANGED vars

Main == Parfor \/ Shutdown \/ WakeAll \/ Join

Fork(t) == Leaf(t) \/ PushJob(t) \/ PushBot(t) \/ Return(t) \/ Got(t)
PopBottom(t) == PopEmpty(t) \/ PopBot(t) \/ PopAge(t) \/ PopReset(t) \/ PopCAS(t) \/ PopStore(t)
Steal(t) == Break(t) \/ GetJob(t) \/ StealAge(t) \/ StealBot(t) \/ StealJob(t) \/ StealCAS(t)
Rest(t) == Wake(t) \/ Notify(t) \/ GiveUp(t) \/ Doze(t) \/ LoadCounter(t) \/ Sleep(t)
             \/ Awake(t) \/ Exit(t)

Step(t) == Fork(t) \/ PopBottom(t) \/ Steal(t) \/ Rest(t)

Next == Main \/ (\E t \in Thread : Step(t)) \/ Ended

(* Every thread runs on: none of the steps blocks, but for the sleep.      *)
Spec == Init /\ [][Next]_vars /\ WF_vars(Main) /\ \A t \in Thread : WF_vars(Step(t))

-----------------------------------------------------------------------------
(***************************************************************************)
(* Properties                                                              *)
(***************************************************************************)
Ranges(i, j) == {<<s, e>> \in (i..j) \X (i..j) : s <= e}

(* Every variable stays in its range; in particular a deque never holds    *)
(* more jobs than pardos are nested, so that q_size is not reached, and    *)
(* num_awake_workers, which is unsigned, does not go below zero.           *)
TypeOK ==
  /\ \A t \in Thread : bot[t] \in 0..Len(stack[t]) /\ age[t] \in Nat \X (0..N)
  /\ deq \in [Thread -> [0..N -> Ranges(0, N)]]
  /\ gran \in 0..N /\ conservative \in BOOLEAN
  /\ runs \in [0..(N - 1) -> Nat]
  /\ done \subseteq Ranges(0, N)
  /\ \A t \in Thread : \A j \in DOMAIN stack[t] :
       /\ stack[t][j].task \in Ranges(0, N)
       /\ stack[t][j].at \in {"start", "left", "right", "wait", "end"}
       /\ stack[t][j].job \in BOOLEAN
  /\ num_awake_workers \in 1..P
  /\ unmoved \subseteq Thread /\ asleep \subseteq Thread
  /\ finished_flag \in BOOLEAN /\ num_finished_workers \in 0..(P - 1)

(* No iteration of the loop runs twice, and when a parfor_ returns, to its *)
(* caller or to the pardo that waits for the job, all of its iterations    *)
(* have run, by whomever: the last job of a deque goes to its owner or to  *)
(* one thief, and a pardo does not return before its thief is done.        *)
EachOnce ==
  /\ \A k \in DOMAIN runs : runs[k] <= 1
  /\ \A t \in Thread : \A j \in DOMAIN stack[t] :
       stack[t][j].at = "end" =>
         \A k \in stack[t][j].task[1]..(stack[t][j].task[2] - 1) : runs[k] = 1
  /\ finished_flag => \A k \in DOMAIN runs : runs[k] = 1

(* A job lives in the frame of its pardo: one that a thread is about to    *)
(* run or is running, and one that a deque offers, belongs to a pardo      *)
(* that has not returned; and what a pardo pops after its left half is the *)
(* job it pushed before it (its assert(job == &right_job)).                *)
Offered(t) == {deq[t][k] : k \in age[t][2]..(bot[t] - 1)}
Stolen(t) == {stack[t][j].task : j \in {i \in DOMAIN stack[t] : stack[t][i].job}}
Waiting == UNION {{stack[t][j] : j \in DOMAIN stack[t]} : t \in Thread}
JobsAreAlive ==
  \A t \in Thread :
    /\ \A job \in Offered(t) \cup Stolen(t) :
         /\ job \notin done
         /\ \E f \in Waiting : job = Right(f.task) /\ f.at \in {"left", "wait"}
    /\ pc[t] = "got" /\ At(t, "left") => reg[t].job = Right(Top(t).task)

(* A worker that sleeps through the end of the scheduler is woken: the     *)
(* loop ends, and after it every worker and shutdown().                    *)
Terminates == <>(\A t \in Thread : pc[t] = "gone")
=============================================================================
