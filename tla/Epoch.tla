------------------------------- MODULE Epoch --------------------------------
(***************************************************************************)
(* Epoch-based reclamation (epoch.h): with_epoch, and a memory_pool with   *)
(* New, Retire and clear, in the configuration the repository builds       *)
(* (USE_STEPPING, no USE_UNDO).                                            *)
(*                                                                         *)
(* A thread inside with_epoch may use whatever was linked into a shared    *)
(* structure at any time since it entered; Retire takes an object that was *)
(* unlinked and must not let it be destructed while such a thread is still *)
(* inside.  One action per access to a shared variable; the pool of a      *)
(* thread is private to it, so what it does there rides along.             *)
(*                                                                         *)
(* Worker ids are the threads themselves, numbered in the order in which   *)
(* they asked for one, and num_workers() counts those that did.            *)
(***************************************************************************)
EXTENDS Integers

CONSTANTS N,                \* how many threads there will be
          Object,           \* the objects that are followed
          UpdateThreshold,  \* retires between two attempts (10 in the code)
          NumSteps,         \* slots swept per attempt (8 in the code)
          MaxDepth,         \* how deep with_epoch may be nested
          MaxEpoch,         \* bound: no Retire starts at this epoch
          MaxClearEpoch     \* bound: no clear starts at this epoch

Thread == 0..(N - 1)

ASSUME ConstantsAssumption ==
  /\ N \in Nat \ {0}
  /\ UpdateThreshold \in Nat \ {0}
  /\ NumSteps \in Nat \ {0}
  /\ MaxDepth \in Nat \ {0}
  /\ MaxEpoch \in Nat
  /\ MaxClearEpoch \in Nat

VARIABLES workers,        \* num_workers()
          current_epoch,
          announcements,  \* announcements[t]: the slot of t, -1 when outside
          epoch_state,    \* how far the sweep of which epoch has got
          place,          \* place[x]: the structure or list object x is in
          epoch,          \* epoch[t]: pid.epoch of the pool of t
          retire_count,   \* retire_count[t]: pid.retire_count
          e_state,        \* e_state[t]: pid.e_state
          pc,             \* pc[t]: the next shared access of t
          depth,          \* depth[t]: how many with_epoch t is inside
          reach,          \* reach[t]: what t may still be using
          seen,           \* seen[t]: the epoch announce loaded
          st, n, j        \* locals of update_epoch_steps

pool == <<epoch, retire_count, e_state>>
locals == <<seen, st, n, j>>
vars == <<workers, current_epoch, announcements, epoch_state, place, pool, pc,
          depth, reach, locals>>

State(i, e) == [i |-> i, e |-> e]

In(where, t) == [at |-> where, by |-> t]

Free == In("free", 0)
Linked == In("linked", 0)

All(where, t) == {x \in Object : place[x] = In(where, t)}

Inside(t) == depth[t] > 0

(* A call is about one of the objects that are followed, or about another. *)
AtMostOne == {{}} \cup {{x} : x \in Object}

Goto(t, label) == pc' = [pc EXCEPT ![t] = label]

Init ==
  /\ workers = 0
  /\ current_epoch = 0
  /\ announcements = [t \in Thread |-> -1]
  /\ epoch_state = State(0, 0)
  /\ place = [x \in Object |-> Free]
  /\ epoch = [t \in Thread |-> 0]
  /\ retire_count = [t \in Thread |-> 0]
  /\ e_state = [t \in Thread |-> State(0, 0)]
  /\ pc = [t \in Thread |-> "ready"]
  /\ depth = [t \in Thread |-> 0]
  /\ reach = [t \in Thread |-> {}]
  /\ seen = [t \in Thread |-> 0]
  /\ st = [t \in Thread |-> State(0, 0)]
  /\ n = [t \in Thread |-> 0]
  /\ j = [t \in Thread |-> 0]

(* The first use of worker_id() gives a thread the next id.                *)
Start(t) ==
  /\ workers = t
  /\ workers' = workers + 1
  /\ UNCHANGED <<current_epoch, announcements, epoch_state, place, pool, pc,
                 depth, reach, locals>>

-----------------------------------------------------------------------------
(* with_epoch: announce, run, unannounce.                                  *)
Announce(t) ==
  /\ seen' = [seen EXCEPT ![t] = current_epoch]
  /\ Goto(t, "exchange")
  /\ UNCHANGED <<workers, current_epoch, announcements, epoch_state, place, pool,
                 depth, reach, st, n, j>>

Enter(t) ==
  /\ t < workers
  /\ depth[t] < MaxDepth
  /\ pc[t] = "ready"
  /\ Announce(t)

AnnounceExchange(t) ==
  /\ pc[t] = "exchange"
  /\ announcements' = [announcements EXCEPT ![t] = seen[t]]
  /\ Goto(t, "check")
  /\ UNCHANGED <<workers, current_epoch, epoch_state, place, pool, depth, reach, locals>>

(* Mutant: the epoch is not looked at again after the announcement.        *)
AnnounceUnchecked(t) ==
  /\ pc[t] = "check"
  /\ depth' = [depth EXCEPT ![t] = @ + 1]
  /\ reach' = [reach EXCEPT ![t] = @ \cup {x \in Object : place[x] = Linked}]
  /\ seen' = [seen EXCEPT ![t] = 0]
  /\ Goto(t, "ready")
  /\ UNCHANGED <<workers, current_epoch, announcements, epoch_state, place, pool, st, n, j>>

(* The announcement counts only if the epoch has not moved meanwhile.      *)
AnnounceCheck(t) ==
  /\ pc[t] = "check"
  /\ current_epoch = seen[t]
  /\ depth' = [depth EXCEPT ![t] = @ + 1]
  /\ reach' = [reach EXCEPT ![t] = @ \cup {x \in Object : place[x] = Linked}]
  /\ seen' = [seen EXCEPT ![t] = 0]
  /\ Goto(t, "ready")
  /\ UNCHANGED <<workers, current_epoch, announcements, epoch_state, place, pool, st, n, j>>

AnnounceFails(t) ==
  /\ pc[t] = "check"
  /\ current_epoch # seen[t]
  /\ Goto(t, "announce")
  /\ UNCHANGED <<workers, current_epoch, announcements, epoch_state, place, pool,
                 depth, reach, locals>>

AnnounceRetry(t) == pc[t] = "announce" /\ Announce(t)

(* unannounce: what was reached inside this with_epoch may not be used any *)
(* more, but an enclosing with_epoch goes on.                              *)
Leave(t) ==
  /\ pc[t] = "ready"
  /\ Inside(t)
  /\ announcements' = [announcements EXCEPT ![t] = -1]
  /\ depth' = [depth EXCEPT ![t] = @ - 1]
  /\ reach' = [reach EXCEPT ![t] = IF depth[t] = 1 THEN {} ELSE @]
  /\ UNCHANGED <<workers, current_epoch, epoch_state, place, pool, pc, locals>>

-----------------------------------------------------------------------------
(* New takes an object from the reserve of t, or else allocates one; the   *)
(* client links it, and every thread inside may come across it.            *)
New(t, x) ==
  /\ t < workers
  /\ pc[t] = "ready"
  /\ IF All("reserve", t) # {} THEN x \in All("reserve", t) ELSE place[x] = Free
  /\ place' = [place EXCEPT ![x] = Linked]
  /\ reach' = [s \in Thread |-> IF Inside(s) THEN reach[s] \cup {x} ELSE reach[s]]
  /\ UNCHANGED <<workers, current_epoch, announcements, epoch_state, pool, pc, depth,
                 locals>>

-----------------------------------------------------------------------------
(* Retire of an object the client has just unlinked, followed or not.  A   *)
(* reserve that is too long, counting objects that are not followed, loses *)
(* its first object.                                                       *)
Retire(t, unlinked, dropped) ==
  /\ t < workers
  /\ current_epoch < MaxEpoch
  /\ pc[t] = "ready"
  /\ \A x \in unlinked : place[x] = Linked
  /\ \A x \in dropped : place[x] = In("reserve", t)
  /\ place' = [x \in Object |-> IF x \in unlinked THEN In("leaving", t)
                               ELSE IF x \in dropped THEN Free ELSE place[x]]
  /\ Goto(t, "advance")
  /\ UNCHANGED <<workers, current_epoch, announcements, epoch_state, pool, depth, reach,
                 locals>>

(* The retired object goes to the list of the current epoch.               *)
Push(t) ==
  /\ place' = [x \in Object |->
                 IF place[x] = In("leaving", t) THEN In("current", t) ELSE place[x]]
  /\ Goto(t, "ready")

(* advance_epoch counts the retire and now and then works on the epoch.    *)
Count(t) ==
  IF retire_count[t] + 1 = UpdateThreshold
    THEN /\ retire_count' = [retire_count EXCEPT ![t] = 0]
         /\ Goto(t, "update")
         /\ UNCHANGED place
    ELSE /\ retire_count' = [retire_count EXCEPT ![t] = @ + 1]
         /\ Push(t)

(* Mutant: the old list is emptied after the current one has been put there. *)
OlderAtOnce(where) == "reserve"

Older(where) == IF where = "current" THEN "old" ELSE "reserve"

(* Two epochs have passed since the lists of t were last moved along.      *)
MayAdvance(t) == epoch[t] + 1 < current_epoch

AdvanceLists(t) ==
  /\ pc[t] = "advance"
  /\ MayAdvance(t)
  /\ place' = [x \in Object |->
                 IF place[x] \in {In("current", t), In("old", t)}
                   THEN In(Older(place[x].at), t) ELSE place[x]]
  /\ Goto(t, "epoch")
  /\ UNCHANGED <<workers, current_epoch, announcements, epoch_state, pool, depth, reach,
                 locals>>

(* pid.epoch is set from a second load of the current epoch.               *)
AdvanceEpoch(t) ==
  /\ pc[t] = "epoch"
  /\ epoch' = [epoch EXCEPT ![t] = current_epoch]
  /\ Count(t)
  /\ UNCHANGED <<workers, current_epoch, announcements, epoch_state, e_state, depth,
                 reach, locals>>

AdvanceNot(t) ==
  /\ pc[t] = "advance"
  /\ ~MayAdvance(t)
  /\ Count(t)
  /\ UNCHANGED <<workers, current_epoch, announcements, epoch_state, epoch, e_state,
                 depth, reach, locals>>

-----------------------------------------------------------------------------
(* update_epoch_steps: look at the next few slots, or take the epoch on.   *)
unmoved == <<workers, announcements, epoch, retire_count, depth, reach, seen>>
(* Mutant: the state of the sweep is not remembered for the next attempt.  *)
UpdateForgets(t, state) ==
  /\ st' = [st EXCEPT ![t] = State(0, 0)]
  /\ n' = [n EXCEPT ![t] = 0]
  /\ j' = [j EXCEPT ![t] = 0]
  /\ Push(t)
  /\ UNCHANGED e_state

UpdateReturns(t, state) ==
  /\ e_state' = [e_state EXCEPT ![t] = state]
  /\ st' = [st EXCEPT ![t] = State(0, 0)]
  /\ n' = [n EXCEPT ![t] = 0]
  /\ j' = [j EXCEPT ![t] = 0]
  /\ Push(t)

UpdateLoad(t) ==
  /\ pc[t] = "update"
  /\ IF e_state[t] # epoch_state
       THEN UpdateReturns(t, epoch_state)
       ELSE /\ st' = [st EXCEPT ![t] = epoch_state]
            /\ j' = [j EXCEPT ![t] = epoch_state.i]
            /\ Goto(t, "workers")
            /\ UNCHANGED <<place, e_state, n>>
  /\ UNCHANGED <<current_epoch, epoch_state, unmoved>>

UpdateWorkers(t) ==
  /\ pc[t] = "workers"
  /\ n' = [n EXCEPT ![t] = workers]
  /\ Goto(t, IF st[t].i = workers THEN "current" ELSE "slot")
  /\ UNCHANGED <<current_epoch, epoch_state, place, e_state, st, j, unmoved>>

UpdateCurrent(t) ==
  /\ pc[t] = "current"
  /\ Goto(t, IF current_epoch = st[t].e THEN "increment" ELSE "restart")
  /\ UNCHANGED <<current_epoch, epoch_state, place, e_state, st, n, j, unmoved>>

UpdateIncrement(t) ==
  /\ pc[t] = "increment"
  /\ current_epoch' = IF current_epoch = st[t].e THEN st[t].e + 1 ELSE current_epoch
  /\ Goto(t, "restart")
  /\ UNCHANGED <<epoch_state, place, e_state, st, n, j, unmoved>>

UpdateRestart(t) ==
  /\ pc[t] = "restart"
  /\ epoch_state' = IF epoch_state = st[t] THEN State(0, st[t].e + 1) ELSE epoch_state
  /\ Goto(t, "reload")
  /\ UNCHANGED <<current_epoch, place, e_state, st, n, j, unmoved>>

UpdateReload(t) ==
  /\ pc[t] = "reload"
  /\ UpdateReturns(t, epoch_state)
  /\ UNCHANGED <<current_epoch, epoch_state, unmoved>>

MoreSlots(t) == j[t] < st[t].i + NumSteps /\ j[t] < n[t]

NextSlot(t) == j' = [j EXCEPT ![t] = @ + 1] /\ Goto(t, "slot")

(* A slot is loaded twice: is anyone there, and is the epoch too old?      *)
SweepEmpty(t) ==
  /\ pc[t] = "slot"
  /\ MoreSlots(t)
  /\ IF announcements[j[t]] = -1
       THEN NextSlot(t)
       ELSE Goto(t, "slot_epoch") /\ UNCHANGED j
  /\ UNCHANGED <<current_epoch, epoch_state, place, e_state, st, n, unmoved>>

(* Mutant: the announcement is compared with the wrong epoch.              *)
SlotIsNewer(t) == announcements[j[t]] # -1 /\ announcements[j[t]] > st[t].e

(* The comparison is unsigned, so a slot emptied meanwhile counts as new.  *)
SlotIsOld(t) == announcements[j[t]] # -1 /\ announcements[j[t]] < st[t].e

SweepEpoch(t) ==
  /\ pc[t] = "slot_epoch"
  /\ IF SlotIsOld(t)
       THEN UpdateReturns(t, st[t])
       ELSE NextSlot(t) /\ UNCHANGED <<place, e_state, st, n>>
  /\ UNCHANGED <<current_epoch, epoch_state, unmoved>>

SweepDone(t) ==
  /\ pc[t] = "slot"
  /\ ~MoreSlots(t)
  /\ IF epoch_state = st[t]
       THEN /\ epoch_state' = State(j[t], st[t].e)
            /\ UpdateReturns(t, State(j[t], st[t].e))
       ELSE /\ UpdateReturns(t, epoch_state)
            /\ UNCHANGED epoch_state
  /\ UNCHANGED <<current_epoch, unmoved>>

-----------------------------------------------------------------------------
(* clear, at a quiescent point: a full sweep finds every slot empty and    *)
(* takes the epoch on; then all the lists are destructed.                  *)
Clear ==
  /\ \A t \in Thread : pc[t] = "ready" /\ depth[t] = 0
  /\ current_epoch < MaxClearEpoch
  /\ workers > 0
  /\ current_epoch' = current_epoch + 1
  /\ place' = [x \in Object |->
                 IF place[x].at \in {"old", "current", "reserve"} THEN Free ELSE place[x]]
  /\ UNCHANGED <<workers, announcements, epoch_state, pool, pc, depth, reach, locals>>

(* What a thread does once a call is under way.                            *)
Step(t) ==
  \/ AnnounceExchange(t)
  \/ AnnounceCheck(t)
  \/ AnnounceFails(t)
  \/ AnnounceRetry(t)
  \/ AdvanceLists(t)
  \/ AdvanceEpoch(t)
  \/ AdvanceNot(t)
  \/ UpdateLoad(t)
  \/ UpdateWorkers(t)
  \/ UpdateCurrent(t)
  \/ UpdateIncrement(t)
  \/ UpdateRestart(t)
  \/ UpdateReload(t)
  \/ SweepEmpty(t)
  \/ SweepEpoch(t)
  \/ SweepDone(t)

(* What the client may ask for.                                            *)
Ask(t) ==
  \/ Start(t)
  \/ Enter(t)
  \/ Leave(t)
  \/ \E x \in Object : New(t, x)
  \/ \E unlinked, dropped \in AtMostOne : Retire(t, unlinked, dropped)

Next == Clear \/ \E t \in Thread : Ask(t) \/ Step(t)

Spec == Init /\ [][Next]_vars

(* The operating system runs every thread now and then, no with_epoch runs *)
(* for ever, and every thread of the client retires objects again and      *)
(* again, as long as the bound lets it.                                    *)
FairSpec ==
  /\ Spec
  /\ \A t \in Thread :
       /\ WF_vars(Start(t) \/ Step(t))
       /\ []<>(depth[t] = 0)
       /\ []<>(pc[t] = "advance" \/ current_epoch >= MaxEpoch)

-----------------------------------------------------------------------------
Labels ==
  {"ready", "announce", "exchange", "check", "advance", "epoch", "update",
   "workers", "current", "increment", "restart", "reload", "slot", "slot_epoch"}

States == [i : Nat, e : Nat]

Places ==
  [at : {"free", "linked", "leaving", "current", "old", "reserve"}, by : Thread]

(* Every variable has the type of the C++ field it stands for.             *)
TypeOK ==
  /\ workers \in 0..N
  /\ current_epoch \in Nat
  /\ announcements \in [Thread -> Nat \cup {-1}]
  /\ epoch_state \in States
  /\ place \in [Object -> Places]
  /\ epoch \in [Thread -> Nat]
  /\ retire_count \in [Thread -> 0..(UpdateThreshold - 1)]
  /\ e_state \in [Thread -> States]
  /\ pc \in [Thread -> Labels]
  /\ depth \in [Thread -> 0..MaxDepth]
  /\ reach \in [Thread -> SUBSET Object]
  /\ seen \in [Thread -> Nat]
  /\ st \in [Thread -> States]
  /\ n \in [Thread -> Nat]
  /\ j \in [Thread -> Nat]

(* Retire delays destruction, and reuse, until no operation that was in a  *)
(* with_epoch when it was called is still within that with_epoch: nothing  *)
(* a thread inside may be using is free or in a reserve, where New finds it.*)
RetireWaits ==
  \A t \in Thread : \A x \in reach[t] : place[x].at \notin {"reserve", "free"}

(* The epoch moves one at a time, and only when every thread inside a      *)
(* with_epoch has announced the epoch that is being left.                  *)
EpochStep ==
  current_epoch' # current_epoch =>
    /\ current_epoch' = current_epoch + 1
    /\ \A t \in Thread : Inside(t) => announcements[t] = current_epoch

(* Every step of update_epoch_steps and of clear keeps to that.            *)
EpochDiscipline == [][EpochStep]_vars

(* As long as objects are being retired the epoch moves on, so that what   *)
(* is retired can be reclaimed: attempts that find the sweep moved by      *)
(* someone else, or a slot too old, do not starve each other.  It moves    *)
(* one at a time (EpochDiscipline), so it never stops before the bound.    *)
EpochAdvances == <>(current_epoch >= MaxEpoch)

-----------------------------------------------------------------------------
(* Every thread inside below slot i has announced epoch e or a later one.  *)
Checked(i, e) == \A t \in Thread : Inside(t) /\ t < i => announcements[t] >= e

(* What announce establishes.                                              *)
AnnounceInv(t) ==
  /\ t >= workers => pc[t] = "ready" /\ depth[t] = 0
  /\ pc[t] \in {"announce", "exchange", "check"} => depth[t] = 0
  /\ pc[t] \in {"exchange", "check"} => seen[t] <= current_epoch
  /\ pc[t] = "check" => announcements[t] = seen[t]
  /\ Inside(t) => /\ announcements[t] \in 0..current_epoch
                  /\ current_epoch <= announcements[t] + 1
  /\ ~Inside(t) => reach[t] = {}

(* What update_epoch_steps knows from the slots it has looked at.          *)
SweepInv(s) ==
  /\ pc[s] \in {"workers", "slot", "slot_epoch", "current", "increment"} =>
       st[s].e <= current_epoch /\ Checked(j[s], st[s].e)
  /\ pc[s] = "workers" => j[s] = st[s].i
  /\ pc[s] \in {"slot", "slot_epoch"} => n[s] <= workers
  /\ pc[s] = "slot_epoch" => j[s] < n[s]
  /\ pc[s] \in {"current", "increment"} => Checked(N, st[s].e)
  /\ pc[s] = "restart" => st[s].e < current_epoch

(* What the lists of s know of an object that thread t may be using.       *)
ListInv(s, t, x) ==
  /\ place[x] = In("current", s) => announcements[t] <= epoch[s] + 1
  /\ place[x] = In("old", s) /\ pc[s] # "epoch" => announcements[t] < epoch[s]
  /\ place[x] = In("old", s) /\ pc[s] = "epoch" => announcements[t] <= epoch[s] + 1
  /\ place[x] = In("leaving", s) /\ pc[s] \notin {"advance", "epoch"} =>
       announcements[t] <= epoch[s] + 1

(* The inductive invariant behind the two properties above: a thread       *)
(* inside holds the epoch at most one ahead of it, while an object it uses *)
(* needs two more epochs to pass from a list to the next.                  *)
EpochInv ==
  /\ RetireWaits
  /\ epoch_state.e <= current_epoch
  /\ Checked(epoch_state.i, epoch_state.e)
  /\ \A t \in Thread : AnnounceInv(t) /\ SweepInv(t)
  /\ \A s \in Thread : /\ epoch[s] <= current_epoch
                       /\ pc[s] = "epoch" => epoch[s] + 1 < current_epoch
  /\ \A s, t \in Thread : \A x \in reach[t] : ListInv(s, t, x)
=============================================================================
