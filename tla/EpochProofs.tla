-------------------------- MODULE EpochProofs -------------------------------
(***************************************************************************)
(* Proofs about the epoch collector, for any number of threads and objects:*)
(* nothing retired is reused under a thread that may still be using it.    *)
(***************************************************************************)
EXTENDS Epoch, TLAPS

-----------------------------------------------------------------------------
(***************************************************************************)
(* Type correctness of the epoch collector, and the parts of its invariant *)
(* that the same few arguments carry through most of the actions.          *)
(***************************************************************************)

(* The domains and ranges the steps below keep to.                         *)
LEMMA Places1 ==
  ASSUME NEW t \in Thread, NEW w \in {"free", "linked", "leaving", "current", "old", "reserve"}
  PROVE  In(w, t) \in Places
BY Zenon DEF In, Places

(* A place in a list, taken apart.                                         *)
LEMMA InFields ==
  /\ \A v, s : In(v, s).at = v /\ In(v, s).by = s
  /\ \A v, w, s, t : In(v, s) = In(w, t) => v = w /\ s = t
<1>1. \A v, s : In(v, s).at = v /\ In(v, s).by = s
  BY Zenon DEF In
<1> QED
  BY <1>1

(* Free and linked are places too.                                         *)
LEMMA FreeLinked == Free \in Places /\ Linked \in Places
<1>1. 0 \in Thread
  BY ConstantsAssumption DEF Thread
<1> QED
  BY <1>1, Places1, Zenon DEF Free, Linked

(* The state of a sweep, taken apart.                                      *)
LEMMA StatesOf ==
  ASSUME NEW i \in Nat, NEW e \in Nat
  PROVE  State(i, e) \in States /\ State(i, e).i = i /\ State(i, e).e = e
BY Zenon DEF State, States

(* The types hold at the start.                                            *)
LEMMA InitType == Init => TypeOK
<1> SUFFICES ASSUME Init PROVE TypeOK
  BY Zenon
<1>1. 0 \in Nat /\ State(0, 0) \in States
  BY StatesOf, Zenon
<1>2. "ready" \in Labels
  BY Zenon DEF Labels
<1>3. 0 \in 0..(UpdateThreshold - 1) /\ 0 \in 0..MaxDepth /\ 0 \in 0..N
  BY ConstantsAssumption
<1>4. /\ workers \in 0..N
      /\ current_epoch \in Nat
      /\ announcements \in [Thread -> Nat \cup {-1}]
      /\ epoch_state \in States
      /\ place \in [Object -> Places]
  BY <1>1, <1>3, FreeLinked, Zenon DEF Init
<1>5. /\ epoch \in [Thread -> Nat]
      /\ retire_count \in [Thread -> 0..(UpdateThreshold - 1)]
      /\ e_state \in [Thread -> States]
      /\ pc \in [Thread -> Labels]
      /\ depth \in [Thread -> 0..MaxDepth]
  BY <1>1, <1>2, <1>3, Zenon DEF Init
<1>6. /\ reach \in [Thread -> SUBSET Object]
      /\ seen \in [Thread -> Nat]
      /\ st \in [Thread -> States]
      /\ n \in [Thread -> Nat]
      /\ j \in [Thread -> Nat]
  BY <1>1, Zenon DEF Init
<1> QED
  BY <1>4, <1>5, <1>6, Zenon DEF TypeOK

(* The retired object joins the current list of t, the call is over.       *)
LEMMA PushType ==
  ASSUME TypeOK, NEW t \in Thread, Push(t)
  PROVE  place' \in [Object -> Places] /\ pc' \in [Thread -> Labels]
<1>1. In("current", t) \in Places
  BY Places1, Zenon
<1>2. place' \in [Object -> Places]
  BY <1>1, Zenon DEF Push, TypeOK
<1>3. pc' \in [Thread -> Labels]
  BY Zenon DEF Push, Goto, TypeOK, Labels
<1> QED
  BY <1>2, <1>3, Zenon

(* Retire counts, and may go on to update the epoch.                       *)
LEMMA CountType ==
  ASSUME TypeOK, NEW t \in Thread, Count(t)
  PROVE  /\ place' \in [Object -> Places]
         /\ pc' \in [Thread -> Labels]
         /\ retire_count' \in [Thread -> 0..(UpdateThreshold - 1)]
<1>1. CASE retire_count[t] + 1 = UpdateThreshold
  <2>1. /\ retire_count' = [retire_count EXCEPT ![t] = 0]
        /\ Goto(t, "update")
        /\ UNCHANGED place
    BY <1>1, Zenon DEF Count
  <2>2. 0 \in 0..(UpdateThreshold - 1)
    BY ConstantsAssumption
  <2>3. pc' \in [Thread -> Labels]
    BY <2>1, Zenon DEF Goto, TypeOK, Labels
  <2> QED
    BY <2>1, <2>2, <2>3, Zenon DEF TypeOK
<1>2. CASE retire_count[t] + 1 # UpdateThreshold
  <2>1. /\ retire_count' = [retire_count EXCEPT ![t] = @ + 1]
        /\ Push(t)
    BY <1>2, Zenon DEF Count
  <2>2. retire_count[t] + 1 \in 0..(UpdateThreshold - 1)
    BY <1>2, ConstantsAssumption DEF TypeOK
  <2> QED
    BY <2>1, <2>2, PushType, Zenon DEF TypeOK
<1> QED
  BY <1>1, <1>2, Zenon

(* The end of update_epoch.                                                *)
LEMMA UpdateReturnsType ==
  ASSUME TypeOK, NEW t \in Thread, NEW s \in States, UpdateReturns(t, s)
  PROVE  /\ place' \in [Object -> Places]
         /\ pc' \in [Thread -> Labels]
         /\ e_state' \in [Thread -> States]
         /\ st' \in [Thread -> States]
         /\ n' \in [Thread -> Nat]
         /\ j' \in [Thread -> Nat]
<1>1. State(0, 0) \in States /\ 0 \in Nat
  BY StatesOf, Zenon
<1>2. place' \in [Object -> Places] /\ pc' \in [Thread -> Labels]
  BY PushType, Zenon DEF UpdateReturns
<1> QED
  BY <1>1, <1>2, Zenon DEF UpdateReturns, TypeOK

-----------------------------------------------------------------------------
(* with_epoch, New, Retire and clear keep every variable in its type.      *)
LEMMA AskType ==
  ASSUME TypeOK, NEW t \in Thread, Ask(t)
  PROVE  TypeOK'
<1>0. "ready" \in Labels /\ "exchange" \in Labels /\ "advance" \in Labels
  BY Zenon DEF Labels
<1>1. CASE Start(t)
  <2>1. workers' \in 0..N
    BY <1>1, ConstantsAssumption DEF Start, TypeOK, Thread
  <2> QED
    BY <1>1, <2>1, Zenon DEF Start, pool, locals, TypeOK
<1>2. CASE Enter(t)
  <2>1. seen' \in [Thread -> Nat] /\ pc' \in [Thread -> Labels]
    BY <1>0, <1>2, Zenon DEF Enter, Announce, Goto, TypeOK
  <2> QED
    BY <1>2, <2>1, Zenon DEF Enter, Announce, pool, TypeOK
<1>3. CASE Leave(t)
  <2>1. -1 \in Nat \cup {-1}
    BY Zenon
  <2>2. announcements' \in [Thread -> Nat \cup {-1}]
    BY <1>3, <2>1, Zenon DEF Leave, TypeOK
  <2>3. depth[t] - 1 \in 0..MaxDepth
    BY <1>3, ConstantsAssumption DEF Leave, Inside, TypeOK
  <2>4. depth' \in [Thread -> 0..MaxDepth]
    BY <1>3, <2>3, Zenon DEF Leave, TypeOK
  <2>5. reach' \in [Thread -> SUBSET Object]
    BY <1>3, Zenon DEF Leave, TypeOK
  <2> QED
    BY <1>3, <2>2, <2>4, <2>5, Zenon DEF Leave, pool, locals, TypeOK
<1>4. ASSUME NEW x \in Object, New(t, x)
      PROVE  TypeOK'
  <2>1. place' \in [Object -> Places]
    BY <1>4, FreeLinked, Zenon DEF New, TypeOK
  <2>2. reach' \in [Thread -> SUBSET Object]
    BY <1>4, Zenon DEF New, TypeOK
  <2> QED
    BY <1>4, <2>1, <2>2, Zenon DEF New, pool, locals, TypeOK
<1>5. ASSUME NEW unlinked \in AtMostOne, NEW dropped \in AtMostOne,
             Retire(t, unlinked, dropped)
      PROVE  TypeOK'
  <2>1. In("leaving", t) \in Places
    BY Places1, Zenon
  <2>2. place' \in [Object -> Places]
    BY <1>5, <2>1, FreeLinked, Zenon DEF Retire, TypeOK
  <2>3. pc' \in [Thread -> Labels]
    BY <1>0, <1>5, Zenon DEF Retire, Goto, TypeOK
  <2> QED
    BY <1>5, <2>2, <2>3, Zenon DEF Retire, pool, locals, TypeOK
<1> QED
  BY <1>1, <1>2, <1>3, <1>4, <1>5, Zenon DEF Ask

(* clear empties the lists of all threads.                                 *)
LEMMA ClearType ==
  ASSUME TypeOK, Clear
  PROVE  TypeOK'
<1>1. place' \in [Object -> Places]
  BY FreeLinked, Zenon DEF Clear, TypeOK
<1>2. current_epoch' \in Nat
  BY DEF Clear, TypeOK
<1> QED
  BY <1>1, <1>2, Zenon DEF Clear, pool, locals, TypeOK

(* A thread that is announcing has room for one more with_epoch.           *)
DepthOK ==
  \A t \in Thread : pc[t] \in {"announce", "exchange", "check"} => depth[t] < MaxDepth

(* So do the steps of announce.                                            *)
LEMMA AnnounceType ==
  ASSUME TypeOK, DepthOK, NEW t \in Thread,
         \/ AnnounceExchange(t)
         \/ AnnounceCheck(t)
         \/ AnnounceFails(t)
         \/ AnnounceRetry(t)
  PROVE  TypeOK'
<1>0. {"ready", "announce", "exchange", "check"} \subseteq Labels
  BY Zenon DEF Labels
<1>1. CASE AnnounceExchange(t)
  <2>1. announcements' \in [Thread -> Nat \cup {-1}]
    BY <1>1, Zenon DEF AnnounceExchange, TypeOK
  <2>2. pc' \in [Thread -> Labels]
    BY <1>0, <1>1, Zenon DEF AnnounceExchange, Goto, TypeOK
  <2> QED
    BY <1>1, <2>1, <2>2, Zenon DEF AnnounceExchange, pool, locals, TypeOK
<1>2. CASE AnnounceCheck(t)
  <2>1. depth[t] + 1 \in 0..MaxDepth
    BY <1>2, ConstantsAssumption DEF AnnounceCheck, DepthOK, TypeOK
  <2>2. depth' \in [Thread -> 0..MaxDepth]
    BY <1>2, <2>1, Zenon DEF AnnounceCheck, TypeOK
  <2>3. reach' \in [Thread -> SUBSET Object] /\ seen' \in [Thread -> Nat]
    BY <1>2, Zenon DEF AnnounceCheck, TypeOK
  <2>4. pc' \in [Thread -> Labels]
    BY <1>0, <1>2, Zenon DEF AnnounceCheck, Goto, TypeOK
  <2> QED
    BY <1>2, <2>2, <2>3, <2>4, Zenon DEF AnnounceCheck, pool, TypeOK
<1>3. CASE AnnounceFails(t)
  <2>1. pc' \in [Thread -> Labels]
    BY <1>0, <1>3, Zenon DEF AnnounceFails, Goto, TypeOK
  <2> QED
    BY <1>3, <2>1, Zenon DEF AnnounceFails, pool, locals, TypeOK
<1>4. CASE AnnounceRetry(t)
  <2>1. seen' \in [Thread -> Nat] /\ pc' \in [Thread -> Labels]
    BY <1>0, <1>4, Zenon DEF AnnounceRetry, Announce, Goto, TypeOK
  <2> QED
    BY <1>4, <2>1, Zenon DEF AnnounceRetry, Announce, pool, TypeOK
<1> QED
  BY <1>1, <1>2, <1>3, <1>4, Zenon

(* And those of advance_epoch.                                             *)
LEMMA AdvanceType ==
  ASSUME TypeOK, NEW t \in Thread,
         AdvanceLists(t) \/ AdvanceEpoch(t) \/ AdvanceNot(t)
  PROVE  TypeOK'
<1>1. CASE AdvanceLists(t)
  <2>1. In("old", t) \in Places /\ In("reserve", t) \in Places
    BY Places1, Zenon
  <2>2. place' \in [Object -> Places]
    BY <1>1, <2>1, Zenon DEF AdvanceLists, Older, TypeOK
  <2>3. pc' \in [Thread -> Labels]
    BY <1>1, Zenon DEF AdvanceLists, Goto, Labels, TypeOK
  <2> QED
    BY <1>1, <2>2, <2>3, Zenon DEF AdvanceLists, pool, locals, TypeOK
<1>2. CASE AdvanceEpoch(t)
  <2>1. epoch' \in [Thread -> Nat]
    BY <1>2, Zenon DEF AdvanceEpoch, TypeOK
  <2>2. Count(t)
    BY <1>2, Zenon DEF AdvanceEpoch
  <2> QED
    BY <1>2, <2>1, <2>2, CountType, Zenon DEF AdvanceEpoch, locals, TypeOK
<1>3. CASE AdvanceNot(t)
  <2>1. Count(t)
    BY <1>3, Zenon DEF AdvanceNot
  <2> QED
    BY <1>3, <2>1, CountType, Zenon DEF AdvanceNot, locals, TypeOK
<1> QED
  BY <1>1, <1>2, <1>3, Zenon

(* And those of update_epoch_steps.                                        *)
LEMMA UpdateType ==
  ASSUME TypeOK, NEW t \in Thread,
         \/ UpdateLoad(t)
         \/ UpdateWorkers(t)
         \/ UpdateCurrent(t)
         \/ UpdateIncrement(t)
         \/ UpdateRestart(t)
         \/ UpdateReload(t)
  PROVE  TypeOK'
<1>0. {"workers", "current", "slot", "increment", "restart", "reload"} \subseteq Labels
  BY Zenon DEF Labels
<1>1. CASE UpdateLoad(t)
  <2>1. CASE e_state[t] # epoch_state
    <3>1. UpdateReturns(t, epoch_state)
      BY <1>1, <2>1, Zenon DEF UpdateLoad
    <3> QED
      BY <1>1, <3>1, UpdateReturnsType, Zenon DEF UpdateLoad, unmoved, TypeOK
  <2>2. CASE e_state[t] = epoch_state
    <3>1. st' \in [Thread -> States] /\ j' \in [Thread -> Nat]
      BY <1>1, <2>2, Zenon DEF UpdateLoad, TypeOK, States
    <3>2. pc' \in [Thread -> Labels]
      BY <1>0, <1>1, <2>2, Zenon DEF UpdateLoad, Goto, TypeOK
    <3> QED
      BY <1>1, <2>2, <3>1, <3>2, Zenon DEF UpdateLoad, unmoved, TypeOK
  <2> QED
    BY <2>1, <2>2, Zenon
<1>2. CASE UpdateWorkers(t)
  <2>1. n' \in [Thread -> Nat]
    BY <1>2, ConstantsAssumption DEF UpdateWorkers, TypeOK
  <2>2. pc' \in [Thread -> Labels]
    BY <1>0, <1>2, Zenon DEF UpdateWorkers, Goto, TypeOK
  <2> QED
    BY <1>2, <2>1, <2>2, Zenon DEF UpdateWorkers, unmoved, TypeOK
<1>3. CASE UpdateCurrent(t)
  <2>1. pc' \in [Thread -> Labels]
    BY <1>0, <1>3, Zenon DEF UpdateCurrent, Goto, TypeOK
  <2> QED
    BY <1>3, <2>1, Zenon DEF UpdateCurrent, unmoved, TypeOK
<1>4. CASE UpdateIncrement(t)
  <2>1. current_epoch' \in Nat
    BY <1>4, SMTT(60) DEF UpdateIncrement, TypeOK, States
  <2>2. pc' \in [Thread -> Labels]
    BY <1>0, <1>4, Zenon DEF UpdateIncrement, Goto, TypeOK
  <2> QED
    BY <1>4, <2>1, <2>2, Zenon DEF UpdateIncrement, unmoved, TypeOK
<1>5. CASE UpdateRestart(t)
  <2>1. epoch_state' \in States
    BY <1>5 DEF UpdateRestart, TypeOK, State, States
  <2>2. pc' \in [Thread -> Labels]
    BY <1>0, <1>5, Zenon DEF UpdateRestart, Goto, TypeOK
  <2> QED
    BY <1>5, <2>1, <2>2, Zenon DEF UpdateRestart, unmoved, TypeOK
<1>6. CASE UpdateReload(t)
  <2>1. UpdateReturns(t, epoch_state) /\ epoch_state \in States
    BY <1>6, Zenon DEF UpdateReload, TypeOK
  <2> QED
    BY <1>6, <2>1, UpdateReturnsType, Zenon DEF UpdateReload, unmoved, TypeOK
<1> QED
  BY <1>1, <1>2, <1>3, <1>4, <1>5, <1>6, Zenon

(* A step of the sweep over the slots.                                     *)
LEMMA SweepType ==
  ASSUME TypeOK, NEW t \in Thread, SweepEmpty(t) \/ SweepEpoch(t) \/ SweepDone(t)
  PROVE  TypeOK'
<1>0. "slot" \in Labels /\ "slot_epoch" \in Labels
  BY Zenon DEF Labels
<1>1. CASE SweepEmpty(t)
  <2>1. j' \in [Thread -> Nat] /\ pc' \in [Thread -> Labels]
    BY <1>0, <1>1 DEF SweepEmpty, NextSlot, Goto, TypeOK
  <2> QED
    BY <1>1, <2>1, Zenon DEF SweepEmpty, unmoved, TypeOK
<1>2. CASE SweepEpoch(t)
  <2>1. CASE SlotIsOld(t)
    <3>1. UpdateReturns(t, st[t]) /\ st[t] \in States
      BY <1>2, <2>1, Zenon DEF SweepEpoch, TypeOK
    <3> QED
      BY <1>2, <3>1, UpdateReturnsType, Zenon DEF SweepEpoch, unmoved, TypeOK
  <2>2. CASE ~SlotIsOld(t)
    <3>1. j' \in [Thread -> Nat] /\ pc' \in [Thread -> Labels]
      BY <1>0, <1>2, <2>2 DEF SweepEpoch, NextSlot, Goto, TypeOK
    <3> QED
      BY <1>2, <2>2, <3>1, Zenon DEF SweepEpoch, unmoved, TypeOK
  <2> QED
    BY <2>1, <2>2, Zenon
<1>3. CASE SweepDone(t)
  <2>1. State(j[t], st[t].e) \in States /\ epoch_state \in States
    BY Zenon DEF TypeOK, State, States
  <2>2. CASE epoch_state = st[t]
    BY <1>3, <2>1, <2>2, UpdateReturnsType, Zenon DEF SweepDone, unmoved, TypeOK
  <2>3. CASE epoch_state # st[t]
    BY <1>3, <2>1, <2>3, UpdateReturnsType, Zenon DEF SweepDone, unmoved, TypeOK
  <2> QED
    BY <2>2, <2>3, Zenon
<1> QED
  BY <1>1, <1>2, <1>3, Zenon

(* Every step keeps the types.                                             *)
LEMMA NextType ==
  ASSUME TypeOK, DepthOK, [Next]_vars
  PROVE  TypeOK'
<1>1. CASE Clear
  BY <1>1, ClearType, Zenon
<1>2. ASSUME NEW t \in Thread, Ask(t) \/ Step(t)
      PROVE  TypeOK'
  BY <1>2, AskType, AnnounceType, AdvanceType, UpdateType, SweepType, Zenon DEF Step
<1>3. CASE UNCHANGED vars
  BY <1>3, Zenon DEF vars, pool, locals, TypeOK
<1> QED
  BY <1>1, <1>2, <1>3, Zenon DEF Next

(* A call returns to "ready" or goes on with a step of Retire.             *)
LEMMA PushGoes ==
  ASSUME TypeOK, NEW t \in Thread, Push(t)
  PROVE  pc' = [pc EXCEPT ![t] = "ready"]
BY Zenon DEF Push, Goto

(* Where Retire may go on to.                                              *)
LEMMA CountGoes ==
  ASSUME TypeOK, NEW t \in Thread, Count(t)
  PROVE  pc' = [pc EXCEPT ![t] = "ready"] \/ pc' = [pc EXCEPT ![t] = "update"]
BY PushGoes, Zenon DEF Count, Goto

(* Where update_epoch may return to.                                       *)
LEMMA UpdateReturnsGoes ==
  ASSUME TypeOK, NEW t \in Thread, NEW s, UpdateReturns(t, s)
  PROVE  pc' = [pc EXCEPT ![t] = "ready"]
BY PushGoes, Zenon DEF UpdateReturns

(* Once a Retire is under way, what a step can leave behind in pc.         *)
RetireLabels ==
  {"ready", "update", "workers", "slot", "slot_epoch", "current", "increment", "restart",
   "reload"}

(* Where a step of update_epoch may go on to.                              *)
LEMMA UpdateGoes ==
  ASSUME TypeOK, NEW t \in Thread,
         \/ UpdateLoad(t) \/ UpdateWorkers(t) \/ UpdateCurrent(t) \/ UpdateIncrement(t)
         \/ UpdateRestart(t) \/ UpdateReload(t)
         \/ SweepEmpty(t) \/ SweepEpoch(t) \/ SweepDone(t)
  PROVE  /\ \E label \in RetireLabels : pc' = [pc EXCEPT ![t] = label]
         /\ pc[t] \in RetireLabels \ {"ready"}
         /\ UNCHANGED unmoved
<1>1. CASE UpdateLoad(t)
  BY <1>1, UpdateReturnsGoes, Zenon DEF UpdateLoad, Goto, RetireLabels
<1>2. CASE UpdateWorkers(t) \/ UpdateCurrent(t)
  BY <1>2, Zenon DEF UpdateWorkers, UpdateCurrent, Goto, RetireLabels
<1>3. CASE UpdateIncrement(t) \/ UpdateRestart(t)
  BY <1>3, Zenon DEF UpdateIncrement, UpdateRestart, Goto, RetireLabels
<1>4. CASE UpdateReload(t)
  BY <1>4, UpdateReturnsGoes, Zenon DEF UpdateReload, RetireLabels
<1>5. CASE SweepEmpty(t)
  BY <1>5, Zenon DEF SweepEmpty, NextSlot, Goto, RetireLabels
<1>6. CASE SweepEpoch(t)
  BY <1>6, UpdateReturnsGoes, Zenon DEF SweepEpoch, NextSlot, Goto, RetireLabels
<1>7. CASE SweepDone(t)
  BY <1>7, UpdateReturnsGoes, Zenon DEF SweepDone, RetireLabels
<1> QED
  BY <1>1, <1>2, <1>3, <1>4, <1>5, <1>6, <1>7, Zenon

(* Every step keeps DepthOK.                                               *)
LEMMA NextDepth ==
  ASSUME TypeOK, DepthOK, [Next]_vars
  PROVE  DepthOK'
<1>1. CASE Clear
  BY <1>1, Zenon DEF Clear, DepthOK
<1>2. ASSUME NEW t \in Thread, Ask(t)
      PROVE  DepthOK'
  <2>1. CASE Start(t)
    BY <2>1, Zenon DEF Start, DepthOK
  <2>2. CASE Enter(t)
    BY <2>2, Zenon DEF Enter, Announce, Goto, DepthOK, TypeOK
  <2>3. CASE Leave(t)
    BY <2>3, ConstantsAssumption, Zenon DEF Leave, DepthOK, TypeOK
  <2>4. ASSUME NEW x \in Object, New(t, x)
        PROVE  DepthOK'
    BY <2>4, Zenon DEF New, DepthOK
  <2>5. ASSUME NEW unlinked \in AtMostOne, NEW dropped \in AtMostOne,
               Retire(t, unlinked, dropped)
        PROVE  DepthOK'
    BY <2>5, Zenon DEF Retire, Goto, DepthOK, TypeOK
  <2> QED
    BY <1>2, <2>1, <2>2, <2>3, <2>4, <2>5, Zenon DEF Ask
<1>3. ASSUME NEW t \in Thread, Step(t)
      PROVE  DepthOK'
  <2>1. CASE AnnounceExchange(t)
    BY <2>1, Zenon DEF AnnounceExchange, Goto, DepthOK, TypeOK
  <2>2. CASE AnnounceCheck(t)
    BY <2>2, Zenon DEF AnnounceCheck, Goto, DepthOK, TypeOK
  <2>3. CASE AnnounceFails(t)
    BY <2>3, Zenon DEF AnnounceFails, Goto, DepthOK, TypeOK
  <2>4. CASE AnnounceRetry(t)
    BY <2>4, Zenon DEF AnnounceRetry, Announce, Goto, DepthOK, TypeOK
  <2>5. CASE AdvanceLists(t)
    BY <2>5, Zenon DEF AdvanceLists, Goto, DepthOK, TypeOK
  <2>6. CASE AdvanceEpoch(t) \/ AdvanceNot(t)
    <3>1. Count(t) /\ UNCHANGED depth
      BY <2>6, Zenon DEF AdvanceEpoch, AdvanceNot
    <3> QED
      BY <3>1, CountGoes, Zenon DEF DepthOK, TypeOK
  <2>7. ASSUME UNCHANGED unmoved,
               NEW label \in RetireLabels, pc' = [pc EXCEPT ![t] = label]
        PROVE  DepthOK'
    BY <2>7, Zenon DEF unmoved, RetireLabels, DepthOK, TypeOK
  <2> QED
    BY <1>3, <2>1, <2>2, <2>3, <2>4, <2>5, <2>6, <2>7, UpdateGoes, Zenon DEF Step
<1>4. CASE UNCHANGED vars
  BY <1>4, Zenon DEF vars, DepthOK
<1> QED
  BY <1>1, <1>2, <1>3, <1>4, Zenon DEF Next

(* Type correctness, for any number of threads and objects and any depth:  *)
(* in particular retire_count never reaches the threshold at which it is   *)
(* compared for equality (line 293 of epoch.h).                            *)
THEOREM TypeCorrect == Spec => []TypeOK
<1>1. Init => TypeOK /\ DepthOK
  BY InitType, Zenon DEF Init, DepthOK
<1>2. TypeOK /\ DepthOK /\ [Next]_vars => (TypeOK /\ DepthOK)'
  BY NextType, NextDepth, Zenon
<1> QED
  BY <1>1, <1>2, PTL DEF Spec

-----------------------------------------------------------------------------
(***************************************************************************)
(* The steps of with_epoch, New, Retire and clear keep the invariant of    *)
(* the epoch collector, when with_epoch is not nested (MaxDepth = 1).      *)
(***************************************************************************)

(* Every slot of a thread inside is as it was, or has just been validated. *)
SlotsKept ==
  \A t \in Thread : depth'[t] > 0 =>
    \/ depth[t] > 0 /\ announcements'[t] = announcements[t]
    \/ announcements'[t] = current_epoch

(* What a sweep has found out stays true while the slots are kept.         *)
LEMMA CheckedKept ==
  ASSUME TypeOK, SlotsKept, NEW i \in Nat, NEW e \in Nat, e <= current_epoch, Checked(i, e)
  PROVE  \A t \in Thread : depth'[t] > 0 /\ t < i => announcements'[t] >= e
BY Zenon DEF TypeOK, SlotsKept, Checked, Inside

(* The shared state of the sweep stays right while the slots are kept.     *)
LEMMA EpochStateKept ==
  ASSUME TypeOK, EpochInv, SlotsKept, current_epoch' \in Nat,
         current_epoch' >= current_epoch, UNCHANGED epoch_state
  PROVE  (epoch_state.e <= current_epoch /\ Checked(epoch_state.i, epoch_state.e))'
<1>1. /\ epoch_state.i \in Nat
      /\ epoch_state.e \in Nat
      /\ epoch_state.e <= current_epoch
      /\ Checked(epoch_state.i, epoch_state.e)
  BY Zenon DEF TypeOK, States, EpochInv
<1>2. epoch_state'.e <= current_epoch'
  BY <1>1 DEF TypeOK
<1>3. \A t \in Thread : depth'[t] > 0 /\ t < epoch_state.i => announcements'[t] >= epoch_state.e
  BY <1>1, CheckedKept, Zenon
<1> QED
  BY <1>2, <1>3, Zenon DEF Checked, Inside

(* The sweep of a thread that does not move.                               *)
LEMMA SweepKept ==
  ASSUME TypeOK, EpochInv, SlotsKept, NEW s \in Thread,
         current_epoch' \in Nat, current_epoch' >= current_epoch,
         workers' \in Nat, workers' >= workers,
         pc'[s] = pc[s], st'[s] = st[s], n'[s] = n[s], j'[s] = j[s]
  PROVE  SweepInv(s)'
<1>1. SweepInv(s)
  BY Zenon DEF EpochInv
<1>2. /\ st[s].e \in Nat
      /\ j[s] \in Nat
      /\ n[s] \in Nat
      /\ N \in Nat
      /\ workers \in Nat
      /\ current_epoch \in Nat
  BY ConstantsAssumption DEF TypeOK, States
<1>3. ASSUME pc[s] \in {"workers", "slot", "slot_epoch", "current", "increment"}
      PROVE  (st[s].e <= current_epoch /\ Checked(j[s], st[s].e))'
  <2>1. st[s].e <= current_epoch /\ Checked(j[s], st[s].e)
    BY <1>1, <1>3, Zenon DEF SweepInv
  <2>2. \A t \in Thread : depth'[t] > 0 /\ t < j[s] => announcements'[t] >= st[s].e
    BY <1>2, <2>1, CheckedKept, Zenon
  <2>3. st'[s].e <= current_epoch'
    BY <1>2, <2>1
  <2> QED
    BY <2>2, <2>3, Zenon DEF Checked, Inside
<1>4. ASSUME pc[s] \in {"current", "increment"}
      PROVE  Checked(N, st[s].e)'
  <2>1. st[s].e <= current_epoch /\ Checked(N, st[s].e)
    BY <1>1, <1>4, Zenon DEF SweepInv
  <2>2. \A t \in Thread : depth'[t] > 0 /\ t < N => announcements'[t] >= st[s].e
    BY <1>2, <2>1, CheckedKept, Zenon
  <2> QED
    BY <2>2, Zenon DEF Checked, Inside
<1>5. /\ pc[s] = "workers" => j'[s] = st'[s].i
      /\ pc[s] \in {"slot", "slot_epoch"} => n'[s] <= workers'
      /\ pc[s] = "slot_epoch" => j'[s] < n'[s]
      /\ pc[s] = "restart" => st'[s].e < current_epoch'
  BY <1>1, <1>2 DEF SweepInv
<1> QED
  BY <1>3, <1>4, <1>5, Zenon DEF SweepInv

SweepLabels == {"workers", "slot", "slot_epoch", "current", "increment", "restart"}

(* A step of t that is not part of a sweep leaves all sweeps as they are.  *)
LEMMA SweepsKept ==
  ASSUME TypeOK, EpochInv, SlotsKept, NEW t \in Thread,
         current_epoch' \in Nat, current_epoch' >= current_epoch,
         workers' \in Nat, workers' >= workers,
         UNCHANGED <<st, n, j>>,
         NEW label, label \notin SweepLabels, pc' = [pc EXCEPT ![t] = label]
  PROVE  \A s \in Thread : SweepInv(s)'
<1> TAKE s \in Thread
<1>1. CASE s = t
  BY <1>1, Zenon DEF SweepInv, SweepLabels, TypeOK
<1>2. CASE s # t
  BY <1>2, SweepKept, Zenon DEF TypeOK
<1> QED
  BY <1>1, <1>2, Zenon

(* A step of t that leaves with_epoch alone.                               *)
LEMMA AnnounceKept ==
  ASSUME TypeOK, EpochInv, NEW s \in Thread,
         UNCHANGED <<current_epoch, workers>>,
         pc'[s] = pc[s] \/ (s < workers /\ pc'[s] \notin {"announce", "exchange", "check"}),
         announcements'[s] = announcements[s], depth'[s] = depth[s],
         seen'[s] = seen[s], reach'[s] = reach[s]
  PROVE  AnnounceInv(s)'
<1>1. AnnounceInv(s)
  BY Zenon DEF EpochInv
<1>2. s \in Nat /\ workers \in Nat
  BY ConstantsAssumption DEF Thread, TypeOK
<1> QED
  BY <1>1, <1>2 DEF AnnounceInv, Inside

(* A step that moves no object and no pool.                                *)
LEMMA ListsKept ==
  ASSUME TypeOK, EpochInv, UNCHANGED <<place, epoch>>,
         current_epoch' \in Nat, current_epoch' >= current_epoch,
         \A u \in Thread : /\ reach'[u] \subseteq reach[u]
                           /\ reach'[u] # {} => announcements'[u] = announcements[u],
         \A s \in Thread : \/ pc'[s] = pc[s]
                           \/ {pc[s], pc'[s]} \cap {"advance", "epoch"} = {}
  PROVE  /\ RetireWaits'
         /\ \A s \in Thread : /\ epoch'[s] <= current_epoch'
                              /\ pc'[s] = "epoch" => epoch'[s] + 1 < current_epoch'
         /\ \A s, u \in Thread : \A x \in reach'[u] : ListInv(s, u, x)'
<1>1. RetireWaits'
  BY Zenon DEF EpochInv, RetireWaits
<1>2. ASSUME NEW s \in Thread
      PROVE  epoch'[s] <= current_epoch' /\ (pc'[s] = "epoch" => epoch'[s] + 1 < current_epoch')
  <2>1. epoch[s] \in Nat /\ current_epoch \in Nat
    BY Zenon DEF TypeOK
  <2>2. epoch[s] <= current_epoch /\ (pc[s] = "epoch" => epoch[s] + 1 < current_epoch)
    BY Zenon DEF EpochInv
  <2>3. pc'[s] = "epoch" => pc[s] = "epoch"
    BY Zenon 
  <2> QED
    BY <2>1, <2>2, <2>3
<1>3. ASSUME NEW s \in Thread, NEW u \in Thread, NEW x \in reach'[u]
      PROVE  ListInv(s, u, x)'
  <2>1. ListInv(s, u, x) /\ announcements'[u] = announcements[u]
    BY <1>3, Zenon DEF EpochInv
  <2>2. /\ pc'[s] = "epoch" <=> pc[s] = "epoch"
        /\ pc'[s] = "advance" <=> pc[s] = "advance"
    BY Zenon 
  <2> QED
    BY <2>1, <2>2, Zenon DEF ListInv
<1> QED
  BY <1>1, <1>2, <1>3, Zenon

-----------------------------------------------------------------------------
(* with_epoch                                                              *)
LEMMA StartInv ==
  ASSUME TypeOK, EpochInv, NEW t \in Thread, Start(t)
  PROVE  EpochInv'
<1>1. SlotsKept
  BY Zenon DEF Start, SlotsKept
<1>2. /\ current_epoch' \in Nat /\ current_epoch' >= current_epoch
      /\ workers' \in Nat /\ workers' >= workers /\ workers \in Nat
  BY DEF Start, TypeOK
<1>3. (epoch_state.e <= current_epoch /\ Checked(epoch_state.i, epoch_state.e))'
  BY <1>1, <1>2, EpochStateKept, Zenon DEF Start
<1>4. ASSUME NEW s \in Thread PROVE AnnounceInv(s)' /\ SweepInv(s)'
  <2>1. AnnounceInv(s) /\ s \in Int
    BY DEF EpochInv, Thread
  <2>2. AnnounceInv(s)'
    BY <1>2, <2>1 DEF Start, locals, AnnounceInv, Inside
  <2>3. SweepInv(s)'
    BY <1>1, <1>2, SweepKept, Zenon DEF Start, locals
  <2> QED
    BY <2>2, <2>3, Zenon
<1>5. /\ RetireWaits'
      /\ \A s \in Thread : /\ epoch'[s] <= current_epoch'
                           /\ pc'[s] = "epoch" => epoch'[s] + 1 < current_epoch'
      /\ \A s, u \in Thread : \A x \in reach'[u] : ListInv(s, u, x)'
  BY <1>2, ListsKept, Zenon DEF Start, pool
<1> QED
  BY <1>3, <1>4, <1>5, Zenon DEF EpochInv

(* Entering, and every step of announce but the last: t stays outside.     *)
LEMMA OutsideInv ==
  ASSUME TypeOK, TypeOK', EpochInv, NEW t \in Thread, depth[t] = 0, t < workers,
         UNCHANGED <<workers, current_epoch, epoch_state, place, pool, depth, reach, st, n, j>>,
         \A s \in Thread \ {t} : /\ announcements'[s] = announcements[s]
                                 /\ seen'[s] = seen[s],
         pc[t] \notin {"advance", "epoch"},
         NEW label \in {"announce", "exchange", "check"}, pc' = [pc EXCEPT ![t] = label],
         label # "announce" => seen'[t] <= current_epoch,
         label = "check" => announcements'[t] = seen'[t]
  PROVE  EpochInv'
<1>1. SlotsKept
  BY DEF SlotsKept
<1>2. /\ current_epoch' \in Nat /\ current_epoch' >= current_epoch
      /\ workers' \in Nat /\ workers' >= workers
  BY DEF TypeOK
<1>3. (epoch_state.e <= current_epoch /\ Checked(epoch_state.i, epoch_state.e))'
  BY <1>1, <1>2, EpochStateKept, Zenon
<1>4. \A s \in Thread : SweepInv(s)'
  BY <1>1, <1>2, SweepsKept, Zenon DEF SweepLabels
<1>5. reach[t] = {}
  BY DEF EpochInv, AnnounceInv, Inside
<1>6. ASSUME NEW s \in Thread PROVE AnnounceInv(s)'
  <2>1. CASE s = t
    <3>1. pc'[t] = label /\ t \in Nat /\ workers' = workers /\ workers \in Nat
      BY ConstantsAssumption DEF TypeOK, Thread
    <3>2. /\ ~(t >= workers')
          /\ depth'[t] = 0
          /\ reach'[t] = {}
          /\ current_epoch' = current_epoch
      BY <1>5, <3>1, SMTT(60)
    <3> QED
      BY <2>1, <3>1, <3>2, SMTT(60) DEF AnnounceInv, Inside
  <2>2. CASE s # t
    BY <2>2, AnnounceKept, Zenon DEF TypeOK
  <2> QED
    BY <2>1, <2>2, Zenon
<1>7. /\ RetireWaits'
      /\ \A s \in Thread : /\ epoch'[s] <= current_epoch'
                           /\ pc'[s] = "epoch" => epoch'[s] + 1 < current_epoch'
      /\ \A s, u \in Thread : \A x \in reach'[u] : ListInv(s, u, x)'
  <2>1. \A u \in Thread : /\ reach'[u] \subseteq reach[u]
                          /\ reach'[u] # {} => announcements'[u] = announcements[u]
    BY <1>5, Zenon
  <2>2. \A s \in Thread : \/ pc'[s] = pc[s]
                          \/ {pc[s], pc'[s]} \cap {"advance", "epoch"} = {}
    BY Zenon DEF TypeOK
  <2>3. UNCHANGED <<place, epoch>>
    BY Zenon DEF pool
  <2> QED
    BY <1>2, <2>1, <2>2, <2>3, ListsKept, Zenon
<1> QED
  BY <1>3, <1>4, <1>6, <1>7, Zenon DEF EpochInv

(* The steps of announce keep EpochInv.                                    *)
LEMMA AnnounceStepInv ==
  ASSUME TypeOK, TypeOK', EpochInv, MaxDepth = 1, NEW t \in Thread,
         Enter(t) \/ AnnounceExchange(t) \/ AnnounceFails(t) \/ AnnounceRetry(t)
  PROVE  EpochInv'
<1>0. AnnounceInv(t) /\ t \in Nat /\ workers \in Nat /\ current_epoch \in Nat
  BY ConstantsAssumption DEF EpochInv, Thread, TypeOK
<1>1. CASE Enter(t)
  <2>1. depth[t] = 0 /\ t < workers /\ pc[t] = "ready"
    BY <1>1 DEF Enter, TypeOK
  <2>2. pc' = [pc EXCEPT ![t] = "exchange"] /\ seen' = [seen EXCEPT ![t] = current_epoch]
    BY <1>1, Zenon DEF Enter, Announce, Goto
  <2>3. /\ seen'[t] <= current_epoch
        /\ \A s \in Thread \ {t} : announcements'[s] = announcements[s] /\ seen'[s] = seen[s]
    BY <1>0, <1>1, <2>2, SMTT(60) DEF Enter, Announce, TypeOK
  <2>4. UNCHANGED <<workers, current_epoch, epoch_state, place, pool, depth, reach, st, n, j>>
    BY <1>1, Zenon DEF Enter, Announce
  <2> QED
    BY <2>1, <2>2, <2>3, <2>4, OutsideInv, Zenon
<1>2. CASE AnnounceRetry(t)
  <2>1. depth[t] = 0 /\ t < workers /\ pc[t] = "announce"
    BY <1>0, <1>2 DEF AnnounceRetry, AnnounceInv
  <2>2. pc' = [pc EXCEPT ![t] = "exchange"] /\ seen' = [seen EXCEPT ![t] = current_epoch]
    BY <1>2, Zenon DEF AnnounceRetry, Announce, Goto
  <2>3. /\ seen'[t] <= current_epoch
        /\ \A s \in Thread \ {t} : announcements'[s] = announcements[s] /\ seen'[s] = seen[s]
    BY <1>0, <1>2, <2>2, SMTT(60) DEF AnnounceRetry, Announce, TypeOK
  <2>4. UNCHANGED <<workers, current_epoch, epoch_state, place, pool, depth, reach, st, n, j>>
    BY <1>2, Zenon DEF AnnounceRetry, Announce
  <2> QED
    BY <2>1, <2>2, <2>3, <2>4, OutsideInv, Zenon
<1>3. CASE AnnounceExchange(t)
  <2>1. depth[t] = 0 /\ t < workers /\ pc[t] = "exchange" /\ seen[t] <= current_epoch
    BY <1>0, <1>3 DEF AnnounceExchange, AnnounceInv
  <2>2. /\ pc' = [pc EXCEPT ![t] = "check"]
        /\ announcements' = [announcements EXCEPT ![t] = seen[t]]
        /\ UNCHANGED <<seen, st, n, j>>
    BY <1>3, Zenon DEF AnnounceExchange, Goto, locals
  <2> QED
    BY <1>3, <2>1, <2>2, OutsideInv, Zenon DEF AnnounceExchange, TypeOK
<1>4. CASE AnnounceFails(t)
  <2>1. depth[t] = 0 /\ t < workers /\ pc[t] = "check"
    BY <1>0, <1>4 DEF AnnounceFails, AnnounceInv
  <2>2. pc' = [pc EXCEPT ![t] = "announce"] /\ UNCHANGED <<seen, st, n, j>>
    BY <1>4, Zenon DEF AnnounceFails, Goto, locals
  <2> QED
    BY <1>4, <2>1, <2>2, OutsideInv, Zenon DEF AnnounceFails
<1> QED
  BY <1>1, <1>2, <1>3, <1>4, Zenon

(* The validated announcement is the current epoch: t is inside.           *)
LEMMA AnnounceCheckInv ==
  ASSUME TypeOK, TypeOK', EpochInv, NEW t \in Thread, AnnounceCheck(t)
  PROVE  EpochInv'
<1>0. /\ AnnounceInv(t) /\ pc[t] = "check" /\ depth[t] = 0 /\ depth'[t] = 1
      /\ announcements[t] = current_epoch
      /\ pc' = [pc EXCEPT ![t] = "ready"]
      /\ UNCHANGED <<workers, current_epoch, announcements, epoch_state, place, epoch, st, n, j>>
  BY SMTT(60) DEF EpochInv, AnnounceInv, AnnounceCheck, Goto, pool, TypeOK
<1>1. SlotsKept
  BY <1>0, Zenon DEF AnnounceCheck, SlotsKept, TypeOK
<1>2. /\ current_epoch' \in Nat /\ current_epoch' >= current_epoch
      /\ workers' \in Nat /\ workers' >= workers
  BY <1>0, ConstantsAssumption DEF TypeOK
<1>3. (epoch_state.e <= current_epoch /\ Checked(epoch_state.i, epoch_state.e))'
  BY <1>0, <1>1, <1>2, EpochStateKept, Zenon
<1>4. \A s \in Thread : SweepInv(s)'
  BY <1>0, <1>1, <1>2, SweepsKept, Zenon DEF SweepLabels
<1>5. ASSUME NEW s \in Thread PROVE AnnounceInv(s)'
  <2>1. CASE s = t
    <3>1. /\ pc'[t] = "ready" /\ ~(t >= workers') /\ announcements'[t] = current_epoch'
          /\ current_epoch' \in Nat
      BY <1>0, <1>2, Zenon DEF AnnounceInv, TypeOK
    <3> QED
      BY <1>0, <2>1, <3>1, SMTT(60) DEF AnnounceInv, Inside
  <2>2. CASE s # t
    <3>1. /\ depth'[s] = depth[s] /\ reach'[s] = reach[s] /\ seen'[s] = seen[s]
          /\ pc'[s] = pc[s]
      BY <2>2, SMTT(60) DEF AnnounceCheck, Goto, TypeOK
    <3> QED
      BY <1>0, <2>2, <3>1, AnnounceKept, Zenon
  <2> QED
    BY <2>1, <2>2, Zenon
<1>6. \A u \in Thread : \A x \in reach'[u] : x \in reach[u] \/ place[x] = Linked
  BY Zenon DEF AnnounceCheck, TypeOK
<1>7. RetireWaits'
  BY <1>0, <1>6, InFields, SMTT(60) DEF EpochInv, RetireWaits, Linked
<1>8. \A s \in Thread : /\ epoch'[s] <= current_epoch'
                        /\ pc'[s] = "epoch" => epoch'[s] + 1 < current_epoch'
  BY <1>0, Zenon DEF EpochInv, TypeOK
<1>9. ASSUME NEW s \in Thread, NEW u \in Thread, NEW x \in reach'[u]
      PROVE  ListInv(s, u, x)'
  <2>1. CASE place[x] = Linked
    <3>1. place'[x] = Linked
      BY <1>0, <2>1, Zenon
    <3>2. Linked # In("current", s) /\ Linked # In("old", s) /\ Linked # In("leaving", s)
      BY InFields, Zenon DEF Linked
    <3> QED
      BY <3>1, <3>2, Zenon DEF ListInv
  <2>2. CASE x \in reach[u]
    <3>1. ListInv(s, u, x)
      BY <2>2, Zenon DEF EpochInv
    <3>2. /\ pc'[s] = "epoch" <=> pc[s] = "epoch"
          /\ pc'[s] = "advance" <=> pc[s] = "advance"
      BY <1>0, Zenon DEF TypeOK
    <3> QED
      BY <1>0, <3>1, <3>2, Zenon DEF ListInv
  <2> QED
    BY <1>6, <2>1, <2>2, Zenon
<1> QED
  BY <1>3, <1>4, <1>5, <1>7, <1>8, <1>9, Zenon DEF EpochInv

(* Leaving the only with_epoch t is in.                                    *)
LEMMA LeaveInv ==
  ASSUME TypeOK, TypeOK', EpochInv, MaxDepth = 1, NEW t \in Thread, Leave(t)
  PROVE  EpochInv'
<1>0. /\ depth[t] = 1 /\ depth'[t] = 0 /\ reach'[t] = {} /\ pc[t] = "ready"
      /\ \A s \in Thread \ {t} : /\ announcements'[s] = announcements[s]
                               /\ depth'[s] = depth[s] /\ reach'[s] = reach[s]
      /\ UNCHANGED <<workers, current_epoch, epoch_state, place, epoch, pc, seen, st, n, j>>
  BY SMTT(60) DEF Leave, Inside, pool, locals, TypeOK
<1>1. SlotsKept
  BY <1>0, SMTT(60) DEF SlotsKept
<1>2. /\ current_epoch' \in Nat /\ current_epoch' >= current_epoch
      /\ workers' \in Nat /\ workers' >= workers
  BY <1>0, ConstantsAssumption, SMTT(60) DEF TypeOK
<1>3. (epoch_state.e <= current_epoch /\ Checked(epoch_state.i, epoch_state.e))'
  BY <1>0, <1>1, <1>2, EpochStateKept, Zenon
<1>4. ASSUME NEW s \in Thread PROVE AnnounceInv(s)' /\ SweepInv(s)'
  <2>1. SweepInv(s)'
    BY <1>0, <1>1, <1>2, SweepKept, Zenon
  <2>2. CASE s = t
    BY <1>0, <2>1, <2>2, SMTT(60) DEF AnnounceInv, Inside
  <2>3. CASE s # t
    BY <1>0, <2>1, <2>3, AnnounceKept, Zenon
  <2> QED
    BY <2>2, <2>3, Zenon
<1>5. /\ RetireWaits'
      /\ \A s \in Thread : /\ epoch'[s] <= current_epoch'
                           /\ pc'[s] = "epoch" => epoch'[s] + 1 < current_epoch'
      /\ \A s, u \in Thread : \A x \in reach'[u] : ListInv(s, u, x)'
  BY <1>0, <1>2, ListsKept, Zenon
<1> QED
  BY <1>3, <1>4, <1>5, Zenon DEF EpochInv

-----------------------------------------------------------------------------
(* New, Retire and clear                                                   *)
LEMMA NewInv ==
  ASSUME TypeOK, TypeOK', EpochInv, NEW t \in Thread, NEW x \in Object, New(t, x)
  PROVE  EpochInv'
<1>0. /\ place' = [place EXCEPT ![x] = Linked]
      /\ \A s \in Thread : /\ reach'[s] \subseteq reach[s] \cup {x}
                           /\ ~Inside(s) => reach'[s] = reach[s]
      /\ UNCHANGED <<workers, current_epoch, announcements, epoch_state, epoch, pc, depth,
                     seen, st, n, j>>
  BY Zenon DEF New, pool, locals, TypeOK
<1>1. SlotsKept
  BY <1>0, Zenon DEF SlotsKept
<1>2. /\ current_epoch' \in Nat /\ current_epoch' >= current_epoch
      /\ workers' \in Nat /\ workers' >= workers
  BY <1>0, ConstantsAssumption, SMTT(60) DEF TypeOK
<1>3. (epoch_state.e <= current_epoch /\ Checked(epoch_state.i, epoch_state.e))'
  BY <1>0, <1>1, <1>2, EpochStateKept, Zenon
<1>4. ASSUME NEW s \in Thread PROVE AnnounceInv(s)' /\ SweepInv(s)'
  <2>1. SweepInv(s)'
    BY <1>0, <1>1, <1>2, SweepKept, Zenon
  <2>2. AnnounceInv(s)
    BY Zenon DEF EpochInv
  <2>3. AnnounceInv(s)'
    BY <1>0, <2>2, Zenon DEF AnnounceInv, Inside
  <2> QED
    BY <2>1, <2>3, Zenon
<1>5. RetireWaits'
  <2> SUFFICES ASSUME NEW s \in Thread, NEW y \in reach'[s]
               PROVE  place'[y].at \notin {"reserve", "free"}
    BY Zenon DEF RetireWaits
  <2>1. CASE y = x
    BY <1>0, <2>1, InFields DEF Linked, TypeOK
  <2>2. CASE y # x
    BY <1>0, <2>2, Zenon DEF EpochInv, RetireWaits, TypeOK
  <2> QED
    BY <2>1, <2>2, Zenon
<1>6. \A s \in Thread : /\ epoch'[s] <= current_epoch'
                        /\ pc'[s] = "epoch" => epoch'[s] + 1 < current_epoch'
  BY <1>0, Zenon DEF EpochInv
<1>7. ASSUME NEW s \in Thread, NEW u \in Thread, NEW y \in reach'[u]
      PROVE  ListInv(s, u, y)'
  <2>1. CASE y = x
    <3>1. place'[y] = Linked
      BY <1>0, <2>1, Zenon DEF TypeOK
    <3>2. Linked # In("current", s) /\ Linked # In("old", s) /\ Linked # In("leaving", s)
      BY InFields, Zenon DEF Linked
    <3> QED
      BY <3>1, <3>2, Zenon DEF ListInv
  <2>2. CASE y # x
    <3>1. ListInv(s, u, y) /\ place'[y] = place[y]
      BY <1>0, <2>2, Zenon DEF EpochInv, TypeOK
    <3> QED
      BY <1>0, <3>1, Zenon DEF ListInv
  <2> QED
    BY <2>1, <2>2, Zenon
<1> QED
  BY <1>3, <1>4, <1>5, <1>6, <1>7, Zenon DEF EpochInv

(* What the reserve drops nobody is using; the retired object is in no     *)
(* list before advance_epoch is through with them.                         *)
LEMMA RetireInv ==
  ASSUME TypeOK, TypeOK', EpochInv, NEW t \in Thread, NEW unlinked \in AtMostOne,
         NEW dropped \in AtMostOne, Retire(t, unlinked, dropped)
  PROVE  EpochInv'
<1>0. /\ pc[t] = "ready" /\ pc' = [pc EXCEPT ![t] = "advance"] /\ t < workers
      /\ UNCHANGED <<workers, current_epoch, announcements, epoch_state, epoch, depth,
                     reach, seen, st, n, j>>
  BY Zenon DEF Retire, Goto, pool, locals
<1>1. SlotsKept
  BY <1>0, Zenon DEF SlotsKept
<1>2. /\ current_epoch' \in Nat /\ current_epoch' >= current_epoch
      /\ workers' \in Nat /\ workers' >= workers
  BY <1>0, ConstantsAssumption DEF TypeOK
<1>3. (epoch_state.e <= current_epoch /\ Checked(epoch_state.i, epoch_state.e))'
  BY <1>0, <1>1, <1>2, EpochStateKept, Zenon
<1>4. \A s \in Thread : SweepInv(s)'
  BY <1>0, <1>1, <1>2, SweepsKept, Zenon DEF SweepLabels
<1>5. ASSUME NEW s \in Thread PROVE AnnounceInv(s)'
  <2>1. pc'[s] = pc[s] \/ (s < workers /\ pc'[s] \notin {"announce", "exchange", "check"})
    BY <1>0, Zenon DEF TypeOK
  <2> QED
    BY <1>0, <2>1, AnnounceKept, Zenon
<1>6. \A s \in Thread : \A y \in reach[s] :
        place'[y] = place[y] \/ place'[y] = In("leaving", t)
  BY InFields, SMTT(60) DEF EpochInv, RetireWaits, Retire, TypeOK
<1>7. RetireWaits'
  <2> SUFFICES ASSUME NEW s \in Thread, NEW y \in reach[s]
               PROVE  place'[y].at \notin {"reserve", "free"}
    BY <1>0, Zenon DEF RetireWaits
  <2>1. place[y].at \notin {"reserve", "free"}
    BY Zenon DEF EpochInv, RetireWaits
  <2>2. In("leaving", t).at \notin {"reserve", "free"}
    BY InFields
  <2> QED
    BY <1>6, <2>1, <2>2, Zenon
<1>8. \A s \in Thread : /\ epoch'[s] <= current_epoch'
                        /\ pc'[s] = "epoch" => epoch'[s] + 1 < current_epoch'
  BY <1>0, Zenon DEF EpochInv, TypeOK
<1>9. ASSUME NEW s \in Thread, NEW u \in Thread, NEW y \in reach'[u]
      PROVE  ListInv(s, u, y)'
  <2>1. CASE place'[y] = In("leaving", t)
    <3>1. /\ place'[y] # In("current", s) /\ place'[y] # In("old", s)
          /\ place'[y] = In("leaving", s) => s = t
      BY <2>1, InFields, Zenon
    <3>2. pc'[t] = "advance"
      BY <1>0, Zenon DEF TypeOK
    <3> QED
      BY <3>1, <3>2, Zenon DEF ListInv
  <2>2. CASE place'[y] = place[y]
    <3>1. ListInv(s, u, y)
      BY <1>0, Zenon DEF EpochInv
    <3>2. /\ pc'[s] = "epoch" <=> pc[s] = "epoch"
          /\ pc'[s] \notin {"advance", "epoch"} => pc[s] \notin {"advance", "epoch"}
      BY <1>0, Zenon DEF TypeOK
    <3> QED
      BY <1>0, <2>2, <3>1, <3>2, Zenon DEF ListInv
  <2> QED
    BY <1>0, <1>6, <2>1, <2>2, Zenon
<1> QED
  BY <1>3, <1>4, <1>5, <1>7, <1>8, <1>9, Zenon DEF EpochInv

(* At a quiescent point nobody is using anything.                          *)
LEMMA ClearInv ==
  ASSUME TypeOK, TypeOK', EpochInv, Clear
  PROVE  EpochInv'
<1>0. /\ \A s \in Thread : /\ pc[s] = "ready" /\ depth[s] = 0 /\ reach[s] = {}
                           /\ pc'[s] = "ready" /\ depth'[s] = 0 /\ reach'[s] = {}
      /\ current_epoch' = current_epoch + 1
      /\ UNCHANGED <<workers, announcements, epoch_state, epoch>>
  BY DEF EpochInv, AnnounceInv, Inside, Clear, pool
<1>1. RetireWaits'
  BY <1>0, Zenon DEF RetireWaits
<1>2. (epoch_state.e <= current_epoch /\ Checked(epoch_state.i, epoch_state.e))'
  <2>1. epoch_state'.e <= current_epoch'
    BY <1>0, SMTT(60) DEF EpochInv, TypeOK, States
  <2> QED
    BY <1>0, <2>1, SMTT(60) DEF Checked, Inside
<1>3. \A s \in Thread : AnnounceInv(s)' /\ SweepInv(s)'
  BY <1>0, SMTT(60) DEF AnnounceInv, Inside, SweepInv
<1>4. \A s \in Thread : /\ epoch'[s] <= current_epoch'
                        /\ pc'[s] = "epoch" => epoch'[s] + 1 < current_epoch'
  BY <1>0, SMTT(60) DEF EpochInv, TypeOK
<1>5. \A s, u \in Thread : \A x \in reach'[u] : ListInv(s, u, x)'
  BY <1>0, Zenon
<1> QED
  BY <1>1, <1>2, <1>3, <1>4, <1>5, Zenon DEF EpochInv

-----------------------------------------------------------------------------
(***************************************************************************)
(* The steps of advance_epoch keep the invariant of the epoch collector:   *)
(* nobody is using what moves from the old list to the reserve.            *)
(***************************************************************************)

(* A thread that is doing something has an id.                             *)
LEMMA Working ==
  ASSUME TypeOK, EpochInv, NEW t \in Thread, pc[t] # "ready"
  PROVE  t < workers /\ workers \in Nat /\ current_epoch \in Nat
<1>1. AnnounceInv(t)
  BY Zenon DEF EpochInv
<1>2. t \in Nat /\ workers \in Nat /\ current_epoch \in Nat
  BY ConstantsAssumption DEF TypeOK, Thread
<1> QED
  BY <1>1, <1>2 DEF AnnounceInv

-----------------------------------------------------------------------------
(* advance_epoch.  What all its steps leave alone.                         *)
LEMMA RetireStepKeeps ==
  ASSUME TypeOK, EpochInv, NEW t \in Thread, t < workers,
         UNCHANGED <<workers, current_epoch, announcements, depth, reach, seen>>,
         NEW label, label \notin {"announce", "exchange", "check"},
         pc' = [pc EXCEPT ![t] = label]
  PROVE  \A s \in Thread : AnnounceInv(s)'
<1> TAKE s \in Thread
<1>1. pc'[s] = pc[s] \/ (s < workers /\ pc'[s] \notin {"announce", "exchange", "check"})
  BY Zenon DEF TypeOK
<1> QED
  BY <1>1, AnnounceKept, Zenon

(* Anything a thread may be using is in reach of a thread inside, which    *)
(* holds the epoch back.                                                   *)
LEMMA ReachHolds ==
  ASSUME TypeOK, EpochInv, NEW u \in Thread, NEW x \in reach[u]
  PROVE  /\ announcements[u] \in Nat
         /\ announcements[u] <= current_epoch
         /\ current_epoch <= announcements[u] + 1
         /\ x \in Object
<1>1. AnnounceInv(u) /\ Inside(u)
  BY Zenon DEF EpochInv, AnnounceInv
<1> QED
  BY <1>1 DEF AnnounceInv, TypeOK

(* The old list joins the reserve: nobody is using what is there.          *)
LEMMA AdvanceListsInv ==
  ASSUME TypeOK, TypeOK', EpochInv, NEW t \in Thread, AdvanceLists(t)
  PROVE  EpochInv'
<1>0. /\ pc[t] = "advance" /\ pc' = [pc EXCEPT ![t] = "epoch"]
      /\ epoch[t] + 1 < current_epoch
      /\ UNCHANGED <<workers, current_epoch, announcements, epoch_state, epoch, depth,
                     reach, seen, st, n, j>>
  BY Zenon DEF AdvanceLists, MayAdvance, Goto, pool, locals
<1>1. SlotsKept
  BY <1>0, Zenon DEF SlotsKept
<1>2. /\ current_epoch' \in Nat /\ current_epoch' >= current_epoch
      /\ workers' \in Nat /\ workers' >= workers /\ t < workers
  BY <1>0, Working
<1>3. (epoch_state.e <= current_epoch /\ Checked(epoch_state.i, epoch_state.e))'
  BY <1>0, <1>1, <1>2, EpochStateKept, Zenon
<1>4. \A s \in Thread : SweepInv(s)'
  BY <1>0, <1>1, <1>2, SweepsKept, Zenon DEF SweepLabels
<1>5. \A s \in Thread : AnnounceInv(s)'
  BY <1>0, <1>2, RetireStepKeeps, Zenon
<1>6. ASSUME NEW u \in Thread, NEW x \in reach[u]
      PROVE  /\ place[x] # In("old", t)
             /\ place[x] = In("current", t) => /\ place'[x] = In("old", t)
                                              /\ announcements[u] <= epoch[t] + 1
             /\ place[x] # In("current", t) => place'[x] = place[x]
  <2>1. ListInv(t, u, x) /\ epoch[t] \in Nat /\ current_epoch \in Nat
    BY Zenon DEF EpochInv, TypeOK
  <2>2. place[x] = In("old", t) => announcements[u] < epoch[t]
    BY <1>0, <2>1, Zenon DEF ListInv
  <2>3. place[x] # In("old", t)
    BY <1>0, <2>1, <2>2, ReachHolds
  <2>4. place[x] = In("current", t) => announcements[u] <= epoch[t] + 1
    BY <2>1, Zenon DEF ListInv
  <2>5. /\ place[x] = In("current", t) => place'[x] = In("old", t)
        /\ place[x] # In("current", t) => place'[x] = place[x]
    BY <2>3, ReachHolds, InFields DEF AdvanceLists, Older
  <2> QED
    BY <2>3, <2>4, <2>5, Zenon
<1>7. RetireWaits'
  BY <1>0, <1>6, InFields, SMTT(60) DEF EpochInv, RetireWaits
<1>8. \A s \in Thread : /\ epoch'[s] <= current_epoch'
                        /\ pc'[s] = "epoch" => epoch'[s] + 1 < current_epoch'
  BY <1>0, Zenon DEF EpochInv, TypeOK
<1>9. ASSUME NEW s \in Thread, NEW u \in Thread, NEW x \in reach'[u]
      PROVE  ListInv(s, u, x)'
  <2>0. x \in reach[u] /\ pc'[t] = "epoch"
    BY <1>0, Zenon DEF TypeOK
  <2>1. CASE place[x] = In("current", t)
    <3>1. /\ place'[x] # In("current", s) /\ place'[x] # In("leaving", s)
          /\ place'[x] = In("old", s) => s = t
      BY <1>6, <2>0, <2>1, InFields
    <3> QED
      BY <1>0, <1>6, <2>0, <2>1, <3>1, Zenon DEF ListInv
  <2>2. CASE place[x] # In("current", t)
    <3>1. ListInv(s, u, x) /\ place'[x] = place[x] /\ place[x] # In("old", t)
      BY <1>6, <2>0, <2>2, Zenon DEF EpochInv
    <3>2. CASE s = t
      BY <1>0, <2>0, <2>2, <3>1, <3>2, Zenon DEF ListInv
    <3>3. CASE s # t
      BY <1>0, <3>1, <3>3, Zenon DEF ListInv, TypeOK
    <3> QED
      BY <3>2, <3>3, Zenon
  <2> QED
    BY <2>1, <2>2, Zenon
<1> QED
  BY <1>3, <1>4, <1>5, <1>7, <1>8, <1>9, Zenon DEF EpochInv

(* The list an object is in after a Push, or without one.                  *)
LEMMA PushMoves ==
  ASSUME TypeOK, NEW t \in Thread, Push(t) \/ UNCHANGED place, NEW x \in Object
  PROVE  place'[x] = place[x] \/ (place[x] = In("leaving", t) /\ place'[x] = In("current", t))
BY Zenon DEF Push, TypeOK

(* A step of Retire past advance_epoch's lists, whatever else it does to   *)
(* the pool, keeps what the lists know if pid.epoch is not too old.        *)
LEMMA PushKeepsLists ==
  ASSUME TypeOK, EpochInv, NEW t \in Thread, Push(t) \/ UNCHANGED place,
         UNCHANGED <<announcements, reach>>,
         NEW label, label \notin {"advance", "epoch"}, pc' = [pc EXCEPT ![t] = label],
         \A s \in Thread \ {t} : epoch'[s] = epoch[s],
         \A u \in Thread : \A x \in reach[u] :
           /\ place[x] \in {In("leaving", t), In("current", t)} =>
                announcements[u] <= epoch'[t] + 1
           /\ place[x] = In("old", t) => announcements[u] < epoch'[t]
  PROVE  /\ RetireWaits'
         /\ \A s, u \in Thread : \A x \in reach'[u] : ListInv(s, u, x)'
<1>0. ASSUME NEW u \in Thread, NEW x \in reach[u]
      PROVE  \/ place'[x] = place[x]
             \/ place[x] = In("leaving", t) /\ place'[x] = In("current", t)
  BY PushMoves, ReachHolds, Zenon
<1>1. RetireWaits'
  BY <1>0, InFields DEF EpochInv, RetireWaits
<1>2. ASSUME NEW s \in Thread, NEW u \in Thread, NEW x \in reach'[u]
      PROVE  ListInv(s, u, x)'
  <2>1. ListInv(s, u, x)
    BY Zenon DEF EpochInv
  <2>2. CASE place[x] = In("leaving", t) /\ place'[x] = In("current", t)
    <3>1. /\ place'[x] # In("old", s) /\ place'[x] # In("leaving", s)
          /\ place'[x] = In("current", s) => s = t
      BY <2>2, InFields, SMTT(60)
    <3> QED
      BY <2>2, <3>1, Zenon DEF ListInv
  <2>3. CASE place'[x] = place[x] /\ s # t
    BY <2>1, <2>3, Zenon DEF ListInv, TypeOK
  <2>4. CASE place'[x] = place[x] /\ s = t
    BY <2>4, Zenon DEF ListInv, TypeOK
  <2> QED
    BY <1>0, <2>2, <2>3, <2>4, Zenon
<1> QED
  BY <1>1, <1>2, Zenon

(* The rest of advance_epoch, up to the attempt to move the epoch.         *)
LEMMA CountInv ==
  ASSUME TypeOK, TypeOK', EpochInv, NEW t \in Thread, AdvanceEpoch(t) \/ AdvanceNot(t)
  PROVE  EpochInv'
<1>0. /\ pc[t] \in {"advance", "epoch"}
      /\ Count(t)
      /\ \A s \in Thread \ {t} : epoch'[s] = epoch[s]
      /\ UNCHANGED <<workers, current_epoch, announcements, epoch_state, depth, reach, seen,
                     st, n, j>>
  BY Zenon DEF AdvanceEpoch, AdvanceNot, locals, TypeOK
<1>1. PICK label \in {"ready", "update"} : pc' = [pc EXCEPT ![t] = label]
  BY <1>0, CountGoes, Zenon
<1>2. Push(t) \/ UNCHANGED place
  BY <1>0, Zenon DEF Count
<1>3. SlotsKept
  BY <1>0, Zenon DEF SlotsKept
<1>4. /\ current_epoch' \in Nat /\ current_epoch' >= current_epoch
      /\ workers' \in Nat /\ workers' >= workers /\ t < workers
  BY <1>0, Working
<1>5. (epoch_state.e <= current_epoch /\ Checked(epoch_state.i, epoch_state.e))'
  BY <1>0, <1>3, <1>4, EpochStateKept, Zenon
<1>6. \A s \in Thread : SweepInv(s)'
  BY <1>0, <1>1, <1>3, <1>4, SweepsKept, Zenon DEF SweepLabels
<1>7. \A s \in Thread : AnnounceInv(s)'
  BY <1>0, <1>1, <1>4, RetireStepKeeps, Zenon
<1>8. epoch'[t] \in Nat /\ current_epoch <= epoch'[t] + 1 /\ epoch'[t] <= current_epoch
  <2>1. epoch[t] \in Nat /\ current_epoch \in Nat /\ epoch[t] <= current_epoch
    BY Zenon DEF TypeOK, EpochInv
  <2>2. CASE AdvanceEpoch(t)
    BY <2>1, <2>2, SMTT(60) DEF AdvanceEpoch, TypeOK
  <2>3. CASE AdvanceNot(t)
    BY <2>1, <2>3 DEF AdvanceNot, MayAdvance
  <2> QED
    BY <2>2, <2>3, Zenon
<1>9. ASSUME NEW u \in Thread, NEW x \in reach[u]
      PROVE  /\ announcements[u] <= epoch'[t] + 1
             /\ place[x] = In("old", t) => announcements[u] < epoch'[t]
  <2>0. /\ announcements[u] \in Nat /\ announcements[u] <= current_epoch
        /\ epoch[t] \in Nat /\ current_epoch \in Nat /\ ListInv(t, u, x)
    BY ReachHolds, Zenon DEF TypeOK, EpochInv
  <2>1. announcements[u] <= epoch'[t] + 1
    BY <1>8, <2>0, SMTT(60)
  <2>2. CASE AdvanceEpoch(t)
    <3>1. pc[t] = "epoch" /\ epoch'[t] = current_epoch /\ epoch[t] + 1 < current_epoch
      BY <2>2, Zenon DEF AdvanceEpoch, EpochInv, TypeOK
    <3>2. place[x] = In("old", t) => announcements[u] <= epoch[t] + 1
      BY <2>0, <3>1, Zenon DEF ListInv
    <3> QED
      BY <2>0, <2>1, <3>1, <3>2, SMTT(60)
  <2>3. CASE AdvanceNot(t)
    <3>1. pc[t] = "advance" /\ epoch'[t] = epoch[t]
      BY <2>3, Zenon DEF AdvanceNot
    <3> QED
      BY <2>0, <2>1, <3>1, Zenon DEF ListInv
  <2> QED
    BY <2>2, <2>3, Zenon
<1>10. /\ RetireWaits'
       /\ \A s, u \in Thread : \A x \in reach'[u] : ListInv(s, u, x)'
  BY <1>0, <1>1, <1>2, <1>9, PushKeepsLists, Zenon
<1>11. ASSUME NEW s \in Thread
       PROVE  /\ epoch'[s] <= current_epoch'
              /\ pc'[s] = "epoch" => epoch'[s] + 1 < current_epoch'
  <2>1. CASE s = t
    BY <1>0, <1>1, <1>8, <2>1, Zenon DEF TypeOK
  <2>2. CASE s # t
    BY <1>0, <1>1, <2>2, Zenon DEF TypeOK, EpochInv
  <2> QED
    BY <2>1, <2>2, Zenon
<1> QED
  BY <1>5, <1>6, <1>7, <1>10, <1>11, Zenon DEF EpochInv

-----------------------------------------------------------------------------
(***************************************************************************)
(* Nothing retired is reused under a thread that may still be using it.    *)
(* The theorems are about with_epoch that is not nested (MaxDepth = 1):    *)
(* with nesting they are false.                                            *)
(***************************************************************************)

(* update_epoch_steps.  The lists do not notice it, with_epoch only when   *)
(* the epoch moves.                                                        *)
LEMMA UpdateKeeps ==
  ASSUME TypeOK, TypeOK', EpochInv, NEW t \in Thread,
         UNCHANGED unmoved, Push(t) \/ UNCHANGED place,
         current_epoch' >= current_epoch,
         pc[t] \in RetireLabels \ {"ready"},
         NEW label \in RetireLabels, pc' = [pc EXCEPT ![t] = label]
  PROVE  /\ RetireWaits'
         /\ \A s \in Thread : /\ epoch'[s] <= current_epoch'
                              /\ pc'[s] = "epoch" => epoch'[s] + 1 < current_epoch'
         /\ \A s, u \in Thread : \A x \in reach'[u] : ListInv(s, u, x)'
         /\ UNCHANGED current_epoch => \A s \in Thread : AnnounceInv(s)'
         /\ SlotsKept
         /\ t < workers
         /\ workers' = workers
<1>0. /\ UNCHANGED <<workers, announcements, epoch, depth, reach, seen>>
      /\ pc[t] \notin {"ready", "advance", "epoch"}
      /\ label \notin {"announce", "exchange", "check", "advance", "epoch"}
  BY Zenon DEF unmoved, RetireLabels
<1>1. t < workers
  BY <1>0, Working, Zenon
<1>2. \A u \in Thread : \A x \in reach[u] :
        /\ place[x] \in {In("leaving", t), In("current", t)} =>
             announcements[u] <= epoch'[t] + 1
        /\ place[x] = In("old", t) => announcements[u] < epoch'[t]
  BY <1>0, Zenon DEF EpochInv, ListInv
<1>3. /\ RetireWaits'
      /\ \A s, u \in Thread : \A x \in reach'[u] : ListInv(s, u, x)'
  BY <1>0, <1>2, PushKeepsLists, Zenon
<1>4. \A s \in Thread : /\ epoch'[s] <= current_epoch'
                        /\ pc'[s] = "epoch" => epoch'[s] + 1 < current_epoch'
  BY <1>0 DEF EpochInv, TypeOK
<1>5. UNCHANGED current_epoch => \A s \in Thread : AnnounceInv(s)'
  BY <1>0, <1>1, RetireStepKeeps, Zenon
<1>6. SlotsKept
  BY <1>0, Zenon DEF SlotsKept
<1> QED
  BY <1>0, <1>1, <1>3, <1>4, <1>5, <1>6, Zenon

(* An attempt that leaves the epoch and the state of the sweep alone.      *)
LEMMA UpdateQuietInv ==
  ASSUME TypeOK, TypeOK', EpochInv, NEW t \in Thread,
         UNCHANGED <<current_epoch, epoch_state, unmoved>>, Push(t) \/ UNCHANGED place,
         pc[t] \in RetireLabels \ {"ready"},
         NEW label \in RetireLabels, pc' = [pc EXCEPT ![t] = label],
         \A s \in Thread \ {t} : st'[s] = st[s] /\ n'[s] = n[s] /\ j'[s] = j[s],
         SweepInv(t)'
  PROVE  EpochInv'
<1>1. /\ current_epoch' \in Nat /\ current_epoch' >= current_epoch
      /\ workers' \in Nat /\ workers' >= workers
  BY ConstantsAssumption, SMTT(60) DEF TypeOK, unmoved
<1>2. /\ RetireWaits'
      /\ \A s \in Thread : /\ epoch'[s] <= current_epoch'
                           /\ pc'[s] = "epoch" => epoch'[s] + 1 < current_epoch'
      /\ \A s, u \in Thread : \A x \in reach'[u] : ListInv(s, u, x)'
      /\ \A s \in Thread : AnnounceInv(s)'
      /\ SlotsKept
  BY <1>1, UpdateKeeps, Zenon
<1>3. (epoch_state.e <= current_epoch /\ Checked(epoch_state.i, epoch_state.e))'
  BY <1>1, <1>2, EpochStateKept, Zenon
<1>4. \A s \in Thread \ {t} : SweepInv(s)'
  <2> TAKE s \in Thread \ {t}
  <2>1. pc'[s] = pc[s]
    BY Zenon DEF TypeOK
  <2> QED
    BY <1>1, <1>2, <2>1, SweepKept, Zenon
<1> QED
  BY <1>2, <1>3, <1>4, Zenon DEF EpochInv

(* The locals of one thread, and of the others.                            *)
LEMMA UpdateReturnsLocals ==
  ASSUME TypeOK, NEW t \in Thread, NEW state, UpdateReturns(t, state)
  PROVE  /\ \A s \in Thread \ {t} : st'[s] = st[s] /\ n'[s] = n[s] /\ j'[s] = j[s]
         /\ Push(t)
         /\ pc' = [pc EXCEPT ![t] = "ready"]
         /\ SweepInv(t)'
<1>1. pc' = [pc EXCEPT ![t] = "ready"] /\ Push(t)
  BY UpdateReturnsGoes, Zenon DEF UpdateReturns
<1>2. \A s \in Thread \ {t} : st'[s] = st[s] /\ n'[s] = n[s] /\ j'[s] = j[s]
  BY Zenon DEF UpdateReturns, TypeOK
<1>3. pc'[t] = "ready"
  BY <1>1, Zenon DEF TypeOK
<1> QED
  BY <1>1, <1>2, <1>3, Zenon DEF SweepInv

(* The end of update_epoch keeps EpochInv.                                 *)
LEMMA UpdateReturnsInv ==
  ASSUME TypeOK, TypeOK', EpochInv, NEW t \in Thread, NEW state, UpdateReturns(t, state),
         pc[t] \in RetireLabels \ {"ready"},
         UNCHANGED <<current_epoch, epoch_state, unmoved>>
  PROVE  EpochInv'
<1>1. "ready" \in RetireLabels
  BY Zenon DEF RetireLabels
<1> QED
  BY <1>1, UpdateReturnsLocals, UpdateQuietInv, Zenon

(* So does loading the state of the sweep...                               *)
LEMMA UpdateLoadInv ==
  ASSUME TypeOK, TypeOK', EpochInv, NEW t \in Thread, UpdateLoad(t)
  PROVE  EpochInv'
<1>0. pc[t] = "update" /\ UNCHANGED <<current_epoch, epoch_state, unmoved>>
  BY Zenon DEF UpdateLoad
<1>1. pc[t] \in RetireLabels \ {"ready"} /\ "workers" \in RetireLabels
  BY <1>0, Zenon DEF RetireLabels
<1>2. CASE e_state[t] # epoch_state
  <2>1. UpdateReturns(t, epoch_state)
    BY <1>2, Zenon DEF UpdateLoad
  <2> QED
    BY <1>0, <1>1, <2>1, UpdateReturnsInv, Zenon
<1>3. CASE e_state[t] = epoch_state
  <2>1. /\ st' = [st EXCEPT ![t] = epoch_state]
        /\ j' = [j EXCEPT ![t] = epoch_state.i]
        /\ pc' = [pc EXCEPT ![t] = "workers"]
        /\ UNCHANGED <<place, n>>
    BY <1>3, Zenon DEF UpdateLoad, Goto
  <2>2. /\ pc'[t] = "workers" /\ st'[t] = epoch_state /\ j'[t] = epoch_state.i
        /\ \A s \in Thread \ {t} : st'[s] = st[s] /\ n'[s] = n[s] /\ j'[s] = j[s]
    BY <2>1 DEF TypeOK
  <2>3. epoch_state.e <= current_epoch /\ Checked(epoch_state.i, epoch_state.e)
    BY Zenon DEF EpochInv
  <2>4. SweepInv(t)'
    BY <1>0, <2>2, <2>3, Zenon DEF SweepInv, Checked, Inside, unmoved
  <2> QED
    BY <1>0, <1>1, <2>1, <2>2, <2>4, UpdateQuietInv, Zenon
<1> QED
  BY <1>2, <1>3, Zenon

(* When the sweep has seen as many slots as there are threads, it has seen *)
(* every thread inside.                                                    *)
LEMMA UpdateWorkersInv ==
  ASSUME TypeOK, TypeOK', EpochInv, NEW t \in Thread, UpdateWorkers(t)
  PROVE  EpochInv'
<1>0. /\ pc[t] = "workers"
      /\ UNCHANGED <<current_epoch, epoch_state, place, st, j, unmoved>>
      /\ n' = [n EXCEPT ![t] = workers]
  BY Zenon DEF UpdateWorkers
<1>1. pc[t] \in RetireLabels \ {"ready"} /\ {"current", "slot"} \subseteq RetireLabels
  BY <1>0, Zenon DEF RetireLabels
<1>2. st[t].e <= current_epoch /\ Checked(j[t], st[t].e) /\ j[t] = st[t].i
  BY <1>0, Zenon DEF EpochInv, SweepInv
<1>3. \A s \in Thread \ {t} : st'[s] = st[s] /\ n'[s] = n[s] /\ j'[s] = j[s]
  BY <1>0, Zenon DEF TypeOK
<1>4. CASE st[t].i = workers
  <2>1. pc' = [pc EXCEPT ![t] = "current"] /\ pc'[t] = "current"
    BY <1>4, Zenon DEF UpdateWorkers, Goto, TypeOK
  <2>2. \A s \in Thread : Inside(s) => s < workers
    BY ConstantsAssumption DEF EpochInv, AnnounceInv, Inside, TypeOK, Thread
  <2>3. Checked(N, st[t].e)
    BY <1>2, <1>4, <2>2, Zenon DEF Checked
  <2>4. SweepInv(t)'
    BY <1>0, <1>2, <2>1, <2>3, Zenon DEF SweepInv, Checked, Inside, unmoved
  <2> QED
    BY <1>0, <1>1, <1>3, <2>1, <2>4, UpdateQuietInv, Zenon
<1>5. CASE st[t].i # workers
  <2>1. pc' = [pc EXCEPT ![t] = "slot"] /\ pc'[t] = "slot"
    BY <1>5, Zenon DEF UpdateWorkers, Goto, TypeOK
  <2>2. n'[t] = workers /\ workers \in Nat /\ workers' = workers
    BY <1>0, ConstantsAssumption, Zenon DEF TypeOK, unmoved
  <2>3. SweepInv(t)'
    <3>1. Checked(j[t], st[t].e)'
      BY <1>0, <1>2, Zenon DEF Checked, Inside, unmoved
    <3>2. (st[t].e <= current_epoch /\ n[t] <= workers)'
      BY <1>0, <1>2, <2>2, SMTT(60)
    <3> QED
      BY <2>1, <3>1, <3>2, Zenon DEF SweepInv
  <2> QED
    BY <1>0, <1>1, <1>3, <2>1, <2>3, UpdateQuietInv, Zenon
<1> QED
  BY <1>4, <1>5, Zenon

(* ... loading the current epoch...                                        *)
LEMMA UpdateCurrentInv ==
  ASSUME TypeOK, TypeOK', EpochInv, NEW t \in Thread, UpdateCurrent(t)
  PROVE  EpochInv'
<1>0. /\ pc[t] = "current"
      /\ UNCHANGED <<current_epoch, epoch_state, place, st, n, j, unmoved>>
  BY Zenon DEF UpdateCurrent
<1>1. pc[t] \in RetireLabels \ {"ready"} /\ {"increment", "restart"} \subseteq RetireLabels
  BY <1>0, Zenon DEF RetireLabels
<1>2. st[t].e <= current_epoch /\ Checked(j[t], st[t].e) /\ Checked(N, st[t].e)
  BY <1>0, Zenon DEF EpochInv, SweepInv
<1>3. CASE current_epoch = st[t].e
  <2>1. pc' = [pc EXCEPT ![t] = "increment"] /\ pc'[t] = "increment"
    BY <1>3, Zenon DEF UpdateCurrent, Goto, TypeOK
  <2>2. SweepInv(t)'
    BY <1>0, <1>2, <2>1, Zenon DEF SweepInv, Checked, Inside, unmoved
  <2> QED
    BY <1>0, <1>1, <2>1, <2>2, UpdateQuietInv, Zenon
<1>4. CASE current_epoch # st[t].e
  <2>1. pc' = [pc EXCEPT ![t] = "restart"] /\ pc'[t] = "restart"
    BY <1>4, Zenon DEF UpdateCurrent, Goto, TypeOK
  <2>2. st[t].e \in Nat /\ current_epoch \in Nat
    BY Zenon DEF TypeOK, States
  <2>3. st[t].e < current_epoch
    BY <1>2, <1>4, <2>2, SMTT(60)
  <2>4. SweepInv(t)'
    BY <1>0, <2>1, <2>3, Zenon DEF SweepInv
  <2> QED
    BY <1>0, <1>1, <2>1, <2>4, UpdateQuietInv, Zenon
<1> QED
  BY <1>3, <1>4, Zenon

(* The epoch moves on: every thread inside has announced the one it leaves. *)
LEMMA UpdateIncrementInv ==
  ASSUME TypeOK, TypeOK', EpochInv, NEW t \in Thread, UpdateIncrement(t)
  PROVE  EpochInv' /\ EpochStep
<1>0. /\ pc[t] = "increment" /\ pc' = [pc EXCEPT ![t] = "restart"] /\ pc'[t] = "restart"
      /\ UNCHANGED <<epoch_state, place, st, n, j, unmoved>>
      /\ UNCHANGED <<workers, announcements, depth, reach, seen>>
  BY Zenon DEF UpdateIncrement, Goto, unmoved, TypeOK
<1>1. pc[t] \in RetireLabels \ {"ready"} /\ "restart" \in RetireLabels
  BY <1>0, Zenon DEF RetireLabels
<1>2. /\ st[t].e <= current_epoch /\ Checked(N, st[t].e)
      /\ st[t].e \in Nat /\ current_epoch \in Nat /\ workers \in Nat
  BY <1>0, Working, Zenon DEF EpochInv, SweepInv, TypeOK, States
<1>3. current_epoch' = IF current_epoch = st[t].e THEN st[t].e + 1 ELSE current_epoch
  BY Zenon DEF UpdateIncrement
<1>4. /\ current_epoch' \in Nat /\ current_epoch' >= current_epoch
      /\ workers' \in Nat /\ workers' >= workers
      /\ st[t].e < current_epoch'
  BY <1>0, <1>2, <1>3, SMTT(60)
<1>5. /\ RetireWaits'
      /\ \A s \in Thread : /\ epoch'[s] <= current_epoch'
                           /\ pc'[s] = "epoch" => epoch'[s] + 1 < current_epoch'
      /\ \A s, u \in Thread : \A x \in reach'[u] : ListInv(s, u, x)'
      /\ SlotsKept
  BY <1>0, <1>1, <1>4, UpdateKeeps, Zenon
<1>6. (epoch_state.e <= current_epoch /\ Checked(epoch_state.i, epoch_state.e))'
  BY <1>0, <1>4, <1>5, EpochStateKept, Zenon
<1>7. ASSUME NEW s \in Thread PROVE SweepInv(s)'
  <2>1. CASE s = t
    BY <1>0, <1>4, <2>1, Zenon DEF SweepInv
  <2>2. CASE s # t
    <3>1. pc'[s] = pc[s]
      BY <1>0, <2>2, Zenon DEF TypeOK
    <3> QED
      BY <1>0, <1>4, <1>5, <3>1, SweepKept, Zenon
  <2> QED
    BY <2>1, <2>2, Zenon
<1>8. ASSUME NEW s \in Thread, Inside(s), current_epoch = st[t].e
      PROVE  announcements[s] = current_epoch
  <2>1. AnnounceInv(s)
    BY Zenon DEF EpochInv
  <2>2. announcements[s] \in 0..current_epoch
    BY <1>8, <2>1, Zenon DEF AnnounceInv
  <2>3. s < N
    BY ConstantsAssumption DEF Thread
  <2>4. announcements[s] >= st[t].e
    BY <1>2, <1>8, <2>3, Zenon DEF Checked
  <2> QED
    BY <1>2, <1>8, <2>2, <2>4
<1>9. EpochStep
  BY <1>3, <1>8, Zenon DEF EpochStep
<1>10. ASSUME NEW s \in Thread PROVE AnnounceInv(s)'
  <2>1. AnnounceInv(s) /\ s \in Int
    BY DEF EpochInv, Thread
  <2>2. /\ pc'[s] \in {"ready", "announce", "exchange", "check"} => pc'[s] = pc[s]
        /\ s >= workers => pc'[s] = "ready" /\ depth[s] = 0
        /\ ~Inside(s) => reach[s] = {}
    BY <1>0, <1>2, <2>1, Working, Zenon DEF TypeOK, AnnounceInv
  <2>3. pc'[s] \in {"announce", "exchange", "check"} => depth[s] = 0
    BY <2>1, <2>2, Zenon DEF AnnounceInv
  <2>4. pc'[s] \in {"exchange", "check"} => seen[s] <= current_epoch'
    <3>1. seen[s] \in Nat
      BY Zenon DEF TypeOK
    <3> QED
      BY <1>2, <1>4, <2>1, <2>2, <3>1, SMTT(60) DEF AnnounceInv
  <2>5. pc'[s] = "check" => announcements[s] = seen[s]
    BY <2>1, <2>2, Zenon DEF AnnounceInv
  <2>6. Inside(s) => announcements[s] \in 0..current_epoch' /\ current_epoch' <= announcements[s] + 1
    BY <1>2, <1>3, <1>8, <2>1, SMTT(60) DEF AnnounceInv
  <2> QED
    BY <1>0, <2>2, <2>3, <2>4, <2>5, <2>6, Zenon DEF AnnounceInv, Inside
<1> QED
  BY <1>5, <1>6, <1>7, <1>9, <1>10, Zenon DEF EpochInv

(* A step that restarts the sweep, or takes it on.                         *)
LEMMA NewStateInv ==
  ASSUME TypeOK, TypeOK', EpochInv, NEW t \in Thread,
         UNCHANGED <<current_epoch, unmoved>>, Push(t) \/ UNCHANGED place,
         pc[t] \in RetireLabels \ {"ready"},
         NEW label \in RetireLabels, pc' = [pc EXCEPT ![t] = label],
         \A s \in Thread \ {t} : st'[s] = st[s] /\ n'[s] = n[s] /\ j'[s] = j[s],
         SweepInv(t)',
         epoch_state'.e <= current_epoch, Checked(epoch_state'.i, epoch_state'.e)
  PROVE  EpochInv'
<1>1. /\ current_epoch' \in Nat /\ current_epoch' >= current_epoch
      /\ workers' \in Nat /\ workers' >= workers
  BY ConstantsAssumption DEF TypeOK, unmoved
<1>2. /\ RetireWaits'
      /\ \A s \in Thread : /\ epoch'[s] <= current_epoch'
                           /\ pc'[s] = "epoch" => epoch'[s] + 1 < current_epoch'
      /\ \A s, u \in Thread : \A x \in reach'[u] : ListInv(s, u, x)'
      /\ \A s \in Thread : AnnounceInv(s)'
      /\ SlotsKept
  BY <1>1, UpdateKeeps, Zenon
<1>3. (epoch_state.e <= current_epoch /\ Checked(epoch_state.i, epoch_state.e))'
  BY Zenon DEF Checked, Inside, unmoved
<1>4. \A s \in Thread \ {t} : SweepInv(s)'
  <2> TAKE s \in Thread \ {t}
  <2>1. pc'[s] = pc[s]
    BY Zenon DEF TypeOK
  <2> QED
    BY <1>1, <1>2, <2>1, SweepKept, Zenon
<1> QED
  BY <1>2, <1>3, <1>4, Zenon DEF EpochInv

(* ... storing the state of a new sweep...                                 *)
LEMMA UpdateRestartInv ==
  ASSUME TypeOK, TypeOK', EpochInv, NEW t \in Thread, UpdateRestart(t)
  PROVE  EpochInv'
<1>0. /\ pc[t] = "restart" /\ pc' = [pc EXCEPT ![t] = "reload"] /\ pc'[t] = "reload"
      /\ UNCHANGED <<current_epoch, place, st, n, j, unmoved>>
  BY Zenon DEF UpdateRestart, Goto, TypeOK
<1>1. pc[t] \in RetireLabels \ {"ready"} /\ "reload" \in RetireLabels
  BY <1>0, Zenon DEF RetireLabels
<1>2. st[t].e < current_epoch /\ st[t].e \in Nat /\ current_epoch \in Nat
  BY <1>0, Zenon DEF EpochInv, SweepInv, TypeOK, States
<1>3. SweepInv(t)'
  BY <1>0, Zenon DEF SweepInv
<1>4. epoch_state'.e <= current_epoch /\ Checked(epoch_state'.i, epoch_state'.e)
  <2>1. CASE epoch_state = st[t]
    <3>0. epoch_state' = State(0, st[t].e + 1) /\ st[t].e + 1 \in Nat
      BY <1>2, <2>1 DEF UpdateRestart
    <3>1. epoch_state'.i = 0 /\ epoch_state'.e = st[t].e + 1
      BY <3>0, StatesOf, Zenon
    <3>2. epoch_state'.e <= current_epoch
      BY <1>2, <3>1
    <3>3. \A s \in Thread : ~(s < epoch_state'.i)
      BY <3>1, ConstantsAssumption, SMTT(60) DEF Thread
    <3> QED
      BY <3>2, <3>3, Zenon DEF Checked
  <2>2. CASE epoch_state # st[t]
    BY <2>2, Zenon DEF UpdateRestart, EpochInv
  <2> QED
    BY <2>1, <2>2, Zenon
<1> QED
  BY <1>0, <1>1, <1>3, <1>4, NewStateInv, Zenon

(* One more slot: empty, or a thread inside that announced this epoch.     *)
LEMMA SweepSlot ==
  ASSUME TypeOK, EpochInv, NEW t \in Thread, Checked(j[t], st[t].e),
         j[t] \in Thread => (announcements[j[t]] = -1 \/ announcements[j[t]] >= st[t].e)
  PROVE  Checked(j[t] + 1, st[t].e)
<1> SUFFICES ASSUME NEW s \in Thread, Inside(s), s < j[t] + 1
             PROVE  announcements[s] >= st[t].e
  BY Zenon DEF Checked
<1>1. s \in Nat /\ j[t] \in Nat
  BY ConstantsAssumption, SMTT(60) DEF Thread, TypeOK
<1>2. CASE s = j[t]
  <2>0. AnnounceInv(s) /\ current_epoch \in Nat
    BY Zenon DEF EpochInv, TypeOK
  <2>1. announcements[s] # -1
    <3>1. announcements[s] \in 0..current_epoch
      BY <2>0, Zenon DEF AnnounceInv
    <3>2. \A x \in 0..current_epoch : x # -1
      BY <2>0, SMTT(60)
    <3> QED
      BY <3>1, <3>2, Zenon
  <2> QED
    BY <1>2, <2>1, Zenon
<1>3. CASE s < j[t]
  BY <1>3, Zenon DEF Checked
<1> QED
  BY <1>1, <1>2, <1>3, SMTT(60)

(* ... looking at a slot once...                                           *)
LEMMA SweepEmptyInv ==
  ASSUME TypeOK, TypeOK', EpochInv, NEW t \in Thread, SweepEmpty(t)
  PROVE  EpochInv'
<1>0. /\ pc[t] = "slot" /\ j[t] < n[t]
      /\ UNCHANGED <<current_epoch, epoch_state, place, st, n, unmoved>>
  BY Zenon DEF SweepEmpty, MoreSlots
<1>1. pc[t] \in RetireLabels \ {"ready"} /\ {"slot", "slot_epoch"} \subseteq RetireLabels
  BY <1>0, Zenon DEF RetireLabels
<1>2. st[t].e <= current_epoch /\ Checked(j[t], st[t].e) /\ n[t] <= workers
  BY <1>0, Zenon DEF EpochInv, SweepInv
<1>3. CASE announcements[j[t]] = -1
  <2>1. /\ pc' = [pc EXCEPT ![t] = "slot"] /\ pc'[t] = "slot"
        /\ j'[t] = j[t] + 1
        /\ \A s \in Thread \ {t} : j'[s] = j[s]
    BY <1>3 DEF SweepEmpty, NextSlot, Goto, TypeOK
  <2>2. Checked(j[t] + 1, st[t].e)
    BY <1>2, <1>3, SweepSlot, Zenon
  <2>3. SweepInv(t)'
    <3>1. Checked(j[t], st[t].e)'
      BY <1>0, <2>1, <2>2, Zenon DEF Checked, Inside, unmoved
    <3>2. (st[t].e <= current_epoch /\ n[t] <= workers)'
      BY <1>0, <1>2, <2>1, Zenon DEF unmoved
    <3> QED
      BY <2>1, <3>1, <3>2, Zenon DEF SweepInv
  <2> QED
    BY <1>0, <1>1, <2>1, <2>3, UpdateQuietInv, Zenon
<1>4. CASE announcements[j[t]] # -1
  <2>1. pc' = [pc EXCEPT ![t] = "slot_epoch"] /\ pc'[t] = "slot_epoch" /\ UNCHANGED j
    BY <1>4, Zenon DEF SweepEmpty, Goto, TypeOK
  <2>2. SweepInv(t)'
    BY <1>0, <1>2, <2>1, Zenon DEF SweepInv, Checked, Inside, unmoved
  <2> QED
    BY <1>0, <1>1, <2>1, <2>2, UpdateQuietInv, Zenon
<1> QED
  BY <1>3, <1>4, Zenon

(* ... and again...                                                        *)
LEMMA SweepEpochInv ==
  ASSUME TypeOK, TypeOK', EpochInv, NEW t \in Thread, SweepEpoch(t)
  PROVE  EpochInv'
<1>0. pc[t] = "slot_epoch" /\ UNCHANGED <<current_epoch, epoch_state, unmoved>>
  BY Zenon DEF SweepEpoch
<1>1. pc[t] \in RetireLabels \ {"ready"} /\ "slot" \in RetireLabels
  BY <1>0, Zenon DEF RetireLabels
<1>2. st[t].e <= current_epoch /\ Checked(j[t], st[t].e) /\ n[t] <= workers
  BY <1>0, Zenon DEF EpochInv, SweepInv
<1>3. CASE SlotIsOld(t)
  <2>1. UpdateReturns(t, st[t])
    BY <1>3, Zenon DEF SweepEpoch
  <2> QED
    BY <1>0, <1>1, <2>1, UpdateReturnsInv, Zenon
<1>4. CASE ~SlotIsOld(t)
  <2>1. /\ pc' = [pc EXCEPT ![t] = "slot"] /\ pc'[t] = "slot"
        /\ j'[t] = j[t] + 1
        /\ \A s \in Thread \ {t} : j'[s] = j[s]
        /\ UNCHANGED <<place, st, n>>
    BY <1>4, SMTT(60) DEF SweepEpoch, NextSlot, Goto, TypeOK
  <2>2. j[t] \in Thread => (announcements[j[t]] = -1 \/ announcements[j[t]] >= st[t].e)
    BY <1>4 DEF SlotIsOld, TypeOK, States
  <2>3. Checked(j[t] + 1, st[t].e)
    BY <1>2, <2>2, SweepSlot, Zenon
  <2>4. SweepInv(t)'
    <3>1. Checked(j[t], st[t].e)'
      BY <1>0, <2>1, <2>3, Zenon DEF Checked, Inside, unmoved
    <3>2. (st[t].e <= current_epoch /\ n[t] <= workers)'
      BY <1>0, <1>2, <2>1, Zenon DEF unmoved
    <3> QED
      BY <2>1, <3>1, <3>2, Zenon DEF SweepInv
  <2> QED
    BY <1>0, <1>1, <2>1, <2>4, UpdateQuietInv, Zenon
<1> QED
  BY <1>3, <1>4, Zenon

(* ... storing how far the sweep has come...                               *)
LEMMA SweepDoneInv ==
  ASSUME TypeOK, TypeOK', EpochInv, NEW t \in Thread, SweepDone(t)
  PROVE  EpochInv'
<1>0. pc[t] = "slot" /\ UNCHANGED <<current_epoch, unmoved>>
  BY Zenon DEF SweepDone
<1>1. pc[t] \in RetireLabels \ {"ready"} /\ "ready" \in RetireLabels
  BY <1>0, Zenon DEF RetireLabels
<1>2. st[t].e <= current_epoch /\ Checked(j[t], st[t].e) /\ st[t].e \in Nat /\ j[t] \in Nat
  BY <1>0, Zenon DEF EpochInv, SweepInv, TypeOK, States
<1>3. CASE epoch_state = st[t]
  <2>1. /\ epoch_state' = State(j[t], st[t].e)
        /\ UpdateReturns(t, State(j[t], st[t].e))
    BY <1>3, Zenon DEF SweepDone
  <2>2. epoch_state'.e <= current_epoch /\ Checked(epoch_state'.i, epoch_state'.e)
    BY <1>2, <2>1, StatesOf, Zenon
  <2> QED
    BY <1>0, <1>1, <2>1, <2>2, UpdateReturnsLocals, NewStateInv, Zenon
<1>4. CASE epoch_state # st[t]
  <2>1. UpdateReturns(t, epoch_state) /\ UNCHANGED epoch_state
    BY <1>4, Zenon DEF SweepDone
  <2> QED
    BY <1>0, <1>1, <2>1, UpdateReturnsInv, Zenon
<1> QED
  BY <1>3, <1>4, Zenon

(* ... and loading its state again.                                        *)
LEMMA UpdateReloadInv ==
  ASSUME TypeOK, TypeOK', EpochInv, NEW t \in Thread, UpdateReload(t)
  PROVE  EpochInv'
<1>1. /\ pc[t] = "reload" /\ UNCHANGED <<current_epoch, epoch_state, unmoved>>
      /\ UpdateReturns(t, epoch_state)
  BY Zenon DEF UpdateReload
<1>2. pc[t] \in RetireLabels \ {"ready"}
  BY <1>1, Zenon DEF RetireLabels
<1> QED
  BY <1>1, <1>2, UpdateReturnsInv, Zenon

-----------------------------------------------------------------------------
(* EpochInv holds at the start...                                          *)
LEMMA InitInv == Init => EpochInv
<1> SUFFICES ASSUME Init PROVE EpochInv
  BY Zenon 
<1>1. /\ epoch_state.i = 0 /\ epoch_state.e = 0
      /\ workers = 0 /\ current_epoch = 0
  BY StatesOf, Zenon DEF Init
<1>2. \A t \in Thread : /\ pc[t] = "ready" /\ depth[t] = 0 /\ reach[t] = {} /\ epoch[t] = 0
                        /\ ~Inside(t)
  BY DEF Init, Inside
<1>3. Checked(epoch_state.i, epoch_state.e)
  BY <1>2, Zenon DEF Checked
<1>4. \A t \in Thread : AnnounceInv(t) /\ SweepInv(t)
  BY <1>2, Zenon DEF AnnounceInv, SweepInv
<1>5. RetireWaits
  BY <1>2, Zenon DEF RetireWaits
<1>6. 0 <= 0 /\ "ready" # "epoch"
  OBVIOUS
<1>7. \A s \in Thread : epoch[s] <= current_epoch /\ pc[s] # "epoch"
  BY <1>1, <1>2, <1>6, Zenon
<1>8. \A s, t \in Thread : \A x \in reach[t] : ListInv(s, t, x)
  BY <1>2, Zenon
<1> QED
  BY <1>1, <1>3, <1>4, <1>5, <1>6, <1>7, <1>8, Zenon DEF EpochInv

(* ... and every step keeps it.                                            *)
LEMMA NextInv ==
  ASSUME MaxDepth = 1, TypeOK, TypeOK', EpochInv, [Next]_vars
  PROVE  EpochInv'
<1>1. CASE Clear
  BY <1>1, ClearInv, Zenon
<1>2. ASSUME NEW t \in Thread, Ask(t)
      PROVE  EpochInv'
  BY <1>2, StartInv, AnnounceStepInv, LeaveInv, NewInv, RetireInv, Zenon DEF Ask
<1>3. ASSUME NEW t \in Thread, Step(t)
      PROVE  EpochInv'
  BY <1>3, AnnounceStepInv, AnnounceCheckInv, AdvanceListsInv, CountInv, UpdateLoadInv,
     UpdateWorkersInv, UpdateCurrentInv, UpdateIncrementInv, UpdateRestartInv,
     UpdateReloadInv, SweepEmptyInv, SweepEpochInv, SweepDoneInv, Zenon DEF Step
<1>4. CASE UNCHANGED vars
  <2>1. UNCHANGED <<workers, current_epoch, announcements, epoch_state, place, epoch, pc,
                    depth, reach, seen, st, n, j>>
    BY <1>4, Zenon DEF vars, pool, locals
  <2>2. RetireWaits' /\ (epoch_state.e <= current_epoch /\ Checked(epoch_state.i, epoch_state.e))'
    BY <2>1, Zenon DEF EpochInv, RetireWaits, Checked, Inside
  <2>3. \A t \in Thread : AnnounceInv(t)'
    BY <2>1, Zenon DEF EpochInv, AnnounceInv, Inside
  <2>4. \A t \in Thread : SweepInv(t)'
    BY <2>1, Zenon DEF EpochInv, SweepInv, Checked, Inside
  <2>5. \A s, t \in Thread : \A x \in reach'[t] : ListInv(s, t, x)'
    BY <2>1, ZenonT(60) DEF EpochInv, ListInv
  <2>6. \A s \in Thread : (epoch[s] <= current_epoch /\ (pc[s] = "epoch" => epoch[s] + 1 < current_epoch))'
    BY <2>1, Zenon DEF EpochInv
  <2> QED
    BY <2>2, <2>3, <2>4, <2>5, <2>6, Zenon DEF EpochInv
<1> QED
  BY <1>1, <1>2, <1>3, <1>4, Zenon DEF Next

(* The invariant of the epoch collector holds throughout.                  *)
THEOREM EpochCorrect ==
  ASSUME MaxDepth = 1
  PROVE  Spec => []EpochInv
<1>1. Init => EpochInv
  BY InitInv, Zenon
<1>2. TypeOK /\ TypeOK' /\ EpochInv /\ [Next]_vars => EpochInv'
  BY NextInv, Zenon
<1> QED
  BY <1>1, <1>2, TypeCorrect, PTL DEF Spec

(* Retire delays destruction and reuse until no operation that was in a    *)
(* with_epoch at the time is still within it (epoch.h, lines 9 and 10), as *)
(* long as the with_epoch of a thread are not nested.                      *)
THEOREM RetireIsSafe ==
  ASSUME MaxDepth = 1
  PROVE  Spec => []RetireWaits
<1>1. EpochInv => RetireWaits
  BY Zenon DEF EpochInv
<1> QED
  BY <1>1, EpochCorrect, PTL

(* update_epoch_steps and clear take the epoch on by one, and only when    *)
(* every thread inside has announced the epoch that is being left.         *)
THEOREM EpochMovesByOne ==
  ASSUME MaxDepth = 1
  PROVE  Spec => EpochDiscipline
<1>1. ASSUME TypeOK, TypeOK', EpochInv, [Next]_vars
      PROVE  EpochStep
  <2>1. CASE Clear
    BY <1>1, <2>1, SMTT(60) DEF Clear, EpochStep, Inside
  <2>2. ASSUME NEW t \in Thread, Ask(t)
        PROVE  EpochStep
    BY <2>2, Zenon DEF Ask, Start, Enter, Announce, Leave, New, Retire, EpochStep
  <2>3. ASSUME NEW t \in Thread, Step(t)
        PROVE  EpochStep
    <3>1. CASE UpdateIncrement(t)
      BY <1>1, <3>1, UpdateIncrementInv, Zenon
    <3>2. CASE ~UpdateIncrement(t)
      <4>1. UNCHANGED current_epoch
        BY <2>3, <3>2, Zenon DEF Step, AnnounceExchange, AnnounceCheck, AnnounceFails,
           AnnounceRetry, Announce, AdvanceLists, AdvanceEpoch, AdvanceNot, UpdateLoad,
           UpdateWorkers, UpdateCurrent, UpdateRestart, UpdateReload, SweepEmpty,
           SweepEpoch, SweepDone
      <4> QED
        BY <4>1, Zenon DEF EpochStep
    <3> QED
      BY <3>1, <3>2, Zenon
  <2>4. CASE UNCHANGED vars
    BY <2>4, Zenon DEF vars, EpochStep
  <2> QED
    BY <1>1, <2>1, <2>2, <2>3, <2>4, Zenon DEF Next
<1>2. TypeOK /\ TypeOK' /\ EpochInv /\ [Next]_vars => [EpochStep]_vars
  BY <1>1, Zenon
<1> QED
  BY <1>2, TypeCorrect, EpochCorrect, PTL DEF Spec, EpochDiscipline
=============================================================================
