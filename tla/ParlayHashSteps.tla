-------------------------- MODULE ParlayHashSteps ---------------------------
(***************************************************************************)
(* Every step of the table preserves Inv: those of calls and walks, which  *)
(* leave the tables as they are, the updates of a bucket, and the steps    *)
(* that make the next table and copy the buckets to it.                    *)
(***************************************************************************)
EXTENDS ParlayHashLemmas

-----------------------------------------------------------------------------
(***************************************************************************)
(* The steps that leave the table alone.                                   *)
(***************************************************************************)
(* A call begins: it loads the version and finds its bucket.               *)
LEMMA InvokeInv ==
  ASSUME Inv, NEW t \in Thread, Invoke(t)
  PROVE  Inv'
<1> Types /\ Shape /\ Blocks /\ Copiers /\ Counts /\ Positions
  BY Zenon DEF Inv
<1>1. PICK c \in Call :
        /\ c.op \notin Walks /\ pc[t] = "idle"
        /\ call' = [call EXCEPT ![t] = c] /\ ht' = [ht EXCEPT ![t] = current]
        /\ b' = [b EXCEPT ![t] = Home(current, c.key)]
        /\ lev' = [lev EXCEPT ![t] = current]
        /\ inside' = [inside EXCEPT ![t] = ~(Direct /\ c.op \in {"find", "remove"})]
        /\ pc' = [pc EXCEPT ![t] = IF c.op = "find" /\ ~Direct THEN "load" ELSE "ll"]
  BY Zenon DEF Invoke, Begin, Goto
<1>2. UNCHANGED <<table, s, tag, out_s, copying, walk>>
  BY Zenon DEF Invoke
<1>3. c.key \in Key /\ c # None /\ current \in Version /\ current \in Nat
  BY ConstantsAssumption, Constants, TypeFacts, Zenon
<1>4. Home(current, c.key) \in Node /\ Home(current, c.key)[1] = current
  BY <1>3, HomeOf, Zenon
<1>5. Types'
  BY <1>1, <1>2, <1>3, <1>4, Zenon DEF Types, table, copying, walk, Labels
<1>6. /\ SameMarkers /\ UNCHANGED <<bucket, versions, current, block_status, finished>>
      /\ \A n : Live(n) => Live(n)'
      /\ versions \in Nat /\ current \in 1..versions
  BY <1>2, TableStays, Zenon
<1>7. \A u \in Thread \ {t} : NotOf(u)
  BY <1>1, <1>2, <1>6, Zenon DEF NotOf, Types, walk
<1>8. Position(t)'
  <2>1. /\ pc'[t] = IF c.op = "find" /\ ~Direct THEN "load" ELSE "ll"
        /\ call'[t] = c /\ ht'[t] = current /\ lev'[t] = current
        /\ b'[t] = Home(current, c.key) /\ op(t)' = c.op /\ key(t)' = c.key
    BY <1>1, Zenon DEF Types, op, key
  <2>2. \A n \in todo[t] : Live(n)
    BY Zenon DEF Positions, Position
  <2>3. Live(Home(current, c.key))
    BY <1>3, <1>4 DEF Live, Shape
  <2>4. \A n \in todo'[t] \cup ({b'[t]} \ {None}) : Live(n)'
    BY <1>2, <1>6, <2>1, <2>2, <2>3, Zenon DEF walk
  <2>5. ~s'[t].fwd
    BY <1>1, <1>2, Zenon DEF Positions, Position, CopyLabels
  <2>6. Home(current, c.key) # None
    BY <1>4, Constants, Zenon
  <2> QED BY <1>1, <1>3, <1>4, <1>6, <2>1, <2>4, <2>5, <2>6
          DEF Position, CopyLabels, WalkLabels
<1>9. pc[t] \notin CopierLabels /\ pc'[t] \notin CopierLabels
  BY <1>1, Zenon DEF Types, CopierLabels
<1> QED BY <1>2, <1>5, <1>6, <1>7, <1>8, <1>9, QuietStep, Zenon DEF copying

(* A walk begins, with all buckets of the current version to visit.        *)
LEMMA InvokeWalkInv ==
  ASSUME Inv, NEW t \in Thread, InvokeWalk(t)
  PROVE  Inv'
<1> Types /\ Shape /\ Blocks /\ Copiers /\ Counts /\ Positions
  BY Zenon DEF Inv
<1> DEFINE all == {<<current, j>> : j \in 0..(Size[current] - 1)}
<1>1. PICK c \in Call :
        /\ c.op \in Walks /\ pc[t] = "idle"
        /\ call' = [call EXCEPT ![t] = c] /\ ht' = [ht EXCEPT ![t] = current]
        /\ inside' = [inside EXCEPT ![t] = c.op = "for_each"]
  BY Zenon DEF InvokeWalk, Begin
<1>2. /\ todo' = [todo EXCEPT ![t] = all]
      /\ pc' = [pc EXCEPT ![t] = "visit"]
      /\ UNCHANGED <<table, b, lev, s, tag, out_s, copying>>
  BY Zenon DEF InvokeWalk, Goto
<1>3. c # None /\ current \in Version /\ current \in Nat /\ Size[current] \in Nat
  BY Constants, TypeFacts, Zenon
<1>4. \A n \in all : Live(n) /\ n \in Node
  <2>1. ASSUME NEW j \in 0..(Size[current] - 1) PROVE Live(<<current, j>>) /\ <<current, j>> \in Node
    <3>1. <<current, j>> \in Node
      BY <1>3, NodeOf
    <3> QED BY <1>3, <3>1 DEF Live, Shape
  <2> QED BY <2>1, Zenon
<1> HIDE DEF all
<1>5. Types'
  BY <1>1, <1>2, <1>3, <1>4, Zenon DEF Types, table, copying, Labels
<1>6. /\ SameMarkers /\ UNCHANGED <<bucket, versions, current, block_status, finished>>
      /\ \A n : Live(n) => Live(n)'
      /\ versions \in Nat /\ current \in 1..versions
  BY <1>2, TableStays, Zenon
<1>7. \A u \in Thread \ {t} : NotOf(u)
  BY <1>1, <1>2, <1>6, Zenon DEF NotOf, Types
<1>8. Position(t)'
  <2>1. pc'[t] = "visit" /\ call'[t] = c /\ ht'[t] = current /\ todo'[t] = all /\ op(t)' = c.op
    BY <1>1, <1>2, Zenon DEF Types, op
  <2>2. lev'[t] = 0 /\ b'[t] = None /\ ~s'[t].fwd
    BY <1>1, <1>2, Zenon DEF Positions, Position, CopyLabels
  <2>3. \A n \in todo'[t] \cup ({b'[t]} \ {None}) : Live(n)'
    BY <1>4, <1>6, <2>1, <2>2, Zenon
  <2> QED BY <1>1, <1>3, <1>6, <2>1, <2>2, <2>3 DEF Position, CopyLabels, WalkLabels
<1>9. pc[t] \notin CopierLabels /\ pc'[t] \notin CopierLabels
  BY <1>1, <1>2, Zenon DEF Types, CopierLabels
<1> QED BY <1>2, <1>5, <1>6, <1>7, <1>8, <1>9, QuietStep, Zenon DEF copying

(* A call returns.                                                         *)
LEMMA ReturnInv ==
  ASSUME Inv, NEW t \in Thread, Return(t)
  PROVE  Inv'
<1> Types /\ Shape /\ Blocks /\ Copiers /\ Counts /\ Positions
  BY Zenon DEF Inv
<1>1. /\ pc' = [pc EXCEPT ![t] = "idle"] /\ call' = [call EXCEPT ![t] = None]
      /\ inside' = [inside EXCEPT ![t] = FALSE] /\ ht' = [ht EXCEPT ![t] = 0]
      /\ b' = [b EXCEPT ![t] = None] /\ lev' = [lev EXCEPT ![t] = 0]
      /\ s' = [s EXCEPT ![t] = Empty] /\ tag' = [tag EXCEPT ![t] = FALSE]
      /\ out_s' = [out_s EXCEPT ![t] = Empty]
      /\ UNCHANGED <<table, copying, todo>>
  BY Zenon DEF Return, Goto
<1>2. pc[t] \in {"return", "visit", "check", "expanded"}
  BY Zenon DEF Return, Ready
<1>3. Types'
  BY <1>1, NoEntriesState, Zenon DEF Types, table, copying, Labels
<1>4. /\ SameMarkers /\ UNCHANGED <<bucket, versions, current, block_status, finished>>
      /\ \A n : Live(n) => Live(n)'
      /\ versions \in Nat /\ current \in 1..versions
  BY <1>1, TableStays, Zenon
<1>5. \A u \in Thread \ {t} : NotOf(u)
  BY <1>1, <1>4, Zenon DEF NotOf, Types
<1>6. Position(t)'
  <2>1. /\ pc'[t] = "idle" /\ call'[t] = None /\ ht'[t] = 0 /\ lev'[t] = 0 /\ b'[t] = None
        /\ s'[t] = Empty /\ ~tag'[t]
    BY <1>1, Zenon DEF Types
  <2>2. \A n \in todo'[t] \cup ({b'[t]} \ {None}) : Live(n)'
    BY <1>1, <1>4, <2>1, Zenon DEF Positions, Position
  <2> QED BY <2>1, <2>2, NoEntriesState, Zenon DEF Position, CopyLabels
<1>7. pc[t] \notin CopierLabels /\ pc'[t] \notin CopierLabels
  BY <1>1, <1>2, Zenon DEF Types, CopierLabels
<1> QED BY <1>1, <1>3, <1>4, <1>5, <1>6, <1>7, QuietStep, Zenon DEF copying

(* ll of the bucket.                                                       *)
LEMMA LLInv ==
  ASSUME Inv, NEW t \in Thread, LL(t)
  PROVE  Inv'
<1> Types /\ Shape /\ Blocks /\ Copiers /\ Counts /\ Positions
  BY Zenon DEF Inv
<1>1. /\ pc[t] = "ll" /\ s' = [s EXCEPT ![t] = bucket[b[t]]]
      /\ tag' = [tag EXCEPT ![t] = TRUE]
      /\ out_s' = [out_s EXCEPT ![t] = IF op(t) = "upsert" THEN bucket[b[t]] ELSE Empty]
      /\ lev' = [lev EXCEPT ![t] = ht[t]]
      /\ pc' = [pc EXCEPT ![t] = IF op(t) = "find" THEN "check" ELSE "copy"]
      /\ UNCHANGED <<table, call, inside, ht, b, copying, walk>>
  BY Zenon DEF LL, Goto
<1>2. /\ op(t) \in Updates \cup Walks \cup {"find"} /\ op(t) \notin Walks
      /\ b[t] \in Node /\ bucket[b[t]] \in State /\ IsState(bucket[b[t]])
  BY <1>1, InCall, Zenon DEF WalkLabels
<1>3. Types'
  BY <1>1, <1>2, NoEntriesState, Zenon DEF Types, table, copying, walk, Labels
<1>4. /\ SameMarkers /\ UNCHANGED <<bucket, versions, current, block_status, finished>>
      /\ \A n : Live(n) => Live(n)'
      /\ versions \in Nat /\ current \in 1..versions
  BY <1>1, TableStays, Zenon
<1>5. \A u \in Thread \ {t} : NotOf(u)
  BY <1>1, <1>4, Zenon DEF NotOf, Types, walk
<1>6. Position(t)'
  <2>1. /\ pc'[t] = IF op(t) = "find" THEN "check" ELSE "copy"
        /\ s'[t] = bucket[b[t]] /\ lev'[t] = ht[t] /\ op(t)' = op(t) /\ key(t)' = key(t)
        /\ UNCHANGED <<call, ht, b, todo>>
    BY <1>1, Zenon DEF Types, op, key, walk
  <2>2. /\ call[t] # None /\ ht[t] \in 1..current /\ b[t] # None
        /\ b[t][1] \in lev[t]..versions /\ lev[t] >= ht[t] /\ b[t] = Home(b[t][1], key(t))
        /\ \A n \in todo[t] \cup ({b[t]} \ {None}) : Live(n)
    BY <1>1, <1>2, Zenon DEF Positions, Position
  <2>3. b[t][1] \in ht[t]..versions /\ ht[t] \in Nat
    BY <2>2 DEF Types
  <2>4. \A n \in todo'[t] \cup ({b'[t]} \ {None}) : Live(n)'
    BY <1>4, <2>1, <2>2, Zenon
  <2>5. s'[t].fwd => bucket[b[t]] = Forwarded
    BY <1>2, <2>1, Zenon DEF IsState
  <2> QED BY <1>2, <1>4, <2>1, <2>2, <2>3, <2>4, <2>5 DEF Position, CopyLabels, WalkLabels
<1>7. pc[t] \notin CopierLabels /\ pc'[t] \notin CopierLabels
  BY <1>1, Zenon DEF Types, CopierLabels
<1> QED BY <1>1, <1>3, <1>4, <1>5, <1>6, <1>7, QuietStep, Zenon DEF copying

(* check_bucket_and_state follows a marker.                                *)
LEMMA CheckInv ==
  ASSUME Inv, NEW t \in Thread, Check(t)
  PROVE  Inv'
<1> Types /\ Shape /\ Blocks /\ Copiers /\ Counts /\ Positions
  BY Zenon DEF Inv
<1> DEFINE n == Home(lev[t] + 1, key(t))
<1>1. /\ pc[t] = "check" /\ s[t].fwd /\ b' = [b EXCEPT ![t] = n]
      /\ s' = [s EXCEPT ![t] = bucket[n]] /\ tag' = [tag EXCEPT ![t] = TRUE]
      /\ lev' = [lev EXCEPT ![t] = @ + 1]
      /\ UNCHANGED <<table, pc, call, inside, ht, out_s, copying, walk>>
  BY Zenon DEF Check
<1>2. op(t) \notin Walks /\ op(t) \in Updates \cup Walks \cup {"find"}
  BY <1>1, InCall, Zenon DEF WalkLabels
<1>3. bucket[b[t]] = Forwarded
  BY <1>1, Zenon DEF Positions, Position
<1>4. lev[t] + 1 \in Version /\ lev[t] + 1 <= versions /\ Live(n) /\ n[1] = lev[t] + 1
  BY <1>1, <1>2, <1>3, NextLive, Zenon
<1>5. n \in Node /\ bucket[n] \in State /\ IsState(bucket[n]) /\ n # None
  BY <1>4, Constants, Zenon DEF Types, Live
<1> HIDE DEF n
<1>6. Types'
  BY <1>1, <1>4, <1>5 DEF Types, table, copying, walk
<1>7. /\ SameMarkers /\ UNCHANGED <<bucket, versions, current, block_status, finished>>
      /\ \A m : Live(m) => Live(m)'
      /\ versions \in Nat /\ current \in 1..versions
  BY <1>1, TableStays, Zenon
<1>8. \A u \in Thread \ {t} : NotOf(u)
  BY <1>1, <1>7, Zenon DEF NotOf, Types, walk
<1>9. Position(t)'
  <2>1. /\ s'[t] = bucket[n] /\ lev'[t] = lev[t] + 1 /\ b'[t] = n /\ tag'[t]
        /\ op(t)' = op(t) /\ key(t)' = key(t) /\ UNCHANGED <<pc, call, ht, todo>>
    BY <1>1, Zenon DEF Types, op, key, walk
  <2>2. /\ call[t] # None /\ ht[t] \in 1..current /\ lev[t] >= ht[t] /\ lev[t] \in Nat
        /\ ht[t] \in Nat /\ \A m \in todo[t] : Live(m)
    BY <1>1, <1>2, Zenon DEF Types, Positions, Position
  <2>3. \A m \in todo'[t] \cup ({b'[t]} \ {None}) : Live(m)'
    BY <1>4, <1>7, <2>1, <2>2, Zenon
  <2>4. n[1] \in lev'[t]..versions' /\ lev'[t] >= ht'[t] /\ n = Home(n[1], key(t))
    BY <1>4, <1>7, <2>1, <2>2 DEF n
  <2>5. s'[t].fwd => bucket[n] = Forwarded
    BY <1>5, <2>1, Zenon DEF IsState
  <2> QED
    BY <1>1, <1>2, <1>5, <1>7, <2>1, <2>2, <2>3, <2>4, <2>5, Zenon DEF Position,
       CopyLabels, WalkLabels
<1>10. pc[t] \notin CopierLabels /\ pc'[t] \notin CopierLabels
  BY <1>1, Zenon DEF CopierLabels
<1> QED BY <1>1, <1>6, <1>7, <1>8, <1>9, <1>10, QuietStep, Zenon DEF copying

(* An sc fails, and the call tries again.                                  *)
LEMMA RetryInv ==
  ASSUME Inv, NEW t \in Thread, Retry(t)
  PROVE  Inv'
<1> Types /\ Shape /\ Blocks /\ Copiers /\ Counts /\ Positions
  BY Zenon DEF Inv
<1>1. /\ pc[t] \in {"check", "expanded"} /\ ~s[t].fwd /\ op(t) \in Updates
      /\ inside' = [inside EXCEPT ![t] = TRUE] /\ pc' = [pc EXCEPT ![t] = "ll"]
      /\ UNCHANGED <<table, call, target, copying, walk>>
  BY Zenon DEF Retry, Goto, Ready
<1>2. Types'
  BY <1>1, Zenon DEF Types, table, copying, walk, target, Labels
<1>3. /\ SameMarkers /\ UNCHANGED <<bucket, versions, current, block_status, finished>>
      /\ \A m : Live(m) => Live(m)'
      /\ versions \in Nat /\ current \in 1..versions
  BY <1>1, TableStays, Zenon
<1>4. \A u \in Thread \ {t} : NotOf(u)
  BY <1>1, <1>3, Zenon DEF NotOf, Types, walk, target
<1>5. pc'[t] = "ll"
  BY <1>1, Zenon DEF Types
<1>6. Position(t)'
  BY <1>1, <1>3, <1>5, MovesOn DEF target, walk, CopyLabels, WalkLabels
<1>7. pc[t] \notin CopierLabels /\ pc'[t] \notin CopierLabels
  BY <1>1, <1>5, Zenon DEF CopierLabels
<1> QED BY <1>1, <1>2, <1>3, <1>4, <1>6, <1>7, QuietStep, Zenon DEF copying

(* A Find asks lv whether what it loaded is still there.                   *)
LEMMA LVInv ==
  ASSUME Inv, NEW t \in Thread, LV(t)
  PROVE  Inv'
<1> Types /\ Shape /\ Blocks /\ Copiers /\ Counts /\ Positions
  BY Zenon DEF Inv
<1>1. /\ pc[t] \in {"check", "expanded"} /\ ~s[t].fwd /\ op(t) = "find"
      /\ inside' = [inside EXCEPT ![t] = TRUE] /\ lev' = [lev EXCEPT ![t] = ht[t]]
      /\ pc' = [pc EXCEPT ![t] = IF tag[t] THEN "return" ELSE "load"]
      /\ UNCHANGED <<table, call, ht, b, s, tag, out_s, copying, walk>>
  BY Zenon DEF LV, Goto, Ready
<1>2. Types'
  BY <1>1, Zenon DEF Types, table, copying, walk, Labels
<1>3. /\ SameMarkers /\ UNCHANGED <<bucket, versions, current, block_status, finished>>
      /\ \A m : Live(m) => Live(m)'
      /\ versions \in Nat /\ current \in 1..versions
  BY <1>1, TableStays, Zenon
<1>4. \A u \in Thread \ {t} : NotOf(u)
  BY <1>1, <1>3, Zenon DEF NotOf, Types, walk
<1>5. pc'[t] \in {"return", "load"} /\ lev'[t] = ht[t]
  BY <1>1, Zenon DEF Types
<1>6. Position(t)'
  BY <1>1, <1>3, <1>5, MovesOn DEF walk, CopyLabels, WalkLabels
<1>7. pc[t] \notin CopierLabels /\ pc'[t] \notin CopierLabels
  BY <1>1, <1>5, Zenon DEF CopierLabels
<1> QED BY <1>1, <1>2, <1>3, <1>4, <1>6, <1>7, QuietStep, Zenon DEF copying

(* copy_if_needed finds nothing to do.                                     *)
LEMMA CopyNothingInv ==
  ASSUME Inv, NEW t \in Thread, CopyNothing(t)
  PROVE  Inv'
<1> Types /\ Shape /\ Blocks /\ Copiers /\ Counts /\ Positions
  BY Zenon DEF Inv
<1>1. /\ pc[t] = "copy" /\ pc' = [pc EXCEPT ![t] = "check"]
      /\ UNCHANGED <<table, call, inside, target, copying, walk>>
  BY Zenon DEF CopyNothing, Goto
<1>2. Types'
  BY <1>1, Zenon DEF Types, table, copying, walk, target, Labels
<1>3. /\ SameMarkers /\ UNCHANGED <<bucket, versions, current, block_status, finished>>
      /\ \A m : Live(m) => Live(m)'
      /\ versions \in Nat /\ current \in 1..versions
  BY <1>1, TableStays, Zenon
<1>4. \A u \in Thread \ {t} : NotOf(u)
  BY <1>1, <1>3, Zenon DEF NotOf, Types, walk, target
<1>5. pc'[t] = "check"
  BY <1>1, Zenon DEF Types
<1>6. /\ s[t].fwd => bucket[b[t]] = Forwarded
      /\ tag[t] => s[t] = bucket[b[t]]
  BY <1>1, Zenon DEF Positions, Position, CopyLabels
<1>7. Position(t)'
  BY <1>1, <1>3, <1>5, <1>6, MovesOn DEF target, walk, CopyLabels, WalkLabels
<1>8. pc[t] \notin CopierLabels /\ pc'[t] \notin CopierLabels
  BY <1>1, <1>5, Zenon DEF CopierLabels
<1> QED BY <1>1, <1>2, <1>3, <1>4, <1>7, <1>8, QuietStep, Zenon DEF copying

(* Find loads the bucket.                                                  *)
LEMMA LoadInv ==
  ASSUME Inv, NEW t \in Thread, Load(t)
  PROVE  Inv'
<1> Types /\ Shape /\ Blocks /\ Copiers /\ Counts /\ Positions
  BY Zenon DEF Inv
<1> DEFINE n == Home(lev[t] + 1, key(t))
<1>1. /\ pc[t] = "load" /\ UNCHANGED <<table, call, inside, ht, tag, out_s, copying, walk>>
      /\ IF bucket[b[t]].fwd
           THEN /\ b' = [b EXCEPT ![t] = n] /\ lev' = [lev EXCEPT ![t] = @ + 1]
                /\ UNCHANGED <<pc, s>>
           ELSE /\ s' = [s EXCEPT ![t] = bucket[b[t]]] /\ pc' = [pc EXCEPT ![t] = "return"]
                /\ UNCHANGED <<b, lev>>
  BY Zenon DEF Load, Goto
<1>2. /\ op(t) \notin Walks /\ b[t] \in Node /\ bucket[b[t]] \in State
      /\ IsState(bucket[b[t]]) /\ op(t) = "find"
  BY <1>1, InCall, Zenon DEF WalkLabels, Positions, Position
<1>3. /\ SameMarkers /\ UNCHANGED <<bucket, versions, current, block_status, finished>>
      /\ \A m : Live(m) => Live(m)'
      /\ versions \in Nat /\ current \in 1..versions
  BY <1>1, TableStays, Zenon
<1>4. ~s[t].fwd
  BY <1>1, Zenon DEF Positions, Position, CopyLabels
<1>5. CASE bucket[b[t]].fwd
  <2>1. bucket[b[t]] = Forwarded
    BY <1>2, <1>5, Zenon DEF IsState
  <2>2. lev[t] + 1 \in Version /\ lev[t] + 1 <= versions /\ Live(n) /\ n[1] = lev[t] + 1
    BY <1>1, <1>2, <2>1, NextLive, Zenon
  <2>3. n \in Node /\ n # None
    BY <2>2, Constants, Zenon DEF Live
  <2> HIDE DEF n
  <2>4. /\ b' = [b EXCEPT ![t] = n] /\ lev' = [lev EXCEPT ![t] = @ + 1]
        /\ UNCHANGED <<pc, s>>
    BY <1>1, <1>5, Zenon
  <2>5. UNCHANGED <<table, call, inside, ht, tag, out_s, copying, walk>>
    BY <1>1, Zenon
  <2>6. Types'
    BY <2>4, <2>5, <2>2, <2>3 DEF Types, table, copying, walk
  <2>7. \A u \in Thread \ {t} : NotOf(u)
    BY <1>3, <2>4, <2>5, Zenon DEF NotOf, Types, walk
  <2>8. Position(t)'
    <3>1. /\ lev'[t] = lev[t] + 1 /\ b'[t] = n /\ op(t)' = op(t) /\ key(t)' = key(t)
          /\ UNCHANGED <<pc, call, ht, todo, s>>
      BY <2>4, <2>5, Zenon DEF Types, op, key, walk
    <3>2. /\ call[t] # None /\ ht[t] \in 1..current /\ lev[t] >= ht[t] /\ lev[t] \in Nat
          /\ ht[t] \in Nat /\ \A m \in todo[t] : Live(m)
      BY <1>1, <1>2, Zenon DEF Types, Positions, Position
    <3>3. \A m \in todo'[t] \cup ({b'[t]} \ {None}) : Live(m)'
      BY <1>3, <2>2, <3>1, <3>2, Zenon
    <3>4. n[1] \in lev'[t]..versions' /\ lev'[t] >= ht'[t] /\ n = Home(n[1], key(t))
      BY <1>3, <2>2, <3>1, <3>2 DEF n
    <3> QED BY <1>1, <1>2, <1>3, <1>4, <2>3, <3>1, <3>2, <3>3, <3>4, Zenon
            DEF Position, CopyLabels, WalkLabels
  <2>9. pc[t] \notin CopierLabels /\ pc'[t] \notin CopierLabels
    BY <1>1, <1>5, Zenon DEF CopierLabels
  <2> QED BY <1>1, <1>3, <2>6, <2>7, <2>8, <2>9, QuietStep, Zenon DEF copying
<1>6. CASE ~bucket[b[t]].fwd
  <2>1. /\ s' = [s EXCEPT ![t] = bucket[b[t]]] /\ pc' = [pc EXCEPT ![t] = "return"]
        /\ UNCHANGED <<b, lev>>
    BY <1>1, <1>6, Zenon
  <2>2. UNCHANGED <<table, call, inside, ht, tag, out_s, copying, walk>>
    BY <1>1, Zenon
  <2>3. Types'
    BY <1>2, <2>1, <2>2, Zenon DEF Types, table, copying, walk, Labels
  <2>4. \A u \in Thread \ {t} : NotOf(u)
    BY <1>3, <2>1, <2>2, Zenon DEF NotOf, Types, walk
  <2>5. pc'[t] = "return" /\ s'[t] = bucket[b[t]]
    BY <2>1, Zenon DEF Types
  <2>6. Position(t)'
    BY <1>1, <1>3, <1>6, <2>1, <2>2, <2>5, MovesOn DEF walk, CopyLabels, WalkLabels
  <2>7. pc[t] \notin CopierLabels /\ pc'[t] \notin CopierLabels
    BY <1>1, <2>5, Zenon DEF CopierLabels
  <2> QED BY <1>1, <1>3, <2>3, <2>4, <2>6, <2>7, QuietStep, Zenon DEF copying
<1> QED BY <1>5, <1>6, Zenon

(* A walk visits a bucket, or those that a marker stands for.              *)
LEMMA VisitInv ==
  ASSUME Inv, NEW t \in Thread, Visit(t)
  PROVE  Inv'
<1> Types /\ Shape /\ Blocks /\ Copiers /\ Counts /\ Positions
  BY Zenon DEF Inv
<1>1. /\ pc[t] = "visit"
      /\ UNCHANGED <<table, call, inside, ht, lev, s, tag, out_s, copying>>
  BY Zenon DEF Visit
<1>2. PICK n \in todo[t] :
        /\ \/ bucket[n].fwd /\ todo' = [todo EXCEPT ![t] = (@ \ {n}) \cup Children(n)]
           \/ todo' = [todo EXCEPT ![t] = @ \ {n}]
        /\ UNCHANGED <<pc, b>>
  BY Zenon DEF Visit, Descend
<1>3. /\ todo' \in [Thread -> SUBSET Node] /\ \A u \in Thread \ {t} : todo'[u] = todo[u]
      /\ \A m \in todo'[t] : Live(m)
  BY <1>2, TodoLive, Zenon
<1>4. Types'
  BY <1>1, <1>2, <1>3, Zenon DEF Types, table, copying
<1>5. /\ SameMarkers /\ UNCHANGED <<bucket, versions, current, block_status, finished>>
      /\ \A m : Live(m) => Live(m)'
  BY <1>1, TableStays, Zenon
<1>6. \A u \in Thread \ {t} : NotOf(u)
  BY <1>1, <1>2, <1>3, <1>5, Zenon DEF NotOf
<1>7. \A m \in todo'[t] \cup ({b'[t]} \ {None}) : Live(m)
  BY <1>2, <1>3, Zenon DEF Positions, Position
<1>8. Position(t)'
  BY <1>1, <1>2, <1>5, <1>7, WalksOn, Zenon DEF WalkLabels
<1>9. pc[t] \notin CopierLabels /\ pc'[t] \notin CopierLabels
  BY <1>1, <1>2, Zenon DEF CopierLabels
<1> QED BY <1>1, <1>4, <1>5, <1>6, <1>8, <1>9, QuietStep, Zenon DEF copying

(* clear takes a bucket...                                                 *)
LEMMA ClearVisitInv ==
  ASSUME Inv, NEW t \in Thread, ClearVisit(t)
  PROVE  Inv'
<1> Types /\ Shape /\ Blocks /\ Copiers /\ Counts /\ Positions
  BY Zenon DEF Inv
<1>1. /\ pc[t] = "visit" /\ op(t) = "clear"
      /\ UNCHANGED <<table, call, inside, ht, lev, s, tag, out_s, copying>>
  BY Zenon DEF ClearVisit
<1>2. PICK n \in todo[t] :
        \/ /\ bucket[n].fwd /\ todo' = [todo EXCEPT ![t] = (@ \ {n}) \cup Children(n)]
           /\ UNCHANGED <<pc, b>>
        \/ /\ todo' = [todo EXCEPT ![t] = @ \ {n}]
           /\ b' = [b EXCEPT ![t] = n] /\ pc' = [pc EXCEPT ![t] = "clearll"]
  BY Zenon DEF ClearVisit, Descend, Goto
<1>3. /\ todo' \in [Thread -> SUBSET Node] /\ \A u \in Thread \ {t} : todo'[u] = todo[u]
      /\ \A m \in todo'[t] : Live(m)
      /\ n \in Node /\ Live(n)
  BY <1>2, TodoLive, Zenon
<1>4. /\ b' \in [Thread -> Node \cup {None}] /\ pc' \in [Thread -> Labels]
      /\ b'[t] = b[t] \/ b'[t] = n
      /\ pc'[t] = "visit" \/ (pc'[t] = "clearll" /\ b'[t] = n)
      /\ \A u \in Thread \ {t} : b'[u] = b[u] /\ pc'[u] = pc[u]
  <2>1. b \in [Thread -> Node \cup {None}] /\ pc \in [Thread -> Labels] /\ "clearll" \in Labels
    BY Zenon DEF Types, Labels
  <2>2. CASE UNCHANGED <<pc, b>>
    BY <1>1, <2>1, <2>2, Zenon
  <2>3. CASE b' = [b EXCEPT ![t] = n] /\ pc' = [pc EXCEPT ![t] = "clearll"]
    BY <1>3, <2>1, <2>3, Zenon
  <2> QED BY <1>2, <2>2, <2>3, Zenon
<1>5. Types'
  BY <1>1, <1>3, <1>4, Zenon DEF Types, table, copying
<1>6. /\ SameMarkers /\ UNCHANGED <<bucket, versions, current, block_status, finished>>
      /\ \A m : Live(m) => Live(m)'
  BY <1>1, TableStays, Zenon
<1>7. \A u \in Thread \ {t} : NotOf(u)
  BY <1>1, <1>3, <1>4, <1>6, Zenon DEF NotOf
<1>8. \A m \in todo'[t] \cup ({b'[t]} \ {None}) : Live(m)
  <2>1. \A m \in {b[t]} \ {None} : Live(m)
    BY Zenon DEF Positions, Position
  <2> QED BY <1>3, <1>4, <2>1, Zenon
<1>9. Position(t)'
  BY <1>1, <1>3, <1>4, <1>6, <1>8, WalksOn, Constants, Zenon DEF WalkLabels
<1>10. pc[t] \notin CopierLabels /\ pc'[t] \notin CopierLabels
  BY <1>1, <1>4, Zenon DEF CopierLabels
<1> QED BY <1>1, <1>5, <1>6, <1>7, <1>9, <1>10, QuietStep, Zenon DEF copying

(* ... loads it...                                                         *)
LEMMA ClearLLInv ==
  ASSUME Inv, NEW t \in Thread, ClearLL(t)
  PROVE  Inv'
<1> Types /\ Shape /\ Blocks /\ Copiers /\ Counts /\ Positions
  BY Zenon DEF Inv
<1>1. /\ pc[t] = "clearll" /\ tag' = [tag EXCEPT ![t] = TRUE]
      /\ pc' = [pc EXCEPT ![t] = IF bucket[b[t]].fwd THEN "visit" ELSE "clearsc"]
      /\ UNCHANGED <<table, call, inside, ht, b, lev, s, out_s, copying, walk>>
  BY Zenon DEF ClearLL, Goto
<1>2. op(t) = "clear" /\ b[t] # None
  BY <1>1, Zenon DEF Positions, Position
<1>3. pc'[t] = IF bucket[b[t]].fwd THEN "visit" ELSE "clearsc"
  BY <1>1, Zenon DEF Types
<1>4. Types'
  BY <1>1, Zenon DEF Types, table, copying, walk, Labels
<1>5. /\ SameMarkers /\ UNCHANGED <<bucket, versions, current, block_status, finished>>
      /\ \A m : Live(m) => Live(m)'
  BY <1>1, TableStays, Zenon
<1>6. \A u \in Thread \ {t} : NotOf(u)
  BY <1>1, <1>5, Zenon DEF NotOf, Types, walk
<1>7. \A m \in todo'[t] \cup ({b'[t]} \ {None}) : Live(m)
  BY <1>1, Zenon DEF Positions, Position, walk
<1>8. Position(t)'
  BY <1>1, <1>2, <1>3, <1>5, <1>7, WalksOn, NoEntriesState DEF WalkLabels
<1>9. pc[t] \notin CopierLabels /\ pc'[t] \notin CopierLabels
  BY <1>1, <1>3 DEF CopierLabels
<1> QED BY <1>1, <1>4, <1>5, <1>6, <1>8, <1>9, QuietStep, Zenon DEF copying

-----------------------------------------------------------------------------
(***************************************************************************)
(* The sc of an update.                                                    *)
(***************************************************************************)
(* An update stores its state.                                             *)
LEMMA SCSucceedsInv ==
  ASSUME StateFacts, Inv, UpsertsMeetNoMarker, NEW t \in Thread, SCSucceeds(t)
  PROVE  Inv'
<1> Types /\ Shape /\ Blocks /\ Copiers /\ Counts /\ Positions
  BY Zenon DEF Inv
<1>1. /\ Ready(t) /\ ~Answered(t) /\ op(t) \in Updates /\ (inside[t] \/ ~Overfull(s[t]))
      /\ tag[t] /\ Written(b[t], NewState(t)) /\ pc' = [pc EXCEPT ![t] = "return"]
      /\ UNCHANGED <<versions, current, block_status, finished, call, inside, ht, b, lev, s,
                     out_s, i, todo>>
  BY Zenon DEF SCSucceeds, Goto
<1>2. pc[t] \in {"check", "expanded"} /\ ~s[t].fwd
  BY <1>1, Zenon DEF Ready
<1>3. b[t] \in Node /\ bucket[b[t]] # None
  BY <1>2, InCall, Zenon DEF WalkLabels
<1>4. s[t] = bucket[b[t]]
  BY <1>1, <1>2, Zenon DEF Positions, Position
<1>5. bucket[b[t]] # Forwarded
  BY <1>2, <1>4, NoEntriesState, Zenon
<1>6. IsState(NewState(t)) /\ ~NewState(t).fwd
  BY <1>1, NewStateOf, Zenon
<1>7. /\ SameMarkers
      /\ bucket' \in [Node -> State \cup {None}]
      /\ \A m \in Node : bucket'[m] # None => IsState(bucket'[m])
      /\ tag' \in [Thread -> BOOLEAN] /\ ctag' \in [Thread -> BOOLEAN]
      /\ \A u \in Thread : tag'[u] => tag[u] /\ (b[u] # None => bucket'[b[u]] = bucket[b[u]])
  BY <1>1, <1>3, <1>5, <1>6, WriteOf, Zenon
<1>8. Types'
  BY <1>1, <1>7, Zenon DEF Types, Labels
<1>9. /\ \A m : Live(m) => Live(m)'
      /\ versions \in Nat /\ current \in Nat
  BY <1>1, <1>7, LiveWithMarkers, TypeFacts, Zenon
<1>10. \A u \in Thread \ {t} : NotOf(u)
  BY <1>1, <1>7, Zenon DEF NotOf, Types
<1>11. pc'[t] = "return"
  BY <1>1, Zenon DEF Types
<1>12. Position(t)'
  BY <1>1, <1>2, <1>9, <1>11, MovesOn DEF CopyLabels, WalkLabels
<1>13. pc[t] \notin CopierLabels /\ pc'[t] \notin CopierLabels
  BY <1>2, <1>11, Zenon DEF CopierLabels
<1> QED BY <1>1, <1>7, <1>8, <1>10, <1>12, <1>13, QuietStep, Zenon

(* ... and empties it, unless it has changed.                              *)
LEMMA ClearSCInv ==
  ASSUME Inv, NEW t \in Thread, ClearSC(t)
  PROVE  Inv'
<1> Types /\ Shape /\ Blocks /\ Copiers /\ Counts /\ Positions
  BY Zenon DEF Inv
<1>1. /\ pc[t] = "clearsc" /\ pc' = [pc EXCEPT ![t] = "visit"]
      /\ IF tag[t] THEN Written(b[t], NewState(t))
                   ELSE UNCHANGED <<bucket, tag, ctag, kept, met>>
      /\ UNCHANGED <<versions, current, block_status, finished, call, inside, ht, b, lev, s,
                     out_s, i, todo>>
  BY Zenon DEF ClearSC, Goto
<1>2. op(t) = "clear" /\ b[t] \in Node /\ bucket[b[t]] # None
  BY <1>1, InCall, Zenon DEF Positions, Position
<1>3. NewState(t) = Empty
  BY <1>2, Zenon DEF NewState
<1>4. tag[t] => bucket[b[t]] # Forwarded
  BY <1>1, Zenon DEF Positions, Position
<1>5. /\ SameMarkers
      /\ bucket' \in [Node -> State \cup {None}]
      /\ \A m \in Node : bucket'[m] # None => IsState(bucket'[m])
      /\ tag' \in [Thread -> BOOLEAN] /\ ctag' \in [Thread -> BOOLEAN]
      /\ \A u \in Thread : tag'[u] => tag[u] /\ (b[u] # None => bucket'[b[u]] = bucket[b[u]])
  <2>1. CASE tag[t]
    BY <1>1, <1>2, <1>3, <1>4, <2>1, WriteOf, NoEntriesState, Zenon
  <2>2. CASE ~tag[t]
    BY <1>1, <2>2, Zenon DEF SameMarkers, Types
  <2> QED BY <2>1, <2>2, Zenon
<1>6. Types'
  BY <1>1, <1>5, Zenon DEF Types, Labels
<1>7. \A m : Live(m) => Live(m)'
  BY <1>1, <1>5, LiveWithMarkers, Zenon
<1>8. \A u \in Thread \ {t} : NotOf(u)
  BY <1>1, <1>5, Zenon DEF NotOf, Types
<1>9. pc'[t] = "visit"
  BY <1>1, Zenon DEF Types
<1>10. \A m \in todo'[t] \cup ({b'[t]} \ {None}) : Live(m)
  BY <1>1, Zenon DEF Positions, Position
<1>11. Position(t)'
  BY <1>1, <1>7, <1>9, <1>10, WalksOn, Zenon DEF WalkLabels
<1>12. pc[t] \notin CopierLabels /\ pc'[t] \notin CopierLabels
  BY <1>1, <1>9, Zenon DEF CopierLabels
<1> QED BY <1>1, <1>5, <1>6, <1>8, <1>11, <1>12, QuietStep, Zenon

-----------------------------------------------------------------------------
(***************************************************************************)
(* The initial states.                                                     *)
(***************************************************************************)
(* Inv holds at the start.                                                 *)
LEMMA InitInv ==
  ASSUME StateFacts, SetFacts, Init
  PROVE  Inv
<1> DEFINE all == [Empty EXCEPT !.list = Preload]
<1>1. all \in State
  <2>1. Preload \in Seq(Item) /\ <<>> \in Seq(Item)
    BY PreloadAssumption DEF Item
  <2> QED BY <2>1, Zenon DEF State, States, Item, Empty
<1>2. bucket = [n \in Node |-> IF n[1] = 1 THEN Split(all, KeysOf(n)) ELSE None]
  BY Zenon DEF Init
<1>3. \A n \in Node : LET x == Split(all, KeysOf(n)) IN
        IsState(x) /\ ~x.fwd /\ x \in State /\ x # None /\ x # Forwarded
  <2> HIDE DEF all
  <2>1. \A n \in Node : KeysOf(n) \in SUBSET Key
    BY Zenon DEF KeysOf
  <2> QED BY <1>1, <2>1, NoEntriesState, Constants DEF StateFacts, SplitFacts, IsState
<1>4. \A n \in Node : /\ n[1] = 1 => IsState(bucket[n]) /\ bucket[n] # None /\ bucket[n] # Forwarded
                      /\ n[1] # 1 => bucket[n] = None
  <2> HIDE DEF all
  <2> QED BY <1>2, <1>3, Zenon
<1>5. /\ current = 1 /\ versions = IF Fits(Preload) THEN 1 ELSE 2
      /\ block_status = [v \in Version |-> [j \in 0..(Size[v] - 1) |->
                           IF v = 1 /\ j < NumBlocks(1) THEN "Empty" ELSE "Uninit"]]
      /\ finished = [v \in Version |-> 0]
      /\ pc = [t \in Thread |-> "idle"] /\ call = [t \in Thread |-> None]
      /\ inside = [t \in Thread |-> FALSE] /\ tag = [t \in Thread |-> FALSE]
      /\ ctag = [t \in Thread |-> FALSE] /\ ht = [t \in Thread |-> 0] /\ lev = [t \in Thread |-> 0]
      /\ b = [t \in Thread |-> None] /\ todo = [t \in Thread |-> {}]
      /\ s = [t \in Thread |-> Empty] /\ out_s = [t \in Thread |-> Empty] /\ i = [t \in Thread |-> 0]
  BY Zenon DEF Init
<1>6. 1 \in Version /\ versions \in Version /\ current \in 1..versions /\ versions <= 2
      /\ NumBlocks(1) \in Nat \ {0} /\ NumBlocks(1) <= Size[1] /\ Size[1] \in Nat
  <2>1. 1 \in Version
    BY Constants
  <2>2. versions = 2 => MaxVersion > 1
    BY <1>5, PreloadAssumption
  <2> QED BY <1>5, <2>1, <2>2, BlocksOf, Constants
<1>7. \A n \in Node : n[1] \in Nat /\ n[1] >= 1
  BY NodeOf, Constants
<1>8. Types
  <2>1. bucket \in [Node -> State \cup {None}]
    <3> HIDE DEF all
    <3> QED BY <1>2, <1>3, Zenon
  <2>2. /\ DOMAIN block_status = Version
        /\ \A v \in Version :
             block_status[v] \in [0..(Size[v] - 1) -> {"Uninit", "Empty", "Working", "Done"}]
    BY <1>5, Zenon
  <2>3. /\ pc \in [Thread -> Labels] /\ call \in [Thread -> Call \cup {None}]
        /\ inside \in [Thread -> BOOLEAN] /\ tag \in [Thread -> BOOLEAN] /\ ctag \in [Thread -> BOOLEAN]
        /\ ht \in [Thread -> Nat] /\ lev \in [Thread -> Nat] /\ finished \in [Version -> Nat]
        /\ b \in [Thread -> Node \cup {None}] /\ todo \in [Thread -> SUBSET Node]
        /\ i \in [Thread -> Nat]
    BY <1>5, Zenon DEF Labels
  <2>4. /\ s \in [Thread -> State] /\ out_s \in [Thread -> State] /\ \A t \in Thread : IsState(s[t])
    BY <1>5, NoEntriesState, Zenon
  <2> QED BY <1>4, <1>6, <2>1, <2>2, <2>3, <2>4, Zenon DEF Types
<1>9. Shape
  BY <1>4, <1>5, <1>6, <1>7, NoEntriesState DEF Shape
<1>10. /\ \A j \in CurrentBlock : Status(j) = "Empty"
       /\ \A j \in CurrentIndex : InBlock(j) \in CurrentBlock /\ <<current, j>> \in Node
  <2>1. \A j \in CurrentBlock : Status(j) = "Empty"
    <3>1. \A j \in 0..(NumBlocks(1) - 1) : j \in 0..(Size[1] - 1) /\ j < NumBlocks(1)
      BY <1>6
    <3>2. \A j \in 0..(Size[1] - 1) : j < NumBlocks(1) => block_status[1][j] = "Empty"
      BY <1>5, <1>6, Zenon
    <3> QED BY <1>5, <3>1, <3>2, Zenon DEF CurrentBlock, Status
  <2> QED BY <1>8, <2>1, BlockIndices, Zenon
<1>11. Blocks
  <2>1. \A v \in Version : ~(v < current)
    BY <1>5, Constants
  <2>2. \A j \in CurrentIndex : bucket[<<current, j>>] # Forwarded
    BY <1>4, <1>5, <1>10, Zenon
  <2>3. current < MaxVersion => \A j \in 0..(NumBlocks(current + 1) - 1) : j \div Grow \in CurrentBlock
    BY <1>8, BlockIndices, Zenon
  <2> QED BY <1>10, <2>1, <2>2, <2>3, Zenon DEF Blocks
<1>12. Copiers
  BY <1>5, Zenon DEF Copiers, Copies
<1>13. Counts
  <2>1. Counting = {} /\ DoneBlocks = {}
    BY <1>5, <1>10, Zenon DEF Counting, DoneBlocks
  <2>2. Cardinality(Counting) = 0 /\ Cardinality(DoneBlocks) = 0
    BY <2>1, Zenon DEF SetFacts
  <2>3. \A v \in Version : v \in Nat /\ finished[v] = 0 /\ (v > 1 => ~(v - 1 < current))
    BY <1>5, Constants
  <2> QED BY <1>5, <2>2, <2>3 DEF Counts
<1>14. Positions
  BY <1>5, NoEntriesState, Zenon DEF Positions, Position, CopyLabels
<1> QED BY <1>8, <1>9, <1>11, <1>12, <1>13, <1>14, Zenon DEF Inv


-----------------------------------------------------------------------------
(***************************************************************************)
(* expand_table, and the copy of a block.                                  *)
(***************************************************************************)
(* expand_table links the next version to the current one.                 *)
LEMMA ExpandInv ==
  ASSUME Inv, NEW t \in Thread, Expand(t)
  PROVE  Inv'
<1> Types /\ Shape /\ Blocks /\ Copiers /\ Counts /\ Positions
  BY Zenon DEF Inv
<1>1. /\ pc[t] = "check" /\ ~s[t].fwd /\ NeedsExpand(t)
      /\ \/ versions' = versions
         \/ ht[t] = versions /\ versions < MaxVersion /\ versions' = versions + 1
      /\ pc' = [pc EXCEPT ![t] = "expanded"]
      /\ UNCHANGED <<bucket, current, block_status, finished, call, inside, target, copying, walk>>
  BY Zenon DEF Expand, Goto
<1>2. op(t) \in Updates
  BY <1>1, Zenon DEF NeedsExpand, Updates
<1>3. pc'[t] = "expanded" /\ \A u \in Thread \ {t} : pc'[u] = pc[u]
  BY <1>1, Zenon DEF Types
<1>4. /\ versions \in Nat /\ current \in Nat /\ current <= versions /\ MaxVersion \in Nat
      /\ versions <= current + 1
  BY TypeFacts, Zenon DEF Shape
<1>5. versions' \in Version /\ versions' \in Nat /\ versions <= versions' /\ current \in 1..versions'
  <2>1. current \in 1..versions /\ versions \in Version /\ versions <= versions
    BY <1>4, Successor, Zenon DEF Types
  <2>2. CASE versions' = versions
    BY <1>4, <2>1, <2>2, Zenon
  <2>3. CASE versions < MaxVersion /\ versions' = versions + 1
    BY <1>4, <2>1, <2>3, VersionAdded, Zenon
  <2> QED BY <1>1, <2>2, <2>3, Zenon
<1>6. ht[t] \in 1..current
  BY <1>1, Zenon DEF Positions, Position
<1>7. versions' # versions => current = versions /\ versions' = current + 1
  BY <1>1, <1>4, <1>6
<1>8. Types'
  BY <1>1, <1>5, Zenon DEF Types, target, copying, walk, Labels
<1>9. Shape'
  BY <1>1, <1>4, <1>7 DEF Shape
<1>10. Blocks'
  BY <1>1, <1>4, <1>7, Zenon DEF Blocks, Status, InBlock, CurrentBlock, CurrentIndex
<1>11. Copiers'
  <2>1. \A u \in Thread : /\ Copies(u)' <=> Copies(u)
                          /\ pc'[u] \in {"copied", "copysc"} => pc'[u] = pc[u]
                          /\ Copies(u) => Spot(u)' = Spot(u)
    BY <1>1, <1>3, Zenon DEF Copies, Spot, copying
  <2>2. UNCHANGED <<bucket, current, block_status, ht, i>> /\ versions \in Nat
        /\ current \in Nat /\ versions' \in Nat /\ versions <= versions'
    BY <1>1, <1>4, <1>5, Zenon DEF target, copying
  <2> QED BY <2>1, <2>2 DEF Copiers, Status, InBlock, CurrentIndex, Source
<1>12. Counts'
  <2>1. Counting' = Counting /\ DoneBlocks' = DoneBlocks
    BY <1>1, <1>3, Zenon DEF Counting, DoneBlocks, CurrentBlock, Status
  <2>2. UNCHANGED <<finished, current, ht>> /\ versions \in Nat
        /\ current \in Nat /\ versions' \in Nat /\ versions <= versions'
    BY <1>1, <1>4, <1>5, Zenon DEF target
  <2>3. \A u \in Thread : pc'[u] \in {"count", "switch"} => pc'[u] = pc[u]
    BY <1>1, <1>3, Zenon
  <2> QED BY <2>1, <2>2, <2>3 DEF Counts
<1>13. \A n : Live(n) => Live(n)'
  BY <1>1, Zenon DEF Live
<1>14. ASSUME NEW u \in Thread, u # t PROVE Position(u)'
  <2>1. NotOf(u)
    BY <1>1, <1>3, <1>14, Zenon DEF NotOf, target, walk
  <2>2. current' \in Nat /\ current <= current' /\ bucket' = bucket
    BY <1>1, <1>4
  <2> QED BY <1>4, <1>5, <1>13, <2>1, <2>2, OthersStay, Zenon DEF Positions
<1>15. Position(t)'
  <2>1. tag[t] => s[t] = bucket[b[t]]
    BY <1>1, Zenon DEF Positions, Position
  <2>2. UNCHANGED <<bucket, current, call, ht, b, lev, s, tag, todo>>
    BY <1>1, Zenon DEF target, walk
  <2>3. current' \in Nat /\ current <= current'
    BY <1>4, <2>2, Successor, Zenon
  <2>4. pc[t] \notin WalkLabels /\ "expanded" \notin WalkLabels /\ "expanded" \notin CopyLabels
    BY <1>1, Zenon DEF CopyLabels, WalkLabels
  <2>5. tag'[t] /\ pc'[t] \in CopyLabels \cup {"check", "expanded"} => s'[t] = bucket'[b[t]]
    BY <2>1, <2>2, Zenon
  <2> QED BY <1>1, <1>2, <1>3, <1>4, <1>5, <1>13, <2>2, <2>3, <2>4, <2>5, MovesOn, Zenon
<1> QED BY <1>8, <1>9, <1>10, <1>11, <1>12, <1>14, <1>15, Zenon DEF Inv, Positions

(* What copy_if_needed writes when it claims block k.                      *)
LEMMA ClaimWrites ==
  ASSUME Types, current < MaxVersion, NEW k \in CurrentBlock,
         block_status' = [block_status EXCEPT
           ![current][k] = "Working",
           ![current + 1] = [j \in DOMAIN @ |-> IF j \div Grow = k THEN "Empty" ELSE @[j]]]
  PROVE  /\ DOMAIN block_status' = Version
         /\ \A v \in Version :
              block_status'[v] \in [0..(Size[v] - 1) -> {"Uninit", "Empty", "Working", "Done"}]
         /\ block_status'[current][k] = "Working"
         /\ \A j \in 0..(Size[current] - 1) : j # k =>
              block_status'[current][j] = block_status[current][j]
         /\ \A j \in 0..(Size[current + 1] - 1) : block_status'[current + 1][j] =
              IF j \div Grow = k THEN "Empty" ELSE block_status[current + 1][j]
         /\ \A v \in Version : v < current => block_status'[v] = block_status[v]
<1> DEFINE St == {"Uninit", "Empty", "Working", "Done"}
           next == [j \in 0..(Size[current + 1] - 1) |->
                      IF j \div Grow = k THEN "Empty" ELSE block_status[current + 1][j]]
           this == [block_status[current] EXCEPT ![k] = "Working"]
<1>1. /\ DOMAIN block_status = Version
      /\ \A v \in Version : block_status[v] \in [0..(Size[v] - 1) -> St]
  BY Zenon DEF Types
<1>2. current \in Version /\ current + 1 \in Version /\ current # current + 1 /\ current \in Nat
      /\ k \in 0..(Size[current] - 1)
  BY TypeFacts, Constants, BlockIndices
<1>3. block_status[current] \in [0..(Size[current] - 1) -> St]
      /\ block_status[current + 1] \in [0..(Size[current + 1] - 1) -> St]
  BY <1>1, <1>2, Zenon
<1>4. DOMAIN block_status[current + 1] = 0..(Size[current + 1] - 1)
  BY <1>3, Zenon
<1>5. block_status' = [[block_status EXCEPT ![current] = this] EXCEPT ![current + 1] = next]
  BY <1>1, <1>2, <1>4, Zenon
<1>6. next \in [0..(Size[current + 1] - 1) -> St]
      /\ \A j \in 0..(Size[current + 1] - 1) :
           next[j] = IF j \div Grow = k THEN "Empty" ELSE block_status[current + 1][j]
  BY <1>3, Zenon
<1>7. /\ this \in [0..(Size[current] - 1) -> St] /\ this[k] = "Working"
      /\ \A j \in 0..(Size[current] - 1) : j # k => this[j] = block_status[current][j]
  BY <1>2, <1>3, Zenon
<1> HIDE DEF next, this, St
<1>8. /\ DOMAIN block_status' = Version /\ block_status'[current] = this
      /\ block_status'[current + 1] = next
      /\ \A v \in Version \ {current, current + 1} : block_status'[v] = block_status[v]
  BY <1>1, <1>2, <1>5, Zenon
<1>9. \A v \in Version : block_status'[v] \in [0..(Size[v] - 1) -> St]
  BY <1>1, <1>6, <1>7, <1>8, Zenon
<1>10. \A v \in Version : v < current => v # current /\ v # current + 1
  BY <1>2, Constants
<1> QED BY <1>6, <1>7, <1>8, <1>9, <1>10, Zenon DEF St

(* copy_if_needed claims a block.                                          *)
LEMMA CopyClaimInv ==
  ASSUME Inv, NEW t \in Thread, CopyClaim(t)
  PROVE  Inv'
<1> Types /\ Shape /\ Blocks /\ Copiers /\ Counts /\ Positions
  BY Zenon DEF Inv
<1>1. /\ pc[t] = "copy" /\ ht[t] < versions /\ block_status[ht[t]][BlockOf(t)] = "Empty"
      /\ block_status' = [block_status EXCEPT
           ![ht[t]][BlockOf(t)] = "Working",
           ![ht[t] + 1] = [j \in DOMAIN @ |-> IF j \div Grow = BlockOf(t) THEN "Empty" ELSE @[j]]]
      /\ i' = [i EXCEPT ![t] = BlockOf(t) * BlockSize[ht[t]]]
      /\ pc' = [pc EXCEPT ![t] = "copyll"]
  BY Zenon DEF CopyClaim, Goto
<1>2. UNCHANGED <<bucket, versions, current, finished, call, inside, ht, b, lev, s, tag, out_s,
                  ctag, todo>>
  BY Zenon DEF CopyClaim, target, walk
<1>3. op(t) \in Updates /\ ht[t] \in 1..current /\ b[t] \in Node
  BY <1>1, InCall, Zenon DEF WalkLabels, Positions, Position, CopyLabels
<1>4. /\ current \in Version /\ versions \in Nat /\ current \in Nat /\ current <= versions
      /\ versions <= MaxVersion /\ MaxVersion \in Nat /\ Types
  BY TypeFacts, Zenon
<1>5. PICK k \in 0..(NumBlocks(ht[t]) - 1) : k = BlockOf(t)
  <2>1. ht[t] \in Version
    BY <1>3, <1>4, Constants
  <2>2. b[t][2] \in Nat /\ NumBlocks(ht[t]) \in Nat \ {0}
    BY <1>3, <2>1, NodeOf, BlocksOf, Zenon
  <2> QED BY <2>1, <2>2, DivMod, Zenon DEF BlockOf
<1>6. ht[t] = current
  <2>1. ht[t] \in Nat /\ ht[t] \in Version
    BY <1>3, <1>4, Constants
  <2> QED BY <1>1, <1>3, <1>4, <1>5, <2>1 DEF Blocks
<1>7. k \in CurrentBlock /\ block_status[current][k] = "Empty" /\ current < versions
      /\ current < MaxVersion
  BY <1>1, <1>4, <1>5, <1>6 DEF CurrentBlock
<1>8. /\ DOMAIN block_status' = Version
      /\ \A v \in Version :
           block_status'[v] \in [0..(Size[v] - 1) -> {"Uninit", "Empty", "Working", "Done"}]
      /\ block_status'[current][k] = "Working"
      /\ \A j \in 0..(Size[current] - 1) : j # k =>
           block_status'[current][j] = block_status[current][j]
      /\ \A j \in 0..(Size[current + 1] - 1) : block_status'[current + 1][j] =
           IF j \div Grow = k THEN "Empty" ELSE block_status[current + 1][j]
      /\ \A v \in Version : v < current => block_status'[v] = block_status[v]
  <2>1. block_status' = [block_status EXCEPT
           ![current][k] = "Working",
           ![current + 1] = [j \in DOMAIN @ |-> IF j \div Grow = k THEN "Empty" ELSE @[j]]]
    BY <1>1, <1>5, <1>6, Zenon
  <2> QED BY <1>4, <1>7, <2>1, ClaimWrites, Zenon
<1>9. /\ Size[current] \in Nat \ {0} /\ CurrentBlock \subseteq 0..(Size[current] - 1)
      /\ \A j \in CurrentIndex : InBlock(j) \in CurrentBlock /\ <<current, j>> \in Node /\ j \in Nat
      /\ \A j \in 0..(NumBlocks(current + 1) - 1) :
           j \div Grow \in CurrentBlock /\ j \in 0..(Size[current + 1] - 1)
  BY <1>4, <1>7, BlockIndices, Zenon
<1>10. /\ pc'[t] = "copyll" /\ i'[t] = k * BlockSize[current]
       /\ \A u \in Thread \ {t} : pc'[u] = pc[u] /\ i'[u] = i[u]
  BY <1>1, <1>5, <1>6, Zenon DEF Types
<1>11. k * BlockSize[current] \in CurrentIndex /\ InBlock(k * BlockSize[current]) = k
       /\ \A x \in Nat : InBlock(x) = k => k * BlockSize[current] <= x
  BY <1>4, <1>7, BlockStart, Zenon DEF CurrentIndex, CurrentBlock, InBlock
<1>12. Types'
  <2>1. i' \in [Thread -> Nat] /\ pc' \in [Thread -> Labels]
    <3>1. k * BlockSize[current] \in Nat
      BY <1>9, <1>11, Zenon
    <3> QED BY <1>1, <1>4, <1>5, <1>6, <3>1, Zenon DEF Types, Labels
  <2> QED BY <1>2, <1>4, <1>8, <2>1, Zenon DEF Types
<1>13. Shape'
  BY <1>2, Zenon DEF Shape
<1>14. Blocks'
  <2>1. \A v \in Version : v < current =>
          \A j \in 0..(NumBlocks(v) - 1) : block_status'[v][j] = "Done"
    BY <1>8 DEF Blocks
  <2>2. \A j \in CurrentBlock : block_status'[current][j] # "Uninit"
    BY <1>8, <1>9 DEF Blocks, Status
  <2>3. ASSUME NEW j \in CurrentIndex
        PROVE  /\ block_status'[current][InBlock(j)] = "Empty" => bucket[<<current, j>>] # Forwarded
               /\ block_status'[current][InBlock(j)] = "Done" => bucket[<<current, j>>] = Forwarded
    <3>1. CASE InBlock(j) = k
      BY <1>8, <3>1, Zenon
    <3>2. CASE InBlock(j) # k
      <4>1. block_status'[current][InBlock(j)] = block_status[current][InBlock(j)]
        BY <1>8, <1>9, <3>2, Zenon
      <4> QED BY <4>1, Zenon DEF Blocks, Status
    <3> QED BY <3>1, <3>2, Zenon
  <2>4. ASSUME NEW j \in 0..(NumBlocks(current + 1) - 1),
               block_status'[current][j \div Grow] # "Empty"
        PROVE  block_status'[current + 1][j] = "Empty"
    <3>1. CASE j \div Grow = k
      BY <1>8, <1>9, <3>1, Zenon
    <3>2. CASE j \div Grow # k
      <4>1. /\ block_status'[current][j \div Grow] = block_status[current][j \div Grow]
            /\ block_status'[current + 1][j] = block_status[current + 1][j]
        BY <1>8, <1>9, <3>2, Zenon
      <4> QED BY <1>7, <2>4, <4>1, Zenon DEF Blocks, Status
    <3> QED BY <3>1, <3>2, Zenon
  <2> QED BY <1>2, <1>4, <1>7, <2>1, <2>2, <2>3, <2>4
          DEF Blocks, Status, InBlock, CurrentBlock, CurrentIndex
<1>15. Copiers'
  <2>1. \A u \in Thread \ {t} : /\ Copies(u)' <=> Copies(u)
                                /\ Spot(u)' = Spot(u)
                                /\ pc'[u] = pc[u] /\ i'[u] = i[u] /\ ht'[u] = ht[u]
    BY <1>2, <1>10, Zenon DEF Copies, Spot
  <2>2. Spot(t)' = k * BlockSize[current] /\ ht'[t] = current /\ pc[t] = "copy"
    BY <1>1, <1>2, <1>6, <1>10, Zenon DEF Spot
  <2>3. ASSUME NEW u \in Thread \ {t}, Copies(u)'
        PROVE  /\ Spot(u) \in CurrentIndex /\ InBlock(Spot(u)) # k
               /\ block_status'[current][InBlock(Spot(u))] = "Working"
    <3>1. Spot(u) \in CurrentIndex /\ block_status[current][InBlock(Spot(u))] = "Working"
      BY <2>1, <2>3, Zenon DEF Copiers, Status
    <3> QED BY <1>7, <1>8, <1>9, <3>1, Zenon
  <2>4. ASSUME NEW u \in Thread, Copies(u)'
        PROVE  /\ ht'[u] = current /\ current < versions
               /\ Spot(u)' \in CurrentIndex
               /\ block_status'[current][InBlock(Spot(u)')] = "Working"
               /\ \A j \in CurrentIndex : InBlock(j) = InBlock(Spot(u)') =>
                    (bucket[<<current, j>>] = Forwarded <=> j < i'[u])
    <3>1. CASE u = t
      <4>1. \A j \in CurrentIndex : InBlock(j) = k =>
               bucket[<<current, j>>] # Forwarded /\ ~(j < k * BlockSize[current])
        <5>1. k * BlockSize[current] \in Nat
          BY <1>9, <1>11, Zenon
        <5> QED BY <1>7, <1>9, <1>11, <5>1 DEF Blocks, Status
      <4> QED BY <1>7, <1>8, <1>10, <1>11, <2>2, <3>1, <4>1
    <3>2. CASE u # t
      BY <1>7, <2>1, <2>3, <2>4, <3>2 DEF Copiers
    <3> QED BY <3>1, <3>2, Zenon
  <2>5. ASSUME NEW x \in Thread, NEW u \in Thread, Copies(x)', Copies(u)',
               InBlock(Spot(x)') = InBlock(Spot(u)')
        PROVE  x = u
    <3>1. CASE x # t /\ u # t
      BY <2>1, <2>5, <3>1, Zenon DEF Copiers
    <3>2. CASE x = t \/ u = t
      BY <1>11, <2>1, <2>2, <2>3, <2>5, <3>2
    <3> QED BY <3>1, <3>2, Zenon
  <2>6. \A u \in Thread : pc'[u] = "copied" => i'[u] % BlockSize[current] = 0
    BY <1>10, Zenon DEF Copiers
  <2>7. ASSUME NEW u \in Thread, pc'[u] = "copysc", NEW m \in Children(<<ht'[u], i'[u]>>)
        PROVE  bucket'[m] # None
    BY <1>2, <1>10, <2>1, <2>7, Zenon DEF Copiers, Source
  <2> QED BY <1>2, <2>4, <2>5, <2>6, <2>7, Zenon DEF Copiers, Status, InBlock, CurrentIndex, Source
<1>16. Counts'
  <2>1. Counting' = Counting
    BY <1>1, <1>10, Zenon DEF Counting
  <2>2. DoneBlocks' = DoneBlocks
    <3>1. \A j \in CurrentBlock : block_status'[current][j] = "Done" <=> block_status[current][j] = "Done"
      BY <1>7, <1>8, <1>9, Zenon
    <3> QED BY <1>2, <3>1, Zenon DEF DoneBlocks, CurrentBlock, Status
  <2> QED BY <1>2, <1>10, <2>1, <2>2, Zenon DEF Counts
<1>17. \A n : Live(n) => Live(n)'
  BY <1>2, Zenon DEF Live
<1>18. ASSUME NEW u \in Thread, u # t PROVE Position(u)'
  <2>1. NotOf(u)
    BY <1>2, <1>10, <1>18, Zenon DEF NotOf
  <2>2. current' \in Nat /\ current <= current' /\ versions' \in Nat /\ versions <= versions'
    BY <1>2, <1>4
  <2> QED BY <1>2, <1>17, <2>1, <2>2, OthersStay, Zenon DEF Positions
<1>19. Position(t)'
  <2>1. /\ s[t].fwd => bucket[b[t]] = Forwarded
        /\ tag[t] => s[t] = bucket[b[t]]
    BY <1>1, Zenon DEF Positions, Position, CopyLabels
  <2> QED BY <1>1, <1>2, <1>3, <1>4, <1>10, <1>17, <2>1, MovesOn DEF CopyLabels, WalkLabels
<1> QED BY <1>12, <1>13, <1>14, <1>15, <1>16, <1>18, <1>19, Zenon DEF Inv, Positions

(* Only the buckets that t copies to are written, and nobody gets there.   *)
LEMMA CopyWritesInv ==
  ASSUME Inv, NEW t \in Thread, pc[t] \in {"copyll", "copysc"},
         bucket' \in [Node -> State \cup {None}],
         \A n \in Node : IF n \in Children(Source(t)) THEN IsState(bucket'[n]) /\ ~bucket'[n].fwd
                                                      ELSE bucket'[n] = bucket[n],
         ctag' \in [Thread -> BOOLEAN],
         \/ pc[t] = "copyll" /\ pc' = [pc EXCEPT ![t] = "copysc"]
         \/ pc[t] = "copysc" /\ pc' = [pc EXCEPT ![t] = "copyll"],
         UNCHANGED <<versions, current, block_status, finished, call, inside, target, i, walk>>
  PROVE  Inv'
<1> Types /\ Shape /\ Blocks /\ Copiers /\ Counts /\ Positions
  BY Zenon DEF Inv
<1>1. UNCHANGED <<versions, current, block_status, finished, call, inside, ht, b, lev, s, tag,
                  out_s, i, todo>>
  BY Zenon DEF target, walk
<1>2. /\ Source(t) \in Node /\ current \in Nat
      /\ \A m \in Children(Source(t)) : m \in Node /\ m[1] = current + 1 /\ ~Live(m)
  BY CopierOf, Zenon
<1>3. \A m \in Children(Source(t)) :
        bucket[m] # Forwarded /\ bucket'[m] # Forwarded /\ bucket'[m] # None
  <2>1. \A m \in Children(Source(t)) : bucket[m] # Forwarded
    <3>1. current + 1 > current
      BY <1>2, Successor, Zenon
    <3> QED BY <1>2, <3>1, Zenon DEF Shape
  <2>2. \A m \in Children(Source(t)) : IsState(bucket'[m]) /\ ~bucket'[m].fwd
    BY <1>2, Zenon
  <2> QED BY <2>1, <2>2, NoEntriesState, Constants, Zenon DEF IsState
<1>4. SameMarkers
  BY <1>2, <1>3, Zenon DEF SameMarkers
<1>5. \A m \in Node : Live(m) => bucket'[m] = bucket[m]
  BY <1>2, Zenon
<1>6. /\ pc'[t] \in {"copyll", "copysc"} /\ pc'[t] # pc[t]
      /\ \A u \in Thread \ {t} : pc'[u] = pc[u]
  BY Zenon DEF Types
<1>7. Types'
  <2>1. \A n \in Node : bucket'[n] # None => IsState(bucket'[n])
    BY Zenon DEF Types
  <2>2. "copyll" \in Labels /\ "copysc" \in Labels
    BY Zenon DEF Labels
  <2>3. pc' \in [Thread -> Labels]
    BY <2>2, Zenon DEF Types
  <2> QED BY <1>1, <2>1, <2>3, ZenonT(60) DEF Types
<1>8. Shape' /\ Blocks'
  BY <1>1, <1>4, BucketsStay, Zenon
<1>9. Copiers' /\ Counts'
  <2>1. \A u \in Thread : pc[u] \in CopierLabels \/ pc'[u] \in CopierLabels =>
           /\ ht'[u] = ht[u]
           /\ \/ pc'[u] = pc[u]
              \/ pc[u] = "copysc" /\ pc'[u] = "copyll"
              \/ /\ pc[u] = "copyll" /\ pc'[u] = "copysc"
                 /\ \A m \in Children(Source(u)) : bucket'[m] # None
    BY <1>1, <1>3, <1>6, Zenon
  <2> QED BY <1>1, <1>4, <2>1, CopiersStay, Zenon
<1>10. \A n : Live(n) => Live(n)'
  BY <1>1, <1>4, LiveWithMarkers, Zenon
<1>11. /\ current' \in Nat /\ current <= current' /\ versions' \in Nat /\ versions <= versions'
       /\ \A n \in Node : bucket[n] = Forwarded => bucket'[n] = Forwarded
  <2>1. current \in Nat /\ versions \in Nat
    BY TypeFacts, Zenon
  <2>2. current <= current /\ versions <= versions
    BY <2>1
  <2>3. \A n \in Node : bucket[n] = Forwarded => bucket'[n] = Forwarded
    BY <1>4, Zenon DEF SameMarkers
  <2> QED BY <1>1, <2>1, <2>2, <2>3, Zenon
<1>12. \A u \in Thread : b[u] # None => bucket'[b[u]] = bucket[b[u]]
  <2> SUFFICES ASSUME NEW u \in Thread, b[u] # None PROVE bucket'[b[u]] = bucket[b[u]]
    BY Zenon
  <2>1. Position(u)
    BY Zenon DEF Positions
  <2>2. Live(b[u])
    BY <2>1, Zenon DEF Position
  <2>3. b[u] \in Node
    BY <2>2, Zenon DEF Live
  <2> QED BY <1>5, <2>2, <2>3, Zenon
<1>13. ASSUME NEW u \in Thread, u # t PROVE Position(u)'
  <2>1. NotOf(u)
    BY <1>1, <1>6, <1>12, <1>13, Zenon DEF NotOf
  <2> QED BY <1>10, <1>11, <2>1, OthersStay, Zenon DEF Positions
<1>14. Position(t)'
  <2>1. /\ op(t) \in Updates /\ b[t] # None
        /\ s[t].fwd => bucket[b[t]] = Forwarded
        /\ tag[t] => s[t] = bucket[b[t]]
    BY Zenon DEF Positions, Position, CopyLabels, WalkLabels
  <2> QED BY <1>1, <1>6, <1>10, <1>11, <1>12, <2>1, MovesOn, Zenon DEF CopyLabels, WalkLabels
<1> QED BY <1>7, <1>8, <1>9, <1>13, <1>14, Zenon DEF Inv, Positions

(* copy_bucket loads a bucket and fills those it is copied to.             *)
LEMMA CopyLLInv ==
  ASSUME StateFacts, Inv, NEW t \in Thread, CopyLL(t)
  PROVE  Inv'
<1> Types /\ Shape /\ Blocks /\ Copiers /\ Counts /\ Positions
  BY Zenon DEF Inv
<1>1. /\ pc[t] = "copyll" /\ ctag' = [ctag EXCEPT ![t] = TRUE]
      /\ bucket' = [n \in Node |-> IF n \in Children(Source(t))
                                     THEN Split(bucket[Source(t)], Share(n)) ELSE bucket[n]]
      /\ pc' = [pc EXCEPT ![t] = "copysc"]
      /\ UNCHANGED <<versions, current, block_status, finished, call, inside, target, i, walk>>
  BY Zenon DEF CopyLL, Goto
<1>2. bucket[Source(t)] \in State
  BY <1>1, CopierOf, Zenon
<1>3. \A n \in Node : LET x == Split(bucket[Source(t)], Share(n)) IN IsState(x) /\ ~x.fwd
  <2>1. \A n \in Node : Share(n) \in SUBSET Key
    BY Zenon DEF Share
  <2> QED BY <1>2, <2>1, Zenon DEF StateFacts, SplitFacts, IsState
<1>4. \A n \in Node : IF n \in Children(Source(t)) THEN IsState(bucket'[n]) /\ ~bucket'[n].fwd
                                                   ELSE bucket'[n] = bucket[n]
  BY <1>1, <1>3, Zenon
<1>5. bucket' \in [Node -> State \cup {None}] /\ ctag' \in [Thread -> BOOLEAN]
  BY <1>1, <1>3, Zenon DEF Types, IsState
<1> QED BY <1>1, <1>4, <1>5, CopyWritesInv, Zenon

(* The bucket has changed, and its copies are emptied again.               *)
LEMMA CopySCFailsInv ==
  ASSUME Inv, NEW t \in Thread, CopySCFails(t)
  PROVE  Inv'
<1> Types /\ Shape /\ Blocks /\ Copiers /\ Counts /\ Positions
  BY Zenon DEF Inv
<1>1. /\ pc[t] = "copysc"
      /\ bucket' = [n \in Node |-> IF n \in Children(Source(t)) THEN Empty ELSE bucket[n]]
      /\ pc' = [pc EXCEPT ![t] = "copyll"]
      /\ UNCHANGED <<versions, current, block_status, finished, call, inside, target, copying, walk>>
  BY Zenon DEF CopySCFails, Goto
<1>2. \A n \in Node : IF n \in Children(Source(t)) THEN IsState(bucket'[n]) /\ ~bucket'[n].fwd
                                                   ELSE bucket'[n] = bucket[n]
  BY <1>1, NoEntriesState, Zenon
<1>3. bucket' \in [Node -> State \cup {None}] /\ ctag' \in [Thread -> BOOLEAN]
  BY <1>1, NoEntriesState, Zenon DEF Types, copying
<1> QED BY <1>1, <1>2, <1>3, CopyWritesInv, Zenon DEF copying

(* The marker is stored: one more bucket of the block is forwarded.        *)
LEMMA CopySCSucceedsInv ==
  ASSUME Inv, NEW t \in Thread, CopySCSucceeds(t)
  PROVE  Inv'
<1> Types /\ Shape /\ Blocks /\ Copiers /\ Counts /\ Positions
  BY Zenon DEF Inv
<1>1. /\ pc[t] = "copysc" /\ i' = [i EXCEPT ![t] = i[t] + 1]
      /\ bucket' = [bucket EXCEPT ![Source(t)] = Forwarded]
      /\ tag' = [u \in Thread |-> tag[u] /\ b[u] # Source(t)]
      /\ ctag' = [u \in Thread |-> ctag[u] /\ Source(u) # Source(t)]
      /\ pc' = [pc EXCEPT ![t] = IF (i[t] + 1) % BlockSize[ht[t]] = 0 THEN "copied" ELSE "copyll"]
  BY Zenon DEF CopySCSucceeds, Goto, Written
<1>2. UNCHANGED <<versions, current, block_status, finished, call, inside, ht, b, lev, s, out_s, todo>>
  BY Zenon DEF CopySCSucceeds
<1>3. /\ ht[t] = current /\ i[t] \in CurrentIndex /\ Source(t) = <<current, i[t]>>
      /\ Source(t) \in Node
      /\ current < versions /\ current < MaxVersion /\ current \in Version /\ current \in Nat
      /\ Status(InBlock(i[t])) = "Working"
      /\ \A m \in Children(Source(t)) : m \in Node /\ m[1] = current + 1
  BY <1>1, CopierOf, Zenon
<1>4. PICK x \in CurrentIndex, n0 \in Node : x = i[t] /\ n0 = Source(t) /\ n0 = <<current, x>>
  BY <1>3, Zenon
<1>5. /\ bucket'[n0] = Forwarded /\ \A n \in Node \ {n0} : bucket'[n] = bucket[n]
      /\ bucket' \in [Node -> State \cup {None}]
  BY <1>1, <1>4, NoEntriesState, Zenon DEF Types
<1>6. /\ i'[t] = x + 1 /\ pc'[t] = IF (x + 1) % BlockSize[current] = 0 THEN "copied" ELSE "copyll"
      /\ \A u \in Thread \ {t} : pc'[u] = pc[u] /\ i'[u] = i[u]
  BY <1>1, <1>3, <1>4, Zenon DEF Types
<1>7. /\ \A j \in CurrentIndex : InBlock(j) \in CurrentBlock /\ <<current, j>> \in Node /\ j \in Nat
      /\ Types
  BY BlockIndices, Zenon
<1>8. /\ \A n \in Node : bucket[n] = Forwarded => bucket'[n] = Forwarded
      /\ \A n \in Node : bucket[n] # None => bucket'[n] # None
      /\ \A n \in Node : bucket'[n] = Forwarded => bucket[n] = Forwarded \/ n = n0
  BY <1>5, NoEntriesState, Zenon
<1>9. Types'
  <2>1. \A n \in Node : bucket'[n] # None => IsState(bucket'[n])
    BY <1>5, <1>7, NoEntriesState, Zenon DEF Types
  <2>2. tag' \in [Thread -> BOOLEAN] /\ ctag' \in [Thread -> BOOLEAN]
    BY <1>1, <1>7, Zenon DEF Types
  <2>3. i' \in [Thread -> Nat]
    <3>1. i[t] \in Nat /\ i[t] + 1 \in Nat /\ i \in [Thread -> Nat]
      BY <1>7, Successor, Zenon DEF Types
    <3> QED BY <1>1, <3>1, Zenon
  <2>4. "copied" \in Labels /\ "copyll" \in Labels
    BY Zenon DEF Labels
  <2>5. pc' \in [Thread -> Labels]
    BY <1>1, <1>7, <2>4, Zenon DEF Types
  <2> QED BY <1>2, <1>5, <1>7, <2>1, <2>2, <2>3, <2>5, Zenon DEF Types
<1>10. Shape'
  <2>1. \A m \in Children(n0) : bucket[m] # None /\ m \in Node
    BY <1>1, <1>3, <1>4, Zenon DEF Copiers
  <2>2. ASSUME NEW n \in Node, bucket'[n] = Forwarded, n[1] = current, NEW m \in Children(n)
        PROVE  bucket'[m] # None
    <3>1. bucket[m] # None
      BY <1>8, <2>1, <2>2, Zenon DEF Shape
    <3>2. m \in Node
      BY <1>3, <2>2, FamilyOf
    <3> QED BY <1>8, <3>1, <3>2, Zenon
  <2>3. n0[1] = current
    BY <1>4
  <2>4. ASSUME NEW n \in Node
        PROVE  /\ n[1] < current => bucket'[n] = Forwarded
               /\ n[1] <= current => bucket'[n] # None
               /\ n[1] > current => bucket'[n] # Forwarded
    <3>1. n[1] \in Nat
      BY NodeOf, Constants, Zenon
    <3> QED BY <1>3, <1>8, <2>3, <3>1, Zenon DEF Shape
  <2> QED BY <1>2, <2>2, <2>4, Zenon DEF Shape
<1>11. Blocks'
  <2>1. ASSUME NEW j \in CurrentIndex
        PROVE  /\ Status(InBlock(j)) = "Empty" => bucket'[<<current, j>>] # Forwarded
               /\ Status(InBlock(j)) = "Done" => bucket'[<<current, j>>] = Forwarded
    <3>1. <<current, j>> = n0 => Status(InBlock(j)) = "Working"
      BY <1>3, <1>4
    <3> QED BY <1>7, <1>8, <3>1, Zenon DEF Blocks
  <2> QED BY <1>2, <2>1, Zenon DEF Blocks, Status, InBlock, CurrentBlock, CurrentIndex
<1>12. Copiers'
  <2>1. \A u \in Thread \ {t} : /\ Copies(u)' <=> Copies(u)
                                /\ Spot(u)' = Spot(u)
                                /\ pc'[u] = pc[u] /\ i'[u] = i[u] /\ ht'[u] = ht[u]
    BY <1>2, <1>6, Zenon DEF Copies, Spot
  <2>2. /\ Copies(t) /\ Spot(t) = x /\ x \in Nat
        /\ \A j \in CurrentIndex : InBlock(j) = InBlock(x) => (bucket[<<current, j>>] = Forwarded <=> j < x)
    BY <1>1, <1>4, <1>7, Zenon DEF Copies, Spot, Copiers
  <2>3. Spot(t)' \in CurrentIndex /\ InBlock(Spot(t)') = InBlock(x)
    <3>1. CASE (x + 1) % BlockSize[current] = 0
      <4>1. Spot(t)' = x
        BY <1>6, <2>2, <3>1 DEF Spot
      <4> QED BY <4>1, Zenon
    <3>2. CASE (x + 1) % BlockSize[current] # 0
      <4>1. Spot(t)' = x + 1
        BY <1>6, <3>2, Zenon DEF Spot
      <4>2. x + 1 \in CurrentIndex /\ InBlock(x + 1) = InBlock(x)
        BY <1>3, <3>2, BlockEnd, Zenon DEF CurrentIndex, InBlock
      <4> QED BY <4>1, <4>2, Zenon
    <3> QED BY <3>1, <3>2, Zenon
  <2>4. ASSUME NEW u \in Thread \ {t}, Copies(u)
        PROVE  Spot(u) \in CurrentIndex /\ InBlock(Spot(u)) # InBlock(x)
    BY <2>2, <2>4, Zenon DEF Copiers
  <2>5. ASSUME NEW u \in Thread, Copies(u)'
        PROVE  /\ ht'[u] = current /\ current < versions
               /\ Spot(u)' \in CurrentIndex
               /\ Status(InBlock(Spot(u)')) = "Working"
               /\ \A j \in CurrentIndex : InBlock(j) = InBlock(Spot(u)') =>
                    (bucket'[<<current, j>>] = Forwarded <=> j < i'[u])
    <3>1. CASE u = t
      <4>1. ASSUME NEW j \in CurrentIndex, InBlock(j) = InBlock(x)
            PROVE  bucket'[<<current, j>>] = Forwarded <=> j < x + 1
        <5>1. CASE j = x
          BY <1>4, <1>5, <2>2, <5>1
        <5>2. CASE j # x
          <6>1. bucket'[<<current, j>>] = bucket[<<current, j>>] /\ j \in Nat
            BY <1>4, <1>5, <1>7, <5>2
          <6> QED BY <2>2, <4>1, <5>2, <6>1
        <5> QED BY <5>1, <5>2, Zenon
      <4> QED BY <1>2, <1>3, <1>4, <1>6, <2>3, <3>1, <4>1, Zenon
    <3>2. CASE u # t
      <4>1. /\ ht[u] = current /\ Spot(u) \in CurrentIndex /\ InBlock(Spot(u)) # InBlock(x)
            /\ Status(InBlock(Spot(u))) = "Working"
            /\ \A j \in CurrentIndex : InBlock(j) = InBlock(Spot(u)) =>
                    (bucket[<<current, j>>] = Forwarded <=> j < i[u])
        BY <2>1, <2>4, <2>5, <3>2, Zenon DEF Copiers
      <4>2. \A j \in CurrentIndex : InBlock(j) = InBlock(Spot(u)) =>
              bucket'[<<current, j>>] = bucket[<<current, j>>]
        BY <1>4, <1>5, <1>7, <4>1
      <4> QED BY <1>3, <2>1, <3>2, <4>1, <4>2, Zenon
    <3> QED BY <3>1, <3>2, Zenon
  <2>6. ASSUME NEW y \in Thread, NEW u \in Thread, Copies(y)', Copies(u)',
               InBlock(Spot(y)') = InBlock(Spot(u)')
        PROVE  y = u
    <3>1. CASE y # t /\ u # t
      BY <2>1, <2>6, <3>1, Zenon DEF Copiers
    <3>2. CASE y = t \/ u = t
      BY <2>1, <2>3, <2>4, <2>6, <3>2, Zenon
    <3> QED BY <3>1, <3>2, Zenon
  <2>7. \A u \in Thread : pc'[u] = "copied" => i'[u] % BlockSize[current] = 0
    BY <1>6, Zenon DEF Copiers
  <2>8. ASSUME NEW u \in Thread, pc'[u] = "copysc", NEW m \in Children(<<ht'[u], i'[u]>>)
        PROVE  bucket'[m] # None
    <3>1. u # t /\ pc[u] = "copysc" /\ m \in Children(Source(u))
      BY <1>2, <1>6, <2>8, Zenon DEF Source
    <3>2. bucket[m] # None /\ m \in Node
      BY <3>1, CopierOf, Zenon DEF Copiers
    <3> QED BY <1>8, <3>2, Zenon
  <2> QED BY <1>2, <2>5, <2>6, <2>7, <2>8, Zenon DEF Copiers, Status, InBlock, CurrentIndex, Source
<1>13. Counts'
  <2>1. Counting' = Counting /\ DoneBlocks' = DoneBlocks
    BY <1>1, <1>2, <1>6 DEF Counting, DoneBlocks, CurrentBlock, Status
  <2>2. \A u \in Thread : pc'[u] \in {"count", "switch"} => pc'[u] = pc[u]
    BY <1>6, Zenon
  <2> QED BY <1>2, <2>1, <2>2, Zenon DEF Counts
<1>14. ASSUME NEW n, Live(n) PROVE Live(n)'
  <2>1. n \in Node /\ bucket'[n] # None /\ n[1] \in Nat
    BY <1>8, <1>14, NodeOf, Constants, Zenon DEF Live
  <2>2. bucket[Parent(n)] = Forwarded /\ n[1] > 1 => bucket'[Parent(n)] = Forwarded
    BY <1>8, <2>1, FamilyOf, Zenon
  <2> QED BY <1>2, <1>3, <1>14, <2>1, <2>2, Constants DEF Live
<1>15. current' \in Nat /\ current <= current' /\ versions' \in Nat /\ versions <= versions'
  BY <1>2, <1>7, TypeFacts
<1>16. \A u \in Thread : tag'[u] => tag[u] /\ (b[u] # None => bucket'[b[u]] = bucket[b[u]])
  BY <1>1, <1>4, <1>5, <1>7, Zenon DEF Types
<1>17. ASSUME NEW u \in Thread, u # t PROVE Position(u)'
  <2>1. NotOf(u)
    BY <1>2, <1>6, <1>16, <1>17, Zenon DEF NotOf
  <2> QED BY <1>7, <1>8, <1>14, <1>15, <2>1, OthersStay, Zenon DEF Positions
<1>18. Position(t)'
  <2>1. /\ op(t) \in Updates /\ b[t] # None /\ b[t] \in Node
        /\ s[t].fwd => bucket[b[t]] = Forwarded
        /\ tag[t] => s[t] = bucket[b[t]]
    BY <1>1, <1>7, Zenon DEF Positions, Position, CopyLabels, WalkLabels, Types
  <2>2. pc'[t] \in {"copied", "copyll"}
    BY <1>6, Zenon
  <2> QED
    BY <1>1, <1>2, <1>8, <1>14, <1>15, <1>16, <2>1, <2>2, MovesOn,
       Zenon DEF CopyLabels, WalkLabels
<1> QED BY <1>9, <1>10, <1>11, <1>12, <1>13, <1>17, <1>18, Zenon DEF Inv, Positions

(* The numbers that Counts relates.                                        *)
LEMMA CountFacts ==
  ASSUME SetFacts, Types
  PROVE  /\ IsFiniteSet(Counting) /\ Cardinality(Counting) \in Nat
         /\ IsFiniteSet(DoneBlocks) /\ Cardinality(DoneBlocks) \in Nat
         /\ NumBlocks(current) \in Nat \ {0} /\ Cardinality(DoneBlocks) <= NumBlocks(current)
         /\ Cardinality(DoneBlocks) = NumBlocks(current) => DoneBlocks = CurrentBlock
         /\ \A u \in Counting : Cardinality(Counting) >= 1
<1>1. NumBlocks(current) \in Nat \ {0}
  BY TypeFacts, BlocksOf, Zenon
<1>2. IsFiniteSet(CurrentBlock) /\ Cardinality(CurrentBlock) = NumBlocks(current)
  BY <1>1, Zenon DEF SetFacts, CurrentBlock
<1>3. DoneBlocks \in SUBSET CurrentBlock /\ Counting \in SUBSET Thread
  BY Zenon DEF DoneBlocks, Counting
<1>4. IsFiniteSet(Counting) /\ IsFiniteSet(DoneBlocks)
      /\ Cardinality(DoneBlocks) <= NumBlocks(current)
      /\ (Cardinality(DoneBlocks) = NumBlocks(current) => DoneBlocks = CurrentBlock)
  <2>1. IsFiniteSet(Thread)
    BY Constants, Zenon
  <2>2. IsFiniteSet(Counting)
    BY <1>3, <2>1, Zenon DEF SetFacts
  <2>3. /\ IsFiniteSet(DoneBlocks) /\ Cardinality(DoneBlocks) <= Cardinality(CurrentBlock)
        /\ Cardinality(DoneBlocks) = Cardinality(CurrentBlock) => DoneBlocks = CurrentBlock
    BY <1>2, <1>3, Zenon DEF SetFacts
  <2> QED BY <1>2, <2>2, <2>3, Zenon
<1>5. Cardinality(Counting) \in Nat /\ Cardinality(DoneBlocks) \in Nat
  BY <1>4, Zenon DEF SetFacts
<1>6. ASSUME NEW u \in Counting PROVE Cardinality(Counting) >= 1
  <2>1. Counting \ {u} \in SUBSET Counting
    BY Zenon
  <2>2. IsFiniteSet(Counting \ {u})
    BY <1>4, <2>1, Zenon DEF SetFacts
  <2>3. Cardinality(Counting \ {u}) = Cardinality(Counting) - 1 /\ Cardinality(Counting \ {u}) \in Nat
    BY <1>4, <1>6, <2>2, Zenon DEF SetFacts
  <2> QED BY <1>5, <2>3
<1> QED BY <1>1, <1>4, <1>5, <1>6, Zenon

(* The block is done, and has still to be counted.                         *)
LEMMA CopyDoneInv ==
  ASSUME SetFacts, Inv, NEW t \in Thread, CopyDone(t)
  PROVE  Inv'
<1> Types /\ Shape /\ Blocks /\ Copiers /\ Counts /\ Positions
  BY Zenon DEF Inv
<1>1. /\ pc[t] = "copied"
      /\ block_status' = [block_status EXCEPT ![ht[t]][(i[t] - 1) \div BlockSize[ht[t]]] = "Done"]
      /\ i' = [i EXCEPT ![t] = 0]
      /\ pc' = [pc EXCEPT ![t] = "count"]
  BY Zenon DEF CopyDone, Goto
<1>2. UNCHANGED <<bucket, versions, current, finished, call, inside, ht, b, lev, s, tag, out_s,
                  ctag, todo>>
  BY Zenon DEF CopyDone, target, walk
<1>3. /\ Types /\ current \in Version /\ current \in Nat /\ versions \in Nat
      /\ CurrentBlock \subseteq 0..(Size[current] - 1)
      /\ \A j \in CurrentIndex : InBlock(j) \in CurrentBlock /\ <<current, j>> \in Node /\ j \in Nat
  BY TypeFacts, BlockIndices, Zenon
<1>4. Copies(t) /\ Spot(t) = i[t] - 1
  BY <1>1, Zenon DEF Copies, Spot
<1>5. /\ ht[t] = current /\ current < versions /\ Spot(t) \in CurrentIndex
      /\ Status(InBlock(Spot(t))) = "Working"
      /\ \A j \in CurrentIndex : InBlock(j) = InBlock(Spot(t)) =>
            (bucket[<<current, j>>] = Forwarded <=> j < i[t])
      /\ i[t] % BlockSize[current] = 0
  BY <1>1, <1>4, Zenon DEF Copiers
<1>6. PICK x \in CurrentIndex : x = i[t] - 1
  BY <1>4, <1>5, Zenon
<1>7. PICK k \in CurrentBlock : k = InBlock(x)
  BY <1>3, Zenon
<1>8. i[t] = x + 1 /\ x \in Nat
  <2>1. i[t] \in Nat /\ x \in Nat
    BY <1>3, Zenon DEF Types
  <2> QED BY <1>6, <2>1
<1>9. /\ block_status[current][k] = "Working"
      /\ \A j \in CurrentIndex : InBlock(j) = k => bucket[<<current, j>>] = Forwarded
  <2>1. block_status[current][k] = "Working"
    BY <1>4, <1>5, <1>6, <1>7, Zenon DEF Status
  <2>2. ASSUME NEW j \in CurrentIndex, InBlock(j) = k PROVE bucket[<<current, j>>] = Forwarded
    <3>1. j <= x
      BY <1>3, <1>5, <1>7, <1>8, <2>2, BlockEnd DEF CurrentIndex, InBlock
    <3> QED BY <1>3, <1>4, <1>5, <1>6, <1>7, <1>8, <2>2, <3>1
  <2> QED BY <2>1, <2>2, Zenon
<1>10. /\ block_status'[current][k] = "Done"
       /\ \A j \in 0..(Size[current] - 1) : j # k =>
            block_status'[current][j] = block_status[current][j]
       /\ \A v \in Version : v # current => block_status'[v] = block_status[v]
       /\ DOMAIN block_status' = Version
       /\ \A v \in Version :
            block_status'[v] \in [0..(Size[v] - 1) -> {"Uninit", "Empty", "Working", "Done"}]
  <2>1. block_status' = [block_status EXCEPT ![current][k] = "Done"]
    BY <1>1, <1>5, <1>6, <1>7, Zenon DEF InBlock
  <2>2. k \in 0..(Size[current] - 1)
    BY <1>3, Zenon
  <2> QED BY <1>3, <2>1, <2>2, Zenon DEF Types
<1>11. /\ pc'[t] = "count" /\ \A u \in Thread \ {t} : pc'[u] = pc[u] /\ i'[u] = i[u]
  BY <1>1, <1>3, Zenon DEF Types
<1>12. Types'
  <2>1. i' \in [Thread -> Nat] /\ pc' \in [Thread -> Labels]
    BY <1>1, <1>3, Zenon DEF Types, Labels
  <2> QED BY <1>2, <1>3, <1>10, <2>1, Zenon DEF Types
<1>13. Shape'
  BY <1>2, Zenon DEF Shape
<1>14. Blocks'
  <2>1. \A v \in Version : v < current =>
          \A j \in 0..(NumBlocks(v) - 1) : block_status'[v][j] = "Done"
    <3>1. \A v \in Version : v < current => v # current
      BY <1>3, Constants
    <3> QED BY <1>10, <3>1 DEF Blocks
  <2>2. \A j \in CurrentBlock : block_status'[current][j] # "Uninit"
    BY <1>3, <1>10 DEF Blocks, Status
  <2>3. ASSUME NEW j \in CurrentIndex
        PROVE  /\ block_status'[current][InBlock(j)] = "Empty" => bucket[<<current, j>>] # Forwarded
               /\ block_status'[current][InBlock(j)] = "Done" => bucket[<<current, j>>] = Forwarded
    <3>1. CASE InBlock(j) = k
      BY <1>9, <1>10, <3>1, Zenon
    <3>2. CASE InBlock(j) # k
      <4>1. block_status'[current][InBlock(j)] = block_status[current][InBlock(j)]
        BY <1>3, <1>10, <3>2, Zenon
      <4> QED BY <4>1, Zenon DEF Blocks, Status
    <3> QED BY <3>1, <3>2, Zenon
  <2>4. ASSUME current < MaxVersion, NEW j \in 0..(NumBlocks(current + 1) - 1),
               block_status'[current][j \div Grow] # "Empty"
        PROVE  block_status'[current + 1][j] = "Empty"
    <3>1. j \div Grow \in CurrentBlock /\ current + 1 \in Version /\ current + 1 # current
      <4>1. j \div Grow \in CurrentBlock
        BY <1>3, <2>4, BlockIndices, Zenon
      <4> QED BY <1>3, <2>4, <4>1, Constants
    <3>2. block_status[current][j \div Grow] # "Empty"
      BY <1>3, <1>9, <1>10, <2>4, <3>1, Zenon
    <3> QED BY <1>10, <2>4, <3>1, <3>2, Zenon DEF Blocks, Status
  <2>5. versions # current
    BY <1>3, <1>5, Successor, TypeFacts, Zenon
  <2> QED BY <1>2, <2>1, <2>2, <2>3, <2>4, <2>5, Zenon
          DEF Blocks, Status, InBlock, CurrentBlock, CurrentIndex
<1>15. Copiers'
  <2>1. \A u \in Thread : /\ Copies(u)' => u # t /\ Copies(u)
                          /\ u # t => /\ Spot(u)' = Spot(u)
                                      /\ pc'[u] = pc[u] /\ i'[u] = i[u] /\ ht'[u] = ht[u]
    BY <1>2, <1>11, Zenon DEF Copies, Spot
  <2>2. ASSUME NEW u \in Thread, Copies(u)'
        PROVE  /\ ht'[u] = current /\ current < versions
               /\ Spot(u) \in CurrentIndex
               /\ block_status'[current][InBlock(Spot(u))] = "Working"
               /\ \A j \in CurrentIndex : InBlock(j) = InBlock(Spot(u)) =>
                    (bucket[<<current, j>>] = Forwarded <=> j < i'[u])
    <3>1. /\ ht[u] = current /\ Spot(u) \in CurrentIndex /\ InBlock(Spot(u)) # k
          /\ block_status[current][InBlock(Spot(u))] = "Working"
          /\ \A j \in CurrentIndex : InBlock(j) = InBlock(Spot(u)) =>
                  (bucket[<<current, j>>] = Forwarded <=> j < i[u])
      BY <1>4, <1>6, <1>7, <2>1, <2>2, Zenon DEF Copiers, Status
    <3> QED BY <1>3, <1>5, <1>10, <2>1, <2>2, <3>1, Zenon
  <2>3. \A y, u \in Thread : Copies(y)' /\ Copies(u)' /\ InBlock(Spot(y)) = InBlock(Spot(u)) => y = u
    BY <2>1, Zenon DEF Copiers
  <2>4. \A u \in Thread : pc'[u] = "copied" => i'[u] % BlockSize[current] = 0
    BY <1>11, Zenon DEF Copiers
  <2>5. ASSUME NEW u \in Thread, pc'[u] = "copysc", NEW m \in Children(<<ht'[u], i'[u]>>)
        PROVE  bucket'[m] # None
    BY <1>2, <1>11, <2>5, Zenon DEF Copiers, Source
  <2>6. \A u \in Thread : Copies(u)' => Spot(u)' = Spot(u)
    BY <2>1, Zenon
  <2> QED BY <1>2, <2>2, <2>3, <2>4, <2>5, <2>6, Zenon
          DEF Copiers, Status, InBlock, CurrentIndex, Source
<1>16. Counts'
  <2>1. Counting' = Counting \cup {t} /\ t \notin Counting
    BY <1>1, <1>11, Zenon DEF Counting
  <2>2. DoneBlocks' = DoneBlocks \cup {k} /\ k \notin DoneBlocks
    <3>1. \A j \in CurrentBlock : block_status'[current][j] = "Done" <=>
                                    (block_status[current][j] = "Done" \/ j = k)
      BY <1>3, <1>10, Zenon
    <3> QED BY <1>2, <1>9, <3>1, Zenon DEF DoneBlocks, CurrentBlock, Status
  <2>3. /\ Cardinality(Counting') = Cardinality(Counting) + 1
        /\ Cardinality(DoneBlocks') = Cardinality(DoneBlocks) + 1
        /\ Cardinality(Counting) \in Nat /\ Cardinality(DoneBlocks) \in Nat
    BY <1>3, <2>1, <2>2, CountFacts, Zenon DEF SetFacts
  <2>4. finished \in [Version -> Nat]
    BY <1>3, Zenon DEF Types
  <2>5. ASSUME NEW v \in Version, v > 1
        PROVE  /\ v - 1 < current => finished[v] = NumBlocks(v - 1)
               /\ v - 1 = current => finished[v] + Cardinality(Counting') = Cardinality(DoneBlocks')
               /\ v - 1 > current => finished[v] = 0
    BY <2>3, <2>4, <2>5 DEF Counts
  <2>6. \A u \in Thread : u # t => pc'[u] = pc[u]
    BY <1>11, Zenon
  <2>7. \A u \in Thread : pc'[u] \in {"count", "switch"} => ht[u] = current /\ current < versions
    BY <1>5, <1>11, <2>6, Zenon DEF Counts
  <2>8. \A u \in Thread : pc'[u] = "switch" => pc[u] = "switch"
    BY <1>11, <2>6
  <2>9. \A u \in Thread : pc'[u] = "switch" => finished[current + 1] = NumBlocks(current)
    BY <2>8, Zenon DEF Counts
  <2>10. \A y, u \in Thread : pc'[y] = "switch" /\ pc'[u] = "switch" => y = u
    BY <2>8, Zenon DEF Counts
  <2> QED BY <1>2, <2>5, <2>7, <2>9, <2>10, Zenon DEF Counts
<1>17. \A n : Live(n) => Live(n)'
  BY <1>2, Zenon DEF Live
<1>18. current' \in Nat /\ current <= current' /\ versions' \in Nat /\ versions <= versions'
  BY <1>2, <1>3
<1>19. ASSUME NEW u \in Thread, u # t PROVE Position(u)'
  <2>1. NotOf(u)
    BY <1>2, <1>11, <1>19, Zenon DEF NotOf
  <2> QED BY <1>2, <1>3, <1>17, <1>18, <2>1, OthersStay, Zenon DEF Positions
<1>20. Position(t)'
  <2>1. /\ op(t) \in Updates /\ (s[t].fwd => bucket[b[t]] = Forwarded)
        /\ tag[t] => s[t] = bucket[b[t]]
    BY <1>1, Zenon DEF Positions, Position, CopyLabels
  <2> QED BY <1>1, <1>2, <1>11, <1>17, <1>18, <2>1, MovesOn, Zenon DEF CopyLabels, WalkLabels
<1> QED BY <1>12, <1>13, <1>14, <1>15, <1>16, <1>19, <1>20, Zenon DEF Inv, Positions

(* The copiers are not concerned when a thread comes to, or leaves, count  *)
(* or switch.                                                              *)
LEMMA CopiersKeep ==
  ASSUME Inv, UNCHANGED <<bucket, versions, current, block_status, ht, i>>,
         \A u \in Thread : Copies(u) \/ Copies(u)' => pc'[u] = pc[u]
  PROVE  Copiers'
<1> Types /\ Shape /\ Blocks /\ Copiers /\ Counts /\ Positions
  BY Zenon DEF Inv
<1>1. \A u \in Thread : /\ Copies(u)' => Copies(u) /\ Spot(u)' = Spot(u)
                        /\ pc'[u] \in {"copied", "copysc"} => pc'[u] = pc[u]
  BY Zenon DEF Copies, Spot
<1> QED BY <1>1 DEF Copiers, Status, InBlock, CurrentIndex, Source

(* finished_block_count goes up; who counts the last block switches.       *)
LEMMA CopyCountInv ==
  ASSUME SetFacts, Inv, NEW t \in Thread, CopyCount(t)
  PROVE  Inv'
<1> Types /\ Shape /\ Blocks /\ Copiers /\ Counts /\ Positions
  BY Zenon DEF Inv
<1>1. /\ pc[t] = "count"
      /\ finished' = [finished EXCEPT ![ht[t] + 1] = finished[ht[t] + 1] + 1]
      /\ pc' = [pc EXCEPT ![t] = IF finished[ht[t] + 1] + 1 = NumBlocks(ht[t]) THEN "switch" ELSE "check"]
  BY Zenon DEF CopyCount, Goto
<1>2. UNCHANGED <<bucket, versions, current, block_status, call, inside, ht, b, lev, s, tag, out_s,
                  i, ctag, todo>>
  BY Zenon DEF CopyCount, target, walk, copying
<1>3. /\ Types /\ current \in Version /\ current \in Nat /\ versions \in Nat
      /\ ht[t] = current /\ current < versions /\ current + 1 \in Version
  BY <1>1, TypeFacts, Zenon DEF Counts
<1>4. /\ pc'[t] = IF finished[current + 1] + 1 = NumBlocks(current) THEN "switch" ELSE "check"
      /\ \A u \in Thread \ {t} : pc'[u] = pc[u]
  BY <1>1, <1>3, Zenon DEF Types
<1>5. /\ finished'[current + 1] = finished[current + 1] + 1
      /\ \A v \in Version : v # current + 1 => finished'[v] = finished[v]
      /\ finished' \in [Version -> Nat] /\ finished[current + 1] \in Nat
  <2>1. finished \in [Version -> Nat]
    BY <1>3, Zenon DEF Types
  <2>2. finished[current + 1] \in Nat
    BY <1>3, <2>1, Zenon
  <2> QED BY <1>1, <1>3, <2>1, <2>2
<1>6. Types'
  <2>1. "switch" \in Labels /\ "check" \in Labels
    BY Zenon DEF Labels
  <2>2. pc' \in [Thread -> Labels]
    BY <1>1, <1>3, <2>1, Zenon DEF Types
  <2> QED BY <1>2, <1>3, <1>5, <2>2, Zenon DEF Types
<1>7. Shape' /\ Blocks'
  BY <1>2, Zenon DEF Shape, Blocks, Status, InBlock, CurrentBlock, CurrentIndex
<1>8. Copiers'
  <2>1. \A u \in Thread : Copies(u) \/ Copies(u)' => pc'[u] = pc[u]
    BY <1>1, <1>4 DEF Copies
  <2> QED BY <1>2, <2>1, CopiersKeep, Zenon
<1>9. Counts'
  <2>1. Counting' = Counting \ {t} /\ t \in Counting
    BY <1>1, <1>4 DEF Counting
  <2>2. DoneBlocks' = DoneBlocks
    BY <1>2, Zenon DEF DoneBlocks, CurrentBlock, Status
  <2>3. /\ Cardinality(Counting) \in Nat /\ Cardinality(Counting) >= 1
        /\ Cardinality(DoneBlocks) \in Nat /\ NumBlocks(current) \in Nat
        /\ Cardinality(DoneBlocks) <= NumBlocks(current)
        /\ IsFiniteSet(Counting)
    BY <1>3, <2>1, CountFacts, Zenon
  <2>4. Cardinality(Counting') = Cardinality(Counting) - 1
    BY <2>1, <2>3, Zenon DEF SetFacts
  <2>5. finished[current + 1] + Cardinality(Counting) = Cardinality(DoneBlocks)
    <3>1. current + 1 > 1 /\ (current + 1) - 1 = current
      BY <1>3, Constants
    <3> QED BY <1>3, <3>1, Zenon DEF Counts
  <2>6. \A u \in Thread : pc[u] # "switch"
    <3>1. finished[current + 1] # NumBlocks(current)
      BY <1>5, <2>3, <2>5
    <3> QED BY <3>1, Zenon DEF Counts
  <2>7. ASSUME NEW v \in Version, v > 1
        PROVE  /\ v - 1 < current => finished'[v] = NumBlocks(v - 1)
               /\ v - 1 = current => finished'[v] + Cardinality(Counting') = Cardinality(DoneBlocks)
               /\ v - 1 > current => finished'[v] = 0
    <3>1. v \in Nat
      BY Constants, Zenon
    <3>2. CASE v = current + 1
      BY <1>3, <1>5, <2>3, <2>4, <2>5, <3>2
    <3>3. CASE v # current + 1
      <4>1. finished'[v] = finished[v] /\ v - 1 # current
        BY <1>3, <1>5, <3>1, <3>3
      <4> QED BY <2>7, <4>1, Zenon DEF Counts
    <3> QED BY <3>2, <3>3, Zenon
  <2>8. \A u \in Thread : pc'[u] = "switch" => u = t /\ finished'[current + 1] = NumBlocks(current)
    BY <1>4, <1>5, <2>6, Zenon
  <2>9. \A u \in Thread : pc'[u] \in {"count", "switch"} => ht[u] = current
    BY <1>3, <1>4, Zenon DEF Counts
  <2> QED BY <1>2, <1>3, <2>2, <2>7, <2>8, <2>9, Zenon DEF Counts
<1>10. \A n : Live(n) => Live(n)'
  BY <1>2, Zenon DEF Live
<1>11. current' \in Nat /\ current <= current' /\ versions' \in Nat /\ versions <= versions'
  BY <1>2, <1>3
<1>12. ASSUME NEW u \in Thread, u # t PROVE Position(u)'
  <2>1. NotOf(u)
    BY <1>2, <1>4, <1>12, Zenon DEF NotOf
  <2> QED BY <1>2, <1>3, <1>10, <1>11, <2>1, OthersStay, Zenon DEF Positions
<1>13. Position(t)'
  <2>1. /\ op(t) \in Updates /\ (s[t].fwd => bucket[b[t]] = Forwarded)
        /\ tag[t] => s[t] = bucket[b[t]]
    BY <1>1, Zenon DEF Positions, Position, CopyLabels
  <2>2. pc'[t] \in {"switch", "check"}
    BY <1>4, Zenon
  <2> QED BY <1>1, <1>2, <1>10, <1>11, <2>1, <2>2, MovesOn, Zenon DEF CopyLabels, WalkLabels
<1> QED BY <1>6, <1>7, <1>8, <1>9, <1>12, <1>13, Zenon DEF Inv, Positions

(* When a thread is to switch, the whole version has been copied.          *)
LEMMA SwitchOf ==
  ASSUME SetFacts, Inv, NEW t \in Thread, pc[t] = "switch"
  PROVE  /\ ht[t] = current /\ versions = current + 1 /\ current \in Nat /\ current + 1 \in Version
         /\ finished[current + 1] = NumBlocks(current)
         /\ \A j \in CurrentBlock : Status(j) = "Done"
         /\ \A n \in Node : n[1] = current => bucket[n] = Forwarded
         /\ \A n \in Node : n[1] = current + 1 => bucket[n] # None
         /\ \A u \in Thread : ~Copies(u) /\ pc[u] # "count"
<1> Types /\ Shape /\ Blocks /\ Copiers /\ Counts /\ Positions
  BY Zenon DEF Inv
<1>1. /\ Types /\ current \in Version /\ current \in Nat /\ versions \in Nat
      /\ ht[t] = current /\ current < versions /\ current + 1 \in Version /\ current < MaxVersion
      /\ finished[current + 1] = NumBlocks(current)
  BY TypeFacts, Zenon DEF Counts
<1>2. versions = current + 1
  BY <1>1 DEF Shape
<1>3. finished[current + 1] + Cardinality(Counting) = Cardinality(DoneBlocks)
  <2>1. current + 1 > 1 /\ (current + 1) - 1 = current
    BY <1>1, Constants
  <2> QED BY <1>1, <2>1, Zenon DEF Counts
<1>4. /\ Cardinality(Counting) \in Nat /\ Cardinality(DoneBlocks) \in Nat
      /\ NumBlocks(current) \in Nat /\ Cardinality(DoneBlocks) <= NumBlocks(current)
      /\ Cardinality(DoneBlocks) = NumBlocks(current) => DoneBlocks = CurrentBlock
      /\ \A u \in Counting : Cardinality(Counting) >= 1
  BY <1>1, CountFacts, Zenon
<1>5. Cardinality(DoneBlocks) = NumBlocks(current) /\ Cardinality(Counting) = 0
  BY <1>1, <1>3, <1>4
<1>6. DoneBlocks = CurrentBlock
  BY <1>4, <1>5, Zenon
<1>7. \A u \in Thread : pc[u] # "count"
  <2>1. \A u \in Counting : FALSE
    BY <1>4, <1>5
  <2> QED BY <2>1, Zenon DEF Counting
<1>8. \A j \in CurrentBlock : Status(j) = "Done"
  BY <1>6, Zenon DEF DoneBlocks
<1>9. /\ \A j \in CurrentIndex : InBlock(j) \in CurrentBlock
  BY <1>1, BlockIndices, Zenon
<1>10. \A u \in Thread : ~Copies(u)
  BY <1>8, <1>9, Zenon DEF Copiers
<1>11. ASSUME NEW n \in Node, n[1] = current PROVE bucket[n] = Forwarded
  <2>1. n = <<current, n[2]>> /\ n[2] \in CurrentIndex
    BY <1>1, <1>11, NodeOf, Constants DEF CurrentIndex
  <2>2. bucket[<<current, n[2]>>] = Forwarded
    BY <1>8, <1>9, <2>1, Zenon DEF Blocks
  <2> QED BY <2>1, <2>2, Zenon
<1>12. ASSUME NEW n \in Node, n[1] = current + 1 PROVE bucket[n] # None
  <2>1. n[1] > 1 /\ n[1] - 1 = current
    BY <1>1, <1>12, Constants
  <2>2. Parent(n) \in Node /\ Parent(n)[1] = current /\ n \in Children(Parent(n))
    BY <2>1, FamilyOf, Zenon
  <2> QED BY <1>11, <2>2, Zenon DEF Shape
<1> QED BY <1>1, <1>2, <1>7, <1>8, <1>10, <1>11, <1>12, Zenon

(* The next version becomes current.                                       *)
LEMMA SwitchInv ==
  ASSUME SetFacts, Inv, NEW t \in Thread, Switch(t)
  PROVE  Inv'
<1> Types /\ Shape /\ Blocks /\ Copiers /\ Counts /\ Positions
  BY Zenon DEF Inv
<1>1. /\ pc[t] = "switch" /\ current' = ht[t] + 1 /\ pc' = [pc EXCEPT ![t] = "check"]
  BY Zenon DEF Switch, Goto
<1>2. UNCHANGED <<bucket, versions, block_status, finished, call, inside, ht, b, lev, s, tag, out_s,
                  i, ctag, todo>>
  BY Zenon DEF Switch, target, walk, copying
<1>3. /\ ht[t] = current /\ versions = current + 1 /\ current \in Nat /\ current + 1 \in Version
      /\ finished[current + 1] = NumBlocks(current)
      /\ \A j \in CurrentBlock : Status(j) = "Done"
      /\ \A n \in Node : n[1] = current => bucket[n] = Forwarded
      /\ \A n \in Node : n[1] = current + 1 => bucket[n] # None
      /\ \A u \in Thread : ~Copies(u) /\ pc[u] # "count"
  BY <1>1, SwitchOf, Zenon
<1>4. PICK c \in Version : c = current + 1
  BY <1>3, Zenon
<1>5. current' = c /\ c \in Nat /\ c - 1 = current /\ current < MaxVersion /\ current < c
      /\ versions = c /\ versions \in Nat /\ Types /\ current \in Version
  BY <1>1, <1>3, <1>4, TypeFacts, Constants
<1>6. pc'[t] = "check" /\ \A u \in Thread \ {t} : pc'[u] = pc[u]
  BY <1>1, <1>5, Zenon DEF Types
<1>7. \A u \in Thread : ~Copies(u)' /\ pc'[u] \notin {"copied", "copysc", "count", "switch"}
  <2>1. \A u \in Thread : pc[u] = "switch" => u = t
    BY <1>1, Zenon DEF Counts
  <2> QED BY <1>3, <1>6, <2>1, Zenon DEF Copies
<1>8. \A j \in 0..(NumBlocks(c) - 1) : block_status[c][j] = "Empty"
  <2>1. \A j \in 0..(NumBlocks(current + 1) - 1) : j \div Grow \in CurrentBlock
    BY <1>5, BlockIndices, Zenon
  <2> QED BY <1>3, <1>4, <1>5, <2>1, Zenon DEF Blocks
<1>9. Types'
  <2>1. pc' \in [Thread -> Labels]
    BY <1>1, <1>5, Zenon DEF Types, Labels
  <2>2. c \in 1..versions
    BY <1>3, <1>5
  <2> QED BY <1>2, <1>5, <2>1, <2>2, Zenon DEF Types
<1>10. Shape'
  <2>1. ASSUME NEW n \in Node
        PROVE  /\ n[1] < c => bucket[n] = Forwarded
               /\ n[1] <= c => bucket[n] # None
               /\ n[1] > c \/ n[1] = c => bucket[n] # Forwarded
    <3>1. n[1] \in Nat
      BY NodeOf, Constants, Zenon
    <3>2. /\ n[1] < c <=> n[1] < current \/ n[1] = current
          /\ n[1] <= c <=> n[1] <= current \/ n[1] = c
          /\ n[1] > c => n[1] > current
          /\ c > current
      BY <1>3, <1>4, <3>1, Successor, Zenon
    <3> QED BY <1>3, <1>4, <3>2, NoEntriesState, Zenon DEF Shape
  <2>2. versions <= c + 1
    BY <1>5, Successor, Zenon
  <2> QED BY <1>2, <1>5, <2>1, <2>2, Zenon DEF Shape
<1>11. Blocks'
  <2>1. ASSUME NEW v \in Version, v < c, NEW j \in 0..(NumBlocks(v) - 1)
        PROVE  block_status[v][j] = "Done"
    <3>1. v \in Nat
      BY Constants, Zenon
    <3>2. CASE v = current
      BY <1>3, <2>1, <3>2, Zenon DEF CurrentBlock, Status
    <3>3. CASE v # current
      <4>1. v < current
        BY <1>5, <2>1, <3>1, <3>3
      <4> QED BY <2>1, <4>1, Zenon DEF Blocks
    <3> QED BY <3>2, <3>3, Zenon
  <2>2. ASSUME NEW j \in 0..(Size[c] - 1)
        PROVE  j \div BlockSize[c] \in 0..(NumBlocks(c) - 1) /\ bucket[<<c, j>>] # Forwarded
    <3>1. j \div BlockSize[c] \in 0..(NumBlocks(c) - 1)
      BY BlockOfBucket, Zenon
    <3>2. <<c, j>> \in Node
      BY NodeOf, Constants
    <3>3. c > current
      BY <1>3, <1>4, Successor, Zenon
    <3> QED BY <3>1, <3>2, <3>3, Zenon DEF Shape
  <2>3. ASSUME c < MaxVersion, NEW j \in 0..(NumBlocks(c + 1) - 1)
        PROVE  block_status[c][j \div Grow] = "Empty"
    BY <1>8, <2>3, BlockBefore, Zenon
  <2> QED BY <1>2, <1>5, <1>8, <2>1, <2>2, <2>3, Zenon
          DEF Blocks, Status, InBlock, CurrentBlock, CurrentIndex
<1>12. Copiers'
  BY <1>7, Zenon DEF Copiers
<1>13. Counts'
  <2>1. Counting' = {} /\ DoneBlocks' = {}
    BY <1>2, <1>5, <1>7, <1>8, Zenon DEF Counting, DoneBlocks, CurrentBlock, Status
  <2>2. Cardinality(Counting') = 0 /\ Cardinality(DoneBlocks') = 0
    BY <2>1, Zenon DEF SetFacts
  <2>3. ASSUME NEW v \in Version, v > 1
        PROVE  /\ v - 1 < c => finished[v] = NumBlocks(v - 1)
               /\ v - 1 >= c => finished[v] = 0
    <3>1. v \in Nat
      BY Constants, Zenon
    <3>2. CASE v - 1 < current
      BY <1>5, <2>3, <3>1, <3>2 DEF Counts
    <3>3. CASE v - 1 = current
      <4>1. v = current + 1
        BY <1>5, <3>1, <3>3
      <4> QED BY <1>3, <1>5, <3>1, <3>3, <4>1
    <3>4. CASE v - 1 > current
      BY <1>5, <2>3, <3>1, <3>4 DEF Counts
    <3> QED BY <1>5, <3>1, <3>2, <3>3, <3>4
  <2>4. ASSUME NEW v \in Version, v > 1
        PROVE  /\ v - 1 < current' => finished'[v] = NumBlocks(v - 1)
               /\ v - 1 = current' => finished'[v] + Cardinality(Counting') = Cardinality(DoneBlocks')
               /\ v - 1 > current' => finished'[v] = 0
    <3>1. v \in Nat /\ finished' = finished
      BY <1>2, Constants, Zenon
    <3> QED BY <1>5, <2>2, <2>3, <2>4, <3>1
  <2> QED BY <1>7, <2>4, Zenon DEF Counts
<1>14. ASSUME NEW n, Live(n) PROVE Live(n)'
  <2>1. n \in Node /\ n[1] \in Nat
    BY <1>14, NodeOf, Constants, Zenon DEF Live
  <2>2. n[1] <= current \/ n[1] = c => n[1] <= c
    BY <1>3, <1>4, <2>1, Successor, Zenon
  <2> QED BY <1>2, <1>4, <1>5, <1>14, <2>2, Zenon DEF Live
<1>15. current' \in Nat /\ current <= current' /\ versions' \in Nat /\ versions <= versions'
  BY <1>2, <1>5
<1>16. ASSUME NEW u \in Thread, u # t PROVE Position(u)'
  <2>1. NotOf(u)
    BY <1>2, <1>6, <1>16, Zenon DEF NotOf
  <2> QED BY <1>2, <1>5, <1>14, <1>15, <2>1, OthersStay, Zenon DEF Positions
<1>17. Position(t)'
  <2>1. /\ op(t) \in Updates /\ (s[t].fwd => bucket[b[t]] = Forwarded)
        /\ tag[t] => s[t] = bucket[b[t]]
    BY <1>1, Zenon DEF Positions, Position, CopyLabels
  <2> QED BY <1>1, <1>2, <1>6, <1>14, <1>15, <2>1, MovesOn, Zenon DEF CopyLabels, WalkLabels
<1> QED BY <1>9, <1>10, <1>11, <1>12, <1>13, <1>16, <1>17, Zenon DEF Inv, Positions
=============================================================================
