---------------------------- MODULE TrackerProofs ----------------------------
(***************************************************************************)
(* Proofs about Tracker, for any documents, users, concurrent requests and *)
(* columns that SaveFn writes, and without the bounds of the runs.         *)
(***************************************************************************)
EXTENDS Tracker, TLAPS

USE DEF Edits, InMemory

LEMMA ZeroIsActivity == Zero \in Activity /\ \A f \in Field : Zero[f] = 0
BY DEF Zero, Activity

LEMMA EmptyIsEmpty ==
  /\ Empty \in [Cell -> Activity]
  /\ \A c \in Cell : Empty[c] = Zero /\ Empty[c]["EditCount"] = 0
BY ZeroIsActivity DEF Empty, Field

LEMMA PlusAdds ==
  ASSUME NEW a \in Activity, NEW b \in Activity
  PROVE  Plus(a, b) \in Activity /\ \A f \in Field : Plus(a, b)[f] = a[f] + b[f]
BY DEF Plus, Activity

\* What is stored of an activity is no more than the activity.
LEMMA SaveFnAtMost ==
  ASSUME NEW a \in Activity
  PROVE  /\ SaveFn(a) \in Activity
         /\ SaveFn(a)["EditCount"] <= a["EditCount"]
         /\ SaveContribution(a) \in Activity
         /\ SaveContribution(a)["EditCount"] <= a["EditCount"]
BY ZeroIsActivity DEF SaveFn, SaveContribution, Activity, Field

LEMMA OneIsActivity ==
  ASSUME NEW f \in Field
  PROVE  [Zero EXCEPT ![f] = 1] \in Activity
BY ZeroIsActivity DEF Activity

LEMMA OfIsTable ==
  ASSUME NEW table \in [Cell -> Activity], NEW r \in Reader
  PROVE  /\ Of(table, Wants[r]) \in [User -> Activity]
         /\ \A u \in User : <<Wants[r], u>> \in Cell
                            /\ Of(table, Wants[r])[u] = table[<<Wants[r], u>>]
<1>1. Wants[r] \in Doc
  BY TrackerAssumption
<1>2. \A u \in User : <<Wants[r], u>> \in Cell
  BY <1>1 DEF Cell
<1>3. Of(table, Wants[r]) = [u \in User |-> table[<<Wants[r], u>>]]
  BY DEF Of
<1> QED BY <1>2, <1>3

-----------------------------------------------------------------------------
LEMMA TypeInit == Init => TypeOK
<1> SUFFICES ASSUME Init PROVE TypeOK
  OBVIOUS
<1>1. /\ buffer = Empty /\ snapshot = Empty /\ final = Empty
      /\ stored = Empty /\ saved = Empty /\ recorded = Empty
      /\ Empty \in [Cell -> Activity]
  BY EmptyIsEmpty DEF Init
<1>2. /\ historical \in [Reader -> [User -> Activity]]
      /\ report \in [Reader -> [User -> Activity]]
  BY ZeroIsActivity DEF Init, NoRows
<1>3. /\ late \in [Cell -> Nat] /\ failed \in BOOLEAN
      /\ request \in [Reader -> {"idle", "asked", "read"}]
      /\ phase \in Phase /\ phase # "exited"
  BY DEF Init, Phase
<1> QED BY <1>1, <1>2, <1>3 DEF TypeOK

LEMMA TypeCount ==
  ASSUME TypeOK, NEW c \in Cell, NEW a \in Activity, Running, Count(c, a)
  PROVE  TypeOK'
<1>1. /\ Plus(buffer[c], a) \in Activity
      /\ Plus(recorded[c], a) \in Activity
  BY PlusAdds DEF TypeOK
<1>2. buffer' \in [Cell -> Activity] /\ recorded' \in [Cell -> Activity]
  BY <1>1 DEF Count, TypeOK
<1>3. late' \in [Cell -> Nat]
  <2>1. a["EditCount"] \in Nat
    BY DEF Activity, Field
  <2>2. late[c] + a["EditCount"] \in Nat
    BY <2>1 DEF TypeOK
  <2> QED BY <2>2 DEF Count, TypeOK
<1> QED BY <1>2, <1>3 DEF Count, TypeOK, tableVars, readVars, Running

LEMMA TypeSave ==
  ASSUME TypeOK, NEW c \in Cell, NEW a \in Activity, NEW b \in Activity, Save(c, a, b)
  PROVE  /\ stored' \in [Cell -> Activity] /\ saved' \in [Cell -> Activity]
         /\ failed' \in BOOLEAN
<1>1. /\ Plus(stored[c], b) \in Activity
      /\ Plus(saved[c], a) \in Activity
  BY PlusAdds DEF TypeOK
<1>2. CASE UNCHANGED <<stored, saved>> /\ failed' = (failed \/ phase # "closed")
  BY <1>2 DEF TypeOK
<1>3. CASE /\ stored' = [stored EXCEPT ![c] = Plus(@, b)]
           /\ saved' = [saved EXCEPT ![c] = Plus(@, a)]
           /\ UNCHANGED failed
  BY <1>1, <1>3 DEF TypeOK
<1> QED BY <1>2, <1>3 DEF Save

LEMMA TypeNext == TypeOK /\ [Next]_vars => TypeOK'
<1> SUFFICES ASSUME TypeOK, [Next]_vars
             PROVE  TypeOK'
  OBVIOUS
<1> USE ZeroIsActivity, EmptyIsEmpty
<1>1. ASSUME NEW c \in Cell, Record(c) \/ RecordActiveTime(c)
      PROVE  TypeOK'
  BY <1>1, TypeCount, OneIsActivity DEF Record, RecordActiveTime, Field
<1>2. ASSUME NEW c \in Cell, FlushOne(c)
      PROVE  TypeOK'
  <2>1. snapshot[c] \in Activity
    BY DEF TypeOK
  <2>2. UNCHANGED tableVars \/ Save(c, snapshot[c], SaveFn(snapshot[c]))
    BY <1>2 DEF FlushOne
  <2>3. /\ stored' \in [Cell -> Activity] /\ saved' \in [Cell -> Activity]
        /\ failed' \in BOOLEAN
    BY <2>1, <2>2, TypeSave, SaveFnAtMost DEF TypeOK, tableVars
  <2> QED BY <1>2, <2>3 DEF FlushOne, TypeOK, readVars, Running
<1>3. ASSUME NEW c \in Cell, ForceFlushOne(c)
      PROVE  TypeOK'
  <2>1. final[c] \in Activity
    BY DEF TypeOK
  <2>2. /\ stored' \in [Cell -> Activity] /\ saved' \in [Cell -> Activity]
        /\ failed' \in BOOLEAN
    BY <1>3, <2>1, TypeSave, SaveFnAtMost DEF ForceFlushOne
  <2> QED BY <1>3, <2>2 DEF ForceFlushOne, TypeOK, readVars
<1>4. CASE Swap
  BY <1>4 DEF Swap, TypeOK, tableVars, readVars, Running
<1>5. ASSUME NEW r \in Reader, Ask(r) \/ ReadHistorical(r)
      PROVE  TypeOK'
  <2>1. NoRows \in [User -> Activity] /\ Of(stored, Wants[r]) \in [User -> Activity]
    BY OfIsTable DEF NoRows, TypeOK
  <2>2. /\ request' \in [Reader -> {"idle", "asked", "read"}]
        /\ historical' \in [Reader -> [User -> Activity]]
    BY <1>5, <2>1 DEF ReadOrder, Ask, ReadHistorical, TypeOK
  <2>3. /\ UNCHANGED <<ramVars, tableVars, report, phase, recorded, late>>
        /\ phase # "exited"
    BY <1>5 DEF Ask, ReadHistorical, Running
  <2> QED BY <2>2, <2>3 DEF TypeOK, ramVars, tableVars
<1>6. ASSUME NEW r \in Reader, ReadLive(r)
      PROVE  TypeOK'
  <2>0. buffer \in [Cell -> Activity] /\ historical[r] \in [User -> Activity]
    BY DEF TypeOK
  <2>1. \A u \in User :
          Plus(historical[r][u], Of(buffer, Wants[r])[u]) \in Activity
    <3>1. Of(buffer, Wants[r]) \in [User -> Activity]
      BY <2>0, OfIsTable
    <3> QED BY <2>0, <3>1, PlusAdds
  <2> QED BY <1>6, <2>1 DEF ReadOrder, ReadLive, TypeOK, ramVars, tableVars, Running
<1>7. CASE Stop \/ CloseDB \/ Start
  BY <1>7 DEF Stop, CloseDB, Start, Enter, TypeOK, ramVars, tableVars, readVars, Phase
<1>8. CASE ForceFlush
  <2>1. late' \in [Cell -> Nat]
    <3>1. \A c \in Cell : late[c] + Edits(snapshot, c) \in Nat
      BY DEF TypeOK, Activity, Field
    <3> QED BY <1>8, <3>1 DEF ForceFlush
  <2> QED BY <1>8, <2>1 DEF ForceFlush, Enter, TypeOK, tableVars, readVars, Phase
<1>9. CASE Exit \/ Crash
  BY <1>9 DEF Exit, Crash, Die, TypeOK, Phase
<1>10. CASE UNCHANGED vars
  BY <1>10 DEF vars, ramVars, tableVars, readVars, TypeOK
<1> QED BY <1>1, <1>2, <1>3, <1>4, <1>5, <1>6, <1>7, <1>8, <1>9, <1>10 DEF Next

\* The variables keep their types in every behaviour.
THEOREM TypeCorrect == Spec => []TypeOK
BY TypeInit, TypeNext, PTL DEF Spec

-----------------------------------------------------------------------------
(* Conservation of edits, cell by cell.  Beyond EditsAccounted: once the    *)
(* ForceFlush has taken the buffer, what the buffer and the flusher hold is *)
(* late; and the table never holds more than SaveFn was given.              *)

Drained == phase \in {"flushing", "closed"}

Balanced(c) ==
  /\ Edits(saved, c) + InMemory(c) <= Edits(recorded, c)
  /\ ~failed => Edits(recorded, c) <= Edits(saved, c) + InMemory(c) + late[c]
  /\ ~failed /\ Drained =>
       Edits(recorded, c) <= Edits(saved, c) + Edits(final, c) + late[c]
  /\ Edits(stored, c) <= Edits(saved, c)

LEMMA EditsAreNat ==
  ASSUME TypeOK, NEW c \in Cell
  PROVE  /\ buffer[c]["EditCount"] \in Nat /\ snapshot[c]["EditCount"] \in Nat
         /\ final[c]["EditCount"] \in Nat /\ stored[c]["EditCount"] \in Nat
         /\ recorded[c]["EditCount"] \in Nat /\ saved[c]["EditCount"] \in Nat
         /\ late[c] \in Nat
BY DEF TypeOK, Activity, Field

LEMMA CountEdits ==
  ASSUME TypeOK, NEW c \in Cell, NEW d \in Cell, NEW f \in Field,
         Count(c, [Zero EXCEPT ![f] = 1])
  PROVE  \E n \in Nat :
           /\ Edits(buffer, d)' = Edits(buffer, d) + n
           /\ Edits(recorded, d)' = Edits(recorded, d) + n
           /\ late'[d] = IF Drained THEN late[d] + n ELSE late[d]
           /\ UNCHANGED <<snapshot, final, stored, saved, failed, phase>>
<1> DEFINE a == [Zero EXCEPT ![f] = 1]
<1>1. a \in Activity
  BY OneIsActivity
<1> HIDE DEF a
<1>2. /\ buffer' = [buffer EXCEPT ![c] = Plus(@, a)]
      /\ recorded' = [recorded EXCEPT ![c] = Plus(@, a)]
      /\ late' = IF Drained THEN [late EXCEPT ![c] = @ + a["EditCount"]] ELSE late
      /\ UNCHANGED <<snapshot, final, stored, saved, failed, phase>>
  BY DEF Count, Drained, tableVars, a
<1>3. a["EditCount"] \in Nat
  BY <1>1 DEF Activity, Field
<1>4. CASE d = c
  <2>1. /\ Plus(buffer[c], a)["EditCount"] = buffer[c]["EditCount"] + a["EditCount"]
        /\ Plus(recorded[c], a)["EditCount"] = recorded[c]["EditCount"] + a["EditCount"]
    BY <1>1, PlusAdds DEF TypeOK, Field
  <2>2. buffer'[c] = Plus(buffer[c], a) /\ recorded'[c] = Plus(recorded[c], a)
    BY <1>2 DEF TypeOK
  <2>3. late'[c] = IF Drained THEN late[c] + a["EditCount"] ELSE late[c]
    BY <1>2 DEF TypeOK
  <2> QED BY <1>2, <1>3, <1>4, <2>1, <2>2, <2>3
<1>5. CASE d # c
  <2>1. buffer'[d] = buffer[d] /\ recorded'[d] = recorded[d] /\ late'[d] = late[d]
    BY <1>2, <1>5 DEF TypeOK
  <2>2. /\ Edits(buffer, d)' = Edits(buffer, d) + 0
        /\ Edits(recorded, d)' = Edits(recorded, d) + 0
        /\ late'[d] = late[d] + 0
    BY <2>1, EditsAreNat
  <2> QED BY <1>2, <2>1, <2>2
<1> QED BY <1>4, <1>5

\* A save moves the edits of the activity to its own cell, all or none.
LEMMA SaveEdits ==
  ASSUME TypeOK, NEW c \in Cell, NEW d \in Cell, NEW a \in Activity,
         NEW b \in Activity, b["EditCount"] <= a["EditCount"], Save(c, a, b)
  PROVE  \E n, m \in Nat :
           /\ Edits(saved, d)' = Edits(saved, d) + n
           /\ Edits(stored, d)' = Edits(stored, d) + m
           /\ m <= n /\ n <= a["EditCount"] /\ (d # c => n = 0)
           /\ ~failed' /\ phase # "closed" /\ d = c => n = a["EditCount"]
           /\ failed => failed'
<1>1. /\ a["EditCount"] \in Nat /\ b["EditCount"] \in Nat /\ stored[d]["EditCount"] \in Nat
      /\ saved[d]["EditCount"] \in Nat
  BY EditsAreNat DEF Activity, Field
<1>2. CASE failed' = (failed \/ phase # "closed") /\ UNCHANGED <<stored, saved>>
  <2>1. Edits(saved, d)' = Edits(saved, d) + 0 /\ Edits(stored, d)' = Edits(stored, d) + 0
    BY <1>1, <1>2
  <2>2. (failed => failed') /\ ~(~failed' /\ phase # "closed")
    BY <1>2 DEF TypeOK
  <2> QED BY <1>1, <2>1, <2>2
<1>3. CASE /\ stored' = [stored EXCEPT ![c] = Plus(@, b)]
           /\ saved' = [saved EXCEPT ![c] = Plus(@, a)]
           /\ UNCHANGED failed
  <2>1. CASE d = c
    <3>1. /\ Plus(stored[c], b)["EditCount"] = stored[c]["EditCount"] + b["EditCount"]
          /\ Plus(saved[c], a)["EditCount"] = saved[c]["EditCount"] + a["EditCount"]
      BY PlusAdds DEF TypeOK, Field
    <3>2. stored'[c] = Plus(stored[c], b) /\ saved'[c] = Plus(saved[c], a)
      BY <1>3 DEF TypeOK
    <3>3. /\ Edits(saved, d)' = Edits(saved, d) + a["EditCount"]
          /\ Edits(stored, d)' = Edits(stored, d) + b["EditCount"]
      BY <2>1, <3>1, <3>2
    <3> QED BY <1>1, <1>3, <2>1, <3>3
  <2>2. CASE d # c
    <3>1. stored'[d] = stored[d] /\ saved'[d] = saved[d]
      BY <1>3, <2>2 DEF TypeOK
    <3>2. Edits(saved, d)' = Edits(saved, d) + 0 /\ Edits(stored, d)' = Edits(stored, d) + 0
      BY <1>1, <3>1
    <3> QED BY <1>1, <1>3, <2>2, <3>2
  <2> QED BY <2>1, <2>2
<1> QED BY <1>2, <1>3 DEF Save

LEMMA BalanceNext ==
  ASSUME TypeOK, [Next]_vars, NEW d \in Cell, Balanced(d)
  PROVE  Balanced(d)'
<1> USE EditsAreNat, EmptyIsEmpty
<1>1. ASSUME NEW c \in Cell, Record(c) \/ RecordActiveTime(c)
      PROVE  Balanced(d)'
  <2>1. \E f \in Field : Count(c, [Zero EXCEPT ![f] = 1])
    BY <1>1 DEF Record, RecordActiveTime, Field
  <2>2. PICK n \in Nat :
          /\ Edits(buffer, d)' = Edits(buffer, d) + n
          /\ Edits(recorded, d)' = Edits(recorded, d) + n
          /\ late'[d] = IF Drained THEN late[d] + n ELSE late[d]
          /\ UNCHANGED <<snapshot, final, stored, saved, failed, phase>>
    BY <2>1, CountEdits
  <2>3. CASE Drained
    BY <2>2, <2>3 DEF Balanced, Drained
  <2>4. CASE ~Drained
    BY <2>2, <2>4 DEF Balanced, Drained
  <2> QED BY <2>3, <2>4
<1>2. ASSUME NEW c \in Cell, FlushOne(c)
      PROVE  Balanced(d)'
  <2>1. /\ snapshot' = [snapshot EXCEPT ![c] = Zero]
        /\ UNCHANGED <<buffer, final, recorded, late, phase>>
    BY <1>2 DEF FlushOne
  <2>2. snapshot'[d]["EditCount"] = IF d = c THEN 0 ELSE snapshot[d]["EditCount"]
    BY <2>1 DEF TypeOK
  <2>3. CASE snapshot[c]["EditCount"] = 0
    <3>1. UNCHANGED <<stored, saved, failed>>
      BY <1>2, <2>3 DEF FlushOne, tableVars
    <3> QED BY <2>1, <2>2, <2>3, <3>1 DEF Balanced, Drained
  <2>4. CASE snapshot[c]["EditCount"] # 0
    <3>1. /\ Save(c, snapshot[c], SaveFn(snapshot[c]))
          /\ snapshot[c] \in Activity
      BY <1>2, <2>4 DEF FlushOne, TypeOK
    <3>2. PICK n, m \in Nat :
            /\ Edits(saved, d)' = Edits(saved, d) + n
            /\ Edits(stored, d)' = Edits(stored, d) + m
            /\ m <= n /\ n <= snapshot[c]["EditCount"] /\ (d # c => n = 0)
            /\ ~failed' /\ phase # "closed" /\ d = c => n = snapshot[c]["EditCount"]
            /\ failed => failed'
      BY <3>1, SaveEdits, SaveFnAtMost
    <3>3. CASE d = c
      BY <2>1, <2>2, <3>2, <3>3 DEF Balanced, Drained
    <3>4. CASE d # c
      BY <2>1, <2>2, <3>2, <3>4 DEF Balanced, Drained
    <3> QED BY <3>3, <3>4
  <2> QED BY <2>3, <2>4
<1>3. ASSUME NEW c \in Cell, ForceFlushOne(c)
      PROVE  Balanced(d)'
  <2>1. /\ final' = [final EXCEPT ![c] = Zero]
        /\ UNCHANGED <<buffer, snapshot, recorded, late, phase>>
        /\ Save(c, final[c], SaveContribution(final[c])) /\ final[c] \in Activity
        /\ phase = "flushing"
    BY <1>3 DEF ForceFlushOne, TypeOK
  <2>2. final'[d]["EditCount"] = IF d = c THEN 0 ELSE final[d]["EditCount"]
    BY <2>1 DEF TypeOK
  <2>3. PICK n, m \in Nat :
          /\ Edits(saved, d)' = Edits(saved, d) + n
          /\ Edits(stored, d)' = Edits(stored, d) + m
          /\ m <= n /\ n <= final[c]["EditCount"] /\ (d # c => n = 0)
          /\ ~failed' /\ phase # "closed" /\ d = c => n = final[c]["EditCount"]
          /\ failed => failed'
    BY <2>1, SaveEdits, SaveFnAtMost
  <2>4. CASE d = c
    BY <2>1, <2>2, <2>3, <2>4 DEF Balanced, Drained
  <2>5. CASE d # c
    BY <2>1, <2>2, <2>3, <2>5 DEF Balanced, Drained
  <2> QED BY <2>4, <2>5
<1>4. CASE Swap
  <2>1. /\ snapshot = Empty /\ snapshot' = buffer /\ buffer' = Empty
        /\ UNCHANGED <<final, stored, saved, failed, phase, recorded, late>>
    BY <1>4 DEF Swap, tableVars
  <2> QED BY <2>1 DEF Balanced, Drained
<1>5. ASSUME NEW r \in Reader, Ask(r) \/ ReadHistorical(r) \/ ReadLive(r)
      PROVE  Balanced(d)'
  BY <1>5 DEF ReadOrder, Ask, ReadHistorical, ReadLive, ramVars, tableVars, Balanced, Drained
<1>6. CASE ForceFlush
  <2>1. /\ final = Empty /\ final' = buffer /\ buffer' = Empty
        /\ late'[d] = late[d] + Edits(snapshot, d)
        /\ UNCHANGED <<snapshot, stored, saved, failed, recorded>>
    BY <1>6 DEF ForceFlush, Enter, TypeOK, tableVars
  <2> QED BY <2>1 DEF Balanced, Drained
<1>7. CASE Stop \/ CloseDB \/ Start
  BY <1>7 DEF Stop, CloseDB, Start, Enter, ramVars, tableVars, Balanced, Drained
<1>8. CASE Exit \/ Crash
  <2>1. /\ buffer' = Empty /\ snapshot' = Empty /\ final' = Empty
        /\ phase' = "exited"
        /\ UNCHANGED <<stored, saved, recorded, late>>
        /\ failed' = failed \/ failed' = TRUE
    BY <1>8 DEF Exit, Crash, Die
  <2>2. CASE failed'
    BY <2>1, <2>2 DEF Balanced, Drained
  <2>3. CASE ~failed'
    <3>1. phase = "closed" /\ final = Empty /\ ~failed
      BY <1>8, <2>1, <2>3 DEF Exit, Crash, TypeOK
    <3> QED BY <2>1, <2>3, <3>1 DEF Balanced, Drained
  <2> QED BY <2>2, <2>3
<1>9. CASE UNCHANGED vars
  BY <1>9 DEF vars, ramVars, tableVars, Balanced, Drained
<1> QED BY <1>1, <1>2, <1>3, <1>4, <1>5, <1>6, <1>7, <1>8, <1>9 DEF Next

AllBalanced == \A c \in Cell : Balanced(c)

LEMMA AccountedInvariant == Spec => [](TypeOK /\ AllBalanced)
<1>1. Init => TypeOK /\ AllBalanced
  <2> SUFFICES ASSUME Init, NEW c \in Cell
               PROVE  Balanced(c)
    BY TypeInit DEF AllBalanced
  <2>1. late[c] = 0
    BY DEF Init
  <2> QED BY <2>1, EmptyIsEmpty DEF Init, Balanced, Drained
<1>2. TypeOK /\ AllBalanced /\ [Next]_vars => (TypeOK /\ AllBalanced)'
  <2> SUFFICES ASSUME TypeOK, AllBalanced, [Next]_vars
               PROVE  TypeOK' /\ \A c \in Cell : Balanced(c)'
    BY DEF AllBalanced
  <2>1. ASSUME NEW c \in Cell
        PROVE  Balanced(c)'
    BY BalanceNext DEF AllBalanced
  <2> QED BY <2>1, TypeNext
<1> QED BY <1>1, <1>2, PTL DEF Spec

\* No edit is ever handed over twice; and unless a save fails or the process
\* crashes, none is lost by the flusher, the requests, or the end of the
\* process, but for those that came too late for the shutdown's ForceFlush.
THEOREM EditsConserved == Spec => []EditsAccounted
<1>1. TypeOK /\ AllBalanced => EditsAccounted
  BY DEF AllBalanced, Balanced, EditsAccounted
<1> QED BY <1>1, AccountedInvariant, PTL

-----------------------------------------------------------------------------
(* Reports.                                                                 *)

\* What a request read of the table is still there when it reads the
\* counters, whatever was flushed meanwhile.
HistoryHolds ==
  \A r \in Reader, u \in User :
    historical[r][u]["EditCount"] <= Edits(stored, <<Wants[r], u>>)

\* The counts that only grow.
LEMMA Growing ==
  ASSUME TypeOK, [Next]_vars, NEW c \in Cell
  PROVE  /\ Edits(stored, c) <= Edits(stored, c)'
         /\ Edits(recorded, c) <= Edits(recorded, c)'
<1> USE EditsAreNat
<1>1. ASSUME NEW d \in Cell, Record(d) \/ RecordActiveTime(d)
      PROVE  Edits(stored, c) <= Edits(stored, c)' /\ Edits(recorded, c) <= Edits(recorded, c)'
  <2>1. \E f \in Field : Count(d, [Zero EXCEPT ![f] = 1])
    BY <1>1 DEF Record, RecordActiveTime, Field
  <2>2. PICK n \in Nat :
          /\ Edits(buffer, c)' = Edits(buffer, c) + n
          /\ Edits(recorded, c)' = Edits(recorded, c) + n
          /\ late'[c] = IF Drained THEN late[c] + n ELSE late[c]
          /\ UNCHANGED <<snapshot, final, stored, saved, failed, phase>>
    BY <2>1, CountEdits
  <2> QED BY <2>2
<1>2. ASSUME NEW d \in Cell, NEW a \in Activity, NEW b \in Activity,
             b["EditCount"] <= a["EditCount"], Save(d, a, b), UNCHANGED recorded
      PROVE  Edits(stored, c) <= Edits(stored, c)' /\ Edits(recorded, c) <= Edits(recorded, c)'
  <2>1. PICK m \in Nat : Edits(stored, c)' = Edits(stored, c) + m
    BY <1>2, SaveEdits
  <2> QED BY <1>2, <2>1
<1>3. ASSUME NEW d \in Cell, FlushOne(d) \/ ForceFlushOne(d)
      PROVE  Edits(stored, c) <= Edits(stored, c)' /\ Edits(recorded, c) <= Edits(recorded, c)'
  <2>1. /\ UNCHANGED recorded
        /\ \/ UNCHANGED stored
           \/ Save(d, snapshot[d], SaveFn(snapshot[d]))
           \/ Save(d, final[d], SaveContribution(final[d]))
    BY <1>3 DEF FlushOne, ForceFlushOne, tableVars
  <2>2. snapshot[d] \in Activity /\ final[d] \in Activity
    BY DEF TypeOK
  <2> QED BY <1>2, <2>1, <2>2, SaveFnAtMost
<1>4. CASE UNCHANGED <<stored, recorded>>
  BY <1>4
<1>5. \/ \E d \in Cell : Record(d) \/ RecordActiveTime(d) \/ FlushOne(d) \/ ForceFlushOne(d)
      \/ UNCHANGED <<stored, recorded>>
  BY DEF Next, Swap, Ask, ReadHistorical, ReadLive, Stop, ForceFlush, CloseDB, Enter,
         Exit, Crash, Die, Start, vars, tableVars
<1> QED BY <1>1, <1>3, <1>4, <1>5

\* The steps that are not steps of a request leave its variables alone.
LEMMA OtherSteps ==
  ASSUME [Next]_vars, \A r \in Reader : ~ReadHistorical(r) /\ ~ReadLive(r)
  PROVE  UNCHANGED <<historical, report>>
<1>1. ASSUME NEW c \in Cell,
             Record(c) \/ RecordActiveTime(c) \/ FlushOne(c) \/ ForceFlushOne(c)
      PROVE  UNCHANGED <<historical, report>>
  BY <1>1 DEF Record, RecordActiveTime, Count, FlushOne, ForceFlushOne, readVars
<1>2. CASE Swap \/ Exit \/ Crash \/ UNCHANGED vars
  BY <1>2 DEF Swap, Exit, Crash, Die, vars, readVars
<1>3. CASE Stop \/ ForceFlush \/ CloseDB \/ Start
  BY <1>3 DEF Stop, ForceFlush, CloseDB, Start, Enter, readVars
<1>4. ASSUME NEW r \in Reader, Ask(r)
      PROVE  UNCHANGED <<historical, report>>
  BY <1>4 DEF Ask
<1> QED BY <1>1, <1>2, <1>3, <1>4 DEF Next

LEMMA HistoricalStep ==
  ASSUME TypeOK, [Next]_vars, NEW q \in Reader
  PROVE  \/ historical'[q] = historical[q]
         \/ historical'[q] = Of(stored, Wants[q]) /\ stored' = stored
         \/ historical'[q] = NoRows
<1>1. ASSUME NEW r \in Reader, ReadHistorical(r)
      PROVE  \/ historical'[q] = historical[q]
             \/ historical'[q] = Of(stored, Wants[q]) /\ stored' = stored
             \/ historical'[q] = NoRows
  BY <1>1 DEF ReadOrder, ReadHistorical, TypeOK, tableVars
<1>2. ASSUME NEW r \in Reader, ReadLive(r)
      PROVE  historical' = historical
  BY <1>2 DEF ReadOrder, ReadLive
<1> QED BY <1>1, <1>2, OtherSteps

LEMMA ReportStep ==
  ASSUME TypeOK, [Next]_vars, NEW q \in Reader, NEW u \in User
  PROVE  \/ report'[q] = report[q]
         \/ report'[q][u] = Plus(historical[q][u], buffer[<<Wants[q], u>>])
<1>1. ASSUME NEW r \in Reader, ReadLive(r)
      PROVE  \/ report'[q] = report[q]
             \/ report'[q][u] = Plus(historical[q][u], buffer[<<Wants[q], u>>])
  <2>1. \/ report'[q] = report[q]
        \/ report'[q][u] = Plus(historical[q][u], Of(buffer, Wants[q])[u])
    BY <1>1 DEF ReadOrder, ReadLive, TypeOK
  <2>2. Of(buffer, Wants[q])[u] = buffer[<<Wants[q], u>>]
    <3>1. buffer \in [Cell -> Activity]
      BY DEF TypeOK
    <3> QED BY <3>1, OfIsTable
  <2> QED BY <2>1, <2>2
<1>2. ASSUME NEW r \in Reader, ReadHistorical(r)
      PROVE  report' = report
  BY <1>2 DEF ReadOrder, ReadHistorical
<1> QED BY <1>1, <1>2, OtherSteps

LEMMA ReportNext ==
  TypeOK /\ AllBalanced /\ HistoryHolds /\ ReportNeverOvercounts /\ [Next]_vars
    => (HistoryHolds /\ ReportNeverOvercounts)'
<1> SUFFICES ASSUME TypeOK, AllBalanced, HistoryHolds, ReportNeverOvercounts,
                    [Next]_vars, NEW q \in Reader, NEW u \in User
             PROVE  /\ historical'[q][u]["EditCount"] <= Edits(stored, <<Wants[q], u>>)'
                    /\ report'[q][u]["EditCount"] <= Edits(recorded, <<Wants[q], u>>)'
  BY DEF HistoryHolds, ReportNeverOvercounts
<1> DEFINE c == <<Wants[q], u>>
<1>1. c \in Cell
  BY OfIsTable DEF TypeOK
<1>2. /\ Edits(stored, c) <= Edits(stored, c)'
      /\ Edits(recorded, c) <= Edits(recorded, c)'
  BY <1>1, Growing
<1>3. TypeOK'
  BY TypeNext
<1>4. /\ stored[c]["EditCount"] \in Nat /\ stored'[c]["EditCount"] \in Nat
      /\ recorded[c]["EditCount"] \in Nat /\ recorded'[c]["EditCount"] \in Nat
      /\ buffer[c]["EditCount"] \in Nat /\ snapshot[c]["EditCount"] \in Nat
      /\ final[c]["EditCount"] \in Nat
  <2>1. stored' \in [Cell -> Activity] /\ recorded' \in [Cell -> Activity]
    BY <1>3 DEF TypeOK
  <2>2. stored'[c]["EditCount"] \in Nat /\ recorded'[c]["EditCount"] \in Nat
    <3> HIDE DEF c
    <3> QED BY <1>1, <2>1 DEF Activity, Field
  <2> QED BY <1>1, <2>2, EditsAreNat
<1>5. /\ historical[q][u] \in Activity /\ historical[q][u]["EditCount"] \in Nat
      /\ report[q][u]["EditCount"] \in Nat
  BY DEF TypeOK, Activity, Field
<1>6. /\ historical[q][u]["EditCount"] <= Edits(stored, c)
      /\ report[q][u]["EditCount"] <= Edits(recorded, c)
  BY DEF HistoryHolds, ReportNeverOvercounts
<1>7. historical'[q][u]["EditCount"] <= Edits(stored, c)'
  <2>1. \/ historical'[q] = historical[q]
        \/ historical'[q] = Of(stored, Wants[q]) /\ stored' = stored
        \/ historical'[q] = NoRows
    BY HistoricalStep
  <2>2. Of(stored, Wants[q])[u] = stored[c]
    <3>1. stored \in [Cell -> Activity]
      BY DEF TypeOK
    <3> QED BY <3>1, OfIsTable
  <2>3. NoRows[u]["EditCount"] = 0
    BY ZeroIsActivity DEF NoRows, Field
  <2> QED BY <1>2, <1>4, <1>5, <1>6, <2>1, <2>2, <2>3
<1>8. report'[q][u]["EditCount"] <= Edits(recorded, c)'
  <2>1. \/ report'[q] = report[q]
        \/ report'[q][u] = Plus(historical[q][u], buffer[c])
    BY ReportStep
  <2>2. Plus(historical[q][u], buffer[c])["EditCount"]
          = historical[q][u]["EditCount"] + buffer[c]["EditCount"]
    <3>1. buffer[c] \in Activity
      BY <1>1 DEF TypeOK
    <3> QED BY <1>5, <3>1, PlusAdds DEF Field
  <2>3. Edits(stored, c) + InMemory(c) <= Edits(recorded, c)
    <3>1. /\ Edits(saved, c) + InMemory(c) <= Edits(recorded, c)
          /\ Edits(stored, c) <= Edits(saved, c)
      BY <1>1 DEF AllBalanced, Balanced
    <3> QED BY <1>1, <3>1, EditsAreNat
  <2>4. CASE report'[q] = report[q]
    BY <1>2, <1>4, <1>5, <1>6, <2>4
  <2>5. CASE report'[q][u] = Plus(historical[q][u], buffer[c])
    BY <1>2, <1>4, <1>5, <1>6, <2>2, <2>3, <2>5
  <2> QED BY <2>1, <2>4, <2>5
<1> QED BY <1>7, <1>8

\* A report never shows more edits than were made: the table is read before
\* the counters, so an edit that the flusher moves between the two reads is
\* missed and not counted twice.
THEOREM ReportsAreBelow == Spec => []ReportNeverOvercounts
<1>1. Init => HistoryHolds /\ ReportNeverOvercounts
  <2> SUFFICES ASSUME Init, NEW r \in Reader, NEW u \in User
               PROVE  /\ historical[r][u]["EditCount"] <= Edits(stored, <<Wants[r], u>>)
                      /\ report[r][u]["EditCount"] <= Edits(recorded, <<Wants[r], u>>)
    BY DEF HistoryHolds, ReportNeverOvercounts
  <2>1. <<Wants[r], u>> \in Cell
    BY TrackerAssumption DEF Cell
  <2> QED BY <2>1, ZeroIsActivity, EmptyIsEmpty DEF Init, NoRows, Field
<1> QED BY <1>1, ReportNext, AccountedInvariant, PTL DEF Spec
=============================================================================
