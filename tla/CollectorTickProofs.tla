------------------------- MODULE CollectorTickProofs -------------------------
(* Theorems about CollectorTick: for any Environments, Signals of a group,   *)
(* cadence, windows and number of faults, the rows of a round are honest,    *)
(* sleepers are left alone, groups do not cost each other their rows, and    *)
(* the roll-up of the hour lags one round.                                   *)
EXTENDS CollectorTick, FiniteSetTheorems, TLAPS

\* What was read is as old as the inventory that was kept of it.
Inventoried ==
  \A e \in Envs : inventories[e] # Nothing => inventories[e].read = inventories[e].age

\* A thread that has not begun has written nothing.
Begun == pc = "groups" => \A e \in Envs : group[e] = 0 => rows[e] = NoRows[e]

\* The Environments whose thread has left out a row; each costs a fault.
Short == {e \in Envs : \E i \in 1 .. group[e] - 1 : rows[e][GroupSignals[i]] = Nothing}
Faulty == pc = "groups" => Cardinality(Short) <= faults

\* Samples no roll-up counts yet: one of this round, and one for each fault.
Lag ==
  sampled - rolled <=
    faults + (IF pc = "idle" \/ (pc = "groups" /\ group[Head1] = 0) THEN 0 ELSE 1)

Honest == EveryCardAnswers /\ NeverIsCertain /\ InventoriesAreFresh

IInv ==
  /\ TypeOK /\ Inventoried /\ Begun /\ Faulty /\ Lag
  /\ Honest /\ SleepersAreLeftAlone /\ GroupsAreIndependent

-----------------------------------------------------------------------------
(* The constants.                                                          *)

LEMMA EnvsAreFinite == IsFiniteSet(Envs) /\ Head1 \in Envs
<1>1. Len(Environments) \in Nat /\ DOMAIN Environments = 1 .. Len(Environments)
      /\ Len(Environments) # 0
  BY TickAssumption
<1>2. IsFiniteSet(1 .. Len(Environments))
  BY <1>1, FS_Interval
<1>3. Environments \in Surjection(1 .. Len(Environments), Envs)
  BY <1>1, TickAssumption DEF Surjection, Envs, Range
<1>4. Head1 \in Envs
  BY <1>1 DEF Head1, Envs, Range
<1> QED BY <1>2, <1>3, <1>4, FS_Surjection

LEMMA DoneType == Done \in Nat \ {0} /\ Len(GroupSignals) = Done - 1
BY TickAssumption DEF Done

LEMMA GroupSignalType == \A i \in 1 .. Done - 1 : GroupSignals[i] \in Signals
BY TickAssumption DEF Done, Signals, Range

LEMMA GateType ==
  ASSUME TypeOK, NEW e \in Envs
  PROVE  /\ RecentReachability(e) \in Reaches \cup {"unknown"}
         /\ avail[e] # Nothing /\ avail[e].age <= Window =>
              RecentReachability(e) = avail[e].reach
         /\ RecentReachability(e) \in Gates => RecentReachability(e) \in Whys
BY DEF TypeOK, Availability, RecentReachability, Gates, Whys, Reaches

LEMMA RowTypes ==
  /\ \A why \in Whys : SkippedFor(why) \in Row
  /\ Probed \subseteq Row
  /\ [kind |-> "down"] \in Row /\ [kind |-> "source"] \in Row
  /\ \A oldest \in 0 .. Refresh + 1 : [kind |-> "compared", oldest |-> oldest] \in Row
  /\ \A kind \in {"source", "completed", "never", "older_than_page"}, place \in Clones :
       [kind |-> kind, place |-> place] \in Row
BY DEF SkippedFor, Probed, Row

LEMMA NoRowsType ==
  /\ NoRows \in [Envs -> [Signals -> Row \cup {Nothing}]]
  /\ \A e \in Envs, s \in Signals : NoRows[e][s] = Nothing
BY DEF NoRows

-----------------------------------------------------------------------------
LEMMA InitIInv == Init => IInv
<1> SUFFICES ASSUME Init PROVE IInv
  OBVIOUS
<1>1. TypeOK
  <2>1. 0 \in 0 .. SlowEvery - 1 /\ 0 \in 0 .. MaxSamples /\ 0 \in 0 .. MaxFaults /\ 0 \in 0 .. 0
    BY TickAssumption
  <2>2. Done \in 0 .. Done
    BY DoneType
  <2>3. rows \in [Envs -> [Signals -> Row \cup {Nothing}]]
    BY NoRowsType DEF Init
  <2>4. avail \in [Envs -> Availability \cup {Nothing}]
    BY DEF Init
  <2>5. inventories \in [Envs -> Inventory \cup {Nothing}]
    BY DEF Init
  <2>6. group \in [Envs -> 0 .. Done]
    BY <2>2 DEF Init
  <2>7. /\ source \in Sources /\ pc = "publish" /\ phase = 0 /\ slowTick = FALSE
        /\ unsent = {} /\ sampled = 0 /\ rolled = 0 /\ faults = 0
    BY DEF Init
  <2> QED BY <2>1, <2>3, <2>4, <2>5, <2>6, <2>7 DEF TypeOK
<1>2. Inventoried /\ Begun /\ Faulty /\ Lag
  BY TickAssumption DEF Init, Inventoried, Begun, Faulty, Lag
<1>3. Honest /\ SleepersAreLeftAlone
  BY NoRowsType DEF Init, Honest, EveryCardAnswers, NeverIsCertain, InventoriesAreFresh,
                    SleepersAreLeftAlone, Gated, Signals, SlowSignals
<1>4. GroupsAreIndependent
  BY DEF Init, GroupsAreIndependent
<1> QED BY <1>1, <1>2, <1>3, <1>4 DEF IInv

-----------------------------------------------------------------------------
(* Steps that leave no row, or leave the rows as they were.                *)

\* Without rows there is nothing to be wrong about.
LEMMA ClearedRows ==
  ASSUME rows' = NoRows
  PROVE  NeverIsCertain' /\ InventoriesAreFresh' /\ SleepersAreLeftAlone'
<1>1. \A e \in Envs, s \in Signals : rows'[e][s] = Nothing
  BY NoRowsType
<1>2. {"drift", "last_clone", "scan"} \subseteq Signals /\ Gated \subseteq Signals
  BY DEF Signals, SlowSignals, Gated
<1> QED BY <1>1, <1>2 DEF NeverIsCertain, InventoriesAreFresh, SleepersAreLeftAlone

LEMMA StartTickStep == ASSUME IInv, StartTick PROVE IInv'
<1>1. /\ pc = "idle" /\ pc' = "groups" /\ rows' = NoRows /\ group' = [e \in Envs |-> 0]
      /\ UNCHANGED <<source, inventories, unsent, hour, faults>>
  BY DEF StartTick
<1>2. TypeOK'
  <2>1. phase' \in 0 .. SlowEvery - 1 /\ slowTick' \in BOOLEAN
    BY TickAssumption DEF StartTick, IInv, TypeOK
  <2>2. avail' \in [Envs -> Availability \cup {Nothing}]
    BY DEF StartTick, IInv, TypeOK, Availability
  <2>3. group' \in [Envs -> 0 .. Done]
    BY <1>1, DoneType
  <2>4. rows' \in [Envs -> [Signals -> Row \cup {Nothing}]]
    BY <1>1, NoRowsType
  <2> QED BY <1>1, <2>1, <2>2, <2>3, <2>4 DEF IInv, TypeOK, hour
<1>3. Inventoried' /\ Begun' /\ GroupsAreIndependent' /\ EveryCardAnswers'
  BY <1>1 DEF IInv, Inventoried, Begun, GroupsAreIndependent, EveryCardAnswers
<1>4. Faulty'
  <2>1. Short' = {}
    BY <1>1 DEF Short
  <2> QED BY <1>1, <2>1, FS_EmptySet DEF IInv, TypeOK, Faulty
<1>5. Lag'
  BY <1>1, EnvsAreFinite DEF IInv, Lag, hour
<1> QED BY <1>1, <1>2, <1>3, <1>4, <1>5, ClearedRows DEF IInv, Honest

LEMMA PublishStep == ASSUME IInv, Publish PROVE IInv'
<1>1. /\ pc = "publish" /\ pc' = "idle" /\ rows' = NoRows
      /\ UNCHANGED <<tick, avail, group, inventories, sampled>>
  BY DEF Publish
<1>2. PICK sent \in SUBSET Envs :
        /\ \/ sent = Envs /\ faults' = faults
           \/ faults < MaxFaults /\ faults' = faults + 1
        /\ unsent' = unsent \ sent
        /\ rolled' = IF Head1 \in sent THEN sampled ELSE rolled
  BY DEF Publish, Beginnings, Fault
<1>3. sampled \in Nat /\ rolled \in Nat /\ faults \in Nat /\ rolled <= sampled
      /\ MaxFaults \in Nat /\ MaxSamples \in Nat
  BY TickAssumption DEF IInv, TypeOK
<1>4. TypeOK'
  <2>1. faults' \in 0 .. MaxFaults /\ rolled' \in 0 .. sampled
    BY <1>2, <1>3 DEF IInv, TypeOK
  <2>2. rows' \in [Envs -> [Signals -> Row \cup {Nothing}]]
    BY <1>1, NoRowsType
  <2> QED BY <1>1, <1>2, <2>1, <2>2 DEF IInv, TypeOK, tick
<1>5. Inventoried' /\ Begun' /\ GroupsAreIndependent' /\ EveryCardAnswers' /\ Faulty'
  BY <1>1 DEF IInv, Inventoried, Begun, GroupsAreIndependent, EveryCardAnswers, Faulty
<1>6. Lag'
  BY <1>1, <1>2, <1>3, EnvsAreFinite DEF IInv, Lag
<1> QED BY <1>1, <1>4, <1>5, <1>6, ClearedRows DEF IInv, Honest

LEMMA RestartStep == ASSUME IInv, Restart PROVE IInv'
<1>1. /\ pc' = "publish" /\ slowTick' = FALSE /\ phase' = 0 /\ rows' = NoRows
      /\ group' = [e \in Envs |-> Done] /\ inventories' = [e \in Envs |-> Nothing]
      /\ faults < MaxFaults /\ faults' = faults + 1
      /\ UNCHANGED <<source, avail, unsent, hour>>
  BY DEF Restart, Fault
<1>2. TypeOK'
  <2>1. faults' \in 0 .. MaxFaults /\ phase' \in 0 .. SlowEvery - 1
    BY <1>1, TickAssumption DEF IInv, TypeOK
  <2>2. rows' \in [Envs -> [Signals -> Row \cup {Nothing}]]
    BY <1>1, NoRowsType
  <2>3. group' \in [Envs -> 0 .. Done]
    BY <1>1, DoneType
  <2> QED BY <1>1, <2>1, <2>2, <2>3 DEF IInv, TypeOK, hour
<1>3. Inventoried' /\ Begun' /\ GroupsAreIndependent' /\ EveryCardAnswers' /\ Faulty'
  BY <1>1 DEF IInv, Inventoried, Begun, GroupsAreIndependent, EveryCardAnswers, Faulty
<1>4. Lag'
  BY <1>1 DEF IInv, TypeOK, Lag, hour
<1> QED BY <1>1, <1>2, <1>3, <1>4, ClearedRows DEF IInv, Honest

LEMMA HourStep == ASSUME IInv, HourTurns PROVE IInv'
<1>1. /\ sampled' = 0 /\ rolled' = 0
      /\ UNCHANGED <<tick, avail, rows, group, inventories, pc, unsent, faults>>
  BY DEF HourTurns
<1>2. TypeOK'
  <2>1. 0 \in 0 .. MaxSamples /\ 0 \in 0 .. 0
    BY TickAssumption
  <2> QED BY <1>1, <2>1 DEF IInv, TypeOK, tick
<1>3. Inventoried' /\ Begun' /\ GroupsAreIndependent' /\ Honest' /\ SleepersAreLeftAlone'
  BY <1>1 DEF IInv, Inventoried, Begun, GroupsAreIndependent, Honest, EveryCardAnswers, tick,
              NeverIsCertain, InventoriesAreFresh, SleepersAreLeftAlone
<1>4. Faulty'
  BY <1>1 DEF IInv, Faulty, Short
<1>5. Lag'
  BY <1>1 DEF IInv, TypeOK, Lag
<1> QED BY <1>2, <1>3, <1>4, <1>5 DEF IInv

LEMMA ElapseStep == ASSUME IInv, Elapse PROVE IInv'
<1>1. UNCHANGED <<tick, rows, group, pc, unsent, hour, faults>>
  BY DEF Elapse
<1>2. ASSUME NEW e \in Envs
      PROVE  \/ avail[e] = Nothing /\ avail'[e] = Nothing
             \/ /\ avail[e] # Nothing /\ avail[e] \in Availability /\ avail'[e] \in Availability
                /\ avail'[e].reach = avail[e].reach /\ avail'[e].round = avail[e].round
                /\ avail'[e].age <= Window => avail[e].age <= Window
  <2>1. CASE avail[e] = Nothing
    BY <2>1 DEF Elapse
  <2>2. CASE avail[e] # Nothing
    <3>1. avail[e] \in Availability /\ avail'[e] = [avail[e] EXCEPT !.age = Older(avail[e].age, Window)]
      BY <2>2 DEF Elapse, IInv, TypeOK
    <3>2. avail[e].age \in 0 .. Window + 1 /\ Window \in Nat
      BY <3>1, TickAssumption DEF Availability
    <3>3. Older(avail[e].age, Window) \in 0 .. Window + 1
          /\ (Older(avail[e].age, Window) <= Window => avail[e].age <= Window)
      BY <3>2 DEF Older
    <3> QED BY <2>2, <3>1, <3>3 DEF Availability
  <2> QED BY <2>1, <2>2
<1>3. ASSUME NEW e \in Envs
      PROVE  \/ inventories'[e] = Nothing
             \/ inventories'[e] \in Inventory /\ inventories'[e].read = inventories'[e].age
  <2>1. CASE inventories[e] = Nothing
    BY <2>1 DEF Elapse
  <2>2. CASE inventories[e] # Nothing
    <3>1. /\ inventories[e] \in Inventory /\ inventories[e].read = inventories[e].age
          /\ inventories'[e] = [inventories[e] EXCEPT !.age = Older(inventories[e].age, Refresh),
                                                    !.read = Older(inventories[e].read, Refresh)]
      BY <2>2 DEF Elapse, IInv, TypeOK, Inventoried
    <3>2. inventories[e].age \in 0 .. Refresh + 1 /\ Refresh \in Nat
      BY <3>1, TickAssumption DEF Inventory
    <3>3. Older(inventories[e].age, Refresh) \in 0 .. Refresh + 1
      BY <3>2 DEF Older
    <3> QED BY <3>1, <3>3 DEF Inventory
  <2> QED BY <2>1, <2>2
<1>4. TypeOK'
  <2>1. avail' \in [Envs -> Availability \cup {Nothing}]
    BY <1>2 DEF Elapse
  <2>2. inventories' \in [Envs -> Inventory \cup {Nothing}]
    BY <1>3 DEF Elapse
  <2> QED BY <1>1, <2>1, <2>2 DEF IInv, TypeOK, tick, hour
<1>5. Inventoried'
  BY <1>3 DEF Inventoried
<1>6. Begun' /\ GroupsAreIndependent' /\ Honest' /\ Lag'
  BY <1>1 DEF IInv, Begun, GroupsAreIndependent, Honest, EveryCardAnswers, tick, hour, Lag,
              NeverIsCertain, InventoriesAreFresh
<1>7. Faulty'
  BY <1>1 DEF IInv, Faulty, Short
<1>8. SleepersAreLeftAlone'
  <2>1. SUFFICES ASSUME NEW e \in Envs, NEW s \in Gated, rows[e][s] # Nothing,
                        avail'[e] # Nothing, avail'[e].round, avail'[e].age <= Window
                 PROVE  IF avail'[e].reach \in Gates THEN rows[e][s].kind = "skipped"
                        ELSE s # "drift" => rows[e][s].kind # "skipped"
    BY <1>1 DEF SleepersAreLeftAlone
  <2>2. /\ avail[e] # Nothing /\ avail[e].round /\ avail[e].age <= Window
        /\ avail'[e].reach = avail[e].reach
    BY <1>2, <2>1
  <2> QED BY <2>1, <2>2 DEF IInv, SleepersAreLeftAlone
<1> QED BY <1>4, <1>5, <1>6, <1>7, <1>8 DEF IInv

LEMMA JoinStep == ASSUME IInv, JoinGroups PROVE IInv'
<1>1. /\ pc = "groups" /\ \A e \in Envs : group[e] = Done
      /\ pc' = IF slowTick THEN "drift" ELSE "publish"
      /\ UNCHANGED <<tick, avail, rows, group, inventories, unsent, hour, faults>>
  BY DEF JoinGroups
<1>2. TypeOK'
  BY <1>1 DEF IInv, TypeOK, tick, hour
<1>3. Inventoried' /\ Begun' /\ Faulty' /\ Honest' /\ SleepersAreLeftAlone'
  BY <1>1 DEF IInv, Inventoried, Begun, Faulty, Honest, EveryCardAnswers, tick,
              NeverIsCertain, InventoriesAreFresh, SleepersAreLeftAlone
<1>4. Lag'
  BY <1>1, EnvsAreFinite, DoneType DEF IInv, Lag, hour
<1>5. GroupsAreIndependent'
  <2>1. Short = {e \in Envs : \E s \in Range(GroupSignals) : rows[e][s] = Nothing}
    BY <1>1, TickAssumption, DoneType DEF Short, Range
  <2> QED BY <1>1, <2>1 DEF IInv, Faulty, GroupsAreIndependent
<1> QED BY <1>2, <1>3, <1>4, <1>5 DEF IInv

LEMMA SlowPanicsStep == ASSUME IInv, SlowPanics PROVE IInv'
<1>1. /\ pc \in {"drift", "last_clone", "scan"} /\ pc' = "publish"
      /\ faults < MaxFaults /\ faults' = faults + 1
      /\ UNCHANGED <<tick, avail, rows, group, inventories, unsent, hour>>
  BY DEF SlowPanics, Fault
<1>2. TypeOK'
  <2>1. faults' \in 0 .. MaxFaults /\ faults' # 0
    BY <1>1, TickAssumption DEF IInv, TypeOK
  <2> QED BY <1>1, <2>1 DEF IInv, TypeOK, tick, hour
<1>3. Inventoried' /\ Begun' /\ Faulty' /\ SleepersAreLeftAlone' /\ GroupsAreIndependent'
  BY <1>1 DEF IInv, Inventoried, Begun, Faulty, SleepersAreLeftAlone, GroupsAreIndependent
<1>4. Honest'
  BY <1>1 DEF IInv, TypeOK, Honest, EveryCardAnswers, NeverIsCertain, InventoriesAreFresh
<1>5. Lag'
  BY <1>1 DEF IInv, TypeOK, Lag, hour
<1> QED BY <1>2, <1>3, <1>4, <1>5 DEF IInv

-----------------------------------------------------------------------------
(* The thread of one Environment.                                          *)

\* One Environment comes to be short of a row, at the price of a fault.
LEMMA OneMoreShort ==
  ASSUME IInv, NEW e \in Envs, pc = "groups", pc' = "groups",
         Short' \subseteq Short \cup {e}, faults' = faults + 1
  PROVE  Faulty'
<1>1. IsFiniteSet(Short)
  BY EnvsAreFinite, FS_Subset DEF Short
<1>2. /\ IsFiniteSet(Short \cup {e}) /\ Cardinality(Short) \in Nat
      /\ Cardinality(Short \cup {e}) <= Cardinality(Short) + 1
  <2>1. Cardinality(Short) \in Nat
    BY <1>1, FS_CardinalityType
  <2>2. IsFiniteSet(Short \cup {e})
        /\ Cardinality(Short \cup {e}) = IF e \in Short THEN Cardinality(Short)
                                          ELSE Cardinality(Short) + 1
    BY <1>1, FS_AddElement
  <2> QED BY <2>1, <2>2
<1>3. Cardinality(Short') <= Cardinality(Short \cup {e}) /\ Cardinality(Short') \in Nat
      /\ Cardinality(Short \cup {e}) \in Nat
  BY <1>2, FS_Subset, FS_CardinalityType
<1>4. Cardinality(Short) <= faults /\ faults \in Nat
  BY DEF IInv, Faulty, TypeOK
<1> QED BY <1>2, <1>3, <1>4 DEF Faulty

LEMMA PanicStep == ASSUME IInv, NEW e \in Envs, GroupPanics(e) PROVE IInv'
<1>1. /\ pc = "groups" /\ group[e] < Done /\ group' = [group EXCEPT ![e] = Done]
      /\ faults < MaxFaults /\ faults' = faults + 1
      /\ UNCHANGED <<tick, avail, rows, inventories, pc, unsent, hour>>
  BY DEF GroupPanics, Fault
<1>2. TypeOK'
  <2>1. faults' \in 0 .. MaxFaults
    BY <1>1, TickAssumption DEF IInv, TypeOK
  <2>2. group' \in [Envs -> 0 .. Done]
    BY <1>1, DoneType DEF IInv, TypeOK
  <2> QED BY <1>1, <2>1, <2>2 DEF IInv, TypeOK, tick, hour
<1>3. \A f \in Envs : f # e => group'[f] = group[f]
  BY <1>1 DEF IInv, TypeOK
<1>4. group'[e] = Done /\ Done # 0
  BY <1>1, DoneType DEF IInv, TypeOK
<1>5. Begun'
  BY <1>1, <1>3, <1>4 DEF IInv, Begun
<1>6. Faulty'
  <2>1. Short' \subseteq Short \cup {e}
    BY <1>1, <1>3 DEF Short
  <2> QED BY <1>1, <2>1, OneMoreShort
<1>7. Inventoried' /\ SleepersAreLeftAlone' /\ GroupsAreIndependent'
  BY <1>1 DEF IInv, Inventoried, SleepersAreLeftAlone, GroupsAreIndependent
<1>8. Honest'
  BY <1>1 DEF IInv, TypeOK, Honest, EveryCardAnswers, NeverIsCertain, InventoriesAreFresh
<1>9. Lag'
  <2>1. sampled - rolled <= faults + 1 /\ sampled \in Nat /\ rolled \in Nat /\ faults \in Nat
    BY TickAssumption DEF IInv, TypeOK, Lag
  <2> QED BY <1>1, <2>1 DEF Lag, hour
<1> QED BY <1>2, <1>5, <1>6, <1>7, <1>8, <1>9 DEF IInv

LEMMA ProbeStep == ASSUME IInv, NEW e \in Envs, ProbeAvailability(e) PROVE IInv'
<1>1. /\ pc = "groups" /\ group[e] = 0 /\ group' = [group EXCEPT ![e] = 1]
      /\ UNCHANGED <<tick, rows, inventories, pc, rolled>>
  BY DEF ProbeAvailability
<1>2. /\ \/ avail' = avail
         \/ \E reach \in Reaches :
               avail' = [avail EXCEPT ![e] = [age |-> 0, reach |-> reach, round |-> TRUE]]
      /\ unsent' \in {unsent, unsent \cup {e}}
      /\ \/ sampled' = sampled
         \/ e = Head1 /\ sampled < MaxSamples /\ sampled' = sampled + 1
      /\ \/ faults' = faults
         \/ faults < MaxFaults /\ faults' = faults + 1
  BY DEF ProbeAvailability, Fault
<1>3. sampled \in Nat /\ rolled \in Nat /\ faults \in Nat /\ rolled <= sampled
      /\ MaxFaults \in Nat /\ MaxSamples \in Nat
  BY TickAssumption DEF IInv, TypeOK
<1>4. TypeOK'
  <2>1. faults' \in 0 .. MaxFaults /\ sampled' \in 0 .. MaxSamples /\ rolled' \in 0 .. sampled'
    BY <1>1, <1>2, <1>3 DEF IInv, TypeOK
  <2>2. group' \in [Envs -> 0 .. Done]
    BY <1>1, DoneType DEF IInv, TypeOK
  <2>3. avail' \in [Envs -> Availability \cup {Nothing}]
    <3>1. \A reach \in Reaches : [age |-> 0, reach |-> reach, round |-> TRUE] \in Availability
      BY TickAssumption DEF Availability
    <3> QED BY <1>2, <3>1 DEF IInv, TypeOK
  <2> QED BY <1>1, <1>2, <2>1, <2>2, <2>3 DEF IInv, TypeOK, tick
<1>5. \A f \in Envs : f # e => group'[f] = group[f] /\ avail'[f] = avail[f]
  BY <1>1, <1>2 DEF IInv, TypeOK
<1>6. group'[e] = 1 /\ \A s \in Signals : rows[e][s] = Nothing
  BY <1>1, NoRowsType DEF IInv, TypeOK, Begun
<1>7. Begun'
  BY <1>1, <1>5, <1>6 DEF IInv, Begun
<1>8. Faulty'
  <2>1. Short' \subseteq Short
    BY <1>1, <1>5, <1>6 DEF Short
  <2>2. Cardinality(Short') <= Cardinality(Short) /\ Cardinality(Short') \in Nat
        /\ Cardinality(Short) \in Nat
    BY <2>1, EnvsAreFinite, FS_Subset, FS_CardinalityType DEF Short
  <2> QED BY <1>1, <1>2, <1>3, <2>2 DEF IInv, Faulty
<1>9. Inventoried' /\ GroupsAreIndependent'
  BY <1>1 DEF IInv, Inventoried, GroupsAreIndependent
<1>10. Honest'
  BY <1>1, <1>2, <1>3 DEF IInv, Honest, EveryCardAnswers, NeverIsCertain, InventoriesAreFresh
<1>11. SleepersAreLeftAlone'
  <2>1. Gated \subseteq Signals
    BY DEF Gated
  <2> QED BY <1>1, <1>5, <1>6, <2>1 DEF IInv, SleepersAreLeftAlone
<1>12. Lag'
  <2>1. e = Head1 => sampled - rolled <= faults
    BY <1>1, <1>3 DEF IInv, Lag
  <2>2. e # Head1 => group'[Head1] = group[Head1] /\ sampled' = sampled
    BY <1>2, <1>5, EnvsAreFinite
  <2> QED BY <1>1, <1>2, <1>3, <1>6, <2>1, <2>2 DEF IInv, Lag
<1> QED BY <1>4, <1>7, <1>8, <1>9, <1>10, <1>11, <1>12 DEF IInv

\* A row is written, or missed at the price of a fault.
LEMMA CollectStep == ASSUME IInv, NEW e \in Envs, CollectEnvironment(e) PROVE IInv'
<1> DEFINE s == GroupSignals[group[e]]
<1>1. /\ pc = "groups" /\ group[e] \in 1 .. Done - 1
      /\ group' = [group EXCEPT ![e] = group[e] + 1]
      /\ UNCHANGED <<tick, avail, inventories, pc, hour>>
      /\ \/ /\ \E row \in GatedRows(e) : rows' = [rows EXCEPT ![e][s] = row]
            /\ unsent' = unsent \cup {e} /\ faults' = faults
         \/ /\ rows' = rows /\ unsent' = unsent
            /\ faults < MaxFaults /\ faults' = faults + 1
  BY DoneType DEF CollectEnvironment, Written, Fault
<1>2. s \in Signals
  BY <1>1, GroupSignalType
<1>3. /\ group \in [Envs -> 0 .. Done] /\ rows \in [Envs -> [Signals -> Row \cup {Nothing}]]
      /\ faults \in 0 .. MaxFaults /\ MaxFaults \in Nat /\ Done \in Nat
  BY TickAssumption, DoneType DEF IInv, TypeOK
<1>4. ASSUME NEW row \in GatedRows(e)
      PROVE  /\ row \in Row /\ row # Nothing
             /\ row.kind \in {"probed", "down", "skipped"}
             /\ row.kind = "skipped" <=> RecentReachability(e) \in Gates
  <2>1. CASE RecentReachability(e) \in Gates
    <3>1. row = SkippedFor(RecentReachability(e)) /\ RecentReachability(e) \in Whys
      BY <1>4, <2>1, GateType DEF GatedRows, IInv
    <3>2. row \in Row /\ row.kind = "skipped"
      BY <3>1, RowTypes DEF SkippedFor
    <3> QED BY <2>1, <3>2, RowAssumption
  <2>2. CASE RecentReachability(e) \notin Gates
    <3>1. row \in Probed
      BY <1>4, <2>2 DEF GatedRows
    <3>2. row \in Row /\ row.kind \in {"probed", "down"}
      BY <3>1, RowTypes DEF Probed
    <3> QED BY <2>2, <3>2, RowAssumption
  <2> QED BY <2>1, <2>2
<1>5. \A f \in Envs : f # e => group'[f] = group[f] /\ rows'[f] = rows[f]
  BY <1>1, <1>3
<1>6. group'[e] = group[e] + 1 /\ \A t \in Signals : t # s => rows'[e][t] = rows[e][t]
  BY <1>1, <1>2, <1>3
<1>7. \/ \E row \in GatedRows(e) : rows'[e][s] = row
      \/ rows'[e][s] = rows[e][s] /\ faults' = faults + 1
  BY <1>1, <1>2, <1>3
<1>8. TypeOK'
  <2>1. faults' \in 0 .. MaxFaults
    BY <1>1, <1>3
  <2>2. group' \in [Envs -> 0 .. Done]
    BY <1>1, <1>3
  <2>3. rows' \in [Envs -> [Signals -> Row \cup {Nothing}]]
    BY <1>1, <1>2, <1>3, <1>4
  <2> QED BY <1>1, <2>1, <2>2, <2>3 DEF IInv, TypeOK, tick, hour
<1>9. Begun'
  BY <1>1, <1>5, <1>6 DEF IInv, Begun
<1>10. Faulty'
  <2>1. Short' \subseteq Short \cup {e}
    BY <1>5 DEF Short
  <2>2. CASE faults' = faults + 1
    BY <1>1, <2>1, <2>2, OneMoreShort
  <2>3. CASE \E row \in GatedRows(e) : rows'[e][s] = row /\ faults' = faults
    <3>1. \A i \in 1 .. group[e] : rows'[e][GroupSignals[i]] = Nothing =>
            i \in 1 .. group[e] - 1 /\ rows[e][GroupSignals[i]] = Nothing
      <4>1. \A i \in 1 .. group[e] : GroupSignals[i] \in Signals
        BY <1>1, <1>3, GroupSignalType
      <4>2. rows'[e][s] # Nothing
        BY <1>4, <2>3
      <4> QED BY <1>1, <1>6, <4>1, <4>2
    <3>2. Short' \subseteq Short
      BY <1>1, <1>3, <1>5, <1>6, <3>1 DEF Short
    <3>3. Cardinality(Short') <= Cardinality(Short) /\ Cardinality(Short') \in Nat
          /\ Cardinality(Short) \in Nat
      BY <3>2, EnvsAreFinite, FS_Subset, FS_CardinalityType DEF Short
    <3> QED BY <1>1, <1>3, <2>3, <3>3 DEF IInv, Faulty
  <2> QED BY <1>1, <1>7, <2>2, <2>3
<1>11. Inventoried' /\ GroupsAreIndependent'
  BY <1>1 DEF IInv, Inventoried, GroupsAreIndependent
<1>12. ASSUME NEW f \in Envs, NEW t \in Signals, rows'[f][t] # Nothing
       PROVE  \/ rows'[f][t] = rows[f][t]
              \/ /\ rows'[f][t].kind \in {"probed", "down", "skipped"}
                 /\ rows'[f][t].kind = "skipped" <=> RecentReachability(f) \in Gates
  BY <1>4, <1>5, <1>6, <1>7
<1>13. Honest'
  <2>1. {"last_clone", "drift"} \subseteq Signals
    BY DEF Signals, SlowSignals
  <2>2. EveryCardAnswers'
    BY <1>1 DEF EveryCardAnswers
  <2> QED BY <1>1, <1>12, <2>1, <2>2 DEF IInv, Honest, NeverIsCertain, InventoriesAreFresh
<1>14. SleepersAreLeftAlone'
  <2>1. SUFFICES ASSUME NEW f \in Envs, NEW t \in Gated, rows'[f][t] # Nothing,
                        avail[f] # Nothing, avail[f].round, avail[f].age <= Window
                 PROVE  IF avail[f].reach \in Gates THEN rows'[f][t].kind = "skipped"
                        ELSE t # "drift" => rows'[f][t].kind # "skipped"
    BY <1>1 DEF SleepersAreLeftAlone
  <2>2. RecentReachability(f) = avail[f].reach
    BY <2>1, GateType DEF IInv
  <2>3. t \in Signals
    BY DEF Gated
  <2>4. CASE rows'[f][t] = rows[f][t]
    BY <2>1, <2>4 DEF IInv, SleepersAreLeftAlone
  <2> QED BY <1>12, <2>1, <2>2, <2>3, <2>4
<1>15. Lag'
  <2>1. group'[Head1] = 0 => group[Head1] = 0
    BY <1>1, <1>5, <1>6, EnvsAreFinite
  <2>2. faults' >= faults /\ faults \in Nat /\ faults' \in Nat /\ sampled \in Nat /\ rolled \in Nat
    BY <1>1, TickAssumption DEF IInv, TypeOK
  <2> QED BY <1>1, <2>1, <2>2 DEF IInv, Lag, hour
<1> QED BY <1>8, <1>9, <1>10, <1>11, <1>13, <1>14, <1>15 DEF IInv

-----------------------------------------------------------------------------
(* The slow Signals.                                                       *)

NextPoint == [drift |-> "last_clone", last_clone |-> "scan", scan |-> "publish"]

\* What the rows of slow Signal s are to say of the Environments.
Truthful(s, written) ==
  \A e \in Envs :
    /\ s = "last_clone" /\ written[e].kind = "never" => written[e].place = "none"
    /\ s = "drift" /\ written[e].kind = "compared" => written[e].oldest <= Refresh
    /\ s # "last_clone" /\ RecentReachability(e) \in Gates => written[e].kind = "skipped"
    /\ s = "scan" /\ RecentReachability(e) \notin Gates => written[e].kind # "skipped"

\* Truthful rows, written for all or at the price of a fault, keep the invariant.
LEMMA SlowWrite ==
  ASSUME IInv, NEW s \in SlowSignals, NEW written \in [Envs -> Row], NEW done \in SUBSET Envs,
         rows' = [e \in Envs |-> IF e \in done THEN [NoRows[e] EXCEPT ![s] = written[e]] ELSE NoRows[e]],
         unsent' = unsent \cup done,
         (done = Envs /\ faults' = faults) \/ (faults < MaxFaults /\ faults' = faults + 1),
         UNCHANGED <<tick, avail, group, hour>>,
         inventories' \in [Envs -> Inventory \cup {Nothing}], Inventoried',
         pc = s, pc' = NextPoint[s], Truthful(s, written)
  PROVE  IInv'
<1>1. /\ s \in {"drift", "last_clone", "scan"} /\ s \in Signals
      /\ pc' \in {"last_clone", "scan", "publish"} /\ pc' # s
      /\ pc' = "last_clone" => s = "drift"
      /\ pc' = "scan" => s = "last_clone"
      /\ pc' = "publish" => s = "scan"
  BY DEF SlowSignals, Signals, NextPoint
<1>2. \A e \in Envs, t \in Signals :
        rows'[e][t] = IF e \in done /\ t = s THEN written[e] ELSE Nothing
  BY <1>1, NoRowsType
<1>3. TypeOK'
  <2>1. faults' \in 0 .. MaxFaults
    BY TickAssumption DEF IInv, TypeOK
  <2>2. rows' \in [Envs -> [Signals -> Row \cup {Nothing}]]
    BY <1>1, NoRowsType
  <2> QED BY <1>1, <2>1, <2>2 DEF IInv, TypeOK, tick, hour
<1>4. Begun' /\ Faulty' /\ GroupsAreIndependent'
  BY <1>1 DEF Begun, Faulty, GroupsAreIndependent
<1>5. EveryCardAnswers'
  <2>1. SUFFICES ASSUME faults' = 0 PROVE \A e \in Envs : rows'[e][s] # Nothing
    BY <1>1 DEF EveryCardAnswers
  <2>2. done = Envs
    BY <2>1, TickAssumption DEF IInv, TypeOK
  <2> QED BY <1>1, <1>2, <2>2, RowAssumption
<1>6. NeverIsCertain' /\ InventoriesAreFresh'
  <2>1. {"last_clone", "drift"} \subseteq Signals
    BY DEF Signals, SlowSignals
  <2> QED BY <1>2, <2>1 DEF Truthful, NeverIsCertain, InventoriesAreFresh
<1>7. SleepersAreLeftAlone'
  <2>1. SUFFICES ASSUME NEW e \in Envs, NEW t \in Gated, rows'[e][t] # Nothing,
                        avail[e] # Nothing, avail[e].round, avail[e].age <= Window
                 PROVE  IF avail[e].reach \in Gates THEN rows'[e][t].kind = "skipped"
                        ELSE t # "drift" => rows'[e][t].kind # "skipped"
    BY DEF SleepersAreLeftAlone
  <2>2. RecentReachability(e) = avail[e].reach
    BY <2>1, GateType DEF IInv
  <2>3. t = s /\ s # "last_clone" /\ rows'[e][t] = written[e]
    BY <1>2, <2>1 DEF Gated
  <2> QED BY <1>1, <2>2, <2>3 DEF Truthful
<1>8. Lag'
  <2>1. faults' >= faults /\ faults \in Nat /\ faults' \in Nat /\ sampled \in Nat /\ rolled \in Nat
    BY TickAssumption DEF IInv, TypeOK
  <2>2. pc # "idle" /\ pc # "groups" /\ pc' # "idle" /\ pc' # "groups"
    BY <1>1
  <2> QED BY <2>1, <2>2 DEF IInv, Lag, hour
<1> QED BY <1>3, <1>4, <1>5, <1>6, <1>7, <1>8 DEF IInv, Honest

\* Rows written one by one, each of which may fail.
LEMMA WriteSomeRule ==
  ASSUME NEW s, NEW written \in [Envs -> Row], NEW failed \in SUBSET Envs,
         WriteSome(s, written, failed)
  PROVE  \E done \in SUBSET Envs :
           /\ rows' = [e \in Envs |-> IF e \in done THEN [NoRows[e] EXCEPT ![s] = written[e]]
                                      ELSE NoRows[e]]
           /\ unsent' = unsent \cup done
           /\ (done = Envs /\ faults' = faults) \/ (faults < MaxFaults /\ faults' = faults + 1)
<1> WITNESS Envs \ failed \in SUBSET Envs
<1>1. DOMAIN written = Envs
  OBVIOUS
<1> QED BY <1>1 DEF WriteSome, Fault

LEMMA WriteInOrderRule ==
  ASSUME NEW s, NEW first, NEW written \in [Envs -> Row], WriteInOrder(s, first, written)
  PROVE  \E done \in SUBSET Envs :
           /\ rows' = [e \in Envs |-> IF e \in done THEN [NoRows[e] EXCEPT ![s] = written[e]]
                                      ELSE NoRows[e]]
           /\ unsent' = unsent \cup done
           /\ (done = Envs /\ faults' = faults) \/ (faults < MaxFaults /\ faults' = faults + 1)
BY DEF WriteInOrder, Beginnings, Fault

LEMMA SkippedType ==
  /\ \A why \in Whys : AllSkipped(why) \in [Envs -> Row] /\ \A e \in Envs : AllSkipped(why)[e].kind = "skipped"
  /\ TypeOK /\ SourceGated => /\ source \in Envs
                             /\ SourceSkipped \in [Envs -> Row]
                             /\ \A e \in Envs : SourceSkipped[e].kind = "skipped"
<1>1. \A why \in Whys : SkippedFor(why).kind = "skipped" /\ SkippedFor(why) \in Row
  BY RowTypes DEF SkippedFor
<1>2. ASSUME TypeOK, SourceGated
      PROVE  /\ source \in Envs /\ RecentReachability(source) \in Whys
             /\ CloneSourceIs[RecentReachability(source)] \in Whys
  BY <1>2, TickAssumption DEF SourceGated, TypeOK, Gates, Whys, CloneSourceIs
<1> QED BY <1>1, <1>2 DEF AllSkipped, SourceSkipped

LEMMA ScanStep == ASSUME IInv, CollectScan PROVE IInv'
<1>1. PICK failed \in SUBSET Envs, verdict \in [Envs -> Probed] :
        WriteSome("scan", [e \in Envs |-> IF RecentReachability(e) \in Gates
                                          THEN SkippedFor(RecentReachability(e)) ELSE verdict[e]], failed)
  BY DEF CollectScan
<1>2. pc = "scan" /\ pc' = "publish" /\ UNCHANGED <<tick, avail, group, inventories, hour>>
  BY DEF CollectScan
<1> DEFINE written == [e \in Envs |-> IF RecentReachability(e) \in Gates
                                      THEN SkippedFor(RecentReachability(e)) ELSE verdict[e]]
<1>3. \A e \in Envs : /\ written[e] \in Row
                      /\ RecentReachability(e) \in Gates <=> written[e].kind = "skipped"
  BY GateType, RowTypes DEF IInv, SkippedFor, Probed
<1>4. written \in [Envs -> Row]
  BY <1>3
<1>5. Truthful("scan", written)
  BY <1>3 DEF Truthful
<1>6. Inventoried' /\ inventories' \in [Envs -> Inventory \cup {Nothing}]
  BY <1>2 DEF IInv, TypeOK, Inventoried
<1>7. "scan" \in SlowSignals /\ NextPoint["scan"] = "publish"
  BY DEF SlowSignals, NextPoint
<1>8. WriteSome("scan", written, failed)
  BY <1>1
<1> HIDE DEF written
<1>9. PICK done \in SUBSET Envs :
        /\ rows' = [e \in Envs |-> IF e \in done THEN [NoRows[e] EXCEPT !["scan"] = written[e]]
                                   ELSE NoRows[e]]
        /\ unsent' = unsent \cup done
        /\ (done = Envs /\ faults' = faults) \/ (faults < MaxFaults /\ faults' = faults + 1)
  BY <1>4, <1>8, WriteSomeRule
<1> QED BY <1>2, <1>4, <1>5, <1>6, <1>7, <1>9, SlowWrite

\* Whatever is written, the rest of the step is the same for each branch.
LEMMA DriftWrite ==
  ASSUME IInv, NEW written \in [Envs -> Row], NEW failed \in SUBSET Envs,
         WriteSome("drift", written, failed), Truthful("drift", written),
         pc = "drift", pc' = "last_clone", UNCHANGED <<tick, avail, group, hour>>,
         inventories' \in [Envs -> Inventory \cup {Nothing}], Inventoried'
  PROVE  IInv'
<1>1. PICK done \in SUBSET Envs :
        /\ rows' = [e \in Envs |-> IF e \in done THEN [NoRows[e] EXCEPT !["drift"] = written[e]]
                                   ELSE NoRows[e]]
        /\ unsent' = unsent \cup done
        /\ (done = Envs /\ faults' = faults) \/ (faults < MaxFaults /\ faults' = faults + 1)
  BY WriteSomeRule
<1>2. "drift" \in SlowSignals /\ NextPoint["drift"] = "last_clone"
  BY DEF SlowSignals, NextPoint
<1> QED BY <1>1, <1>2, SlowWrite

\* A round that compares nothing leaves the inventories alone.
LEMMA SameInventories ==
  ASSUME IInv, UNCHANGED inventories
  PROVE  inventories' \in [Envs -> Inventory \cup {Nothing}] /\ Inventoried'
BY DEF IInv, TypeOK, Inventoried

\* An inventory is used while it is as young as the interval, and a new one
\* is new.
LEMMA InventoryRule ==
  ASSUME IInv, NEW e \in Envs, NEW answers \in [Envs -> [plugins : BOOLEAN, build : BOOLEAN]]
  PROVE  /\ ReadAge(e) \in 0 .. Refresh + 1 /\ ReadAge(e) <= Refresh
         /\ Fetched(e, answers) \in Inventory \cup {Nothing}
         /\ Fetched(e, answers) # Nothing => Fetched(e, answers).read = Fetched(e, answers).age
<1>1. /\ Refresh \in Nat /\ inventories[e] \in Inventory \cup {Nothing}
      /\ inventories[e] # Nothing => inventories[e].read = inventories[e].age
  BY TickAssumption DEF IInv, TypeOK, Inventoried
<1>2. ReadAge(e) \in 0 .. Refresh + 1 /\ ReadAge(e) <= Refresh
  BY <1>1 DEF ReadAge, Cached, Inventory
<1>3. [age |-> 0, read |-> 0] \in Inventory
  BY <1>1 DEF Inventory
<1> QED BY <1>1, <1>2, <1>3 DEF Fetched

LEMMA OtherRow ==
  ASSUME IInv, source \in Envs, NEW e \in Envs,
         NEW answers \in [Envs -> [plugins : BOOLEAN, build : BOOLEAN]]
  PROVE  /\ CollectOther(e, answers) \in Row
         /\ CollectOther(e, answers).kind = "compared" =>
              CollectOther(e, answers).oldest <= Refresh
         /\ RecentReachability(e) \in Gates => CollectOther(e, answers).kind = "skipped"
<1>1. CASE RecentReachability(e) \in Gates
  <2>1. CollectOther(e, answers) = SkippedFor(RecentReachability(e))
    BY <1>1 DEF CollectOther
  <2>2. RecentReachability(e) \in Whys
    BY <1>1, GateType DEF IInv
  <2> QED BY <2>1, <2>2, RowTypes DEF SkippedFor
<1>2. CASE RecentReachability(e) \notin Gates
  <2> DEFINE oldest == IF ReadAge(e) > ReadAge(source) THEN ReadAge(e) ELSE ReadAge(source)
  <2>1. oldest \in 0 .. Refresh + 1 /\ oldest <= Refresh
    BY InventoryRule
  <2> HIDE DEF oldest
  <2>2. \/ CollectOther(e, answers) = [kind |-> "down"]
        \/ CollectOther(e, answers) = [kind |-> "compared", oldest |-> oldest]
    BY <1>2 DEF CollectOther, oldest
  <2>3. [kind |-> "down"] \in Row /\ [kind |-> "compared", oldest |-> oldest] \in Row
    BY <2>1, RowTypes
  <2> QED BY <1>2, <2>1, <2>2, <2>3
<1> QED BY <1>1, <1>2

LEMMA DriftStep == ASSUME IInv, CollectDrift PROVE IInv'
<1>1. pc = "drift" /\ pc' = "last_clone" /\ UNCHANGED <<tick, avail, group, hour>>
  BY DEF CollectDrift
<1>2. ASSUME NEW failed \in SUBSET Envs, NEW why \in Whys,
             WriteSome("drift", AllSkipped(why), failed), UNCHANGED inventories
      PROVE  IInv'
  <2>1. AllSkipped(why) \in [Envs -> Row] /\ \A e \in Envs : AllSkipped(why)[e].kind = "skipped"
    BY SkippedType
  <2>2. Truthful("drift", AllSkipped(why))
    BY <2>1 DEF Truthful
  <2> QED BY <1>1, <1>2, <2>1, <2>2, SameInventories, DriftWrite
<1>3. ASSUME NEW failed \in SUBSET Envs, SourceGated,
             WriteSome("drift", SourceSkipped, failed), UNCHANGED inventories
      PROVE  IInv'
  <2>1. SourceSkipped \in [Envs -> Row] /\ \A e \in Envs : SourceSkipped[e].kind = "skipped"
    BY <1>3, SkippedType DEF IInv
  <2>2. Truthful("drift", SourceSkipped)
    BY <2>1 DEF Truthful
  <2> QED BY <1>1, <1>3, <2>1, <2>2, SameInventories, DriftWrite
<1>4. ASSUME NEW failed \in SUBSET Envs, source # NoSource, ~SourceGated,
             NEW answers \in [Envs -> [plugins : BOOLEAN, build : BOOLEAN]],
             inventories' = [e \in Envs |->
               IF e \in Compared(answers) THEN Fetched(e, answers) ELSE inventories[e]],
             WriteSome("drift",
               [e \in Envs |->
                  IF e # source THEN CollectOther(e, answers)
                  ELSE IF EnvInventory(e, answers) THEN [kind |-> "source"]
                  ELSE [kind |-> "down"]], failed)
      PROVE  IInv'
  <2> DEFINE written == [e \in Envs |->
                  IF e # source THEN CollectOther(e, answers)
                  ELSE IF EnvInventory(e, answers) THEN [kind |-> "source"]
                  ELSE [kind |-> "down"]]
  <2>1. source \in Envs /\ RecentReachability(source) \notin Gates
    BY <1>4, TickAssumption DEF SourceGated, IInv, TypeOK
  <2>2. ASSUME NEW e \in Envs
        PROVE  /\ written[e] \in Row
               /\ written[e].kind = "compared" => written[e].oldest <= Refresh
               /\ RecentReachability(e) \in Gates => written[e].kind = "skipped"
    <3>1. CASE e = source
      <4>1. written[e] \in {[kind |-> "source"], [kind |-> "down"]}
        BY <3>1
      <4>2. written[e] \in Row /\ written[e].kind \in {"source", "down"}
        BY <4>1, RowTypes
      <4> QED BY <2>1, <3>1, <4>2
    <3>2. CASE e # source
      BY <2>1, <3>2, OtherRow
    <3> QED BY <3>1, <3>2
  <2>3. written \in [Envs -> Row] /\ Truthful("drift", written)
    BY <2>2 DEF Truthful
  <2>4. inventories' \in [Envs -> Inventory \cup {Nothing}] /\ Inventoried'
    <3>1. \A e \in Envs : inventories'[e] \in {Fetched(e, answers), inventories[e]}
      BY <1>4
    <3> QED BY <1>4, <3>1, InventoryRule DEF IInv, TypeOK, Inventoried
  <2>5. WriteSome("drift", written, failed)
    BY <1>4
  <2> HIDE DEF written
  <2> QED BY <1>1, <2>3, <2>4, <2>5, DriftWrite
<1>5. "no_clone_source" \in Whys /\ "need_two_environments" \in Whys
  BY DEF Whys
<1> QED BY <1>2, <1>3, <1>4, <1>5 DEF CollectDrift

LEMMA CloneWrite ==
  ASSUME IInv, NEW first, NEW written \in [Envs -> Row],
         WriteInOrder("last_clone", first, written), Truthful("last_clone", written),
         pc = "last_clone", pc' = "scan", UNCHANGED <<tick, avail, group, inventories, hour>>
  PROVE  IInv'
<1>1. PICK done \in SUBSET Envs :
        /\ rows' = [e \in Envs |-> IF e \in done THEN [NoRows[e] EXCEPT !["last_clone"] = written[e]]
                                   ELSE NoRows[e]]
        /\ unsent' = unsent \cup done
        /\ (done = Envs /\ faults' = faults) \/ (faults < MaxFaults /\ faults' = faults + 1)
  BY WriteInOrderRule
<1>2. "last_clone" \in SlowSignals /\ NextPoint["last_clone"] = "scan"
  BY DEF SlowSignals, NextPoint
<1>3. inventories' \in [Envs -> Inventory \cup {Nothing}] /\ Inventoried'
  BY SameInventories
<1> QED BY <1>1, <1>2, <1>3, SlowWrite

LEMMA AfterType ==
  ASSUME NEW sourceRow \in Row, NEW why \in Whys, sourceRow.kind # "never"
  PROVE  /\ TargetsAfter(sourceRow, why) \in [Envs -> Row]
         /\ Truthful("last_clone", TargetsAfter(sourceRow, why))
<1>1. SkippedFor(why) \in Row /\ SkippedFor(why).kind = "skipped"
  BY RowTypes DEF SkippedFor
<1> QED BY <1>1 DEF TargetsAfter, Truthful

\* "Never" is said when the page held every clone of the target there is.
LEMMA ListedRow ==
  ASSUME NEW place \in Clones, NEW truncated \in BOOLEAN, place = "later" => truncated
  PROVE  LET row == Truth(CloneRow(place, truncated), place)
         IN  row \in Row /\ (row.kind = "never" => row.place = "none")
<1>1. /\ CloneRow(place, truncated).kind \in {"completed", "never", "older_than_page"}
      /\ CloneRow(place, truncated).kind = "never" => place = "none"
  <2>1. CASE place = "page"
    BY <2>1 DEF CloneRow
  <2>2. CASE place # "page" /\ truncated
    BY <2>2 DEF CloneRow
  <2>3. CASE place # "page" /\ ~truncated
    BY <2>3 DEF CloneRow, Clones
  <2> QED BY <2>1, <2>2, <2>3
<1> QED BY <1>1, RowTypes DEF Truth

LEMMA LastCloneStep == ASSUME IInv, CollectLastClone PROVE IInv'
<1>1. /\ pc = "last_clone" /\ pc' = "scan"
      /\ UNCHANGED <<tick, avail, group, inventories, hour>>
  BY DEF CollectLastClone
<1>2. CASE source = NoSource
  <2>1. WriteInOrder("last_clone", NoSource, AllSkipped("no_clone_source"))
    BY <1>2 DEF CollectLastClone
  <2>2. /\ AllSkipped("no_clone_source") \in [Envs -> Row]
        /\ Truthful("last_clone", AllSkipped("no_clone_source"))
    BY SkippedType DEF Whys, Truthful
  <2> QED BY <1>1, <2>1, <2>2, CloneWrite
<1>3. CASE source # NoSource /\ SourceGated
  <2>1. WriteInOrder("last_clone", source, SourceSkipped)
    BY <1>3 DEF CollectLastClone
  <2>2. SourceSkipped \in [Envs -> Row] /\ Truthful("last_clone", SourceSkipped)
    BY <1>3, SkippedType DEF Truthful, IInv
  <2> QED BY <1>1, <2>1, <2>2, CloneWrite
<1>4. CASE source # NoSource /\ ~SourceGated
  <2> DEFINE answersOf == {"listed", "refused", "malformed", "http_error", "no_answer"}
             truncated(clones, full) == full \/ \E e \in Envs \ {source} : clones[e] = "later"
             listed(clones, full) ==
               [e \in Envs |-> IF e = source THEN [kind |-> "source"]
                               ELSE Truth(CloneRow(clones[e], truncated(clones, full)), clones[e])]
             written(answer, clones, full) ==
                  CASE answer \in {"http_error", "no_answer"} ->
                         TargetsAfter([kind |-> "down"], "clone_source_unreachable")
                    [] answer \in {"refused", "malformed"} ->
                         TargetsAfter([kind |-> "source"], "clone_source_cannot_list_clones")
                    [] answer = "listed" -> listed(clones, full)
  <2>1. PICK answer \in answersOf, clones \in [Envs -> Clones], full \in BOOLEAN :
          WriteInOrder("last_clone", source, written(answer, clones, full))
    BY <1>4 DEF CollectLastClone
  <2>2. /\ [kind |-> "down"] \in Row /\ [kind |-> "source"] \in Row
        /\ "clone_source_unreachable" \in Whys /\ "clone_source_cannot_list_clones" \in Whys
    BY RowTypes DEF Whys
  <2>3. CASE answer \in {"http_error", "no_answer"}
    <3>1. WriteInOrder("last_clone", source,
                       TargetsAfter([kind |-> "down"], "clone_source_unreachable"))
      BY <2>1, <2>3
    <3> QED BY <1>1, <2>2, <3>1, AfterType, CloneWrite
  <2>4. CASE answer \in {"refused", "malformed"}
    <3>1. WriteInOrder("last_clone", source,
                       TargetsAfter([kind |-> "source"], "clone_source_cannot_list_clones"))
      BY <2>1, <2>4
    <3> QED BY <1>1, <2>2, <3>1, AfterType, CloneWrite
  <2>5. CASE answer = "listed"
    <3>1. WriteInOrder("last_clone", source, listed(clones, full))
      BY <2>1, <2>5
    <3>2. ASSUME NEW e \in Envs
          PROVE  /\ listed(clones, full)[e] \in Row
                 /\ listed(clones, full)[e].kind = "never" => listed(clones, full)[e].place = "none"
      <4>1. CASE e = source
        BY <2>2, <4>1
      <4>2. CASE e # source
        <5>1. /\ clones[e] \in Clones /\ truncated(clones, full) \in BOOLEAN
              /\ clones[e] = "later" => truncated(clones, full)
          BY <4>2
        <5>2. listed(clones, full)[e] = Truth(CloneRow(clones[e], truncated(clones, full)), clones[e])
          BY <4>2
        <5> QED BY <5>1, <5>2, ListedRow
      <4> QED BY <4>1, <4>2
    <3>3. listed(clones, full) \in [Envs -> Row] /\ Truthful("last_clone", listed(clones, full))
      BY <3>2 DEF Truthful
    <3> HIDE DEF listed
    <3> QED BY <1>1, <3>1, <3>3, CloneWrite
  <2> QED BY <2>3, <2>4, <2>5
<1> QED BY <1>2, <1>3, <1>4

-----------------------------------------------------------------------------
LEMMA Stutter == ASSUME IInv, UNCHANGED vars PROVE IInv'
<1>1. UNCHANGED <<source, avail, rows, group, inventories, pc, phase, slowTick,
                  unsent, sampled, rolled, faults>>
  BY DEF vars
<1>2. TypeOK' /\ Inventoried' /\ Begun' /\ Lag'
  BY <1>1 DEF IInv, TypeOK, Inventoried, Begun, Lag
<1>3. Faulty'
  BY <1>1 DEF IInv, Faulty, Short
<1>4. Honest' /\ SleepersAreLeftAlone' /\ GroupsAreIndependent'
  BY <1>1 DEF IInv, Honest, EveryCardAnswers, NeverIsCertain, InventoriesAreFresh,
              SleepersAreLeftAlone, GroupsAreIndependent
<1> QED BY <1>2, <1>3, <1>4 DEF IInv

LEMMA Invariance == IInv /\ [Next]_vars => IInv'
<1> SUFFICES ASSUME IInv, [Next]_vars PROVE IInv'
  OBVIOUS
<1>1. CASE Collector
  BY <1>1, StartTickStep, JoinStep, DriftStep, LastCloneStep, ScanStep, PublishStep DEF Collector
<1>2. ASSUME NEW e \in Envs, Thread(e) \/ GroupPanics(e) PROVE IInv'
  BY <1>2, ProbeStep, CollectStep, PanicStep DEF Thread
<1>3. CASE SlowPanics \/ Elapse \/ HourTurns \/ Restart
  BY <1>3, SlowPanicsStep, ElapseStep, HourStep, RestartStep
<1>4. CASE UNCHANGED vars
  BY <1>4, Stutter
<1> QED BY <1>1, <1>2, <1>3, <1>4 DEF Next

THEOREM Inductive == Spec => []IInv
BY InitIInv, Invariance, PTL DEF Spec

\* However the instances answer and whichever writes fail, the slow Signals
\* answer for every Environment of a round without a fault, say "never cloned"
\* only of a target the source holds no clone of, and compare only inventories
\* read within the refresh interval (drift.rs, last_clone.rs, collector.rs).
THEOREM HonestSlowRows == Spec => []SlowRowsAreHonest
<1>1. IInv => SlowRowsAreHonest
  BY DEF IInv, Honest, SlowRowsAreHonest
<1> QED BY <1>1, Inductive, PTL

\* While its Availability row is within the reuse window, an Environment found
\* asleep or unreachable in a round is probed by no Signal of that round
\* (recent_reachability, in the groups, the scan and drift).
THEOREM SleepersUntouched == Spec => []SleepersAreLeftAlone
<1>1. IInv => SleepersAreLeftAlone
  BY DEF IInv
<1> QED BY <1>1, Inductive, PTL

\* For any number of Environments and Signals, when the groups have joined no
\* more Environments lack a row than there were faults, and the roll-up of the
\* hour lacks one sample, and one more for each fault.
THEOREM FaultsAreContained == Spec => []FaultsCostLittle
<1>1. IInv => GroupsAreIndependent
  BY DEF IInv
<1>2. IInv => RollupLagsOneRound
  BY DEF IInv, TypeOK, Lag, RollupLagsOneRound
<1>3. IInv => FaultsCostLittle
  BY <1>1, <1>2 DEF FaultsCostLittle
<1> QED BY <1>3, Inductive, PTL
=============================================================================
