----------------------- MODULE ScheduleManagerProofs ------------------------
(***************************************************************************)
(* The copy of the schedule is behind only by a race, for a minute at most *)
(* and never on a status the object did not have, for every number of      *)
(* statuses, pending events and faults.                                    *)
(*                                                                         *)
(* BehindOnlyByRace needs that the last pending event tells the object     *)
(* (LastTells).  BehindAMinuteAtMost needs where the guard is when time is *)
(* counted: asleep it finds nothing counted, and what it has read is the   *)
(* object, or nothing is counted (GuardRepairs).                           *)
(***************************************************************************)
EXTENDS ScheduleManager, SequenceTheorems, TLAPS

LastTells ==
  pending # <<>> /\ object # Absent => pending[Len(pending)] = object

NewHasNoEvents == watch = "new" => pending = <<>>

GuardRepairs ==
  CASE loader["guard"] \in {"done", "asleep"} -> behind = 0
    [] loader["guard"] = "call"               -> behind <= 61
    [] loader["guard"] = "read"               -> behind <= 61 /\ (value["guard"] = object \/ behind = 0)
    [] OTHER                                  -> TRUE

RaceInv == TypeOK /\ NewHasNoEvents /\ LastTells /\ BehindOnlyByRace

\* What the guard sleeps when no validUntil can be compared.
SleepsAMinute == loader["guard"] = "asleep" => sleepFor = 61

-----------------------------------------------------------------------------
\* Init establishes the types.
LEMMA InitType == Init => TypeOK
  BY ManagerAssumption DEF Init, TypeOK, Contents, Loads, Starting, Unread

\* Every step keeps the types.
LEMMA StepType == TypeOK /\ [Next]_vars => TypeOK'
<1> SUFFICES ASSUME TypeOK, [Next]_vars PROVE TypeOK'
  OBVIOUS
<1> USE ManagerAssumption DEF TypeOK
<1>0. NoTime => behind' \in Nat
  BY DEF NoTime
<1>1. ASSUME NEW o \in Contents \cup {Absent}, ObjectBecomes(o) PROVE TypeOK'
  <2>1. pending' \in Seq(Contents) /\ Len(pending') <= MaxBacklog
    <3>1. CASE UNCHANGED pending
      BY <3>1
    <3>2. CASE watch # "new" /\ Len(pending) < MaxBacklog
               /\ pending' = Append(pending, Says(o))
      <4>1. Says(o) \in Contents
        BY <1>1 DEF ObjectBecomes, Announced, Possible, Says, Contents
      <4> QED
        BY <3>2, <4>1
    <3> QED
      BY <1>1, <3>1, <3>2 DEF ObjectBecomes, Announced
  <2> QED
    BY <1>0, <1>1, <2>1 DEF ObjectBecomes, Announced
<1>2. CASE WatchOpen
  <2>1. pending' \in Seq(Contents) /\ Len(pending') <= MaxBacklog
    <3>1. CASE object # Absent /\ pending' = <<object>>
      BY <3>1
    <3>2. CASE pending' = <<>>
      BY <3>2
    <3> QED
      BY <1>2, <3>1, <3>2 DEF WatchOpen
  <2> QED
    BY <1>0, <1>2, <2>1 DEF WatchOpen
<1>3. CASE WatchEvent
  <2>1. Head(pending) \in Contents /\ Tail(pending) \in Seq(Contents)
        /\ Len(Tail(pending)) <= MaxBacklog
    BY <1>3 DEF WatchEvent
  <2> QED
    BY <1>0, <1>3, <2>1 DEF WatchEvent
<1>4. CASE WatchEnds
  BY <1>4 DEF WatchEnds
<1>5. ASSUME NEW l \in Loads, LoadRead(l) PROVE TypeOK'
  BY <1>5 DEF LoadRead, Contents
<1>6. ASSUME NEW l \in Loads, LoadApply(l) PROVE TypeOK'
  BY <1>0, <1>6 DEF LoadApply
<1>7. ASSUME NEW l \in Loads, LoadFails(l) PROVE TypeOK'
  BY <1>7 DEF LoadFails
<1>8. CASE GuardSleeps
  BY <1>8 DEF GuardSleeps, SleepSeconds, Loads
<1>9. CASE GuardWakes
  BY <1>9 DEF GuardWakes, Loads
<1>10. CASE Restart
  BY <1>10 DEF Restart, Starting, Unread, Loads, Contents
<1>11. CASE UNCHANGED vars
  BY <1>11 DEF vars
<1> QED
  BY <1>1, <1>2, <1>3, <1>4, <1>5, <1>6, <1>7, <1>8, <1>9, <1>10, <1>11
     DEF Next, Tasks

\* The types of the manager's state.
THEOREM TypeCorrect == Spec => []TypeOK
  BY InitType, StepType, PTL DEF Spec

-----------------------------------------------------------------------------
\* Init establishes the invariant of the race.
LEMMA InitRace == Init => RaceInv
  BY InitType DEF Init, RaceInv, NewHasNoEvents, LastTells, BehindOnlyByRace, Behind

\* The watch's own state: no event before the first stream, and the last event
\* that is pending tells the object.
LEMMA StepEvents ==
  TypeOK /\ NewHasNoEvents /\ LastTells /\ [Next]_vars
    => NewHasNoEvents' /\ LastTells'
<1> SUFFICES ASSUME TypeOK, NewHasNoEvents, LastTells, [Next]_vars
             PROVE  NewHasNoEvents' /\ LastTells'
  OBVIOUS
<1> USE DEF NewHasNoEvents, LastTells
<1>1. ASSUME NEW o \in Contents \cup {Absent}, ObjectBecomes(o)
      PROVE  NewHasNoEvents' /\ LastTells'
  <2>1. CASE watch = "new" /\ UNCHANGED pending
    BY <1>1, <2>1 DEF ObjectBecomes, Announced
  <2>2. CASE watch # "new" /\ pending' = Append(pending, Says(o))
    <3>1. pending' # <<>> /\ pending'[Len(pending')] = Says(o)
      BY <2>2 DEF TypeOK
    <3> QED
      BY <1>1, <2>2, <3>1 DEF ObjectBecomes, Announced, Says
  <2> QED
    BY <1>1, <2>1, <2>2 DEF ObjectBecomes, Announced
<1>2. CASE WatchOpen
  <2>1. CASE object # Absent /\ pending' = <<object>>
    BY <1>2, <2>1 DEF WatchOpen
  <2>2. CASE object = Absent /\ pending' = <<>>
    BY <1>2, <2>2 DEF WatchOpen
  <2>3. CASE UNCHANGED pending
    BY <1>2, <2>3 DEF WatchOpen
  <2> QED
    BY <1>2, <2>1, <2>2, <2>3 DEF WatchOpen
<1>3. CASE WatchEvent
  <2>1. pending' # <<>> => pending'[Len(pending')] = pending[Len(pending)]
    BY <1>3 DEF WatchEvent, TypeOK
  <2> QED
    BY <1>3, <2>1 DEF WatchEvent
<1>4. CASE Restart
  BY <1>4 DEF Restart
<1>5. CASE UNCHANGED <<object, watch, pending>>
  BY <1>5
<1>6. CASE WatchEnds
  BY <1>6 DEF WatchEnds
<1> QED
  BY <1>1, <1>2, <1>3, <1>4, <1>5, <1>6
     DEF Next, Tasks, LoadRead, LoadApply, LoadFails, GuardSleeps, GuardWakes, vars

\* A step that changes neither the object, the copy nor the events leaves
\* Behind alone, except that the first stream begins.
LEMMA StepRace == RaceInv /\ [Next]_vars => RaceInv'
<1> SUFFICES ASSUME RaceInv, [Next]_vars PROVE BehindOnlyByRace'
  BY StepType, StepEvents DEF RaceInv
<1> USE DEF RaceInv
<1>1. ASSUME NEW o \in Contents \cup {Absent}, ObjectBecomes(o) PROVE ~Behind'
  <2>1. watch' = "new" \/ pending' # <<>>
    BY <1>1 DEF ObjectBecomes, Announced, TypeOK
  <2> QED
    BY <2>1 DEF Behind
<1>2. CASE WatchOpen
  <2>1. CASE UNCHANGED pending
    BY <1>2, <2>1 DEF WatchOpen, BehindOnlyByRace, Behind
  <2>2. CASE pending' = IF object = Absent THEN <<>> ELSE <<object>>
    BY <1>2, <2>2 DEF WatchOpen, BehindOnlyByRace, Behind
  <2> QED
    BY <1>2, <2>1, <2>2 DEF WatchOpen
<1>3. CASE WatchEvent
  <2>1. pending' = <<>> => Head(pending) = pending[Len(pending)]
    <3>1. pending \in Seq(Contents) /\ pending # <<>> /\ pending' = Tail(pending)
      BY <1>3 DEF WatchEvent, TypeOK
    <3>2. Len(pending') = Len(pending) - 1 /\ Head(pending) = pending[1]
      BY <3>1, HeadTailProperties
    <3>3. Len(pending) \in Nat
      BY <3>1
    <3>4. ASSUME pending' = <<>> PROVE Len(pending) = 1
      <4>1. Len(pending') = 0
        BY <3>4
      <4> QED
        BY <3>2, <3>3, <4>1
    <3> QED
      BY <3>2, <3>4
  <2>2. ~Behind'
    BY <1>3, <2>1 DEF WatchEvent, LastTells, Behind
  <2> QED
    BY <2>2 DEF BehindOnlyByRace
<1>4. CASE WatchEnds
  BY <1>4 DEF WatchEnds, BehindOnlyByRace, Behind
<1>5. ASSUME NEW l \in Loads, LoadRead(l) PROVE BehindOnlyByRace'
  <2>1. loader'[l] = "read" /\ value'[l] = object'
    BY <1>5 DEF LoadRead, TypeOK
  <2> QED
    BY <2>1 DEF BehindOnlyByRace
<1>6. ASSUME NEW l \in Loads, LoadApply(l) PROVE BehindOnlyByRace'
  <2>1. loader'[l] # "read" /\ value'[l] = cache'
    BY <1>6 DEF LoadApply, TypeOK
  <2> QED
    BY <2>1 DEF BehindOnlyByRace
<1>7. ASSUME NEW l \in Loads, NEW p \in {"call", "asleep", "dead"}, loader[l] # "read",
             loader' = [loader EXCEPT ![l] = p],
             UNCHANGED <<object, cache, watch, pending, value>>
      PROVE  BehindOnlyByRace'
  <2> SUFFICES ASSUME Behind PROVE BehindOnlyByRace'
    BY <1>7 DEF BehindOnlyByRace, Behind
  <2>1. PICK k \in Loads :
          IF loader[k] = "read" THEN value[k] = object ELSE value[k] = cache
    BY DEF BehindOnlyByRace
  <2>2. loader'[k] = "read" <=> loader[k] = "read"
    BY <1>7 DEF TypeOK
  <2> QED
    BY <1>7, <2>1, <2>2 DEF BehindOnlyByRace
<1>8. ASSUME NEW l \in Loads, LoadFails(l) PROVE BehindOnlyByRace'
  BY <1>7, <1>8 DEF LoadFails
<1>9. CASE GuardSleeps
  BY <1>7, <1>9 DEF GuardSleeps, Loads
<1>10. CASE GuardWakes
  BY <1>7, <1>10 DEF GuardWakes, Loads
<1>11. CASE Restart
  BY <1>11 DEF Restart, BehindOnlyByRace, Behind
<1>12. CASE UNCHANGED vars
  BY <1>12 DEF vars, BehindOnlyByRace, Behind
<1> QED
  BY <1>1, <1>2, <1>3, <1>4, <1>5, <1>6, <1>8, <1>9, <1>10, <1>11, <1>12
     DEF Next, Tasks, BehindOnlyByRace

\* Once every event was handed out, only a load that overtook one leaves the
\* copy behind.
THEOREM OnlyRaces == Spec => []BehindOnlyByRace
<1>1. RaceInv => BehindOnlyByRace
  BY DEF RaceInv
<1> QED
  BY InitRace, StepRace, <1>1, PTL DEF Spec

-----------------------------------------------------------------------------
\* When no validUntil can be compared, as none the operator writes can, a step
\* keeps where the guard stands.
LEMMA StepRepair ==
  ASSUME Naive = {}
  PROVE  TypeOK /\ GuardRepairs /\ SleepsAMinute /\ [Next]_vars
           => GuardRepairs' /\ SleepsAMinute'
<1> SUFFICES ASSUME TypeOK, GuardRepairs, SleepsAMinute, [Next]_vars
             PROVE  GuardRepairs' /\ SleepsAMinute'
  OBVIOUS
<1> USE DEF GuardRepairs, SleepsAMinute
<1>0. ASSUME NoTime PROVE behind' = behind \/ behind' = 0
  BY <1>0 DEF NoTime
<1>1. ASSUME NEW o \in Contents \cup {Absent}, ObjectBecomes(o)
      PROVE  GuardRepairs' /\ SleepsAMinute'
  <2>1. watch' = "new" \/ pending' # <<>>
    BY <1>1 DEF ObjectBecomes, Announced, TypeOK
  <2>2. behind' = 0
    BY <1>1, <2>1 DEF ObjectBecomes, Announced, NoTime, Behind
  <2> QED
    BY <1>1, <2>2 DEF ObjectBecomes, Announced, TypeOK, Loads
<1>2. CASE WatchOpen
  BY <1>0, <1>2 DEF WatchOpen, TypeOK, Loads
<1>3. CASE WatchEvent
  BY <1>0, <1>3 DEF WatchEvent, TypeOK, Loads
<1>4. CASE WatchEnds
  BY <1>4 DEF WatchEnds
<1>5. CASE LoadRead("guard")
  BY <1>5 DEF LoadRead, TypeOK, Loads
<1>6. CASE LoadApply("guard")
  <2>1. value["guard"] = object => ~Behind'
    BY <1>6 DEF LoadApply, Behind
  <2>2. behind' = 0
    BY <1>0, <1>6, <2>1 DEF LoadApply, NoTime
  <2> QED
    BY <1>6, <2>2 DEF LoadApply, TypeOK, Loads
<1>7. CASE LoadFails("guard")
  BY <1>7 DEF LoadFails, TypeOK, Loads
<1>8. CASE LoadRead("initial") \/ LoadApply("initial") \/ LoadFails("initial")
  <2>1. /\ loader'["guard"] = loader["guard"] /\ value'["guard"] = value["guard"]
        /\ UNCHANGED <<object, sleepFor>>
        /\ behind' = behind \/ behind' = 0
    BY <1>0, <1>8 DEF LoadRead, LoadApply, LoadFails, TypeOK, Loads
  <2> QED
    BY <2>1 DEF TypeOK, Loads
<1>9. CASE GuardSleeps
  <2>1. sleepFor' = 61
    BY <1>9 DEF GuardSleeps, SleepSeconds, Comparable
  <2> QED
    BY <1>9, <2>1 DEF GuardSleeps, TypeOK, Loads
<1>10. CASE GuardWakes
  BY <1>10 DEF GuardWakes, TypeOK, Loads
<1>11. CASE Restart
  BY <1>11 DEF Restart, Starting
<1>12. CASE UNCHANGED vars
  BY <1>12 DEF vars
<1> QED
  BY <1>1, <1>2, <1>3, <1>4, <1>5, <1>6, <1>7, <1>8, <1>9, <1>10, <1>11, <1>12
     DEF Next, Tasks, Loads

\* As long as the guard lives the copy is behind a resting object for a minute
\* at most, for every number of faults and every order of loads and events.
THEOREM AMinuteAtMost ==
  ASSUME Naive = {}
  PROVE  Spec => []BehindAMinuteAtMost
<1>1. Init => GuardRepairs /\ SleepsAMinute
  BY DEF Init, GuardRepairs, SleepsAMinute, Starting
<1>2. TypeOK /\ GuardRepairs => BehindAMinuteAtMost
  BY DEF GuardRepairs, BehindAMinuteAtMost, TypeOK, Loads
<1> QED
  BY InitType, StepType, StepRepair, <1>1, <1>2, PTL DEF Spec

-----------------------------------------------------------------------------
Ways == Loads \cup {"watch"}

\* What is on the watch's way, and on a load's.
LEMMA SentIs ==
  /\ sent["watch"] = pending /\ sent'["watch"] = pending'
  /\ \A l \in Loads :
       /\ sent[l] = IF loader[l] = "read" THEN <<value[l]>> ELSE <<>>
       /\ sent'[l] = IF loader'[l] = "read" THEN <<value'[l]>> ELSE <<>>
  BY DEF sent, Loads

\* A step that changes what is on one way only.
LEMMA SentExcept ==
  ASSUME NEW c \in Ways, NEW x, sent'[c] = x,
         \A d \in Ways \ {c} : sent'[d] = sent[d]
  PROVE  sent' = [sent EXCEPT ![c] = x]
  BY DEF sent, Ways

\* A step that changes at most what the watch has to hand out.
LEMMA SentByWatch ==
  ASSUME UNCHANGED <<loader, value>>
  PROVE  sent' = [sent EXCEPT !["watch"] = pending']
  BY DEF sent

\* A step that changes nothing on any way.
LEMMA SentSame ==
  ASSUME \A c \in Ways : sent'[c] = sent[c]
  PROVE  sent' = sent
  BY DEF sent, Ways

\* Every step of the manager is a step of LaggingCopy, or stutters.
LEMMA StepCopies == TypeOK /\ [Next]_vars => [Copy!Next]_(Copy!vars)
<1> SUFFICES ASSUME TypeOK, [Next]_vars PROVE Copy!Next \/ UNCHANGED Copy!vars
  OBVIOUS
<1> USE SentIs DEF Ways
<1>1. ASSUME NEW o \in Contents \cup {Absent}, ObjectBecomes(o) PROVE Copy!Next
  <2>1. source' \in Contents /\ UNCHANGED cache
    BY <1>1 DEF ObjectBecomes, Announced, source, Contents
  <2>2. CASE UNCHANGED pending
    <3>1. sent' = sent
      BY <1>1, <2>2, SentSame DEF ObjectBecomes, Announced
    <3> QED
      BY <2>1, <3>1 DEF Copy!Next, Copy!Change
  <2>3. CASE pending' = Append(pending, Says(o))
    <3>1. Says(o) \in {source, source'}
      BY <1>1 DEF ObjectBecomes, Announced, Possible, Says, source
    <3>2. sent' = [sent EXCEPT !["watch"] = Append(sent["watch"], Says(o))]
      BY <1>1, <2>3, SentByWatch DEF ObjectBecomes, Announced
    <3> QED
      BY <2>1, <3>1, <3>2 DEF Copy!Next, Copy!Change
  <2> QED
    BY <1>1, <2>2, <2>3 DEF ObjectBecomes, Announced
<1>2. CASE WatchOpen
  <2>1. UNCHANGED <<source, cache>>
    BY <1>2 DEF WatchOpen, source
  <2>2. sent' = [sent EXCEPT !["watch"] = pending']
    BY <1>2, SentByWatch DEF WatchOpen
  <2>3. CASE UNCHANGED pending
    <3>1. UNCHANGED <<loader, value, pending>>
      BY <1>2, <2>3 DEF WatchOpen
    <3>2. \A c \in Ways : sent'[c] = sent[c]
      BY <3>1
    <3>3. sent' = sent
      BY <3>2, SentSame
    <3> QED
      BY <2>1, <3>3 DEF Copy!vars
  <2>4. CASE pending' = IF object = Absent THEN <<>> ELSE <<object>>
    <3>1. pending' \in {<<>>, <<source>>}
      BY <2>4 DEF source
    <3>2. \E s \in {<<>>, <<source>>} : sent' = [sent EXCEPT !["watch"] = s]
      BY <2>2, <3>1
    <3>3. Copy!Lose("watch")
      BY <2>1, <3>2 DEF Copy!Lose
    <3> QED
      BY <3>3 DEF Copy!Next
  <2> QED
    BY <1>2, <2>3, <2>4 DEF WatchOpen
<1>3. CASE WatchEvent
  <2>1. UNCHANGED source
    BY <1>3 DEF WatchEvent, source
  <2>2. sent' = [sent EXCEPT !["watch"] = Tail(sent["watch"])]
    BY <1>3, SentByWatch DEF WatchEvent
  <2> QED
    BY <1>3, <2>1, <2>2 DEF WatchEvent, Copy!Next, Copy!Arrive
<1>4. ASSUME NEW l \in Loads, LoadRead(l) PROVE Copy!Next
  <2>1. UNCHANGED <<source, cache>> /\ source \in Contents /\ source = object
    BY <1>4 DEF LoadRead, source, TypeOK, Contents
  <2>2. sent[l] = <<>> /\ sent'[l] = <<source>> /\ \A d \in Ways \ {l} : sent'[d] = sent[d]
    BY <1>4, <2>1 DEF LoadRead, TypeOK, Loads
  <2>3. Append(sent[l], source) = <<source>>
    BY <2>2
  <2>4. sent' = [sent EXCEPT ![l] = Append(sent[l], source)]
    BY <2>2, <2>3, SentExcept
  <2> QED
    BY <2>1, <2>4 DEF Copy!Next, Copy!Change
<1>5. ASSUME NEW l \in Loads, LoadApply(l) PROVE Copy!Next
  <2>1. UNCHANGED source
    BY <1>5 DEF LoadApply, source
  <2>2. sent[l] = <<value[l]>> /\ sent'[l] = <<>>
        /\ \A d \in Ways \ {l} : sent'[d] = sent[d]
    BY <1>5 DEF LoadApply, TypeOK, Loads
  <2>3. sent[l] # <<>> /\ Head(sent[l]) = value[l] /\ Tail(sent[l]) = <<>>
    BY <2>2
  <2>4. sent' = [sent EXCEPT ![l] = Tail(sent[l])]
    BY <2>2, <2>3, SentExcept
  <2> QED
    BY <1>5, <2>1, <2>3, <2>4 DEF LoadApply, Copy!Next, Copy!Arrive
<1>6. ASSUME UNCHANGED <<object, cache, pending, value>>,
             \A l \in Loads : loader'[l] = "read" <=> loader[l] = "read"
      PROVE  UNCHANGED Copy!vars
  <2>1. sent' = sent
    BY <1>6, SentSame
  <2> QED
    BY <1>6, <2>1 DEF Copy!vars, source
<1>7. ASSUME NEW l \in Loads, LoadFails(l) PROVE UNCHANGED Copy!vars
  BY <1>6, <1>7 DEF LoadFails, TypeOK
<1>8. CASE GuardSleeps
  BY <1>6, <1>8 DEF GuardSleeps, TypeOK
<1>9. CASE GuardWakes
  BY <1>6, <1>9 DEF GuardWakes, TypeOK
<1>10. CASE WatchEnds
  BY <1>6, <1>10 DEF WatchEnds
<1>11. CASE Restart
  <2>1. \A c \in Ways : sent'[c] = <<>>
    BY <1>11 DEF Restart, Starting, Loads
  <2>2. sent' = [c \in Ways |-> <<>>]
    BY <2>1 DEF sent
  <2>3. UNCHANGED source /\ cache' = Default
    BY <1>11 DEF Restart, source
  <2> QED
    BY <2>2, <2>3 DEF Copy!Next, Copy!Reset
<1>12. CASE UNCHANGED vars
  BY <1>6, <1>12 DEF vars
<1> QED
  BY <1>1, <1>2, <1>3, <1>4, <1>5, <1>7, <1>8, <1>9, <1>10, <1>11, <1>12
     DEF Next, Tasks

\* The copy is a LaggingCopy of the object's status, whatever races, fails or
\* restarts: nothing but what the object had reaches it.
THEOREM ManagerCopies == Spec => ImplementsLaggingCopy
<1>1. Init => Copy!Init
  <2> SUFFICES ASSUME Init PROVE Copy!Init
    OBVIOUS
  <2>1. sent = [c \in Ways |-> <<>>]
    BY DEF Init, sent, Starting, Loads, Ways
  <2> QED
    BY <2>1 DEF Init, Copy!Init, source, Contents, Ways
<1> QED
  BY InitType, StepType, StepCopies, <1>1, PTL
     DEF Spec, ImplementsLaggingCopy, Copy!Spec
=============================================================================
