-------------------------- MODULE ScheduleManager ---------------------------
(***************************************************************************)
(* buffer-service/common/schedule.py: the copy of the TrafficSchedule each *)
(* router and consumer process keeps.  Three tasks write it: load_once     *)
(* once at the start, watch_forever, and expiry_guard, which calls         *)
(* load_once again and again.  A load reads the object at one moment and   *)
(* stores it at a later one, so loads and watch events race.               *)
(*                                                                         *)
(* The API server is external: the object as it is, which a GET returns,   *)
(* and the events that the watch has still to hand out.                    *)
(***************************************************************************)
EXTENDS Naturals, Sequences

CONSTANTS
  Statuses,      \* what the operator may write into the object's status
  Naive,         \* those whose validUntil names no time zone
  NoStatus,      \* the {} that stands for an object without status
  Absent,        \* no object
  Default,       \* DEFAULT_SCHEDULE
  SecondsLeft,   \* seconds until a validUntil the guard may find, 0 when past
  MaxBacklog,    \* bound: events the watch has still to hand out
  MaxFaults      \* bound: GETs answered with an error, restarts of the process

ASSUME ManagerAssumption ==
  /\ NoStatus \notin Statuses
  /\ Absent \notin Statuses \cup {NoStatus}
  /\ Naive \subseteq Statuses
  /\ SecondsLeft \subseteq Nat
  /\ MaxBacklog \in Nat \ {0} /\ MaxFaults \in Nat

VARIABLES
  object,    \* the TrafficSchedule at the API server: its status, or Absent
  cache,     \* _current
  watch,     \* "new", "open", or "down" between two streams
  pending,   \* statuses of the events the watch has still to hand out
  loader,    \* where each load_once is: "initial", "guard"
  value,     \* what its GET returned
  sleepFor,  \* seconds the guard was told to sleep
  behind,    \* seconds the copy has been behind (history, for the properties)
  faults     \* failed calls and restarts so far

vars ==
  <<object, cache, watch, pending, loader, value, sleepFor, behind, faults>>

Loads    == {"initial", "guard"}
Contents == Statuses \cup {NoStatus}

TypeOK ==
  /\ object \in Contents \cup {Absent}
  /\ cache \in Contents \cup {Default}
  /\ watch \in {"new", "down", "open"}
  /\ pending \in Seq(Contents) /\ Len(pending) <= MaxBacklog
  /\ loader \in [Loads -> {"call", "read", "asleep", "done", "dead"}]
  /\ value \in [Loads -> Contents]
  /\ sleepFor \in Nat /\ behind \in Nat
  /\ faults \in 0..MaxFaults

\* The copy is not what the object is, and no event is left to say so.
Behind ==
  watch # "new" /\ object # Absent /\ pending = <<>> /\ cache # object

\* Time stands still in every step but GuardWakes.
NoTime == behind' = IF Behind' THEN behind ELSE 0

Starting == [initial |-> "call", guard |-> "done"]
Unread   == [l \in Loads |-> NoStatus]

Init ==
  /\ object \in {NoStatus, Absent}
  /\ cache = Default
  /\ watch = "new" /\ pending = <<>>
  /\ loader = Starting /\ value = Unread
  /\ sleepFor = 0 /\ behind = 0
  /\ faults = 0

-----------------------------------------------------------------------------
\* The API server: the object is created, without a status; its status is
\* written or its specification changed; it is deleted.
Possible(o) == \/ object = Absent /\ o = NoStatus
               \/ object # Absent /\ o \in Statuses \cup {object, Absent}

\* The event of a deletion carries the last status.
Says(o) == IF o = Absent THEN object ELSE o

Announced(o) ==
  /\ \/ watch = "new" /\ UNCHANGED pending
     \/ /\ watch # "new" /\ Len(pending) < MaxBacklog
        /\ pending' = Append(pending, Says(o))
  /\ UNCHANGED <<cache, watch, loader, value, sleepFor, faults>>
  /\ NoTime

ObjectBecomes(o) == Possible(o) /\ object' = o /\ Announced(o)

\* Mutant of WatchOpen: it begins one event too late.
WatchOpenAfter ==
  /\ watch # "open"
  /\ watch' = "open"
  /\ pending' = IF pending = <<>> THEN <<>> ELSE Tail(pending)
  /\ UNCHANGED <<object, cache, loader, value, sleepFor, faults>>
  /\ NoTime

\* Mutant of WatchOpen: what is listed comes after the events that were left.
WatchOpenAdds ==
  /\ watch # "open"
  /\ watch' = "open"
  /\ pending' = IF object = Absent THEN pending ELSE Append(pending, object)
  /\ UNCHANGED <<object, cache, loader, value, sleepFor, faults>>
  /\ NoTime

\* The watch opens.  A first one lists the object as it is; a later one may
\* list again or go on after the last event.
WatchOpen ==
  /\ watch # "open"
  /\ watch' = "open"
  /\ \/ pending' = IF object = Absent THEN <<>> ELSE <<object>>
     \/ watch = "down" /\ UNCHANGED pending
  /\ UNCHANGED <<object, cache, loader, value, sleepFor, faults>>
  /\ NoTime

\* An event: the status of its object replaces the copy, whatever its type.
WatchEvent ==
  /\ watch = "open"
  /\ pending # <<>>
  /\ cache' = Head(pending)
  /\ pending' = Tail(pending)
  /\ UNCHANGED <<object, watch, loader, value, sleepFor, faults>>
  /\ NoTime

\* The stream ends after 90 s or raises; the loop opens another.
WatchEnds ==
  /\ watch = "open"
  /\ watch' = "down"
  /\ UNCHANGED <<object, cache, pending, loader, value, sleepFor, behind, faults>>

\* load_once: the GET is answered ...
LoadRead(l) ==
  /\ loader[l] = "call"
  /\ object # Absent
  /\ loader' = [loader EXCEPT ![l] = "read"]
  /\ value' = [value EXCEPT ![l] = object]
  /\ UNCHANGED <<object, cache, watch, pending, sleepFor, behind, faults>>

\* ... and later, under the lock, its status replaces the copy.
LoadApply(l) ==
  /\ loader[l] = "read"
  /\ loader' = [loader EXCEPT ![l] = "done"]
  /\ cache' = value[l]
  /\ UNCHANGED <<object, watch, pending, value, sleepFor, faults>>
  /\ NoTime

\* Mutant of LoadFails: a call that fails puts back what the last one loaded.
LoadFailsRestores(l) ==
  /\ loader[l] = "call"
  /\ faults < MaxFaults /\ faults' = faults + 1
  /\ loader' = [loader EXCEPT ![l] = "done"]
  /\ cache' = value[l]
  /\ UNCHANGED <<object, watch, pending, value, sleepFor>>
  /\ NoTime

\* The GET raises (no such object, or an error of the server) and ends the task
\* that called load_once, the guard too: its try covers only the parsing.
LoadFails(l) ==
  /\ loader[l] = "call"
  /\ \/ object = Absent /\ UNCHANGED faults
     \/ faults < MaxFaults /\ faults' = faults + 1
  /\ loader' = [loader EXCEPT ![l] = "dead"]
  /\ UNCHANGED <<object, cache, watch, pending, value, sleepFor, behind>>

\* _current.get("validUntil"), parsed, minus utcnow(): without the key parsing
\* raises; with a zone in the string (the default's, and every RFC 3339 date's)
\* the subtraction of a time that has none raises.  Then the guard sleeps 60 + 1.
Comparable(c) == c \in Naive

\* Mutant of SleepSeconds: a longer fallback.
SleepLong(c, seconds) == 300

SleepSeconds(c, seconds) == (IF Comparable(c) THEN seconds ELSE 60) + 1

\* Mutant of GuardSleeps: the guard does not loop.
GuardSleepsOnce ==
  /\ loader["guard"] = "done" /\ sleepFor = 0
  /\ sleepFor' = SleepSeconds(cache, 0)
  /\ loader' = [loader EXCEPT !["guard"] = "asleep"]
  /\ UNCHANGED <<object, cache, watch, pending, value, behind, faults>>

\* expiry_guard looks at the copy and goes to sleep.
GuardSleeps ==
  /\ loader["guard"] = "done"
  /\ \E left \in SecondsLeft : sleepFor' = SleepSeconds(cache, left)
  /\ loader' = [loader EXCEPT !["guard"] = "asleep"]
  /\ UNCHANGED <<object, cache, watch, pending, value, behind, faults>>

\* The sleep is over.
GuardWakes ==
  /\ loader["guard"] = "asleep"
  /\ loader' = [loader EXCEPT !["guard"] = "call"]
  /\ behind' = IF Behind THEN behind + sleepFor ELSE 0
  /\ UNCHANGED <<object, cache, watch, pending, value, sleepFor, faults>>

\* The pod restarts.
Restart ==
  /\ faults < MaxFaults /\ faults' = faults + 1
  /\ cache' = Default
  /\ watch' = "new" /\ pending' = <<>>
  /\ loader' = Starting /\ value' = Unread
  /\ sleepFor' = 0 /\ behind' = 0
  /\ UNCHANGED object

Tasks ==
  \/ WatchOpen \/ WatchEvent \/ WatchEnds
  \/ \E l \in Loads : LoadRead(l) \/ LoadApply(l) \/ LoadFails(l)
  \/ GuardSleeps \/ GuardWakes

Next ==
  \/ \E o \in Contents \cup {Absent} : ObjectBecomes(o)
  \/ Tasks \/ Restart

Spec == Init /\ [][Next]_vars

\* The event loop runs its three tasks, the API server answers, time passes.
\* A stream lives for 90 s, long enough for an event to pass now and then.
Fairness ==
  /\ WF_vars(WatchOpen) /\ SF_vars(WatchEvent)
  /\ \A l \in Loads :
       WF_vars(LoadRead(l) \/ LoadApply(l) \/ (object = Absent /\ LoadFails(l)))
  /\ WF_vars(GuardSleeps) /\ WF_vars(GuardWakes)

FairSpec == Spec /\ Fairness

-----------------------------------------------------------------------------
\* Whatever the race between loads and watch events left in the copy, once the
\* object rests the copy becomes its status and stays so, provided the guard
\* lives on.
CatchesUp ==
  \A s \in Contents :
    <>[](object = s /\ loader["guard"] # "dead") => <>[](cache = s)

\* As long as the guard lives, the copy is never behind a resting object for
\* more than a minute (61 seconds, the GETs' own time not counted), however loads
\* and events overtook each other and however far in the future the expiry lies
\* (the fallback schedule's is in 2099).
BehindAMinuteAtMost == loader["guard"] # "dead" => behind <= 61

\* Once every event has been handed out the copy is behind only because a load
\* stored what it had read before the last change, or is about to be repaired.
BehindOnlyByRace ==
  Behind => \E l \in Loads :
              IF loader[l] = "read" THEN value[l] = object ELSE value[l] = cache

-----------------------------------------------------------------------------
\* What the copy is a copy of, and by which ways: the GETs and the watch.
source == IF object = Absent THEN NoStatus ELSE object

sent ==
  [c \in Loads \cup {"watch"} |->
     CASE c = "watch"                     -> pending
       [] c # "watch" /\ loader[c] = "read" -> <<value[c]>>
       [] OTHER                           -> <<>>]

Copy == INSTANCE LaggingCopy
          WITH Values <- Contents, Channels <- Loads \cup {"watch"},
               Nothing <- Default, source <- source, sent <- sent, copy <- cache

\* The copy implements LaggingCopy: through races, lost streams, failed loads,
\* deletions and restarts it holds nothing but what the object had when it was
\* sent, each way in its order, and no status comes back once it has left its way.
ImplementsLaggingCopy == Copy!Spec
=============================================================================
