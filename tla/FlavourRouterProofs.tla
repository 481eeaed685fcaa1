------------------------ MODULE FlavourRouterProofs -------------------------
(***************************************************************************)
(* Theorems about FlavourRouterController, for any number of Services, of  *)
(* TrafficSchedules and of disturbances: its types, what holds when the    *)
(* controller goes quiet, and that it leaves the replicas alone.           *)
(*                                                                         *)
(* What holds when it is quiet is not inductive: the proofs are about      *)
(* IndInv, which says what is still to come for each Service.              *)
(***************************************************************************)
EXTENDS FlavourRouterController, TLAPS

-----------------------------------------------------------------------------
(* Keys and copies.                                                        *)

\* Keys of Services, of TrafficSchedules and of children differ, and a child's
\* key tells its kind and, unless the whole cluster has it, its Service.
LEMMA KeysDiffer ==
  /\ \A s \in Services, t \in TSNames : Svc(s) # TS(t)
  /\ \A s, r \in Services, c \in Children : Svc(s) # Child(c, r)
  /\ \A t \in TSNames, r \in Services, c \in Children : TS(t) # Child(c, r)
  /\ \A s, r \in Services : Svc(s) = Svc(r) => s = r
  /\ \A s, r \in Services, c, d \in Children :
       Child(c, s) = Child(d, r) =>
         c = d /\ IF c \in Clusterwide THEN NameOf[s] = NameOf[r] ELSE s = r
<1>1. \A c \in Children : c # "svc" /\ c # "ts"
  BY ControllerAssumption DEF ControllerAssumption, Ensured
<1> QED
  BY <1>1 DEF Svc, TS, Child

\* Which keys are objects.
LEMMA KeysAreObjects ==
  /\ \A s \in Services : Svc(s) \in Objects /\ Svc(s) \in SvcKeys
  /\ \A t \in TSNames : TS(t) \in Objects /\ TS(t) \in TSKeys
  /\ \A c \in Children, s \in Services : Child(c, s) \in Objects /\ Child(c, s) \in KeysOf(c)
BY DEF Objects, SvcKeys, TSKeys, KeysOf

\* A copy keeps its type when a Service's label changes,
LEMMA CopyWithLabel ==
  ASSUME NEW w, IsCopy(w), NEW s \in Services, NEW new \in {"on", "off", Absent}
  PROVE  IsCopy([w EXCEPT ![Svc(s)] = new])
<1> DEFINE v == [w EXCEPT ![Svc(s)] = new]
<1>1. DOMAIN v = Objects
  BY DEF IsCopy
<1>2. \A o \in Objects : v[o] = IF o = Svc(s) THEN new ELSE w[o]
  BY DEF IsCopy
<1>3. \A o \in SvcKeys : v[o] \in {"on", "off", Absent}
  BY <1>2 DEF IsCopy, Objects
<1>4. \A o \in TSKeys : v[o] \in Specs \cup {Absent}
  <2> SUFFICES ASSUME NEW t \in TSNames PROVE v[TS(t)] \in Specs \cup {Absent}
    BY DEF TSKeys
  <2>1. TS(t) # Svc(s)
    BY DEF TS, Svc
  <2> QED
    BY <1>2, <2>1, KeysAreObjects DEF IsCopy
<1>5. \A c \in Children : \A o \in KeysOf(c) : v[o] \in Contents \cup {Absent}
  <2> SUFFICES ASSUME NEW c \in Children, NEW r \in Services
               PROVE  v[Child(c, r)] \in Contents \cup {Absent}
    BY DEF KeysOf
  <2>1. Child(c, r) # Svc(s)
    <3>1. c # "svc"
      BY ControllerAssumption DEF ControllerAssumption, Ensured
    <3> QED
      BY <3>1 DEF Child, Svc
  <2> QED
    BY <1>2, <2>1, KeysAreObjects DEF IsCopy
<1> HIDE DEF v
<1> QED
  BY <1>1, <1>3, <1>4, <1>5 DEF IsCopy, v

\* a TrafficSchedule,
LEMMA CopyWithSpec ==
  ASSUME NEW w, IsCopy(w), NEW t \in TSNames, NEW new \in Specs \cup {Absent}
  PROVE  IsCopy([w EXCEPT ![TS(t)] = new])
<1> DEFINE v == [w EXCEPT ![TS(t)] = new]
<1>1. DOMAIN v = Objects
  BY DEF IsCopy
<1>2. \A o \in Objects : v[o] = IF o = TS(t) THEN new ELSE w[o]
  BY DEF IsCopy
<1>3. \A o \in SvcKeys : v[o] \in {"on", "off", Absent}
  <2> SUFFICES ASSUME NEW s \in Services PROVE v[Svc(s)] \in {"on", "off", Absent}
    BY DEF SvcKeys
  <2>1. TS(t) # Svc(s)
    BY DEF TS, Svc
  <2> QED
    BY <1>2, <2>1, KeysAreObjects DEF IsCopy
<1>4. \A o \in TSKeys : v[o] \in Specs \cup {Absent}
  BY <1>2 DEF IsCopy, Objects
<1>5. \A c \in Children : \A o \in KeysOf(c) : v[o] \in Contents \cup {Absent}
  <2> SUFFICES ASSUME NEW c \in Children, NEW r \in Services
               PROVE  v[Child(c, r)] \in Contents \cup {Absent}
    BY DEF KeysOf
  <2>1. Child(c, r) # TS(t)
    <3>1. c # "ts"
      BY ControllerAssumption DEF ControllerAssumption, Ensured
    <3> QED
      BY <3>1 DEF Child, TS
  <2> QED
    BY <1>2, <2>1, KeysAreObjects DEF IsCopy
<1> HIDE DEF v
<1> QED
  BY <1>1, <1>3, <1>4, <1>5 DEF IsCopy, v

\* or one of the other objects.
LEMMA CopyWithContents ==
  ASSUME NEW w, IsCopy(w), NEW d \in Children, NEW k \in KeysOf(d),
         NEW new \in Contents \cup {Absent}
  PROVE  IsCopy([w EXCEPT ![k] = new])
<1> DEFINE v == [w EXCEPT ![k] = new]
<1>0. PICK q \in Services : k = Child(d, q)
  BY DEF KeysOf
<1>1. DOMAIN v = Objects
  BY DEF IsCopy
<1>2. \A o \in Objects : v[o] = IF o = k THEN new ELSE w[o]
  BY DEF IsCopy
<1>3. \A o \in SvcKeys : v[o] \in {"on", "off", Absent}
  <2> SUFFICES ASSUME NEW s \in Services PROVE v[Svc(s)] \in {"on", "off", Absent}
    BY DEF SvcKeys
  <2>1. d # "svc"
    BY ControllerAssumption DEF ControllerAssumption, Ensured
  <2>2. k # Svc(s)
    BY <1>0, <2>1 DEF Child, Svc
  <2> QED
    BY <1>2, <2>2, KeysAreObjects DEF IsCopy
<1>4. \A o \in TSKeys : v[o] \in Specs \cup {Absent}
  <2> SUFFICES ASSUME NEW t \in TSNames PROVE v[TS(t)] \in Specs \cup {Absent}
    BY DEF TSKeys
  <2>1. d # "ts"
    BY ControllerAssumption DEF ControllerAssumption, Ensured
  <2>2. k # TS(t)
    BY <1>0, <2>1 DEF Child, TS
  <2> QED
    BY <1>2, <2>2, KeysAreObjects DEF IsCopy
<1>5. \A c \in Children : \A o \in KeysOf(c) : v[o] \in Contents \cup {Absent}
  BY <1>2 DEF IsCopy, Objects
<1> HIDE DEF v
<1> QED
  BY <1>1, <1>3, <1>4, <1>5 DEF IsCopy, v

\* An informer's copy keeps its type when it takes an object as it is.
LEMMA CopyTaken ==
  ASSUME NEW w, IsCopy(w), NEW u, IsCopy(u), NEW o \in Objects
  PROVE  IsCopy([u EXCEPT ![o] = w[o]])
<1>1. CASE o \in SvcKeys
  <2>1. PICK s \in Services : o = Svc(s)
    BY <1>1 DEF SvcKeys
  <2> QED
    BY <1>1, <2>1, CopyWithLabel DEF IsCopy
<1>2. CASE o \in TSKeys
  <2>1. PICK t \in TSNames : o = TS(t)
    BY <1>2 DEF TSKeys
  <2> QED
    BY <1>2, <2>1, CopyWithSpec DEF IsCopy
<1>3. CASE \E c \in Children : o \in KeysOf(c)
  <2>1. PICK c \in Children : o \in KeysOf(c)
    BY <1>3
  <2> QED
    BY <2>1, CopyWithContents DEF IsCopy
<1> QED
  BY <1>1, <1>2, <1>3 DEF Objects

\* A write changes one object, and whatever it changes is stale.
LEMMA WriteTells ==
  ASSUME IsCopy(world), NEW o \in Objects, NEW new, Writes(o, new)
  PROVE  /\ world'[o] = new
         /\ \A p \in Objects \ {o} : world'[p] = world[p]
         /\ stale \subseteq stale' /\ stale' \subseteq stale \cup {o}
         /\ \A p \in Objects \ stale' : p \notin stale /\ world'[p] = world[p]
BY DEF IsCopy, Writes

-----------------------------------------------------------------------------
(* Types.                                                                  *)

\* What the operations of the work queue make of a key's entry.
LEMMA QueueFields ==
  ASSUME NEW q \in WorkQueueType, NEW b \in BOOLEAN
  PROVE  /\ AddedIf(q, b) \in WorkQueueType
         /\ AddedIf(q, b).dirty <=> q.dirty \/ b
         /\ AddedIf(q, b).busy <=> q.busy
         /\ AddedIf(q, b).later <=> q.later
         /\ Got(q) \in WorkQueueType
         /\ ~Got(q).dirty /\ Got(q).busy /\ (Got(q).later <=> q.later)
         /\ Done(q, b) \in WorkQueueType
         /\ Done(q, b).dirty <=> q.dirty
         /\ ~Done(q, b).busy
         /\ Done(q, b).later <=> q.later \/ b
         /\ Fired(q) \in WorkQueueType
         /\ Fired(q).dirty /\ (Fired(q).busy <=> q.busy) /\ ~Fired(q).later
BY DEF WorkQueueType, AddedIf, Got, Done, Fired

\* What an entry looks like once the noticed Services are added.
LEMMA EnqueuesFields ==
  ASSUME queue \in [Services -> WorkQueueType], NEW noticed, Enqueues(noticed)
  PROVE  /\ queue' \in [Services -> WorkQueueType]
         /\ \A s \in Services :
              /\ queue'[s].dirty <=> queue[s].dirty \/ s \in noticed
              /\ queue'[s].busy <=> queue[s].busy
              /\ queue'[s].later <=> queue[s].later
<1>1. ASSUME NEW s \in Services
      PROVE  /\ queue'[s] \in WorkQueueType
             /\ queue'[s].dirty <=> queue[s].dirty \/ s \in noticed
             /\ queue'[s].busy <=> queue[s].busy
             /\ queue'[s].later <=> queue[s].later
  <2>1. queue'[s] = [queue[s] EXCEPT !.dirty = @ \/ s \in noticed]
    BY DEF Enqueues, AddedIf
  <2>2. queue[s] \in WorkQueueType
    OBVIOUS
  <2> QED
    BY <2>1, <2>2 DEF WorkQueueType
<1> QED
  BY <1>1 DEF Enqueues

\* The types of the queue and of the reconciliation in progress, apart.
WorkerTypes ==
  /\ queue \in [Services -> WorkQueueType]
  /\ run \in Runs \cup {Idle}
  /\ \A s \in Services : queue[s].busy <=> run # Idle /\ run.svc = s
  /\ RunHasSpec

\* The types of the objects and their copies.
CopyTypes ==
  /\ IsCopy(world) /\ IsCopy(cache)
  /\ stale \subseteq Objects
  /\ \A o \in Objects \ stale : cache[o] = world[o]

CounterTypes ==
  /\ tampered \in BOOLEAN
  /\ disturbed \in 0..MaxDisturbances
  /\ failed \in 0..MaxFailures

LEMMA TypesAreParts == Types <=> CopyTypes /\ WorkerTypes /\ CounterTypes
BY DEF Types, TypeOK, CopyTypes, WorkerTypes, CounterTypes

\* A reconciliation is one of Runs or none at all.
LEMMA RunIsRun ==
  ASSUME run \in Runs \cup {Idle}, run # Idle
  PROVE  /\ run \in Runs /\ run.svc \in Services /\ run.left \subseteq Children
         /\ run.mode \in {"ensure", "clean"} /\ run.tsSpec \in Specs \cup {Absent}
BY DEF Runs

LEMMA IdleHasNoMode == Idle.mode = "idle"
BY DEF Idle

\* Init makes the types.
LEMMA InitTypes == Init => Types
<1> SUFFICES ASSUME Init PROVE Types
  OBVIOUS
<1>1. PICK label \in [Services -> {"on", "off", Absent}],
           ts \in [TSNames -> Specs \cup {Absent}] :
        world = [o \in Objects |-> IF o \in SvcKeys THEN label[o[2]]
                                   ELSE IF o \in TSKeys THEN ts[o[2]] ELSE Absent]
  BY DEF Init
<1>2. CopyTypes
  <2>1. \A s \in Services : world[Svc(s)] = label[s]
    BY <1>1, KeysAreObjects DEF Svc
  <2>2. \A t \in TSNames : world[TS(t)] = ts[t]
    <3> TAKE t \in TSNames
    <3>1. TS(t) \notin SvcKeys
      BY DEF TS, SvcKeys, Svc
    <3> QED
      BY <1>1, <3>1, KeysAreObjects DEF TS
  <2>3. \A c \in Children : \A s \in Services : world[Child(c, s)] = Absent
    <3> TAKE c \in Children
    <3> TAKE s \in Services
    <3>1. Child(c, s) \notin SvcKeys
      BY KeysDiffer DEF SvcKeys
    <3>2. Child(c, s) \notin TSKeys
      BY KeysDiffer DEF TSKeys
    <3> QED
      BY <1>1, <3>1, <3>2, KeysAreObjects
  <2>4. IsCopy(world)
    <3>1. \A o \in SvcKeys : world[o] \in {"on", "off", Absent}
      BY <2>1 DEF SvcKeys
    <3>2. \A o \in TSKeys : world[o] \in Specs \cup {Absent}
      BY <2>2 DEF TSKeys
    <3>3. \A c \in Children : \A o \in KeysOf(c) : world[o] \in Contents \cup {Absent}
      BY <2>3 DEF KeysOf
    <3>4. DOMAIN world = Objects
      BY <1>1
    <3> QED
      BY <3>1, <3>2, <3>3, <3>4 DEF IsCopy
  <2> QED
    BY <2>4 DEF Init, CopyTypes
<1>3. WorkerTypes
  <2>1. Empty \in WorkQueueType /\ ~Empty.busy
    BY DEF Empty, WorkQueueType
  <2>2. \A s \in Services : queue[s] = AddedIf(Empty, Listed(world, s))
    BY DEF Init
  <2>3. \A s \in Services : Listed(world, s) \in BOOLEAN
    BY DEF Listed
  <2>4. \A s \in Services : queue[s] \in WorkQueueType /\ ~queue[s].busy
    BY <2>1, <2>2, <2>3, QueueFields
  <2>5. run = Idle /\ queue \in [Services -> WorkQueueType]
    BY <2>4 DEF Init
  <2> QED
    BY <2>4, <2>5, IdleHasNoMode DEF WorkerTypes, RunHasSpec
<1>4. CounterTypes
  <2>1. MaxDisturbances \in Nat /\ MaxFailures \in Nat
    BY ControllerAssumption DEF ControllerAssumption
  <2>2. disturbed \in 0..MaxDisturbances /\ failed \in 0..MaxFailures
    BY <2>1 DEF Init
  <2>3. tampered \in BOOLEAN
    BY DEF Init
  <2> QED
    BY <2>2, <2>3 DEF CounterTypes
<1> QED
  BY <1>2, <1>3, <1>4, TypesAreParts

\* What a return makes of the queue and of the reconciliation.
LEMMA ReturnFields ==
  ASSUME WorkerTypes, run # Idle, NEW again \in BOOLEAN, Return(again)
  PROVE  /\ WorkerTypes' /\ run' = Idle
         /\ \A s \in Services :
              /\ ~queue'[s].busy
              /\ queue'[s].dirty <=> queue[s].dirty
              /\ queue'[s].later <=> queue[s].later \/ (s = run.svc /\ again)
<1>1. run.svc \in Services /\ queue \in [Services -> WorkQueueType]
  BY RunIsRun DEF WorkerTypes
<1>2. queue' = [queue EXCEPT ![run.svc] = Done(queue[run.svc], again)]
  BY DEF Return
<1>3. ASSUME NEW s \in Services
      PROVE  /\ queue'[s] \in WorkQueueType
             /\ ~queue'[s].busy
             /\ queue'[s].dirty <=> queue[s].dirty
             /\ queue'[s].later <=> queue[s].later \/ (s = run.svc /\ again)
  <2>1. CASE s = run.svc
    BY <1>1, <1>2, <2>1, QueueFields
  <2>2. CASE s # run.svc
    BY <1>1, <1>2, <2>2 DEF WorkerTypes
  <2> QED
    BY <2>1, <2>2
<1>4. queue' \in [Services -> WorkQueueType]
  BY <1>1, <1>2, <1>3
<1> QED
  BY <1>3, <1>4, IdleHasNoMode DEF Return, WorkerTypes, RunHasSpec

\* What a step to the next object makes of the reconciliation.
LEMMA AdvanceFields ==
  ASSUME WorkerTypes, run # Idle, NEW c, Advance(c)
  PROVE  /\ WorkerTypes' /\ run' # Idle /\ UNCHANGED queue
         /\ run'.mode = run.mode /\ run'.svc = run.svc /\ run'.tsSpec = run.tsSpec
         /\ run'.left = run.left \ {c}
<1>1. run \in Runs
  BY DEF WorkerTypes
<1>2. /\ run' \in Runs
      /\ run'.mode = run.mode /\ run'.svc = run.svc /\ run'.tsSpec = run.tsSpec
      /\ run'.left = run.left \ {c}
  BY <1>1 DEF Advance, Runs
<1>3. run' # Idle
  BY <1>2, <1>1, IdleHasNoMode DEF Runs
<1>4. UNCHANGED queue
  BY DEF Advance
<1> QED
  BY <1>2, <1>3, <1>4 DEF WorkerTypes, RunHasSpec

\* What the begin of a reconciliation makes of the queue.
LEMMA BeginFields ==
  ASSUME WorkerTypes, NEW s \in Services, NEW mode \in {"ensure", "clean"},
         NEW spec \in Specs \cup {Absent}, mode = "ensure" => spec \in Specs,
         Begin(s), queue' = [queue EXCEPT ![s] = Got(queue[s])],
         run' = [mode |-> mode, svc |-> s, left |-> Children, tsSpec |-> spec]
  PROVE  /\ WorkerTypes' /\ run' # Idle
         /\ \A r \in Services : r # s => queue'[r] = queue[r] /\ ~queue[r].busy
         /\ ~queue'[s].dirty /\ queue'[s].busy /\ (queue'[s].later <=> queue[s].later)
<1>1. run' \in Runs /\ run' # Idle /\ run'.svc = s /\ run'.mode = mode /\ run'.tsSpec = spec
  BY IdleHasNoMode DEF Runs
<1>2. queue[s] \in WorkQueueType /\ run = Idle
  BY DEF WorkerTypes, Begin
<1>3. Got(queue[s]) \in WorkQueueType /\ ~Got(queue[s]).dirty /\ Got(queue[s]).busy
      /\ (Got(queue[s]).later <=> queue[s].later)
  BY <1>2, QueueFields
<1>4. queue' \in [Services -> WorkQueueType] /\ queue'[s] = Got(queue[s])
      /\ \A r \in Services : r # s => queue'[r] = queue[r]
  BY <1>3 DEF WorkerTypes
<1>5. \A r \in Services : ~queue[r].busy
  BY <1>2 DEF WorkerTypes
<1> QED
  BY <1>1, <1>3, <1>4, <1>5 DEF WorkerTypes, RunHasSpec

\* A call that finds nothing to do.
LEMMA NothingFields ==
  ASSUME WorkerTypes, NEW s \in Services, BeginNothing(s)
  PROVE  /\ WorkerTypes' /\ run' = Idle /\ run = Idle
         /\ \A r \in Services : r # s => queue'[r] = queue[r]
         /\ ~queue'[s].dirty /\ ~queue'[s].busy
         /\ queue'[s].later <=> queue[s].later \/ cache[Svc(s)] = "on"
<1> DEFINE q == Got(queue[s])
<1>1. run = Idle /\ UNCHANGED run /\ queue[s] \in WorkQueueType
      /\ queue' = [queue EXCEPT ![s] = Done(q, cache[Svc(s)] = "on")]
  BY DEF BeginNothing, Begin, WorkerTypes
<1>2. q \in WorkQueueType /\ ~q.dirty /\ (q.later <=> queue[s].later)
  BY <1>1, QueueFields
<1> HIDE DEF q
<1>3. Done(q, cache[Svc(s)] = "on") =
        [q EXCEPT !.busy = FALSE, !.later = @ \/ cache[Svc(s)] = "on"]
  BY DEF Done
<1>4. queue'[s] = Done(q, cache[Svc(s)] = "on")
      /\ \A r \in Services : r # s => queue'[r] = queue[r]
  BY <1>1 DEF WorkerTypes
<1>5. queue'[s] \in WorkQueueType /\ ~queue'[s].dirty /\ ~queue'[s].busy
      /\ (queue'[s].later <=> q.later \/ cache[Svc(s)] = "on")
  BY <1>2, <1>3, <1>4 DEF WorkQueueType
<1>6. queue' \in [Services -> WorkQueueType]
  BY <1>1, <1>5 DEF WorkerTypes
<1> QED
  BY <1>1, <1>2, <1>4, <1>5, <1>6 DEF WorkerTypes, RunHasSpec

\* A write of something well-typed leaves the copies well-typed.
LEMMA WriteTypes ==
  ASSUME CopyTypes, NEW o \in Objects, NEW new, Writes(o, new), UNCHANGED cache,
         IsCopy([world EXCEPT ![o] = new])
  PROVE  CopyTypes'
<1>1. IsCopy(world') /\ IsCopy(cache') /\ stale' \subseteq Objects
  BY DEF CopyTypes, Writes, IsCopy
<1>2. \A p \in Objects \ stale' : cache'[p] = world'[p]
  BY WriteTells DEF CopyTypes
<1> QED
  BY <1>1, <1>2 DEF CopyTypes

\* A specification and a Service are contents, and a change of an object makes one.
LEMMA ContentsMade ==
  /\ \A f \in Specs \cup Services \cup {"fixed", "edited"}, n \in 0..MaxReplicas :
       [from |-> f, replicas |-> n] \in Contents
  /\ \A f \in Specs \cup Services \cup {"fixed", "edited"}, x \in Contents :
       [x EXCEPT !.from = f] \in Contents
  /\ \A n \in 0..MaxReplicas, x \in Contents : [x EXCEPT !.replicas = n] \in Contents
BY DEF Contents

\* What Reconcile makes is contents, with a Deployment's replicas or none.
LEMMA WantedIsContents ==
  ASSUME Types, NEW c \in Children, Ensures(c)
  PROVE  /\ run \in Runs /\ run # Idle /\ run.svc \in Services /\ run.tsSpec \in Specs
         /\ Wanted(c) \in Contents
         /\ \A n \in 0..MaxReplicas :
              /\ [Wanted(c) EXCEPT !.replicas = n] \in Contents
              /\ [Wanted(c) EXCEPT !.replicas = n].from = Wanted(c).from
              /\ [Wanted(c) EXCEPT !.replicas = n].replicas = n
<1>1. run.mode = "ensure" /\ run # Idle
  BY IdleHasNoMode DEF Ensures, At
<1>2. run \in Runs /\ run.svc \in Services /\ run.tsSpec \in Specs
  BY <1>1, RunIsRun DEF Types, TypeOK, RunHasSpec
<1>3. 0 \in 0..MaxReplicas /\ 1 \in 0..MaxReplicas
  BY ControllerAssumption DEF ControllerAssumption
<1>4. Wanted(c) \in Contents
  BY <1>2, <1>3 DEF Wanted, Contents
<1> QED
  BY <1>1, <1>2, <1>4 DEF Contents

\* Every step leaves the worker's part well-typed.
LEMMA WorkerTypesKept ==
  ASSUME Types, [Next]_vars
  PROVE  WorkerTypes'
<1> USE TypesAreParts
<1>1. CASE UNCHANGED <<queue, run>>
  BY <1>1 DEF WorkerTypes, RunHasSpec
<1>2. ASSUME NEW noticed, Enqueues(noticed), UNCHANGED run PROVE WorkerTypes'
  BY <1>2, EnqueuesFields DEF WorkerTypes, RunHasSpec
<1>3. ASSUME NEW s \in Services, Fire(s) PROVE WorkerTypes'
  <2>1. queue' = [queue EXCEPT ![s] = Fired(queue[s])] /\ UNCHANGED run
    BY <1>3 DEF Fire
  <2>2. queue[s] \in WorkQueueType
    BY DEF WorkerTypes
  <2>3. Fired(queue[s]) \in WorkQueueType /\ (Fired(queue[s]).busy <=> queue[s].busy)
    BY <2>2, QueueFields
  <2> QED
    BY <2>1, <2>3 DEF WorkerTypes, RunHasSpec
<1>4. ASSUME NEW s \in Services, BeginNothing(s) PROVE WorkerTypes'
  BY <1>4, NothingFields
<1>5. ASSUME NEW s \in Services, BeginCleanup(s) PROVE WorkerTypes'
  BY <1>5, BeginFields DEF BeginCleanup
<1>6. ASSUME NEW s \in Services, BeginEnsure(s) PROVE WorkerTypes'
  <2>1. PICK t \in TSNames :
          /\ cache[TS(t)] # Absent
          /\ run' = [mode |-> "ensure", svc |-> s, left |-> Children, tsSpec |-> cache[TS(t)]]
    BY <1>6 DEF BeginEnsure
  <2>2. cache[TS(t)] \in Specs
    BY <2>1, KeysAreObjects DEF CopyTypes, IsCopy
  <2> QED
    BY <1>6, <2>1, <2>2, BeginFields DEF BeginEnsure
<1>7. ASSUME run # Idle, NEW again \in BOOLEAN, Return(again) PROVE WorkerTypes'
  BY <1>7, ReturnFields
<1>8. ASSUME run # Idle, NEW c, Advance(c) PROVE WorkerTypes'
  BY <1>8, AdvanceFields
<1>9. ASSUME Restart PROVE WorkerTypes'
  <2>1. Empty \in WorkQueueType /\ ~Empty.busy
    BY DEF Empty, WorkQueueType
  <2>2. \A s \in Services : Listed(world, s) \in BOOLEAN
    BY DEF Listed
  <2>3. \A s \in Services : AddedIf(Empty, Listed(world, s)) \in WorkQueueType
                            /\ ~AddedIf(Empty, Listed(world, s)).busy
    BY <2>1, <2>2, QueueFields
  <2>4. run' = Idle /\ queue' \in [Services -> WorkQueueType]
        /\ \A s \in Services : ~queue'[s].busy
    BY <1>9, <2>3 DEF Restart
  <2> QED
    BY <2>4, IdleHasNoMode DEF WorkerTypes, RunHasSpec
<1>10. CASE UNCHANGED vars
  BY <1>1, <1>10 DEF vars
<1>11. CASE \E o \in Objects : Watch(o)
  BY <1>2, <1>11 DEF Watch
<1>12. ASSUME NEW s \in Services, Reconcile(s) PROVE WorkerTypes'
  <2>1. CASE Begins(s)
    BY <1>4, <1>5, <1>6, <2>1 DEF Begins
  <2>2. ASSUME run # Idle, NEW c \in Children, Ensure(c) PROVE WorkerTypes'
    BY <1>7, <1>8, <2>2
       DEF Ensure, EnsurePanics, EnsureSkips, EnsureCreates, EnsureUpdates, EnsureRefused,
           EnsureFails, Fail
  <2>3. ASSUME run # Idle, NEW c \in Children, Clean(c) PROVE WorkerTypes'
    BY <1>8, <2>3 DEF Clean, CleanDeletes, CleanFails
  <2>4. ASSUME run # Idle, EnsureEnds \/ CleanEnds PROVE WorkerTypes'
    BY <1>7, <2>4 DEF EnsureEnds, CleanEnds
  <2> QED
    BY <1>12, <2>1, <2>2, <2>3, <2>4 DEF Reconcile
<1>13. CASE Others
  <2>1. ASSUME NEW s \in Services, ServiceChanges(s) PROVE WorkerTypes'
    BY <1>1, <2>1 DEF ServiceChanges, Changes
  <2>2. ASSUME NEW t \in TSNames, TrafficScheduleChanges(t) PROVE WorkerTypes'
    BY <1>1, <2>2 DEF TrafficScheduleChanges, Changes
  <2>3. ASSUME NEW t \in TSNames, TrafficScheduleRenewed(t) PROVE WorkerTypes'
    BY <1>2, <2>3 DEF TrafficScheduleRenewed
  <2>4. ASSUME NEW o, Scaled(o) PROVE WorkerTypes'
    BY <1>1, <2>4 DEF Scaled, Changes
  <2>5. ASSUME NEW c, NEW o, Edited(c, o) PROVE WorkerTypes'
    BY <1>1, <2>5 DEF Edited, Changes
  <2>6. ASSUME NEW c, NEW s, Collected(c, s) PROVE WorkerTypes'
    BY <1>1, <2>6 DEF Collected, Changes
  <2> QED
    BY <1>9, <1>13, <2>1, <2>2, <2>3, <2>4, <2>5, <2>6 DEF Others
<1> QED
  BY <1>3, <1>10, <1>11, <1>12, <1>13 DEF Next

\* Every step leaves the objects and their copies well-typed.
LEMMA CopyTypesKept ==
  ASSUME Types, [Next]_vars
  PROVE  CopyTypes'
<1> USE TypesAreParts
<1>1. IsCopy(world) /\ IsCopy(cache)
  BY DEF CopyTypes
<1>2. CASE UNCHANGED <<world, cache, stale>>
  BY <1>2 DEF CopyTypes, IsCopy
<1>3. ASSUME NEW c \in Children, NEW o \in KeysOf(c), NEW new \in Contents \cup {Absent},
             Writes(o, new), UNCHANGED cache
      PROVE  CopyTypes'
  <2>1. o \in Objects
    BY DEF Objects
  <2> QED
    BY <1>1, <1>3, <2>1, CopyWithContents, WriteTypes
<1>4. CASE \E o \in Objects : Watch(o)
  <2>1. PICK o \in Objects : Watch(o)
    BY <1>4
  <2>2. cache' = [cache EXCEPT ![o] = world[o]] /\ UNCHANGED world /\ stale' = stale \ {o}
    BY <2>1 DEF Watch
  <2>3. IsCopy(cache')
    BY <1>1, <2>2, CopyTaken
  <2>4. IsCopy(world')
    BY <1>1, <2>2 DEF IsCopy
  <2>5. \A p \in Objects \ stale' : cache'[p] = world'[p]
    BY <1>1, <2>2 DEF CopyTypes, IsCopy
  <2> QED
    BY <2>2, <2>3, <2>4, <2>5 DEF CopyTypes
<1>5. ASSUME NEW s \in Services, Reconcile(s) PROVE CopyTypes'
  <2>1. CASE Begins(s)
    BY <1>2, <2>1 DEF Begins, BeginNothing, BeginCleanup, BeginEnsure, Begin
  <2>2. CASE EnsureEnds \/ CleanEnds
    BY <1>2, <2>2 DEF EnsureEnds, CleanEnds
  <2>3. ASSUME run # Idle, NEW c \in Children, Ensure(c) PROVE CopyTypes'
    <3>1. Ensures(c)
      BY <2>3 DEF Ensure, EnsurePanics, EnsureSkips, EnsureCreates, EnsureUpdates,
                  EnsureRefused, EnsureFails
    <3>2. Current(c) \in KeysOf(c)
      BY <3>1, WantedIsContents DEF Current, KeysOf
    <3>3. CASE EnsureCreates(c)
      BY <1>3, <3>1, <3>2, <3>3, WantedIsContents DEF EnsureCreates
    <3>4. CASE EnsureUpdates(c)
      <4>1. cache[Current(c)] \in Contents
        BY <1>1, <3>2, <3>4 DEF EnsureUpdates, Differs, IsCopy
      <4>2. cache[Current(c)].replicas \in 0..MaxReplicas
        BY <4>1 DEF Contents
      <4> DEFINE new == [Wanted(c) EXCEPT !.replicas = cache[Current(c)].replicas]
      <4>3. new \in Contents
        BY <3>1, <4>2, WantedIsContents
      <4>4. Writes(Current(c), new) /\ UNCHANGED cache
        BY <3>4 DEF EnsureUpdates
      <4> HIDE DEF new
      <4> QED
        BY <1>3, <3>2, <4>3, <4>4
    <3>5. CASE UNCHANGED <<world, cache, stale>>
      BY <1>2, <3>5
    <3> QED
      BY <2>3, <3>3, <3>4, <3>5 DEF Ensure, EnsurePanics, EnsureSkips, EnsureRefused, EnsureFails
  <2>4. ASSUME run # Idle, NEW c \in Children, Clean(c) PROVE CopyTypes'
    <3>1. run.svc \in Services
      BY <2>4, RunIsRun DEF WorkerTypes
    <3>2. Current(c) \in KeysOf(c)
      BY <3>1 DEF Current, KeysOf
    <3> QED
      BY <1>2, <1>3, <2>4, <3>2 DEF Clean, CleanDeletes, CleanFails
  <2> QED
    BY <1>5, <2>1, <2>2, <2>3, <2>4 DEF Reconcile
<1>6. CASE Others
  <2>1. ASSUME NEW s \in Services, ServiceChanges(s) PROVE CopyTypes'
    <3>1. PICK new \in {"on", "off", Absent} : Writes(Svc(s), new) /\ UNCHANGED cache
      BY <2>1 DEF ServiceChanges, Changes
    <3> QED
      BY <1>1, <3>1, CopyWithLabel, WriteTypes, KeysAreObjects
  <2>2. ASSUME NEW t \in TSNames, TrafficScheduleChanges(t) PROVE CopyTypes'
    <3>1. PICK new \in Specs \cup {Absent} : Writes(TS(t), new) /\ UNCHANGED cache
      BY <2>2 DEF TrafficScheduleChanges, Changes
    <3> QED
      BY <1>1, <3>1, CopyWithSpec, WriteTypes, KeysAreObjects
  <2>3. ASSUME NEW t \in TSNames, TrafficScheduleRenewed(t) PROVE CopyTypes'
    BY <1>2, <2>3 DEF TrafficScheduleRenewed
  <2>4. ASSUME NEW d \in Deployments, NEW o \in KeysOf(d), Scaled(o) PROVE CopyTypes'
    <3>1. world[o] \in Contents /\ d \in Children
      BY <1>1, <2>4 DEF Scaled, IsCopy, Deployments
    <3>2. PICK n \in 0..MaxReplicas : Changes(o, [world[o] EXCEPT !.replicas = n])
      BY <2>4 DEF Scaled
    <3> DEFINE new == [world[o] EXCEPT !.replicas = n]
    <3>3. new \in Contents
      BY <3>1, ContentsMade
    <3>4. Writes(o, new) /\ UNCHANGED cache
      BY <3>2 DEF Changes
    <3> HIDE DEF new
    <3> QED
      BY <1>3, <2>4, <3>1, <3>3, <3>4
  <2>5. ASSUME NEW c \in Children, NEW o \in KeysOf(c), Edited(c, o) PROVE CopyTypes'
    <3>1. world[o] \in Contents
      BY <1>1, <2>5 DEF Edited, IsCopy
    <3> DEFINE edited == [world[o] EXCEPT !.from = "edited"]
    <3>2. edited \in Contents
      BY <3>1, ContentsMade
    <3>3. PICK new \in {edited, Absent} : Changes(o, new)
      BY <2>5 DEF Edited
    <3> HIDE DEF edited
    <3> QED
      BY <1>3, <2>5, <3>2, <3>3 DEF Changes
  <2>6. ASSUME NEW c \in Children, NEW s \in Services, Collected(c, s) PROVE CopyTypes'
    BY <1>3, <2>6, KeysAreObjects DEF Collected, Changes
  <2>7. CASE Restart
    BY <1>1, <2>7 DEF Restart, CopyTypes, IsCopy
  <2> QED
    BY <1>6, <2>1, <2>2, <2>3, <2>4, <2>5, <2>6, <2>7 DEF Others
<1>7. ASSUME NEW s \in Services, Fire(s) PROVE CopyTypes'
  BY <1>2, <1>7 DEF Fire
<1>8. CASE UNCHANGED vars
  BY <1>2, <1>8 DEF vars
<1> QED
  BY <1>4, <1>5, <1>6, <1>7, <1>8 DEF Next

\* Every step leaves the counters and the history well-typed.
LEMMA CounterTypesKept ==
  ASSUME Types, [Next]_vars
  PROVE  CounterTypes'
<1> USE TypesAreParts
<1>1. MaxDisturbances \in Nat /\ MaxFailures \in Nat
  BY ControllerAssumption DEF ControllerAssumption
<1>2. CASE UNCHANGED <<tampered, disturbed, failed>>
  BY <1>2 DEF CounterTypes
<1>3. CASE UNCHANGED <<tampered, disturbed>> /\ failed < MaxFailures /\ failed' = failed + 1
  BY <1>1, <1>3 DEF CounterTypes
<1>4. CASE tampered' \in BOOLEAN /\ Disturbs
  BY <1>1, <1>4 DEF CounterTypes, Disturbs
<1>5. tampered \in BOOLEAN
  BY DEF CounterTypes
<1>6. CASE \E o \in Objects : Watch(o)
  BY <1>2, <1>6 DEF Watch
<1>7. ASSUME NEW s \in Services, Fire(s) \/ Reconcile(s) PROVE CounterTypes'
  <2>1. CASE Fire(s) \/ Begins(s)
    BY <1>2, <2>1 DEF Fire, Begins, BeginNothing, BeginCleanup, BeginEnsure, Begin
  <2>2. CASE EnsureEnds \/ CleanEnds
    BY <1>2, <2>2 DEF EnsureEnds, CleanEnds
  <2>3. ASSUME NEW c \in Children, Ensure(c) PROVE CounterTypes'
    BY <1>2, <1>3, <2>3 DEF Ensure, EnsurePanics, EnsureSkips, EnsureCreates, EnsureUpdates,
                            EnsureRefused, EnsureFails
  <2>4. ASSUME NEW c \in Children, Clean(c) PROVE CounterTypes'
    BY <1>2, <1>3, <2>4 DEF Clean, CleanDeletes, CleanFails
  <2> QED
    BY <1>7, <2>1, <2>2, <2>3, <2>4 DEF Reconcile
<1>8. CASE Others
  <2>1. ASSUME NEW s \in Services, ServiceChanges(s) PROVE CounterTypes'
    BY <1>4, <1>5, <2>1 DEF ServiceChanges
  <2>2. ASSUME NEW t \in TSNames, TrafficScheduleChanges(t) PROVE CounterTypes'
    BY <1>4, <1>5, <2>2 DEF TrafficScheduleChanges
  <2>3. ASSUME NEW t \in TSNames, TrafficScheduleRenewed(t) PROVE CounterTypes'
    BY <1>2, <2>3 DEF TrafficScheduleRenewed
  <2>4. ASSUME NEW o, Scaled(o) PROVE CounterTypes'
    BY <1>4, <1>5, <2>4 DEF Scaled
  <2>5. ASSUME NEW c \in Children, NEW o, Edited(c, o) PROVE CounterTypes'
    <3>1. Disturbs /\ tampered' = (tampered \/ c \in Clusterwide)
      BY <2>5 DEF Edited
    <3>2. tampered' \in BOOLEAN
      BY <3>1
    <3> QED
      BY <1>4, <3>1, <3>2
  <2>6. ASSUME NEW c, NEW s, Collected(c, s) PROVE CounterTypes'
    BY <1>2, <2>6 DEF Collected
  <2>7. CASE Restart
    BY <1>4, <1>5, <2>7 DEF Restart
  <2> QED
    BY <1>8, <2>1, <2>2, <2>3, <2>4, <2>5, <2>6, <2>7 DEF Others
<1>9. CASE UNCHANGED vars
  BY <1>2, <1>9 DEF vars
<1> QED
  BY <1>6, <1>7, <1>8, <1>9 DEF Next

LEMMA TypesKept == Types /\ [Next]_vars => Types'
<1> SUFFICES ASSUME Types, [Next]_vars PROVE Types'
  OBVIOUS
<1>1. CopyTypes' /\ WorkerTypes' /\ CounterTypes'
  BY CopyTypesKept, WorkerTypesKept, CounterTypesKept
<1> QED
  BY <1>1 DEF Types, TypeOK, CopyTypes, WorkerTypes, CounterTypes

-----------------------------------------------------------------------------
(* What the steps do, from the point of view of the objects of one Service. *)

\* Reconcile returns an error or panics: the key comes back.
GivesUp ==
  /\ run # Idle
  /\ Return(TRUE)
  /\ UNCHANGED <<world, cache, stale, tampered>>
  /\ failed' = 0 => failed = 0

\* Reconcile or cleanupResources is through.
Finishes ==
  /\ run # Idle /\ run.left = {}
  /\ \E again \in BOOLEAN : Return(again)
  /\ UNCHANGED <<world, cache, stale, tampered, failed>>

\* They come to the next object.
Moves(c) ==
  /\ run # Idle
  /\ EnsureSkips(c) \/ EnsureCreates(c) \/ EnsureUpdates(c) \/ CleanDeletes(c) \/ CleanFails(c)

\* Somebody else changes or deletes an object.
Touches(c, k) ==
  /\ world[k] # Absent
  /\ \E new : Changes(k, new)
  /\ UNCHANGED failed
  /\ tampered => tampered'
  /\ c \in Clusterwide => tampered'
  /\ disturbed' = disturbed =>
       /\ world'[k] = Absent
       /\ \E r \in Services : k = Child(c, r) /\ c \notin Clusterwide /\ world[Svc(r)] = Absent

LEMMA StepKinds ==
  ASSUME Types, [Next]_vars
  PROVE  \/ \E o \in Objects : Watch(o)
         \/ \E r \in Services :
              Fire(r) \/ BeginNothing(r) \/ BeginCleanup(r) \/ BeginEnsure(r) \/ ServiceChanges(r)
         \/ GivesUp
         \/ Finishes
         \/ \E c \in Children : Moves(c)
         \/ \E t \in TSNames : TrafficScheduleChanges(t) \/ TrafficScheduleRenewed(t)
         \/ \E c \in Children : \E k \in KeysOf(c) : Touches(c, k)
         \/ Restart
         \/ UNCHANGED vars
<1> DEFINE Kinds ==
      \/ \E o \in Objects : Watch(o)
      \/ \E r \in Services :
           Fire(r) \/ BeginNothing(r) \/ BeginCleanup(r) \/ BeginEnsure(r) \/ ServiceChanges(r)
      \/ GivesUp
      \/ Finishes
      \/ \E c \in Children : Moves(c)
      \/ \E t \in TSNames : TrafficScheduleChanges(t) \/ TrafficScheduleRenewed(t)
      \/ \E c \in Children : \E k \in KeysOf(c) : Touches(c, k)
      \/ Restart
      \/ UNCHANGED vars
<1>1. ASSUME NEW r \in Services, Reconcile(r) PROVE Kinds
  <2>1. CASE Begins(r)
    BY <2>1 DEF Begins
  <2>2. ASSUME run # Idle, EnsureEnds \/ CleanEnds PROVE Finishes
    BY <2>2 DEF EnsureEnds, CleanEnds, Finishes
  <2>3. ASSUME run # Idle, NEW c \in Children, Ensure(c) PROVE GivesUp \/ Moves(c)
    <3>1. failed \in Nat
      BY ControllerAssumption DEF Types, TypeOK, ControllerAssumption
    <3>2. CASE EnsurePanics(c) \/ EnsureRefused(c)
      BY <2>3, <3>2 DEF EnsurePanics, EnsureRefused, GivesUp, Fail
    <3>3. CASE EnsureFails(c)
      <4>1. failed' = failed + 1
        BY <3>3 DEF EnsureFails
      <4>2. failed' # 0
        BY <3>1, <4>1
      <4> QED
        BY <2>3, <3>3, <4>2 DEF EnsureFails, GivesUp, Fail
    <3>4. CASE EnsureSkips(c) \/ EnsureCreates(c) \/ EnsureUpdates(c)
      BY <2>3, <3>4 DEF Moves
    <3> QED
      BY <2>3, <3>2, <3>3, <3>4 DEF Ensure
  <2>4. ASSUME run # Idle, NEW c \in Children, Clean(c) PROVE Moves(c)
    BY <2>4 DEF Clean, Moves
  <2> QED
    BY <1>1, <2>1, <2>2, <2>3, <2>4 DEF Reconcile
<1>2. CASE Others
  <2>0. ASSUME Disturbs PROVE disturbed' # disturbed
    <3>1. disturbed \in Nat /\ disturbed' = disturbed + 1
      BY <2>0, ControllerAssumption DEF Disturbs, Types, TypeOK, ControllerAssumption
    <3> QED
      BY <3>1
  <2>1. ASSUME NEW d \in Deployments, NEW k \in KeysOf(d), Scaled(k) PROVE Touches(d, k)
    <3>1. \E n : Changes(k, [world[k] EXCEPT !.replicas = n])
      BY <2>1 DEF Scaled
    <3>2. \E new : Changes(k, new)
      BY <3>1
    <3>3. d \notin Clusterwide
      BY <2>1 DEF Deployments, Clusterwide
    <3> QED
      BY <2>0, <2>1, <3>2, <3>3 DEF Scaled, Touches, Disturbs
  <2>2. ASSUME NEW c \in Children, NEW k \in KeysOf(c), Edited(c, k) PROVE Touches(c, k)
    <3>1. \E new : Changes(k, new)
      BY <2>2 DEF Edited
    <3> QED
      BY <2>0, <2>2, <3>1 DEF Edited, Touches, Disturbs
  <2>3. ASSUME NEW c \in Children, NEW r \in Services, Collected(c, r)
        PROVE  Touches(c, Child(c, r)) /\ Child(c, r) \in KeysOf(c)
    <3>1. Writes(Child(c, r), Absent) /\ Child(c, r) \in Objects
      BY <2>3, KeysAreObjects DEF Collected, Changes
    <3>2. world'[Child(c, r)] = Absent
      BY <3>1 DEF Writes, Types, TypeOK, IsCopy
    <3> QED
      BY <2>3, <3>2 DEF Collected, Touches, KeysOf
  <2>4. \A d \in Deployments : d \in Children
    BY DEF Deployments
  <2> QED
    BY <1>2, <2>1, <2>2, <2>3, <2>4 DEF Others
<1> QED
  BY <1>1, <1>2 DEF Next

\* The worker serves one Service at a time.
LEMMA OneWorker ==
  ASSUME Types, NEW s \in Services
  PROVE  /\ queue[s] \in WorkQueueType
         /\ queue[s].busy <=> run # Idle /\ run.svc = s
BY DEF Types, TypeOK

\* A copy that no event is to come for is the object.
LEMMA FreshCopy ==
  ASSUME Types, NEW o \in Objects, o \notin stale
  PROVE  cache[o] = world[o]
BY DEF Types, TypeOK

\* A write to another object leaves this one and its events alone.
LEMMA WriteElsewhere ==
  ASSUME Types, NEW k \in Objects, NEW new, Writes(k, new)
  PROVE  \A o \in Objects \ {k} : world'[o] = world[o] /\ (o \in stale' <=> o \in stale)
BY WriteTells DEF Types, TypeOK

\* A write to an object leaves it as it is or has an event to come.
LEMMA WriteHere ==
  ASSUME Types, NEW k \in Objects, NEW new, Writes(k, new)
  PROVE  /\ world'[k] = new
         /\ world'[k] = world[k] \/ k \in stale'
         /\ k \in stale => k \in stale'
BY DEF Types, TypeOK, IsCopy, Writes

\* What the worker does on its way to the next object.
LEMMA MoveFields ==
  ASSUME Types, NEW c \in Children, Moves(c)
  PROVE  /\ run \in Runs /\ run # Idle /\ run.svc \in Services /\ c \in run.left
         /\ run.mode \in {"ensure", "clean"}
         /\ run' # Idle /\ run'.mode = run.mode /\ run'.svc = run.svc
         /\ run'.tsSpec = run.tsSpec /\ run'.left = run.left \ {c}
         /\ UNCHANGED <<cache, queue, tampered>>
         /\ Current(c) = Child(c, run.svc) /\ Current(c) \in Objects
         /\ \A o \in Objects \ {Current(c)} :
              world'[o] = world[o] /\ (o \in stale' <=> o \in stale)
<1>1. WorkerTypes /\ run # Idle
  BY TypesAreParts DEF Moves
<1>2. run \in Runs /\ run.svc \in Services /\ run.mode \in {"ensure", "clean"}
  BY <1>1, RunIsRun DEF WorkerTypes
<1>3. c \in run.left /\ Advance(c) /\ UNCHANGED <<cache, tampered>>
  BY DEF Moves, EnsureSkips, EnsureCreates, EnsureUpdates, CleanDeletes, CleanFails,
         Ensures, Cleans, At
<1>4. Current(c) = Child(c, run.svc) /\ Current(c) \in Objects
  BY <1>2, KeysAreObjects DEF Current
<1>5. UNCHANGED <<world, stale>> \/ \E new : Writes(Current(c), new)
  BY DEF Moves, EnsureSkips, EnsureCreates, EnsureUpdates, CleanDeletes, CleanFails
<1>6. \A o \in Objects \ {Current(c)} : world'[o] = world[o] /\ (o \in stale' <=> o \in stale)
  BY <1>4, <1>5, WriteElsewhere
<1> QED
  BY <1>1, <1>2, <1>3, <1>4, <1>6, AdvanceFields

-----------------------------------------------------------------------------
(* The invariants, one Service at a time.                                  *)

\* Whom the events of the three sorts of objects are for.
LEMMA NoticesOf ==
  /\ \A s \in Services : Notices(Svc(s)) = SvcPred(Svc(s))
  /\ \A t \in TSNames : Notices(TS(t)) = MapTS
  /\ \A c \in Children, s \in Services : Notices(Child(c, s)) = Owners(Child(c, s))
<1>1. ASSUME NEW s \in Services PROVE Svc(s) \in SvcKeys /\ Svc(s) \notin TSKeys
  BY KeysAreObjects, KeysDiffer DEF TSKeys
<1>2. ASSUME NEW t \in TSNames PROVE TS(t) \in TSKeys /\ TS(t) \notin SvcKeys
  BY KeysAreObjects, KeysDiffer DEF SvcKeys
<1>3. ASSUME NEW c \in Children, NEW s \in Services
      PROVE  Child(c, s) \notin SvcKeys /\ Child(c, s) \notin TSKeys
  BY KeysDiffer DEF SvcKeys, TSKeys
<1> QED
  BY <1>1, <1>2, <1>3 DEF Notices

\* What the watches make of a Service's entry.
LEMMA WatchFields ==
  ASSUME Types, NEW o \in Objects, Watch(o), NEW s \in Services
  PROVE  /\ queue'[s].dirty <=> queue[s].dirty \/ s \in Notices(o)
         /\ (queue'[s].busy <=> queue[s].busy) /\ (queue'[s].later <=> queue[s].later)
         /\ UNCHANGED <<world, run, tampered, failed>>
         /\ stale' = stale \ {o}
         /\ cache'[o] = world[o] /\ \A p \in Objects \ {o} : cache'[p] = cache[p]
<1>1. queue \in [Services -> WorkQueueType] /\ IsCopy(cache)
  BY DEF Types, TypeOK
<1>2. Enqueues(Notices(o))
  BY DEF Watch
<1> QED
  BY <1>1, <1>2, EnqueuesFields DEF Watch, IsCopy

\* A fired timer makes its own key dirty.
LEMMA FireFields ==
  ASSUME Types, NEW r \in Services, Fire(r), NEW s \in Services
  PROVE  /\ s = r => queue'[s].dirty /\ (queue'[s].busy <=> queue[s].busy)
         /\ s # r => queue'[s] = queue[s]
         /\ UNCHANGED <<world, cache, stale, run, tampered, failed>>
<1>1. queue \in [Services -> WorkQueueType] /\ queue' = [queue EXCEPT ![r] = Fired(queue[r])]
  BY DEF Types, TypeOK, Fire
<1>2. queue[r] \in WorkQueueType /\ queue[s] \in WorkQueueType
  BY <1>1
<1>3. Fired(queue[r]).dirty /\ (Fired(queue[r]).busy <=> queue[r].busy)
  BY <1>2, QueueFields
<1> QED
  BY <1>1, <1>3 DEF Fire

\* A label that does not come back: neither informer nor API server makes a
\* Service out of none.
LEMMA GoneForGoodKept ==
  ASSUME Types, NEW s \in Services, GoneForGood(s), [Next]_vars
  PROVE  GoneForGood(s)'
<1>1. Svc(s) \in Objects
  BY KeysAreObjects
<1>2. CASE cache'[Svc(s)] = cache[Svc(s)] /\ world'[Svc(s)] = world[Svc(s)]
  BY <1>2 DEF GoneForGood
<1>3. CASE cache'[Svc(s)] = world'[Svc(s)]
  BY <1>3 DEF GoneForGood
<1>4. ASSUME NEW k \in Objects, k # Svc(s), NEW new, Writes(k, new), UNCHANGED cache
      PROVE  GoneForGood(s)'
  BY <1>1, <1>2, <1>4, WriteElsewhere
<1>5. ASSUME NEW o \in Objects, Watch(o) PROVE GoneForGood(s)'
  BY <1>1, <1>2, <1>3, <1>5, WatchFields
<1>6. ASSUME NEW c \in Children, Moves(c) PROVE GoneForGood(s)'
  <2>1. Current(c) # Svc(s)
    BY <1>6, MoveFields, KeysDiffer
  <2> QED
    BY <1>1, <1>2, <1>6, <2>1, MoveFields
<1>7. ASSUME NEW r \in Services, ServiceChanges(r) PROVE GoneForGood(s)'
  <2>1. PICK new : Writes(Svc(r), new) /\ UNCHANGED cache
    BY <1>7 DEF ServiceChanges, Changes
  <2>2. CASE r = s
    BY <1>7, <2>1, <2>2 DEF ServiceChanges, GoneForGood
  <2>3. CASE r # s
    BY <1>4, <2>1, <2>3, KeysDiffer, KeysAreObjects
  <2> QED
    BY <2>2, <2>3
<1>8. ASSUME NEW t \in TSNames, TrafficScheduleChanges(t) PROVE GoneForGood(s)'
  <2>1. PICK new : Writes(TS(t), new) /\ UNCHANGED cache
    BY <1>8 DEF TrafficScheduleChanges, Changes
  <2> QED
    BY <1>4, <2>1, KeysDiffer, KeysAreObjects
<1>9. ASSUME NEW c \in Children, NEW k \in KeysOf(c), Touches(c, k) PROVE GoneForGood(s)'
  <2>1. PICK new : Writes(k, new) /\ UNCHANGED cache
    BY <1>9 DEF Touches, Changes
  <2>2. k \in Objects /\ k # Svc(s)
    BY KeysDiffer DEF Objects, KeysOf
  <2> QED
    BY <1>4, <2>1, <2>2
<1>10. CASE Restart
  BY <1>3, <1>10 DEF Restart
<1>11. CASE UNCHANGED <<world, cache>>
  BY <1>2, <1>11
<1>12. ASSUME NEW r \in Services, Fire(r) \/ BeginNothing(r) \/ BeginCleanup(r) \/ BeginEnsure(r)
       PROVE  GoneForGood(s)'
  BY <1>11, <1>12 DEF Fire, BeginNothing, BeginCleanup, BeginEnsure, Begin
<1>13. ASSUME NEW t \in TSNames, TrafficScheduleRenewed(t) PROVE GoneForGood(s)'
  BY <1>11, <1>13 DEF TrafficScheduleRenewed
<1>14. CASE GivesUp \/ Finishes \/ UNCHANGED vars
  BY <1>11, <1>14 DEF GivesUp, Finishes, vars
<1> QED
  BY <1>5, <1>6, <1>7, <1>8, <1>9, <1>10, <1>12, <1>13, <1>14, StepKinds

\* The mode of the reconciliation goes with the label it read, and every change
\* of the informer's label queues the key again.
LEMMA ModeTellsKept ==
  ASSUME Types, NEW s \in Services, ModeTells(s), [Next]_vars
  PROVE  ModeTells(s)'
<1>1. Svc(s) \in Objects /\ queue \in [Services -> WorkQueueType] /\ WorkerTypes
  BY KeysAreObjects, TypesAreParts DEF WorkerTypes
<1>2. CASE UNCHANGED <<cache, queue, run>>
  BY <1>2 DEF ModeTells
<1>3. CASE ~queue'[s].busy \/ queue'[s].dirty
  BY <1>3 DEF ModeTells
<1>4. ASSUME NEW o \in Objects, Watch(o) PROVE ModeTells(s)'
  <2>1. CASE o = Svc(s) /\ s \notin Notices(o)
    <3>1. Notices(o) = SvcPred(o)
      BY <2>1, NoticesOf
    <3>2. o[2] = s
      BY <2>1 DEF Svc
    <3>3. cache[o] # "on" /\ world[o] # "on"
      BY <2>1, <3>1, <3>2 DEF SvcPred
    <3> QED
      BY <1>4, <2>1, <3>3, WatchFields DEF ModeTells
  <2>2. CASE o # Svc(s)
    BY <1>1, <1>4, <2>2, WatchFields DEF ModeTells
  <2> QED
    BY <1>3, <1>4, <2>1, <2>2, WatchFields
<1>5. ASSUME NEW r \in Services, Fire(r) PROVE ModeTells(s)'
  BY <1>3, <1>5, FireFields DEF ModeTells
<1>6. ASSUME NEW r \in Services, BeginNothing(r) PROVE ModeTells(s)'
  <2>1. WorkerTypes' /\ run' = Idle
    BY <1>1, <1>6, NothingFields
  <2> QED
    BY <1>3, <2>1 DEF WorkerTypes
<1>7. ASSUME NEW r \in Services, BeginCleanup(r) PROVE ModeTells(s)'
  <2>1. run'.mode = "clean" /\ cache[Svc(r)] = "off" /\ UNCHANGED cache
        /\ (r # s => ~queue'[s].busy)
    BY <1>1, <1>7, BeginFields DEF BeginCleanup, Begin
  <2> QED
    BY <1>3, <2>1 DEF ModeTells
<1>8. ASSUME NEW r \in Services, BeginEnsure(r) PROVE ModeTells(s)'
  <2>1. run'.mode = "ensure" /\ cache[Svc(r)] = "on" /\ UNCHANGED cache /\ run'.svc = r
    BY <1>8 DEF BeginEnsure, Begin
  <2>2. WorkerTypes'
    BY WorkerTypesKept
  <2>3. CASE r = s
    BY <2>1, <2>3 DEF ModeTells
  <2>4. CASE r # s
    BY <1>3, <2>1, <2>2, <2>4 DEF WorkerTypes
  <2> QED
    BY <2>3, <2>4
<1>9. CASE GivesUp \/ Finishes
  <2>1. ~queue'[s].busy
    BY <1>1, <1>9, ReturnFields DEF GivesUp, Finishes
  <2> QED
    BY <1>3, <2>1
<1>10. ASSUME NEW c \in Children, Moves(c) PROVE ModeTells(s)'
  BY <1>10, MoveFields DEF ModeTells
<1>11. ASSUME NEW r \in Services, ServiceChanges(r) PROVE ModeTells(s)'
  BY <1>2, <1>11 DEF ServiceChanges, Changes
<1>12. ASSUME NEW t \in TSNames, TrafficScheduleChanges(t) PROVE ModeTells(s)'
  BY <1>2, <1>12 DEF TrafficScheduleChanges, Changes
<1>13. ASSUME NEW t \in TSNames, TrafficScheduleRenewed(t) PROVE ModeTells(s)'
  BY <1>1, <1>13, EnqueuesFields DEF TrafficScheduleRenewed, ModeTells
<1>14. ASSUME NEW c, NEW k, Touches(c, k) PROVE ModeTells(s)'
  BY <1>2, <1>14 DEF Touches, Changes
<1>15. CASE Restart
  <2>1. WorkerTypes' /\ run' = Idle
    BY <1>15, WorkerTypesKept DEF Restart
  <2> QED
    BY <1>3, <2>1 DEF WorkerTypes
<1>16. CASE UNCHANGED vars
  BY <1>2, <1>16 DEF vars
<1> QED
  BY <1>4, <1>5, <1>6, <1>7, <1>8, <1>9, <1>10, <1>11, <1>12, <1>13, <1>14, <1>15, <1>16, StepKinds

\* Who changes a Service's label makes an event, so that it is not settled.
LEMMA LabelUnsettles ==
  ASSUME Types, NEW r \in Services, ServiceChanges(r), NEW s \in Services
  PROVE  /\ UNCHANGED <<cache, queue, run, tampered, failed>>
         /\ s = r => ~Settled(s)'
         /\ s # r => world'[Svc(s)] = world[Svc(s)] /\ (Settled(s)' <=> Settled(s))
         /\ \A c \in Children :
              /\ world'[Child(c, s)] = world[Child(c, s)]
              /\ Child(c, s) \in stale' <=> Child(c, s) \in stale
<1>1. PICK new : new # world[Svc(r)] /\ Writes(Svc(r), new) /\ UNCHANGED <<cache, queue, run>>
  BY DEF ServiceChanges, Changes
<1>2. UNCHANGED <<tampered, failed>>
  BY DEF ServiceChanges, Disturbs
<1>3. Svc(r) \in stale'
  BY <1>1, WriteHere, KeysAreObjects
<1>4. \A o \in Objects \ {Svc(r)} : world'[o] = world[o] /\ (o \in stale' <=> o \in stale)
  BY <1>1, WriteElsewhere, KeysAreObjects
<1>5. \A c \in Children : Child(c, s) \in Objects \ {Svc(r)}
  BY KeysAreObjects, KeysDiffer
<1>6. s # r => Svc(s) \in Objects \ {Svc(r)}
  BY KeysAreObjects, KeysDiffer
<1> QED
  BY <1>1, <1>2, <1>3, <1>4, <1>5, <1>6 DEF Settled

\* A TrafficSchedule's change leaves the Services and the other objects alone.
LEMMA SpecFields ==
  ASSUME Types, NEW t \in TSNames, TrafficScheduleChanges(t), NEW s \in Services
  PROVE  /\ UNCHANGED <<cache, queue, run, tampered, failed>>
         /\ world'[Svc(s)] = world[Svc(s)] /\ (Settled(s)' <=> Settled(s))
         /\ \A c \in Children :
              /\ world'[Child(c, s)] = world[Child(c, s)]
              /\ Child(c, s) \in stale' <=> Child(c, s) \in stale
<1>1. PICK new : Writes(TS(t), new) /\ UNCHANGED <<cache, queue, run>>
  BY DEF TrafficScheduleChanges, Changes
<1>2. \A o \in Objects \ {TS(t)} : world'[o] = world[o] /\ (o \in stale' <=> o \in stale)
  BY <1>1, WriteElsewhere, KeysAreObjects
<1>3. Svc(s) \in Objects \ {TS(t)} /\ \A c \in Children : Child(c, s) \in Objects \ {TS(t)}
  BY KeysAreObjects, KeysDiffer
<1> QED
  BY <1>1, <1>2, <1>3 DEF Settled, TrafficScheduleChanges, Disturbs

\* What others do to one object.
LEMMA TouchFields ==
  ASSUME Types, NEW c \in Children, NEW k \in KeysOf(c), Touches(c, k), NEW s \in Services
  PROVE  /\ UNCHANGED <<cache, queue, run, failed>>
         /\ world'[Svc(s)] = world[Svc(s)] /\ (Settled(s)' <=> Settled(s))
         /\ k \in Objects
         /\ \A o \in Objects : o \notin stale' => o \notin stale /\ world'[o] = world[o]
         /\ \A o \in Objects \ {k} : world'[o] = world[o] /\ (o \in stale' <=> o \in stale)
<1>1. PICK new : Writes(k, new) /\ UNCHANGED <<cache, queue, run>>
  BY DEF Touches, Changes
<1>2. k \in Objects
  BY DEF Objects
<1>3. \A o \in Objects \ {k} : world'[o] = world[o] /\ (o \in stale' <=> o \in stale)
  BY <1>1, <1>2, WriteElsewhere
<1>4. \A o \in Objects : o \notin stale' => o \notin stale /\ world'[o] = world[o]
  BY <1>1, <1>2, WriteTells DEF Types, TypeOK
<1>5. Svc(s) \in Objects \ {k}
  BY KeysAreObjects, KeysDiffer DEF KeysOf
<1> QED
  BY <1>1, <1>2, <1>3, <1>4, <1>5 DEF Settled, Touches

\* An event of a Service that has the label, or had it, queues the key.
LEMMA LabelEventNoticed ==
  ASSUME Types, NEW s \in Services, GoneForGood(s), Watch(Svc(s)),
         world[Svc(s)] \in {"on", "off"}
  PROVE  queue'[s].dirty
<1>1. Svc(s) \in Objects /\ Svc(s)[2] = s /\ Notices(Svc(s)) = SvcPred(Svc(s))
  BY KeysAreObjects, NoticesOf DEF Svc
<1>2. cache[Svc(s)] \in {"on", "off", Absent}
  BY KeysAreObjects DEF Types, TypeOK, IsCopy
<1>3. cache[Svc(s)] # Absent
  BY ControllerAssumption DEF GoneForGood, ControllerAssumption
<1>4. s \in SvcPred(Svc(s))
  BY <1>1, <1>2, <1>3 DEF SvcPred
<1> QED
  BY <1>1, <1>4, WatchFields

\* A step of the worker for another Service leaves this one's objects alone.
LEMMA MoveForAnother ==
  ASSUME Types, NEW d \in Children, Moves(d), NEW s \in Services, run.svc # s
  PROVE  /\ ~queue[s].busy
         /\ \A c \in Children \ Clusterwide :
              /\ world'[Child(c, s)] = world[Child(c, s)]
              /\ Child(c, s) \in stale' <=> Child(c, s) \in stale
<1>1. ~queue[s].busy
  BY OneWorker
<1>2. ASSUME NEW c \in Children \ Clusterwide PROVE Child(c, s) \in Objects \ {Current(d)}
  BY KeysAreObjects, KeysDiffer, MoveFields
<1> QED
  BY <1>1, <1>2, MoveFields

\* A step of the worker leaves the labels and their events alone.
LEMMA MoveSettled ==
  ASSUME Types, NEW d \in Children, Moves(d), NEW s \in Services
  PROVE  world'[Svc(s)] = world[Svc(s)] /\ (Settled(s)' <=> Settled(s))
<1>1. Svc(s) \in Objects \ {Current(d)}
  BY KeysAreObjects, KeysDiffer, MoveFields
<1> QED
  BY <1>1, MoveFields DEF Settled

\* A restart queues every Service that has the label or owns something.
LEMMA RestartQueues ==
  ASSUME Restart, NEW s \in Services
  PROVE  queue'[s].dirty <=> Listed(world, s)
<1>1. queue'[s] = [Empty EXCEPT !.dirty = @ \/ Listed(world, s)]
  BY DEF Restart, AddedIf
<1>2. Empty \in WorkQueueType /\ ~Empty.dirty
  BY DEF Empty, WorkQueueType
<1> QED
  BY <1>1, <1>2 DEF WorkQueueType

\* Nobody gets a key that is waiting for another reconciliation's end.
LEMMA BeginForAnother ==
  ASSUME Types, NEW r \in Services, NEW s \in Services, r # s,
         BeginNothing(r) \/ BeginCleanup(r) \/ BeginEnsure(r)
  PROVE  /\ queue'[s] = queue[s] /\ ~queue[s].busy
         /\ UNCHANGED <<world, cache, stale, tampered, failed>>
BY OneWorker DEF BeginNothing, BeginCleanup, BeginEnsure, Begin, Types, TypeOK

\* A return for another Service.
LEMMA ReturnForAnother ==
  ASSUME Types, GivesUp \/ Finishes, NEW s \in Services, run.svc # s
  PROVE  /\ ~queue[s].busy /\ ~queue'[s].busy
         /\ (queue'[s].dirty <=> queue[s].dirty) /\ (queue'[s].later <=> queue[s].later)
         /\ UNCHANGED <<world, cache, stale, tampered>>
<1>1. WorkerTypes /\ run # Idle
  BY TypesAreParts DEF GivesUp, Finishes
<1> QED
  BY <1>1, OneWorker, ReturnFields DEF GivesUp, Finishes

\* A return for this one.
LEMMA ReturnFor ==
  ASSUME Types, NEW s \in Services, run.svc = s
  PROVE  /\ GivesUp => queue'[s].later
         /\ Finishes => /\ queue[s].busy /\ ~queue'[s].busy /\ run.left = {}
                        /\ queue'[s].dirty <=> queue[s].dirty
                        /\ queue[s].later => queue'[s].later
                        /\ UNCHANGED <<world, cache, stale, tampered, failed>>
<1>1. WorkerTypes
  BY TypesAreParts
<1> QED
  BY <1>1, OneWorker, ReturnFields DEF GivesUp, Finishes

\* What may be deleted is not of the whole cluster.
LEMMA DeletableIsOwned ==
  Deletable \subseteq Children \ Clusterwide
BY DEF Deletable, ScaledObjects, Clusterwide

\* CleanupAhead from what a step keeps: the label, what is settled, the objects
\* that were away and those ahead.
LEMMA CleanupAheadFrom ==
  ASSUME NEW s \in Services, CleanupAhead(s),
         failed' = 0 => failed = 0,
         Settled(s)' => Settled(s) /\ world'[Svc(s)] = world[Svc(s)],
         Settled(s)' =>
           \A c \in Deletable :
             /\ world'[Child(c, s)] # Absent => world[Child(c, s)] # Absent
             /\ world'[Child(c, s)] # Absent /\ Ahead(c, s) => Ahead(c, s)'
  PROVE  CleanupAhead(s)'
BY DEF CleanupAhead

LEMMA CleanupAheadKept ==
  ASSUME Types, NEW s \in Services, GoneForGood(s), ModeTells(s), CleanupAhead(s), [Next]_vars
  PROVE  CleanupAhead(s)'
<1>1. /\ Svc(s) \in Objects
      /\ \A c \in Deletable : c \in Children \ Clusterwide /\ Child(c, s) \in Objects
  BY KeysAreObjects, DeletableIsOwned
<1>2. CASE ~Settled(s)'
  BY <1>2 DEF CleanupAhead
<1>3. CASE UNCHANGED <<world, stale, run, failed>> /\ UNCHANGED queue[s]
  BY <1>3 DEF CleanupAhead, Settled, Ahead
<1>4. ASSUME NEW o \in Objects, Watch(o) PROVE CleanupAhead(s)'
  <2>1. CASE o = Svc(s)
    <3>1. CASE world[Svc(s)] = "off"
      BY <1>2, <1>4, <2>1, <3>1, LabelEventNoticed DEF Settled
    <3>2. CASE world[Svc(s)] # "off"
      BY <1>4, <2>1, <3>2, WatchFields DEF CleanupAhead
    <3> QED
      BY <3>1, <3>2
  <2>2. CASE o # Svc(s)
    BY <1>1, <1>4, <2>2, WatchFields DEF CleanupAhead, Settled, Ahead
  <2> QED
    BY <2>1, <2>2
<1>5. CASE Restart
  <2>1. CASE Listed(world, s)
    BY <1>2, <1>5, <2>1, RestartQueues DEF Settled
  <2>2. CASE ~Listed(world, s)
    BY <1>1, <1>5, <2>2 DEF Listed, Restart, CleanupAhead
  <2> QED
    BY <2>1, <2>2
<1>6. ASSUME NEW r \in Services, Fire(r) PROVE CleanupAhead(s)'
  BY <1>2, <1>3, <1>6, FireFields DEF Settled
<1>7. ASSUME NEW r \in Services, BeginNothing(r) \/ BeginCleanup(r) \/ BeginEnsure(r)
      PROVE  CleanupAhead(s)'
  <2>1. CASE r # s
    BY <1>7, <2>1, BeginForAnother DEF CleanupAhead, Settled, Ahead
  <2>2. UNCHANGED <<world, cache, stale, failed>>
    BY <1>7 DEF BeginNothing, BeginCleanup, BeginEnsure, Begin
  <2>3. CASE r = s /\ cache[Svc(s)] # "off"
    BY <1>1, <2>2, <2>3, FreshCopy DEF CleanupAhead, Settled
  <2>4. CASE r = s /\ cache[Svc(s)] = "off"
    <3>1. BeginCleanup(s) /\ WorkerTypes
      BY <1>7, <2>4, ControllerAssumption, TypesAreParts
         DEF BeginNothing, BeginEnsure, ControllerAssumption
    <3>2. queue'[s].busy /\ run'.left = Children
      BY <3>1, BeginFields DEF BeginCleanup
    <3> QED
      BY <1>1, <3>2 DEF CleanupAhead, Ahead
  <2> QED
    BY <2>1, <2>3, <2>4
<1>8. CASE GivesUp \/ Finishes
  <2>1. failed' = 0 => failed = 0
    BY <1>8 DEF GivesUp, Finishes
  <2>2. CASE run.svc # s
    BY <1>8, <2>1, <2>2, ReturnForAnother DEF CleanupAhead, Settled, Ahead
  <2>3. CASE run.svc = s /\ GivesUp
    BY <1>2, <2>3, ReturnFor DEF Settled
  <2>4. CASE run.svc = s /\ Finishes
    BY <2>4, ReturnFor DEF CleanupAhead, Settled, Ahead
  <2> QED
    BY <1>8, <2>2, <2>3, <2>4
<1>9. ASSUME NEW d \in Children, Moves(d) PROVE CleanupAhead(s)'
  <2>1. Settled(s)' => Settled(s) /\ world'[Svc(s)] = world[Svc(s)]
    BY <1>9, MoveSettled
  <2>2. failed \in Nat
    BY ControllerAssumption DEF Types, TypeOK, ControllerAssumption
  <2>3. failed' = failed \/ failed' = failed + 1
    BY <1>9 DEF Moves, EnsureSkips, EnsureCreates, EnsureUpdates, CleanDeletes, CleanFails
  <2>4. failed' = 0 => failed = 0
    BY <2>2, <2>3
  <2>5. CASE run.svc # s
    <3>1. \A c \in Deletable : ~Ahead(c, s) /\ world'[Child(c, s)] = world[Child(c, s)]
      BY <1>1, <1>9, <2>5, MoveForAnother DEF Ahead
    <3> QED
      BY <2>1, <2>4, <3>1, CleanupAheadFrom
  <2>6. CASE run.svc = s
    <3> SUFFICES ASSUME failed' = 0, world'[Svc(s)] = "off", Settled(s)',
                        NEW c \in Deletable, world'[Child(c, s)] # Absent
                 PROVE  Ahead(c, s)'
      BY DEF CleanupAhead
    <3>1. Settled(s) /\ world[Svc(s)] = "off" /\ failed = 0
      BY <2>1, <2>4
    <3>2. cache[Svc(s)] = "off" /\ queue[s].busy
      BY <1>1, <1>9, <2>6, <3>1, FreshCopy, OneWorker, MoveFields DEF Settled
    <3>3. run.mode # "ensure"
      BY <3>1, <3>2 DEF ModeTells, Settled
    <3>4. failed' # failed + 1
      BY <2>2
    <3>5. CleanDeletes(d)
      BY <1>9, <3>3, <3>4 DEF Moves, EnsureSkips, EnsureCreates, EnsureUpdates, CleanFails,
                               Ensures, At
    <3>6. CASE c = d
      <4>1. world'[Child(c, s)] = Absent
        <5>1. Current(d) = Child(c, s)
          BY <2>6, <3>6 DEF Current
        <5>2. CASE world[Current(d)] # Absent
          BY <1>1, <3>5, <3>6, <5>1, <5>2, WriteHere DEF CleanDeletes
        <5>3. CASE world[Current(d)] = Absent
          BY <3>5, <5>1, <5>3 DEF CleanDeletes
        <5> QED
          BY <5>2, <5>3
      <4> QED
        BY <4>1
    <3>7. CASE c # d
      <4>1. Child(c, s) \in Objects \ {Current(d)}
        BY <1>1, <1>9, <3>7, KeysDiffer, MoveFields
      <4>2. world[Child(c, s)] # Absent
        BY <1>9, <4>1, MoveFields
      <4>3. Ahead(c, s)
        BY <3>1, <4>2 DEF CleanupAhead
      <4> QED
        BY <1>9, <3>7, <4>3, MoveFields DEF Ahead
    <3> QED
      BY <3>6, <3>7
  <2> QED
    BY <2>5, <2>6
<1>10. ASSUME NEW r \in Services, ServiceChanges(r) PROVE CleanupAhead(s)'
  BY <1>1, <1>2, <1>10, LabelUnsettles DEF CleanupAhead, Ahead
<1>11. ASSUME NEW t \in TSNames, TrafficScheduleChanges(t) PROVE CleanupAhead(s)'
  BY <1>1, <1>11, SpecFields DEF CleanupAhead, Ahead
<1>12. ASSUME NEW t \in TSNames, TrafficScheduleRenewed(t) PROVE CleanupAhead(s)'
  <2>1. queue \in [Services -> WorkQueueType]
    BY DEF Types, TypeOK
  <2> QED
    BY <1>12, <2>1, EnqueuesFields DEF TrafficScheduleRenewed, CleanupAhead, Settled, Ahead
<1>13. ASSUME NEW c \in Children, NEW k \in KeysOf(c), Touches(c, k) PROVE CleanupAhead(s)'
  <2>1. \A d \in Deletable : world'[Child(d, s)] # Absent => world[Child(d, s)] # Absent
    <3>1. world[k] # Absent
      BY <1>13 DEF Touches
    <3> QED
      BY <1>1, <1>13, <3>1, TouchFields
  <2> QED
    BY <1>13, <2>1, TouchFields DEF CleanupAhead, Ahead
<1>14. CASE UNCHANGED vars
  BY <1>3, <1>14 DEF vars
<1> QED
  BY <1>4, <1>5, <1>6, <1>7, <1>8, <1>9, <1>10, <1>11, <1>12, <1>13, <1>14, StepKinds

\* What the worker does to a binding is to make it, for the Service it serves.
LEMMA BindingMove ==
  ASSUME Types, NEW d \in Children, Moves(d), NEW c \in Clusterwide, NEW s \in Services
  PROVE  \/ world'[Child(c, s)] = world[Child(c, s)]
         \/ /\ world'[Child(c, s)] # Absent
            /\ world'[Child(c, s)].from = run.svc /\ NameOf[run.svc] = NameOf[s]
<1>1. c \in Children /\ c \in CreateOnly /\ c \notin Deletable /\ c \notin Scheduled
  BY DEF Clusterwide, CreateOnly, Deletable, ScaledObjects, Scheduled, Deployments
<1>2. CASE Child(c, s) # Current(d)
  BY <1>1, <1>2, KeysAreObjects, MoveFields
<1>3. CASE Child(c, s) = Current(d)
  <2>1. run.svc \in Services /\ Current(d) = Child(d, run.svc) /\ Current(d) \in Objects
    BY MoveFields
  <2>2. c = d /\ NameOf[run.svc] = NameOf[s]
    BY <1>1, <1>3, <2>1, KeysDiffer
  <2>3. CASE EnsureCreates(d)
    <3>1. Ensures(d) /\ Writes(Current(d), Wanted(d))
      BY <2>3 DEF EnsureCreates
    <3>2. world'[Current(d)] = Wanted(d) /\ Wanted(d) \in Contents
      BY <2>1, <3>1, WriteHere, WantedIsContents
    <3>3. Wanted(d) # Absent
      BY <3>2, ControllerAssumption DEF ControllerAssumption, Contents
    <3>4. Wanted(d).from = run.svc
      BY <1>1, <2>2 DEF Wanted
    <3> QED
      BY <1>3, <2>2, <3>2, <3>3, <3>4
  <2>4. CASE EnsureSkips(d) \/ CleanFails(d)
    BY <2>4 DEF EnsureSkips, CleanFails
  <2>5. ~EnsureUpdates(d)
    BY <1>1, <2>2 DEF EnsureUpdates, Differs
  <2>6. CASE CleanDeletes(d)
    BY <1>1, <2>2, <2>6 DEF CleanDeletes
  <2> QED
    BY <2>3, <2>4, <2>5, <2>6 DEF Moves
<1> QED
  BY <1>2, <1>3

LEMMA BindingAheadKept ==
  ASSUME Types, NEW s \in Services, GoneForGood(s), ModeTells(s), BindingAhead(s), [Next]_vars
  PROVE  BindingAhead(s)'
<1> SUFFICES ASSUME ~tampered', NEW c \in Clusterwide PROVE Bound(c, s)'
  BY DEF BindingAhead
<1>1. /\ Svc(s) \in Objects /\ c \in Children /\ Child(c, s) \in Objects /\ Child(c, s) # Svc(s)
  BY KeysAreObjects, KeysDiffer DEF Clusterwide
<1>2. ~tampered => Bound(c, s)
  BY DEF BindingAhead
<1>3. CASE ~Settled(s)' /\ UNCHANGED <<world, cache, tampered>>
  BY <1>2, <1>3 DEF Bound
<1>4. CASE UNCHANGED <<world, cache, stale, run, tampered>> /\ UNCHANGED queue[s]
  BY <1>2, <1>4 DEF Bound, Settled, Ahead
<1>5. ASSUME NEW o \in Objects, Watch(o) PROVE Bound(c, s)'
  <2>1. cache'[Child(c, s)] = world[Child(c, s)] \/ cache'[Child(c, s)] = cache[Child(c, s)]
    BY <1>1, <1>5, WatchFields
  <2>2. CASE o = Svc(s)
    <3>1. CASE world[Svc(s)] = "on"
      <4>1. ~Settled(s)'
        BY <1>5, <2>2, <3>1, LabelEventNoticed DEF Settled
      <4> QED
        BY <1>2, <1>5, <2>1, <4>1, WatchFields DEF Bound
    <3>2. CASE world[Svc(s)] # "on"
      BY <1>2, <1>5, <2>1, <3>2, WatchFields DEF Bound
    <3> QED
      BY <3>1, <3>2
  <2>3. CASE o # Svc(s)
    <3>1. Settled(s)' => Settled(s)
      BY <1>1, <1>5, <2>3, WatchFields DEF Settled
    <3> QED
      BY <1>2, <1>5, <2>1, <3>1, WatchFields DEF Bound, Ahead
  <2> QED
    BY <2>2, <2>3
<1>6. CASE Restart
  <2>1. world[Svc(s)] = "on" => queue'[s].dirty
    BY <1>6, RestartQueues DEF Listed
  <2>2. cache' = world /\ UNCHANGED <<world, tampered>>
    BY <1>6 DEF Restart
  <2> QED
    BY <1>2, <2>1, <2>2 DEF Bound, Settled
<1>7. ASSUME NEW r \in Services, Fire(r) PROVE Bound(c, s)'
  BY <1>3, <1>4, <1>7, FireFields DEF Settled
<1>8. ASSUME NEW r \in Services, BeginNothing(r) \/ BeginCleanup(r) \/ BeginEnsure(r)
      PROVE  Bound(c, s)'
  <2>1. CASE r # s
    BY <1>2, <1>8, <2>1, BeginForAnother DEF Bound, Settled, Ahead
  <2>2. UNCHANGED <<world, cache, stale, tampered>>
    BY <1>8 DEF BeginNothing, BeginCleanup, BeginEnsure, Begin
  <2>3. CASE r = s /\ cache[Svc(s)] # "on"
    BY <1>1, <1>2, <2>2, <2>3, FreshCopy DEF Bound, Settled
  <2>4. CASE BeginNothing(s) /\ cache[Svc(s)] = "on"
    BY <1>3, <2>2, <2>4, NothingFields, TypesAreParts DEF Settled
  <2>5. CASE BeginEnsure(s)
    <3>1. run'.left = Children
      BY <2>5 DEF BeginEnsure
    <3>2. run'.svc = s /\ run'.mode = "ensure"
      BY <2>5 DEF BeginEnsure
    <3>3. queue'[s].busy
      BY <3>2, WorkerTypesKept, IdleHasNoMode DEF WorkerTypes
    <3> QED
      BY <1>1, <1>2, <2>2, <3>1, <3>3 DEF Bound, Ahead
  <2>6. ~(BeginCleanup(s) /\ cache[Svc(s)] = "on")
    BY DEF BeginCleanup
  <2> QED
    BY <1>8, <2>1, <2>3, <2>4, <2>5, <2>6
<1>9. CASE GivesUp \/ Finishes
  <2>1. CASE run.svc # s
    BY <1>2, <1>9, <2>1, ReturnForAnother DEF Bound, Settled, Ahead
  <2>2. CASE run.svc = s /\ GivesUp
    BY <1>3, <2>2, ReturnFor DEF Settled, GivesUp
  <2>3. CASE run.svc = s /\ Finishes
    BY <1>2, <2>3, ReturnFor DEF Bound, Settled, Ahead
  <2> QED
    BY <1>9, <2>1, <2>2, <2>3
<1>10. ASSUME NEW d \in Children, Moves(d) PROVE Bound(c, s)'
  <2>1. /\ world'[Svc(s)] = world[Svc(s)] /\ (Settled(s)' <=> Settled(s))
        /\ run.svc \in Services /\ UNCHANGED <<cache, tampered>>
    BY <1>10, MoveSettled, MoveFields
  <2>2. Bound(c, s)
    BY <1>2, <2>1
  <2>3. \/ world'[Child(c, s)] = world[Child(c, s)]
        \/ /\ world'[Child(c, s)] # Absent
           /\ world'[Child(c, s)].from = run.svc /\ NameOf[run.svc] = NameOf[s]
    BY <1>10, BindingMove
  <2>4. ASSUME world'[Svc(s)] = "on", Settled(s)', world'[Child(c, s)] = Absent
        PROVE  Ahead(c, s)'
    <3>1. world[Svc(s)] = "on" /\ Settled(s) /\ world[Child(c, s)] = Absent
      BY <2>1, <2>3, <2>4
    <3>2. Ahead(c, s) /\ cache[Child(c, s)] = Absent
      BY <2>2, <3>1 DEF Bound
    <3>3. run.svc = s /\ run.mode = "ensure"
      BY <1>1, <3>1, <3>2, FreshCopy, OneWorker DEF ModeTells, Settled, Ahead
    <3>4. CASE c # d
      BY <1>10, <3>2, <3>4, MoveFields DEF Ahead
    <3>5. CASE c = d
      <4>1. Current(d) = Child(c, s)
        BY <3>3, <3>5 DEF Current
      <4>2. ~EnsureSkips(d) /\ ~EnsureUpdates(d)
        BY <3>2, <4>1 DEF EnsureSkips, EnsureUpdates, Differs
      <4>3. ~CleanDeletes(d) /\ ~CleanFails(d)
        BY <3>3 DEF CleanDeletes, CleanFails, Cleans, At
      <4>4. EnsureCreates(d)
        BY <1>10, <4>2, <4>3 DEF Moves
      <4>5. world'[Child(c, s)] = Wanted(d) /\ Wanted(d) \in Contents
        BY <1>1, <4>1, <4>4, WriteHere, WantedIsContents DEF EnsureCreates
      <4>6. Wanted(d) # Absent
        BY <4>5, ControllerAssumption DEF ControllerAssumption, Contents
      <4> QED
        BY <2>4, <4>5, <4>6
    <3> QED
      BY <3>4, <3>5
  <2> QED
    BY <2>1, <2>2, <2>3, <2>4 DEF Bound
<1>11. ASSUME NEW r \in Services, ServiceChanges(r) PROVE Bound(c, s)'
  BY <1>1, <1>2, <1>11, LabelUnsettles DEF Bound, Ahead
<1>12. ASSUME NEW t \in TSNames, TrafficScheduleChanges(t) PROVE Bound(c, s)'
  BY <1>1, <1>2, <1>12, SpecFields DEF Bound, Ahead
<1>13. ASSUME NEW t \in TSNames, TrafficScheduleRenewed(t) PROVE Bound(c, s)'
  <2>1. queue \in [Services -> WorkQueueType]
    BY DEF Types, TypeOK
  <2> QED
    BY <1>2, <1>13, <2>1, EnqueuesFields DEF TrafficScheduleRenewed, Bound, Settled, Ahead
<1>14. ASSUME NEW d \in Children, NEW k \in KeysOf(d), Touches(d, k) PROVE Bound(c, s)'
  <2>1. ~tampered /\ d # c
    BY <1>14 DEF Touches
  <2>2. k # Child(c, s)
    BY <1>1, <2>1, KeysDiffer DEF KeysOf
  <2> QED
    BY <1>1, <1>2, <1>14, <2>1, <2>2, TouchFields DEF Bound, Ahead
<1>15. CASE UNCHANGED vars
  BY <1>4, <1>15 DEF vars
<1> QED
  BY <1>5, <1>6, <1>7, <1>8, <1>9, <1>10, <1>11, <1>12, <1>13, <1>14, <1>15, StepKinds

\* A TrafficSchedule goes on serving a Service when the informer keeps it, the
\* Service's reconciliation goes on or ends, and what changes makes an event.
LEMMA ServesStill ==
  ASSUME NEW s \in Services, NEW t \in TSNames, Serves(t, s),
         cache'[TS(t)] = cache[TS(t)],
         queue'[s].busy => queue[s].busy /\ run'.tsSpec = run.tsSpec,
         \A c \in Noticed :
           /\ Ahead(c, s) => Ahead(c, s)'
           /\ Child(c, s) \in stale => Child(c, s) \in stale'
           /\ world'[Child(c, s)] = world[Child(c, s)] \/ Child(c, s) \in stale'
  PROVE  Serves(t, s)'
<1>1. cache'[TS(t)] # Absent /\ (queue'[s].busy => run'.tsSpec = cache'[TS(t)])
  BY DEF Serves
<1>2. ASSUME NEW c \in Noticed
      PROVE  Ahead(c, s)' \/ Child(c, s) \in stale' \/ Right(c, s, cache[TS(t)])'
  BY <1>2 DEF Serves, Right
<1> QED
  BY <1>1, <1>2 DEF Serves

\* Who comes to an object of a Service makes it as the TrafficSchedule wants it,
\* or leaves it alone because of an old copy.
LEMMA MoveMakesRight ==
  ASSUME Types, NEW c \in Noticed, Moves(c), run.mode = "ensure", NEW s \in Services, run.svc = s,
         NEW spec, run.tsSpec = spec
  PROVE  \/ Right(c, s, spec)'
         \/ Child(c, s) \in stale' /\ UNCHANGED world
<1>1. c \in Children /\ c \notin Clusterwide /\ Current(c) = Child(c, s) /\ Child(c, s) \in Objects
  BY MoveFields DEF Noticed, Current
<1>2. Contents \cap {Absent} = {}
  BY ControllerAssumption DEF ControllerAssumption, Contents
<1>3. CASE EnsureSkips(c)
  <2> SUFFICES ASSUME Child(c, s) \notin stale' PROVE Right(c, s, spec)'
    BY <1>3 DEF EnsureSkips
  <2>1. UNCHANGED <<world, stale>> /\ cache[Child(c, s)] # Absent /\ ~Differs(c)
    BY <1>1, <1>3 DEF EnsureSkips
  <2>2. world[Child(c, s)] = cache[Child(c, s)]
    BY <1>1, <2>1, FreshCopy
  <2>3. c \in CreateOnly \/ (c \in ScaledObjects /\ world[Child(c, s)].from = Wanted(c).from)
    BY <1>1, <2>1, <2>2 DEF Differs
  <2>4. c \in Scheduled => Wanted(c).from = spec
    BY DEF Wanted
  <2>5. c \in CreateOnly => c \notin Scheduled
    BY DEF CreateOnly, Scheduled, Deployments, ScaledObjects
  <2>6. c \in ScaledObjects => c \in Scheduled
    BY DEF Scheduled
  <2> QED
    BY <2>1, <2>2, <2>3, <2>4, <2>5, <2>6 DEF Right
<1>4. ASSUME NEW new \in Contents, new.from = Wanted(c).from, Writes(Current(c), new)
      PROVE  Right(c, s, spec)'
  <2>1. world'[Child(c, s)] = new /\ new # Absent
    BY <1>1, <1>2, <1>4, WriteHere
  <2>2. /\ c \in Scheduled => new.from = spec
        /\ c \notin Scheduled \cup CreateOnly => new.from = "fixed"
    BY <1>1, <1>4 DEF Wanted
  <2> QED
    BY <2>1, <2>2 DEF Right
<1>5. CASE EnsureCreates(c)
  BY <1>1, <1>4, <1>5, WantedIsContents DEF EnsureCreates
<1>6. CASE EnsureUpdates(c)
  <2>1. Ensures(c) /\ cache[Current(c)] \in Contents
    BY <1>1, <1>6, KeysAreObjects DEF EnsureUpdates, Differs, Types, TypeOK, IsCopy, KeysOf
  <2>2. cache[Current(c)].replicas \in 0..MaxReplicas
    BY <2>1 DEF Contents
  <2> DEFINE new == [Wanted(c) EXCEPT !.replicas = cache[Current(c)].replicas]
  <2>3. new \in Contents /\ new.from = Wanted(c).from
    BY <1>1, <2>1, <2>2, WantedIsContents
  <2>4. Writes(Current(c), new)
    BY <1>6 DEF EnsureUpdates
  <2> HIDE DEF new
  <2> QED
    BY <1>4, <2>3, <2>4
<1>7. ~CleanDeletes(c) /\ ~CleanFails(c)
  BY DEF CleanDeletes, CleanFails, Cleans, At
<1> QED
  BY <1>3, <1>5, <1>6, <1>7 DEF Moves

LEMMA ObjectsAheadKept ==
  ASSUME Types, NEW s \in Services, GoneForGood(s), ModeTells(s), ObjectsAhead(s), [Next]_vars
  PROVE  ObjectsAhead(s)'
<1> SUFFICES ASSUME world'[Svc(s)] = "on", Settled(s)' PROVE \E t \in TSNames : Serves(t, s)'
  BY DEF ObjectsAhead
<1>1. /\ Svc(s) \in Objects /\ \A t \in TSNames : TS(t) \in Objects
      /\ \A c \in Noticed : c \in Children /\ c \notin Clusterwide /\ Child(c, s) \in Objects
  BY KeysAreObjects DEF Noticed
<1>2. world[Svc(s)] = "on" /\ Settled(s) => \E t \in TSNames : Serves(t, s)
  BY DEF ObjectsAhead
<1>3. CASE UNCHANGED <<world, cache, stale, run>> /\ UNCHANGED queue[s]
  <2>1. PICK t \in TSNames : Serves(t, s)
    BY <1>2, <1>3 DEF Settled
  <2> QED
    BY <1>3, <2>1, ServesStill DEF Ahead
<1>4. ASSUME NEW o \in Objects, Watch(o) PROVE \E t \in TSNames : Serves(t, s)'
  <2>1. s \notin Notices(o) /\ UNCHANGED world /\ ~queue[s].dirty /\ ~queue[s].later
    BY <1>4, WatchFields DEF Settled
  <2>2. o # Svc(s)
    BY <1>4, <2>1, LabelEventNoticed DEF Settled
  <2>3. Svc(s) \notin stale /\ cache[Svc(s)] = "on"
    BY <1>1, <1>4, <2>1, <2>2, FreshCopy, WatchFields DEF Settled
  <2>4. \A t \in TSNames : o # TS(t)
    BY <2>1, <2>3, NoticesOf DEF MapTS, Labelled
  <2>5. \A c \in Noticed : o # Child(c, s)
    BY <2>1, NoticesOf DEF Owners, Noticed
  <2>6. PICK t \in TSNames : Serves(t, s)
    BY <1>2, <2>1, <2>3 DEF Settled
  <2> QED
    BY <1>1, <1>4, <2>4, <2>5, <2>6, WatchFields, ServesStill DEF Ahead
<1>5. ~Restart
  BY RestartQueues DEF Listed, Settled, Restart
<1>6. ASSUME NEW r \in Services, Fire(r) PROVE \E t \in TSNames : Serves(t, s)'
  BY <1>3, <1>6, FireFields DEF Settled
<1>7. ASSUME NEW r \in Services, BeginNothing(r) \/ BeginCleanup(r) \/ BeginEnsure(r)
      PROVE  \E t \in TSNames : Serves(t, s)'
  <2>1. UNCHANGED <<world, cache, stale>>
    BY <1>7 DEF BeginNothing, BeginCleanup, BeginEnsure, Begin
  <2>2. cache[Svc(s)] = "on"
    BY <1>1, <2>1, FreshCopy DEF Settled
  <2>3. CASE r # s
    <3>1. UNCHANGED queue[s] /\ ~queue[s].busy
      BY <1>7, <2>3, BeginForAnother
    <3>2. PICK t \in TSNames : Serves(t, s)
      BY <1>2, <2>1, <3>1 DEF Settled
    <3> QED
      BY <2>1, <3>1, <3>2, ServesStill DEF Ahead
  <2>4. ~BeginNothing(s) /\ ~BeginCleanup(s)
    BY <2>2, NothingFields, TypesAreParts DEF BeginCleanup, Settled
  <2>5. CASE BeginEnsure(s)
    <3>1. PICK t \in TSNames :
            /\ cache[TS(t)] # Absent
            /\ run' = [mode |-> "ensure", svc |-> s, left |-> Children, tsSpec |-> cache[TS(t)]]
      BY <2>5 DEF BeginEnsure
    <3>2. run'.svc = s /\ run'.mode = "ensure" /\ run'.left = Children
          /\ run'.tsSpec = cache[TS(t)]
      BY <3>1
    <3>3. queue'[s].busy
      BY <3>2, WorkerTypesKept, IdleHasNoMode DEF WorkerTypes
    <3>4. \A c \in Noticed : Ahead(c, s)'
      BY <1>1, <3>2, <3>3 DEF Ahead
    <3> QED
      BY <2>1, <3>1, <3>2, <3>4 DEF Serves
  <2> QED
    BY <1>7, <2>3, <2>4, <2>5
<1>8. CASE GivesUp \/ Finishes
  <2>1. ~(run.svc = s /\ GivesUp)
    BY ReturnFor DEF Settled
  <2>2. Settled(s) /\ UNCHANGED <<world, cache, stale>> /\ ~queue'[s].busy
        /\ \A c \in Noticed : ~Ahead(c, s)
    BY <1>8, <2>1, ReturnFor, ReturnForAnother DEF Settled, Ahead
  <2>3. PICK t \in TSNames : Serves(t, s)
    BY <1>2, <2>2
  <2> QED
    BY <2>2, <2>3, ServesStill
<1>9. ASSUME NEW d \in Children, Moves(d) PROVE \E t \in TSNames : Serves(t, s)'
  <2>1. PICK t \in TSNames : Serves(t, s)
    BY <1>2, <1>9, MoveSettled
  <2>2. world[Svc(s)] = "on" /\ Settled(s) /\ UNCHANGED <<cache, queue>>
        /\ run'.tsSpec = run.tsSpec
    BY <1>9, MoveSettled, MoveFields
  <2>3. CASE run.svc # s
    BY <1>9, <2>1, <2>2, <2>3, MoveForAnother, ServesStill DEF Ahead, Noticed
  <2>4. CASE run.svc = s
    <3>1. queue[s].busy /\ run.tsSpec = cache[TS(t)]
      BY <1>9, <2>1, <2>4, OneWorker, MoveFields DEF Serves
    <3>2. run.mode = "ensure"
      BY <1>1, <2>2, <3>1, FreshCopy DEF ModeTells, Settled
    <3>3. ASSUME NEW c \in Noticed
          PROVE  Ahead(c, s)' \/ Child(c, s) \in stale' \/ Right(c, s, cache[TS(t)])'
      <4>1. CASE c = d
        BY <1>9, <2>2, <2>4, <3>1, <3>2, <4>1, MoveMakesRight DEF Right
      <4>2. CASE c # d
        <5>1. Child(c, s) \in Objects \ {Current(d)}
          BY <1>1, <1>9, <4>2, KeysDiffer, MoveFields
        <5>2. /\ world'[Child(c, s)] = world[Child(c, s)]
              /\ Child(c, s) \in stale' <=> Child(c, s) \in stale
              /\ Ahead(c, s) => Ahead(c, s)'
          BY <1>9, <2>2, <4>2, <5>1, MoveFields DEF Ahead
        <5>3. Ahead(c, s) \/ Child(c, s) \in stale \/ Right(c, s, cache[TS(t)])
          BY <2>1 DEF Serves
        <5> QED
          BY <2>2, <5>2, <5>3 DEF Right
      <4> QED
        BY <4>1, <4>2
    <3>4. cache'[TS(t)] # Absent /\ run'.tsSpec = cache'[TS(t)]
      BY <2>1, <2>2, <3>1 DEF Serves
    <3> QED
      BY <2>2, <3>3, <3>4 DEF Serves
  <2> QED
    BY <2>3, <2>4
<1>10. ASSUME NEW r \in Services, ServiceChanges(r) PROVE \E t \in TSNames : Serves(t, s)'
  <2>1. PICK t \in TSNames : Serves(t, s)
    BY <1>2, <1>10, LabelUnsettles
  <2> QED
    BY <1>1, <1>10, <2>1, LabelUnsettles, ServesStill DEF Ahead
<1>11. ASSUME NEW u \in TSNames, TrafficScheduleChanges(u) PROVE \E t \in TSNames : Serves(t, s)'
  <2>1. PICK t \in TSNames : Serves(t, s)
    BY <1>2, <1>11, SpecFields
  <2> QED
    BY <1>1, <1>11, <2>1, SpecFields, ServesStill DEF Ahead
<1>12. ASSUME NEW u \in TSNames, TrafficScheduleRenewed(u) PROVE \E t \in TSNames : Serves(t, s)'
  <2>1. /\ queue'[s].dirty <=> queue[s].dirty \/ s \in Notices(TS(u))
        /\ (queue'[s].busy <=> queue[s].busy) /\ (queue'[s].later <=> queue[s].later)
        /\ UNCHANGED <<world, cache, stale, run>>
    BY <1>12, EnqueuesFields DEF TrafficScheduleRenewed, Types, TypeOK
  <2>2. PICK t \in TSNames : Serves(t, s)
    BY <1>2, <2>1 DEF Settled
  <2> QED
    BY <2>1, <2>2, ServesStill DEF Ahead
<1>13. ASSUME NEW d \in Children, NEW k \in KeysOf(d), Touches(d, k)
       PROVE  \E t \in TSNames : Serves(t, s)'
  <2>1. PICK t \in TSNames : Serves(t, s)
    BY <1>2, <1>13, TouchFields
  <2> QED
    BY <1>1, <1>13, <2>1, TouchFields, ServesStill DEF Ahead
<1>14. CASE UNCHANGED vars
  BY <1>3, <1>14 DEF vars
<1> QED
  BY <1>4, <1>5, <1>6, <1>7, <1>8, <1>9, <1>10, <1>11, <1>12, <1>13, <1>14, StepKinds

-----------------------------------------------------------------------------
(* The theorems.                                                           *)

LEMMA InitInv == Init => IndInv
<1> SUFFICES ASSUME Init PROVE IndInv
  OBVIOUS
<1>1. Types
  BY InitTypes
<1>2. ASSUME NEW s \in Services, NEW c \in Children PROVE world[Child(c, s)] = Absent
  <2>1. Child(c, s) \in Objects /\ Child(c, s) \notin SvcKeys /\ Child(c, s) \notin TSKeys
    BY KeysAreObjects, KeysDiffer DEF SvcKeys, TSKeys
  <2> QED
    BY <2>1 DEF Init
<1> SUFFICES ASSUME NEW s \in Services
             PROVE  /\ GoneForGood(s) /\ ModeTells(s) /\ CleanupAhead(s)
                    /\ BindingAhead(s) /\ ObjectsAhead(s)
  BY <1>1 DEF IndInv
<1>3. cache = world /\ run = Idle
  BY DEF Init
<1>4. world[Svc(s)] = "on" => queue[s].dirty
  <2>1. queue[s] = [Empty EXCEPT !.dirty = @ \/ Listed(world, s)]
    BY DEF Init, AddedIf
  <2> QED
    BY <2>1 DEF Listed, Empty
<1>5. GoneForGood(s)
  BY <1>3 DEF GoneForGood
<1>6. ModeTells(s)
  BY <1>1, <1>3, OneWorker DEF ModeTells
<1>7. CleanupAhead(s)
  BY <1>2, DeletableIsOwned DEF CleanupAhead
<1>8. BindingAhead(s)
  <2>1. \A c \in Clusterwide : c \in Children
    BY DEF Clusterwide
  <2> QED
    BY <1>2, <1>3, <1>4, <2>1 DEF BindingAhead, Bound, Settled
<1>9. ObjectsAhead(s)
  BY <1>4 DEF ObjectsAhead, Settled
<1> QED
  BY <1>5, <1>6, <1>7, <1>8, <1>9

LEMMA StepInv == IndInv /\ [Next]_vars => IndInv'
<1> SUFFICES ASSUME IndInv, [Next]_vars PROVE IndInv'
  OBVIOUS
<1>1. Types /\ Types'
  BY TypesKept DEF IndInv
<1>2. ASSUME NEW s \in Services
      PROVE  /\ GoneForGood(s)' /\ ModeTells(s)' /\ CleanupAhead(s)'
             /\ BindingAhead(s)' /\ ObjectsAhead(s)'
  <2>1. GoneForGood(s) /\ ModeTells(s) /\ CleanupAhead(s) /\ BindingAhead(s) /\ ObjectsAhead(s)
    BY DEF IndInv
  <2> QED
    BY <1>1, <2>1, GoneForGoodKept, ModeTellsKept, CleanupAheadKept, BindingAheadKept,
       ObjectsAheadKept
<1> QED
  BY <1>1, <1>2 DEF IndInv

\* What is still to come for every Service, at any time: see the definitions.
THEOREM Invariance == Spec => []IndInv
<1> QED
  BY InitInv, StepInv, PTL DEF Spec

\* The types of FlavourRouterController's variables (the reconciler's state, its
\* informers' and the API server's).
THEOREM TypeCorrect == Spec => []TypeOK
<1>1. IndInv => TypeOK
  BY DEF IndInv, Types
<1> QED
  BY <1>1, Invariance, PTL

\* When the controller is quiet, nothing is ahead of any Service's objects.
LEMMA QuietSettles ==
  ASSUME Types, Quiet
  PROVE  /\ stale = {} /\ \A o \in Objects : cache[o] = world[o]
         /\ \A s \in Services : Settled(s) /\ ~queue[s].busy
<1>1. stale = {} /\ \A s \in Services : ~queue[s].dirty /\ ~queue[s].busy /\ ~queue[s].later
  BY DEF Quiet, Awake
<1> QED
  BY <1>1, FreshCopy DEF Settled

\* Whatever events are delayed, calls fail and restarts happen: when the reconciler
\* is quiet, every object it hears of is there, for every Service with the label,
\* and is as one TrafficSchedule wants it.
THEOREM NothingForgotten == Spec => []ForgetsNothing
<1>1. IndInv => ForgetsNothing
  <2> SUFFICES ASSUME IndInv, Quiet, NEW s \in Labelled(world)
               PROVE  \E t \in TSNames : /\ world[TS(t)] # Absent
                                         /\ \A c \in Noticed : Right(c, s, world[TS(t)])
    BY DEF ForgetsNothing
  <2>1. s \in Services /\ world[Svc(s)] = "on"
    BY DEF Labelled
  <2>2. Types /\ ObjectsAhead(s)
    BY <2>1 DEF IndInv
  <2>3. stale = {} /\ Settled(s) /\ ~queue[s].busy
    BY <2>1, <2>2, QuietSettles
  <2>4. PICK t \in TSNames : Serves(t, s)
    BY <2>1, <2>2, <2>3 DEF ObjectsAhead
  <2>5. cache[TS(t)] = world[TS(t)]
    BY <2>2, QuietSettles, KeysAreObjects
  <2>6. world[TS(t)] # Absent
    BY <2>4, <2>5 DEF Serves
  <2>7. \A c \in Noticed : Right(c, s, world[TS(t)])
    BY <2>3, <2>4, <2>5 DEF Serves, Ahead
  <2> QED
    BY <2>6, <2>7
<1> QED
  BY <1>1, Invariance, PTL

\* As long as no call has failed, cleanupResources and the races around it leave
\* nothing that may be deleted of a Service without the label.
THEOREM CleanedWhenQuiet == Spec => []CleanWhenQuiet
<1>1. IndInv => CleanWhenQuiet
  <2> SUFFICES ASSUME IndInv, failed = 0, Quiet, NEW s \in Services, world[Svc(s)] = "off",
                      NEW c \in Deletable
               PROVE  world[Child(c, s)] = Absent
    BY DEF CleanWhenQuiet
  <2>1. Types /\ CleanupAhead(s)
    BY DEF IndInv
  <2>2. Settled(s) /\ ~queue[s].busy
    BY <2>1, QuietSettles
  <2> QED
    BY <2>1, <2>2 DEF CleanupAhead, Ahead
<1> QED
  BY <1>1, Invariance, PTL

\* The ClusterRoleBinding that Services of one name share is there for each of
\* them that has the label, whoever made it, as long as nobody else touches it.
THEOREM BindingKept == Spec => []BindingIsThere
<1>1. IndInv => BindingIsThere
  <2> SUFFICES ASSUME IndInv, Quiet, ~tampered, NEW s \in Labelled(world), NEW c \in Clusterwide
               PROVE  /\ world[Child(c, s)] # Absent
                      /\ \E t \in Services :
                           NameOf[t] = NameOf[s] /\ world[Child(c, s)].from = t
    BY DEF BindingIsThere
  <2>1. s \in Services /\ world[Svc(s)] = "on"
    BY DEF Labelled
  <2>2. Types /\ Bound(c, s)
    BY <2>1 DEF IndInv, BindingAhead
  <2>3. Settled(s) /\ ~queue[s].busy
    BY <2>1, <2>2, QuietSettles
  <2> QED
    BY <2>1, <2>2, <2>3 DEF Bound, Ahead
<1> QED
  BY <1>1, Invariance, PTL

\* However old the copy was that ensureDeployment started from, the replicas that
\* KEDA or the autoscaler set are kept.
THEOREM ReplicasKept == Spec => ScalingKept
<1> DEFINE Kept == \A d \in Deployments : \A o \in KeysOf(d) :
             world[o] # Absent /\ world'[o] # Absent /\ disturbed' = disturbed =>
               world'[o].replicas = world[o].replicas
<1>1. Types /\ [Next]_vars => Kept
  <2> SUFFICES ASSUME Types, [Next]_vars, NEW d \in Deployments, NEW o \in KeysOf(d),
                      world[o] # Absent, world'[o] # Absent, disturbed' = disturbed
               PROVE  world'[o].replicas = world[o].replicas
    OBVIOUS
  <2>1. d \in Children /\ o \in Objects /\ world[o] \in Contents
    BY DEF Deployments, Objects, Types, TypeOK, IsCopy
  <2>2. ~Disturbs
    <3>1. disturbed \in Nat
      BY ControllerAssumption DEF Types, TypeOK, ControllerAssumption
    <3> QED
      BY <3>1 DEF Disturbs
  <2>3. CASE UNCHANGED world
    BY <2>3
  <2>4. ASSUME NEW c \in Children, Moves(c) PROVE world'[o].replicas = world[o].replicas
    <3>1. CASE o # Current(c)
      BY <2>1, <2>4, <3>1, MoveFields
    <3>2. CASE o = Current(c) /\ EnsureUpdates(c)
      <4>1. cache[o] = world[o] /\ Ensures(c)
        BY <2>1, <3>2, FreshCopy DEF EnsureUpdates
      <4>2. world[o].replicas \in 0..MaxReplicas
        BY <2>1 DEF Contents
      <4> DEFINE new == [Wanted(c) EXCEPT !.replicas = world[o].replicas]
      <4>3. new.replicas = world[o].replicas
        BY <2>4, <4>1, <4>2, WantedIsContents
      <4>4. Writes(o, new)
        BY <3>2, <4>1 DEF EnsureUpdates
      <4> HIDE DEF new
      <4> QED
        BY <2>1, <4>3, <4>4, WriteHere
    <3>3. CASE o = Current(c) /\ EnsureCreates(c)
      BY <3>3 DEF EnsureCreates
    <3>4. CASE o = Current(c) /\ CleanDeletes(c)
      BY <2>1, <2>3, <3>4, WriteHere DEF CleanDeletes
    <3>5. CASE EnsureSkips(c) \/ CleanFails(c)
      BY <2>3, <3>5 DEF EnsureSkips, CleanFails
    <3> QED
      BY <2>4, <3>1, <3>2, <3>3, <3>4, <3>5 DEF Moves
  <2>5. ASSUME NEW c \in Children, NEW k \in KeysOf(c), Touches(c, k)
        PROVE  world'[o].replicas = world[o].replicas
    <3>1. o # k
      BY <2>5 DEF Touches
    <3>2. PICK new : Writes(k, new) /\ k \in Objects
      BY <2>5 DEF Touches, Changes, Objects
    <3> QED
      BY <2>1, <3>1, <3>2, WriteElsewhere
  <2>6. ASSUME NEW r \in Services,
               Fire(r) \/ BeginNothing(r) \/ BeginCleanup(r) \/ BeginEnsure(r)
        PROVE  UNCHANGED world
    BY <2>6 DEF Fire, BeginNothing, BeginCleanup, BeginEnsure, Begin
  <2>7. ASSUME NEW t \in TSNames, TrafficScheduleRenewed(t) PROVE UNCHANGED world
    BY <2>7 DEF TrafficScheduleRenewed
  <2>8. ASSUME NEW k \in Objects, Watch(k) PROVE UNCHANGED world
    BY <2>8 DEF Watch
  <2>9. CASE GivesUp \/ Finishes \/ Restart \/ UNCHANGED vars
    BY <2>3, <2>9 DEF GivesUp, Finishes, Restart, vars
  <2>10. /\ \A r \in Services : ~ServiceChanges(r)
         /\ \A t \in TSNames : ~TrafficScheduleChanges(t)
    BY <2>2 DEF ServiceChanges, TrafficScheduleChanges
  <2> QED
    BY <2>3, <2>4, <2>5, <2>6, <2>7, <2>8, <2>9, <2>10, StepKinds
<1>2. Types /\ [Next]_vars => [Kept]_vars
  BY <1>1
<1>3. IndInv => Types
  BY DEF IndInv
<1> QED
  BY <1>2, <1>3, Invariance, PTL DEF Spec, ScalingKept

\* Arrived, conjunct by conjunct, under a step that is no user's.
LEMMA ArrivedKept ==
  ASSUME Types, [Next]_vars, NEW s \in Services, NEW spec \in Specs, Arrived(s, spec),
         disturbed' = disturbed \/ Restart
  PROVE  Arrived(s, spec)'
<1>1. /\ Svc(s) \in Objects /\ \A t \in TSNames : TS(t) \in Objects
      /\ \A c \in Noticed : c \in Children /\ c \notin Clusterwide /\ Child(c, s) \in Objects
      /\ \A o \in TSKeys : o \in Objects
  BY KeysAreObjects DEF Noticed, TSKeys
<1>2. CASE /\ UNCHANGED <<world, cache>>
           /\ queue'[s].busy => queue[s].busy /\ run' = run
  BY <1>2 DEF Arrived, Right
<1>3. CASE Restart
  <2>1. cache' = world /\ UNCHANGED world
    BY <1>3 DEF Restart
  <2>2. ~queue'[s].busy
    BY <1>3, WorkerTypesKept DEF Restart, WorkerTypes
  <2> QED
    BY <2>1, <2>2 DEF Arrived, Right
<1>4. CASE ~Restart
  <2>1. disturbed' = disturbed /\ ~Disturbs
    <3>1. disturbed \in Nat
      BY ControllerAssumption DEF Types, TypeOK, ControllerAssumption
    <3> QED
      BY <1>4, <3>1 DEF Disturbs
  <2>2. ASSUME NEW o \in Objects, Watch(o) PROVE Arrived(s, spec)'
    <3>1. /\ UNCHANGED <<world, run>> /\ (queue'[s].busy <=> queue[s].busy)
          /\ \A p \in Objects : cache'[p] \in {cache[p], world[p]}
      BY <2>2, WatchFields
    <3> QED
      BY <1>1, <3>1 DEF Arrived, Right
  <2>3. ASSUME NEW r \in Services, Fire(r) PROVE Arrived(s, spec)'
    BY <1>2, <2>3, FireFields
  <2>4. ASSUME NEW r \in Services, BeginNothing(r) \/ BeginCleanup(r) PROVE Arrived(s, spec)'
    <3>1. UNCHANGED <<world, cache>>
      BY <2>4 DEF BeginNothing, BeginCleanup, Begin
    <3>2. r # s => ~queue'[s].busy
      BY <2>4, BeginForAnother
    <3>3. r = s => BeginNothing(s)
      BY <2>4 DEF BeginCleanup, Arrived
    <3>4. ~queue'[s].busy
      BY <3>2, <3>3, NothingFields, TypesAreParts
    <3> QED
      BY <1>2, <3>1, <3>4
  <2>5. ASSUME NEW r \in Services, BeginEnsure(r) PROVE Arrived(s, spec)'
    <3>1. UNCHANGED <<world, cache>>
      BY <2>5 DEF BeginEnsure, Begin
    <3>2. CASE r # s
      BY <1>2, <2>5, <3>1, <3>2, BeginForAnother
    <3>3. CASE r = s
      <4>1. PICK t \in TSNames :
              /\ cache[TS(t)] # Absent
              /\ run' = [mode |-> "ensure", svc |-> s, left |-> Children, tsSpec |-> cache[TS(t)]]
        BY <2>5, <3>3 DEF BeginEnsure
      <4>2. cache[TS(t)] = spec
        BY <4>1, KeysAreObjects DEF Arrived
      <4>3. run'.mode = "ensure" /\ run'.tsSpec = spec
        BY <4>1, <4>2
      <4> QED
        BY <3>1, <4>3 DEF Arrived, Right
    <3> QED
      BY <3>2, <3>3
  <2>6. CASE GivesUp \/ Finishes
    <3>1. ~queue'[s].busy
      BY <2>6, ReturnFields, TypesAreParts DEF GivesUp, Finishes
    <3> QED
      BY <1>2, <2>6, <3>1 DEF GivesUp, Finishes
  <2>7. ASSUME NEW d \in Children, Moves(d) PROVE Arrived(s, spec)'
    <3>1. \A o \in SvcKeys \cup TSKeys : o \in Objects \ {Current(d)}
      BY <2>7, KeysAreObjects, KeysDiffer, MoveFields DEF SvcKeys, TSKeys
    <3>2. /\ UNCHANGED cache /\ \A o \in SvcKeys \cup TSKeys : world'[o] = world[o]
          /\ queue'[s].busy <=> queue[s].busy
          /\ run'.mode = run.mode /\ run'.tsSpec = run.tsSpec
      BY <2>7, <3>1, MoveFields
    <3>3. ASSUME NEW c \in Noticed PROVE Right(c, s, spec)'
      <4>1. Right(c, s, spec)
        BY DEF Arrived
      <4>2. CASE world'[Child(c, s)] = world[Child(c, s)]
        BY <4>1, <4>2 DEF Right
      <4>3. CASE run.svc # s
        BY <1>1, <2>7, <4>2, <4>3, MoveForAnother
      <4>4. CASE run.svc = s /\ c = d
        <5>1. run.mode = "ensure" /\ run.tsSpec = spec
          BY <2>7, <4>4, OneWorker, MoveFields DEF Arrived
        <5> QED
          BY <2>7, <4>2, <4>4, <5>1, MoveMakesRight
      <4>5. CASE c # d
        <5>1. Child(c, s) \in Objects \ {Current(d)}
          BY <1>1, <2>7, <4>5, KeysDiffer, MoveFields
        <5> QED
          BY <2>7, <4>2, <5>1, MoveFields
      <4> QED
        BY <4>3, <4>4, <4>5
    <3>4. Svc(s) \in SvcKeys
      BY KeysAreObjects
    <3> QED
      BY <3>2, <3>3, <3>4 DEF Arrived
  <2>8. /\ \A r \in Services : ~ServiceChanges(r)
        /\ \A t \in TSNames : ~TrafficScheduleChanges(t)
    BY <2>1 DEF ServiceChanges, TrafficScheduleChanges
  <2>9. ASSUME NEW t \in TSNames, TrafficScheduleRenewed(t) PROVE Arrived(s, spec)'
    BY <1>2, <2>9, EnqueuesFields DEF TrafficScheduleRenewed, Types, TypeOK
  <2>10. ASSUME NEW c \in Children, NEW k \in KeysOf(c), Touches(c, k) PROVE Arrived(s, spec)'
    <3>1. PICK r \in Services : k = Child(c, r) /\ c \notin Clusterwide /\ world[Svc(r)] = Absent
      BY <2>1, <2>10 DEF Touches
    <3>2. r # s
      BY <3>1, ControllerAssumption DEF Arrived, ControllerAssumption
    <3>3. \A o \in Objects \ {k} : world'[o] = world[o]
      BY <2>10, TouchFields
    <3>4. \A d \in Noticed : Child(d, s) \in Objects \ {k}
      BY <1>1, <3>1, <3>2, KeysDiffer
    <3>5. \A o \in SvcKeys \cup TSKeys : o \in Objects \ {k}
      BY <3>1, KeysAreObjects, KeysDiffer DEF SvcKeys, TSKeys
    <3>6. UNCHANGED <<cache, queue, run>> /\ Svc(s) \in SvcKeys
      BY <2>10, TouchFields, KeysAreObjects
    <3> QED
      BY <3>3, <3>4, <3>5, <3>6 DEF Arrived, Right
  <2>11. CASE UNCHANGED vars
    BY <1>2, <2>11 DEF vars
  <2> QED
    BY <1>4, <2>2, <2>3, <2>4, <2>5, <2>6, <2>7, <2>8, <2>9, <2>10, <2>11, StepKinds
<1> QED
  BY <1>3, <1>4

\* Objects that are right stay right under the reconciler's steps, for any Service,
\* whatever it does at the same time for others, and over restarts.
THEOREM RightForGood == Spec => StaysRight
<1> DEFINE Stays == \A s \in Services, spec \in Specs :
             Arrived(s, spec) /\ (disturbed' = disturbed \/ Restart) => Arrived(s, spec)'
<1>1. Types /\ [Next]_vars => Stays
  BY ArrivedKept
<1>2. Types /\ [Next]_vars => [Stays]_vars
  BY <1>1
<1>3. IndInv => Types
  BY DEF IndInv
<1> QED
  BY <1>2, <1>3, Invariance, PTL DEF Spec, StaysRight
=============================================================================
