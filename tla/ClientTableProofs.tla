------------------------- MODULE ClientTableProofs -------------------------
(***************************************************************************)
(* Proofs about ClientTable for any number of threads, programs, slots and *)
(* clients, and all flags.                                                 *)
(***************************************************************************)
EXTENDS ClientTable, Arithmetic, FiniteSetTheorems

-----------------------------------------------------------------------------
(* The invariant.                                                          *)

Calls   == { t \in Threads : pc[t] \in Active }
Crashed == { t \in Threads : pc[t] = "oops" }

(* ioctl_active_count counts the calls; one that has crashed stays counted *)
(* if it was.                                                              *)
CallsCounted ==
    /\ ioctl_active_count \in Nat
    /\ Cardinality(Calls) <= ioctl_active_count
    /\ ioctl_active_count <= Cardinality(Calls \cup Crashed)

(* A call that works on a client has a slot.                               *)
Slotted ==
    \A t \in Threads :
       pc[t] \in {"taken", "insert", "unlocked", "asleep", "woken", "awake", "relock", "copy", "check"} =>
          idx[t] \in Slots

Exclusive == \A t \in Threads : pc[t] \in Locked => io_mutex = t

EmptyHanded == \A t \in Threads : pc[t] # "taken" => taken[t] = Null

Holding == cb \in {"judge", "clear", "free", "store"} => cb_client \in Addresses

HandlerDone == teardown # "none" => cb = "idle"

Allocated == \A a \in live : client[a] \in Client

(* What is true whatever has become of the memory.                         *)
Calling == Slotted /\ Exclusive /\ EmptyHanded /\ Holding /\ HandlerDone /\ Allocated

(* The client of the handler is the one in its slot, unless a thread has   *)
(* taken it; the one that it frees is in nobody else's hands.              *)
HandlerHolds ==
    /\ cb = "judge" /\ ~lost => table[cb_slot] = cb_client
    /\ cb = "clear" => table[cb_slot] = cb_client
    /\ cb = "free" => /\ cb_client \in live
                      /\ \A i \in Slots : table[i] # cb_client
                      /\ \A t \in Threads : taken[t] # cb_client

(* What a thread has taken is in no slot any more, and not yet freed.      *)
TakenIsGone ==
    \A t \in Threads :
       taken[t] # Null => taken[t] \in live /\ \A i \in Slots : table[i] # taken[t]

(* What SET_PARAMS has found out about the slots of its program remains    *)
(* true while it holds io_mutex, for the handler only empties slots.       *)
LookedUp ==
    \A t \in Threads :
       /\ pc[t] = "set" => SlotsOf(PidOf[t]) \subseteq {idx[t]}
       /\ pc[t] \in {"taken", "insert"} => table[idx[t]] = Null /\ SlotsOf(PidOf[t]) = {}

Orderly == TableIsSound /\ HandlerHolds /\ TakenIsGone /\ LookedUp

(* Once exiting is set nobody falls asleep, and who sleeps on the queue of *)
(* a client that is in the table will be woken when its slot is reached.   *)
WakesInTurn ==
    /\ teardown \in {"wake", "spin", "done"} => exiting
    /\ \A t \in Threads, i \in Slots :
          /\ pc[t] = "asleep" /\ table[i] = queue[t] /\ queue[t] \in live
          /\ teardown \in {"wake", "spin"}
          => teardown = "wake" /\ i >= teardown_slot

TableInv ==
    /\ TypeOK /\ CallsCounted /\ Calling /\ (twice \/ Orderly)
    /\ NoLostWakeup /\ DeviceOutlivesCalls /\ WakesInTurn

-----------------------------------------------------------------------------
(* Places: at most one thread moves, or sleeping ones wake up.             *)

Places == Active \cup {"user", "found", "oops"}

(* First takes an element.                                                 *)
LEMMA FirstIn ==
    ASSUME NEW S \in SUBSET Nat, S # {}
    PROVE  First(S) \in S
BY LeastNatural DEF First

(* The count.                                                              *)
LEMMA CallsFinite ==
    ASSUME NEW S \in SUBSET Threads
    PROVE  IsFiniteSet(S) /\ Cardinality(S) \in Nat /\ Cardinality(S) <= Cardinality(Threads)
<1>1. IsFiniteSet(Threads)
    BY TableAssumption
<1>2. IsFiniteSet(S) /\ Cardinality(S) <= Cardinality(Threads)
    BY <1>1, FS_Subset
<1>3. QED
    BY <1>2, FS_CardinalityType

LEMMA CountInRange ==
    ASSUME CallsCounted
    PROVE  ioctl_active_count \in 0 .. Cardinality(Threads)
<1>1. /\ Cardinality(Calls \cup Crashed) \in Nat
      /\ Cardinality(Calls \cup Crashed) <= Cardinality(Threads)
    BY CallsFinite DEF Calls, Crashed
<1>2. Cardinality(Threads) \in Nat
    BY CallsFinite
<1>3. QED
    BY <1>1, <1>2 DEF CallsCounted

(* No call begins or ends.                                                 *)
LEMMA CallsSame ==
    ASSUME CallsCounted, ioctl_active_count' = ioctl_active_count,
           \A t \in Threads : /\ pc'[t] \in Active <=> pc[t] \in Active
                              /\ pc'[t] = "oops" <=> pc[t] = "oops"
    PROVE  CallsCounted'
<1>1. Calls' = Calls /\ Crashed' = Crashed
    BY DEF Calls, Crashed
<1>2. QED
    BY <1>1 DEF CallsCounted

LEMMA CallBegins ==
    ASSUME CallsCounted, pc \in [Threads -> Places],
           NEW t \in Threads, NEW place \in Active,
           pc[t] \notin Active \cup {"oops"},
           pc' = [pc EXCEPT ![t] = place],
           ioctl_active_count' = ioctl_active_count + 1
    PROVE  CallsCounted'
<1>1. place # "oops"
    BY DEF Active, Locked
<1>2. Calls' = Calls \cup {t} /\ Crashed' = Crashed /\ t \notin Calls \cup Crashed
    BY <1>1 DEF Calls, Crashed
<1>3. Calls' \cup Crashed' = (Calls \cup Crashed) \cup {t}
    BY <1>2
<1>4. /\ Cardinality(Calls') = Cardinality(Calls) + 1
      /\ Cardinality((Calls \cup Crashed)') = Cardinality(Calls \cup Crashed) + 1
    <2>1. IsFiniteSet(Calls) /\ IsFiniteSet(Calls \cup Crashed)
        BY CallsFinite DEF Calls, Crashed
    <2>2. QED
        BY <1>2, <1>3, <2>1, FS_AddElement
<1>5. Cardinality(Calls) \in Nat /\ Cardinality(Calls \cup Crashed) \in Nat
    BY CallsFinite DEF Calls, Crashed
<1>6. QED
    BY <1>4, <1>5 DEF CallsCounted

LEMMA CallEnds ==
    ASSUME CallsCounted, pc \in [Threads -> Places],
           NEW t \in Threads,
           pc[t] \in Active,
           pc' = [pc EXCEPT ![t] = "user"],
           NotActive
    PROVE  CallsCounted'
<1>1. "user" \notin Active \cup {"oops"} /\ "oops" \notin Active
    BY DEF Active, Locked
<1>2. Calls' = Calls \ {t} /\ Crashed' = Crashed /\ t \in Calls /\ t \notin Crashed
    BY <1>1 DEF Calls, Crashed
<1>3. (Calls \cup Crashed)' = (Calls \cup Crashed) \ {t}
    BY <1>2
<1>4. /\ Cardinality(Calls') = Cardinality(Calls) - 1
      /\ Cardinality((Calls \cup Crashed)') = Cardinality(Calls \cup Crashed) - 1
    <2>1. IsFiniteSet(Calls) /\ IsFiniteSet(Calls \cup Crashed)
        BY CallsFinite DEF Calls, Crashed
    <2>2. QED
        BY <1>2, <1>3, <2>1, FS_RemoveElement
<1>5. /\ Cardinality(Calls) \in Nat /\ Cardinality(Calls') \in Nat
      /\ Cardinality(Calls \cup Crashed) \in Nat
    <2>1. Calls' \in SUBSET Threads /\ Calls \in SUBSET Threads /\ Calls \cup Crashed \in SUBSET Threads
        BY DEF Calls, Crashed
    <2>2. QED
        BY <2>1, CallsFinite
<1>6. QED
    BY <1>4, <1>5 DEF CallsCounted, NotActive

LEMMA CallCrashes ==
    ASSUME CallsCounted, pc \in [Threads -> Places],
           NEW t \in Threads,
           pc' = [pc EXCEPT ![t] = "oops"],
           ioctl_active_count' = ioctl_active_count
    PROVE  CallsCounted'
<1>1. "oops" \notin Active
    BY DEF Active, Locked
<1>2. Calls' \subseteq Calls /\ Calls \cup Crashed \subseteq (Calls \cup Crashed)'
    BY <1>1 DEF Calls, Crashed
<1>3. IsFiniteSet(Calls) /\ IsFiniteSet((Calls \cup Crashed)')
    <2>1. Calls \in SUBSET Threads /\ (Calls \cup Crashed)' \in SUBSET Threads
        BY DEF Calls, Crashed
    <2>2. QED
        BY <2>1, CallsFinite
<1>4. /\ Cardinality(Calls') <= Cardinality(Calls)
      /\ Cardinality(Calls \cup Crashed) <= Cardinality((Calls \cup Crashed)')
    BY <1>2, <1>3, FS_Subset
<1>5. /\ Cardinality(Calls) \in Nat /\ Cardinality(Calls') \in Nat
      /\ Cardinality(Calls \cup Crashed) \in Nat /\ Cardinality((Calls \cup Crashed)') \in Nat
    <2>1. /\ Calls' \in SUBSET Threads /\ Calls \in SUBSET Threads
          /\ Calls \cup Crashed \in SUBSET Threads /\ (Calls \cup Crashed)' \in SUBSET Threads
        BY DEF Calls, Crashed
    <2>2. QED
        BY <2>1, CallsFinite
<1>6. QED
    BY <1>4, <1>5 DEF CallsCounted

LEMMA PlacesTyped == TypeOK => pc \in [Threads -> Places]
BY DEF TypeOK, Places

(* What the handler and the deletion do to a thread: they may wake it up.  *)
DeviceStep ==
    \/ Callback \/ CallbackOverrun \/ FlowStops \/ Disconnect \/ DisconnectAgain \/ Delete
    \/ UNCHANGED vars

LEMMA DeviceMoves ==
    ASSUME TypeOK, DeviceStep
    PROVE  /\ UNCHANGED <<idx, io_mutex, ioctl_active_count, taken>>
           /\ pc' \in [Threads -> Places]
           /\ queue' \in [Threads -> Addresses \cup {Null}]
           /\ \A u \in Threads : \/ pc'[u] = pc[u] /\ queue'[u] = queue[u]
                                 \/ pc[u] = "asleep" /\ pc'[u] = "woken"
<1>1. pc \in [Threads -> Places] /\ queue \in [Threads -> Addresses \cup {Null}] /\ "woken" \in Places
    BY PlacesTyped DEF TypeOK, Places, Active, Locked
<1>2. ASSUME NEW a, WakeUp(a)
      PROVE  /\ pc' \in [Threads -> Places]
             /\ queue' \in [Threads -> Addresses \cup {Null}]
             /\ \A u \in Threads : \/ pc'[u] = pc[u] /\ queue'[u] = queue[u]
                                   \/ pc[u] = "asleep" /\ pc'[u] = "woken"
    BY <1>1, <1>2 DEF WakeUp, Awaken, Sleepers
<1>3. ASSUME UNCHANGED <<pc, queue>>
      PROVE  /\ pc' \in [Threads -> Places]
             /\ queue' \in [Threads -> Addresses \cup {Null}]
             /\ \A u \in Threads : \/ pc'[u] = pc[u] /\ queue'[u] = queue[u]
                                   \/ pc[u] = "asleep" /\ pc'[u] = "woken"
    BY <1>1, <1>3
<1>4. CASE CallbackWarn \/ CallbackStore \/ DeleteWakes
    <2>1. UNCHANGED <<idx, io_mutex, ioctl_active_count, taken>>
        BY <1>4 DEF CallbackWarn, CallbackStore, DeleteWakes
    <2>2. UNCHANGED <<pc, queue>> \/ \E a : WakeUp(a)
        BY <1>4 DEF CallbackWarn, CallbackStore, WokenWhenFull, DeleteWakes, WokenToExit
    <2>3. QED
        BY <1>2, <1>3, <2>1, <2>2
<1>5. CASE ~CallbackWarn /\ ~CallbackStore /\ ~DeleteWakes
    <2>1. UNCHANGED threads
        BY <1>5 DEF DeviceStep, Callback, CallbackData, CallbackFetch, CallbackJudge, CallbackSkips,
           CallbackClear, CallbackFree, CallbackGivesUp, CallbackOverrun, FlowStops, Disconnect,
           DisconnectAgain, Delete, DisconnectLocks, DeleteExits, DeleteFrees, vars
    <2>2. QED
        BY <1>3, <2>1 DEF threads
<1>6. QED
    BY <1>4, <1>5

LEMMA CountKept ==
    ASSUME TableInv, [Next]_vars
    PROVE  CallsCounted'
<1>1. CallsCounted /\ TypeOK /\ pc \in [Threads -> Places]
    BY PlacesTyped DEF TableInv
<1>2. ASSUME NEW t \in Threads, IoctlCounted(t)
      PROVE  CallsCounted'
    <2>1. pc[t] = "found"
        BY <1>2 DEF IoctlCounted
    <2>2. CASE exiting
        <3>1. pc' = [pc EXCEPT ![t] = "user"] /\ ioctl_active_count' = ioctl_active_count
            BY <1>2, <2>2 DEF IoctlCounted, Goto
        <3>2. QED
            BY <1>1, <2>1, <3>1, CallsSame DEF Active, Locked
    <2>3. CASE ~exiting
        <3>1. PICK place \in {"counted", "leave"} : pc' = [pc EXCEPT ![t] = place]
            BY <1>2, <2>3 DEF IoctlCounted, Goto
        <3>2. ioctl_active_count' = ioctl_active_count + 1
            BY <1>2, <2>3 DEF IoctlCounted
        <3>3. place \in Active /\ pc[t] \notin Active \cup {"oops"}
            BY <2>1 DEF Active, Locked
        <3>4. QED
            BY <1>1, <3>1, <3>2, <3>3, CallBegins
    <2>4. QED
        BY <2>2, <2>3
<1>3. ASSUME NEW t \in Threads, IoctlLeaves(t) \/ GetDataExits(t) \/ GetDataRelock(t)
      PROVE  CallsCounted'
    <2>1. pc[t] \in Active
        BY <1>3 DEF IoctlLeaves, GetDataExits, GetDataRelock, Active, Locked
    <2>2. \/ pc' = [pc EXCEPT ![t] = "user"] /\ NotActive
          \/ pc' = [pc EXCEPT ![t] = "copy"] /\ ioctl_active_count' = ioctl_active_count
        BY <1>3 DEF IoctlLeaves, GetDataExits, GetDataRelock, Goto
    <2>3. CASE pc' = [pc EXCEPT ![t] = "user"] /\ NotActive
        BY <1>1, <2>1, <2>3, CallEnds
    <2>4. CASE pc' = [pc EXCEPT ![t] = "copy"] /\ ioctl_active_count' = ioctl_active_count
        BY <1>1, <2>1, <2>4, CallsSame DEF Active, Locked
    <2>5. QED
        BY <2>2, <2>3, <2>4
<1>4. ASSUME NEW t \in Threads, IoctlFaults(t)
      PROVE  CallsCounted'
    BY <1>1, <1>4, CallCrashes DEF IoctlFaults, Goto
<1>5. ASSUME NEW t \in Threads,
             \/ IoctlFindsDevice(t) \/ IoctlLooksUp(t)
             \/ SetParamsNew(t) \/ SetParamsTakes(t) \/ SetParamsFrees(t)
             \/ SetParamsInsert(t) \/ SetParamsFails(t)
             \/ GetDataFails(t) \/ GetDataUnlocks(t) \/ GetDataWait(t) \/ GetDataWoken(t)
             \/ GetDataStays(t) \/ GetDataCopy(t) \/ GetDataCheck(t)
      PROVE  CallsCounted'
    <2>1. ioctl_active_count' = ioctl_active_count
        BY <1>5 DEF IoctlFindsDevice, IoctlLooksUp, SetParamsNew, SetParamsTakes, SetParamsFrees, SetParamsInsert,
           SetParamsFails, GetDataFails, GetDataUnlocks, GetDataWait, GetDataWoken, GetDataStays, GetDataCopy,
           GetDataCheck
    <2>2. \E place \in Places :
             /\ pc' = [pc EXCEPT ![t] = place]
             /\ place \in Active <=> pc[t] \in Active
             /\ place # "oops" /\ pc[t] # "oops"
        BY <1>5 DEF IoctlFindsDevice, IoctlLooksUp, SetParamsNew, SetParamsTakes, SetParamsFrees, SetParamsInsert,
           SetParamsFails, GetDataFails, GetDataUnlocks, GetDataWait, GetDataWoken, GetDataStays, GetDataCopy,
           GetDataCheck, Goto, Leave, Sleep, Places, Active, Locked
    <2>3. QED
        BY <1>1, <2>1, <2>2, CallsSame
<1>6. CASE DeviceStep
    <2>1. /\ ioctl_active_count' = ioctl_active_count
          /\ \A u \in Threads : pc'[u] = pc[u] \/ (pc[u] = "asleep" /\ pc'[u] = "woken")
        BY <1>1, <1>6, DeviceMoves
    <2>2. \A u \in Threads : /\ pc'[u] \in Active <=> pc[u] \in Active
                             /\ pc'[u] = "oops" <=> pc[u] = "oops"
        BY <2>1 DEF Active, Locked
    <2>3. QED
        BY <1>1, <2>1, <2>2, CallsSame
<1>7. QED
    BY <1>2, <1>3, <1>4, <1>5, <1>6 DEF Next, Ioctl, DeviceStep

-----------------------------------------------------------------------------
(* The types.                                                              *)

LEMMA SlotFacts == 0 \in Slots /\ Slots \subseteq Nat /\ MAX_CLIENTS \in Nat \ {0} /\ Null \notin Slots
BY TableAssumption DEF Slots

LEMMA ClientFacts ==
    ASSUME NEW c \in Client
    PROVE  /\ [c EXCEPT !.warning = TRUE] \in Client
           /\ [c EXCEPT !.warning = @ /\ c.full > 0] \in Client
           /\ c.full > 0 => [c EXCEPT !.full = @ - 1] \in Client
           /\ c.full < 2 => [c EXCEPT !.full = @ + 1] \in Client
           /\ c.loops_after_warn_count < WaitLoops =>
                 [c EXCEPT !.loops_after_warn_count = Counted(@)] \in Client
<1>1. c.full \in 0 .. 2 /\ c.loops_after_warn_count \in 0 .. WaitLoops /\ WaitLoops \in Nat
    BY TableAssumption DEF Client
<1>2. c.full > 0 => c.full - 1 \in 0 .. 2
    BY <1>1
<1>3. c.full < 2 => c.full + 1 \in 0 .. 2
    BY <1>1
<1>4. c.loops_after_warn_count < WaitLoops => c.loops_after_warn_count + 1 \in 0 .. WaitLoops
    BY <1>1
<1>5. QED
    BY <1>2, <1>3, <1>4 DEF Client, Counted

LEMMA NewClientType ==
    ASSUME NEW t \in Threads, NEW flags \in ChannelFlags
    PROVE  NewClient(PidOf[t], flags) \in Client
<1>1. 0 \in 0 .. WaitLoops /\ 0 \in 0 .. 2
    BY TableAssumption
<1>2. PidOf[t] \in Pids
    BY DEF Pids
<1>3. QED
    BY <1>1, <1>2 DEF NewClient, Client

(* What is read from an address is a client, whatever has become of it.    *)
LEMMA SeenClient ==
    ASSUME Allocated, NEW a
    PROVE  Seen(a) \subseteq Client
BY DEF Allocated, Seen

(* A step that works on a client changes at most what is at its address.   *)
LEMMA PutFacts ==
    ASSUME TypeOK, NEW a, NEW c \in Client
    PROVE  /\ Put(a, c) \in [Addresses -> Client \cup {Null}]
           /\ \A b \in live : b # a => Put(a, c)[b] = client[b]
           /\ a \in live => Put(a, c)[a] = c
BY DEF TypeOK, Put

LEMMA NextSlotType ==
    ASSUME TypeOK, NextSlot
    PROVE  /\ cb' \in {"idle", "fetch"}
           /\ cb_slot' \in Slots
           /\ cb_client' = Null /\ lost' = FALSE
<1>1. cb_slot \in 0 .. MAX_CLIENTS - 1 /\ MAX_CLIENTS \in Nat \ {0}
    BY TableAssumption DEF TypeOK, Slots
<1>2. ~LastSlot => cb_slot + 1 \in Slots
    BY <1>1 DEF LastSlot, Slots
<1>3. QED
    BY <1>2, SlotFacts DEF NextSlot

LEMMA TypesOfIoctl ==
    ASSUME TableInv, NEW t \in Threads, IoctlFindsDevice(t) \/ Ioctl(t),
           (ioctl_active_count \in 0 .. Cardinality(Threads))'
    PROVE  TypeOK'
<1>1. TypeOK /\ Slotted /\ Allocated /\ 0 \in Slots /\ Slots \subseteq Nat /\ Null \notin Slots
    BY SlotFacts DEF TableInv, Calling
<1> USE DEF heap, callback, exit, Goto, Leave, Forget
<1>2. CASE \/ IoctlFindsDevice(t) \/ IoctlCounted(t) \/ IoctlLeaves(t) \/ SetParamsFails(t)
           \/ GetDataFails(t) \/ GetDataUnlocks(t) \/ GetDataExits(t) \/ GetDataStays(t)
           \/ GetDataRelock(t) \/ IoctlFaults(t)
    BY <1>1, <1>2
    DEF TypeOK, IoctlFindsDevice, IoctlCounted, IoctlLeaves, SetParamsFails, GetDataFails, GetDataUnlocks,
        GetDataExits, GetDataStays, GetDataRelock, IoctlFaults, Active, Locked
<1>3. CASE IoctlLooksUp(t)
    <2>1. PICK S \in SUBSET Dangling : idx' = [idx EXCEPT ![t] = First(SlotsOf(PidOf[t]) \cup S)]
        BY <1>3 DEF IoctlLooksUp
    <2>2. First(SlotsOf(PidOf[t]) \cup S) \in Slots \cup {Null}
        <3>1. SlotsOf(PidOf[t]) \cup S \in SUBSET Nat /\ SlotsOf(PidOf[t]) \cup S \subseteq Slots
            BY <1>1 DEF SlotsOf, Dangling
        <3>2. CASE SlotsOf(PidOf[t]) \cup S = {}
            BY <3>2 DEF First
        <3>3. CASE SlotsOf(PidOf[t]) \cup S # {}
            BY <3>1, <3>3, FirstIn
        <3>4. QED
            BY <3>2, <3>3
    <2>3. pc' \in [Threads -> Active \cup {"user", "found", "oops"}] /\ io_mutex' = t
        BY <1>1, <1>3 DEF TypeOK, IoctlLooksUp, Active, Locked
    <2>4. idx' \in [Threads -> Slots \cup {Null}]
        BY <1>1, <2>1, <2>2 DEF TypeOK
    <2>5. QED
        BY <1>1, <1>3, <2>3, <2>4 DEF TypeOK, IoctlLooksUp
<1>4. CASE SetParamsNew(t)
    BY <1>1, <1>4 DEF TypeOK, SetParamsNew, Active, Locked
<1>5. CASE SetParamsTakes(t)
    <2>1. idx[t] \in Slots
        BY <1>1, <1>5 DEF TypeOK, SetParamsTakes
    <2>2. Mine(t) \in Addresses \cup {Null}
        BY <1>1, <2>1 DEF TypeOK, Mine
    <2>3. lost' \in BOOLEAN /\ twice' \in BOOLEAN
        BY <1>1, <1>5 DEF TypeOK, SetParamsTakes
    <2>4. /\ pc' \in [Threads -> Active \cup {"user", "found", "oops"}]
          /\ taken' \in [Threads -> Addresses \cup {Null}]
          /\ table' \in [Slots -> Addresses \cup {Null}]
        BY <1>1, <1>5, <2>2 DEF TypeOK, SetParamsTakes, Active, Locked
    <2>5. QED
        BY <1>1, <1>5, <2>3, <2>4 DEF TypeOK, SetParamsTakes
<1>6. CASE SetParamsFrees(t)
    <2>1. live' \subseteq Addresses /\ client' \in [Addresses -> Client \cup {Null}]
        BY <1>1, <1>6 DEF TypeOK, SetParamsFrees, Free
    <2>2. /\ pc' \in [Threads -> Active \cup {"user", "found", "oops"}]
          /\ taken' \in [Threads -> Addresses \cup {Null}]
        BY <1>1, <1>6 DEF TypeOK, SetParamsFrees, Active, Locked
    <2>3. QED
        BY <1>1, <1>6, <2>1, <2>2 DEF TypeOK, SetParamsFrees
<1>7. CASE SetParamsInsert(t)
    <2>1. PICK a \in Allocatable, flags \in ChannelFlags :
             /\ client' = [client EXCEPT ![a] = NewClient(PidOf[t], flags)]
             /\ live' = live \cup {a}
             /\ table' = [table EXCEPT ![idx[t]] = a]
             /\ queue' = [u \in Threads |-> IF queue[u] = a THEN Null ELSE queue[u]]
        BY <1>7 DEF SetParamsInsert
    <2>2. NewClient(PidOf[t], flags) \in Client /\ a \in Addresses
        BY NewClientType DEF Allocatable
    <2>3. flow' \in BOOLEAN
        BY <1>1, <1>7 DEF TypeOK, SetParamsInsert
    <2>4. client' \in [Addresses -> Client \cup {Null}] /\ table' \in [Slots -> Addresses \cup {Null}]
          /\ live' \subseteq Addresses /\ queue' \in [Threads -> Addresses \cup {Null}]
        BY <1>1, <2>1, <2>2 DEF TypeOK
    <2>5. /\ pc' \in [Threads -> Active \cup {"user", "found", "oops"}] /\ io_mutex' = Null
          /\ idx' \in [Threads -> Slots \cup {Null}]
        BY <1>1, <1>7 DEF TypeOK, SetParamsInsert, Active, Locked
    <2>6. QED
        BY <1>1, <1>7, <2>3, <2>4, <2>5 DEF TypeOK, SetParamsInsert
<1>8. CASE GetDataWait(t) \/ GetDataWoken(t)
    <2>1. idx[t] \in Slots /\ Mine(t) \in Addresses
        BY <1>1, <1>8 DEF TypeOK, GetDataWait, GetDataWoken, Slotted, Mine
    <2>2. /\ pc' \in [Threads -> Active \cup {"user", "found", "oops"}]
          /\ queue' \in [Threads -> Addresses \cup {Null}]
        BY <1>1, <1>8, <2>1 DEF TypeOK, GetDataWait, GetDataWoken, Sleep, Active, Locked
    <2>3. UNCHANGED <<heap, callback, exit, ioctl_active_count, io_mutex, idx, taken, twice>>
        BY <1>8 DEF GetDataWait, GetDataWoken
    <2>4. QED
        BY <1>1, <2>2, <2>3 DEF TypeOK
<1>9. CASE GetDataCopy(t) \/ GetDataCheck(t)
    <2>1. client' \in [Addresses -> Client \cup {Null}]
        <3>1. client' = client \/ \E c \in Client : client' = Put(Mine(t), c)
            BY <1>1, <1>9, SeenClient, ClientFacts DEF GetDataCopy, GetDataCheck
        <3>2. QED
            BY <1>1, <3>1, PutFacts DEF TypeOK
    <2>2. /\ pc' \in [Threads -> Active \cup {"user", "found", "oops"}]
          /\ idx' \in [Threads -> Slots \cup {Null}] /\ io_mutex' \in Threads \cup {Null}
        BY <1>1, <1>9 DEF TypeOK, GetDataCopy, GetDataCheck, Active, Locked
    <2>3. UNCHANGED <<table, live, callback, exit, ioctl_active_count, queue, taken, twice>>
        BY <1>9 DEF GetDataCopy, GetDataCheck
    <2>4. QED
        BY <1>1, <2>1, <2>2, <2>3 DEF TypeOK
<1>10. QED
    BY <1>2, <1>3, <1>4, <1>5, <1>6, <1>7, <1>8, <1>9 DEF Ioctl

LEMMA TypesOfDevice ==
    ASSUME TableInv, DeviceStep, (ioctl_active_count \in 0 .. Cardinality(Threads))'
    PROVE  TypeOK'
<1>1. TypeOK /\ Allocated /\ 0 \in Slots /\ Slots \subseteq Nat
    BY SlotFacts DEF TableInv, Calling
<1>2. /\ UNCHANGED <<idx, io_mutex, taken>>
      /\ pc' \in [Threads -> Active \cup {"user", "found", "oops"}]
      /\ queue' \in [Threads -> Addresses \cup {Null}]
    BY <1>1, DeviceMoves DEF Places
<1> USE DEF heap, callback, exit, threads
<1>3. CASE CallbackWarn \/ CallbackStore
    <2>1. cb' \in {"idle", "fetch"} /\ cb_slot' \in Slots /\ cb_client' = Null /\ lost' = FALSE
        BY <1>1, <1>3, NextSlotType DEF CallbackWarn, CallbackStore
    <2>2. client' \in [Addresses -> Client \cup {Null}]
        <3>1. client' = client \/ \E c \in Client : client' = Put(cb_client, c)
            BY <1>1, <1>3, SeenClient, ClientFacts DEF CallbackWarn, CallbackStore
        <3>2. QED
            BY <1>1, <3>1, PutFacts DEF TypeOK
    <2>3. UNCHANGED <<flow, table, live, exit, twice>>
        BY <1>3 DEF CallbackWarn, CallbackStore
    <2>4. QED
        BY <1>1, <1>2, <2>1, <2>2, <2>3 DEF TypeOK
<1>4. CASE CallbackJudge
    <2>1. client' \in [Addresses -> Client \cup {Null}]
        <3>1. client' = client \/ \E c \in Client : client' = Put(cb_client, c)
            BY <1>1, <1>4, SeenClient, ClientFacts DEF CallbackJudge
        <3>2. QED
            BY <1>1, <3>1, PutFacts DEF TypeOK
    <2>2. cb' \in {"store", "clear"} /\ twice' \in BOOLEAN
        BY <1>1, <1>4 DEF CallbackJudge, TypeOK
    <2>3. UNCHANGED <<table, live, flow, cb_slot, cb_client, lost, exit>>
        BY <1>4 DEF CallbackJudge
    <2>4. QED
        BY <1>1, <1>2, <2>1, <2>2, <2>3 DEF TypeOK
<1>5. CASE CallbackFetch \/ CallbackSkips
    <2>1. /\ cb' \in {"idle", "fetch", "judge"}
          /\ cb_slot' \in Slots
          /\ cb_client' \in Addresses \cup {Null}
          /\ lost' \in BOOLEAN
        BY <1>1, <1>5, NextSlotType DEF TypeOK, CallbackFetch, CallbackSkips
    <2>2. UNCHANGED <<flow, heap, exit, twice>>
        BY <1>5 DEF CallbackFetch, CallbackSkips
    <2>3. QED
        BY <1>1, <1>2, <2>1, <2>2 DEF TypeOK
<1>6. CASE CallbackData \/ CallbackClear \/ CallbackGivesUp \/ CallbackOverrun \/ FlowStops
           \/ Disconnect \/ DisconnectAgain \/ UNCHANGED vars
    BY <1>1, <1>2, <1>6
    DEF TypeOK, CallbackData, CallbackClear, Cleared, CallbackGivesUp, CallbackOverrun, FlowStops, Disconnect,
        DisconnectAgain, vars
<1>7. CASE CallbackFree
    BY <1>1, <1>2, <1>7 DEF TypeOK, CallbackFree, Free
<1>8. CASE Delete
    <2>1. teardown_slot' \in Slots
        <3>1. teardown_slot \in 0 .. MAX_CLIENTS - 1 /\ MAX_CLIENTS \in Nat \ {0}
            BY TableAssumption DEF TypeOK, TableInv, Slots
        <3>2. teardown_slot + 1 # MAX_CLIENTS => teardown_slot + 1 \in Slots
            BY <3>1 DEF Slots
        <3>3. QED
            BY <1>1, <1>8, <3>2
            DEF TypeOK, Delete, DisconnectLocks, DeleteExits, DeleteWakes, DeleteFrees
    <2>2. QED
        BY <1>1, <1>2, <1>8, <2>1
        DEF TypeOK, Delete, DisconnectLocks, DeleteExits, DeleteWakes, DeleteFrees
<1>9. QED
    BY <1>3, <1>4, <1>5, <1>6, <1>7, <1>8 DEF DeviceStep, Callback

LEMMA TypesKept ==
    ASSUME TableInv, [Next]_vars
    PROVE  TypeOK'
<1>1. (ioctl_active_count \in 0 .. Cardinality(Threads))'
    <2>1. CallsCounted'
        BY CountKept
    <2>2. (CallsCounted => ioctl_active_count \in 0 .. Cardinality(Threads))'
        BY CountInRange, PTL
    <2>3. QED
        BY <2>1, <2>2
<1>2. QED
    BY <1>1, TypesOfIoctl, TypesOfDevice DEF Next, DeviceStep

-----------------------------------------------------------------------------
(* Calling.                                                                *)

(* Where a thread that is not moved may find itself.                       *)
LEMMA OthersStay ==
    ASSUME TypeOK, NEW t \in Threads, NEW place, pc' = [pc EXCEPT ![t] = place],
           NEW u \in Threads
    PROVE  pc'[u] = IF u = t THEN place ELSE pc[u]
BY DEF TypeOK

LEMMA SlottedKept ==
    ASSUME TableInv, NEW t \in Threads, IoctlFindsDevice(t) \/ Ioctl(t)
    PROVE  Slotted'
<1>1. TypeOK /\ Slotted
    BY DEF TableInv, Calling
<1> USE DEF Goto, Leave, Forget
<1>2. CASE GetDataUnlocks(t)
    BY <1>1, <1>2 DEF TypeOK, Slotted, GetDataUnlocks
<1>3. CASE SetParamsNew(t)
    BY <1>1, <1>3 DEF TypeOK, Slotted, SetParamsNew
<1>4. CASE SetParamsTakes(t) \/ SetParamsFrees(t)
    BY <1>1, <1>4 DEF TypeOK, Slotted, SetParamsTakes, SetParamsFrees
<1>5. CASE GetDataRelock(t) \/ GetDataCopy(t)
    BY <1>1, <1>5 DEF TypeOK, Slotted, GetDataRelock, GetDataCopy
<1>6. CASE GetDataWait(t) \/ GetDataWoken(t)
    <2>1. idx[t] \in Slots /\ idx' = idx
        BY <1>1, <1>6 DEF Slotted, GetDataWait, GetDataWoken
    <2>2. \E place : pc' = [pc EXCEPT ![t] = place]
        BY <1>6 DEF GetDataWait, GetDataWoken, Sleep
    <2>3. QED
        BY <1>1, <2>1, <2>2, OthersStay DEF Slotted
<1>7. CASE GetDataStays(t) \/ GetDataExits(t)
    BY <1>1, <1>7 DEF TypeOK, Slotted, GetDataStays, GetDataExits
<1>8. CASE IoctlFindsDevice(t) \/ IoctlCounted(t) \/ IoctlLeaves(t)
    BY <1>1, <1>8 DEF TypeOK, Slotted, IoctlFindsDevice, IoctlCounted, IoctlLeaves
<1>9. CASE IoctlLooksUp(t)
    <2>1. \E i : idx' = [idx EXCEPT ![t] = i]
        BY <1>9 DEF IoctlLooksUp
    <2>2. \A u \in Threads : u # t => idx'[u] = idx[u]
        BY <1>1, <2>1 DEF TypeOK
    <2>3. pc'[t] \in {"set", "get"} /\ \A u \in Threads : u # t => pc'[u] = pc[u]
        BY <1>1, <1>9 DEF TypeOK, IoctlLooksUp
    <2>4. QED
        BY <1>1, <2>2, <2>3 DEF Slotted
<1>10. CASE SetParamsInsert(t) \/ SetParamsFails(t)
    BY <1>1, <1>10 DEF TypeOK, Slotted, SetParamsInsert, SetParamsFails
<1>11. CASE GetDataFails(t) \/ GetDataCheck(t) \/ IoctlFaults(t)
    BY <1>1, <1>11 DEF TypeOK, Slotted, GetDataFails, GetDataCheck, IoctlFaults
<1>12. QED
    BY <1>2, <1>3, <1>4, <1>5, <1>6, <1>7, <1>8, <1>9, <1>10, <1>11 DEF Ioctl

LEMMA ExclusiveKept ==
    ASSUME TableInv, NEW t \in Threads, IoctlFindsDevice(t) \/ Ioctl(t)
    PROVE  Exclusive'
<1>1. TypeOK /\ Exclusive /\ Null \notin Threads
    BY TableAssumption DEF TableInv, Calling
<1> USE DEF Goto, Leave, Forget
<1>2. ASSUME UNCHANGED io_mutex, NEW place, pc' = [pc EXCEPT ![t] = place],
             place \in Locked => pc[t] \in Locked
      PROVE  Exclusive'
    BY <1>1, <1>2, OthersStay DEF Exclusive
<1>3. ASSUME io_mutex' = Null, NEW place, pc' = [pc EXCEPT ![t] = place],
             place \notin Locked, pc[t] \in Locked
      PROVE  Exclusive'
    <2>1. ASSUME NEW u \in Threads, pc'[u] \in Locked
          PROVE  FALSE
        <3>1. pc'[u] = IF u = t THEN place ELSE pc[u]
            BY <1>1, <1>3, OthersStay
        <3>2. u # t /\ pc[u] \in Locked
            BY <1>3, <2>1, <3>1
        <3>3. QED
            BY <1>1, <1>3, <3>2 DEF Exclusive
    <2>2. QED
        BY <2>1 DEF Exclusive
<1>4. ASSUME io_mutex = Null, io_mutex' = t, NEW place, pc' = [pc EXCEPT ![t] = place]
      PROVE  Exclusive'
    BY <1>1, <1>4, OthersStay DEF Exclusive
<1>5. CASE \/ IoctlFindsDevice(t) \/ IoctlCounted(t) \/ IoctlLeaves(t) \/ GetDataWait(t)
           \/ GetDataWoken(t) \/ GetDataStays(t) \/ GetDataExits(t) \/ IoctlFaults(t)
           \/ SetParamsNew(t) \/ SetParamsTakes(t) \/ SetParamsFrees(t)
    <2>1. io_mutex' = io_mutex
        BY <1>5 DEF IoctlFindsDevice, IoctlCounted, IoctlLeaves, GetDataWait, GetDataWoken, GetDataStays,
           GetDataExits, IoctlFaults, SetParamsNew, SetParamsTakes, SetParamsFrees
    <2>2. \E place : pc' = [pc EXCEPT ![t] = place] /\ (place \in Locked => pc[t] \in Locked)
        BY <1>5 DEF IoctlFindsDevice, IoctlCounted, IoctlLeaves, GetDataWait, GetDataWoken, GetDataStays,
           GetDataExits, IoctlFaults, SetParamsNew, SetParamsTakes, SetParamsFrees, Sleep, Locked
    <2>3. QED
        BY <1>2, <2>1, <2>2
<1>6. CASE SetParamsInsert(t) \/ SetParamsFails(t) \/ GetDataFails(t) \/ GetDataUnlocks(t) \/ GetDataCheck(t)
    <2>1. io_mutex' = Null /\ pc[t] \in Locked
        BY <1>6 DEF SetParamsInsert, SetParamsFails, GetDataFails, GetDataUnlocks, GetDataCheck, Locked
    <2>2. pc' = [pc EXCEPT ![t] = "leave"] \/ pc' = [pc EXCEPT ![t] = "unlocked"]
        BY <1>6 DEF SetParamsInsert, SetParamsFails, GetDataFails, GetDataUnlocks, GetDataCheck
    <2>3. "leave" \notin Locked /\ "unlocked" \notin Locked
        BY DEF Locked
    <2>4. QED
        BY <1>3, <2>1, <2>2, <2>3
<1>7. CASE GetDataCopy(t)
    <2>1. /\ pc[t] = "copy"
          /\ \/ io_mutex' = Null /\ pc' = [pc EXCEPT ![t] = "leave"]
             \/ io_mutex' = io_mutex /\ pc' = [pc EXCEPT ![t] = "check"]
        BY <1>7 DEF GetDataCopy
    <2>2. "leave" \notin Locked /\ "copy" \in Locked
        BY DEF Locked
    <2>3. QED
        BY <1>2, <1>3, <2>1, <2>2
<1>8. CASE IoctlLooksUp(t) \/ GetDataRelock(t)
    <2>1. io_mutex = Null /\ io_mutex' = t
        BY <1>8 DEF IoctlLooksUp, GetDataRelock, MutexFree
    <2>2. \E place : pc' = [pc EXCEPT ![t] = place]
        BY <1>8 DEF IoctlLooksUp, GetDataRelock
    <2>3. QED
        BY <1>4, <2>1, <2>2
<1>9. QED
    BY <1>5, <1>6, <1>7, <1>8 DEF Ioctl

(* What the step of a call leaves to the handler and the deletion.         *)
LEMMA IoctlAlone ==
    ASSUME NEW t \in Threads, IoctlFindsDevice(t) \/ Ioctl(t)
    PROVE  UNCHANGED <<cb, cb_slot, cb_client, exit>>
BY DEF IoctlFindsDevice, Ioctl, IoctlCounted, IoctlLooksUp, IoctlLeaves, SetParamsNew, SetParamsTakes,
   SetParamsFrees, SetParamsInsert, SetParamsFails, GetDataFails, GetDataUnlocks, GetDataWait, GetDataWoken,
   GetDataStays, GetDataExits, GetDataRelock, GetDataCopy, GetDataCheck, IoctlFaults, callback

(* The steps of a call that leave the memory alone.                        *)
HeapLeft(t) ==
    \/ IoctlFindsDevice(t) \/ IoctlCounted(t) \/ IoctlLooksUp(t) \/ IoctlLeaves(t)
    \/ SetParamsNew(t) \/ SetParamsFails(t) \/ GetDataFails(t) \/ GetDataUnlocks(t)
    \/ GetDataWait(t) \/ GetDataWoken(t) \/ GetDataExits(t) \/ GetDataStays(t)
    \/ GetDataRelock(t) \/ IoctlFaults(t)

LEMMA HeapLeftFacts ==
    ASSUME NEW t \in Threads, HeapLeft(t)
    PROVE  UNCHANGED <<heap, taken, lost, twice>>
BY DEF HeapLeft, IoctlFindsDevice, IoctlCounted, IoctlLooksUp, IoctlLeaves, SetParamsNew, SetParamsFails,
   GetDataFails, GetDataUnlocks, GetDataWait, GetDataWoken, GetDataExits, GetDataStays, GetDataRelock,
   IoctlFaults, callback

LEMMA IoctlCases ==
    ASSUME NEW t \in Threads, IoctlFindsDevice(t) \/ Ioctl(t)
    PROVE  \/ HeapLeft(t) \/ SetParamsTakes(t) \/ SetParamsFrees(t) \/ SetParamsInsert(t)
           \/ GetDataCopy(t) \/ GetDataCheck(t)
BY DEF Ioctl, HeapLeft

LEMMA EmptyHandedKept ==
    ASSUME TableInv, NEW t \in Threads, IoctlFindsDevice(t) \/ Ioctl(t)
    PROVE  EmptyHanded'
<1>1. TypeOK /\ EmptyHanded
    BY DEF TableInv, Calling
<1>2. CASE SetParamsTakes(t) \/ SetParamsFrees(t)
    BY <1>1, <1>2 DEF TypeOK, EmptyHanded, SetParamsTakes, SetParamsFrees, Goto
<1>3. CASE HeapLeft(t) \/ SetParamsInsert(t) \/ GetDataCopy(t) \/ GetDataCheck(t)
    <2>1. pc[t] # "taken" /\ taken' = taken
        BY <1>3, HeapLeftFacts
        DEF HeapLeft, IoctlFindsDevice, IoctlCounted, IoctlLooksUp, IoctlLeaves, SetParamsNew, SetParamsFails,
            GetDataFails, GetDataUnlocks, GetDataWait, GetDataWoken, GetDataExits, GetDataStays, GetDataRelock,
            IoctlFaults, SetParamsInsert, GetDataCopy, GetDataCheck
    <2>2. \E place : pc' = [pc EXCEPT ![t] = place]
        BY <1>3
        DEF HeapLeft, IoctlFindsDevice, IoctlCounted, IoctlLooksUp, IoctlLeaves, SetParamsNew, SetParamsFails,
            GetDataFails, GetDataUnlocks, GetDataWait, GetDataWoken, GetDataExits, GetDataStays, GetDataRelock,
            IoctlFaults, SetParamsInsert, GetDataCopy, GetDataCheck, Goto, Leave, Sleep
    <2>3. QED
        BY <1>1, <2>1, <2>2, OthersStay DEF EmptyHanded
<1>4. QED
    BY <1>2, <1>3, IoctlCases

LEMMA AllocatedKept ==
    ASSUME TableInv, [Next]_vars
    PROVE  Allocated'
<1>1. TypeOK /\ Allocated
    BY DEF TableInv, Calling
<1>2. CASE UNCHANGED <<live, client>>
    BY <1>1, <1>2 DEF Allocated
<1>3. ASSUME NEW a, Free(a)
      PROVE  Allocated'
    BY <1>1, <1>3 DEF TypeOK, Allocated, Free
<1>4. ASSUME NEW a, NEW c \in Client, client' = Put(a, c), UNCHANGED live
      PROVE  Allocated'
    BY <1>1, <1>4, PutFacts DEF Allocated
<1>5. ASSUME NEW t \in Threads, SetParamsInsert(t)
      PROVE  Allocated'
    BY <1>1, <1>5, NewClientType DEF TypeOK, Allocated, SetParamsInsert, Allocatable
<1>6. ASSUME NEW t \in Threads, GetDataCopy(t) \/ GetDataCheck(t)
      PROVE  Allocated'
    <2>1. UNCHANGED <<live, client>> \/ (UNCHANGED live /\ \E c \in Client : client' = Put(Mine(t), c))
        BY <1>1, <1>6, SeenClient, ClientFacts DEF GetDataCopy, GetDataCheck
    <2>2. QED
        BY <1>2, <1>4, <2>1
<1>7. ASSUME NEW t \in Threads, IoctlFindsDevice(t) \/ Ioctl(t)
      PROVE  Allocated'
    <2>1. CASE HeapLeft(t) \/ SetParamsTakes(t) \/ SetParamsFrees(t)
        BY <1>2, <1>3, <2>1, HeapLeftFacts DEF heap, SetParamsTakes, SetParamsFrees
    <2>2. QED
        BY <1>5, <1>6, <1>7, <2>1, IoctlCases
<1>8. CASE CallbackWarn \/ CallbackStore \/ CallbackJudge
    <2>1. UNCHANGED <<live, client>> \/ (UNCHANGED live /\ \E c \in Client : client' = Put(cb_client, c))
        BY <1>1, <1>8, SeenClient, ClientFacts DEF CallbackWarn, CallbackStore, CallbackJudge
    <2>2. QED
        BY <1>2, <1>4, <2>1
<1>9. CASE DeleteFrees
    BY <1>1, <1>9 DEF Allocated, TypeOK, DeleteFrees
<1>10. CASE DeviceStep /\ ~(CallbackWarn \/ CallbackStore \/ CallbackJudge \/ DeleteFrees)
    <2>1. UNCHANGED <<live, client>> \/ Free(cb_client)
        BY <1>10 DEF DeviceStep, Callback, CallbackData, CallbackFetch, CallbackSkips, CallbackClear,
           CallbackFree, CallbackGivesUp, CallbackOverrun, FlowStops, Disconnect, DisconnectAgain, Delete,
           DisconnectLocks, DeleteExits, DeleteWakes, heap, vars
    <2>2. QED
        BY <1>2, <1>3, <2>1
<1>11. QED
    BY <1>7, <1>8, <1>9, <1>10 DEF Next, DeviceStep

LEMMA CallingKept ==
    ASSUME TableInv, [Next]_vars
    PROVE  Calling'
<1>1. TypeOK /\ Slotted /\ Exclusive /\ EmptyHanded /\ Holding /\ HandlerDone
    BY DEF TableInv, Calling
<1>2. Allocated'
    BY AllocatedKept
<1>3. ASSUME NEW t \in Threads, IoctlFindsDevice(t) \/ Ioctl(t)
      PROVE  Calling'
    <2>1. Slotted' /\ Exclusive' /\ EmptyHanded'
        BY <1>3, SlottedKept, ExclusiveKept, EmptyHandedKept
    <2>2. Holding' /\ HandlerDone'
        BY <1>1, <1>3, IoctlAlone DEF Holding, HandlerDone, exit
    <2>3. QED
        BY <1>2, <2>1, <2>2 DEF Calling
<1>4. CASE DeviceStep
    <2>1. /\ UNCHANGED <<idx, io_mutex, taken>>
          /\ \A u \in Threads : pc'[u] = pc[u] \/ (pc[u] = "asleep" /\ pc'[u] = "woken")
        BY <1>1, <1>4, DeviceMoves
    <2>2. Slotted' /\ Exclusive' /\ EmptyHanded'
        BY <1>1, <2>1 DEF Slotted, Exclusive, EmptyHanded, Locked
    <2>3. Holding'
        BY <1>1, <1>4 DEF Holding, TypeOK, DeviceStep, Callback, CallbackData, CallbackFetch, CallbackJudge,
           CallbackSkips, CallbackClear, CallbackFree, CallbackWarn, CallbackStore, CallbackGivesUp, NextSlot,
           CallbackOverrun, FlowStops, Disconnect, DisconnectAgain, Delete, DisconnectLocks, DeleteExits,
           DeleteWakes, DeleteFrees, callback, vars
    <2>4. HandlerDone'
        BY <1>1, <1>4 DEF HandlerDone, DeviceStep, Callback, CallbackData, CallbackFetch, CallbackJudge,
           CallbackSkips, CallbackClear, CallbackFree, CallbackWarn, CallbackStore, CallbackGivesUp, NextSlot,
           CallbackOverrun, FlowStops, Disconnect, DisconnectAgain, Delete, DisconnectLocks, DeleteExits,
           DeleteWakes, DeleteFrees, callback, exit, vars
    <2>5. QED
        BY <1>2, <2>2, <2>3, <2>4 DEF Calling
<1>5. QED
    BY <1>3, <1>4 DEF Next, DeviceStep

-----------------------------------------------------------------------------
(* Orderly, as long as no client has been removed twice.                   *)

LEMMA TwiceStays ==
    ASSUME [Next]_vars, ~twice'
    PROVE  ~twice
<1>1. ASSUME NEW t \in Threads, IoctlFindsDevice(t) \/ Ioctl(t)
      PROVE  ~twice
    <2>1. CASE HeapLeft(t)
        BY <2>1, HeapLeftFacts
    <2>2. CASE ~HeapLeft(t)
        BY <1>1, <2>2, IoctlCases DEF SetParamsTakes, SetParamsFrees, SetParamsInsert, GetDataCopy, GetDataCheck
    <2>3. QED
        BY <2>1, <2>2
<1>2. CASE DeviceStep
    BY <1>2 DEF DeviceStep, Callback, CallbackData, CallbackFetch, CallbackJudge, CallbackSkips,
       CallbackClear, CallbackFree, CallbackWarn, CallbackStore, CallbackGivesUp, CallbackOverrun, FlowStops,
       Disconnect, DisconnectAgain, Delete, DisconnectLocks, DeleteExits, DeleteWakes, DeleteFrees, vars
<1>3. QED
    BY <1>1, <1>2 DEF Next, DeviceStep

Sound == TableInv /\ Orderly /\ ~twice /\ ~twice'

LEMMA SoundFacts ==
    ASSUME Sound
    PROVE  /\ live \subseteq Addresses /\ client \in [Addresses -> Client \cup {Null}]
           /\ table \in [Slots -> Addresses \cup {Null}] /\ Null \notin Addresses
           /\ \A i \in Slots : table[i] # Null => table[i] \in live
           /\ \A i, j \in Slots : i # j /\ table[i] # Null => table[i] # table[j]
           /\ Dangling = {}
<1>1. TypeOK /\ TableIsSound /\ ~twice
    BY DEF Sound, TableInv, Orderly
<1>2. \A i \in Slots : table[i] # Null => table[i] \in live
    BY <1>1 DEF TableIsSound
<1>3. \A i, j \in Slots : i # j /\ table[i] # Null => table[i] # table[j]
    BY <1>1 DEF TableIsSound
<1>4. Dangling = {}
    BY <1>2 DEF Dangling
<1>5. QED
    BY <1>1, <1>2, <1>3, <1>4, TableAssumption DEF TypeOK

(* What a step may do to the memory.                                       *)
LEMMA HeapUnchanged ==
    ASSUME Sound, UNCHANGED heap
    PROVE  TableIsSound' /\ (\A p : SlotsOf(p)' = SlotsOf(p)) /\ UNCHANGED <<table, live, client>>
BY DEF heap, Sound, TableInv, Orderly, TableIsSound, SlotsOf

LEMMA ClientChanges ==
    ASSUME Sound, NEW a, NEW c \in Client,
           a \in live => c.pid = client[a].pid,
           client' = Put(a, c),
           UNCHANGED <<table, live>>
    PROVE  TableIsSound' /\ \A p : SlotsOf(p)' = SlotsOf(p)
<1>1. TypeOK /\ TableIsSound /\ ~twice
    BY DEF Sound, TableInv, Orderly
<1>2. \A b \in live : client'[b].pid = client[b].pid
    BY <1>1, PutFacts
<1>3. TableIsSound'
    BY <1>1, <1>2 DEF TableIsSound
<1>4. \A p : SlotsOf(p)' = SlotsOf(p)
    BY <1>2, SoundFacts DEF SlotsOf
<1>5. QED
    BY <1>3, <1>4

LEMMA SlotEmptied ==
    ASSUME Sound, NEW i \in Slots,
           table' = [table EXCEPT ![i] = Null], UNCHANGED <<live, client>>
    PROVE  /\ TableIsSound'
           /\ \A p : SlotsOf(p)' = SlotsOf(p) \ {i}
           /\ table'[i] = Null /\ \A j \in Slots \ {i} : table'[j] = table[j]
<1>1. TypeOK /\ TableIsSound /\ ~twice
    BY DEF Sound, TableInv, Orderly
<1>2. table'[i] = Null /\ \A j \in Slots \ {i} : table'[j] = table[j]
    BY SoundFacts
<1>3. TableIsSound'
    BY <1>1, <1>2 DEF TableIsSound
<1>4. \A p : SlotsOf(p)' = SlotsOf(p) \ {i}
    BY <1>2, SoundFacts DEF SlotsOf
<1>5. QED
    BY <1>2, <1>3, <1>4

LEMMA AddressFreed ==
    ASSUME Sound, NEW a, Free(a), UNCHANGED table, \A i \in Slots : table[i] # a
    PROVE  TableIsSound' /\ (\A p : SlotsOf(p)' = SlotsOf(p)) /\ live' = live \ {a}
<1>1. TypeOK /\ TableIsSound /\ ~twice
    BY DEF Sound, TableInv, Orderly
<1>2. live' = live \ {a} /\ \A b \in live' : client'[b] = client[b]
    BY SoundFacts DEF Free
<1>3. \A i \in Slots : table[i] # Null => table[i] \in live'
    BY <1>2, SoundFacts
<1>4. TableIsSound'
    BY <1>1, <1>2, <1>3 DEF TableIsSound
<1>5. \A p : SlotsOf(p)' = SlotsOf(p)
    BY <1>2, <1>3, SoundFacts DEF SlotsOf
<1>6. QED
    BY <1>2, <1>4, <1>5

(* What SET_PARAMS has found out survives the emptying of slots.           *)
LEMMA LookedUpStays ==
    ASSUME Sound,
           \A u \in Threads : pc'[u] \in {"set", "taken", "insert"} => pc'[u] = pc[u] /\ idx'[u] = idx[u],
           \A p : SlotsOf(p)' \subseteq SlotsOf(p),
           \A i \in Slots : table[i] = Null => table'[i] = Null
    PROVE  LookedUp'
<1>1. LookedUp /\ \A u \in Threads : pc[u] \in {"taken", "insert"} => idx[u] \in Slots
    BY DEF Sound, Orderly, TableInv, Calling, Slotted
<1>2. ASSUME NEW u \in Threads, pc'[u] = "set"
      PROVE  SlotsOf(PidOf[u])' \subseteq {idx'[u]}
    BY <1>1, <1>2 DEF LookedUp
<1>3. ASSUME NEW u \in Threads, pc'[u] \in {"taken", "insert"}
      PROVE  table'[idx'[u]] = Null /\ SlotsOf(PidOf[u])' = {}
    <2>1. pc[u] \in {"taken", "insert"} /\ idx'[u] = idx[u] /\ idx[u] \in Slots
        BY <1>1, <1>3
    <2>2. table[idx[u]] = Null /\ SlotsOf(PidOf[u]) = {}
        BY <1>1, <2>1 DEF LookedUp
    <2>3. QED
        BY <2>1, <2>2
<1>4. QED
    BY <1>2, <1>3 DEF LookedUp

(* Nobody else is where io_mutex is held.                                  *)
LEMMA Alone ==
    ASSUME TableInv, NEW t \in Threads, pc[t] \in Locked, NEW u \in Threads, u # t
    PROVE  pc[u] \notin Locked
BY DEF TableInv, Calling, Exclusive

LEMMA OrderlyKeptByDevice ==
    ASSUME Sound, DeviceStep
    PROVE  Orderly'
<1>1. TypeOK /\ HandlerHolds /\ TakenIsGone /\ Holding /\ HandlerDone
    BY DEF Sound, TableInv, Calling, Orderly
<1>2. /\ UNCHANGED <<idx, taken>>
      /\ \A u \in Threads : pc'[u] \in {"set", "taken", "insert"} => pc'[u] = pc[u]
    BY <1>1, DeviceMoves
<1>3. ASSUME TableIsSound', HandlerHolds', UNCHANGED <<table, live>>, \A p : SlotsOf(p)' = SlotsOf(p)
      PROVE  Orderly'
    <2>1. LookedUp'
        BY <1>2, <1>3, LookedUpStays
    <2>2. TakenIsGone'
        BY <1>1, <1>2, <1>3 DEF TakenIsGone
    <2>3. QED
        BY <1>3, <2>1, <2>2 DEF Orderly
<1>4. CASE \/ CallbackData \/ CallbackFetch \/ CallbackSkips \/ CallbackGivesUp \/ CallbackOverrun
           \/ FlowStops \/ Disconnect \/ DisconnectAgain \/ DisconnectLocks \/ DeleteExits \/ DeleteWakes
           \/ UNCHANGED vars
    <2>1. UNCHANGED heap
        BY <1>4 DEF CallbackData, CallbackFetch, CallbackSkips, CallbackGivesUp, CallbackOverrun, FlowStops,
           Disconnect, DisconnectAgain, DisconnectLocks, DeleteExits, DeleteWakes, vars
    <2>2. UNCHANGED <<table, live>>
        BY <2>1 DEF heap
    <2>3. \/ UNCHANGED <<cb, cb_slot, cb_client, lost>>
          \/ cb' = "judge" /\ cb_client' = table[cb_slot] /\ cb_slot' = cb_slot
          \/ cb' \in {"idle", "fetch"}
        BY <1>4 DEF CallbackData, CallbackFetch, CallbackSkips, CallbackGivesUp, NextSlot, CallbackOverrun,
           FlowStops, Disconnect, DisconnectAgain, DisconnectLocks, DeleteExits, DeleteWakes, callback, vars
    <2>4. HandlerHolds'
        BY <1>1, <1>2, <2>2, <2>3 DEF HandlerHolds
    <2>5. QED
        BY <1>3, <2>1, <2>2, <2>4, HeapUnchanged
<1>5. CASE CallbackJudge \/ CallbackWarn \/ CallbackStore
    <2>1. UNCHANGED <<table, live>>
        BY <1>5 DEF CallbackJudge, CallbackWarn, CallbackStore
    <2>2. \/ client' = client
          \/ \E c \in Client : (cb_client \in live => c.pid = client[cb_client].pid) /\ client' = Put(cb_client, c)
        <3>1. Seen(cb_client) \subseteq Client
            BY SeenClient DEF Sound, TableInv, Calling
        <3>2. \A c \in Seen(cb_client) : cb_client \in live => c = client[cb_client]
            BY DEF Seen
        <3>3. \A c \in Client : /\ [c EXCEPT !.warning = TRUE].pid = c.pid
                                /\ [c EXCEPT !.full = @ + 1].pid = c.pid
                                /\ [c EXCEPT !.loops_after_warn_count = Counted(@)].pid = c.pid
            BY DEF Client
        <3>4. CASE CallbackWarn
            <4>1. PICK c \in Seen(cb_client) : client' = Put(cb_client, [c EXCEPT !.warning = TRUE])
                BY <3>4 DEF CallbackWarn
            <4>2. QED
                BY <3>1, <3>2, <3>3, <4>1, ClientFacts
        <3>5. CASE CallbackStore
            <4>1. PICK c \in Seen(cb_client) : /\ c.full < 2
                                               /\ \/ client' = client
                                                  \/ client' = Put(cb_client, [c EXCEPT !.full = @ + 1])
                BY <3>5 DEF CallbackStore
            <4>2. QED
                BY <3>1, <3>2, <3>3, <4>1, ClientFacts
        <3>6. CASE CallbackJudge
            <4>1. PICK c \in Seen(cb_client) :
                     \/ client' = client
                     \/ /\ c.loops_after_warn_count < WaitLoops
                        /\ client' = Put(cb_client, [c EXCEPT !.loops_after_warn_count = Counted(@)])
                BY <3>6 DEF CallbackJudge
            <4>2. QED
                BY <3>1, <3>2, <3>3, <4>1, ClientFacts
        <3>7. QED
            BY <1>5, <3>4, <3>5, <3>6
    <2>3. TableIsSound' /\ \A p : SlotsOf(p)' = SlotsOf(p)
        <3>1. CASE client' = client
            BY <2>1, <3>1, HeapUnchanged DEF heap
        <3>2. QED
            BY <2>1, <2>2, <3>1, ClientChanges
    <2>4. HandlerHolds'
        <3>1. \/ cb' \in {"idle", "fetch", "store"}
              \/ CallbackJudge /\ cb' = "clear" /\ cb = "judge" /\ twice' = (twice \/ lost)
            BY <1>5 DEF CallbackJudge, CallbackWarn, CallbackStore, NextSlot
        <3>2. CASE cb' \in {"idle", "fetch", "store"}
            BY <3>2 DEF HandlerHolds
        <3>3. CASE CallbackJudge /\ cb' = "clear" /\ cb = "judge" /\ twice' = (twice \/ lost)
            BY <1>1, <2>1, <3>3 DEF Sound, HandlerHolds, CallbackJudge
        <3>4. QED
            BY <3>1, <3>2, <3>3
    <2>5. QED
        BY <1>3, <2>1, <2>3, <2>4
<1>6. CASE CallbackClear
    <2>1. /\ cb_slot \in Slots /\ table[cb_slot] = cb_client /\ cb_client \in Addresses
          /\ cb' = "free" /\ cb_client' = cb_client
        BY <1>1, <1>6 DEF TypeOK, Holding, HandlerHolds, CallbackClear
    <2>2. cb_client \in live /\ \A j \in Slots : j # cb_slot => table[j] # cb_client
        BY <2>1, SoundFacts
    <2>3. UNCHANGED <<live, client>> /\ table' = [table EXCEPT ![cb_slot] = Null]
        BY <1>6 DEF CallbackClear, Cleared
    <2>4. /\ TableIsSound'
          /\ \A p : SlotsOf(p)' \subseteq SlotsOf(p)
          /\ table'[cb_slot] = Null /\ \A j \in Slots \ {cb_slot} : table'[j] = table[j]
        BY <2>1, <2>3, SlotEmptied
    <2>5. HandlerHolds'
        <3>1. \A t \in Threads : taken[t] # cb_client
            BY <1>1, <2>1, SoundFacts DEF TakenIsGone
        <3>2. \A i \in Slots : table'[i] # cb_client
            BY <2>1, <2>2, <2>4, SoundFacts
        <3>3. QED
            BY <1>2, <2>1, <2>2, <2>3, <3>1, <3>2 DEF HandlerHolds
    <2>6. TakenIsGone'
        BY <1>1, <1>2, <2>3, <2>4 DEF TakenIsGone
    <2>7. LookedUp'
        BY <1>2, <2>4, LookedUpStays
    <2>8. QED
        BY <2>4, <2>5, <2>6, <2>7 DEF Orderly
<1>7. CASE CallbackFree
    <2>1. cb = "free" /\ Free(cb_client) /\ table' = table /\ cb' = "store"
        BY <1>7 DEF CallbackFree
    <2>2. /\ \A i \in Slots : table[i] # cb_client
          /\ \A t \in Threads : taken[t] # cb_client
        BY <1>1, <2>1 DEF HandlerHolds
    <2>3. TableIsSound' /\ (\A p : SlotsOf(p)' = SlotsOf(p)) /\ live' = live \ {cb_client}
        BY <2>1, <2>2, AddressFreed
    <2>4. HandlerHolds' /\ TakenIsGone'
        BY <1>1, <1>2, <2>1, <2>2, <2>3 DEF HandlerHolds, TakenIsGone
    <2>5. LookedUp'
        BY <1>2, <2>1, <2>3, LookedUpStays
    <2>6. QED
        BY <2>3, <2>4, <2>5 DEF Orderly
<1>8. CASE DeleteFrees
    <2>1. \A i \in Slots : table'[i] = Null
        BY <1>8 DEF DeleteFrees
    <2>2. TableIsSound' /\ \A p : SlotsOf(p)' = {}
        BY <2>1, SoundFacts, <1>8, SlotFacts DEF TableIsSound, SlotsOf, DeleteFrees
    <2>3. HandlerHolds'
        BY <1>1, <1>8 DEF HandlerHolds, HandlerDone, DeleteFrees, callback
    <2>4. TakenIsGone'
        <3>1. ASSUME NEW t \in Threads, taken[t] # Null
              PROVE  taken[t] \in live' /\ \A i \in Slots : table'[i] # taken[t]
            <4>1. taken[t] \in live /\ \A i \in Slots : table[i] # taken[t]
                BY <1>1, <3>1 DEF TakenIsGone
            <4>2. QED
                BY <1>8, <2>1, <3>1, <4>1 DEF DeleteFrees
        <3>2. QED
            BY <1>2, <3>1 DEF TakenIsGone
    <2>5. LookedUp'
        BY <1>2, <2>1, <2>2, LookedUpStays
    <2>6. QED
        BY <2>2, <2>3, <2>4, <2>5 DEF Orderly
<1>9. QED
    BY <1>4, <1>5, <1>6, <1>7, <1>8 DEF DeviceStep, Callback, Delete

(* What the handler holds, when a call changes a slot or frees a client.   *)
LEMMA HandlerLeft ==
    ASSUME HandlerHolds, UNCHANGED <<cb, cb_slot, cb_client>>, lost => lost',
           cb = "judge" /\ ~lost' => table'[cb_slot] = table[cb_slot],
           cb = "clear" => table'[cb_slot] = table[cb_slot],
           cb = "free" => /\ cb_client \in live'
                          /\ \A i \in Slots : table'[i] # cb_client
                          /\ \A t \in Threads : taken'[t] # cb_client
    PROVE  HandlerHolds'
BY DEF HandlerHolds

LEMMA OrderlyKeptByIoctl ==
    ASSUME Sound, NEW t \in Threads, IoctlFindsDevice(t) \/ Ioctl(t)
    PROVE  Orderly'
<1>1. TypeOK /\ HandlerHolds /\ TakenIsGone /\ LookedUp /\ EmptyHanded /\ Slotted /\ TableInv
    BY DEF Sound, TableInv, Calling, Orderly
<1>2. /\ pc \in [Threads -> Places] /\ idx \in [Threads -> Slots \cup {Null}]
      /\ taken \in [Threads -> Addresses \cup {Null}]
      /\ Null \notin Slots /\ Null \notin Addresses
    BY <1>1, PlacesTyped, TableAssumption DEF TypeOK
<1>3. UNCHANGED <<cb, cb_slot, cb_client>>
    BY IoctlAlone
<1> USE DEF Goto, Leave, Forget
<1>4. ASSUME UNCHANGED <<table, live, taken, lost>>
      PROVE  HandlerHolds' /\ TakenIsGone'
    BY <1>1, <1>3, <1>4 DEF HandlerHolds, TakenIsGone
<1>5. ASSUME pc[t] \in Locked \/ io_mutex = Null, NEW place, pc' = [pc EXCEPT ![t] = place]
      PROVE  \A u \in Threads \ {t} : pc'[u] \notin {"set", "taken", "insert"}
    <2>1. \A u \in Threads \ {t} : pc[u] \notin Locked
        BY <1>1, <1>5, Alone, TableAssumption DEF TableInv, Calling, Exclusive
    <2>2. QED
        BY <1>2, <1>5, <2>1 DEF Locked
<1>6. CASE HeapLeft(t) /\ ~IoctlLooksUp(t) /\ ~SetParamsNew(t)
    <2>1. UNCHANGED <<heap, taken, lost>>
        BY <1>6, HeapLeftFacts
    <2>2. \A u \in Threads : pc'[u] \in {"set", "taken", "insert"} => pc'[u] = pc[u] /\ idx'[u] = idx[u]
        <3>1. \E place \in Places \ {"set", "taken", "insert"} : pc' = [pc EXCEPT ![t] = place]
            BY <1>6 DEF HeapLeft, IoctlFindsDevice, IoctlCounted, IoctlLeaves, SetParamsFails, GetDataFails,
               GetDataUnlocks, GetDataExits, GetDataStays, GetDataRelock, IoctlFaults, GetDataWait,
               GetDataWoken, Sleep, Places, Active, Locked
        <3>2. \A u \in Threads : u # t => idx'[u] = idx[u]
            BY <1>2, <1>6 DEF HeapLeft, IoctlFindsDevice, IoctlCounted, IoctlLeaves, SetParamsFails, GetDataFails,
               GetDataUnlocks, GetDataExits, GetDataStays, GetDataRelock, IoctlFaults, GetDataWait,
               GetDataWoken
        <3>3. QED
            BY <1>2, <3>1, <3>2
    <2>3. TableIsSound' /\ (\A p : SlotsOf(p)' = SlotsOf(p)) /\ UNCHANGED <<table, live, client>>
        BY <2>1, HeapUnchanged
    <2>4. LookedUp'
        BY <2>2, <2>3, LookedUpStays
    <2>5. QED
        BY <1>4, <2>1, <2>3, <2>4 DEF Orderly
<1>7. CASE IoctlLooksUp(t)
    <2>1. UNCHANGED <<heap, taken, lost>> /\ io_mutex = Null
        BY <1>7 DEF IoctlLooksUp, MutexFree, callback
    <2>2. TableIsSound' /\ (\A p : SlotsOf(p)' = SlotsOf(p)) /\ UNCHANGED <<table, live, client>>
        BY <2>1, HeapUnchanged
    <2>3. \A u \in Threads \ {t} : pc'[u] \notin {"set", "taken", "insert"}
        BY <1>5, <1>7, <2>1 DEF IoctlLooksUp
    <2>4. pc'[t] \in {"set", "get"} /\ idx'[t] = First(SlotsOf(PidOf[t]))
        <3>1. PICK S \in SUBSET Dangling : idx' = [idx EXCEPT ![t] = First(SlotsOf(PidOf[t]) \cup S)]
            BY <1>7 DEF IoctlLooksUp
        <3>2. SlotsOf(PidOf[t]) \cup S = SlotsOf(PidOf[t])
            BY SoundFacts
        <3>3. QED
            BY <1>2, <1>7, <3>1, <3>2 DEF IoctlLooksUp
    <2>5. SlotsOf(PidOf[t]) \subseteq {First(SlotsOf(PidOf[t]))}
        <3>1. CASE SlotsOf(PidOf[t]) = {}
            BY <3>1
        <3>2. CASE SlotsOf(PidOf[t]) # {}
            <4>1. SlotsOf(PidOf[t]) \in SUBSET Nat
                BY SlotFacts DEF SlotsOf
            <4>2. First(SlotsOf(PidOf[t])) \in SlotsOf(PidOf[t])
                BY <3>2, <4>1, FirstIn
            <4>3. \A i, j \in SlotsOf(PidOf[t]) : i = j
                <5>1. TableIsSound /\ ~twice
                    BY DEF Sound, Orderly
                <5>2. QED
                    BY <5>1, SoundFacts DEF SlotsOf, TableIsSound
            <4>4. QED
                BY <4>2, <4>3
        <3>3. QED
            BY <3>1, <3>2
    <2>6. LookedUp'
        BY <2>2, <2>3, <2>4, <2>5 DEF LookedUp
    <2>7. QED
        BY <1>4, <2>1, <2>2, <2>6 DEF Orderly
<1>8. CASE SetParamsNew(t)
    <2>1. UNCHANGED <<heap, taken, lost>> /\ pc[t] = "set" /\ idx[t] = Null
        BY <1>8 DEF SetParamsNew, callback
    <2>2. TableIsSound' /\ (\A p : SlotsOf(p)' = SlotsOf(p)) /\ UNCHANGED <<table, live, client>>
        BY <2>1, HeapUnchanged
    <2>3. \A u \in Threads \ {t} : pc'[u] \notin {"set", "taken", "insert"}
        BY <1>5, <1>8, <2>1 DEF SetParamsNew, Locked
    <2>4. PICK i \in Slots :
             i = First({ j \in Slots : table[j] = Null }) /\ idx' = [idx EXCEPT ![t] = i]
        BY <1>8 DEF SetParamsNew
    <2>5. table[i] = Null
        <3>1. { j \in Slots : table[j] = Null } # {}
            BY <1>2, <2>4 DEF First
        <3>2. { j \in Slots : table[j] = Null } \in SUBSET Nat
            BY SlotFacts
        <3>3. i \in { j \in Slots : table[j] = Null }
            BY <2>4, <3>1, <3>2, FirstIn
        <3>4. QED
            BY <3>3
    <2>6. pc'[t] = "insert" /\ idx'[t] = i
        BY <1>2, <1>8, <2>4 DEF SetParamsNew
    <2>7. SlotsOf(PidOf[t]) = {}
        <3>1. SlotsOf(PidOf[t]) \subseteq {Null} /\ SlotsOf(PidOf[t]) \subseteq Slots
            BY <1>1, <2>1 DEF LookedUp, SlotsOf
        <3>2. QED
            BY <1>2, <3>1
    <2>8. LookedUp'
        BY <2>2, <2>3, <2>5, <2>6, <2>7 DEF LookedUp
    <2>9. QED
        BY <1>4, <2>1, <2>2, <2>8 DEF Orderly
<1>9. CASE SetParamsTakes(t)
    <2>1. /\ pc[t] = "set" /\ idx[t] \in Slots
          /\ pc'[t] = "taken" /\ idx' = idx
        BY <1>2, <1>9 DEF SetParamsTakes
    <2>2. PICK i \in Slots : i = idx[t]
        BY <2>1
    <2>3. table' = [table EXCEPT ![i] = Null] /\ UNCHANGED <<live, client>>
        BY <1>9, <2>2 DEF SetParamsTakes
    <2>4. /\ TableIsSound'
          /\ \A p : SlotsOf(p)' = SlotsOf(p) \ {i}
          /\ table'[i] = Null /\ \A j \in Slots \ {i} : table'[j] = table[j]
        BY <2>3, SlotEmptied
    <2>5. \A u \in Threads \ {t} : pc'[u] \notin {"set", "taken", "insert"}
        BY <1>5, <1>9, <2>1 DEF SetParamsTakes, Locked
    <2>6. SlotsOf(PidOf[t])' = {}
        BY <1>1, <2>1, <2>2, <2>4 DEF LookedUp
    <2>7. LookedUp'
        BY <2>1, <2>2, <2>4, <2>5, <2>6 DEF LookedUp
    <2>8. taken'[t] = table[i] /\ \A u \in Threads \ {t} : taken'[u] = taken[u]
        BY <1>2, <1>9, <2>2 DEF SetParamsTakes, Mine
    <2>9. TakenIsGone'
        <3>1. ASSUME table[i] # Null
              PROVE  table[i] \in live /\ \A j \in Slots : table'[j] # table[i]
            BY <2>2, <2>4, <3>1, SoundFacts
        <3>2. ASSUME NEW u \in Threads, taken'[u] # Null
              PROVE  taken'[u] \in live' /\ \A j \in Slots : table'[j] # taken'[u]
            <4>1. CASE u = t
                BY <2>3, <2>8, <3>1, <3>2, <4>1
            <4>2. CASE u # t
                BY <1>1, <2>3, <2>4, <2>8, <3>2, <4>2 DEF TakenIsGone
            <4>3. QED
                BY <4>1, <4>2
        <3>3. QED
            BY <3>2 DEF TakenIsGone
    <2>10. HandlerHolds'
        <3>1. cb_slot \in Slots /\ ~twice' /\ (cb \in {"judge", "clear", "free"} => cb_client \in Addresses)
            BY <1>1 DEF TypeOK, Sound, TableInv, Calling, Holding
        <3>2. cb \in {"judge", "clear", "free"} /\ table[i] = cb_client => lost' /\ cb = "judge"
            BY <1>2, <1>9, <2>2, <3>1 DEF SetParamsTakes, Mine
        <3>3. lost => lost'
            BY <1>9 DEF SetParamsTakes
        <3>4. cb \in {"judge", "clear"} /\ cb_slot = i /\ ~lost => table[i] = cb_client
            BY <1>1, <3>1, <3>2 DEF HandlerHolds
        <3>5. cb = "judge" /\ ~lost' => table'[cb_slot] = table[cb_slot]
            BY <2>4, <3>1, <3>2, <3>3, <3>4
        <3>6. cb = "clear" => table'[cb_slot] = table[cb_slot]
            BY <1>1, <2>4, <3>1, <3>2 DEF HandlerHolds
        <3>7. cb = "free" => /\ cb_client \in live'
                             /\ \A j \in Slots : table'[j] # cb_client
                             /\ \A u \in Threads : taken'[u] # cb_client
            <4>1. SUFFICES ASSUME cb = "free"
                           PROVE  /\ cb_client \in live'
                                  /\ \A j \in Slots : table'[j] # cb_client
                                  /\ \A u \in Threads : taken'[u] # cb_client
                OBVIOUS
            <4>2. /\ cb_client \in live /\ cb_client # Null
                  /\ \A j \in Slots : table[j] # cb_client
                  /\ \A u \in Threads : taken[u] # cb_client
                BY <1>1, <1>2, <3>1, <4>1 DEF HandlerHolds
            <4>3. \A j \in Slots : table'[j] # cb_client
                BY <2>4, <4>2
            <4>4. \A u \in Threads : taken'[u] # cb_client
                BY <2>2, <2>8, <4>2
            <4>5. QED
                BY <2>3, <4>2, <4>3, <4>4
        <3>8. QED
            BY <1>1, <1>3, <3>3, <3>5, <3>6, <3>7, HandlerLeft
    <2>11. QED
        BY <2>4, <2>7, <2>9, <2>10 DEF Orderly
<1>10. CASE SetParamsFrees(t)
    <2>1. /\ pc[t] = "taken" /\ pc' = [pc EXCEPT ![t] = "insert"] /\ idx' = idx /\ table' = table
          /\ lost' = lost /\ idx[t] \in Slots
        BY <1>1, <1>10 DEF SetParamsFrees, callback, Slotted
    <2>2. taken'[t] = Null /\ \A u \in Threads \ {t} : taken'[u] = taken[u]
        BY <1>2, <1>10 DEF SetParamsFrees
    <2>3. /\ TableIsSound' /\ \A p : SlotsOf(p)' = SlotsOf(p)
          /\ live' = live \ {taken[t]}
        <3>1. CASE taken[t] = Null
            <4>1. UNCHANGED heap /\ Null \notin live
                BY <1>10, <2>1, <3>1, SoundFacts DEF SetParamsFrees, heap
            <4>2. QED
                BY <3>1, <4>1, HeapUnchanged
        <3>2. CASE taken[t] # Null
            BY <1>1, <1>10, <2>1, <3>2, AddressFreed DEF SetParamsFrees, TakenIsGone
        <3>3. QED
            BY <3>1, <3>2
    <2>4. \A u \in Threads \ {t} : taken'[u] = Null
        <3>1. pc[t] \in Locked
            BY <2>1 DEF Locked
        <3>2. \A u \in Threads \ {t} : pc[u] # "taken"
            BY <1>1, <3>1, Alone DEF Locked
        <3>3. QED
            BY <1>1, <2>2, <3>2 DEF EmptyHanded
    <2>5. TakenIsGone'
        BY <2>2, <2>4 DEF TakenIsGone
    <2>6. HandlerHolds'
        <3>1. cb = "free" => cb_client \in Addresses
            BY <1>1 DEF TableInv, Calling, Holding
        <3>2. cb = "free" => \A u \in Threads : taken'[u] # cb_client
            BY <1>1, <1>2, <2>2, <3>1 DEF HandlerHolds
        <3>3. QED
            BY <1>1, <1>3, <2>1, <2>3, <3>2 DEF HandlerHolds
    <2>7. LookedUp'
        <3>1. \A u \in Threads \ {t} : pc'[u] \notin {"set", "taken", "insert"}
            BY <1>5, <2>1 DEF Locked
        <3>2. pc'[t] = "insert"
            BY <1>2, <2>1
        <3>3. table[idx[t]] = Null /\ SlotsOf(PidOf[t]) = {}
            BY <1>1, <2>1 DEF LookedUp
        <3>4. QED
            BY <2>1, <2>3, <3>1, <3>2, <3>3 DEF LookedUp
    <2>8. QED
        BY <2>3, <2>5, <2>6, <2>7 DEF Orderly
<1>11. CASE SetParamsInsert(t)
    <2>1. pc[t] = "insert" /\ idx[t] \in Slots /\ pc' = [pc EXCEPT ![t] = "leave"]
          /\ UNCHANGED <<taken, lost>>
        BY <1>1, <1>11 DEF SetParamsInsert, Slotted
    <2>2. PICK i \in Slots : i = idx[t] /\ table[i] = Null /\ SlotsOf(PidOf[t]) = {}
        BY <1>1, <2>1 DEF LookedUp
    <2>3. PICK a \in Addresses, flags \in ChannelFlags :
             /\ a \notin live
             /\ client' = [client EXCEPT ![a] = NewClient(PidOf[t], flags)]
             /\ live' = live \cup {a}
             /\ table' = [table EXCEPT ![i] = a]
        BY <1>11, <2>2 DEF SetParamsInsert, Allocatable, Sound
    <2>4. /\ client'[a].pid = PidOf[t]
          /\ \A b \in live : client'[b] = client[b]
        BY <2>3, SoundFacts DEF NewClient
    <2>5. table'[i] = a /\ \A j \in Slots \ {i} : table'[j] = table[j]
        BY <2>3, SoundFacts
    <2>6. \A j \in Slots : table[j] # Null => table[j] \in live /\ client[table[j]].pid # PidOf[t]
        BY <2>2, SoundFacts DEF SlotsOf
    <2>7. TableIsSound'
        <3>1. ASSUME NEW j \in Slots, NEW k \in Slots \ {j}, table'[j] # Null, table'[k] # Null
              PROVE  client'[table'[j]].pid # client'[table'[k]].pid
            <4>1. CASE j = i
                BY <2>4, <2>5, <2>6, <3>1, <4>1
            <4>2. CASE k = i
                BY <2>4, <2>5, <2>6, <3>1, <4>2
            <4>3. CASE j # i /\ k # i
                <5>1. TableIsSound /\ ~twice
                    BY DEF Sound, Orderly
                <5>2. QED
                    BY <2>4, <2>5, <2>6, <3>1, <4>3, <5>1 DEF TableIsSound
            <4>4. QED
                BY <4>1, <4>2, <4>3
        <3>2. \A j \in Slots : table'[j] # Null => table'[j] \in live'
            BY <2>3, <2>5, <2>6
        <3>3. QED
            BY <3>1, <3>2 DEF TableIsSound
    <2>8. LookedUp'
        <3>1. \A u \in Threads : pc'[u] \notin {"set", "taken", "insert"}
            BY <1>2, <1>5, <2>1 DEF Locked
        <3>2. QED
            BY <3>1 DEF LookedUp
    <2>9. TakenIsGone'
        BY <1>1, <2>1, <2>3, <2>5 DEF TakenIsGone
    <2>10. HandlerHolds'
        <3>1. cb_slot \in Slots /\ (cb \in {"judge", "clear", "free"} => cb_client \in Addresses)
            BY <1>1 DEF TypeOK, TableInv, Calling, Holding
        <3>2. cb \in {"judge", "clear"} /\ ~(cb = "judge" /\ lost) => cb_slot # i
            BY <1>1, <1>2, <2>2, <3>1 DEF HandlerHolds
        <3>3. cb = "free" => cb_client # a
            BY <1>1, <2>3 DEF HandlerHolds
        <3>4. QED
            BY <1>1, <1>3, <2>1, <2>3, <2>5, <3>1, <3>2, <3>3 DEF HandlerHolds
    <2>11. QED
        BY <2>7, <2>8, <2>9, <2>10 DEF Orderly
<1>12. CASE GetDataCopy(t) \/ GetDataCheck(t)
    <2>1. UNCHANGED <<table, live, taken, lost>> /\ pc[t] \in Locked
        BY <1>12 DEF GetDataCopy, GetDataCheck, callback, Locked
    <2>2. \/ client' = client
          \/ \E c \in Client : (Mine(t) \in live => c.pid = client[Mine(t)].pid) /\ client' = Put(Mine(t), c)
        <3>1. Seen(Mine(t)) \subseteq Client
            BY <1>1, SeenClient DEF TableInv, Calling
        <3>2. \A c \in Seen(Mine(t)) : Mine(t) \in live => c = client[Mine(t)]
            BY DEF Seen
        <3>3. \A c \in Client : /\ [c EXCEPT !.full = @ - 1].pid = c.pid
                                /\ [c EXCEPT !.warning = @ /\ c.full > 0].pid = c.pid
            BY DEF Client
        <3>4. CASE GetDataCopy(t)
            <4>1. PICK c \in Seen(Mine(t)) : \/ client' = client
                                             \/ c.full > 0 /\ client' = Put(Mine(t), [c EXCEPT !.full = @ - 1])
                BY <3>4 DEF GetDataCopy
            <4>2. QED
                BY <3>1, <3>2, <3>3, <4>1, ClientFacts
        <3>5. CASE GetDataCheck(t)
            <4>1. PICK c \in Seen(Mine(t)) : client' = Put(Mine(t), [c EXCEPT !.warning = @ /\ c.full > 0])
                BY <3>5 DEF GetDataCheck
            <4>2. QED
                BY <3>1, <3>2, <3>3, <4>1, ClientFacts
        <3>6. QED
            BY <1>12, <3>4, <3>5
    <2>3. TableIsSound' /\ \A p : SlotsOf(p)' = SlotsOf(p)
        <3>1. CASE client' = client
            BY <2>1, <3>1, HeapUnchanged DEF heap
        <3>2. QED
            BY <2>1, <2>2, <3>1, ClientChanges
    <2>4. LookedUp'
        <3>1. \E place \in {"check", "leave"} : pc' = [pc EXCEPT ![t] = place]
            BY <1>12 DEF GetDataCopy, GetDataCheck
        <3>2. \A u \in Threads : pc'[u] \notin {"set", "taken", "insert"}
            BY <1>2, <1>5, <2>1, <3>1
        <3>3. QED
            BY <3>2 DEF LookedUp
    <2>5. QED
        BY <1>4, <2>1, <2>3, <2>4 DEF Orderly
<1>13. QED
    BY <1>6, <1>7, <1>8, <1>9, <1>10, <1>11, <1>12, IoctlCases DEF HeapLeft

LEMMA OrderlyKept ==
    ASSUME TableInv, [Next]_vars
    PROVE  twice' \/ Orderly'
<1> SUFFICES ASSUME ~twice'
             PROVE  Orderly'
    OBVIOUS
<1>1. Sound
    BY TwiceStays DEF TableInv, Sound
<1>2. QED
    BY <1>1, OrderlyKeptByIoctl, OrderlyKeptByDevice DEF Next, DeviceStep

-----------------------------------------------------------------------------
(* Sleepers.                                                               *)

(* A thread falls asleep with nothing to fetch, and not while the device   *)
(* is going.                                                               *)
FallsAsleep(u) ==
    /\ ~exiting'
    /\ UNCHANGED heap
    /\ queue'[u] = Mine(u)
    /\ \E c \in Seen(Mine(u)) : c.full = 0

StaysAsleep(u) == pc[u] = "asleep" /\ queue'[u] \in {queue[u], Null}

LEMMA SleepersMove ==
    ASSUME TableInv, [Next]_vars, NEW u \in Threads, pc'[u] = "asleep"
    PROVE  FallsAsleep(u) \/ StaysAsleep(u)
<1>1. TypeOK /\ Allocated
    BY DEF TableInv, Calling
<1>2. ASSUME NEW t \in Threads, GetDataWait(t) \/ GetDataWoken(t), u = t
      PROVE  FallsAsleep(u)
    <2>1. PICK c \in Seen(Mine(t)) : ~Ready(c) /\ Sleep(t)
        BY <1>1, <1>2 DEF GetDataWait, GetDataWoken, Goto, TypeOK
    <2>2. c.full = 0 /\ ~exiting
        <3>1. c \in Client
            BY <1>1, SeenClient
        <3>2. c.full \in 0 .. 2
            BY <3>1 DEF Client
        <3>3. QED
            BY <2>1, <3>2 DEF Ready
    <2>3. UNCHANGED heap /\ UNCHANGED exit
        BY <1>2 DEF GetDataWait, GetDataWoken
    <2>4. queue'[u] = Mine(u)
        BY <1>1, <1>2, <2>1 DEF Sleep, TypeOK
    <2>5. QED
        BY <1>2, <2>1, <2>2, <2>3, <2>4 DEF FallsAsleep, exit
<1>3. ASSUME NEW t \in Threads, GetDataWait(t) \/ GetDataWoken(t), u # t
      PROVE  StaysAsleep(u)
    BY <1>1, <1>3 DEF GetDataWait, GetDataWoken, Goto, Sleep, TypeOK, StaysAsleep
<1>4. ASSUME NEW t \in Threads, IoctlFindsDevice(t) \/ Ioctl(t), ~GetDataWait(t), ~GetDataWoken(t)
      PROVE  StaysAsleep(u)
    <2>1. queue'[u] \in {queue[u], Null}
        BY <1>4 DEF IoctlFindsDevice, Ioctl, IoctlCounted, IoctlLooksUp, IoctlLeaves, SetParamsNew,
           SetParamsTakes, SetParamsFrees, SetParamsInsert, SetParamsFails, GetDataFails, GetDataUnlocks,
           GetDataExits, GetDataStays, GetDataRelock, GetDataCopy, GetDataCheck, IoctlFaults
    <2>2. \E place : pc' = [pc EXCEPT ![t] = place] /\ place # "asleep"
        BY <1>4 DEF IoctlFindsDevice, Ioctl, IoctlCounted, IoctlLooksUp, IoctlLeaves, SetParamsNew,
           SetParamsTakes, SetParamsFrees, SetParamsInsert, SetParamsFails, GetDataFails, GetDataUnlocks,
           GetDataExits, GetDataStays, GetDataRelock, GetDataCopy, GetDataCheck, IoctlFaults, Goto, Leave
    <2>3. QED
        BY <1>1, <2>1, <2>2, OthersStay DEF StaysAsleep
<1>5. CASE DeviceStep
    BY <1>1, <1>5, DeviceMoves DEF StaysAsleep
<1>6. QED
    BY <1>2, <1>3, <1>4, <1>5 DEF Next, Ioctl, DeviceStep

(* What is at address a when somebody remains asleep there.                *)
LEMMA StillEmpty ==
    ASSUME TableInv, [Next]_vars, NEW u \in Threads, pc[u] = "asleep", pc'[u] = "asleep",
           NEW a \in live', queue[u] = a, queue'[u] = a
    PROVE  client'[a].full = 0
<1>1. /\ TypeOK /\ Allocated /\ NoLostWakeup
      /\ live \subseteq Addresses /\ client \in [Addresses -> Client \cup {Null}]
      /\ Null \notin Addresses
    BY TableAssumption DEF TableInv, Calling, TypeOK
<1>2. a \in live => client[a].full = 0 /\ client[a] \in Client
    BY <1>1 DEF NoLostWakeup, Allocated
<1>3. CASE a \in live /\ client'[a] = client[a]
    BY <1>2, <1>3
<1>4. ASSUME NEW x, NEW c \in Seen(x), NEW d \in Client,
             client' = Put(x, d), d.full = c.full \/ c.full > 0, a \in live
      PROVE  client'[a].full = 0 \/ (c.full > 0 /\ x # a)
    <2>1. CASE x = a
        <3>1. c = client[a] /\ client'[a] = d
            BY <1>1, <1>4, <2>1, PutFacts DEF Seen
        <3>2. QED
            BY <1>2, <1>4, <3>1
    <2>2. CASE x # a
        <3>1. client'[a] = client[a]
            BY <1>1, <1>4, <2>2, PutFacts
        <3>2. QED
            BY <1>2, <1>4, <3>1
    <2>3. QED
        BY <2>1, <2>2
<1>5. ASSUME NEW x, NEW d \in Client, client' = Put(x, d), x # a, a \in live
      PROVE  client'[a].full = 0
    BY <1>1, <1>2, <1>5, PutFacts
<1>6. ASSUME NEW x, Free(x)
      PROVE  client'[a].full = 0
    <2>1. a \in live /\ a # x
        BY <1>6 DEF Free
    <2>2. client'[a] = client[a]
        BY <1>1, <1>6, <2>1 DEF Free
    <2>3. QED
        BY <1>3, <2>1, <2>2
<1>7. ASSUME NEW t \in Threads, SetParamsInsert(t)
      PROVE  client'[a].full = 0
    <2>1. PICK b \in Allocatable, flags \in ChannelFlags :
             /\ client' = [client EXCEPT ![b] = NewClient(PidOf[t], flags)]
             /\ live' = live \cup {b}
             /\ queue' = [v \in Threads |-> IF queue[v] = b THEN Null ELSE queue[v]]
        BY <1>7 DEF SetParamsInsert
    <2>2. b # a
        <3>1. a \in Addresses
            BY <2>1, <1>1 DEF Allocatable
        <3>2. QED
            BY <1>1, <2>1, <3>1
    <2>3. a \in live /\ client'[a] = client[a]
        BY <1>1, <2>1, <2>2
    <2>4. QED
        BY <1>3, <2>3
<1>8. ASSUME NEW t \in Threads, GetDataCopy(t) \/ GetDataCheck(t)
      PROVE  client'[a].full = 0
    <2>1. a \in live
        BY <1>8 DEF GetDataCopy, GetDataCheck
    <2>2. Seen(Mine(t)) \subseteq Client
        BY <1>1, SeenClient
    <2>3. CASE client' = client
        BY <1>3, <2>1, <2>3
    <2>4. CASE GetDataCopy(t) /\ client' # client
        <3>1. PICK c \in Seen(Mine(t)) : c.full > 0 /\ client' = Put(Mine(t), [c EXCEPT !.full = @ - 1])
            BY <2>4 DEF GetDataCopy
        <3>2. [c EXCEPT !.full = @ - 1] \in Client
            BY <2>2, <3>1, ClientFacts
        <3>3. Mine(t) # a
            BY <1>2, <2>1, <3>1 DEF Seen
        <3>4. QED
            BY <1>5, <2>1, <3>1, <3>2, <3>3
    <2>5. CASE GetDataCheck(t)
        <3>1. PICK c \in Seen(Mine(t)) : client' = Put(Mine(t), [c EXCEPT !.warning = @ /\ c.full > 0])
            BY <2>5 DEF GetDataCheck
        <3>2. [c EXCEPT !.warning = @ /\ c.full > 0] \in Client
            BY <2>2, <3>1, ClientFacts
        <3>3. Mine(t) = a => c = client[a] /\ client'[a] = [c EXCEPT !.warning = @ /\ c.full > 0]
            BY <1>1, <2>1, <3>1, <3>2, PutFacts DEF Seen
        <3>4. Mine(t) = a => client'[a].full = 0
            BY <1>2, <2>1, <2>2, <3>3 DEF Client
        <3>5. QED
            BY <1>5, <2>1, <3>1, <3>2, <3>4
    <2>6. QED
        BY <1>8, <2>3, <2>4, <2>5
<1>9. ASSUME NEW t \in Threads, IoctlFindsDevice(t) \/ Ioctl(t)
      PROVE  client'[a].full = 0
    <2>1. CASE HeapLeft(t) \/ SetParamsTakes(t)
        BY <1>3, <2>1, HeapLeftFacts DEF heap, SetParamsTakes
    <2>2. CASE SetParamsFrees(t)
        BY <1>3, <1>6, <2>2 DEF SetParamsFrees
    <2>3. QED
        BY <1>7, <1>8, <1>9, <2>1, <2>2, IoctlCases
<1>10. CASE CallbackJudge \/ CallbackWarn
    <2>1. a \in live
        BY <1>10 DEF CallbackJudge, CallbackWarn
    <2>2. Seen(cb_client) \subseteq Client
        BY <1>1, SeenClient
    <2>3. CASE client' = client
        BY <1>3, <2>1, <2>3
    <2>4. CASE client' # client
        <3>1. PICK c \in Seen(cb_client), d \in Client : client' = Put(cb_client, d) /\ d.full = c.full
            <4>1. CASE CallbackWarn
                <5>1. PICK c \in Seen(cb_client) : client' = Put(cb_client, [c EXCEPT !.warning = TRUE])
                    BY <4>1 DEF CallbackWarn
                <5>2. [c EXCEPT !.warning = TRUE] \in Client /\ [c EXCEPT !.warning = TRUE].full = c.full
                    BY <2>2, <5>1, ClientFacts DEF Client
                <5>3. QED
                    BY <5>1, <5>2
            <4>2. CASE CallbackJudge
                <5>1. PICK c \in Seen(cb_client) :
                         /\ c.loops_after_warn_count < WaitLoops
                         /\ client' = Put(cb_client, [c EXCEPT !.loops_after_warn_count = Counted(@)])
                    BY <2>4, <4>2 DEF CallbackJudge
                <5>2. /\ [c EXCEPT !.loops_after_warn_count = Counted(@)] \in Client
                      /\ [c EXCEPT !.loops_after_warn_count = Counted(@)].full = c.full
                    BY <2>2, <5>1, ClientFacts DEF Client
                <5>3. QED
                    BY <5>1, <5>2
            <4>3. QED
                BY <1>10, <4>1, <4>2
        <3>2. cb_client = a => c = client[a] /\ client'[a] = d
            BY <1>1, <2>1, <3>1, PutFacts DEF Seen
        <3>3. QED
            BY <1>2, <1>5, <2>1, <3>1, <3>2
    <2>5. QED
        BY <2>3, <2>4
<1>11. CASE CallbackStore
    <2>1. a \in live
        BY <1>11 DEF CallbackStore
    <2>2. CASE client' = client
        BY <1>3, <2>1, <2>2
    <2>3. CASE client' # client
        <3>1. PICK c \in Seen(cb_client) : c.full < 2 /\ client' = Put(cb_client, [c EXCEPT !.full = @ + 1])
            BY <1>11, <2>3 DEF CallbackStore
        <3>2. [c EXCEPT !.full = @ + 1] \in Client
            BY <1>1, <3>1, SeenClient, ClientFacts
        <3>3. cb_client # a
            BY <1>11, <2>1, <2>3 DEF CallbackStore, WokenWhenFull, WakeUp, Awaken, Sleepers
        <3>4. QED
            BY <1>5, <2>1, <3>1, <3>2, <3>3
    <2>4. QED
        BY <2>2, <2>3
<1>12. CASE DeleteFrees
    <2>1. a \in live /\ a \in Addresses
        BY <1>1, <1>12 DEF DeleteFrees
    <2>2. client'[a] = client[a]
        BY <1>12, <2>1 DEF DeleteFrees
    <2>3. QED
        BY <1>3, <2>1, <2>2
<1>13. CASE DeviceStep /\ ~(CallbackWarn \/ CallbackStore \/ CallbackJudge \/ DeleteFrees)
    <2>1. UNCHANGED <<live, client>> \/ Free(cb_client)
        BY <1>13 DEF DeviceStep, Callback, CallbackData, CallbackFetch, CallbackSkips, CallbackClear,
           CallbackFree, CallbackGivesUp, CallbackOverrun, FlowStops, Disconnect, DisconnectAgain, Delete,
           DisconnectLocks, DeleteExits, DeleteWakes, heap, vars
    <2>2. QED
        BY <1>3, <1>6, <2>1
<1>14. QED
    BY <1>9, <1>10, <1>11, <1>12, <1>13 DEF Next, DeviceStep

LEMMA WakeupKept ==
    ASSUME TableInv, [Next]_vars
    PROVE  NoLostWakeup'
<1> SUFFICES ASSUME NEW u \in Threads, pc'[u] = "asleep", queue'[u] \in live'
             PROVE  client'[queue'[u]].full = 0
    BY DEF NoLostWakeup
<1>1. CASE FallsAsleep(u)
    BY <1>1 DEF FallsAsleep, Seen, heap
<1>2. CASE StaysAsleep(u)
    <2>1. Null \notin live'
        <3>1. TypeOK'
            BY TypesKept
        <3>2. QED
            BY <3>1, TableAssumption DEF TypeOK
    <2>2. pc[u] = "asleep" /\ queue'[u] = queue[u]
        BY <1>2, <2>1 DEF StaysAsleep
    <2>3. QED
        BY <2>2, StillEmpty
<1>3. QED
    BY <1>1, <1>2, SleepersMove

(* The device is freed at a count of zero, and no call begins after that.  *)
LEMMA DeviceKept ==
    ASSUME TableInv, [Next]_vars
    PROVE  DeviceOutlivesCalls'
<1>1. TypeOK /\ pc \in [Threads -> Places]
    BY PlacesTyped DEF TableInv
<1>2. CASE DeleteFrees
    <2>1. Cardinality(Calls) = 0
        <3>1. Cardinality(Calls) \in Nat
            BY CallsFinite DEF Calls
        <3>2. QED
            BY <1>2, <3>1 DEF DeleteFrees, Quiet, TableInv, CallsCounted
    <2>2. Calls = {}
        <3>1. IsFiniteSet(Calls)
            BY CallsFinite DEF Calls
        <3>2. QED
            BY <2>1, <3>1, FS_EmptySet
    <2>3. pc' = pc
        BY <1>2 DEF DeleteFrees, threads
    <2>4. QED
        BY <2>2, <2>3 DEF Calls, DeviceOutlivesCalls
<1>3. CASE ~DeleteFrees
    <2> SUFFICES ASSUME teardown' = "done", NEW u \in Threads
                 PROVE  pc'[u] \notin Active
        BY DEF DeviceOutlivesCalls
    <2>1. ASSUME NEW t \in Threads, IoctlFindsDevice(t) \/ Ioctl(t)
          PROVE  pc'[u] \notin Active
        <3>1. teardown = "done"
            BY <2>1, IoctlAlone DEF exit
        <3>2. \A v \in Threads : pc[v] \notin Active
            BY <3>1 DEF TableInv, DeviceOutlivesCalls
        <3>3. pc[t] \in {"user", "found"}
            BY <2>1, <3>2
            DEF Ioctl, IoctlFindsDevice, IoctlCounted, IoctlLooksUp, IoctlLeaves, SetParamsNew,
                SetParamsTakes, SetParamsFrees, SetParamsInsert, SetParamsFails, GetDataFails, GetDataUnlocks,
                GetDataWait, GetDataWoken, GetDataStays, GetDataExits, GetDataRelock, GetDataCopy,
                GetDataCheck, IoctlFaults, Active, Locked
        <3>4. IoctlFindsDevice(t) \/ IoctlFaults(t)
            BY <2>1, <3>1, <3>3
            DEF Ioctl, IoctlCounted, IoctlLooksUp, IoctlLeaves, SetParamsNew, SetParamsTakes,
                SetParamsFrees, SetParamsInsert, SetParamsFails, GetDataFails, GetDataUnlocks, GetDataWait,
                GetDataWoken, GetDataStays, GetDataExits, GetDataRelock, GetDataCopy, GetDataCheck
        <3>5. pc' = [pc EXCEPT ![t] = "found"] \/ pc' = [pc EXCEPT ![t] = "oops"]
            BY <3>4 DEF IoctlFindsDevice, IoctlFaults, Goto
        <3>6. "found" \notin Active /\ "oops" \notin Active
            BY DEF Active, Locked
        <3>7. QED
            BY <1>1, <3>2, <3>5, <3>6
    <2>2. CASE DeviceStep
        <3>1. teardown = "done"
            BY <1>3, <2>2 DEF DeviceStep, Callback, CallbackData, CallbackFetch, CallbackJudge, CallbackSkips,
               CallbackClear, CallbackFree, CallbackWarn, CallbackStore, CallbackGivesUp, CallbackOverrun,
               FlowStops, Disconnect, DisconnectAgain, Delete, DisconnectLocks, DeleteExits, DeleteWakes, exit, vars
        <3>2. \A v \in Threads : pc[v] \notin Active
            BY <3>1 DEF TableInv, DeviceOutlivesCalls
        <3>3. pc'[u] = pc[u] \/ pc[u] = "asleep"
            BY <1>1, <2>2, DeviceMoves
        <3>4. QED
            BY <3>2, <3>3 DEF Active
    <2>3. QED
        BY <2>1, <2>2 DEF Next, DeviceStep
<1>4. QED
    BY <1>2, <1>3

(* A client with a sleeper is not new in its slot.                         *)
LEMMA NotNew ==
    ASSUME TableInv, [Next]_vars, NEW u \in Threads, NEW i \in Slots,
           NEW a \in live', table'[i] = a, queue[u] = a, queue'[u] = a
    PROVE  a \in live /\ table[i] = a
<1>1. /\ TypeOK /\ table \in [Slots -> Addresses \cup {Null}] /\ live \subseteq Addresses
      /\ Null \notin Addresses
    BY TableAssumption DEF TableInv, TypeOK
<1>2. a # Null
    <2>1. TypeOK'
        BY TypesKept
    <2>2. QED
        BY <1>1, <2>1 DEF TypeOK
<1>3. ASSUME NEW t \in Threads, IoctlFindsDevice(t) \/ Ioctl(t)
      PROVE  a \in live /\ table[i] = a
    <2>1. CASE HeapLeft(t) \/ GetDataCopy(t) \/ GetDataCheck(t)
        BY <2>1, HeapLeftFacts DEF heap, GetDataCopy, GetDataCheck
    <2>2. CASE SetParamsTakes(t) \/ SetParamsFrees(t)
        BY <1>1, <1>2, <2>2 DEF SetParamsTakes, SetParamsFrees, Free
    <2>3. CASE SetParamsInsert(t)
        <3>1. PICK b \in Allocatable :
                 /\ live' = live \cup {b}
                 /\ table' = [table EXCEPT ![idx[t]] = b]
                 /\ queue' = [v \in Threads |-> IF queue[v] = b THEN Null ELSE queue[v]]
            BY <2>3 DEF SetParamsInsert
        <3>2. b # a
            BY <1>2, <3>1
        <3>3. QED
            BY <1>1, <3>1, <3>2
    <2>4. QED
        BY <1>3, <2>1, <2>2, <2>3, IoctlCases
<1>4. CASE DeviceStep
    <2>1. live' \subseteq live
        BY <1>4 DEF DeviceStep, Callback, CallbackData, CallbackFetch, CallbackJudge, CallbackSkips,
           CallbackClear, CallbackFree, CallbackWarn, CallbackStore, CallbackGivesUp, CallbackOverrun, FlowStops,
           Disconnect, DisconnectAgain, Delete, DisconnectLocks, DeleteExits, DeleteWakes, DeleteFrees, Free, heap, vars
    <2>2. table' = table \/ table' = Cleared \/ table' = [j \in Slots |-> Null]
        BY <1>4 DEF DeviceStep, Callback, CallbackData, CallbackFetch, CallbackJudge, CallbackSkips,
           CallbackClear, CallbackFree, CallbackWarn, CallbackStore, CallbackGivesUp, CallbackOverrun, FlowStops,
           Disconnect, DisconnectAgain, Delete, DisconnectLocks, DeleteExits, DeleteWakes, DeleteFrees, heap, vars
    <2>3. QED
        BY <1>1, <1>2, <2>1, <2>2 DEF Cleared
<1>5. QED
    BY <1>3, <1>4 DEF Next, DeviceStep

(* ad_delete_internal waits for the calls from here on: it has been to     *)
(* every slot.                                                             *)
LEMMA WakesKept ==
    ASSUME TableInv, [Next]_vars
    PROVE  WakesInTurn'
<1>1. /\ TypeOK /\ WakesInTurn
      /\ teardown_slot \in Slots /\ Slots \subseteq Nat
    BY SlotFacts DEF TableInv, TypeOK
<1>2. \/ UNCHANGED <<exiting, teardown, teardown_slot>>
      \/ CallbackOverrun \/ Disconnect \/ DisconnectLocks \/ DeleteExits \/ DeleteWakes \/ DeleteFrees
    <2>1. CASE DeviceStep
        BY <2>1 DEF DeviceStep, Callback, CallbackData, CallbackFetch, CallbackJudge, CallbackSkips,
           CallbackClear, CallbackFree, CallbackWarn, CallbackStore, CallbackGivesUp, FlowStops,
           DisconnectAgain, Delete, exit, vars
    <2>2. ASSUME NEW t \in Threads, IoctlFindsDevice(t) \/ Ioctl(t)
          PROVE  UNCHANGED <<exiting, teardown, teardown_slot>>
        BY <2>2, IoctlAlone DEF exit
    <2>3. QED
        BY <2>1, <2>2 DEF Next, DeviceStep
<1>3. (teardown \in {"wake", "spin", "done"} => exiting)'
    BY <1>1, <1>2 DEF WakesInTurn, CallbackOverrun, Disconnect, DisconnectLocks, DeleteExits, DeleteWakes,
       DeleteFrees
<1>4. SUFFICES ASSUME NEW u \in Threads, NEW i \in Slots, pc'[u] = "asleep", table'[i] = queue'[u],
                      queue'[u] \in live', teardown' \in {"wake", "spin"}
               PROVE  teardown' = "wake" /\ i >= teardown_slot'
    BY <1>3 DEF WakesInTurn
<1>5. pc[u] = "asleep" /\ queue'[u] = queue[u]
    <2>1. StaysAsleep(u)
        BY <1>3, <1>4, SleepersMove DEF FallsAsleep
    <2>2. Null \notin live'
        <3>1. TypeOK'
            BY TypesKept
        <3>2. QED
            BY <3>1, TableAssumption DEF TypeOK
    <2>3. QED
        BY <1>4, <2>1, <2>2 DEF StaysAsleep
<1>6. queue[u] \in live /\ table[i] = queue[u]
    BY <1>4, <1>5, NotNew
<1>7. CASE UNCHANGED <<exiting, teardown, teardown_slot>>
    BY <1>1, <1>4, <1>5, <1>6, <1>7 DEF WakesInTurn
<1>8. CASE DeleteExits
    BY <1>1, <1>8 DEF DeleteExits
<1>9. CASE DeleteWakes
    <2>1. teardown = "wake" /\ i >= teardown_slot
        BY <1>1, <1>5, <1>6, <1>9 DEF DeleteWakes, WakesInTurn
    <2>2. i # teardown_slot
        <3>1. SUFFICES ASSUME i = teardown_slot PROVE FALSE
            OBVIOUS
        <3>2. queue[u] # Null
            BY <1>1, <1>6, TableAssumption DEF TypeOK
        <3>3. WakeUp(queue[u])
            BY <1>6, <1>9, <3>1, <3>2 DEF DeleteWakes, WokenToExit
        <3>4. QED
            BY <1>4, <1>5, <1>6, <3>3 DEF WakeUp, Awaken, Sleepers
    <2>3. i \in 0 .. MAX_CLIENTS - 1 /\ MAX_CLIENTS \in Nat /\ teardown_slot \in Nat
        BY <1>1, SlotFacts DEF Slots
    <2>4. i >= teardown_slot + 1 /\ teardown_slot + 1 # MAX_CLIENTS
        BY <2>1, <2>2, <2>3
    <2>5. teardown' = "wake" /\ teardown_slot' = teardown_slot + 1
        BY <1>9, <2>1, <2>4 DEF DeleteWakes
    <2>6. QED
        BY <2>4, <2>5
<1>10. CASE CallbackOverrun \/ Disconnect \/ DisconnectLocks \/ DeleteFrees
    BY <1>4, <1>10 DEF CallbackOverrun, Disconnect, DisconnectLocks, DeleteFrees
<1>11. QED
    BY <1>2, <1>7, <1>8, <1>9, <1>10

-----------------------------------------------------------------------------
(* TableInv.                                                               *)

LEMMA TableInit == Init => TableInv
<1> SUFFICES ASSUME Init PROVE TableInv
    OBVIOUS
<1>1. Calls = {} /\ Crashed = {}
    BY DEF Init, Calls, Crashed, Active, Locked
<1>2. Cardinality(Calls) = 0 /\ Cardinality(Calls \cup Crashed) = 0
    BY <1>1, FS_EmptySet
<1>3. CallsCounted
    BY <1>2 DEF Init, CallsCounted
<1>4. ioctl_active_count \in 0 .. Cardinality(Threads)
    BY <1>3, CountInRange
<1>5. TypeOK
    BY <1>4, SlotFacts DEF Init, TypeOK
<1>6. Calling
    BY DEF Init, Calling, Slotted, Exclusive, EmptyHanded, Holding, HandlerDone, Allocated, Locked
<1>7. Orderly
    BY DEF Init, Orderly, TableIsSound, HandlerHolds, TakenIsGone, LookedUp
<1>8. NoLostWakeup /\ DeviceOutlivesCalls /\ WakesInTurn
    BY DEF Init, NoLostWakeup, DeviceOutlivesCalls, WakesInTurn
<1>9. QED
    BY <1>3, <1>5, <1>6, <1>7, <1>8 DEF TableInv

LEMMA TableStep == TableInv /\ [Next]_vars => TableInv'
<1> SUFFICES ASSUME TableInv, [Next]_vars PROVE TableInv'
    OBVIOUS
<1>1. TypeOK' /\ CallsCounted' /\ Calling'
    BY TypesKept, CountKept, CallingKept
<1>2. twice' \/ Orderly'
    BY OrderlyKept
<1>3. NoLostWakeup' /\ DeviceOutlivesCalls' /\ WakesInTurn'
    BY WakeupKept, DeviceKept, WakesKept
<1>4. QED
    BY <1>1, <1>2, <1>3 DEF TableInv

LEMMA TableCorrect == Spec => []TableInv
<1>1. QED
    BY TableInit, TableStep, PTL DEF Spec

(* The types; in particular ioctl_active_count never runs below zero, nor  *)
(* above the number of threads.                                            *)
THEOREM TypeCorrect == Spec => []TypeOK
<1>1. TableInv => TypeOK
    BY DEF TableInv
<1>2. QED
    BY <1>1, TableCorrect, PTL

(* The table points to clients that are allocated, one for each program,   *)
(* although the handler empties and frees with the pointer it has read, a  *)
(* thread does the same meanwhile and kmalloc hands out what either has    *)
(* freed, unless both have removed the same client at the same time.       *)
THEOREM TableSound == Spec => []TableIsSound
<1>1. TableInv => TableIsSound
    BY DEF TableInv, Orderly, TableIsSound
<1>2. QED
    BY <1>1, TableCorrect, PTL

(* ad_delete_internal frees the device only when the calls are over.       *)
THEOREM DeviceSafe == Spec => []DeviceOutlivesCalls
<1>1. TableInv => DeviceOutlivesCalls
    BY DEF TableInv
<1>2. QED
    BY <1>1, TableCorrect, PTL

(* GET_DATA, which decides to sleep without a lock, does not miss the      *)
(* buffer that is filled meanwhile.                                        *)
THEOREM WakeupsKept == Spec => []NoLostWakeup
<1>1. TableInv => NoLostWakeup
    BY DEF TableInv
<1>2. QED
    BY <1>1, TableCorrect, PTL

(* While the deletion of the device waits, it can itself go on, or a call  *)
(* that it waits for can, or a call is stranded: asleep where the deletion *)
(* does not look, crashed, or gone without giving io_mutex back.           *)
THEOREM DeletionProgress == Spec => []DeletionGoesOn
<1>1. TableInv => DeletionGoesOn
    <2>1. SUFFICES ASSUME TableInv, teardown \in {"lock", "spin"},
                          \A t \in Threads : ~CallGoesOn(t) /\ ~Stranded(t)
                   PROVE  \/ teardown = "lock" /\ MutexFree
                          \/ teardown = "spin" /\ Quiet
        BY DEF DeletionGoesOn
    <2>2. TypeOK /\ CallsCounted /\ WakesInTurn
        BY <2>1 DEF TableInv
    <2>3. MutexFree
        <3>1. SUFFICES ASSUME io_mutex \in Threads PROVE FALSE
            BY <2>2 DEF MutexFree, TypeOK
        <3>2. pc[io_mutex] \in Locked
            BY <2>1, <3>1 DEF Stranded
        <3>3. CallGoesOn(io_mutex)
            BY <3>2 DEF CallGoesOn, Active, Locked
        <3>4. QED
            BY <2>1, <3>1, <3>3
    <2>4. CASE teardown = "spin"
        <3>1. ASSUME NEW t \in Threads, pc[t] \in Active \cup {"oops"}
              PROVE  FALSE
            <4>1. pc[t] # "oops"
                BY <2>1 DEF Stranded
            <4>2. CASE pc[t] = "asleep"
                <5>1. PICK i \in Slots : table[i] = queue[t] /\ table[i] \in live
                    BY <2>1, <4>2 DEF Stranded
                <5>2. QED
                    BY <2>2, <2>4, <4>2, <5>1 DEF WakesInTurn
            <4>3. CASE pc[t] # "asleep"
                BY <2>1, <2>3, <3>1, <4>1, <4>3 DEF CallGoesOn
            <4>4. QED
                BY <4>2, <4>3
        <3>2. Calls = {} /\ Calls \cup Crashed = {}
            BY <3>1 DEF Calls, Crashed
        <3>3. Cardinality(Calls \cup Crashed) = 0
            BY <3>2, FS_EmptySet
        <3>4. ioctl_active_count \in Nat /\ ioctl_active_count <= 0
            BY <2>2, <3>3 DEF CallsCounted
        <3>5. Quiet
            BY <3>4 DEF Quiet
        <3>6. QED
            BY <2>4, <3>5
    <2>5. QED
        BY <2>1, <2>3, <2>4
<1>2. QED
    BY <1>1, TableCorrect, PTL
=============================================================================
