------------------------------ MODULE HotPlug ------------------------------
(***************************************************************************)
(* The device list of the framework (src/src/lib/biometric_common.c) and   *)
(* the readers it stands for, as they are plugged in and out.               *)
(*                                                                         *)
(* Two parties hear of a reader, each through a queue of its own: the       *)
(* hotplug thread, which edits the device list, and libfprint, which keeps  *)
(* its array of devices up to date in the main loop.  The hotplug thread    *)
(* searches libfprint's array for what there is, one device at a time and   *)
(* without a lock, so the order of the two matters.  Threads that walk the  *)
(* list take no lock either.                                                *)
(*                                                                         *)
(* libfprint and libusb are external: their queues and the array are        *)
(* modelled from how the drivers and the framework use them.                *)
(***************************************************************************)
EXTENDS Integers, Sequences, FiniteSets, SequencesExt

CONSTANTS
  Readers,     \* pieces of hardware that libfprint supports
  Drivers,     \* the drivers in bio_drv_list
  FirstDriver, \* the one that was loaded first
  Kind,        \* Kind[r]: the driver whose id_table has r, or one not loaded
  Walkers,     \* threads that walk the device list
  All,         \* what a walk that is not in search of a device wants
  None,        \* no device
  Dangling,    \* a device libfprint has given up
  MaxChanges   \* bound: how often readers are plugged in or out

ASSUME HotPlugAssumption ==
  /\ IsFiniteSet(Readers) /\ IsFiniteSet(Drivers) /\ MaxChanges \in Nat
  /\ FirstDriver \in Drivers /\ All \notin Drivers
  /\ DOMAIN Kind = Readers
  /\ None \notin Readers /\ Dangling \notin Readers

VARIABLES
  phase,    \* how far the daemon has come
  plugged,  \* the readers on the bus
  usb,      \* events the hotplug thread has still to handle
  fp,       \* events libfprint has still to handle
  devices,  \* share->devices: the devices of libfprint
  device,   \* priv->device: the one every driver opens
  enabled,  \* the drivers with dev->enable
  search,   \* the hotplug thread's call of device_discover
  devList,  \* bio_dev_list: its nodes
  walk,     \* what each walker is doing
  fresh,    \* the next node; no two nodes of a life of the daemon are the same
  changes,  \* how often readers were plugged in or out
  raced,    \* history: an event was handled out of step with libfprint
  crowd,    \* history: the largest crowd on the bus, one reader at a time,
            \* several of a kind, or several kinds
  torn      \* history: the drivers from whose search libfprint took a device

lists    == <<devList, fresh, walk>>
bus      == <<plugged, changes, crowd>>
library  == <<devices, device>>
finder   == <<search, torn>>
vars == <<phase, plugged, usb, fp, devices, device, enabled, search, devList, walk,
          fresh, changes, raced, crowd, torn>>

Phases == {"init", "loaded", "listed", "running", "crashed"}
Events == [reader : Readers, arrived : BOOLEAN]
Nodes  == [node : Nat, drv : enabled]

(* A search has counted n devices and is about to look whether there is another
   one ("test"), to look at it ("read"), also when what it reads is none any more
   ("stale"), or at its end ("answered"). *)
NoSearch == [at |-> "idle", n |-> 0]
Searches == [at : {"idle", "test", "read", "stale", "answered"}, n : Nat]

(* A walk is at a node; `kept` is history: what has been in the list all the
   time, and `cut` says that the node was freed under the walk. *)
NoWalk  == [at |-> "idle"]
Walks   == [at : {"walking", "over"}, want : Drivers \cup {All}, node : Nat,
            seen : SUBSET Drivers, kept : SUBSET Drivers, cut : BOOLEAN]

Crowds == {"one", "kind", "kinds"}

TypeOK ==
  /\ phase \in Phases
  /\ plugged \subseteq Readers
  /\ usb \in Seq(Events) /\ fp \in Seq(Events)
  /\ devices \in Seq(Readers)
  /\ device \in Readers \cup {None, Dangling}
  /\ enabled \subseteq Drivers
  /\ search \in Searches
  /\ devList \in Seq(Nodes)
  /\ walk \in [Walkers -> {NoWalk} \cup Walks]
  /\ fresh \in Nat /\ changes \in 0 .. MaxChanges
  /\ raced \in BOOLEAN /\ crowd \in Crowds /\ torn \subseteq Drivers

-----------------------------------------------------------------------------
(* The bus.                                                                 *)

Kinds(S) == { Kind[r] : r \in S }

Larger(c, S) ==
  IF c = "kinds" \/ Cardinality(Kinds(S)) > 1 THEN "kinds"
  ELSE IF c = "kind" \/ Cardinality(S) > 1 THEN "kind" ELSE "one"

Init ==
  /\ phase = "init"
  /\ plugged \in SUBSET Readers
  /\ usb = <<>> /\ fp = <<>>
  /\ devices = <<>> /\ device = None
  /\ enabled \in SUBSET Drivers
  /\ search = NoSearch /\ torn = {}
  /\ devList = <<>> /\ fresh = 1
  /\ walk = [w \in Walkers |-> NoWalk]
  /\ changes = 0 /\ raced = FALSE /\ crowd = Larger("one", plugged)

(* libusb has queued events since bio_init; libfprint hears of those that come
   after it has been started. *)
Notify(r, arrived) ==
  LET e == [reader |-> r, arrived |-> arrived]
  IN /\ changes < MaxChanges /\ changes' = changes + 1
     /\ usb' = IF phase # "crashed" THEN Append(usb, e) ELSE usb
     /\ fp'  = IF phase \notin {"init", "crashed"} THEN Append(fp, e) ELSE fp
     /\ crowd' = Larger(crowd, plugged')
     /\ UNCHANGED <<phase, library, finder, enabled, lists, raced>>

Plug(r)   == r \notin plugged /\ plugged' = plugged \cup {r} /\ Notify(r, TRUE)
Unplug(r) == r \in plugged /\ plugged' = plugged \ {r} /\ Notify(r, FALSE)

-----------------------------------------------------------------------------
(* device_discover, the way the drivers ask what there is.                  *)

Own(d, i) == Kind[devices[i]] = d

(* What it answers while the array stays as it is: the number of devices, which
   is 0 as soon as one is of another kind. *)
Discover(d) == IF \A i \in DOMAIN devices : Own(d, i) THEN Len(devices) ELSE 0

(* share->device, as the loop leaves it: the first device of another kind, or
   the last of all. *)
LeftBehind(devs, d) ==
  LET foreign == SelectInSeq(devs, LAMBDA r : Kind[r] # d)
  IN IF foreign # 0 THEN devs[foreign]
     ELSE IF devs # <<>> THEN devs[Len(devs)] ELSE None

-----------------------------------------------------------------------------
(* The start of the daemon, up to the main loop.                            *)

(* bio_driver_list_init: the first driver makes libfprint look at the bus and
   keeps the device its own search has left behind; the others copy that.  A
   reader that came since bio_init is found now, and once more by its event. *)
Load ==
  /\ phase = "init" /\ phase' = "loaded"
  /\ \E found \in SetToSeqs(plugged) :
       devices' = found /\ device' = LeftBehind(found, FirstDriver)
  /\ raced' = \E i \in DOMAIN usb : usb[i].arrived
  /\ UNCHANGED <<bus, usb, fp, finder, enabled, lists>>

(* Mutant of List: drivers that are not enabled are asked too. *)
ListAll ==
  /\ phase = "loaded" /\ phase' = "listed"
  /\ \E found \in SetToSeqs({ d \in Drivers : Discover(d) > 0 }) :
       /\ devList' = [i \in DOMAIN found |-> [node |-> i, drv |-> found[i]]]
       /\ fresh' = Len(found) + 1
  /\ UNCHANGED <<bus, usb, fp, library, finder, enabled, walk, raced>>

(* bio_device_list_init; the hotplug thread is started next. *)
List ==
  /\ phase = "loaded" /\ phase' = "listed"
  /\ \E found \in SetToSeqs({ d \in enabled : Discover(d) > 0 }) :
       /\ devList' = [i \in DOMAIN found |-> [node |-> i, drv |-> found[i]]]
       /\ fresh' = Len(found) + 1
  /\ UNCHANGED <<bus, usb, fp, library, finder, enabled, walk, raced>>

RunMainLoop ==
  /\ phase = "listed" /\ phase' = "running"
  /\ UNCHANGED <<bus, usb, fp, library, finder, enabled, lists, raced>>

-----------------------------------------------------------------------------
(* The hotplug thread.                                                      *)

Listed(list) == { list[i].drv : i \in DOMAIN list }

(* The history of the walks: what is in the new list too, and whose node is not. *)
Watched(list) ==
  [w \in Walkers |->
     IF walk[w].at # "walking" THEN walk[w]
     ELSE [walk[w] EXCEPT
             !.kept = @ \cap Listed(list),
             !.cut  = @ \/ walk[w].node \notin { list[i].node : i \in DOMAIN list }]]

Edit(list) == devList' = list /\ walk' = Watched(list)

(* The array of libfprint is not what the bus was after the event. *)
OutOfStep == fp # Tail(usb)

(* The driver whose id_table has the reader of the event. *)
Asked == Kind[Head(usb).reader]

HandlesEvent == phase \in {"listed", "running"} /\ usb # <<>>

EventDone ==
  /\ usb' = Tail(usb) /\ search' = NoSearch /\ raced' = (raced \/ OutOfStep)
  /\ UNCHANGED <<phase, bus, fp, library, enabled, torn>>

(* Nobody is asked about a reader whose driver is not enabled. *)
NobodyAsked ==
  /\ HandlesEvent /\ search = NoSearch /\ Asked \notin enabled
  /\ EventDone /\ UNCHANGED lists

SearchGoes(from, to, n) ==
  /\ HandlesEvent /\ search.at = from /\ search' = [at |-> to, n |-> n]
  /\ UNCHANGED <<phase, bus, usb, fp, library, enabled, lists, torn>>

(* The driver is asked. *)
SearchBegins ==
  /\ SearchGoes("idle", "test", 0) /\ Asked \in enabled
  /\ raced' = (raced \/ OutOfStep)

(* Every round reads the length again. *)
SearchTests ==
  /\ SearchGoes("test", IF search.n < Len(devices) THEN "read" ELSE "answered", search.n)
  /\ UNCHANGED raced

(* Mutant: a device of another kind ends the loop. *)
SearchReadsBreak ==
  /\ SearchGoes("read", IF Own(Asked, search.n + 1) THEN "test" ELSE "answered",
                        IF Own(Asked, search.n + 1) THEN search.n + 1 ELSE search.n)
  /\ UNCHANGED raced

(* A device of another kind makes the answer 0. *)
SearchReads ==
  /\ SearchGoes("read", IF Own(Asked, search.n + 1) THEN "test" ELSE "answered",
                        IF Own(Asked, search.n + 1) THEN search.n + 1 ELSE 0)
  /\ UNCHANGED raced

(* What is read is the device that took the place, what is left in the array
   behind its end, or a device that was freed: either answer, unless it is the
   end of the daemon, see Crash. *)
SearchReadsStale ==
  /\ \/ SearchGoes("stale", "test", search.n + 1)
     \/ SearchGoes("stale", "answered", 0)
  /\ UNCHANGED raced

Answered(arrived) ==
  HandlesEvent /\ Head(usb).arrived = arrived /\ search.at = "answered" /\ EventDone

Node(d) == [node |-> fresh, drv |-> d]

(* Mutant of Attached: one entry for a device, which goes to the head. *)
AttachedOnce(d) ==
  /\ fresh' = fresh + 1
  /\ Edit(<<Node(d)>> \o SelectSeq(devList, LAMBDA n : n.drv # d))

Attached(d) == fresh' = fresh + 1 /\ Edit(Append(devList, Node(d)))

(* g_list_remove takes out one entry, if there is one. *)
OneLess(list, d) == RemoveFirstMatch(list, LAMBDA n : n.drv = d)

(* Mutant of Detached: whatever is left of its kind. *)
DetachedAlways(d) == Edit(OneLess(devList, d))

Detached(d) ==
  IF search.n <= 0
  THEN Edit(OneLess(devList, d))
  ELSE UNCHANGED <<devList, walk>>

(* bio_usb_hotplug_callback_attach: nothing is added if the search has not found
   a device. *)
Attach ==
  /\ Answered(TRUE)
  /\ IF search.n > 0 THEN Attached(Asked) ELSE UNCHANGED lists

(* bio_usb_hotplug_callback_detach. *)
Detach == Answered(FALSE) /\ Detached(Asked) /\ UNCHANGED fresh

-----------------------------------------------------------------------------
(* The main loop: libfprint.                                                *)

(* gdbus_get_dev_list walks the list in the main loop, which does nothing else
   meanwhile. *)
MainLoopFree ==
  phase = "running" /\ \A w \in Walkers : ~ (walk[w].at = "walking" /\ walk[w].want = All)

(* Where the device that is taken out was, if it was in the array. *)
PlaceOf(r) == SelectInSeq(devices, LAMBDA x : x = r)

(* A search has counted that device or is about to look at it. *)
TornBy(r) ==
  \/ search.at = "test" /\ PlaceOf(r) \in 1 .. search.n
  \/ search.at = "read" /\ PlaceOf(r) \in 1 .. search.n + 1

(* A reader that goes takes its device along: a pointer to it dangles, also
   when the reader comes back. *)
Removes(r) ==
  /\ devices' = RemoveFirst(devices, r)
  /\ device' = IF device = r THEN Dangling ELSE device
  /\ IF TornBy(r)
     THEN /\ torn' = torn \cup {Asked}
          /\ search' = [search EXCEPT !.at = IF @ = "read" THEN "stale" ELSE @]
     ELSE UNCHANGED finder

LibraryUpdate ==
  /\ MainLoopFree /\ fp # <<>>
  /\ LET r == Head(fp).reader
     IN IF Head(fp).arrived
        THEN devices' = Append(devices, r) /\ UNCHANGED <<device, finder>>
        ELSE Removes(r)
  /\ fp' = Tail(fp)
  /\ UNCHANGED <<phase, bus, usb, enabled, lists, raced>>

-----------------------------------------------------------------------------
(* Walking the list: get_dev_by_drvid in the thread of a request and         *)
(* gdbus_get_dev_list in the main loop.                                     *)

WalkBegin(w, want) ==
  /\ phase = "running" /\ walk[w].at # "walking"
  /\ want = All => MainLoopFree
  /\ devList # <<>>
  /\ walk' = [walk EXCEPT ![w] =
       [at |-> "walking", want |-> want, node |-> devList[1].node, seen |-> {},
        kept |-> Listed(devList), cut |-> FALSE]]
  /\ UNCHANGED <<phase, bus, usb, fp, library, finder, enabled, devList, fresh, raced>>

(* One round of the loop: the search ends at the device it wants. *)
WalkOn(w) ==
  /\ walk[w].at = "walking" /\ phase # "crashed"
  /\ \E i \in DOMAIN devList :
       LET d == devList[i].drv
           over == d = walk[w].want \/ i = Len(devList)
       IN /\ devList[i].node = walk[w].node
          /\ walk' = [walk EXCEPT ![w].seen = @ \cup {d},
                                  ![w].at = IF over THEN "over" ELSE "walking",
                                  ![w].node = IF over THEN @ ELSE devList[i + 1].node]
  /\ UNCHANGED <<phase, bus, usb, fp, library, finder, enabled, devList, fresh, raced>>

(* The node was freed under the walk.  What is read of it may be the end of a
   list or anything else; it may also be the end of the daemon, see Crash. *)
WalkOff(w) ==
  /\ walk[w].at = "walking" /\ walk[w].cut /\ phase # "crashed"
  /\ \E more \in SUBSET Drivers :
       walk' = [walk EXCEPT ![w].at = "over", ![w].seen = @ \cup more]
  /\ UNCHANGED <<phase, bus, usb, fp, library, finder, enabled, devList, fresh, raced>>

-----------------------------------------------------------------------------
(* A crash, and the next start.                                             *)

Crash ==
  /\ phase # "crashed" /\ phase' = "crashed"
  /\ usb' = <<>> /\ fp' = <<>> /\ devices' = <<>> /\ device' = None
  /\ devList' = <<>> /\ fresh' = 1
  /\ walk' = [w \in Walkers |-> NoWalk]
  /\ raced' = FALSE /\ search' = NoSearch /\ torn' = {}
  /\ UNCHANGED <<bus, enabled>>

(* The configuration may have changed. *)
Restart ==
  /\ phase = "crashed" /\ phase' = "init"
  /\ enabled' \in SUBSET Drivers
  /\ crowd' = Larger("one", plugged)
  /\ UNCHANGED <<plugged, changes, usb, fp, library, finder, lists, raced>>

Search == SearchBegins \/ SearchTests \/ SearchReads \/ SearchReadsStale
HotplugThread == NobodyAsked \/ Search \/ Attach \/ Detach
Walker(w) == WalkOn(w) \/ WalkOff(w) \/ \E want \in Drivers \cup {All} : WalkBegin(w, want)

Next ==
  \/ \E r \in Readers : Plug(r) \/ Unplug(r)
  \/ Load \/ List \/ RunMainLoop
  \/ HotplugThread \/ LibraryUpdate
  \/ \E w \in Walkers : Walker(w)
  \/ Crash \/ Restart

Spec == Init /\ [][Next]_vars

-----------------------------------------------------------------------------
(* Properties.                                                              *)

(* Every driver opens priv->device, which was set when the drivers were
   loaded.  Yet a listed device does not stand for a reader of another kind:
   while libfprint has the device all drivers would open, only its own driver
   can be listed, because device_discover answers 0 to every other.  What comes
   while it searches changes nothing; what goes may make it pass over a device,
   and only then the driver may be listed all the same. *)
NeverTheWrongReader ==
  device \in Readers => \A d \in Listed(devList) \ torn : Kind[device] = d

(* When all events have been handled, the list says what is on the bus, unless
   the hotplug thread handled an event before or long after libfprint did: as
   long as all readers are of one kind, its device is listed while there is
   one; and as long as there is one reader at a time, nothing is listed that
   is gone, and nothing twice.  With two kinds at once neither is discovered,
   and of several readers of a kind each adds an entry while the last one to
   go removes one. *)
Settled == phase = "running" /\ usb = <<>> /\ fp = <<>>

ListFollowsTheBus ==
  Settled /\ ~ raced =>
    /\ crowd # "kinds" => Kinds(plugged) \cap enabled \subseteq Listed(devList)
    /\ crowd = "one" => /\ Listed(devList) \subseteq Kinds(plugged)
                        /\ Len(devList) <= 1

(* A walk without a lock misses nothing that was in the list all the time,
   unless the very node it stood on was freed. *)
WalkMissesNothing ==
  \A w \in Walkers :
    walk[w].at = "over" /\ ~ walk[w].cut =>
      \A d \in walk[w].kept : walk[w].want \in {d, All} => d \in walk[w].seen
=============================================================================
