---------------------------- MODULE DeviceListing ----------------------------
(***************************************************************************)
(* How a device gets its number and back: builderDevice.cpp lists the      *)
(* interfaces of the machine, fnDevCPPDLL (ipc.cpp) hands the list to      *)
(* WpfApp, the user picks an entry, NavigationViewModel takes the number   *)
(* off it, and fnPutdevCPPDLL selects the interface of that number.        *)
(* sniffer_packages.dll keeps nothing of it: every call finds the          *)
(* interfaces anew, and they may come and go in between.                   *)
(*                                                                         *)
(* Picks go through one BackgroundWorker, _worker.  Every pick adds a      *)
(* handler to its event DoWork and none is ever removed, so every run      *)
(* starts a task for each pick so far, which nobody waits for; and a run   *)
(* asked for before the last has been completed is refused.                *)
(*                                                                         *)
(* An interface is a record of its name and its description, a sequence of *)
(* the lengths of its words, empty where pcap has none.  The texts of the  *)
(* entries and the base of their numbers are scaled down together.         *)
(***************************************************************************)
EXTENDS Integers, Sequences, SequencesExt, FiniteSetsExt

CONSTANTS
    Base,            \* of the numbers: 10
    Width,           \* of an entry: 53
    Interfaces,      \* what an interface may look like
    MaxInterfaces,   \* bound: interfaces of a machine
    MaxPlugs,        \* bound: changes of the machine
    MaxPicks         \* bound: entries the user picks

ASSUME ListingAssumption ==
    /\ Base \in Nat \ {0, 1}
    /\ Width \in Nat
    /\ Interfaces \subseteq [name : STRING, description : Seq(Nat)]
    /\ MaxInterfaces \in Nat
    /\ MaxPlugs \in Nat
    /\ MaxPicks \in Nat

\* No two interfaces of a machine have one name.
MachineStates == {m \in SeqOf(Interfaces, MaxInterfaces) : IsInjective(m)}

VARIABLES
    plugged,         \* its interfaces
    plugs,           \* changes so far
    asked,           \* the machine as it was counted and listed
    count,           \* the length of the arrays of GetAllDevices
    list,            \* the entries the user sees
    overrun,         \* fnDevCPPDLL has written behind the arrays
    handlers,        \* of DoWork, one for each pick: the position of its entry, and
                     \* whether the run it asked for was refused
    worker,          \* _worker: "idle", "started" or "worked"
    tasks,           \* per handler: its tasks that have not yet put its number
    put,             \* handlers whose number has been put
    latest,          \* the handler whose number was put last, 0 before
    found,           \* the machine as it then was
    selected         \* the name of the interface fnPutdevCPPDLL opens

pickVars    == <<handlers, worker, tasks, put, latest, found, selected>>
listingVars == <<plugged, plugs, asked, count, list, overrun, pickVars>>

Entries == [number : Nat, words : Seq(Nat)]

\* What PutDevice may have selected, "" for nothing.
Names == {interface.name : interface \in Interfaces} \union {""}

ListingTypeOK ==
    /\ plugged \in MachineStates
    /\ plugs \in 0..MaxPlugs
    /\ asked \in Seq(MachineStates) /\ Len(asked) <= 2
    /\ count \in 0..MaxInterfaces
    /\ list \in Seq(Entries) /\ Len(list) <= MaxInterfaces
    /\ overrun \in BOOLEAN
    /\ handlers \in Seq([entry : 1..MaxInterfaces, refused : BOOLEAN])
    /\ Len(handlers) <= MaxPicks
    /\ worker \in {"idle", "started", "worked"}
    /\ tasks \in [1..MaxPicks -> Nat]
    /\ put \subseteq 1..MaxPicks
    /\ latest \in 0..MaxPicks
    /\ found \in MachineStates
    /\ selected \in Names

------------------------------------------------------------------------------
(* builderDevice::Builder, of which every call makes one                   *)

\* Its lists are empty until it looks, and freed with it.
Builder(inum) ==
    [inum |-> inum, alldevs |-> << >>, deviceCount |-> 0, deviceList |-> << >>]

FindDevices(builder, interfaces) ==
    [builder EXCEPT !.alldevs = interfaces, !.deviceCount = Len(interfaces)]

\* SelectDevice, with alldevs found: the interface, or an exception.
Selects(builder) == builder.inum \in 1..builder.deviceCount
SelectDevice(builder) == builder.alldevs[builder.inum]

\* std::to_string(n).size()
Digits[n \in Nat] == IF n < Base THEN 1 ELSE 1 + Digits[n \div Base]

\* The letters of "idx_description" with one blank between words, up to and with
\* the blank that follows word k.
UpTo(idx, description, k) ==
    FoldLeft(+, Digits[idx] + 1 + k, SubSeq(description, 1, k))

\* An entry is cut to Width letters and then before its last blank, even when
\* nothing was too long: the last word always goes, unless it is the only one.
Words(idx, description) ==
    LET blanks == {k \in 1..Len(description) - 1 : UpTo(idx, description, k) <= Width} IN
    IF blanks = {} THEN 1 ELSE Max(blanks)

Entry(idx, interface) ==
    [number |-> idx, words |-> SubSeq(interface.description, 1,
                                      Words(idx, interface.description))]

\* Faulty variant of ListDevices: only the interfaces listed are counted.
ListDevicesNumbered(builder) ==
    LET described == SelectSeq(builder.alldevs, LAMBDA i : i.description # << >>) IN
    [builder EXCEPT !.deviceList =
        [i \in 1..Len(described) |-> Entry(i, described[i])]]

\* Interfaces without a description are counted, and left out.
ListDevice(interfaces, l, idx) ==
    IF interfaces[idx].description = << >> THEN l
    ELSE Append(l, Entry(idx, interfaces[idx]))

ListDevices(builder) ==
    [builder EXCEPT !.deviceList =
        FoldLeftDomain(LAMBDA l, idx : ListDevice(builder.alldevs, l, idx),
                       << >>, builder.alldevs)]

\* Build().getDevices()
GetDevices(builder) == builder.deviceList

------------------------------------------------------------------------------
(* The way of an entry                                                     *)

fnDevCPPDLL(interfaces) == GetDevices(ListDevices(FindDevices(Builder(0), interfaces)))

ListingInit ==
    /\ plugged \in MachineStates
    /\ plugs = 0
    /\ asked = << >>
    /\ count = 0
    /\ list = << >>
    /\ overrun = FALSE
    /\ handlers = << >>
    /\ worker = "idle"
    /\ tasks = [k \in 1..MaxPicks |-> 0]
    /\ put = {}
    /\ latest = 0
    /\ found = plugged
    /\ selected = ""

\* DevicesPtr.GetAllDevices asks for the number of entries and allocates.
CountDevices ==
    /\ asked = << >>
    /\ asked' = <<plugged>>
    /\ count' = Len(fnDevCPPDLL(plugged))
    /\ UNCHANGED <<plugged, plugs, list, overrun, pickVars>>

\* It asks for the entries, however many there are now.
GetAllDevices ==
    /\ Len(asked) = 1
    /\ asked' = Append(asked, plugged)
    /\ list' = fnDevCPPDLL(plugged)
    /\ overrun' = (Len(list') > count)
    /\ UNCHANGED <<plugged, plugs, count, pickVars>>

\* SetDevice parses one letter of the entry.
FirstDigit[n \in Nat] == IF n < Base THEN n ELSE FirstDigit[n \div Base]

\* The user picks an entry: SetDevice adds a handler and asks for a run, which
\* throws if the worker is busy; the handler stays.
SetDevice(i) ==
    /\ Len(asked) = 2 /\ ~overrun
    /\ Len(handlers) < MaxPicks
    /\ handlers' = Append(handlers, [entry |-> i, refused |-> worker # "idle"])
    /\ worker' = IF worker = "idle" THEN "started" ELSE worker
    /\ UNCHANGED <<plugged, plugs, asked, count, list, overrun, tasks, put, latest,
                   found, selected>>

\* Faulty variant of DoWork: the newest handler comes too late for the run.
DoWorkWithoutNewest ==
    /\ worker = "started"
    /\ worker' = "worked"
    /\ tasks' = [k \in 1..MaxPicks |-> IF k < Len(handlers) THEN tasks[k] + 1 ELSE tasks[k]]
    /\ UNCHANGED <<plugged, plugs, asked, count, list, overrun, handlers, put, latest,
                   found, selected>>

\* The worker's thread calls every handler, each of which starts a task.
DoWork ==
    /\ worker = "started"
    /\ worker' = "worked"
    /\ tasks' = [k \in 1..MaxPicks |-> IF k <= Len(handlers) THEN tasks[k] + 1 ELSE tasks[k]]
    /\ UNCHANGED <<plugged, plugs, asked, count, list, overrun, handlers, put, latest,
                   found, selected>>

\* The user's thread hears of it.
WorkCompleted ==
    /\ worker = "worked"
    /\ worker' = "idle"
    /\ UNCHANGED <<plugged, plugs, asked, count, list, overrun, handlers, tasks, put,
                   latest, found, selected>>

\* PutDeviceAsync of handler k: any of the tasks that have been started is next.
PutDevice(k) ==
    /\ tasks[k] > 0
    /\ tasks' = [tasks EXCEPT ![k] = @ - 1]
    /\ put' = put \union {k}
    /\ latest' = k
    /\ found' = plugged
    /\ LET number == FirstDigit[list[handlers[k].entry].number]
           builder == FindDevices(Builder(number), plugged)
       IN selected' = IF Selects(builder) THEN SelectDevice(builder).name ELSE ""
    /\ UNCHANGED <<plugged, plugs, asked, count, list, overrun, handlers, worker>>

\* An interface comes or goes.
Plug ==
    /\ plugs < MaxPlugs
    /\ plugs' = plugs + 1
    /\ \/ /\ Len(plugged) < MaxInterfaces
          /\ \E i \in 1..Len(plugged) + 1, interface \in Interfaces \ ToSet(plugged) :
                 plugged' = InsertAt(plugged, i, interface)
       \/ \E i \in 1..Len(plugged) : plugged' = RemoveAt(plugged, i)
    /\ UNCHANGED <<asked, count, list, overrun, pickVars>>

ListingNext ==
    \/ CountDevices \/ GetAllDevices \/ Plug
    \/ \E i \in 1..Len(list) : SetDevice(i)
    \/ DoWork \/ WorkCompleted
    \/ \E k \in 1..MaxPicks : PutDevice(k)

ListingSafetySpec == ListingInit /\ [][ListingNext]_listingVars

------------------------------------------------------------------------------
(* Properties                                                              *)

Described(interfaces) ==
    {k \in 1..Len(interfaces) : interfaces[k].description # << >>}

\* The arrays are overrun only if there are more entries than were counted.  The
\* user sees one entry for each interface with a description, in order, which
\* begins with its description and, unless that is one long word, ends before
\* Width.  What is selected belongs to an entry the user has picked, though not
\* always the last: from the second pick on the earlier ones are put again with it,
\* in any order.  If no interface has come or gone since the listing it is the
\* interface that entry was made of, if its number has one digit; from the tenth
\* interface on one of the first nine is selected in its place.
ListingLeadsBack ==
    /\ overrun => Cardinality(Described(asked[1])) < Cardinality(Described(asked[2]))
    /\ Len(asked) >= 2 =>
           /\ Described(asked[2]) = {list[i].number : i \in 1..Len(list)}
           /\ \A i, j \in 1..Len(list) : i < j => list[i].number < list[j].number
           /\ \A i \in 1..Len(list) :
                  LET e == list[i]
                      d == asked[2][e.number].description
                  IN /\ IsPrefix(e.words, d) /\ e.words # << >>
                     /\ Len(e.words) > 1 => UpTo(e.number, d, Len(e.words)) <= Width
    /\ latest # 0 =>
           /\ latest <= Len(handlers) /\ latest \in put
           /\ found = asked[2] =>
                  LET n == list[handlers[latest].entry].number IN
                  IF n < Base
                  THEN selected = found[n].name
                  ELSE \E k \in 1..Base - 1 :
                           k = FirstDigit[n] /\ selected = found[k].name

\* Whatever was picked while, once no run and no task is under way, the number of
\* every pick whose run was not refused has been put (NavigationViewModel.cs:151-155).
\* A refused one may have been taken along by the run that was about to begin, and
\* otherwise waits for the next pick.
PicksArePut ==
    worker = "idle" /\ (\A k \in 1..MaxPicks : tasks[k] = 0) =>
        \A k \in 1..Len(handlers) : ~handlers[k].refused => k \in put
==============================================================================
