------------------------------ MODULE DeviceList ------------------------------
(***************************************************************************)
(* PcapLiveDeviceList (header/WpdPack/.../pcap/PcapLiveDeviceList.cpp): the *)
(* singleton that makes a live device of every interface libpcap finds,    *)
(* hands the devices out by address or name, and on reset() deletes them   *)
(* all and makes them anew.  The module puts the list around LiveDevice:   *)
(* the application works with one device at a time, which it has from the  *)
(* list, or with a clone of it, which is its own.                          *)
(*                                                                         *)
(* What the list knows is a copy: interfaces come and go and get other     *)
(* addresses while it stands.  Deleting a device neither closes it nor     *)
(* joins its threads; deleting a std::thread that runs ends the process.   *)
(***************************************************************************)
EXTENDS LiveDevice, Sequences, SequencesExt

CONSTANTS
    Machines,        \* what the machine may look like
    Queries,         \* strings the application looks up
    OnLinux,         \* the system the machine runs is Linux
    MaxChanges       \* bound: changes of the machine, and resets of the list

\* An address is a record of its family and its value; an interface has a name
\* and a sequence of addresses; a machine has a sequence of interfaces, of
\* default routes and of name servers, some of which have no valid address.
Families == {"v4", "v6", "other"}
NoAddress == "none"

IsSequence(s) == s \in Seq(ToSet(s))

\* An address, and what is looked up, is a record of just two fields.
IsAddress(a) == a = [family |-> a.family, value |-> a.value]

ASSUME ListAssumption ==
    /\ OnLinux \in BOOLEAN
    /\ MaxChanges \in Nat
    /\ \A q \in Queries : IsAddress(q)
    /\ \A m \in Machines :
           /\ IsSequence(m.interfaces) /\ IsSequence(m.routes) /\ IsSequence(m.servers)
           /\ \A i \in ToSet(m.interfaces) :
                  /\ IsSequence(i.addresses)
                  /\ \A a \in ToSet(i.addresses) : IsAddress(a) /\ a.family \in Families
           /\ IsInjective([i \in 1..Len(m.interfaces) |-> m.interfaces[i].name])
           /\ IsInjective(m.servers)

VARIABLES
    machine,           \* the machine as it is
    changes,           \* changes and resets so far
    fetched,           \* the machine as the list has found it
    m_LiveDeviceList,  \* the devices, in order
    m_DnsServers,
    deleted,           \* how often the devices have been deleted
    held               \* "none", "listed" or "clone": the application's device

listVars == <<machine, changes, fetched, m_LiveDeviceList, m_DnsServers, deleted, held>>
listed   == <<machine, fetched, m_LiveDeviceList, m_DnsServers, deleted>>

------------------------------------------------------------------------------
(* A device and what its constructor finds out                             *)

\* Linux reads all routes of the interface and keeps the last; the other systems
\* keep the first.  The system may not answer.
DefaultGateway(name, m, answers) ==
    LET found == {i \in 1..Len(m.routes) : m.routes[i].interface = name}
        kept  == IF OnLinux THEN Max(found) ELSE Min(found)
    IN IF answers /\ found # {} THEN m.routes[kept].gateway ELSE NoAddress

\* The address of the adapter, if the system answers.
MacAddress(name, answers) == IF answers THEN name ELSE NoAddress

PcapLiveDevice(interface, m, answers, number) ==
    [name      |-> interface.name,
     addresses |-> interface.addresses,
     gateway   |-> DefaultGateway(interface.name, m, answers),
     mac       |-> MacAddress(interface.name, answers),
     made      |-> number]

\* The device's first address of a family.
FirstAddress(device, family) ==
    LET found == {i \in 1..Len(device.addresses) : device.addresses[i].family = family} IN
    IF found = {} THEN NoAddress ELSE device.addresses[Min(found)].value

------------------------------------------------------------------------------
(* Fetching                                                                *)

\* Windows, and macOS and FreeBSD: the valid ones are appended as they come.
PushDnsServers(known, servers) ==
    FoldLeft(LAMBDA acc, s : IF s = NoAddress THEN acc ELSE Append(acc, s),
             known, servers)

\* Linux, from the output of nmcli: what is known already is left out.
AddDnsServers(known, servers) ==
    FoldLeft(LAMBDA acc, s : IF s = NoAddress \/ Contains(acc, s) THEN acc
                             ELSE Append(acc, s), known, servers)

\* The query may also fail, or find no nmcli.
SetDnsServers(known, servers) ==
    {known, PushDnsServers(known, servers), AddDnsServers(known, servers)}

\* The devices of the machine appended to `list`; none if libpcap fails.
Devices(list, m, number) ==
    {list} \union
    {list \o [i \in 1..Len(m.interfaces) |->
                 PcapLiveDevice(m.interfaces[i], m, answers, number)] :
        answers \in BOOLEAN}

ListInit ==
    /\ Init
    /\ machine \in Machines
    /\ fetched = machine
    /\ changes = 0
    /\ deleted = 0
    /\ m_LiveDeviceList \in Devices(<< >>, machine, 0)
    /\ m_DnsServers \in SetDnsServers(<< >>, machine.servers)
    /\ held = "none"

------------------------------------------------------------------------------
(* Looking up: the position of a device in the list, 0 for nullptr          *)

Position(list, Test(_)) ==
    LET found == {i \in 1..Len(list) : Test(list[i])} IN
    IF found = {} THEN 0 ELSE Min(found)

ByIpv4(list, value) ==
    Position(list, LAMBDA d : [family |-> "v4", value |-> value] \in ToSet(d.addresses))

ByIpv6(list, value) ==
    Position(list, LAMBDA d : [family |-> "v6", value |-> value] \in ToSet(d.addresses))

ByIp(list, ip) ==
    IF ip.family = "v4" THEN ByIpv4(list, ip.value) ELSE ByIpv6(list, ip.value)

\* A string that is no address is an error.
ByIpString(list, query) ==
    IF query.family \in {"v4", "v6"} THEN ByIp(list, query) ELSE 0

ByName(list, name) == Position(list, LAMBDA d : d.name = name)

\* A string that is an address is never taken for a name.
ByIpOrName(list, query) ==
    IF query.family \in {"v4", "v6"} THEN ByIp(list, query)
    ELSE ByName(list, query.value)

------------------------------------------------------------------------------
(* What the application does with the list                                 *)

\* The device was not in use before: nobody else looks it up.
Lookup ==
    /\ held = "none"
    /\ \E q \in Queries : ByIpString(m_LiveDeviceList, q) # 0
                          \/ ByIpOrName(m_LiveDeviceList, q) # 0
    /\ held' = "listed"
    /\ UNCHANGED <<vars, listed, changes>>

\* The device of the application is as new and is another's no more.
Fresh ==
    /\ m_DeviceOpened' = FALSE
    /\ m_PcapDescriptor' = "null"
    /\ m_PcapSendDescriptor' \in Unset
    /\ m_CaptureThreadStarted' = FALSE
    /\ m_StatsThreadStarted' = FALSE
    /\ m_StopThread' = FALSE
    /\ capture' = "none"
    /\ stats' = "none"
    /\ breakLoop' = "no"
    /\ m_UsePoll' = FALSE
    /\ unread' = FALSE
    /\ UNCHANGED <<nflog, blockingCallback, app, withStats, timed>>

\* ~PcapLiveDevice, with the destructors of its members: a thread that has not
\* been joined ends the process, descriptors stay as they are.
DeleteDevice ==
    /\ app = "idle"
    /\ undefined' = (capture # "none" \/ stats # "none")
    /\ misused' = (misused \/ m_CaptureThreadStarted)
    /\ Fresh

\* clone() of a listed device that has not been used: the machine is asked again,
\* and the interface may be gone.
Clone ==
    /\ held = "listed"
    /\ app = "idle"
    /\ m_PcapDescriptor = "null"
    /\ \E d \in ToSet(m_LiveDeviceList), i \in ToSet(machine.interfaces) : d.name = i.name
    /\ held' = "clone"
    /\ UNCHANGED <<vars, listed, changes>>

DeleteClone ==
    /\ held = "clone"
    /\ DeleteDevice
    /\ held' = "none"
    /\ UNCHANGED <<listed, changes>>

\* Faulty variant of Reset: the servers of before are kept.
ResetKeepingServers ==
    /\ app = "idle"
    /\ changes < MaxChanges
    /\ changes' = changes + 1
    /\ IF held = "listed" THEN DeleteDevice /\ held' = "none"
                          ELSE UNCHANGED <<vars, held>>
    /\ deleted' = deleted + 1
    /\ fetched' = machine
    /\ m_LiveDeviceList' \in Devices(<< >>, machine, deleted')
    /\ m_DnsServers' \in SetDnsServers(m_DnsServers, machine.servers)
    /\ UNCHANGED machine

\* The application forgets the device it had from the list.
Reset ==
    /\ app = "idle"
    /\ changes < MaxChanges
    /\ changes' = changes + 1
    /\ IF held = "listed" THEN DeleteDevice /\ held' = "none"
                          ELSE UNCHANGED <<vars, held>>
    /\ deleted' = deleted + 1
    /\ fetched' = machine
    /\ m_LiveDeviceList' \in Devices(<< >>, machine, deleted')
    /\ m_DnsServers' \in SetDnsServers(<< >>, machine.servers)
    /\ UNCHANGED machine

ListNext == Lookup \/ Clone \/ DeleteClone \/ Reset

\* The machine gets other interfaces, addresses, routes or name servers.
Change ==
    /\ changes < MaxChanges
    /\ changes' = changes + 1
    /\ machine' \in Machines \ {machine}
    /\ UNCHANGED <<vars, fetched, m_LiveDeviceList, m_DnsServers, deleted, held>>

DeviceNext ==
    /\ (held # "none" /\ AppNext) \/ ThreadsNext
    /\ UNCHANGED listVars

PcapNext == ~undefined /\ (DeviceNext \/ ListNext \/ Change)

PcapSafetySpec == ListInit /\ [][PcapNext]_<<vars, listVars>>

\* Fairness is that of the device: nothing makes the application call the list.
PcapSpec == PcapSafetySpec /\ Fairness

------------------------------------------------------------------------------
(* Properties                                                              *)

\* The interface the machine had for a query when the list was fetched.
Wanted(q, i) ==
    IF q.family \in {"v4", "v6"} THEN q \in ToSet(i.addresses) ELSE i.name = q.value

\* Of several default routes of an interface the code keeps the last on Linux, where
\* every route of /proc/net/route overwrites the one before
\* (PcapLiveDevice.cpp:1028-1056), and the first elsewhere.  "If multiple gateways
\* were defined the first one will be returned" (PcapLiveDevice.h:315-316) is not
\* what Linux does.
IsKeptGateway(gateway, name, m) ==
    \E i \in 1..Len(m.routes) :
        /\ m.routes[i].interface = name /\ m.routes[i].gateway = gateway
        /\ \A j \in 1..Len(m.routes) :
               m.routes[j].interface = name => IF OnLinux THEN j <= i ELSE i <= j

\* Whatever was reset and changed before, the list is one fetch's copy and none
\* of its devices was deleted: it is empty or has the interfaces of the machine
\* as it then was, each with its own addresses and the gateway of its last route on
\* Linux, of its first elsewhere, answers every query with the first interface that
\* fits, and knows no name server but the then valid ones, each once.  What a device
\* gives as its own address of a family leads back to it, unless a device before it
\* has the same one.
ListIsOneFetch ==
    LET list == m_LiveDeviceList IN
    /\ \A d \in ToSet(list) :
           /\ d.made = deleted
           /\ d.gateway # NoAddress => IsKeptGateway(d.gateway, d.name, fetched)
    /\ list # << >> =>
           /\ Len(list) = Len(fetched.interfaces)
           /\ \A q \in Queries :
                  LET at == ByIpOrName(list, q) IN
                  /\ at # 0 => /\ Wanted(q, fetched.interfaces[at])
                               /\ list[at].name = fetched.interfaces[at].name
                  /\ \A i \in 1..Len(list) :
                         Wanted(q, fetched.interfaces[i]) => at # 0 /\ at <= i
           /\ \A i \in 1..Len(list), family \in {"v4", "v6"} :
                  LET address == [family |-> family, value |-> FirstAddress(list[i], family)]
                  IN address.value # NoAddress => ByIpString(list, address) \in 1..i
    /\ IsInjective(m_DnsServers)
    /\ ToSet(m_DnsServers) \subseteq ToSet(fetched.servers) \ {NoAddress}
==============================================================================
