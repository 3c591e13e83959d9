---------------------------- MODULE MCLiveDevice ----------------------------
(* One device in a list of two, of a machine that takes two shapes: one      *)
(* interface goes, another comes first and has an address of a third.  The   *)
(* core masks, the interrupt handler, and the numbers that the dll gives to  *)
(* the interfaces it lists, have nothing to do with the device: whichever of *)
(* the four begins goes on alone.                                            *)
EXTENDS DeviceList, SystemUtils, InterruptHandler, DeviceListing

V4(value) == [family |-> "v4", value |-> value]
V6(value) == [family |-> "v6", value |-> value]
Name(value) == [family |-> "other", value |-> value]

Eth == [name |-> "eth", addresses |-> <<V6("a"), Name("link"), V4("a")>>]
Route(interface, gateway) == [interface |-> interface, gateway |-> gateway]

Wired == [interfaces |-> <<Eth, [name |-> "wlan", addresses |-> <<V4("b")>>]>>,
          routes     |-> <<Route("eth", "g")>>,
          servers    |-> <<"s", NoAddress>>]

Tunnel == [interfaces |-> <<[name |-> "tun", addresses |-> <<V4("a"), V6("a")>>],
                            [Eth EXCEPT !.addresses = <<V4("c"), V4("a")>>]>>,
           routes     |-> <<Route("tun", "h"), Route("eth", "g"), Route("eth", "h")>>,
           servers    |-> <<"t", "s">>]

MCMachines == {Wired, Tunnel}

MCQueries == {V4("a"), V6("a"), V4("b"), V6("b"), Name("eth"), Name("tun"), Name("lo")}

\* Without a description, and with one of short words, and of longer ones.
MCInterfaces == {[name |-> "a", description |-> << >>],
                 [name |-> "b", description |-> <<1, 1, 1>>],
                 [name |-> "c", description |-> <<2, 2, 3>>],
                 [name |-> "d", description |-> <<9>>]}

\* Each part before it begins, in one of its initial states.
NoDevice  == /\ held = "none" /\ changes = 0 /\ machine = Wired
             /\ m_LiveDeviceList = << >> /\ m_DnsServers = << >>
             /\ ~nflog /\ m_PcapSendDescriptor = "null"
NoCores   == cores = << >>
NoHandler == ~windows /\ registered = 0
NoListing == plugged = << >> /\ plugs = 0 /\ asked = << >>

MCInit == ListInit /\ CoresInit /\ HandlerInit /\ ListingInit

MCNext ==
    \/ /\ NoCores /\ NoHandler /\ NoListing
       /\ PcapNext
       /\ UNCHANGED <<cores, handlerVars, listingVars>>
    \/ /\ NoDevice /\ NoHandler /\ NoListing
       /\ AddCore
       /\ UNCHANGED <<vars, listVars, handlerVars, listingVars>>
    \/ /\ NoDevice /\ NoCores /\ NoListing
       /\ HandlerNext
       /\ UNCHANGED <<vars, listVars, cores, listingVars>>
    \/ /\ NoDevice /\ NoCores /\ NoHandler
       /\ ListingNext
       /\ UNCHANGED <<vars, listVars, cores, handlerVars>>

MCSpec ==
    MCInit /\ [][MCNext]_<<vars, listVars, cores, handlerVars, listingVars>> /\ Fairness
==============================================================================
