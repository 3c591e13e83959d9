\* Every order of calls of one device, among the resets of the list it is from;
\* every vector of up to three cores; two registrations and two threads that are
\* interrupted; the numbers of up to three interfaces, of which the third is the
\* first with two digits.
\* A call with an undefined effect ends the behaviour, hence no check for
\* deadlocks.
SPECIFICATION MCSpec
CONSTANTS
    Machines <- MCMachines
    Queries <- MCQueries
    OnLinux = TRUE
    MaxChanges = 2
    MaxCores = 4
    MaxVector = 3
    Threads = {t1, t2}
    MaxRegistrations = 2
    Base = 3
    Width = 7
    Interfaces <- MCInterfaces
    MaxInterfaces = 3
    MaxPlugs = 1
    MaxPicks = 2
INVARIANTS
    QuietWhenInactive
    DefinedUse
    ListIsOneFetch
    MasksAgree
    CalledOnce
    ListingLeadsBack
    PicksArePut
PROPERTIES
    ImplementsContract
    StopReturns
CHECK_DEADLOCK FALSE
