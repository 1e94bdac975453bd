------------------------------ MODULE Discovery ------------------------------
(***************************************************************************)
(* homewizard_exporter discover: discovery.Browse asks for one mDNS        *)
(* service after the other, under one deadline, and merges what answers;   *)
(* runDiscover prints an entry of configuration per device.                *)
(*                                                                         *)
(* The zeroconf library delivers the entries of a browse on a channel and  *)
(* closes it when the context is done (discovery.go:59).  A device answers *)
(* Delay after the question at the earliest, as often as it likes.         *)
(***************************************************************************)
EXTENDS Client, FiniteSets, SequencesExt

CONSTANTS
    Hardware,   \* the devices on the network
    Adverts,    \* device -> service -> the entries it answers with
    Timeout,    \* how long to listen
    Delay,      \* the time before the first answer
    Prompt,     \* whether every device does answer then
    Room        \* the buffer of the channel

Services == <<"_homewizard._tcp", "_hwenergy._tcp">>

\* An entry, as far as it is used: the instance name, what the TXT records say
\* of serial and type, "" if nothing, and the address, "" if there is none.
ASSUME DiscoveryAssumption ==
    /\ Timeout \in Nat /\ Delay \in Nat /\ Room \in Nat \ {0}
    /\ Prompt \in BOOLEAN
    /\ \A h \in Hardware, i \in DOMAIN Services :
        \A e \in Adverts[h][Services[i]] :
            {"instance", "serial", "type", "host"} = DOMAIN e

VARIABLES
    pc,         \* "browse", "print", "done" or "failed"
    turn,       \* which of Services is being browsed
    left,       \* the time until the deadline
    waited,     \* the time since the current browse began
    cancelled,  \* whether a signal has come
    open,       \* whether zeroconf still delivers
    entries,    \* the channel
    found,      \* key -> device
    block,      \* the entries written to standard output; whether they arrive
                \* is not looked at (discover.go:75)
    answered,   \* the devices that have answered in this browse
    heard       \* the entries that were merged: for the properties

clock == <<left, waited, cancelled>>
vars == <<pc, turn, clock, open, entries, found, block, answered, heard>>

answersOf(h) == Adverts[h][Services[turn]]
All == UNION {Adverts[h][Services[i]] : h \in Hardware, i \in DOMAIN Services}

\* The context: context.WithTimeout, below signal.NotifyContext.
DoneBySignal == cancelled
Done == left = 0 \/ cancelled

TypeOK ==
    /\ pc \in {"browse", "print", "done", "failed"}
    /\ turn \in DOMAIN Services
    /\ left \in 0 .. Timeout /\ waited \in 0 .. Timeout - left
    /\ {cancelled, open} \subseteq BOOLEAN
    /\ entries \in Seq(All) /\ Len(entries) <= Room
    /\ heard \subseteq All /\ answered \subseteq Hardware
    /\ Cardinality(DOMAIN found) <= Cardinality(heard)
    /\ block # <<>> => pc = "done"

Init ==
    /\ pc = "browse" /\ turn = 1
    /\ left = Timeout /\ waited = 0 /\ cancelled = FALSE
    /\ open = TRUE /\ entries = <<>> /\ answered = {}
    /\ found = [k \in {} |-> {}] /\ heard = {}
    /\ block = <<>>

-----------------------------------------------------------------------------
\* A device answers, and zeroconf puts the entry in the channel once there is
\* room.
Deliver(h) ==
    /\ pc = "browse" /\ open /\ waited >= Delay
    /\ Len(entries) < Room
    /\ \E e \in answersOf(h) : entries' = Append(entries, e)
    /\ answered' = answered \cup {h}
    /\ UNCHANGED <<pc, turn, clock, open, found, block, heard>>

\* zeroconf closes the channel once the context is done, or gives up at once.
Close ==
    /\ pc = "browse" /\ open
    /\ Done /\ open' = FALSE
    /\ UNCHANGED <<pc, turn, clock, entries, found, block, answered, heard>>

BrowseFails ==
    /\ pc = "browse" /\ open
    /\ pc' = "failed"
    /\ UNCHANGED <<turn, clock, open, entries, found, block, answered, heard>>

\* What is learnt of a device: a later entry overrides the address and the type
\* if it has them, and never takes a service away.  (Of the API version of the v2
\* service and the flag of the v1 service it overrides what was known in any
\* case; both only show in comments of the block, which is left out.)
KeyByInstance(e) == e.instance
key(e) == IF e.serial # "" THEN e.serial ELSE e.instance

Unknown(e) ==
    [instance |-> e.instance, serial |-> e.serial, host |-> "", type |-> "",
     services |-> {}]

overwritten(device, e) ==
    [device EXCEPT !.host = e.host, !.type = e.type,
                   !.services = @ \cup {Services[turn]}]
merged(device, e) ==
    [device EXCEPT !.host = IF e.host # "" THEN e.host ELSE @,
                   !.type = IF e.type # "" THEN e.type ELSE @,
                   !.services = @ \cup {Services[turn]}]

\* The goroutine that ranges over the channel.
merge ==
    /\ pc = "browse" /\ entries # <<>>
    /\ LET e == Head(entries)
           device == IF key(e) \in DOMAIN found THEN found[key(e)] ELSE Unknown(e)
       IN  /\ found' = [k \in DOMAIN found \cup {key(e)} |->
                            IF k = key(e) THEN merged(device, e) ELSE found[k]]
           /\ heard' = heard \cup {e}
    /\ entries' = Tail(entries)
    /\ UNCHANGED <<pc, turn, clock, open, block, answered>>

\* <-done: the channel is closed and drained; on to the next service.
NextService ==
    /\ pc = "browse" /\ ~open /\ entries = <<>>
    /\ IF turn < Len(Services)
       THEN turn' = turn + 1 /\ open' = TRUE /\ UNCHANGED pc
       ELSE pc' = "print" /\ UNCHANGED <<turn, open>>
    /\ waited' = 0 /\ answered' = {}
    /\ UNCHANGED <<left, cancelled, entries, found, block, heard>>

-----------------------------------------------------------------------------
deviceName(device) ==
    CASE device.type = ProductP1     -> "p1"
      [] device.type \in KWhMeters   -> "kwh"
      [] device.type = ProductSocket -> "socket"
      [] device.type = "HWE-WTR"     -> "water"
      [] device.type = "HWE-BAT"     -> "battery"
      [] OTHER                       -> "device"

\* The n-th device of a name is called name, or name followed by n: <<name, n>>.
NoSuffix(devices, i) == <<deviceName(devices[i]), 1>>
uniqueName(devices, i) ==
    <<deviceName(devices[i]),
      Cardinality({j \in 1 .. i :
                    deviceName(devices[j]) = deviceName(devices[i])})>>

\* The devices are sorted by type and serial, which decides no more than who
\* gets which number.
PrintBlock ==
    /\ pc = "print"
    /\ pc' = "done"
    /\ \E order \in SetToSeqs(DOMAIN found) :
        LET devices == [i \in DOMAIN order |-> found[order[i]]]
        IN  block' = [i \in DOMAIN order |->
                        [name |-> uniqueName(devices, i),
                         host |-> devices[i].host, key |-> order[i]]]
    /\ UNCHANGED <<turn, clock, open, entries, found, answered, heard>>

\* Time passes until the deadline; a prompt device does not let it pass without
\* an answer.
Tick ==
    /\ pc = "browse" /\ left > 0
    /\ Prompt /\ waited >= Delay =>
            \A h \in Hardware : answersOf(h) # {} => h \in answered
    /\ left' = left - 1 /\ waited' = waited + 1
    /\ UNCHANGED <<pc, turn, cancelled, open, entries, found, block, answered,
                   heard>>

Signal ==
    /\ pc = "browse" /\ ~cancelled
    /\ cancelled' = TRUE
    /\ UNCHANGED <<pc, turn, left, waited, open, entries, found, block, answered,
                   heard>>

Consumer == merge \/ NextService \/ PrintBlock

Next == Consumer \/ Close \/ BrowseFails \/ Tick \/ Signal
            \/ \E h \in Hardware : Deliver(h)

Spec == Init /\ [][Next]_vars

\* The library keeps to its context, also while devices go on answering.
FairSpec == Spec /\ WF_vars(Consumer) /\ SF_vars(Close) /\ WF_vars(Tick)
-----------------------------------------------------------------------------
\* Whatever the order of the answers, and however they are repeated: each device
\* that was heard has its entry, with an address if any of its answers had one.
HeardIsPrinted ==
    pc = "done" => \A e \in heard :
        \E i \in DOMAIN block :
            /\ block[i].key = key(e)
            /\ e.host # "" => block[i].host # ""

\* The keys a device may be found under.
KeysOf(h) == {key(e) : e \in UNION {Adverts[h][s] : s \in DOMAIN Adverts[h]}}

\* The block can be pasted as far as it goes: it names no device twice, although
\* a device answers for two services, and two devices of a type may answer, and
\* it gives no name twice, which config.Validate would refuse.
OneEntryPerDevice ==
    /\ \A h \in Hardware :
        Cardinality({i \in DOMAIN block : block[i].key \in KeysOf(h)}) <= 1
    /\ \A i, j \in DOMAIN block : block[i].name = block[j].name => i = j

\* The command ends.
DiscoverReturns == <>(pc \in {"done", "failed"})
-----------------------------------------------------------------------------
\* discover.go:28: "Finds HomeWizard devices on the local network over mDNS and
\* prints them."  So a device that answers promptly is printed, unless the
\* command is interrupted.
PromptDevicesAreFound ==
    (pc = "done" /\ ~cancelled) =>
        \A h \in Hardware : \E i \in DOMAIN block : block[i].key \in KeysOf(h)
-----------------------------------------------------------------------------
(* The inductive invariant behind the safety properties.                     *)

\* Which entries there are says which devices were found, and a device has an
\* address as soon as one of its entries had one.
Merged ==
    /\ IsFiniteSet(heard)
    /\ DOMAIN found = {key(e) : e \in heard}
    /\ \A k \in DOMAIN found : "host" \in DOMAIN found[k]
    /\ \A e \in heard : e.host # "" => found[key(e)].host # ""

\* Every device found is printed once, as it was found, under its own name.
Printed ==
    pc = "done" =>
        /\ \A k \in DOMAIN found : \E i \in DOMAIN block : block[i].key = k
        /\ \A i \in DOMAIN block : block[i].host = found[block[i].key].host
        /\ \A i, j \in DOMAIN block :
            \/ i = j
            \/ block[i].key # block[j].key /\ block[i].name # block[j].name

IInv == TypeOK /\ Merged /\ Printed

\* The premise on the network: a device is called the same in all it advertises.
OneKeyEach == \A h \in Hardware : \A k1, k2 \in KeysOf(h) : k1 = k2
=============================================================================
