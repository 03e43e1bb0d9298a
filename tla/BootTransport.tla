--------------------------- MODULE BootTransport ---------------------------
(***************************************************************************)
(* scripts/wait-bind-rt7-brom.ps1: wait for the tablet's short-lived boot  *)
(* transport, share it with usbipd and attach it to Docker's WSL.  The     *)
(* tablet reconnects whenever it likes, as preloader (PID 2000), BootROM   *)
(* (0003), Android META (200e) or not at all, on the same USB bus id; so   *)
(* every command the script gives by bus id may meet another device than   *)
(* the one in the state it has read.  usbipd is external: it is modelled   *)
(* by what the script uses of it.                                          *)
(***************************************************************************)
EXTENDS Naturals, FiniteSets

CONSTANTS
    BusIds,           \* USB ports
    InitialBindings   \* the bindings usbipd may have persisted before

Identities == {"2000", "0003", "200e"}

TargetPids == {"2000", "0003"}

\* A device instance, as Windows names it: what it is and where it is plugged.
Instances == Identities \X BusIds

\* There is a port, and usbipd persists for each instance one of three things.
ASSUME TransportAssumption ==
    /\ BusIds # {}
    /\ InitialBindings \subseteq [Instances -> {"none", "shared", "forced"}]

VARIABLES
    port,        \* port[b]: the identity connected at bus id b, or "none"
    client,      \* client[b]: whether that device is attached to a client
    binding,     \* binding[i]: "none", "shared" or "forced", persisted by usbipd
    execute, force, elevated,   \* -Execute, -Force, an elevated process
    expired,     \* whether the deadline has passed
    wpc,         \* what the script does next
    unbind,      \* hardware ids whose non-forced binding is still to be removed
    bus, pid,    \* busId and transportPid, from the last state with a device
    ready,       \* bindingReady, from that state
    isAttached,  \* whether that state showed a client
    attachedAs   \* history: the identity the script last found or made attached

hostVars == <<port, client, binding>>

optionVars == <<execute, force, elevated>>

scriptVars == <<wpc, unbind, bus, pid, ready, isAttached, attachedAs>>

transportVars == <<hostVars, optionVars, expired, scriptVars>>

WaitFinished == {"refused", "failed", "reported", "ready", "timedOut"}

TransportInit ==
    /\ port \in [BusIds -> Identities \cup {"none"}]
    /\ binding \in InitialBindings
    /\ client \in [BusIds -> BOOLEAN]
    /\ \A b \in BusIds :
         client[b] => port[b] # "none" /\ binding[<<port[b], b>>] # "none"
    /\ execute \in BOOLEAN
    /\ force \in BOOLEAN
    /\ elevated \in BOOLEAN
    /\ expired = FALSE
    /\ wpc = "arguments"
    /\ unbind = {}
    /\ bus = CHOOSE b \in BusIds : TRUE
    /\ pid = "none"
    /\ ready = FALSE
    /\ isAttached = FALSE
    /\ attachedAs = "none"
-----------------------------------------------------------------------------
\* PersistedGuid -and (-not Force -or IsForced)
BindingReady(i) == binding[i] = "forced" \/ (binding[i] = "shared" /\ ~force)

\* -Force requires -Execute; with both, the non-forced bindings are looked up.
CheckArguments ==
    /\ wpc = "arguments"
    /\ \/ /\ force /\ ~execute
          /\ wpc' = "refused"
          /\ UNCHANGED unbind
       \/ /\ force /\ execute
          /\ unbind' = {i \in TargetPids : \E b \in BusIds : binding[<<i, b>>] = "shared"}
          /\ wpc' = "unbind"
       \/ /\ ~force
          /\ wpc' = "poll"
          /\ UNCHANGED unbind
    /\ UNCHANGED <<hostVars, optionVars, expired, bus, pid, ready, isAttached, attachedAs>>

\* Slip: usbipd is left to find out.
MayChangeBindingMutant == TRUE

\* Assert-Administrator
MayChangeBinding == elevated

\* usbipd unbind --hardware-id removes every binding of the identity, or fails.
Unbind ==
    /\ wpc = "unbind"
    /\ \/ /\ unbind = {}
          /\ wpc' = "poll"
          /\ UNCHANGED <<unbind, binding>>
       \/ \E i \in unbind :
            /\ MayChangeBinding
            /\ binding' = [x \in Instances |-> IF x[1] = i THEN "none" ELSE binding[x]]
            /\ unbind' = unbind \ {i}
            /\ UNCHANGED wpc
       \/ /\ unbind # {}     \* not elevated, or usbipd fails
          /\ wpc' = "refused"
          /\ UNCHANGED <<unbind, binding>>
    /\ UNCHANGED <<port, client, optionVars, expired, bus, pid, ready, isAttached, attachedAs>>

\* Slip: every MediaTek device matches.
TransportsMutant == {b \in BusIds : port[b] # "none"}

\* Connected boot-transport devices.
Transports == {b \in BusIds : port[b] \in TargetPids}

\* Slip: the deadline is looked at only when there is nothing to do.
TimeIsUpMutant == expired /\ Transports = {}

TimeIsUp == expired

\* The loop condition, one state query, and what it shows.
Poll ==
    /\ wpc = "poll"
    /\ \/ /\ TimeIsUp
          /\ wpc' = "timedOut"
          /\ UNCHANGED <<bus, pid, ready, isAttached>>
       \/ /\ ~TimeIsUp /\ Cardinality(Transports) > 1
          /\ wpc' = "refused"
          /\ UNCHANGED <<bus, pid, ready, isAttached>>
       \/ /\ ~TimeIsUp
          /\ \E b \in BusIds :
               /\ Transports = {b}
               /\ bus' = b
               /\ pid' = port[b]
               /\ ready' = BindingReady(<<port[b], b>>)
               /\ isAttached' = client[b]
          /\ wpc' = IF execute THEN "decide" ELSE "reported"
    /\ UNCHANGED <<hostVars, optionVars, expired, unbind, attachedAs>>

\* The binding is good, or it has to be made, or must not be.
Decide ==
    /\ wpc = "decide"
    /\ wpc' = IF ready THEN "attach" ELSE IF MayChangeBinding THEN "bind" ELSE "refused"
    /\ UNCHANGED <<hostVars, optionVars, expired, unbind, bus, pid, ready, isAttached, attachedAs>>

\* usbipd bind [--force] --busid: whatever is connected there now is bound; it
\* may report success and not persist it, or fail.
Bind ==
    /\ wpc = "bind"
    /\ \/ /\ port[bus] # "none"
          /\ \/ binding' = [binding EXCEPT ![<<port[bus], bus>>] =
                               IF force THEN "forced" ELSE "shared"]
             \/ UNCHANGED binding
          /\ wpc' = "recheck"
       \/ /\ wpc' = "poll"
          /\ UNCHANGED binding
    /\ UNCHANGED <<port, client, optionVars, expired, unbind, bus, pid, ready, isAttached, attachedAs>>

\* Slip: the exit status of usbipd bind is taken for the binding.
BindingPersistedMutant == TRUE

\* The instance seen first, and none other, has the binding asked for.
BindingPersisted == BindingReady(<<pid, bus>>)

\* The second state query: the instance seen first must have the binding now.
\* usbipd lists persisted instances whether or not they are connected.
Recheck ==
    /\ wpc = "recheck"
    /\ \/ /\ BindingPersisted
          /\ isAttached' = (port[bus] = pid /\ client[bus])
          /\ wpc' = "attach"
       \/ /\ ~BindingPersisted
          /\ wpc' = "poll"
          /\ UNCHANGED isAttached
    /\ UNCHANGED <<hostVars, optionVars, expired, unbind, bus, pid, ready, attachedAs>>

\* usbipd attach --busid: succeeds for a bound device that is there and free.
CanAttach(b) == port[b] # "none" /\ binding[<<port[b], b>>] # "none" /\ ~client[b]

\* Slip: a failed attach is fatal.
AfterAttachFailedMutant == "refused"

\* The identity was too short-lived: wait on.
AfterAttachFailed == "poll"

Attach ==
    /\ wpc = "attach"
    /\ \/ /\ isAttached
          /\ attachedAs' = pid
          /\ wpc' = "attached"
          /\ UNCHANGED client
       \/ /\ ~isAttached /\ CanAttach(bus)
          /\ client' = [client EXCEPT ![bus] = TRUE]
          /\ attachedAs' = port[bus]
          /\ wpc' = "attached"
       \/ /\ ~isAttached /\ ~CanAttach(bus)
          /\ wpc' = AfterAttachFailed
          /\ UNCHANGED <<client, attachedAs>>
    /\ UNCHANGED <<port, binding, optionVars, expired, unbind, bus, pid, ready, isAttached>>

\* Slip: the preloader will do.
IsGoalMutant(i) == i \in TargetPids

IsGoal(i) == i = "0003"

\* BootROM ends the wait; the preloader is followed to its reconnect.
Conclude ==
    /\ wpc = "attached"
    /\ wpc' = IF IsGoal(pid) THEN "ready" ELSE "poll"
    /\ UNCHANGED <<hostVars, optionVars, expired, unbind, bus, pid, ready, isAttached, attachedAs>>
\* Where the script asks usbipd for its state.
Queries == \/ wpc = "arguments" /\ force /\ execute
           \/ wpc = "poll" /\ ~TimeIsUp
           \/ wpc = "recheck"

\* usbipd gives no state that can be read, which ends the script.
QueryFails ==
    /\ Queries
    /\ wpc' = "failed"
    /\ UNCHANGED <<hostVars, optionVars, expired, unbind, bus, pid, ready, isAttached, attachedAs>>
-----------------------------------------------------------------------------
\* The tablet, or its cable (external).
Reconnect ==
    /\ \E b \in BusIds, i \in Identities \cup {"none"} :
         /\ port[b] # i
         /\ port' = [port EXCEPT ![b] = i]
         /\ client' = [client EXCEPT ![b] = FALSE]
    /\ UNCHANGED <<binding, optionVars, expired, scriptVars>>

\* The clock reaches the deadline (external).
Expire ==
    /\ ~expired
    /\ expired' = TRUE
    /\ UNCHANGED <<hostVars, optionVars, scriptVars>>

WaitStep ==
    \/ CheckArguments
    \/ Unbind
    \/ Poll
    \/ Decide
    \/ Bind
    \/ Recheck
    \/ Attach
    \/ Conclude

TransportNext == WaitStep \/ QueryFails \/ Reconnect \/ Expire

TransportSpec == TransportInit /\ [][TransportNext]_transportVars
-----------------------------------------------------------------------------
TransportTypeOK ==
    /\ port \in [BusIds -> Identities \cup {"none"}]
    /\ client \in [BusIds -> BOOLEAN]
    /\ binding \in [Instances -> {"none", "shared", "forced"}]
    /\ {execute, force, elevated, expired, ready, isAttached} \subseteq BOOLEAN
    /\ wpc \in WaitFinished \cup {"arguments", "unbind", "poll", "decide", "bind",
                                  "recheck", "attach", "attached"}
    /\ unbind \in SUBSET TargetPids
    /\ bus \in BusIds
    /\ pid \in TargetPids \cup {"none"}
    /\ attachedAs \in Identities \cup {"none"}

\* A binding never outlives a -Force run as a shared one: when the script
\* reports BootROM ready, usbipd holds a forced binding for that very instance,
\* although the tablet may have reconnected between any two of its commands.
ReadyIsBoundAsAsked ==
    wpc = "ready" => binding[<<"0003", bus>>] = "forced"
                       \/ (~force /\ binding[<<"0003", bus>>] = "shared")

\* Without -Execute, or without elevation, no binding changes; and without
\* -Execute nothing is attached (a device only detaches by reconnecting).
BindingsNeedConsent ==
    [][/\ binding' # binding => execute /\ elevated
       /\ ~execute => \A b \in BusIds : client'[b] => client[b]]_transportVars

\* The script runs on: the one thing the waiting properties need.  They take
\* the passing of the deadline as a hypothesis, or do without a clock.
TransportFairSpec == TransportSpec /\ WF_transportVars(WaitStep)

\* The wait ends once the deadline has passed: whatever the tablet does, every
\* branch of the loop comes back to the deadline check.
WaitEnds == <>expired => <>(wpc \in WaitFinished)

\* BootROM alone on some bus, properly bound, before the deadline.
BootRomWaits ==
    \E b \in BusIds : /\ Transports = {b}
                      /\ port[b] = "0003"
                      /\ BindingReady(<<"0003", b>>)
                      /\ ~expired

NothingToUnbind == \A b \in BusIds, i \in TargetPids : force => binding[<<i, b>>] # "shared"

\* The script follows the tablet to BootROM: once BootROM stays connected with
\* the binding asked for, the wait ends with it, whatever command the script
\* was giving for the preloader when the tablet reconnected.  The wait does not
\* survive a failing state query, so the property asks for none.
FollowsToBootRom ==
    /\ execute /\ elevated /\ NothingToUnbind
    /\ [](Cardinality(Transports) <= 1)
    /\ <>[]BootRomWaits
    /\ [](wpc # "failed")
    => <>(wpc = "ready")

\* docs/recovery.md:96-98: the script attaches BootROM and exits after it is
\* attached, so what it attached last is BootROM.
ReadyMeansBootRomAttached == wpc = "ready" => attachedAs = "0003"
=============================================================================
