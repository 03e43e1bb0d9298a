----------------------------- MODULE Handshake -----------------------------
(***************************************************************************)
(* scripts/probe-mtk-handshake.py: wait for a MediaTek boot transport,     *)
(* claim the interface it talks on and exchange four bytes with it, each   *)
(* of which the tablet answers with its complement.                        *)
(*                                                                         *)
(* Probes are started one after the other or at once, and may be stopped   *)
(* anywhere.  What a probe that gave up has left in the two pipes is there *)
(* for the next one, until the tablet disconnects.  The tablet is external *)
(* and modelled by what the script expects of it: it echoes the complement *)
(* of a byte only when it accepts the byte as the next one of the four.    *)
(***************************************************************************)
EXTENDS Integers, Sequences

CONSTANTS
    Probes,           \* runs of the script
    Configurations    \* what USB configurations a transport may have

\* START_COMMAND
Start == <<160, 10, 80, 5>>

\* value ^ 0xFF
Inverted(byte) == 255 - byte

\* Interfaces: "control" has an IN endpoint only; "data", of class 0x0A, and
\* "vendor", of another one, have both.
InterfaceKinds == {"control", "data", "vendor"}

\* The interfaces of a configuration, and the one that answers, 0 for none; a
\* probe is neither the kernel's driver nor nobody.
ASSUME HandshakeAssumption ==
    /\ \A c \in Configurations :
         /\ c.interfaces \in Seq(InterfaceKinds)
         /\ c.serving \in DOMAIN c.interfaces \cup {0}
         /\ c.serving # 0 => c.interfaces[c.serving] # "control"
    /\ Probes \cap {"driver", "nobody"} = {}

VARIABLES
    \* the tablet and the USB port
    device,         \* "none", "transport", or "other": a PID that is not one of those
    configuration,
    configured,     \* whether a configuration is set
    holder,         \* who has claimed the interface: a probe, "driver" or "nobody"
    synced,         \* how many of the four bytes the tablet has accepted
    inbox, echoes,  \* the two pipes of the serving interface
    good,           \* whether the tablet and the cable are prompt and reliable
    \* the probes
    ppc,            \* what each one does next
    opened,         \* those whose device handle is of the present connection
    late,           \* those that were waiting when their deadline passed
    interface,      \* pair.interface_number
    index,          \* the byte to be exchanged
    written         \* what the last write returned

pipeVars == <<inbox, echoes>>

deviceVars == <<device, configuration, configured, synced>>

probeVars == <<interface, index, written>>

handshakeVars == <<deviceVars, holder, pipeVars, good, ppc, opened, late, probeVars>>

Over == {"succeeded", "failed", "noprobe", "dead"}

Talking == {"write", "read"}

Working == {"wait", "configure", "select", "detach", "claim", "cdc"} \cup Talking

HandshakeInit ==
    /\ device = "none"
    /\ configuration \in Configurations
    /\ configured = FALSE
    /\ holder = "nobody"
    /\ synced = 0
    /\ inbox = <<>>
    /\ echoes = <<>>
    /\ good \in BOOLEAN
    /\ ppc = [p \in Probes |-> "start"]
    /\ opened = {}
    /\ late = {}
    /\ interface = [p \in Probes |-> 0]
    /\ index = [p \in Probes |-> 1]
    /\ written = [p \in Probes |-> 0]
-----------------------------------------------------------------------------
\* The tablet (external).

Connect ==
    /\ device = "none"
    /\ device' \in {"transport", "other"}
    /\ configuration' \in Configurations
    /\ configured' \in BOOLEAN
    /\ holder' \in {"driver", "nobody"}
    /\ UNCHANGED <<synced, pipeVars, good, ppc, opened, late, probeVars>>

\* The pipes and every handle go with the connection.
Disconnect ==
    /\ device # "none"
    /\ device' = "none"
    /\ configured' = FALSE
    /\ holder' = "nobody"
    /\ synced' = 0
    /\ inbox' = <<>>
    /\ echoes' = <<>>
    /\ opened' = {}
    /\ UNCHANGED <<configuration, good, ppc, late, probeVars>>

\* A byte is the next one and is echoed; or it is not, and the tablet waits
\* for the same one, for the first one, or takes it for the first one.  Past
\* the handshake it takes bytes for commands.
TabletReceives ==
    /\ inbox # <<>>
    /\ inbox' = Tail(inbox)
    /\ \/ /\ synced < Len(Start)
          /\ \/ Head(inbox) = Start[synced + 1] /\ synced' = synced + 1
             \/ Head(inbox) # Start[synced + 1] /\ Head(inbox) = Start[1] /\ synced' = 1
          /\ echoes' = Append(echoes, Inverted(Head(inbox)))
       \/ /\ synced < Len(Start) /\ Head(inbox) # Start[synced + 1]
          /\ synced' \in {0, synced}
          /\ UNCHANGED echoes
       \/ /\ synced = Len(Start)
          /\ UNCHANGED <<synced, echoes>>
    /\ UNCHANGED <<device, configuration, configured, holder, good, ppc, opened, late, probeVars>>

\* The deadline of a probe that waits passes.
DeadlinePasses(p) ==
    /\ ppc[p] = "wait"
    /\ p \notin late
    /\ late' = late \cup {p}
    /\ UNCHANGED <<deviceVars, holder, pipeVars, good, ppc, opened, probeVars>>
-----------------------------------------------------------------------------
\* The script.

Goto(p, to) == ppc' = [ppc EXCEPT ![p] = to]

\* The process ends; its claim, its handle and its variables end with it.
Finish(p, verdict) ==
    /\ Goto(p, verdict)
    /\ opened' = opened \ {p}
    /\ holder' = IF holder = p THEN "nobody" ELSE holder
    /\ interface' = [interface EXCEPT ![p] = 0]
    /\ index' = [index EXCEPT ![p] = 1]
    /\ written' = [written EXCEPT ![p] = 0]

\* What may go wrong with a USB call at any time.
CallFails(p) == p \notin opened \/ ~good

LoadBackend(p) ==
    /\ ppc[p] = "start"
    /\ \/ Goto(p, "wait") /\ UNCHANGED <<opened, holder, probeVars>>
       \/ Finish(p, "noprobe")
    /\ UNCHANGED <<deviceVars, pipeVars>>

\* Slip: the deadline counts only while there is nothing to be found.
DeadlineIsOverMutant(p) == p \in late /\ device = "none"

DeadlineIsOver(p) == p \in late

\* wait_for_transport
Wait(p) ==
    /\ ppc[p] = "wait"
    /\ \/ DeadlineIsOver(p) /\ Finish(p, "noprobe")
       \/ /\ ~DeadlineIsOver(p) /\ device = "transport"
          /\ opened' = opened \cup {p}
          /\ Goto(p, "configure")
          /\ UNCHANGED <<holder, probeVars>>
    /\ UNCHANGED <<deviceVars, pipeVars>>

\* prepare_configuration
PrepareConfiguration(p) ==
    /\ ppc[p] = "configure"
    /\ \/ /\ p \in opened
          /\ configured' = TRUE
          /\ Goto(p, "select")
          /\ UNCHANGED <<opened, holder, probeVars>>
       \/ /\ CallFails(p)
          /\ Finish(p, "noprobe")
          /\ UNCHANGED configured
    /\ UNCHANGED <<device, configuration, synced, pipeVars>>

Candidates(c) == {i \in DOMAIN c.interfaces : c.interfaces[i] \in {"data", "vendor"}}

DataInterfaces(c) == {i \in Candidates(c) : c.interfaces[i] = "data"}

First(S) == CHOOSE i \in S : \A j \in S : i <= j

\* Slip: the first interface that has both endpoints will do.
EndpointPairMutant(c) == First(Candidates(c))

\* The first data interface, or else the first with both endpoints.
EndpointPair(c) == IF DataInterfaces(c) # {} THEN First(DataInterfaces(c)) ELSE First(Candidates(c))

\* find_endpoint_pair, on descriptors that were read before.
FindEndpointPair(p) ==
    /\ ppc[p] = "select"
    /\ \/ /\ Candidates(configuration) # {}
          /\ interface' = [interface EXCEPT ![p] = EndpointPair(configuration)]
          /\ Goto(p, "detach")
          /\ UNCHANGED <<opened, holder, index, written>>
       \/ /\ Candidates(configuration) = {} \/ CallFails(p)
          /\ Finish(p, "noprobe")
    /\ UNCHANGED <<deviceVars, pipeVars>>

\* claim_interface: a kernel driver is detached if that works, ...
DetachDriver(p) ==
    /\ ppc[p] = "detach"
    /\ \/ p \in opened /\ holder' = IF holder = "driver" THEN "nobody" ELSE holder
       \/ CallFails(p) /\ UNCHANGED holder
    /\ Goto(p, "claim")
    /\ UNCHANGED <<deviceVars, pipeVars, opened, probeVars>>

\* ... and then the interface is claimed, which may be another's.
ClaimInterface(p) ==
    /\ ppc[p] = "claim"
    /\ \/ /\ p \in opened /\ holder = "nobody"
          /\ holder' = p
          /\ Goto(p, "cdc")
          /\ UNCHANGED <<opened, probeVars>>
       \/ /\ holder # "nobody" \/ CallFails(p)
          /\ Finish(p, "noprobe")
    /\ UNCHANGED <<deviceVars, pipeVars>>

\* Line coding and line state are set; errors are ignored.
ConfigureCdc(p) ==
    /\ ppc[p] = "cdc"
    /\ Goto(p, "write")
    /\ UNCHANGED <<deviceVars, holder, pipeVars, opened, probeVars>>

Serves(p) == interface[p] = configuration.serving

\* A byte is written and taken; or nothing is, without an error; or there is
\* an error, and the byte may have been taken all the same.
WriteByte(p) ==
    /\ ppc[p] = "write"
    /\ LET byte == Start[index[p]]
           Taken == p \in opened /\ inbox' = IF Serves(p) THEN Append(inbox, byte) ELSE inbox
       IN \/ /\ Taken
             /\ written' = [written EXCEPT ![p] = 1]
             /\ Goto(p, "read")
             /\ UNCHANGED <<opened, holder, interface, index>>
          \/ /\ p \in opened /\ ~good
             /\ written' = [written EXCEPT ![p] = 0]
             /\ Goto(p, "read")
             /\ UNCHANGED <<opened, holder, inbox, interface, index>>
          \/ /\ CallFails(p)
             /\ Taken \/ UNCHANGED inbox
             /\ Finish(p, "failed")
    /\ UNCHANGED <<deviceVars, echoes>>

\* Slip: any of the four answers will do.
AnswerIsRightMutant(p, echo) == written[p] = 1 /\ \E i \in DOMAIN Start : echo = Inverted(Start[i])

AnswerIsRight(p, echo) == written[p] = 1 /\ echo = Inverted(Start[index[p]])

\* Slip: an off-by-one at the end of the sequence.
IsLastMutant(p) == index[p] > Len(Start)

IsLast(p) == index[p] = Len(Start)

\* A byte is read and judged.
ReadEcho(p) ==
    /\ ppc[p] = "read"
    /\ p \in opened /\ Serves(p) /\ echoes # <<>>
    /\ echoes' = Tail(echoes)
    /\ \/ /\ AnswerIsRight(p, Head(echoes)) /\ ~IsLast(p)
          /\ index' = [index EXCEPT ![p] = @ + 1]
          /\ Goto(p, "write")
          /\ UNCHANGED <<opened, holder, interface, written>>
       \/ /\ AnswerIsRight(p, Head(echoes)) /\ IsLast(p)
          /\ Finish(p, "succeeded")
       \/ /\ ~AnswerIsRight(p, Head(echoes))
          /\ Finish(p, "failed")
    /\ UNCHANGED <<deviceVars, inbox>>

\* There is no answer in time, an empty one or an error.  A prompt tablet
\* has answered whatever it has received.
ReadFails(p) ==
    /\ ppc[p] = "read"
    /\ CallFails(p) \/ ~Serves(p) \/ (echoes = <<>> /\ inbox = <<>>)
    /\ Finish(p, "failed")
    /\ UNCHANGED <<deviceVars, pipeVars>>

ProbeDies(p) ==
    /\ ppc[p] \in Working
    /\ Finish(p, "dead")
    /\ UNCHANGED <<deviceVars, pipeVars>>

ProbeMove(p) ==
    \/ LoadBackend(p)
    \/ Wait(p)
    \/ PrepareConfiguration(p)
    \/ FindEndpointPair(p)
    \/ DetachDriver(p)
    \/ ClaimInterface(p)
    \/ ConfigureCdc(p)
    \/ WriteByte(p)
    \/ ReadEcho(p)
    \/ ReadFails(p)

ProbeStep(p) == ProbeMove(p) /\ UNCHANGED <<good, late>>

HandshakeNext ==
    \/ \E p \in Probes : ProbeStep(p) \/ (ProbeDies(p) /\ UNCHANGED <<good, late>>) \/ DeadlinePasses(p)
    \/ Connect
    \/ Disconnect
    \/ TabletReceives

HandshakeSpec == HandshakeInit /\ [][HandshakeNext]_handshakeVars

\* A probe goes on by itself once it runs, and a good tablet answers.
HandshakeFairSpec ==
    /\ HandshakeSpec
    /\ \A p \in Probes : WF_handshakeVars(ProbeStep(p))
    /\ WF_handshakeVars(TabletReceives /\ good)
-----------------------------------------------------------------------------
\* Types.
HandshakeTypeOK ==
    /\ device \in {"none", "transport", "other"}
    /\ configuration \in Configurations
    /\ configured \in BOOLEAN
    /\ holder \in Probes \cup {"driver", "nobody"}
    /\ synced \in 0 .. Len(Start)
    /\ inbox \in Seq({Start[i] : i \in DOMAIN Start})
    /\ echoes \in Seq({Inverted(Start[i]) : i \in DOMAIN Start})
    /\ good \in BOOLEAN
    /\ ppc \in [Probes -> Working \cup Over \cup {"start"}]
    /\ opened \subseteq Probes
    /\ late \subseteq Probes
    /\ interface \in [Probes -> Nat]
    /\ index \in [Probes -> 1 .. Len(Start)]
    /\ written \in [Probes -> {0, 1}]

\* A probe that reports success has reached a tablet that has accepted the
\* whole sequence, although it reads whatever is in the pipe, the answers an
\* earlier probe did not wait for included.
SuccessMeansInSync ==
    [][\A p \in Probes : ppc[p] # "succeeded" /\ ppc'[p] = "succeeded" =>
           device = "transport" /\ synced = Len(Start)]_handshakeVars

\* Nobody has spoken to the tablet since it connected, no other probe runs, and
\* the interface that answers is its first data interface, or it has none and
\* that is the first with both endpoints.
Reachable(p) ==
    /\ ppc[p] = "wait"
    /\ device = "transport" /\ good
    /\ synced = 0 /\ inbox = <<>> /\ echoes = <<>>
    /\ configuration.serving \in Candidates(configuration)
    /\ \A i \in DataInterfaces(configuration) : configuration.serving <= i
    /\ configuration.interfaces[configuration.serving] = "data" \/ DataInterfaces(configuration) = {}
    /\ DataInterfaces(configuration) = {} => \A i \in Candidates(configuration) : configuration.serving <= i

\* A probe reaches a good tablet that has just connected and stays, whichever
\* interfaces it has and whatever has claimed or configured them, even if
\* earlier probes have failed on earlier connections.
FreshTabletIsReached ==
    \A p \in Probes :
        []( /\ Reachable(p)
            /\ [](device = "transport" /\ p \notin late)
            /\ [](\A q \in Probes \ {p} : ppc[q] \notin Working)
            => <>(ppc[p] \in {"succeeded", "dead"}))

\* A probe whose deadline passes comes to an end, and so does one that has
\* found a transport, however the tablet comes and goes, answers or is silent.
ProbeEnds ==
    \A p \in Probes : (p \in late \/ ppc[p] \in Working \ {"wait"}) ~> ppc[p] \in Over
=============================================================================
