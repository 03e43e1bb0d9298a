---------------------------- MODULE BootRomProofs ----------------------------
(***************************************************************************)
(* Proofs about the two scripts that deal with the tablet's BootROM: the   *)
(* wait for its transport, for any ports and any persisted bindings, and   *)
(* the handshake probes, any number of them and any USB configurations.    *)
(***************************************************************************)
EXTENDS BootTransport, Handshake, SequenceTheorems, WellFoundedInduction, TLAPS
-----------------------------------------------------------------------------
(***************************************************************************)
(* The wait: the script attaches and reports only what is bound as it was  *)
(* asked to bind it, and changes bindings only with consent.               *)
(***************************************************************************)

\* Past the state query, with -Execute, about a boot transport it has seen.
Acting == {"decide", "bind", "recheck", "attach", "attached"}

\* What the script knows at its commands: consent to change bindings where it
\* changes them; a ready binding where it goes by it.  Reconnects change
\* neither, since bindings belong to instances and not to what is connected.
ScriptKnows ==
    /\ wpc = "unbind" => force /\ execute
    /\ wpc \in Acting => execute /\ pid \in TargetPids
    /\ wpc = "bind" => elevated
    /\ wpc = "decide" /\ ready => BindingReady(<<pid, bus>>)
    /\ wpc \in {"attach", "attached"} => BindingReady(<<pid, bus>>)
    /\ wpc = "ready" => pid = "0003" /\ BindingReady(<<pid, bus>>)

TransportInv == TransportTypeOK /\ ScriptKnows

THEOREM TransportInvInit == TransportInit => TransportInv
  <1> SUFFICES ASSUME TransportInit PROVE TransportInv
    OBVIOUS
  <1>1. bus \in BusIds
    BY TransportAssumption DEF TransportInit
  <1>2. TransportTypeOK
    BY <1>1, TransportAssumption DEF TransportInit, TransportTypeOK, Identities, TargetPids
  <1>3. QED
    BY <1>2 DEF TransportInit, TransportInv, ScriptKnows, Acting

THEOREM TransportInvStep == TransportInv /\ [TransportNext]_transportVars => TransportInv'
  <1> SUFFICES ASSUME TransportInv, [TransportNext]_transportVars
               PROVE  TransportInv'
    OBVIOUS
  <1> USE DEF TransportInv, TransportTypeOK, ScriptKnows, BindingReady, Acting, WaitFinished
  <1>1. CASE CheckArguments
    BY <1>1 DEF CheckArguments, hostVars, optionVars, TargetPids
  <1>2. CASE Unbind
    <2>1. CASE unbind = {} /\ wpc' = "poll" /\ UNCHANGED <<unbind, binding>>
      BY <1>2, <2>1 DEF Unbind, optionVars
    <2>2. ASSUME NEW i \in unbind,
                 binding' = [x \in Instances |-> IF x[1] = i THEN "none" ELSE binding[x]],
                 unbind' = unbind \ {i}, UNCHANGED wpc
          PROVE  TransportInv'
      BY <1>2, <2>2 DEF Unbind, optionVars
    <2>3. CASE wpc' = "refused" /\ UNCHANGED <<unbind, binding>>
      BY <1>2, <2>3 DEF Unbind, optionVars
    <2>4. QED
      BY <1>2, <2>1, <2>2, <2>3 DEF Unbind
  <1>3. CASE Poll
    <2>1. CASE wpc' \in {"timedOut", "refused"} /\ UNCHANGED <<bus, pid, ready, isAttached>>
      BY <1>3, <2>1 DEF Poll, hostVars, optionVars
    <2>2. ASSUME NEW b \in BusIds, Transports = {b}, bus' = b, pid' = port[b],
                 ready' = BindingReady(<<port[b], b>>), isAttached' = client[b],
                 wpc' = IF execute THEN "decide" ELSE "reported"
          PROVE  TransportInv'
      <3>1. port[b] \in TargetPids
        BY <2>2 DEF Transports
      <3>2. ready' \in BOOLEAN /\ client[b] \in BOOLEAN
        BY <2>2
      <3>3. QED
        BY <1>3, <2>2, <3>1, <3>2 DEF Poll, hostVars, optionVars
    <2>3. QED
      BY <1>3, <2>1, <2>2 DEF Poll
  <1>4. CASE Decide
    BY <1>4 DEF Decide, MayChangeBinding, hostVars, optionVars
  <1>5. CASE Bind
    <2>1. binding' \in [Instances -> {"none", "shared", "forced"}]
      BY <1>5 DEF Bind
    <2>2. wpc = "bind" /\ wpc' \in {"recheck", "poll"}
      BY <1>5 DEF Bind
    <2>3. QED
      BY <1>5, <2>1, <2>2 DEF Bind, optionVars
  <1>6. CASE Recheck
    BY <1>6 DEF Recheck, BindingPersisted, hostVars, optionVars
  <1>7. CASE Attach
    BY <1>7 DEF Attach, CanAttach, AfterAttachFailed, optionVars, TargetPids, Identities
  <1>8. CASE Conclude
    BY <1>8 DEF Conclude, IsGoal, hostVars, optionVars
  <1>9. CASE Reconnect
    BY <1>9 DEF Reconnect, optionVars, scriptVars
  <1>10. CASE Expire
    BY <1>10 DEF Expire, hostVars, optionVars, scriptVars
  <1>11. CASE UNCHANGED transportVars
    BY <1>11 DEF transportVars, hostVars, optionVars, scriptVars
  <1>12. CASE QueryFails
    BY <1>12 DEF QueryFails, hostVars, optionVars
  <1>13. QED
    BY <1>1, <1>2, <1>3, <1>4, <1>5, <1>6, <1>7, <1>8, <1>9, <1>10, <1>11, <1>12
       DEF TransportNext, WaitStep

THEOREM TransportInvHolds == TransportSpec => []TransportInv
  BY TransportInvInit, TransportInvStep, PTL DEF TransportSpec

\* The variables of the script and of the host keep their types.
THEOREM TransportTypes == TransportSpec => []TransportTypeOK
  BY TransportInvHolds, PTL DEF TransportInv

\* Whatever the tablet does between two commands of the script, BootROM is
\* reported ready only with the binding the run was asked for.
THEOREM ReportsWhatIsBound == TransportSpec => []ReadyIsBoundAsAsked
  <1>1. TransportInv => ReadyIsBoundAsAsked
    BY DEF TransportInv, ScriptKnows, ReadyIsBoundAsAsked, BindingReady
  <1>2. QED
    BY <1>1, TransportInvHolds, PTL

\* No step of the script changes a binding without -Execute and elevation, and
\* none attaches a device without -Execute.
THEOREM ChangesNeedConsent == TransportSpec => BindingsNeedConsent
  <1>1. TransportInv /\ [TransportNext]_transportVars
          => [/\ binding' # binding => execute /\ elevated
              /\ ~execute => \A b \in BusIds : client'[b] => client[b]]_transportVars
    <2> SUFFICES ASSUME TransportInv, TransportNext
                 PROVE  /\ binding' # binding => execute /\ elevated
                        /\ ~execute => \A b \in BusIds : client'[b] => client[b]
      OBVIOUS
    <2> USE DEF TransportInv, TransportTypeOK, ScriptKnows, Acting
    <2>1. CASE Unbind
      BY <2>1 DEF Unbind, MayChangeBinding
    <2>2. CASE Bind
      BY <2>2 DEF Bind
    <2>3. CASE Attach
      BY <2>3 DEF Attach
    <2>4. CASE Reconnect
      BY <2>4 DEF Reconnect
    <2>5. CASE CheckArguments \/ Poll \/ Decide \/ Recheck \/ Conclude \/ QueryFails \/ Expire
      BY <2>5 DEF CheckArguments, Poll, Decide, Recheck, Conclude, QueryFails, Expire, hostVars
    <2>6. QED
      BY <2>1, <2>2, <2>3, <2>4, <2>5 DEF TransportNext, WaitStep
  <1>2. QED
    BY <1>1, TransportInvHolds, PTL DEF TransportSpec, BindingsNeedConsent
-----------------------------------------------------------------------------
(***************************************************************************)
(* The probes: which interface is talked on, that one probe at a time      *)
(* talks on it, and that success means what it says.                       *)
(***************************************************************************)

StartBytes == {Start[i] : i \in DOMAIN Start}

EchoBytes == {Inverted(Start[i]) : i \in DOMAIN Start}

\* The complement of the last byte is in the pipe only after the whole sequence:
\* an earlier byte has another complement, and nothing but the end of the
\* connection, which empties the pipe, takes the tablet back.
LastEchoMeansInSync ==
    (\E i \in DOMAIN echoes : echoes[i] = Inverted(Start[Len(Start)])) => synced = Len(Start)

\* A handle is of a connection that is still there, and of a boot transport.
HandlesAreLive ==
    /\ device # "transport" => opened = {}
    /\ \A p \in opened : ppc[p] \in Working \ {"wait"}

\* Past the claim, whoever has a live handle holds the interface.
TalkersHoldTheInterface ==
    \A p \in opened : ppc[p] \in {"cdc"} \cup Talking => holder = p

HandshakeInv ==
    /\ HandshakeTypeOK
    /\ LastEchoMeansInSync
    /\ HandlesAreLive
    /\ TalkersHoldTheInterface

\* Two probes never talk to the tablet over one connection at a time.
OneProbeTalks ==
    \A p, q \in opened : ppc[p] \in Talking /\ ppc[q] \in Talking => p = q
-----------------------------------------------------------------------------
(***************************************************************************)
(* The four bytes, and the choice of an interface.                         *)
(***************************************************************************)

LEMMA StartFacts ==
    /\ Len(Start) = 4 /\ DOMAIN Start = 1 .. 4
    /\ Start[1] = 160 /\ Start[2] = 10 /\ Start[3] = 80 /\ Start[4] = 5
  BY DEF Start

LEMMA ByteFacts ==
    /\ \A i \in DOMAIN Start : Start[i] \in StartBytes /\ Inverted(Start[i]) \in EchoBytes
    /\ \A byte \in StartBytes : Inverted(byte) \in EchoBytes
    /\ \A byte \in StartBytes : Inverted(byte) = Inverted(Start[4]) => byte = Start[4]
    /\ Start[4] # Start[1] /\ Start[4] # Start[2] /\ Start[4] # Start[3]
  BY StartFacts DEF StartBytes, EchoBytes, Inverted

\* A non-empty set of natural numbers has a first element.
LEMMA FirstIsSmallest ==
    ASSUME NEW S, S \subseteq Nat, S # {}
    PROVE  First(S) \in S /\ \A j \in S : First(S) <= j
  <1> DEFINE R == {ss \in Nat \X Nat : ss[1] < ss[2]}
  <1>1. IsWellFoundedOn(R, Nat)
    BY NatLessThanWellFounded DEF OpToRel
  <1>2. PICK i \in S : \A j \in S : ~(<<j, i>> \in R)
    BY <1>1, WFMin
  <1>3. ASSUME NEW j \in S PROVE i <= j
    <2>1. i \in Nat /\ j \in Nat /\ (j < i => <<j, i>> \in R)
      OBVIOUS
    <2>2. QED
      BY <1>2, <2>1
  <1>4. QED
    BY <1>3 DEF First

\* find_endpoint_pair takes an interface with both endpoints whenever there is
\* one: the first data interface, or, without any, the first of all.
LEMMA EndpointPairIsFirst ==
    ASSUME NEW c \in Configurations, Candidates(c) # {}
    PROVE  /\ EndpointPair(c) \in Candidates(c)
           /\ DataInterfaces(c) # {} =>
                EndpointPair(c) \in DataInterfaces(c)
                /\ \A i \in DataInterfaces(c) : EndpointPair(c) <= i
           /\ DataInterfaces(c) = {} => \A i \in Candidates(c) : EndpointPair(c) <= i
  <1>1. c.interfaces \in Seq(InterfaceKinds)
    BY HandshakeAssumption
  <1>2. Candidates(c) \subseteq Nat
    BY <1>1 DEF Candidates
  <1>3. DataInterfaces(c) \subseteq Candidates(c)
    BY DEF DataInterfaces
  <1>4. QED
    BY <1>2, <1>3, FirstIsSmallest DEF EndpointPair
-----------------------------------------------------------------------------
THEOREM HandshakeInvInit == HandshakeInit => HandshakeInv
  <1> SUFFICES ASSUME HandshakeInit PROVE HandshakeInv
    OBVIOUS
  <1>1. /\ inbox \in Seq({Start[i] : i \in DOMAIN Start})
        /\ echoes \in Seq({Inverted(Start[i]) : i \in DOMAIN Start})
    BY DEF HandshakeInit
  <1>2. index \in [Probes -> 1 .. Len(Start)] /\ synced \in 0 .. Len(Start)
    BY StartFacts DEF HandshakeInit
  <1>3. HandshakeTypeOK
    BY <1>1, <1>2 DEF HandshakeInit, HandshakeTypeOK
  <1>4. QED
    BY <1>3 DEF HandshakeInit, HandshakeInv, LastEchoMeansInSync, HandlesAreLive,
                TalkersHoldTheInterface

\* The end of a process, whatever its verdict.
LEMMA FinishKeeps ==
    ASSUME HandshakeTypeOK, HandlesAreLive, TalkersHoldTheInterface,
           NEW p \in Probes, NEW verdict \in Over, Finish(p, verdict),
           UNCHANGED <<device, good, late>>
    PROVE  /\ ppc' \in [Probes -> Working \cup Over \cup {"start"}]
           /\ opened' \subseteq Probes
           /\ holder' \in Probes \cup {"driver", "nobody"}
           /\ interface' \in [Probes -> Nat]
           /\ index' \in [Probes -> 1 .. Len(Start)]
           /\ written' \in [Probes -> {0, 1}]
           /\ HandlesAreLive'
           /\ TalkersHoldTheInterface'
  <1>1. /\ ppc' = [ppc EXCEPT ![p] = verdict]
        /\ opened' = opened \ {p}
        /\ holder' = IF holder = p THEN "nobody" ELSE holder
        /\ interface' = [interface EXCEPT ![p] = 0]
        /\ index' = [index EXCEPT ![p] = 1]
        /\ written' = [written EXCEPT ![p] = 0]
    BY DEF Finish, Goto
  <1>2. \A q \in opened' : q \in opened /\ q # p /\ ppc'[q] = ppc[q]
    BY <1>1 DEF HandshakeTypeOK
  <1>3. /\ interface' \in [Probes -> Nat] /\ index' \in [Probes -> 1 .. Len(Start)]
        /\ written' \in [Probes -> {0, 1}]
        /\ ppc' \in [Probes -> Working \cup Over \cup {"start"}]
    BY <1>1, StartFacts DEF HandshakeTypeOK
  <1>4. HandlesAreLive'
    BY <1>1, <1>2 DEF HandlesAreLive
  <1>5. TalkersHoldTheInterface'
    BY <1>1, <1>2 DEF TalkersHoldTheInterface
  <1>6. QED
    BY <1>1, <1>3, <1>4, <1>5 DEF HandshakeTypeOK

\* A step to the next place in the script that neither closes a handle nor
\* reaches the part that talks from outside it.
LEMMA GotoKeeps ==
    ASSUME HandshakeTypeOK, HandlesAreLive, TalkersHoldTheInterface,
           NEW p \in Probes, NEW to \in Working, Goto(p, to),
           UNCHANGED <<device, opened, holder>>,
           p \in opened => to # "wait",
           to \in {"cdc"} \cup Talking => ppc[p] \in {"cdc"} \cup Talking
    PROVE  /\ ppc' \in [Probes -> Working \cup Over \cup {"start"}]
           /\ HandlesAreLive'
           /\ TalkersHoldTheInterface'
  <1>1. ppc' = [ppc EXCEPT ![p] = to]
    BY DEF Goto
  <1>2. QED
    BY <1>1 DEF HandshakeTypeOK, HandlesAreLive, TalkersHoldTheInterface

\* The answers in the pipe after one has been read are among those before.
LEMMA FewerEchoes ==
    ASSUME HandshakeTypeOK, LastEchoMeansInSync, echoes # <<>>,
           echoes' = Tail(echoes), synced' = synced
    PROVE  echoes' \in Seq(EchoBytes) /\ LastEchoMeansInSync'
  <1>1. echoes \in Seq(EchoBytes)
    BY DEF HandshakeTypeOK, EchoBytes
  <1>2. /\ Tail(echoes) \in Seq(EchoBytes)
        /\ Len(Tail(echoes)) = Len(echoes) - 1
        /\ \A i \in 1 .. Len(Tail(echoes)) : Tail(echoes)[i] = echoes[i + 1]
    BY <1>1, HeadTailProperties
  <1>3. \A i \in DOMAIN Tail(echoes) : i + 1 \in DOMAIN echoes /\ Tail(echoes)[i] = echoes[i + 1]
    BY <1>1, <1>2
  <1>4. QED
    BY <1>2, <1>3 DEF LastEchoMeansInSync
-----------------------------------------------------------------------------
(***************************************************************************)
(* The steps.                                                              *)
(***************************************************************************)

LEMMA TabletKeeps == HandshakeInv /\ TabletReceives => HandshakeInv'
  <1> SUFFICES ASSUME HandshakeInv, TabletReceives PROVE HandshakeInv'
    OBVIOUS
  <1> USE DEF HandshakeInv
  <1>1. inbox \in Seq(StartBytes) /\ echoes \in Seq(EchoBytes)
    BY DEF HandshakeTypeOK, StartBytes, EchoBytes
  <1>2. Head(inbox) \in StartBytes /\ inbox' \in Seq(StartBytes)
    BY <1>1, HeadTailProperties DEF TabletReceives
  <1>3. synced \in 0 .. 4
    BY StartFacts DEF HandshakeTypeOK
  <1>4. CASE /\ synced < Len(Start)
             /\ \/ Head(inbox) = Start[synced + 1] /\ synced' = synced + 1
                \/ Head(inbox) # Start[synced + 1] /\ Head(inbox) = Start[1] /\ synced' = 1
             /\ echoes' = Append(echoes, Inverted(Head(inbox)))
    <2>1. /\ echoes' \in Seq(EchoBytes)
          /\ Len(echoes') = Len(echoes) + 1
          /\ \A i \in 1 .. Len(echoes) : echoes'[i] = echoes[i]
          /\ echoes'[Len(echoes) + 1] = Inverted(Head(inbox))
      BY <1>1, <1>2, <1>4, ByteFacts, AppendProperties
    <2>2. \A i \in DOMAIN echoes : echoes[i] # Inverted(Start[4])
      BY <1>4, StartFacts DEF LastEchoMeansInSync
    <2>3. synced' \in 0 .. 4
      BY <1>3, <1>4, StartFacts
    <2>4. Inverted(Head(inbox)) = Inverted(Start[4]) => synced' = 4
      <3>1. SUFFICES ASSUME Head(inbox) = Start[4] PROVE synced' = 4
        BY <1>2, ByteFacts
      <3>2. Head(inbox) = Start[synced + 1] /\ synced' = synced + 1
        BY <1>4, <3>1, ByteFacts
      <3>3. synced \in {0, 1, 2, 3}
        BY <1>3, <1>4, StartFacts
      <3>4. QED
        BY <3>1, <3>2, <3>3, ByteFacts
    <2>5. LastEchoMeansInSync'
      <3>1. ASSUME NEW i \in DOMAIN echoes', echoes'[i] = Inverted(Start[4])
            PROVE  synced' = 4
        <4>1. i \in 1 .. Len(echoes) \/ i = Len(echoes) + 1
          BY <1>1, <2>1
        <4>2. QED
          BY <1>1, <2>1, <2>2, <2>4, <3>1, <4>1
      <3>2. QED
        BY <3>1, StartFacts DEF LastEchoMeansInSync
    <2>6. QED
      BY <1>2, <2>1, <2>3, <2>5, StartFacts
         DEF TabletReceives, probeVars, HandshakeTypeOK, HandlesAreLive,
             TalkersHoldTheInterface, StartBytes, EchoBytes
  <1>5. CASE UNCHANGED echoes /\ synced' \in {0, synced} /\ (synced = 4 => synced' = 4)
    <2>1. LastEchoMeansInSync'
      BY <1>5, StartFacts DEF LastEchoMeansInSync
    <2>2. QED
      BY <1>2, <1>3, <1>5, <2>1, StartFacts
         DEF TabletReceives, probeVars, HandshakeTypeOK, HandlesAreLive,
             TalkersHoldTheInterface, StartBytes, EchoBytes
  <1>6. QED
    BY <1>3, <1>4, <1>5, StartFacts DEF TabletReceives

\* The steps of a probe that leave the pipes and the tablet as they are.
LEMMA QuietStepsKeep ==
    ASSUME HandshakeInv, NEW p \in Probes, UNCHANGED <<good, late>>,
           \/ LoadBackend(p) \/ Wait(p) \/ PrepareConfiguration(p) \/ FindEndpointPair(p)
           \/ DetachDriver(p) \/ ClaimInterface(p) \/ ConfigureCdc(p)
           \/ ReadFails(p) \/ ProbeDies(p)
    PROVE  HandshakeInv'
  <1> USE DEF HandshakeInv
  <1> DEFINE Part == /\ ppc' \in [Probes -> Working \cup Over \cup {"start"}]
                     /\ opened' \subseteq Probes
                     /\ holder' \in Probes \cup {"driver", "nobody"}
                     /\ interface' \in [Probes -> Nat]
                     /\ index' \in [Probes -> 1 .. Len(Start)]
                     /\ written' \in [Probes -> {0, 1}]
                     /\ HandlesAreLive'
                     /\ TalkersHoldTheInterface'
  <1>1. /\ UNCHANGED <<device, configuration, synced, pipeVars, good, late>>
        /\ configured' \in BOOLEAN
    BY DEF HandshakeTypeOK, LoadBackend, Wait, PrepareConfiguration, FindEndpointPair,
           DetachDriver, ClaimInterface, ConfigureCdc, ReadFails, ProbeDies, deviceVars
  <1>2. ASSUME NEW verdict \in Over, Finish(p, verdict) PROVE Part
    BY <1>1, <1>2, FinishKeeps
  <1>3. ASSUME NEW to \in Working, Goto(p, to), UNCHANGED <<opened, holder, index, written>>,
               interface' \in [Probes -> Nat], p \in opened => to # "wait",
               to \in {"cdc"} \cup Talking => ppc[p] \in {"cdc"} \cup Talking
        PROVE  Part
    BY <1>1, <1>3, GotoKeeps DEF HandshakeTypeOK
  <1>4. CASE LoadBackend(p)
    <2>1. p \notin opened
      BY <1>4 DEF LoadBackend, HandlesAreLive, Working, Talking
    <2>2. interface \in [Probes -> Nat]
      BY DEF HandshakeTypeOK
    <2>3. Part
      BY <1>2, <1>3, <1>4, <2>1, <2>2 DEF LoadBackend, probeVars, Working, Over, Talking
    <2>4. QED
      BY <1>1, <2>3 DEF HandshakeTypeOK, LastEchoMeansInSync, pipeVars
  <1>5. CASE Wait(p)
    <2>1. ASSUME Finish(p, "noprobe") PROVE Part
      BY <1>2, <2>1 DEF Over
    <2>2. ASSUME device = "transport", opened' = opened \cup {p}, Goto(p, "configure"),
                 UNCHANGED <<holder, probeVars>>
          PROVE  Part
      <3>1. ppc' = [ppc EXCEPT ![p] = "configure"]
        BY <2>2 DEF Goto
      <3>2. HandlesAreLive'
        BY <1>1, <2>2, <3>1 DEF HandlesAreLive, HandshakeTypeOK, Working
      <3>3. TalkersHoldTheInterface'
        BY <2>2, <3>1 DEF TalkersHoldTheInterface, HandshakeTypeOK, Talking
      <3>4. QED
        BY <2>2, <3>1, <3>2, <3>3 DEF HandshakeTypeOK, Working, probeVars
    <2>3. QED
      BY <1>1, <1>5, <2>1, <2>2 DEF Wait, HandshakeTypeOK, LastEchoMeansInSync, pipeVars
  <1>6. CASE PrepareConfiguration(p)
    <2>1. Part
      BY <1>2, <1>3, <1>6 DEF PrepareConfiguration, probeVars, HandshakeTypeOK, Working, Over, Talking
    <2>2. QED
      BY <1>1, <2>1 DEF HandshakeTypeOK, LastEchoMeansInSync, pipeVars
  <1>7. CASE FindEndpointPair(p)
    <2>1. Candidates(configuration) # {} => EndpointPair(configuration) \in Nat
      <3>1. configuration \in Configurations
        BY DEF HandshakeTypeOK
      <3>2. Candidates(configuration) \subseteq Nat
        BY <3>1, HandshakeAssumption DEF Candidates
      <3>3. QED
        BY <3>1, <3>2, EndpointPairIsFirst
    <2>2. Part
      <3>1. CASE Finish(p, "noprobe")
        BY <1>2, <3>1 DEF Over
      <3>2. CASE /\ Candidates(configuration) # {}
                 /\ interface' = [interface EXCEPT ![p] = EndpointPair(configuration)]
                 /\ Goto(p, "detach")
                 /\ UNCHANGED <<opened, holder, index, written>>
        <4>1. interface' \in [Probes -> Nat]
          BY <2>1, <3>2 DEF HandshakeTypeOK
        <4>2. QED
          BY <1>3, <3>2, <4>1 DEF Working, Talking
      <3>3. QED
        BY <1>7, <3>1, <3>2 DEF FindEndpointPair
    <2>3. QED
      BY <1>1, <2>2 DEF HandshakeTypeOK, LastEchoMeansInSync, pipeVars
  <1>8. CASE DetachDriver(p)
    <2>1. ppc' = [ppc EXCEPT ![p] = "claim"] /\ UNCHANGED <<opened, probeVars>>
      BY <1>8 DEF DetachDriver, Goto
    <2>2. holder' = holder \/ (holder = "driver" /\ holder' = "nobody")
      BY <1>8 DEF DetachDriver
    <2>3. "driver" \notin Probes
      BY HandshakeAssumption
    <2>4. HandlesAreLive'
      BY <1>1, <2>1 DEF HandlesAreLive, HandshakeTypeOK, Working
    <2>5. TalkersHoldTheInterface'
      BY <2>1, <2>2, <2>3 DEF TalkersHoldTheInterface, HandshakeTypeOK, Talking
    <2>6. QED
      BY <1>1, <2>1, <2>2, <2>4, <2>5
         DEF HandshakeTypeOK, LastEchoMeansInSync, pipeVars, probeVars, Working
  <1>9. CASE ClaimInterface(p)
    <2>1. CASE Finish(p, "noprobe")
      BY <1>1, <1>2, <2>1 DEF Over, HandshakeTypeOK, LastEchoMeansInSync, pipeVars
    <2>2. CASE p \in opened /\ holder = "nobody" /\ holder' = p /\ Goto(p, "cdc")
               /\ UNCHANGED <<opened, probeVars>>
      <3>1. ppc' = [ppc EXCEPT ![p] = "cdc"]
        BY <2>2 DEF Goto
      <3>2. "nobody" \notin Probes
        BY HandshakeAssumption
      <3>3. HandlesAreLive'
        BY <1>1, <2>2, <3>1 DEF HandlesAreLive, HandshakeTypeOK, Working
      <3>4. TalkersHoldTheInterface'
        BY <2>2, <3>1, <3>2 DEF TalkersHoldTheInterface, HandshakeTypeOK
      <3>5. QED
        BY <1>1, <2>2, <3>1, <3>3, <3>4
           DEF HandshakeTypeOK, LastEchoMeansInSync, pipeVars, probeVars, Working
    <2>3. QED
      BY <1>9, <2>1, <2>2 DEF ClaimInterface
  <1>10. CASE ConfigureCdc(p)
    <2>1. Part
      BY <1>3, <1>10 DEF ConfigureCdc, probeVars, HandshakeTypeOK, Working, Talking
    <2>2. QED
      BY <1>1, <2>1 DEF HandshakeTypeOK, LastEchoMeansInSync, pipeVars
  <1>11. CASE ReadFails(p) \/ ProbeDies(p)
    <2>1. Part
      BY <1>2, <1>11 DEF ReadFails, ProbeDies, Over
    <2>2. QED
      BY <1>1, <2>1 DEF HandshakeTypeOK, LastEchoMeansInSync, pipeVars
  <1>12. QED
    BY <1>4, <1>5, <1>6, <1>7, <1>8, <1>9, <1>10, <1>11

LEMMA WriteKeeps ==
    ASSUME HandshakeInv, NEW p \in Probes, UNCHANGED <<good, late>>, WriteByte(p)
    PROVE  HandshakeInv'
  <1> USE DEF HandshakeInv
  <1>1. UNCHANGED <<device, configuration, configured, synced, echoes, good, late>>
    BY DEF WriteByte, deviceVars
  <1>2. inbox' \in Seq(StartBytes)
    <2>1. inbox \in Seq(StartBytes) /\ Start[index[p]] \in StartBytes
      BY StartFacts, ByteFacts DEF HandshakeTypeOK, StartBytes
    <2>2. inbox' \in {inbox, Append(inbox, Start[index[p]])}
      BY DEF WriteByte
    <2>3. QED
      BY <2>1, <2>2, AppendProperties
  <1>3. CASE /\ Goto(p, "read") /\ UNCHANGED <<opened, holder, interface, index>>
             /\ \E n \in {0, 1} : written' = [written EXCEPT ![p] = n]
    <2>1. ppc[p] = "write"
      BY DEF WriteByte
    <2>2. /\ ppc' \in [Probes -> Working \cup Over \cup {"start"}]
          /\ HandlesAreLive' /\ TalkersHoldTheInterface'
      BY <1>1, <1>3, <2>1, GotoKeeps DEF Working, Talking
    <2>3. QED
      BY <1>1, <1>2, <1>3, <2>2 DEF HandshakeTypeOK, LastEchoMeansInSync, StartBytes
  <1>4. CASE Finish(p, "failed")
    BY <1>1, <1>2, <1>4, FinishKeeps DEF HandshakeTypeOK, LastEchoMeansInSync, StartBytes, Over
  <1>5. QED
    BY <1>3, <1>4 DEF WriteByte

LEMMA ReadKeeps ==
    ASSUME HandshakeInv, NEW p \in Probes, UNCHANGED <<good, late>>, ReadEcho(p)
    PROVE  HandshakeInv'
  <1> USE DEF HandshakeInv
  <1>1. /\ UNCHANGED <<device, configuration, configured, synced, inbox, good, late>>
        /\ ppc[p] = "read" /\ echoes # <<>> /\ echoes' = Tail(echoes)
    BY DEF ReadEcho, deviceVars
  <1>2. echoes' \in Seq(EchoBytes) /\ LastEchoMeansInSync'
    BY <1>1, FewerEchoes
  <1>3. CASE /\ ~IsLast(p)
             /\ index' = [index EXCEPT ![p] = @ + 1]
             /\ Goto(p, "write")
             /\ UNCHANGED <<opened, holder, interface, written>>
    <2>1. index' \in [Probes -> 1 .. Len(Start)]
      <3>1. index[p] \in 1 .. 4 /\ index[p] # 4
        BY <1>3, StartFacts DEF HandshakeTypeOK, IsLast
      <3>2. index[p] + 1 \in 1 .. 4
        BY <3>1
      <3>3. QED
        BY <1>3, <3>2, StartFacts DEF HandshakeTypeOK
    <2>2. /\ ppc' \in [Probes -> Working \cup Over \cup {"start"}]
          /\ HandlesAreLive' /\ TalkersHoldTheInterface'
      BY <1>1, <1>3, GotoKeeps DEF Working, Talking
    <2>3. QED
      BY <1>1, <1>2, <1>3, <2>1, <2>2 DEF HandshakeTypeOK, EchoBytes
  <1>4. ASSUME NEW verdict \in {"succeeded", "failed"}, Finish(p, verdict)
        PROVE  HandshakeInv'
    BY <1>1, <1>2, <1>4, FinishKeeps DEF HandshakeTypeOK, EchoBytes, Over
  <1>5. QED
    BY <1>3, <1>4 DEF ReadEcho

THEOREM HandshakeInvStep == HandshakeInv /\ [HandshakeNext]_handshakeVars => HandshakeInv'
  <1> SUFFICES ASSUME HandshakeInv, [HandshakeNext]_handshakeVars
               PROVE  HandshakeInv'
    OBVIOUS
  <1>1. ASSUME NEW p \in Probes, ProbeStep(p) PROVE HandshakeInv'
    BY <1>1, QuietStepsKeep, WriteKeeps, ReadKeeps DEF ProbeStep, ProbeMove
  <1>2. ASSUME NEW p \in Probes, ProbeDies(p), UNCHANGED <<good, late>> PROVE HandshakeInv'
    BY <1>2, QuietStepsKeep
  <1>3. ASSUME NEW p \in Probes, DeadlinePasses(p) PROVE HandshakeInv'
    BY <1>3 DEF DeadlinePasses, deviceVars, pipeVars, probeVars, HandshakeInv, HandshakeTypeOK,
                LastEchoMeansInSync, HandlesAreLive, TalkersHoldTheInterface
  <1>4. CASE Connect
    <2>1. opened = {} /\ opened' = {}
      BY <1>4 DEF Connect, HandshakeInv, HandlesAreLive
    <2>2. QED
      BY <1>4, <2>1 DEF Connect, pipeVars, probeVars, HandshakeInv, HandshakeTypeOK,
                        LastEchoMeansInSync, HandlesAreLive, TalkersHoldTheInterface
  <1>5. CASE Disconnect
    <2>1. /\ inbox' \in Seq({Start[i] : i \in DOMAIN Start})
          /\ echoes' \in Seq({Inverted(Start[i]) : i \in DOMAIN Start})
          /\ synced' \in 0 .. Len(Start)
      BY <1>5, StartFacts DEF Disconnect
    <2>2. HandshakeTypeOK'
      BY <1>5, <2>1 DEF Disconnect, probeVars, HandshakeInv, HandshakeTypeOK
    <2>3. LastEchoMeansInSync'
      <3>1. DOMAIN echoes' = {}
        BY <1>5 DEF Disconnect
      <3>2. QED
        BY <3>1 DEF LastEchoMeansInSync
    <2>4. QED
      BY <1>5, <2>2, <2>3 DEF Disconnect, HandshakeInv, HandlesAreLive, TalkersHoldTheInterface
  <1>6. CASE TabletReceives
    BY <1>6, TabletKeeps
  <1>7. CASE UNCHANGED handshakeVars
    BY <1>7 DEF handshakeVars, deviceVars, pipeVars, probeVars, HandshakeInv, HandshakeTypeOK,
                LastEchoMeansInSync, HandlesAreLive, TalkersHoldTheInterface
  <1>8. QED
    BY <1>1, <1>2, <1>3, <1>4, <1>5, <1>6, <1>7 DEF HandshakeNext

THEOREM HandshakeInvHolds == HandshakeSpec => []HandshakeInv
  BY HandshakeInvInit, HandshakeInvStep, PTL DEF HandshakeSpec
-----------------------------------------------------------------------------
(***************************************************************************)
(* What follows.                                                           *)
(***************************************************************************)

\* The variables of the tablet, the pipes and the probes keep their types.
THEOREM HandshakeTypes == HandshakeSpec => []HandshakeTypeOK
  BY HandshakeInvHolds, PTL DEF HandshakeInv

\* However probes overlap, die and leave answers behind for each other, the one
\* that reads the last answer has reached a tablet that took all four bytes.
THEOREM SuccessIsSync == HandshakeSpec => SuccessMeansInSync
  <1>1. HandshakeInv /\ [HandshakeNext]_handshakeVars
          => [\A p \in Probes : ppc[p] # "succeeded" /\ ppc'[p] = "succeeded" =>
                device = "transport" /\ synced = Len(Start)]_handshakeVars
    <2> SUFFICES ASSUME HandshakeInv, HandshakeNext, NEW p \in Probes,
                        ppc[p] # "succeeded", ppc'[p] = "succeeded"
                 PROVE  device = "transport" /\ synced = Len(Start)
      OBVIOUS
    <2>1. ppc \in [Probes -> Working \cup Over \cup {"start"}]
      BY DEF HandshakeInv, HandshakeTypeOK
    <2>2. ReadEcho(p) /\ Finish(p, "succeeded")
      <3>1. PICK q \in Probes : ProbeStep(q) \/ ProbeDies(q)
        BY DEF HandshakeNext, DeadlinePasses, Connect, Disconnect, TabletReceives
      <3>2. \E to : ppc' = [ppc EXCEPT ![q] = to]
        BY <3>1 DEF ProbeStep, ProbeMove, ProbeDies, Finish, Goto, LoadBackend, Wait,
                    PrepareConfiguration, FindEndpointPair, DetachDriver, ClaimInterface,
                    ConfigureCdc, WriteByte, ReadEcho, ReadFails
      <3>3. q = p
        BY <2>1, <3>2
      <3>4. QED
        BY <2>1, <3>1, <3>3
           DEF ProbeStep, ProbeMove, ProbeDies, Finish, Goto, LoadBackend, Wait,
               PrepareConfiguration, FindEndpointPair, DetachDriver, ClaimInterface,
               ConfigureCdc, WriteByte, ReadEcho, ReadFails
    <2>3. /\ p \in opened /\ echoes # <<>> /\ Head(echoes) = Inverted(Start[Len(Start)])
      BY <2>1, <2>2 DEF ReadEcho, AnswerIsRight, IsLast, Goto, Finish
    <2>4. 1 \in DOMAIN echoes /\ Head(echoes) = echoes[1]
      BY <2>3 DEF HandshakeInv, HandshakeTypeOK
    <2>5. QED
      BY <2>3, <2>4 DEF HandshakeInv, LastEchoMeansInSync, HandlesAreLive
  <1>2. QED
    BY <1>1, HandshakeInvHolds, PTL DEF HandshakeSpec, SuccessMeansInSync

\* Probes started at once do not mix their bytes on one connection: the claim
\* keeps the second one out.
THEOREM OneProbeTalksAtATime == HandshakeSpec => []OneProbeTalks
  <1>1. HandshakeInv => OneProbeTalks
    BY DEF HandshakeInv, TalkersHoldTheInterface, OneProbeTalks
  <1>2. QED
    BY <1>1, HandshakeInvHolds, PTL
=============================================================================
