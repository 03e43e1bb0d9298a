-------------------------- MODULE MCBootTransport --------------------------
EXTENDS BootTransport, TLC

\* On every port: the bindings of preloader, BootROM and Android META.
OnEveryPort(preloader, bootRom, meta) ==
    [i \in Instances |-> CASE i[1] = "2000" -> preloader
                           [] i[1] = "0003" -> bootRom
                           [] i[1] = "200e" -> meta]

\* What usbipd may have persisted: nothing; both boot identities alike; the
\* preloader only; all three, each in another way.
MCBindings ==
    {OnEveryPort(kind, kind, "none") : kind \in {"none", "shared", "forced"}} \cup
    {OnEveryPort("shared", "none", "none"), OnEveryPort("forced", "shared", "shared")}
=============================================================================
