---------------------------- MODULE MCHandshake ----------------------------
EXTENDS Handshake

Configuration(interfaces, serving) == [interfaces |-> interfaces, serving |-> serving]

\* A CDC pair, a vendor interface before the data interface, a vendor interface
\* alone, and no interface with both endpoints.
MCConfigurations ==
    {Configuration(<<"control", "data">>, 2), Configuration(<<"vendor", "data">>, 2),
     Configuration(<<"vendor">>, 1), Configuration(<<"control">>, 0)}
=============================================================================
