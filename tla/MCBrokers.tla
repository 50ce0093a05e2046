------------------------------ MODULE MCBrokers ------------------------------
EXTENDS Brokers

CONSTANTS b1, b2

\* The instances: which pairs are cached, whose polls hang, which may be closed.
MCBets == {b1, b2}
MCCached == {b1}
MCHung == {b1}
MCClosable == {b2}
MCProfits == {"win", "loss"}
=============================================================================
