------------------------------ MODULE MCReceive ------------------------------
EXTENDS Receive

MCBodiesOf == <<{"text"}, {"text", "large"}, {"binary"}>>
MCFiltersOf == <<{"a"}, {""}>>
=============================================================================
