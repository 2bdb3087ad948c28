------------------------------ MODULE MCServer ------------------------------
EXTENDS ServerRuntime
TwoProfiles == <<"tcp", "udp">>
=============================================================================
