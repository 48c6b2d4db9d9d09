---------------------------- MODULE MCPushSession ----------------------------
EXTENDS PushSession

BothTransports == {"local", "http"}
AnyCapabilities == SUBSET Capabilities
=============================================================================
