SPECIFICATION Spec
CONSTANTS
    Ports <- MCPorts
    Tests <- MCHelperOnly
    Script <- MCScript
    Base <- MCBase
    ReadUnassigned <- MCReadUnassigned
    After <- MCAfter
    Configured <- MCConfigured
INVARIANT ResourcesBack
