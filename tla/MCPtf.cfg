SPECIFICATION Spec
CONSTANTS
    Ports <- MCPorts
    Tests <- MCTests
    Script <- MCScript
    Base <- MCBase
    ReadUnassigned <- MCReadUnassigned
    After <- MCAfter
    Configured <- MCConfigured
INVARIANTS
    TypeOK
    
    
    
    ExpectedTraffic
    CallsSucceed
    RemovesSucceed
    NothingLeft
    CleanAfterFail
    HelperBuildsHelped
