SPECIFICATION Spec
CONSTANTS
    Flow = {f1, f2}
    Address = {"a1", "b1"}
    HostOf <- HostsAB
    Model <- ModelsAB
    MaxStarted = 4
    None = None
SYMMETRY Symmetry
INVARIANTS
    OneEntryPerAddress
    ModelIsOfItsHost
    MediaBlockAnswered
    ReloadsOncePerSave
    OptionsInUseUnlessMissed
