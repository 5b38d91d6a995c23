CONSTANTS
    NoValue = NoValueV
    Torn = TornV
    NoFile = NoFileV
    NoValueV = NoValueV
    TornV = TornV
    NoFileV = NoFileV
    Names <- MCNames
    BuildProp <- MCBuildProp
    DefaultProp <- MCDefaultProp
    LocalProp <- MCLocalProp
    AllowLocalOverride = TRUE
    InitDisk <- MCInitDisk
    Requests <- MCRequests
    MainDevParas = {"sdcard"}
    ModemFiles = {"EM750\n"}
    PaCountMax = 8
    ReadNames = {"persist.sys.usb.config"}
    MaxRequests = 1
    MaxBoots = 1
SPECIFICATION Spec
CHECK_DEADLOCK FALSE
INVARIANTS TypeOK ReadsNeverTorn DefaultsNeverStored
PROPERTIES BootCompletes
