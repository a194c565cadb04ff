\* Two topics with different devices and every file of MCSensorData.
CONSTANTS
    Files <- MCFiles
    Topics = {"t1", "t2"}
    DevicesOf <- MCDevicesOf
SPECIFICATION Spec
\* A process that has exited takes no more steps.
CHECK_DEADLOCK FALSE
INVARIANTS
    TypeOK
    SensorsReported
    ValuesInRange
    ReportedWasAnnounced
