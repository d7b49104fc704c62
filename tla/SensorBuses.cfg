SPECIFICATION Spec
CONSTANTS
    SdiTasks = {"sdi12_sched", "httpd"}
    MaxSdiAddr = 2
    SdiPresent = {1}
    SdiValues = 2
    I2cTasks = {"i2c_sched", "httpd", "battery_mon"}
    MaxI2cAddr = 5
    Driver <- MC_Driver
    MAX_CACHED_DEVICES = 1
    SAMPLES_PER_AVERAGE = 2
    MAX_POLLS = 2
    MaxBuses = 2
    Stations <- MC_Stations
INVARIANTS
    TypeOK
    FreshReading
    HandlesOfLiveBus
PROPERTIES
    OwnResultOnly
    PortalAnswers
