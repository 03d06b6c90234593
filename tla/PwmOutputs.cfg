SPECIFICATION Spec
CONSTANTS
  PWM_NUM_CHANELS = 2
  PWM_TIMEOUT = 3
  Duties <- HostDuties
INVARIANTS TypeOK FailSafe NoStaleDuty DrivenMeansOn
PROPERTY KeepsPromise
