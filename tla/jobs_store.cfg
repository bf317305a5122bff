SPECIFICATION FairSpec
CONSTANTS
  JobIds = {j1, j2}
  Keys = {k1, k2}
  Payloads = {work, restart}
  Restarts = {restart}
  NoJob = NoJob
INVARIANTS
  TypeOK
  Admission
  OutcomeTrue
PROPERTIES
  SuccessKept
  ImplementsLedger
  AdmissionReleased
