SPECIFICATION FairAdmissionSpec
CONSTANTS
  r1 = r1
  r2 = r2
  r3 = r3
  r4 = r4
  r5 = r5
  web = web
  api = api
  jobs = jobs
  ann = ann
  bob = bob
  Requests <- MCRequests
  Apps <- MCApps
  Users <- MCUsers
  AppOf <- MCAppOf
  UserOf <- MCUserOf
  MaxConcurrent = 2
INVARIANTS
  LeasesSound
  WorkConserving
PROPERTIES
  FifoPerApp
  EveryWaiterServed
