SPECIFICATION FairSpec
CONSTANTS
  Threads = {t1, t2}
  Groups = {g1}
  Conns = {k1, k2, k3}
  Servers = {s}
  Programs = {"NFS"}
  Ports = {2049}
  Nfs4Port = 2049
  None = None
  Uses = {"update","remove","force","add","fini"}
  Faults = {"connect","close","move"}
  MaxFaults = 1
INVARIANTS TypeOK PortIsFresh UndisturbedIsUncut EveryConnectionIsOwned UsedIsAlive OutOfPoolIsUnshared DestroyedIsQuiet
PROPERTIES EveryOperationReturns
