------------------------------- MODULE ConnGroup -------------------------------
(***************************************************************************)
(* NfsConnectionGroup: the pool of groups, one per server, and in each group*)
(* the connections to the server's services, which every call makes sure of*)
(* before it takes one (NfsConnectionGroup.cpp, RemoteCall::call of        *)
(* RpcCall.cpp).                                                           *)
(*                                                                         *)
(* The actors are the threads of the program and, for each group of NFSv4, *)
(* its keepalive thread, which has the name of the group.  A step is what  *)
(* goes on under serverTableMutex, one statement under m_connMutex that    *)
(* others can see the effect of, or the reading of a slot, which no mutex  *)
(* protects.  How a call fares on its connection is left to RpcChannel and *)
(* ConnManager.                                                            *)
(***************************************************************************)
EXTENDS Naturals, FiniteSets

CONSTANTS
  Threads,   \* threads of the program
  Groups,    \* the memory of NfsConnectionGroup objects
  Conns,     \* the memory of RpcConnection objects
  Servers,   \* addresses
  Programs,  \* the services there are, of MOUNT, NFS and NLM
  Ports,     \* the ports the server's services may have
  Nfs4Port,  \* 2049
  None,
  Uses,      \* what the program does besides create and calls
  Faults,    \* what may go wrong
  MaxFaults  \* and how often

AllUses == {"update", "add", "remove", "force", "fini"}
FaultKinds == {"connect",   \* a connection is not made
               "close",     \* the peer ends a connection
               "move"}      \* the server's services change their ports

ASSUME GroupAssumption ==
  /\ Threads \cap Groups = {} /\ IsFiniteSet(Threads) /\ IsFiniteSet(Servers)
  /\ None \notin Threads \cup Groups \cup Conns \cup Servers
  /\ "NFS" \in Programs /\ Programs \subseteq {"MOUNT", "NFS", "NLM"}
  /\ Ports \subseteq Nat \ {0} /\ Nfs4Port \in Ports
  /\ Uses \subseteq AllUses /\ Faults \subseteq FaultKinds /\ MaxFaults \in Nat

Actors == Threads \cup Groups
Services == Programs \cup {"PORTMAP"}
PortList == [Programs -> Ports \cup {0}]

VARIABLES
  serverTable, tableLock,        \* the pool, and who keeps serverTableMutex
  ip, version,                   \* of a group; no address, no object
  keepalive, connected,          \* m_keepalive, m_bConnected
  connMutex, connections,        \* m_connMutex and m_connections
  rpcPorts,                      \* m_rpcPorts
  life, key,                     \* of a connection: its state, program and port
  registered,                    \* the ports the server's portmapper knows
  pc, held, job, prog, todo, force, conn,            \* of an actor
  reported,  \* history: the ports dumped since the actor's call began
  swapped,   \* history: the slot was cleared while the actor copied it
  trouble,   \* history: how many faults there were
  finished   \* history: fini was called

poolVars  == <<serverTable, tableLock, finished>>
groupVars == <<ip, version, keepalive>>
connVars  == <<life, key>>
slotVars  == <<connections, rpcPorts>>
callVars  == <<job, prog, reported>>
ensureVars == <<todo, force>>
readVars  == <<conn, swapped>>
vars == <<poolVars, groupVars, connected, connMutex, slotVars, connVars, registered, pc,
          held, callVars, ensureVars, readVars, trouble>>

\* "ended": the peer has ended it, or it was never made; "cleared": RpcConnection::clear
\* has posted DEL_SKT; "closed": the manager has closed it, and calls still count
\* themselves in; "none": there is no object.
Life == {"none", "up", "ended", "cleared", "closed"}
CallJobs == {"call", "null", "setclientid", "renew"}
Jobs == CallJobs \cup {"init", "update", "add"}
Locked == {"portmap", "makePortmap", "dump", "service", "make"}

TypeOK ==
  /\ serverTable \in [Servers -> Groups \cup {None}] /\ tableLock \in Threads \cup {None}
  /\ ip \in [Groups -> Servers \cup {None}] /\ version \in [Groups -> {3, 4}]
  /\ keepalive \in [Groups -> BOOLEAN] /\ connected \in [Groups -> BOOLEAN]
  /\ connMutex \in [Groups -> Actors \cup {None}]
  /\ connections \in [Groups -> [Services -> Conns \cup {None}]]
  /\ rpcPorts \in [Groups -> PortList]
  /\ life \in [Conns -> Life] /\ key \in [Conns -> [prog : Services, port : Nat]]
  /\ \A c \in Conns : life[c] # "none" => key[c].port # 0
  /\ registered \in PortList
  /\ pc \in [Actors -> Locked \cup {"idle", "off", "lock", "get", "copy", "sent",
                                    "drop", "destroy", "fini"}]
  /\ held \in [Threads -> Groups \cup {None}]
  /\ job \in [Actors -> Jobs] /\ prog \in [Actors -> Programs]
  /\ todo \in [Actors -> SUBSET Programs] /\ force \in [Actors -> BOOLEAN]
  /\ conn \in [Actors -> Conns \cup {None}]
  /\ reported \in [Actors -> SUBSET (Ports \cup {0})] /\ swapped \in [Actors -> BOOLEAN]
  /\ trouble \in 0..MaxFaults /\ finished \in BOOLEAN

NoPorts == [p \in Programs |-> 0]
NoKey == [prog |-> "PORTMAP", port |-> 0]

Init ==
  /\ serverTable = [s \in Servers |-> None] /\ tableLock = None
  /\ ip = [g \in Groups |-> None] /\ version = [g \in Groups |-> 3]
  /\ keepalive = [g \in Groups |-> FALSE] /\ connected = [g \in Groups |-> FALSE]
  /\ connMutex = [g \in Groups |-> None]
  /\ connections = [g \in Groups |-> [s \in Services |-> None]]
  /\ rpcPorts = [g \in Groups |-> NoPorts]
  /\ life = [c \in Conns |-> "none"]
  /\ key = [c \in Conns |-> NoKey]
  /\ registered \in PortList
  /\ pc = [a \in Actors |-> IF a \in Threads THEN "idle" ELSE "off"]
  /\ held = [t \in Threads |-> None]
  /\ job = [a \in Actors |-> "call"] /\ prog = [a \in Actors |-> "NFS"]
  /\ todo = [a \in Actors |-> {}] /\ force = [a \in Actors |-> FALSE]
  /\ conn = [a \in Actors |-> None]
  /\ reported = [a \in Actors |-> {}] /\ swapped = [a \in Actors |-> FALSE]
  /\ trouble = 0 /\ finished = FALSE

GroupOf(a) == IF a \in Groups THEN a ELSE held[a]
Goto(a, to) == pc' = [pc EXCEPT ![a] = to]
ProgramsOf(g) == IF version[g] = 4 THEN {"NFS"} ELSE Programs

-----------------------------------------------------------------------------
(* Calls and the making of connections.                                    *)

\* An actor turns to what it does on a group of version v: a call of a program, or
\* initNfs.  The ports of NFSv4 are never asked for.
Begin(a, v, j, p) ==
  /\ Goto(a, "lock")
  /\ job' = [job EXCEPT ![a] = j]
  /\ prog' = [prog EXCEPT ![a] = p]
  /\ reported' = [reported EXCEPT ![a] = IF v = 4 THEN {Nfs4Port} ELSE {}]

Done(a) ==
  /\ Goto(a, "idle")
  /\ job' = [job EXCEPT ![a] = "call"] /\ prog' = [prog EXCEPT ![a] = "NFS"]
  /\ reported' = [reported EXCEPT ![a] = {}]

\* What follows a call or initNfs on g: create goes on with connect, which for NFSv4 is
\* a NULL call and two compounds whose outcome is not looked at.
Continue(a, g, ok) ==
  /\ connected' = IF job[a] = "setclientid" THEN [connected EXCEPT ![g] = TRUE] ELSE connected
  /\ CASE job[a] = "init" /\ version[g] = 4 -> Begin(a, 4, "null", "NFS")
       [] job[a] = "null" /\ ok -> Begin(a, 4, "setclientid", "NFS")
       [] job[a] = "add" -> Goto(a, "drop") /\ UNCHANGED callVars
       [] OTHER -> Done(a)

\* RemoteCall::call, and update
Call(t, p) ==
  /\ pc[t] = "idle" /\ held[t] # None
  /\ p \in ProgramsOf(held[t])
  /\ Begin(t, version[held[t]], "call", p)
  /\ UNCHANGED <<poolVars, groupVars, connected, connMutex, slotVars, connVars, registered,
                 held, ensureVars, readVars, trouble>>

Update(t) ==
  /\ "update" \in Uses
  /\ pc[t] = "idle" /\ held[t] # None
  /\ Begin(t, version[held[t]], "update", "NFS")
  /\ UNCHANGED <<poolVars, groupVars, connected, connMutex, slotVars, connVars, registered,
                 held, ensureVars, readVars, trouble>>

\* A mutant: the mutex is not there.
Enter_Unlocked(a) ==
  LET g == GroupOf(a) IN
  /\ pc[a] = "lock"
  /\ todo' = [todo EXCEPT ![a] = ProgramsOf(g)]
  /\ Goto(a, IF version[g] = 4 THEN "service" ELSE "portmap")
  /\ UNCHANGED <<poolVars, groupVars, connected, connMutex, slotVars, connVars, registered,
                 held, callVars, force, readVars, trouble>>

\* ensureConnection and initNfs: the same steps under m_connMutex.
Enter(a) ==
  LET g == GroupOf(a) IN
  /\ pc[a] = "lock" /\ connMutex[g] = None
  /\ connMutex' = [connMutex EXCEPT ![g] = a]
  /\ todo' = [todo EXCEPT ![a] = ProgramsOf(g)]
  /\ Goto(a, IF version[g] = 4 THEN "service" ELSE "portmap")
  /\ UNCHANGED <<poolVars, groupVars, connected, slotVars, connVars, registered, held,
                 callVars, force, readVars, trouble>>

\* A mutant: the next call still forces.
Leave_StillForced(a, ok) ==
  LET g == GroupOf(a) IN
  /\ connMutex' = [connMutex EXCEPT ![g] = None]
  /\ todo' = [todo EXCEPT ![a] = {}] /\ force' = force
  /\ IF ok /\ job[a] \in CallJobs
     THEN Goto(a, "get") /\ UNCHANGED <<callVars, connected>>
     ELSE Continue(a, g, ok)

\* The mutex is left; a call goes on to the connection if all went well.
Leave(a, ok) ==
  LET g == GroupOf(a) IN
  /\ connMutex' = [connMutex EXCEPT ![g] = None]
  /\ todo' = [todo EXCEPT ![a] = {}] /\ force' = [force EXCEPT ![a] = FALSE]
  /\ IF ok /\ job[a] \in CallJobs
     THEN Goto(a, "get") /\ UNCHANGED <<callVars, connected>>
     ELSE Continue(a, g, ok)

MayFail(kind) == kind \in Faults /\ trouble < MaxFaults /\ trouble' = trouble + 1

\* RpcConnection::create, in memory that is free: the connection is made, or it is not.
\* Which memory it is makes a difference only to an actor whose pointer to it is stale.
NoObject == \E c \in Conns : life[c] = "none"
Memory == CHOOSE c \in Conns : life[c] = "none"
Make(c, s, port) ==
  /\ \/ life' = [life EXCEPT ![c] = "up"] /\ trouble' = trouble
     \/ life' = [life EXCEPT ![c] = "ended"] /\ MayFail("connect")
  /\ key' = [key EXCEPT ![c] = [prog |-> s, port |-> port]]

\* RpcConnection::clear: the manager is told to delete the connection.  Where no call has
\* a pointer to it, it is as good as gone.
Cleared(cs) ==
  LET used == {conn[a] : a \in Actors} IN
  /\ life' = [c \in Conns |-> IF c \notin cs THEN life[c]
                             ELSE IF c \in used THEN "cleared" ELSE "none"]
  /\ key' = [c \in Conns |-> IF c \in cs \ used THEN NoKey ELSE key[c]]

\* isAlive: a connection that has ended may seem alive until the manager has seen it.
SeemsAlive(c) == life[c] \in {"up", "ended"}
Alive(c) == c # None /\ life[c] = "up"

\* ensurePortMapperConnection
KeepPortMapper(a) ==
  LET c == connections[GroupOf(a)]["PORTMAP"] IN
  /\ pc[a] = "portmap" /\ c # None /\ SeemsAlive(c)
  /\ Goto(a, "dump")
  /\ UNCHANGED <<poolVars, groupVars, connected, connMutex, slotVars, connVars, registered,
                 held, callVars, ensureVars, readVars, trouble>>

ClearPortMapper(a) ==
  LET g == GroupOf(a)
      c == connections[g]["PORTMAP"] IN
  /\ pc[a] = "portmap" /\ c # None /\ ~Alive(c)
  /\ connections' = [connections EXCEPT ![g]["PORTMAP"] = None]
  /\ Cleared({c})
  /\ UNCHANGED <<poolVars, groupVars, connected, connMutex, rpcPorts, registered, pc,
                 held, callVars, ensureVars, readVars, trouble>>

NeedPortMapper(a) ==
  /\ pc[a] = "portmap" /\ connections[GroupOf(a)]["PORTMAP"] = None
  /\ force' = [force EXCEPT ![a] = TRUE]
  /\ Goto(a, "makePortmap")
  /\ UNCHANGED <<poolVars, groupVars, connected, connMutex, slotVars, connVars, registered,
                 held, callVars, todo, readVars, trouble>>

\* What is made is put in the slot, whatever is there.
CreatePortMapper(a) ==
  /\ pc[a] = "makePortmap"
  /\ NoObject /\ Make(Memory, "PORTMAP", 111)
  /\ connections' = [connections EXCEPT ![GroupOf(a)]["PORTMAP"] = Memory]
  /\ Goto(a, "dump")
  /\ UNCHANGED <<poolVars, groupVars, connected, connMutex, rpcPorts, registered, held,
                 callVars, ensureVars, readVars>>

\* The calls on g that have begun are told, for the history.
Tell(g, ports) ==
  reported' = [b \in Actors |-> IF GroupOf(b) = g /\ pc[b] \notin {"idle", "off"}
                                THEN reported[b] \cup {ports[prog[b]]} ELSE reported[b]]

\* updateRpcPorts: the DumpCall is answered and the ports are copied, or it is not.
UpdateRpcPorts(a) ==
  LET g == GroupOf(a) IN
  /\ pc[a] = "dump" /\ Alive(connections[g]["PORTMAP"])
  /\ rpcPorts' = [rpcPorts EXCEPT ![g] = registered]
  /\ Tell(g, registered)
  /\ Goto(a, "service")
  /\ UNCHANGED <<poolVars, groupVars, connected, connMutex, connections, connVars, registered,
                 held, job, prog, ensureVars, readVars, trouble>>

DumpFails(a) ==
  /\ pc[a] = "dump"
  /\ Leave(a, FALSE)
  /\ UNCHANGED <<poolVars, groupVars, slotVars, connVars, registered, held, readVars,
                 trouble>>

\* initRpcService, of MOUNT, then NFS, then NLM.
Rank == [MOUNT |-> 1, NFS |-> 2, NLM |-> 3]
NextOf(a) == CHOOSE p \in todo[a] : \A q \in todo[a] : Rank[p] <= Rank[q]
Proceed(a) == todo' = [todo EXCEPT ![a] = @ \ {NextOf(a)}]

\* A mutant: the port is not compared.
KeepService_AnyPort(a) ==
  LET c == connections[GroupOf(a)][NextOf(a)] IN
  /\ pc[a] = "service" /\ todo[a] # {}
  /\ c # None /\ ~force[a] /\ SeemsAlive(c)
  /\ Proceed(a)
  /\ UNCHANGED <<poolVars, groupVars, connected, connMutex, slotVars, connVars, registered, pc,
                 held, callVars, force, readVars, trouble>>

KeepService(a) ==
  LET g == GroupOf(a)
      c == connections[g][NextOf(a)] IN
  /\ pc[a] = "service" /\ todo[a] # {}
  /\ c # None /\ ~force[a] /\ key[c].port = rpcPorts[g][NextOf(a)] /\ SeemsAlive(c)
  /\ Proceed(a)
  /\ UNCHANGED <<poolVars, groupVars, connected, connMutex, slotVars, connVars, registered, pc,
                 held, callVars, force, readVars, trouble>>

\* RpcConnection::clear, which an actor that is copying the slot does not notice.
ClearService(a) ==
  LET g == GroupOf(a)
      p == NextOf(a)
      c == connections[g][p] IN
  /\ pc[a] = "service" /\ todo[a] # {}
  /\ c # None /\ (force[a] \/ key[c].port # rpcPorts[g][p] \/ ~Alive(c))
  /\ connections' = [connections EXCEPT ![g][p] = None]
  /\ Cleared({c})
  /\ swapped' = [b \in Actors |-> swapped[b] \/ (pc[b] = "copy" /\ conn[b] = c)]
  /\ UNCHANGED <<poolVars, groupVars, connected, connMutex, rpcPorts, registered, pc, held,
                 callVars, ensureVars, conn, trouble>>

\* A port of 0 stands for a service there is not.
SkipService(a) ==
  LET g == GroupOf(a) IN
  /\ pc[a] = "service" /\ todo[a] # {}
  /\ connections[g][NextOf(a)] = None /\ rpcPorts[g][NextOf(a)] = 0
  /\ Proceed(a)
  /\ UNCHANGED <<poolVars, groupVars, connected, connMutex, slotVars, connVars, registered, pc,
                 held, callVars, force, readVars, trouble>>

\* A mutant: it is not skipped.
NeedService_AnyPort(a) ==
  /\ pc[a] = "service" /\ todo[a] # {} /\ connections[GroupOf(a)][NextOf(a)] = None
  /\ Goto(a, "make")
  /\ UNCHANGED <<poolVars, groupVars, connected, connMutex, slotVars, connVars, registered,
                 held, callVars, ensureVars, readVars, trouble>>

NeedService(a) ==
  LET g == GroupOf(a) IN
  /\ pc[a] = "service" /\ todo[a] # {}
  /\ connections[g][NextOf(a)] = None /\ rpcPorts[g][NextOf(a)] # 0
  /\ Goto(a, "make")
  /\ UNCHANGED <<poolVars, groupVars, connected, connMutex, slotVars, connVars, registered,
                 held, callVars, ensureVars, readVars, trouble>>

CreateService(a) ==
  LET g == GroupOf(a)
      p == NextOf(a) IN
  /\ pc[a] = "make"
  /\ NoObject /\ Make(Memory, p, rpcPorts[g][p])
  /\ connections' = [connections EXCEPT ![g][p] = Memory]
  /\ Proceed(a) /\ Goto(a, "service")
  /\ UNCHANGED <<poolVars, groupVars, connected, connMutex, rpcPorts, registered, held,
                 callVars, force, readVars>>

\* ensureConnection is TRUE whatever became of the services.
Ensured(a) ==
  /\ pc[a] = "service" /\ todo[a] = {}
  /\ Leave(a, TRUE)
  /\ UNCHANGED <<poolVars, groupVars, slotVars, connVars, registered, held, readVars,
                 trouble>>

\* getNfsConnection copies a SmartPtr that no mutex protects: it reads the pointer
\* and then counts itself in (p_assign of SmartPtr.h).
Get(a) ==
  LET g == GroupOf(a)
      c == connections[g][prog[a]] IN
  /\ pc[a] = "get"
  /\ IF c = None
     THEN Continue(a, g, FALSE) /\ UNCHANGED conn
     ELSE /\ Goto(a, "copy")
          /\ conn' = [conn EXCEPT ![a] = c]
          /\ UNCHANGED <<callVars, connected>>
  /\ UNCHANGED <<poolVars, groupVars, connMutex, slotVars, connVars, registered, held,
                 ensureVars, swapped, trouble>>

Copy(a) ==
  /\ pc[a] = "copy"
  /\ Goto(a, "sent")
  /\ UNCHANGED <<poolVars, groupVars, connected, connMutex, slotVars, connVars, registered,
                 held, callVars, ensureVars, readVars, trouble>>

\* The calls that have counted themselves in
Counted_Raw(c) == {}   \* a mutant: the pointer does not count
Counted(c) == {a \in Actors : pc[a] = "sent" /\ conn[a] = c}
Gone(c) == life' = [life EXCEPT ![c] = "none"] /\ key' = [key EXCEPT ![c] = NoKey]

\* sendAndWait returns, with a reply only if the connection was there to bring it.
Return(a, ok) ==
  /\ pc[a] = "sent"
  /\ ok => life[conn[a]] \in {"up", "cleared"}
  /\ Continue(a, GroupOf(a), ok)
  /\ IF life[conn[a]] = "closed" /\ Counted(conn[a]) = {a} THEN Gone(conn[a])
     ELSE UNCHANGED connVars
  /\ conn' = [conn EXCEPT ![a] = None] /\ swapped' = [swapped EXCEPT ![a] = FALSE]
  /\ UNCHANGED <<poolVars, groupVars, connMutex, slotVars, registered, held, ensureVars, trouble>>

-----------------------------------------------------------------------------
(* The keepalive thread.                                                   *)

\* do_keepAlive renews the client id if it is time and the group is connected, and
\* sleeps; or it has been told to end.
Renew(g) ==
  /\ pc[g] = "idle" /\ keepalive[g] /\ connected[g]
  /\ Begin(g, 4, "renew", "NFS")
  /\ UNCHANGED <<poolVars, groupVars, connected, connMutex, slotVars, connVars, registered,
                 held, ensureVars, readVars, trouble>>

\* A mutant: the loop does not look at m_keepalive.
KeepAliveEnds_Sleeps(g) == pc[g] = "idle" /\ UNCHANGED vars

KeepAliveEnds(g) ==
  /\ pc[g] = "idle" /\ ~keepalive[g]
  /\ Goto(g, "off")
  /\ UNCHANGED <<poolVars, groupVars, connected, connMutex, slotVars, connVars, registered,
                 held, callVars, ensureVars, readVars, trouble>>

-----------------------------------------------------------------------------
(* The pool.                                                               *)

\* A new group, for thread t; only a group of NFSv4 has a keepalive thread.
NewGroup(t, g, s, v, alive) ==
  /\ ip[g] = None /\ pc[g] = "off"
  /\ ip' = [ip EXCEPT ![g] = s] /\ version' = [version EXCEPT ![g] = v]
  /\ keepalive' = [keepalive EXCEPT ![g] = alive /\ v = 4]
  /\ connected' = [connected EXCEPT ![g] = FALSE]
  /\ rpcPorts' = [rpcPorts EXCEPT ![g] = IF v = 4 THEN [NoPorts EXCEPT !["NFS"] = Nfs4Port]
                                         ELSE NoPorts]
  /\ held' = [held EXCEPT ![t] = g]

\* and its threads set off: its maker's for initNfs.
SetOff(t, g, v, j, alive) ==
  /\ pc' = [pc EXCEPT ![t] = "lock", ![g] = IF alive /\ v = 4 THEN "idle" ELSE "off"]
  /\ job' = [job EXCEPT ![t] = j] /\ prog' = prog /\ reported' = reported

\* create, of a group that is not in the pool, and of one that is: in whatever state
\* its maker has brought it to
Create(t, s, v, alive) ==
  /\ pc[t] = "idle" /\ held[t] = None /\ tableLock = None /\ serverTable[s] = None
  /\ \E g \in Groups : /\ NewGroup(t, g, s, v, alive)
                       /\ serverTable' = [serverTable EXCEPT ![s] = g]
                       /\ SetOff(t, g, v, "init", alive)
  /\ UNCHANGED <<tableLock, finished, connMutex, connections, connVars, registered,
                 ensureVars, readVars, trouble>>

\* and findNfsConnectionGroup
Find(t, s) ==
  /\ pc[t] = "idle" /\ held[t] = None /\ tableLock = None /\ serverTable[s] # None
  /\ held' = [held EXCEPT ![t] = serverTable[s]]
  /\ UNCHANGED <<poolVars, groupVars, connected, connMutex, slotVars, connVars, registered, pc,
                 callVars, ensureVars, readVars, trouble>>

\* forceCreate: the group is not put in the pool.
ForceCreate(t, s, v, alive) ==
  /\ "force" \in Uses
  /\ pc[t] = "idle" /\ held[t] = None
  /\ \E g \in Groups : NewGroup(t, g, s, v, alive) /\ SetOff(t, g, v, "init", alive)
  /\ UNCHANGED <<poolVars, connMutex, connections, connVars, registered, ensureVars, readVars,
                 trouble>>

\* addNfsConnectionGroup, which hands out nothing
Add(t, s) ==
  /\ "add" \in Uses
  /\ pc[t] = "idle" /\ held[t] = None /\ tableLock = None /\ serverTable[s] = None
  /\ \E g \in Groups : /\ NewGroup(t, g, s, 3, FALSE)
                       /\ serverTable' = [serverTable EXCEPT ![s] = g]
                       /\ SetOff(t, g, 3, "add", FALSE)
  /\ UNCHANGED <<tableLock, finished, connMutex, connections, connVars, registered,
                 ensureVars, readVars, trouble>>

Holders(g) == {t \in Threads : held[t] = g}
refCount(g) == Cardinality({s \in Servers : serverTable[s] = g}) + Cardinality(Holders(g))

\* A mutant: one more reference is let pass.
RemoveFromPool_Shared(t) ==
  LET s == ip[held[t]] IN
  /\ "remove" \in Uses
  /\ pc[t] = "idle" /\ held[t] # None /\ tableLock = None
  /\ serverTable[s] # None /\ refCount(serverTable[s]) <= 3
  /\ serverTable' = [serverTable EXCEPT ![s] = None]
  /\ UNCHANGED <<tableLock, finished, groupVars, connected, connMutex, slotVars, connVars,
                 registered, pc, held, callVars, ensureVars, readVars, trouble>>

\* removeFromPool removes the group of that address, which need not be the thread's own.
RemoveFromPool(t) ==
  LET s == ip[held[t]] IN
  /\ "remove" \in Uses
  /\ pc[t] = "idle" /\ held[t] # None /\ tableLock = None
  /\ serverTable[s] # None /\ refCount(serverTable[s]) <= 2
  /\ serverTable' = [serverTable EXCEPT ![s] = None]
  /\ UNCHANGED <<tableLock, finished, groupVars, connected, connMutex, slotVars, connVars,
                 registered, pc, held, callVars, ensureVars, readVars, trouble>>

\* The last reference to g is given up: the destructor begins.
Destruct(t, g) ==
  /\ keepalive' = [keepalive EXCEPT ![g] = FALSE]
  /\ Goto(t, "destroy")

\* A thread gives up its reference.
Drop(t) ==
  /\ held[t] # None
  /\ pc[t] \in {"idle", "drop"}
  /\ IF refCount(held[t]) = 1
     THEN Destruct(t, held[t]) /\ held' = held /\ UNCHANGED callVars
     ELSE Done(t) /\ held' = [held EXCEPT ![t] = None] /\ keepalive' = keepalive
  /\ UNCHANGED <<poolVars, ip, version, connected, connMutex, slotVars, connVars, registered,
                 ensureVars, readVars, trouble>>

\* What is left of the group when its destructor ends
Destroyed(t, g) ==
  /\ Cleared({connections[g][s] : s \in Services})
  /\ connections' = [connections EXCEPT ![g] = [s \in Services |-> None]]
  /\ ip' = [ip EXCEPT ![g] = None] /\ version' = [version EXCEPT ![g] = 3]
  /\ connected' = [connected EXCEPT ![g] = FALSE]
  /\ rpcPorts' = [rpcPorts EXCEPT ![g] = NoPorts]
  /\ held' = [held EXCEPT ![t] = None]
  /\ pc' = [pc EXCEPT ![t] = IF tableLock = t THEN "fini" ELSE "idle"]
  /\ job' = [job EXCEPT ![t] = "call"] /\ prog' = [prog EXCEPT ![t] = "NFS"]
  /\ reported' = [reported EXCEPT ![t] = {}]
  /\ UNCHANGED <<poolVars, keepalive, connMutex, registered, ensureVars,
                 readVars, trouble>>

\* A mutant: the keepalive thread is not waited for.
Destroy_NotJoined(t) == pc[t] = "destroy" /\ Destroyed(t, held[t])

\* The destructor joins the keepalive thread, and clears the connections.
Destroy(t) == pc[t] = "destroy" /\ pc[held[t]] = "off" /\ Destroyed(t, held[t])

\* fini takes every group out of the pool, and may destroy it, all under the mutex.
Fini(t) ==
  /\ "fini" \in Uses
  /\ pc[t] = "idle" /\ held[t] = None /\ tableLock = None
  /\ tableLock' = t /\ finished' = TRUE
  /\ Goto(t, "fini")
  /\ UNCHANGED <<serverTable, groupVars, connected, connMutex, slotVars, connVars, registered,
                 held, callVars, ensureVars, readVars, trouble>>

TakeOut(t, s) ==
  LET g == serverTable[s] IN
  /\ pc[t] = "fini" /\ g # None
  /\ serverTable' = [serverTable EXCEPT ![s] = None]
  /\ IF Holders(g) = {} THEN Destruct(t, g) /\ held' = [held EXCEPT ![t] = g]
     ELSE UNCHANGED <<pc, keepalive, held>>
  /\ UNCHANGED <<tableLock, finished, ip, version, connected, connMutex, slotVars, connVars,
                 registered, callVars, ensureVars, readVars, trouble>>

FiniEnds(t) ==
  /\ pc[t] = "fini" /\ \A s \in Servers : serverTable[s] = None
  /\ tableLock' = None
  /\ Goto(t, "idle")
  /\ UNCHANGED <<serverTable, finished, groupVars, connected, connMutex, slotVars, connVars,
                 registered, held, callVars, ensureVars, readVars, trouble>>

-----------------------------------------------------------------------------
(* The server, and the connection manager.                                 *)

Environs == <<poolVars, groupVars, connected, connMutex, slotVars, pc, held, callVars,
              ensureVars, readVars>>

Move ==
  /\ MayFail("move")
  /\ \E ports \in PortList : ports # registered /\ registered' = ports
  /\ UNCHANGED <<Environs, connVars>>

\* The peer ends a connection.
End(c) ==
  /\ MayFail("close")
  /\ life[c] = "up" /\ life' = [life EXCEPT ![c] = "ended"]
  /\ UNCHANGED <<Environs, key, registered>>

\* The manager handles DEL_SKT, and drops its references.
Manage(c) ==
  /\ life[c] = "cleared"
  /\ IF Counted(c) = {} THEN Gone(c)
     ELSE life' = [life EXCEPT ![c] = "closed"] /\ key' = key
  /\ UNCHANGED <<Environs, registered, trouble>>

-----------------------------------------------------------------------------
Ensure(a) ==
  \/ KeepPortMapper(a) \/ ClearPortMapper(a) \/ NeedPortMapper(a) \/ CreatePortMapper(a)
  \/ UpdateRpcPorts(a) \/ DumpFails(a)
  \/ KeepService(a) \/ ClearService(a) \/ SkipService(a)
  \/ NeedService(a) \/ CreateService(a) \/ Ensured(a)
Use(a) == Get(a) \/ Copy(a) \/ \E ok \in BOOLEAN : Return(a, ok)

\* What an actor does once it has begun
Work(a) ==
  \/ Ensure(a) \/ Use(a)
  \/ a \in Groups /\ (Renew(a) \/ KeepAliveEnds(a))
  \/ a \in Threads /\ \/ pc[a] = "drop" /\ Drop(a)
                      \/ Destroy(a) \/ FiniEnds(a) \/ \E s \in Servers : TakeOut(a, s)

\* What a thread may begin
Start(t) ==
  \/ \E p \in Programs : Call(t, p)
  \/ Update(t) \/ RemoveFromPool(t) \/ Fini(t)
  \/ pc[t] = "idle" /\ Drop(t)
  \/ \E s \in Servers :
       \/ Find(t, s) \/ Add(t, s)
       \/ \E v \in {3, 4}, alive \in BOOLEAN : Create(t, s, v, alive) \/ ForceCreate(t, s, v, alive)

Environment == Move \/ \E c \in Conns : End(c) \/ Manage(c)

Next == \/ \E a \in Actors : Enter(a) \/ Work(a)
        \/ \E t \in Threads : Start(t)
        \/ Environment

Spec == Init /\ [][Next]_vars

\* What has begun goes on; the manager does its work; m_connMutex does not pass a
\* thread over for ever.
Fairness == /\ \A a \in Actors : WF_vars(Work(a)) /\ SF_vars(Enter(a))
            /\ \A c \in Conns : WF_vars(Manage(c))
FairSpec == Spec /\ Fairness

-----------------------------------------------------------------------------
(* Properties.                                                             *)

\* A call goes out on a connection of its own program, at a port that the server's
\* portmapper gave for it since the call began: ports move and services go, other
\* threads bring the connections up to date at the same time, and the slot is read
\* without the mutex (RemoteCall::call, ensureConnection, initRpcService).
PortIsFresh ==
  \A a \in Actors : pc[a] = "sent" /\ ~swapped[a] =>
    /\ key[conn[a]].prog = prog[a]
    /\ key[conn[a]].port \in reported[a] \ {0}

\* As long as the server stays as it is and no connection fails, no call has its
\* connection cleared by another thread that initialises or ensures the group's
\* connections (bForceRecreate, m_connMutex).
UndisturbedIsUncut ==
  trouble = 0 => \A a \in Actors : pc[a] = "sent" => life[conn[a]] = "up"

\* Every connection the manager has not been asked to delete is in a slot of a group
\* that exists, and in one only: none is overwritten or left behind by two threads
\* that create connections, or by the destructor.
Slots(c) == {gs \in Groups \X Services : connections[gs[1]][gs[2]] = c}
EveryConnectionIsOwned ==
  \A c \in Conns : life[c] \in {"up", "ended"} =>
    \E gs \in Slots(c) : Slots(c) = {gs} /\ ip[gs[1]] # None

\* A call uses no connection that has been destroyed, but where the slot was cleared
\* between the reading of the pointer and the counting of the reference: m_connMutex
\* does not protect getNfsConnection, and SmartPtr does not by itself.
UsedIsAlive ==
  \A a \in Actors : pc[a] = "sent" /\ ~swapped[a] => life[conn[a]] # "none"

\* A group that is not in the pool is held by one thread at most, unless fini emptied
\* the pool: removeFromPool and forceCreate leave no one to share it.
OutOfPoolIsUnshared ==
  \A g \in Groups : ip[g] # None /\ ~finished /\ (\A s \in Servers : serverTable[s] # g) =>
    Cardinality(Holders(g)) <= 1

\* When a group is destroyed, nobody is in it: no thread holds it, its keepalive thread
\* has ended, and its mutex is free.
DestroyedIsQuiet ==
  \A g \in Groups : ip[g] = None =>
    /\ pc[g] = "off" /\ connMutex[g] = None
    /\ Holders(g) = {} /\ \A s \in Servers : serverTable[s] # g

\* Whatever a thread begins comes to an end, the destructor and fini too, which wait
\* for the keepalive thread.
EveryOperationReturns == \A t \in Threads : pc[t] # "idle" ~> pc[t] = "idle"
=============================================================================
