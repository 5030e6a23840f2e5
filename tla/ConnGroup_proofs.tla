--------------------------- MODULE ConnGroup_proofs ---------------------------
(***************************************************************************)
(* Theorems about ConnGroup, for every set of threads, groups,             *)
(* connections, servers and ports, and every use and fault.                *)
(***************************************************************************)
EXTENDS ConnGroup, FiniteSetTheorems, TLAPS

USE GroupAssumption DEF GroupAssumption

(***************************************************************************)
(* The invariant, by its parts.                                            *)
(***************************************************************************)
\* Who is where: an actor that has begun something is on a group that exists, and
\* whoever destroys a group is alone with it.
Quiet(a) == pc[a] \in {"idle", "off", "fini"}
OnAGroup ==
  /\ \A t \in Threads : /\ ~Quiet(t) => held[t] # None
                        /\ pc[t] # "off"
                        /\ pc[t] = "fini" => held[t] = None
  /\ \A g \in Groups : /\ pc[g] \notin {"drop", "destroy", "fini"}
                       /\ pc[g] # "off" => ip[g] # None
                       /\ job[g] # "add"
  /\ \A t \in Threads : held[t] # None => ip[held[t]] # None
  /\ \A s \in Servers : serverTable[s] # None => ip[serverTable[s]] = s

DestroyersAreAlone ==
  \A t \in Threads : pc[t] = "destroy" =>
    /\ \A u \in Threads : held[u] = held[t] => u = t
    /\ \A s \in Servers : serverTable[s] # held[t]

\* m_connMutex is with the actor that is between Enter and Leave on the group.
MutexIsHeld ==
  \A g \in Groups, a \in Actors :
    connMutex[g] = a <=> pc[a] \in Locked /\ GroupOf(a) = g

\* A slot holds a connection of its own, and every connection that is not cleared is
\* in a slot; what is about to be made has an empty slot to go to.
SlotsAreSound ==
  /\ \A g \in Groups, s \in Services : connections[g][s] # None =>
       /\ life[connections[g][s]] \in {"up", "ended"}
       /\ key[connections[g][s]].prog = s
       /\ ip[g] # None
       /\ \A h \in Groups, r \in Services :
            connections[h][r] = connections[g][s] => h = g /\ r = s
  /\ \A c \in Conns : life[c] \in {"up", "ended"} =>
       \E g \in Groups, s \in Services : connections[g][s] = c

MakerIsReady(a) ==
  /\ pc[a] = "makePortmap" => connections[GroupOf(a)]["PORTMAP"] = None
  /\ pc[a] = "make" => /\ todo[a] # {}
                       /\ connections[GroupOf(a)][NextOf(a)] = None
                       /\ rpcPorts[GroupOf(a)][NextOf(a)] # 0
MakersAreReady == \A a \in Actors : MakerIsReady(a)

\* What an actor does fits its group: only NFSv3 asks the portmapper, and the ports of
\* an NFSv4 group never change.
VersionFits(a) ==
  /\ pc[a] \in {"portmap", "makePortmap", "dump"} =>
       version[GroupOf(a)] = 3 /\ todo[a] = ProgramsOf(GroupOf(a))
  /\ Quiet(a) => prog[a] = "NFS"
  /\ ~Quiet(a) => prog[a] \in ProgramsOf(GroupOf(a))
VersionsAreKept ==
  /\ \A g \in Groups : version[g] = 4 /\ ip[g] # None => rpcPorts[g]["NFS"] = Nfs4Port
  /\ \A a \in Actors : VersionFits(a)

\* A call that has begun knows the port of its service, and goes for no other: where
\* it has been through the services their connections are up to date.
Calling(a) == job[a] \in CallJobs /\ pc[a] \notin {"idle", "off", "drop", "destroy", "fini"}
PortIsKnown(a) ==
  /\ Calling(a) /\ version[GroupOf(a)] = 4 => Nfs4Port \in reported[a]
  /\ job[a] \in CallJobs /\ pc[a] \in {"service", "make", "get"} =>
       rpcPorts[GroupOf(a)][prog[a]] \in reported[a]
  /\ pc[a] \in {"service", "make"} =>
       \A p \in ProgramsOf(GroupOf(a)) \ todo[a] :
         connections[GroupOf(a)][p] # None =>
           key[connections[GroupOf(a)][p]].port = rpcPorts[GroupOf(a)][p]
  /\ pc[a] = "get" =>
       /\ job[a] \in CallJobs
       /\ connections[GroupOf(a)][prog[a]] # None =>
            key[connections[GroupOf(a)][prog[a]]].port \in reported[a]
PortsAreKnown == \A a \in Actors : PortIsKnown(a)

\* The connection of a call that no one has swapped is the slot's until the call has
\* counted itself in, and is an object of the call's program from then on.
UseIsSound(a) ==
  ~swapped[a] =>
    /\ pc[a] = "copy" => conn[a] = connections[GroupOf(a)][prog[a]]
    /\ pc[a] = "sent" => life[conn[a]] # "none"
    /\ pc[a] \in {"copy", "sent"} => /\ conn[a] # None
                                     /\ key[conn[a]].prog = prog[a]
                                     /\ key[conn[a]].port \in reported[a]
UsesAreSound == \A a \in Actors : UseIsSound(a)

PoolIsUnshared ==
  /\ tableLock # None => finished
  /\ \A t \in Threads : pc[t] = "fini" => finished
  /\ \A t, u \in Threads :
       /\ held[t] = held[u] /\ held[t] # None /\ ~finished
       /\ \A s \in Servers : serverTable[s] # held[t]
       => t = u

IInv == /\ TypeOK /\ OnAGroup /\ DestroyersAreAlone /\ MutexIsHeld /\ SlotsAreSound
        /\ MakersAreReady /\ VersionsAreKept /\ PortsAreKnown /\ UsesAreSound
        /\ PoolIsUnshared

-----------------------------------------------------------------------------
(***************************************************************************)
(* Types.                                                                  *)
(***************************************************************************)
TypePool ==
  /\ serverTable \in [Servers -> Groups \cup {None}] /\ tableLock \in Threads \cup {None}
  /\ ip \in [Groups -> Servers \cup {None}] /\ version \in [Groups -> {3, 4}]
  /\ keepalive \in [Groups -> BOOLEAN] /\ finished \in BOOLEAN
  /\ held \in [Threads -> Groups \cup {None}]

TypeActors ==
  /\ pc \in [Actors -> Locked \cup {"idle", "off", "lock", "get", "copy", "sent",
                                    "drop", "destroy", "fini"}]
  /\ job \in [Actors -> Jobs] /\ prog \in [Actors -> Programs]
  /\ todo \in [Actors -> SUBSET Programs] /\ force \in [Actors -> BOOLEAN]
  /\ conn \in [Actors -> Conns \cup {None}]
  /\ reported \in [Actors -> SUBSET (Ports \cup {0})] /\ swapped \in [Actors -> BOOLEAN]
  /\ connected \in [Groups -> BOOLEAN] /\ connMutex \in [Groups -> Actors \cup {None}]

TypeConns ==
  /\ connections \in [Groups -> [Services -> Conns \cup {None}]]
  /\ rpcPorts \in [Groups -> PortList]
  /\ life \in [Conns -> Life] /\ key \in [Conns -> [prog : Services, port : Nat]]
  /\ \A c \in Conns : life[c] # "none" => key[c].port # 0
  /\ registered \in PortList /\ trouble \in 0..MaxFaults

\* The type invariant by the parts of the state that change together.
LEMMA TypeParts == TypeOK <=> TypePool /\ TypeActors /\ TypeConns
  BY DEF TypeOK, TypePool, TypeActors, TypeConns

\* Of what is left to do the next is one.
LEMMA NextIsLeft ==
  ASSUME TypeActors, NEW a \in Actors, todo[a] # {}
  PROVE  NextOf(a) \in todo[a] /\ NextOf(a) \in Programs
  <1>1. todo[a] \subseteq {"MOUNT", "NFS", "NLM"} /\ todo[a] \subseteq Programs
    BY DEF TypeActors
  <1>2. \E p \in todo[a] : \A q \in todo[a] : Rank[p] <= Rank[q]
    BY <1>1 DEF Rank
  <1>3. NextOf(a) \in todo[a]
    BY <1>2 DEF NextOf
  <1>4. QED
    BY <1>1, <1>3

\* RpcConnection::create takes memory that no object has.
LEMMA MemoryIsFree ==
  ASSUME NoObject
  PROVE  Memory \in Conns /\ life[Memory] = "none"
  BY DEF NoObject, Memory

\* Only actor a changes its position and its call.
Moves(a) ==
  /\ pc' = [pc EXCEPT ![a] = pc'[a]] /\ job' = [job EXCEPT ![a] = job'[a]]
  /\ prog' = [prog EXCEPT ![a] = prog'[a]] /\ reported' = [reported EXCEPT ![a] = reported'[a]]

\* It goes from one job to the next, or to where it has none.
GoesOn(a) ==
  /\ pc'[a] \in {"lock", "drop", "idle"} /\ job'[a] \in Jobs
  /\ pc'[a] = "lock" => prog'[a] = "NFS" /\ reported'[a] = {Nfs4Port} /\ job'[a] # "add"
  /\ pc'[a] = "idle" => prog'[a] = "NFS" /\ reported'[a] = {} /\ job'[a] = "call"
  /\ pc'[a] = "drop" => UNCHANGED <<prog[a], job[a], reported[a]>> /\ job[a] = "add"

\* What follows a call or initNfs touches only the actor's own call, and the group's
\* m_bConnected.
LEMMA ContinueEffect ==
  ASSUME TypeActors, NEW a \in Actors, NEW g \in Groups, NEW ok, Continue(a, g, ok)
  PROVE  Moves(a) /\ GoesOn(a) /\ connected' \in [Groups -> BOOLEAN]
  <1> USE DEF TypeActors, Goto, Jobs, CallJobs, Moves, GoesOn
  <1>1. connected' \in [Groups -> BOOLEAN]
    BY DEF Continue
  <1>2. CASE job[a] = "init" /\ version[g] = 4
    BY <1>1, <1>2 DEF Continue, Begin
  <1>3. CASE job[a] = "null" /\ ok
    BY <1>1, <1>3 DEF Continue, Begin
  <1>4. CASE job[a] = "add"
    BY <1>1, <1>4 DEF Continue, callVars
  <1>5. CASE ~(job[a] = "init" /\ version[g] = 4) /\ ~(job[a] = "null" /\ ok) /\ job[a] # "add"
    <2>1. Done(a)
      BY <1>5 DEF Continue
    <2>2. QED
      BY <1>1, <2>1 DEF Done
  <1>6. QED
    BY <1>2, <1>3, <1>4, <1>5

TypeCalls ==
  /\ pc \in [Actors -> Locked \cup {"idle", "off", "lock", "get", "copy", "sent",
                                    "drop", "destroy", "fini"}]
  /\ job \in [Actors -> Jobs] /\ prog \in [Actors -> Programs]
  /\ reported \in [Actors -> SUBSET (Ports \cup {0})]

\* An actor that goes on stays in its types.
LEMMA GoesOnIsTyped ==
  ASSUME TypeActors, NEW a \in Actors, Moves(a), GoesOn(a)
  PROVE  TypeCalls'
  BY DEF TypeActors, TypeCalls, Moves, GoesOn

\* The end of ensureConnection frees m_connMutex and clears what was left to do.
LEMMA LeaveEffect ==
  ASSUME TypeActors, NEW a \in Actors, NEW ok, Leave(a, ok), GroupOf(a) \in Groups
  PROVE  /\ Moves(a)
         /\ \/ GoesOn(a)
            \/ pc'[a] = "get" /\ ok /\ job[a] \in CallJobs /\ UNCHANGED callVars
         /\ connected' \in [Groups -> BOOLEAN]
         /\ connMutex' = [connMutex EXCEPT ![GroupOf(a)] = None]
         /\ todo' = [todo EXCEPT ![a] = {}] /\ force' = [force EXCEPT ![a] = FALSE]
  <1>1. CASE ok /\ job[a] \in CallJobs
    BY <1>1 DEF Leave, TypeActors, Goto, callVars, Moves
  <1>2. CASE ~(ok /\ job[a] \in CallJobs)
    <2>1. Continue(a, GroupOf(a), ok)
      BY <1>2 DEF Leave
    <2>2. QED
      BY <2>1, ContinueEffect DEF Leave
  <1>3. QED
    BY <1>1, <1>2

\* What an actor does on its group, its calls and the making of connections.
Inner(a) ==
  \/ Enter(a) \/ Ensure(a) \/ Use(a)
  \/ a \in Groups /\ (Renew(a) \/ KeepAliveEnds(a))
  \/ a \in Threads /\ (Update(a) \/ \E p \in Programs : Call(a, p))

\* The pool, and what a thread does to it.
PoolWork(t) ==
  \/ RemoveFromPool(t) \/ Fini(t) \/ Drop(t) \/ Destroy(t) \/ FiniEnds(t)
  \/ \E s \in Servers :
       \/ TakeOut(t, s) \/ Find(t, s) \/ Add(t, s)
       \/ \E v \in {3, 4}, alive \in BOOLEAN : Create(t, s, v, alive) \/ ForceCreate(t, s, v, alive)

\* A step is an actor's inner step, work on the pool, or the environment's.
LEMMA NextSteps ==
  ASSUME [Next]_vars
  PROVE  \/ \E a \in Actors : Inner(a)
         \/ \E t \in Threads : PoolWork(t)
         \/ Environment \/ UNCHANGED vars
  <1>1. ASSUME NEW a \in Actors, Work(a) PROVE Inner(a) \/ (a \in Threads /\ PoolWork(a))
    BY <1>1 DEF Work, Inner, PoolWork
  <1>2. ASSUME NEW t \in Threads, Start(t) PROVE Inner(t) \/ PoolWork(t)
    BY <1>2 DEF Start, Inner, PoolWork
  <1>3. QED
    BY <1>1, <1>2 DEF Next, Inner, Actors

\* Whoever is busy is on a group that exists.
LEMMA BusyOnAGroup ==
  ASSUME TypePool, OnAGroup, NEW a \in Actors, ~Quiet(a)
  PROVE  GroupOf(a) \in Groups /\ ip[GroupOf(a)] # None
  BY DEF TypePool, OnAGroup, GroupOf, Quiet, Actors

InnerFrame(a) ==
  /\ UNCHANGED <<poolVars, groupVars, held, registered>>
  /\ pc' = [pc EXCEPT ![a] = pc'[a]] /\ job' = [job EXCEPT ![a] = job'[a]]
  /\ prog' = [prog EXCEPT ![a] = prog'[a]] /\ todo' = [todo EXCEPT ![a] = todo'[a]]
  /\ conn' = [conn EXCEPT ![a] = conn'[a]]
  /\ pc'[a] = "off" => a \in Groups /\ pc[a] = "idle"
  /\ pc'[a] = "drop" => job[a] = "add"
  /\ pc'[a] \notin {"destroy", "fini"} /\ pc[a] \notin {"off", "drop", "destroy", "fini"}
  /\ pc[a] = "idle" => /\ (a \in Groups /\ pc'[a] = "off") \/ GroupOf(a) \in Groups
                       /\ connMutex' = connMutex
  /\ job'[a] = "add" => job[a] = "add"

InnerMutex(a) ==
  LET g == GroupOf(a) IN
  \/ connMutex' = connMutex /\ (pc[a] \in Locked <=> pc'[a] \in Locked)
  \/ /\ pc[a] \notin Locked /\ pc'[a] \in Locked /\ g \in Groups
     /\ connMutex[g] = None /\ connMutex' = [connMutex EXCEPT ![g] = a]
  \/ /\ pc[a] \in Locked /\ pc'[a] \notin Locked /\ g \in Groups
     /\ connMutex' = [connMutex EXCEPT ![g] = None]

\* The end of ensureConnection and initNfs, as others see it.
LEMMA LeftInOrder ==
  ASSUME TypeActors, NEW a \in Actors, NEW ok, Leave(a, ok), GroupOf(a) \in Groups,
         pc[a] \in {"dump", "service"},
         UNCHANGED <<poolVars, groupVars, held, registered, readVars>>
  PROVE  InnerFrame(a) /\ InnerMutex(a) /\ TypeActors'
  <1>1. /\ Moves(a)
        /\ \/ GoesOn(a)
           \/ pc'[a] = "get" /\ job[a] \in CallJobs /\ UNCHANGED callVars
        /\ connected' \in [Groups -> BOOLEAN]
        /\ connMutex' = [connMutex EXCEPT ![GroupOf(a)] = None]
        /\ todo' = [todo EXCEPT ![a] = {}] /\ force' = [force EXCEPT ![a] = FALSE]
    BY LeaveEffect
  <1>2. TypeCalls'
    <2>1. CASE GoesOn(a)
      BY <1>1, <2>1, GoesOnIsTyped
    <2>2. CASE pc'[a] = "get" /\ UNCHANGED callVars
      BY <1>1, <2>2 DEF TypeActors, TypeCalls, Moves, callVars
    <2>3. QED
      BY <1>1, <2>1, <2>2
  <1>3. /\ conn' \in [Actors -> Conns \cup {None}] /\ swapped' \in [Actors -> BOOLEAN]
        /\ todo' \in [Actors -> SUBSET Programs] /\ force' \in [Actors -> BOOLEAN]
        /\ connMutex' \in [Groups -> Actors \cup {None}]
    BY <1>1 DEF TypeActors, readVars
  <1>4. TypeActors'
    BY <1>1, <1>2, <1>3 DEF TypeActors, TypeCalls
  <1>5. InnerMutex(a)
    BY <1>1 DEF InnerMutex, GoesOn, Locked
  <1>6. InnerFrame(a)
    <2>1. /\ pc'[a] \in {"lock", "get", "drop", "idle"}
          /\ pc'[a] = "drop" => job[a] = "add"
          /\ job'[a] = "add" => job[a] = "add"
      BY <1>1 DEF GoesOn, callVars
    <2>2. todo' = [todo EXCEPT ![a] = todo'[a]] /\ conn' = [conn EXCEPT ![a] = conn'[a]]
      BY <1>1 DEF TypeActors, readVars
    <2>3. UNCHANGED <<poolVars, groupVars, held, registered>>
      BY DEF poolVars, groupVars
    <2>4. pc[a] \notin {"idle", "off", "drop", "destroy", "fini"}
      OBVIOUS
    <2>5. QED
      BY <1>1, <2>1, <2>2, <2>3, <2>4 DEF InnerFrame, Moves
  <1>7. QED
    BY <1>4, <1>5, <1>6

\* The end of a call, as others see it.
LEMMA WentOnInOrder ==
  ASSUME TypeActors, NEW a \in Actors, NEW ok, Continue(a, GroupOf(a), ok),
         GroupOf(a) \in Groups, pc[a] \in {"get", "sent"},
         UNCHANGED <<poolVars, groupVars, connMutex, held, registered, ensureVars>>,
         conn' = conn \/ conn' = [conn EXCEPT ![a] = None],
         swapped' = swapped \/ swapped' = [swapped EXCEPT ![a] = FALSE]
  PROVE  InnerFrame(a) /\ InnerMutex(a) /\ TypeActors'
  <1>1. Moves(a) /\ GoesOn(a) /\ connected' \in [Groups -> BOOLEAN]
    BY ContinueEffect
  <1>2. TypeCalls'
    BY <1>1, GoesOnIsTyped
  <1>3. /\ conn' \in [Actors -> Conns \cup {None}] /\ swapped' \in [Actors -> BOOLEAN]
        /\ todo' \in [Actors -> SUBSET Programs] /\ force' \in [Actors -> BOOLEAN]
        /\ connMutex' \in [Groups -> Actors \cup {None}]
    BY DEF TypeActors, ensureVars
  <1>4. TypeActors'
    BY <1>1, <1>2, <1>3 DEF TypeActors, TypeCalls
  <1>5. InnerMutex(a)
    BY <1>1 DEF InnerMutex, GoesOn, Locked
  <1>6. InnerFrame(a)
    <2>1. /\ pc'[a] \in {"lock", "drop", "idle"}
          /\ pc'[a] = "drop" => job[a] = "add"
          /\ job'[a] = "add" => job[a] = "add"
      BY <1>1 DEF GoesOn
    <2>2. todo' = [todo EXCEPT ![a] = todo'[a]] /\ conn' = [conn EXCEPT ![a] = conn'[a]]
      BY DEF TypeActors, ensureVars
    <2>3. UNCHANGED <<poolVars, groupVars, held, registered>>
      BY DEF poolVars, groupVars
    <2>4. pc[a] \notin {"idle", "off", "drop", "destroy", "fini"}
      OBVIOUS
    <2>5. QED
      BY <1>1, <2>1, <2>2, <2>3, <2>4 DEF InnerFrame, Moves
  <1>7. QED
    BY <1>4, <1>5, <1>6

\* An inner step moves one actor, leaves the pool alone, and takes or gives up the
\* mutex of the actor's group exactly when it enters or leaves ensureConnection.
LEMMA InnerStep ==
  ASSUME TypePool, TypeActors, TypeConns, OnAGroup, NEW a \in Actors, Inner(a)
  PROVE  InnerFrame(a) /\ InnerMutex(a) /\ TypeActors'
  <1> USE DEF Goto, poolVars, groupVars, slotVars, connVars, callVars, ensureVars, readVars,
              Proceed, InnerFrame, InnerMutex, Locked
  <1> DEFINE g == GroupOf(a)
  <1>g. ~Quiet(a) => g \in Groups
    BY BusyOnAGroup
  <1>1. CASE Enter(a)
    <2>1. g \in Groups /\ ProgramsOf(g) \in SUBSET Programs
      BY <1>1, <1>g DEF Enter, Quiet, ProgramsOf
    <2>2. QED
      BY <1>1, <2>1 DEF Enter, TypeActors
  <1>2. CASE KeepPortMapper(a) \/ ClearPortMapper(a) \/ NeedPortMapper(a) \/ CreatePortMapper(a)
    <2>1. CASE KeepPortMapper(a) \/ ClearPortMapper(a)
      BY <2>1 DEF KeepPortMapper, ClearPortMapper, TypeActors
    <2>2. CASE NeedPortMapper(a)
      BY <2>2 DEF NeedPortMapper, TypeActors
    <2>3. CASE CreatePortMapper(a)
      BY <2>3 DEF CreatePortMapper, TypeActors
    <2>4. QED
      BY <1>2, <2>1, <2>2, <2>3
  <1>3. CASE UpdateRpcPorts(a)
    <2>1. reported' \in [Actors -> SUBSET (Ports \cup {0})]
      <3>1. \A b \in Actors : /\ registered[prog[b]] \in Ports \cup {0}
                              /\ reported[b] \in SUBSET (Ports \cup {0})
        BY DEF TypeActors, TypeConns, PortList
      <3>2. QED
        BY <1>3, <3>1 DEF UpdateRpcPorts, Tell
    <2>2. /\ UNCHANGED <<poolVars, groupVars, connected, connMutex, held, registered,
                         job, prog, ensureVars, readVars>>
          /\ pc[a] = "dump" /\ pc' = [pc EXCEPT ![a] = "service"]
      BY <1>3 DEF UpdateRpcPorts
    <2>3. QED
      BY <2>1, <2>2 DEF TypeActors
  <1>4. CASE DumpFails(a)
    <2>1. g \in Groups
      BY <1>4, <1>g DEF DumpFails, Quiet
    <2>2. Leave(a, FALSE) /\ pc[a] = "dump" /\ UNCHANGED <<poolVars, groupVars, held, registered, readVars>>
      BY <1>4 DEF DumpFails
    <2>3. QED
      BY <2>1, <2>2, LeftInOrder
  <1>5. CASE KeepService(a) \/ SkipService(a) \/ NeedService(a)
    BY <1>5 DEF KeepService, SkipService, NeedService, TypeActors
  <1>6. CASE ClearService(a)
    BY <1>6 DEF ClearService, TypeActors
  <1>7. CASE CreateService(a)
    BY <1>7 DEF CreateService, TypeActors
  <1>8. CASE Ensured(a)
    <2>1. g \in Groups
      BY <1>8, <1>g DEF Ensured, Quiet
    <2>2. Leave(a, TRUE) /\ pc[a] = "service" /\ UNCHANGED <<poolVars, groupVars, held, registered, readVars>>
      BY <1>8 DEF Ensured
    <2>3. QED
      BY <2>1, <2>2, LeftInOrder
  <1>9. CASE Get(a)
    <2>1. g \in Groups
      BY <1>9, <1>g DEF Get, Quiet
    <2>2. /\ UNCHANGED <<poolVars, groupVars, connMutex, held, registered, ensureVars, swapped>>
          /\ pc[a] = "get"
      BY <1>9 DEF Get
    <2>3. CASE connections[g][prog[a]] = None
      <3>1. Continue(a, g, FALSE) /\ conn' = conn
        BY <1>9, <2>3 DEF Get
      <3>2. QED
        BY <2>1, <2>2, <3>1, WentOnInOrder
    <2>4. CASE connections[g][prog[a]] # None
      <3>1. /\ pc' = [pc EXCEPT ![a] = "copy"] /\ UNCHANGED <<callVars, connected>>
            /\ conn' = [conn EXCEPT ![a] = connections[g][prog[a]]]
        BY <1>9, <2>4 DEF Get
      <3>2. connections[g][prog[a]] \in Conns \cup {None}
        <4>1. prog[a] \in Services
          BY DEF TypeActors, Services
        <4>2. connections[g] \in [Services -> Conns \cup {None}]
          BY <2>1 DEF TypeConns
        <4>3. QED
          BY <4>1, <4>2
      <3>3. QED
        BY <2>2, <3>1, <3>2 DEF TypeActors
    <2>5. QED
      BY <2>3, <2>4
  <1>10. CASE Copy(a)
    BY <1>10 DEF Copy, TypeActors
  <1>11. ASSUME NEW ok \in BOOLEAN, Return(a, ok) PROVE InnerFrame(a) /\ InnerMutex(a) /\ TypeActors'
    <2>1. g \in Groups
      BY <1>11, <1>g DEF Return, Quiet
    <2>2. /\ Continue(a, g, ok) /\ pc[a] = "sent" /\ conn' = [conn EXCEPT ![a] = None]
          /\ swapped' = [swapped EXCEPT ![a] = FALSE]
          /\ UNCHANGED <<poolVars, groupVars, connMutex, held, registered, ensureVars>>
      BY <1>11 DEF Return
    <2>3. QED
      BY <2>1, <2>2, WentOnInOrder
  <1>12. CASE a \in Groups /\ (Renew(a) \/ KeepAliveEnds(a))
    BY <1>12 DEF Renew, KeepAliveEnds, Begin, TypeActors, Jobs, CallJobs, GroupOf
  <1>13. CASE a \in Threads /\ (Update(a) \/ \E p \in Programs : Call(a, p))
    BY <1>13 DEF Update, Call, Begin, TypeActors, TypePool, Jobs, CallJobs, GroupOf
  <1>14. QED
    BY <1>1, <1>2, <1>3, <1>4, <1>5, <1>6, <1>7, <1>8, <1>9, <1>10, <1>11, <1>12, <1>13
       DEF Inner, Ensure, Use

-----------------------------------------------------------------------------
(***************************************************************************)
(* References.                                                             *)
(***************************************************************************)
Entries(g) == {s \in Servers : serverTable[s] = g}

\* The reference count of a group is a number: its entry in the pool, and its holders.
LEMMA CountsAreNumbers ==
  ASSUME NEW g
  PROVE  /\ IsFiniteSet(Entries(g)) /\ IsFiniteSet(Holders(g))
         /\ Cardinality(Entries(g)) \in Nat /\ Cardinality(Holders(g)) \in Nat
         /\ refCount(g) = Cardinality(Entries(g)) + Cardinality(Holders(g))
  <1>1. Entries(g) \in SUBSET Servers /\ Holders(g) \in SUBSET Threads
    BY DEF Entries, Holders
  <1>2. IsFiniteSet(Entries(g)) /\ IsFiniteSet(Holders(g))
    BY <1>1, FS_Subset
  <1>3. QED
    BY <1>2, FS_CardinalityType DEF refCount, Entries

\* The only reference to a group is that of the thread that holds it.
LEMMA LastReference ==
  ASSUME NEW t \in Threads, refCount(held[t]) = 1
  PROVE  /\ \A u \in Threads : held[u] = held[t] => u = t
         /\ \A s \in Servers : serverTable[s] # held[t]
  <1> DEFINE g == held[t]
  <1>1. t \in Holders(g)
    BY DEF Holders
  <1>2. Cardinality(Holders(g)) # 0
    BY <1>1, CountsAreNumbers, FS_EmptySet
  <1>3. Cardinality(Holders(g)) = 1 /\ Cardinality(Entries(g)) = 0
    BY <1>2, CountsAreNumbers
  <1>4. Entries(g) = {} /\ \E u : Holders(g) = {u}
    BY <1>3, CountsAreNumbers, FS_EmptySet, FS_Singleton
  <1>5. QED
    BY <1>1, <1>4 DEF Holders, Entries

\* Where a group of the pool has two references, one thread holds it at most.
LEMMA OneHolder ==
  ASSUME NEW s \in Servers, refCount(serverTable[s]) <= 2
  PROVE  \A t, u \in Threads : held[t] = serverTable[s] /\ held[u] = serverTable[s] => t = u
  <1> DEFINE g == serverTable[s]
  <1>1. s \in Entries(g)
    BY DEF Entries
  <1>2. Cardinality(Entries(g)) # 0
    BY <1>1, CountsAreNumbers, FS_EmptySet
  <1>3. Cardinality(Holders(g)) = 0 \/ Cardinality(Holders(g)) = 1
    BY <1>2, CountsAreNumbers
  <1>4. Holders(g) = {} \/ \E u : Holders(g) = {u}
    BY <1>3, CountsAreNumbers, FS_EmptySet, FS_Singleton
  <1>5. QED
    BY <1>4 DEF Holders

-----------------------------------------------------------------------------
(***************************************************************************)
(* The pool, and where everybody is.                                       *)
(***************************************************************************)
\* A new group: create, forceCreate and addNfsConnectionGroup differ in what they do
\* with it in the pool.
Founds(t, g, s) ==
  /\ pc[t] = "idle" /\ held[t] = None /\ ip[g] = None /\ pc[g] = "off"
  /\ ip' = [ip EXCEPT ![g] = s] /\ held' = [held EXCEPT ![t] = g]
  /\ \E v \in {3, 4}, alive \in BOOLEAN :
       /\ version' = [version EXCEPT ![g] = v]
       /\ keepalive' = [keepalive EXCEPT ![g] = alive /\ v = 4]
       /\ connected' = [connected EXCEPT ![g] = FALSE]
       /\ rpcPorts' = [rpcPorts EXCEPT ![g] = IF v = 4 THEN [NoPorts EXCEPT !["NFS"] = Nfs4Port]
                                              ELSE NoPorts]
       /\ pc' = [pc EXCEPT ![t] = "lock", ![g] = IF alive /\ v = 4 THEN "idle" ELSE "off"]
  /\ job' = [job EXCEPT ![t] = job'[t]] /\ job'[t] \in {"init", "add"}
  /\ \/ serverTable' = serverTable
     \/ serverTable[s] = None /\ serverTable' = [serverTable EXCEPT ![s] = g]
  /\ UNCHANGED <<tableLock, finished, connMutex, connections, connVars, registered,
                 prog, reported, ensureVars, readVars, trouble>>

Founding(t) == \E g \in Groups, s \in Servers : Founds(t, g, s)

\* create, forceCreate and addNfsConnectionGroup each found a group.
LEMMA FoundingSteps ==
  ASSUME TypeActors, NEW t \in Threads, NEW s \in Servers,
         Add(t, s) \/ \E v \in {3, 4}, alive \in BOOLEAN :
                        Create(t, s, v, alive) \/ ForceCreate(t, s, v, alive)
  PROVE  Founding(t)
  <1> USE DEF NewGroup, SetOff, Founds, Founding, poolVars, TypeActors, Actors
  <1>1. CASE Add(t, s)
    BY <1>1 DEF Add
  <1>2. ASSUME NEW v \in {3, 4}, NEW alive \in BOOLEAN, Create(t, s, v, alive) PROVE Founding(t)
    BY <1>2 DEF Create
  <1>3. ASSUME NEW v \in {3, 4}, NEW alive \in BOOLEAN, ForceCreate(t, s, v, alive) PROVE Founding(t)
    BY <1>3 DEF ForceCreate
  <1>4. QED
    BY <1>1, <1>2, <1>3

\* A new group is nobody's but its maker's.
LEMMA FoundingKeepsPlaces ==
  ASSUME TypePool, TypeActors, OnAGroup, NEW t \in Threads, Founding(t)
  PROVE  TypePool' /\ TypeActors' /\ OnAGroup'
  <1>1. PICK g \in Groups, s \in Servers : Founds(t, g, s)
    BY DEF Founding
  <1>t. t \in Actors /\ g \in Actors /\ t # g /\ t \notin Groups /\ g \notin Threads
    BY DEF Actors
  <1>2. TypePool'
    BY <1>1 DEF Founds, TypePool
  <1>3. TypeActors'
    BY <1>1, <1>t DEF Founds, TypeActors, ensureVars, readVars, Jobs
  <1>4. /\ \A u \in Threads \ {t} : pc'[u] = pc[u] /\ held'[u] = held[u]
        /\ \A h \in Groups \ {g} : pc'[h] = pc[h] /\ ip'[h] = ip[h]
        /\ \A h \in Groups : job'[h] = job[h]
        /\ pc'[t] = "lock" /\ held'[t] = g /\ ip'[g] = s /\ pc'[g] \in {"idle", "off"}
    <2>1. PICK to \in {"idle", "off"} : pc' = [pc EXCEPT ![t] = "lock", ![g] = to]
      BY <1>1 DEF Founds
    <2>2. \A a \in Actors : a # t /\ a # g => pc'[a] = pc[a]
      BY <2>1 DEF TypeActors
    <2>3. pc'[t] = "lock" /\ pc'[g] \in {"idle", "off"}
      BY <2>1, <1>t DEF TypeActors
    <2>4. /\ held' = [held EXCEPT ![t] = g] /\ ip' = [ip EXCEPT ![g] = s]
          /\ job' = [job EXCEPT ![t] = job'[t]]
      BY <1>1 DEF Founds
    <2>5. QED
      BY <2>2, <2>3, <2>4, <1>t DEF TypePool, TypeActors, Actors
  <1>5. \A r \in Servers : \/ serverTable'[r] = serverTable[r] /\ serverTable[r] # g
                           \/ serverTable'[r] = g /\ r = s
    BY <1>1 DEF Founds, TypePool, OnAGroup
  <1>6. \A r \in Servers : serverTable'[r] # None => ip'[serverTable'[r]] = r
    BY <1>4, <1>5 DEF OnAGroup, TypePool
  <1>7. \A u \in Threads : held'[u] # None => ip'[held'[u]] # None
    BY <1>4 DEF OnAGroup, TypePool
  <1>8. OnAGroup'
    BY <1>4, <1>6, <1>7 DEF OnAGroup, Quiet
  <1>9. QED
    BY <1>2, <1>3, <1>8

\* What a thread does to the pool leaves everyone on a group that exists.
LEMMA PoolKeepsPlaces ==
  ASSUME TypePool, TypeActors, OnAGroup, DestroyersAreAlone, NEW t \in Threads, PoolWork(t)
  PROVE  TypePool' /\ TypeActors' /\ OnAGroup'
  <1> USE DEF Goto, poolVars, groupVars, callVars, ensureVars, readVars
  <1>t. t \in Actors /\ t \notin Groups
    BY DEF Actors
  <1>1. ASSUME NEW s \in Servers, Add(t, s) \/ \E v \in {3, 4}, alive \in BOOLEAN :
                 Create(t, s, v, alive) \/ ForceCreate(t, s, v, alive)
        PROVE  TypePool' /\ TypeActors' /\ OnAGroup'
    BY <1>1, FoundingSteps, FoundingKeepsPlaces
  <1>2. CASE RemoveFromPool(t)
    BY <1>2 DEF RemoveFromPool, TypePool, TypeActors, OnAGroup, Quiet
  <1>3. CASE Fini(t)
    BY <1>3, <1>t DEF Fini, TypePool, TypeActors, OnAGroup, Quiet
  <1>4. CASE FiniEnds(t)
    BY <1>4, <1>t DEF FiniEnds, TypePool, TypeActors, OnAGroup, Quiet
  <1>5. ASSUME NEW s \in Servers, Find(t, s) PROVE TypePool' /\ TypeActors' /\ OnAGroup'
    BY <1>5 DEF Find, TypePool, TypeActors, OnAGroup, Quiet
  <1>6. ASSUME NEW s \in Servers, TakeOut(t, s) PROVE TypePool' /\ TypeActors' /\ OnAGroup'
    <2> DEFINE g == serverTable[s]
    <2>1. g \in Groups /\ ip[g] = s /\ pc[t] = "fini"
      BY <1>6 DEF TakeOut, TypePool, OnAGroup
    <2>2. CASE Holders(g) = {}
      <3>1. /\ serverTable' = [serverTable EXCEPT ![s] = None]
            /\ keepalive' = [keepalive EXCEPT ![g] = FALSE]
            /\ pc' = [pc EXCEPT ![t] = "destroy"] /\ held' = [held EXCEPT ![t] = g]
            /\ UNCHANGED <<tableLock, finished, ip, version, connected, connMutex,
                           callVars, ensureVars, readVars>>
        BY <1>6, <2>2 DEF TakeOut, Destruct
      <3>2. QED
        BY <3>1, <2>1, <1>t DEF TypePool, TypeActors, OnAGroup, Quiet
    <2>3. CASE Holders(g) # {}
      <3>1. /\ serverTable' = [serverTable EXCEPT ![s] = None]
            /\ UNCHANGED <<pc, keepalive, held, tableLock, finished, ip, version, connected,
                           connMutex, callVars, ensureVars, readVars>>
        BY <1>6, <2>3 DEF TakeOut
      <3>2. QED
        BY <3>1, <2>1 DEF TypePool, TypeActors, OnAGroup, Quiet
    <2>4. QED
      BY <2>2, <2>3
  <1>7. CASE Drop(t)
    <2>1. held[t] \in Groups /\ pc[t] \in {"idle", "drop"}
      BY <1>7 DEF Drop, TypePool
    <2>2. CASE refCount(held[t]) = 1
      <3>1. /\ keepalive' = [keepalive EXCEPT ![held[t]] = FALSE]
            /\ pc' = [pc EXCEPT ![t] = "destroy"] /\ held' = held
            /\ UNCHANGED <<serverTable, tableLock, finished, ip, version, connected, connMutex,
                           callVars, ensureVars, readVars>>
        BY <1>7, <2>2 DEF Drop, Destruct
      <3>2. QED
        BY <3>1, <2>1, <1>t DEF TypePool, TypeActors, OnAGroup, Quiet
    <2>3. CASE refCount(held[t]) # 1
      <3>1. /\ Done(t) /\ held' = [held EXCEPT ![t] = None]
            /\ UNCHANGED <<serverTable, tableLock, finished, ip, version, keepalive, connected,
                           connMutex, ensureVars, readVars>>
        BY <1>7, <2>3 DEF Drop
      <3>2. QED
        BY <3>1, <2>1, <1>t DEF Done, TypePool, TypeActors, OnAGroup, Quiet, Jobs, CallJobs
    <2>4. QED
      BY <2>2, <2>3
  <1>8. CASE Destroy(t)
    <2> DEFINE g == held[t]
    <2>1. g \in Groups /\ pc[g] = "off" /\ pc[t] = "destroy"
      BY <1>8 DEF Destroy, TypePool, OnAGroup, Quiet
    <2>2. /\ ip' = [ip EXCEPT ![g] = None] /\ version' = [version EXCEPT ![g] = 3]
          /\ connected' = [connected EXCEPT ![g] = FALSE]
          /\ held' = [held EXCEPT ![t] = None]
          /\ pc' = [pc EXCEPT ![t] = IF tableLock = t THEN "fini" ELSE "idle"]
          /\ job' = [job EXCEPT ![t] = "call"] /\ prog' = [prog EXCEPT ![t] = "NFS"]
          /\ reported' = [reported EXCEPT ![t] = {}]
          /\ UNCHANGED <<poolVars, keepalive, connMutex, ensureVars, readVars>>
      BY <1>8 DEF Destroy, Destroyed
    <2>3. TypePool' /\ TypeActors'
      BY <2>1, <2>2, <1>t DEF TypePool, TypeActors, Jobs, CallJobs
    <2>4. /\ \A u \in Threads : held[u] = g => u = t
          /\ \A s \in Servers : serverTable[s] # g
      BY <2>1 DEF DestroyersAreAlone
    <2>5. OnAGroup'
      BY <2>1, <2>2, <2>4, <1>t DEF TypePool, TypeActors, OnAGroup, Quiet
    <2>6. QED
      BY <2>3, <2>5
  <1>9. QED
    BY <1>1, <1>2, <1>3, <1>4, <1>5, <1>6, <1>7, <1>8 DEF PoolWork

\* The server, the peer and the manager move nobody.
LEMMA EnvironmentStep ==
  ASSUME Environment
  PROVE  UNCHANGED Environs
  BY DEF Environment, Move, End, Manage

\* Every step leaves whoever is busy on a group that exists.
LEMMA PlacesStep ==
  ASSUME TypePool, TypeActors, TypeConns, OnAGroup, DestroyersAreAlone, [Next]_vars
  PROVE  TypePool' /\ TypeActors' /\ OnAGroup'
  <1>1. ASSUME NEW a \in Actors, Inner(a) PROVE TypePool' /\ TypeActors' /\ OnAGroup'
    <2>1. InnerFrame(a) /\ TypeActors'
      BY <1>1, InnerStep
    <2>2. UNCHANGED <<serverTable, tableLock, finished, ip, version, keepalive, held>>
      BY <2>1 DEF InnerFrame, poolVars, groupVars
    <2>3. /\ \A b \in Actors \ {a} : pc'[b] = pc[b] /\ job'[b] = job[b]
          /\ job'[a] = "add" => job[a] = "add"
          /\ pc'[a] = "off" => a \in Groups
          /\ pc'[a] = "drop" => job[a] = "add"
          /\ pc'[a] \notin {"destroy", "fini"} /\ pc[a] \notin {"off", "drop", "destroy", "fini"}
      BY <2>1 DEF InnerFrame, TypeActors
    <2>4. (GroupOf(a) \in Groups /\ ip[GroupOf(a)] # None) \/ pc'[a] = "off"
      <3>1. CASE pc[a] = "idle"
        BY <2>1, <3>1 DEF InnerFrame, OnAGroup, GroupOf, Actors, TypePool
      <3>2. CASE pc[a] # "idle"
        BY <2>3, <3>2, BusyOnAGroup DEF Quiet
      <3>3. QED
        BY <3>1, <3>2
    <2>5. ASSUME NEW t \in Threads
          PROVE  /\ (~Quiet(t))' => held[t] # None
                 /\ pc'[t] # "off"
                 /\ pc'[t] = "fini" => held[t] = None
      <3>1. CASE t = a
        BY <3>1, <2>3, <2>4 DEF GroupOf, Quiet
      <3>2. CASE t # a
        BY <3>2, <2>3 DEF OnAGroup, Quiet, Actors
      <3>3. QED
        BY <3>1, <3>2
    <2>6. ASSUME NEW g \in Groups
          PROVE  /\ pc'[g] \notin {"drop", "destroy", "fini"}
                 /\ pc'[g] # "off" => ip[g] # None
                 /\ job'[g] # "add"
      <3>1. CASE g = a
        BY <3>1, <2>3, <2>4 DEF GroupOf, OnAGroup
      <3>2. CASE g # a
        BY <3>2, <2>3 DEF OnAGroup, Actors
      <3>3. QED
        BY <3>1, <3>2
    <2>7. OnAGroup'
      BY <2>2, <2>5, <2>6 DEF OnAGroup
    <2>8. QED
      BY <2>1, <2>2, <2>7 DEF TypePool
  <1>2. CASE Environment
    BY <1>2, EnvironmentStep DEF Environs, poolVars, groupVars, callVars, ensureVars, readVars,
       TypePool, TypeActors, OnAGroup, Quiet
  <1>3. CASE UNCHANGED vars
    BY <1>3 DEF vars, poolVars, groupVars, callVars, ensureVars, readVars,
       TypePool, TypeActors, OnAGroup, Quiet
  <1>4. QED
    BY <1>1, <1>2, <1>3, PoolKeepsPlaces, NextSteps

\* Nobody gets at a group that is being destroyed.
LEMMA AloneStep ==
  ASSUME TypePool, TypeActors, TypeConns, OnAGroup, DestroyersAreAlone, [Next]_vars
  PROVE  DestroyersAreAlone'
  <1> USE DEF Goto, poolVars, groupVars
  <1>i. ASSUME NEW a \in Actors, Inner(a) PROVE DestroyersAreAlone'
    <2>1. /\ UNCHANGED <<serverTable, held>>
          /\ pc' = [pc EXCEPT ![a] = pc'[a]] /\ pc'[a] # "destroy"
      BY <1>i, InnerStep DEF InnerFrame
    <2>2. QED
      BY <2>1 DEF DestroyersAreAlone, TypeActors, Actors
  <1>f. ASSUME NEW t \in Threads, Founding(t) PROVE DestroyersAreAlone'
    <2>1. PICK g \in Groups, s \in Servers : Founds(t, g, s)
      BY <1>f DEF Founding
    <2>2. PICK to \in {"idle", "off"} : pc' = [pc EXCEPT ![t] = "lock", ![g] = to]
      BY <2>1 DEF Founds
    <2>3. ASSUME NEW u \in Threads, pc'[u] = "destroy"
          PROVE  u # t /\ pc[u] = "destroy" /\ held[u] # g /\ held[u] # None
      BY <2>1, <2>2, <2>3 DEF Founds, TypeActors, Actors, OnAGroup, Quiet
    <2>4. /\ held' = [held EXCEPT ![t] = g]
          /\ \A r \in Servers : serverTable'[r] \in {serverTable[r], g}
      BY <2>1 DEF Founds, TypePool
    <2>5. QED
      BY <2>3, <2>4 DEF DestroyersAreAlone, TypePool
  <1>1. ASSUME NEW t \in Threads, RemoveFromPool(t) PROVE DestroyersAreAlone'
    BY <1>1 DEF RemoveFromPool, DestroyersAreAlone, TypePool, OnAGroup, Quiet
  <1>2. ASSUME NEW t \in Threads, Fini(t) \/ FiniEnds(t) PROVE DestroyersAreAlone'
    BY <1>2 DEF Fini, FiniEnds, DestroyersAreAlone, TypeActors, Actors
  <1>3. ASSUME NEW t \in Threads, NEW s \in Servers, Find(t, s) PROVE DestroyersAreAlone'
    BY <1>3 DEF Find, DestroyersAreAlone, TypePool
  <1>4. ASSUME NEW t \in Threads, NEW s \in Servers, TakeOut(t, s) PROVE DestroyersAreAlone'
    <2> DEFINE g == serverTable[s]
    <2>1. /\ g \in Groups /\ ip[g] = s /\ pc[t] = "fini" /\ held[t] = None
          /\ serverTable' = [serverTable EXCEPT ![s] = None]
      BY <1>4 DEF TakeOut, TypePool, OnAGroup
    <2>2. CASE Holders(g) = {}
      <3>1. pc' = [pc EXCEPT ![t] = "destroy"] /\ held' = [held EXCEPT ![t] = g]
        BY <1>4, <2>2 DEF TakeOut, Destruct
      <3>2. \A r \in Servers : serverTable'[r] # g
        BY <2>1 DEF TypePool, OnAGroup
      <3>3. \A u \in Threads : held[u] # g
        BY <2>2 DEF Holders
      <3>4. ASSUME NEW u \in Threads, u # t, pc'[u] = "destroy"
            PROVE  /\ held'[u] = held[u] /\ held[u] # None
                   /\ \A w \in Threads : held'[w] = held'[u] => w = u
                   /\ \A r \in Servers : serverTable'[r] # held'[u]
        <4>1. pc[u] = "destroy" /\ held[u] # None
          BY <3>1, <3>4 DEF TypeActors, Actors, OnAGroup, Quiet
        <4>2. QED
          BY <4>1, <3>1, <3>3, <3>4, <2>1 DEF DestroyersAreAlone, TypePool
      <3>5. QED
        BY <3>1, <3>2, <3>3, <3>4 DEF DestroyersAreAlone, TypePool
    <2>3. CASE Holders(g) # {}
      <3>1. UNCHANGED <<pc, held>>
        BY <1>4, <2>3 DEF TakeOut
      <3>2. QED
        BY <3>1, <2>1 DEF DestroyersAreAlone, TypePool, OnAGroup, Quiet
    <2>4. QED
      BY <2>2, <2>3
  <1>5. ASSUME NEW t \in Threads, Drop(t) PROVE DestroyersAreAlone'
    <2>1. CASE refCount(held[t]) = 1
      <3>1. pc' = [pc EXCEPT ![t] = "destroy"] /\ UNCHANGED <<held, serverTable>>
        BY <1>5, <2>1 DEF Drop, Destruct
      <3>2. QED
        BY <2>1, <3>1, LastReference DEF DestroyersAreAlone, TypeActors, Actors
    <2>2. CASE refCount(held[t]) # 1
      <3>1. /\ pc' = [pc EXCEPT ![t] = "idle"] /\ held' = [held EXCEPT ![t] = None]
            /\ serverTable' = serverTable
        BY <1>5, <2>2 DEF Drop, Done
      <3>2. QED
        BY <3>1 DEF DestroyersAreAlone, TypeActors, TypePool, Actors, OnAGroup, Quiet
    <2>3. QED
      BY <2>1, <2>2
  <1>6. ASSUME NEW t \in Threads, Destroy(t) PROVE DestroyersAreAlone'
    <2>1. /\ held' = [held EXCEPT ![t] = None] /\ serverTable' = serverTable
          /\ \E to \in {"fini", "idle"} : pc' = [pc EXCEPT ![t] = to]
      BY <1>6 DEF Destroy, Destroyed
    <2>2. QED
      BY <2>1 DEF DestroyersAreAlone, TypeActors, TypePool, Actors, OnAGroup, Quiet
  <1>7. CASE Environment
    BY <1>7, EnvironmentStep DEF Environs, DestroyersAreAlone
  <1>8. CASE UNCHANGED vars
    BY <1>8 DEF vars, DestroyersAreAlone
  <1>9. QED
    BY <1>i, <1>f, <1>1, <1>2, <1>3, <1>4, <1>5, <1>6, <1>7, <1>8, NextSteps, FoundingSteps
       DEF PoolWork

\* m_connMutex goes with those who enter and leave; the pool work of a thread is
\* outside it.
LEMMA MutexStep ==
  ASSUME TypePool, TypeActors, TypeConns, OnAGroup, DestroyersAreAlone, MutexIsHeld,
         [Next]_vars
  PROVE  MutexIsHeld'
  <1> USE DEF Goto, poolVars, groupVars
  <1>i. ASSUME NEW a \in Actors, Inner(a) PROVE MutexIsHeld'
    <2>1. InnerMutex(a) /\ held' = held /\ pc' = [pc EXCEPT ![a] = pc'[a]]
      BY <1>i, InnerStep DEF InnerFrame
    <2>2. \A b \in Actors : GroupOf(b)' = GroupOf(b)
      BY <2>1 DEF GroupOf
    <2>3. \A b \in Actors \ {a} : pc'[b] = pc[b]
      BY <2>1 DEF TypeActors
    <2> HIDE <1>i
    <2>4. CASE connMutex' = connMutex /\ (pc[a] \in Locked <=> pc'[a] \in Locked)
      BY <2>2, <2>3, <2>4 DEF MutexIsHeld
    <2>5. CASE /\ pc[a] \notin Locked /\ pc'[a] \in Locked /\ GroupOf(a) \in Groups
               /\ connMutex[GroupOf(a)] = None
               /\ connMutex' = [connMutex EXCEPT ![GroupOf(a)] = a]
      BY <2>2, <2>3, <2>5 DEF MutexIsHeld, TypeActors, Actors
    <2>6. CASE /\ pc[a] \in Locked /\ pc'[a] \notin Locked /\ GroupOf(a) \in Groups
               /\ connMutex' = [connMutex EXCEPT ![GroupOf(a)] = None]
      BY <2>2, <2>3, <2>6 DEF MutexIsHeld, TypeActors, Actors
    <2>7. QED
      BY <2>1, <2>4, <2>5, <2>6 DEF InnerMutex
  <1>p. ASSUME NEW t \in Threads, PoolWork(t) PROVE MutexIsHeld'
    <2>1. /\ connMutex' = connMutex
          /\ \A a \in Actors : pc[a] \in Locked <=> pc'[a] \in Locked
          /\ \A a \in Actors : pc[a] \in Locked => GroupOf(a)' = GroupOf(a)
      <3> DEFINE Aside == /\ connMutex' = connMutex
                          /\ \A a \in Actors : pc[a] \in Locked <=> pc'[a] \in Locked
                          /\ \A a \in Actors : pc[a] \in Locked => GroupOf(a)' = GroupOf(a)
      <3> USE DEF TypeActors, TypePool, Actors, GroupOf, Locked
      <3>1. ASSUME Founding(t) PROVE Aside
        <4>1. PICK g \in Groups, s \in Servers : Founds(t, g, s)
          BY <3>1 DEF Founding
        <4>2. PICK to \in {"idle", "off"} : pc' = [pc EXCEPT ![t] = "lock", ![g] = to]
          BY <4>1 DEF Founds
        <4>3. /\ pc[t] = "idle" /\ pc[g] = "off" /\ connMutex' = connMutex
              /\ held' = [held EXCEPT ![t] = g]
          BY <4>1 DEF Founds
        <4>4. QED
          BY <4>2, <4>3
      <3>2. CASE RemoveFromPool(t) \/ Fini(t) \/ FiniEnds(t) \/ \E s \in Servers : Find(t, s)
        BY <3>2 DEF RemoveFromPool, Fini, FiniEnds, Find
      <3>3. CASE \E s \in Servers : TakeOut(t, s)
        BY <3>3 DEF TakeOut, Destruct
      <3>4. CASE Drop(t)
        BY <3>4 DEF Drop, Destruct, Done
      <3>5. CASE Destroy(t)
        <4>1. /\ connMutex' = connMutex /\ held' = [held EXCEPT ![t] = None]
              /\ pc[t] = "destroy"
              /\ \E to \in {"fini", "idle"} : pc' = [pc EXCEPT ![t] = to]
          BY <3>5 DEF Destroy, Destroyed
        <4>2. QED
          BY <4>1
      <3>6. QED
        BY <1>p, <3>1, <3>2, <3>3, <3>4, <3>5, FoundingSteps DEF PoolWork
    <2>2. QED
      BY <2>1 DEF MutexIsHeld
  <1>e. CASE Environment
    BY <1>e, EnvironmentStep DEF Environs, MutexIsHeld, GroupOf
  <1>s. CASE UNCHANGED vars
    BY <1>s DEF vars, MutexIsHeld, GroupOf
  <1>q. QED
    BY <1>i, <1>p, <1>e, <1>s, NextSteps

\* A group leaves the pool when it has one holder at most, and then has no other.
LEMMA UnsharedStep ==
  ASSUME TypePool, TypeActors, TypeConns, OnAGroup, DestroyersAreAlone, PoolIsUnshared,
         [Next]_vars
  PROVE  PoolIsUnshared'
  <1> USE DEF Goto, poolVars, groupVars
  <1>i. ASSUME NEW a \in Actors, Inner(a) PROVE PoolIsUnshared'
    <2>1. /\ UNCHANGED <<serverTable, held, tableLock, finished>>
          /\ pc' = [pc EXCEPT ![a] = pc'[a]] /\ pc'[a] # "fini"
      BY <1>i, InnerStep DEF InnerFrame
    <2>2. QED
      BY <2>1 DEF PoolIsUnshared, TypeActors, Actors
  <1>f. ASSUME NEW t \in Threads, Founding(t) PROVE PoolIsUnshared'
    <2>1. PICK g \in Groups, s \in Servers : Founds(t, g, s)
      BY <1>f DEF Founding
    <2>2. PICK to \in {"idle", "off"} : pc' = [pc EXCEPT ![t] = "lock", ![g] = to]
      BY <2>1 DEF Founds
    <2>3. \A u \in Threads : pc'[u] = "fini" => pc[u] = "fini"
      BY <2>2 DEF TypeActors, Actors
    <2>4. UNCHANGED <<tableLock, finished>> /\ held' = [held EXCEPT ![t] = g]
      BY <2>1 DEF Founds
    <2>5. \A u \in Threads : held[u] # g
      BY <2>1 DEF Founds, OnAGroup
    <2>6. \A r \in Servers : serverTable'[r] = serverTable[r] \/ serverTable[r] = None
      BY <2>1 DEF Founds, TypePool
    <2>7. QED
      BY <2>3, <2>4, <2>5, <2>6 DEF PoolIsUnshared, TypePool
  <1>1. ASSUME NEW t \in Threads, RemoveFromPool(t) PROVE PoolIsUnshared'
    <2> DEFINE s == ip[held[t]]
    <2>1. /\ s \in Servers /\ refCount(serverTable[s]) <= 2
          /\ serverTable' = [serverTable EXCEPT ![s] = None]
          /\ UNCHANGED <<tableLock, finished, held, pc>>
      BY <1>1 DEF RemoveFromPool, TypePool, OnAGroup
    <2>2. \A u, w \in Threads : held[u] = serverTable[s] /\ held[w] = serverTable[s] => u = w
      BY <2>1, OneHolder
    <2>3. QED
      BY <2>1, <2>2 DEF PoolIsUnshared, TypePool
  <1>2. ASSUME NEW t \in Threads, Fini(t) \/ FiniEnds(t) PROVE PoolIsUnshared'
    BY <1>2 DEF Fini, FiniEnds, PoolIsUnshared, TypeActors, TypePool, Actors
  <1>3. ASSUME NEW t \in Threads, NEW s \in Servers, Find(t, s) PROVE PoolIsUnshared'
    BY <1>3 DEF Find, PoolIsUnshared, TypePool
  <1>4. ASSUME NEW t \in Threads, NEW s \in Servers, TakeOut(t, s) PROVE PoolIsUnshared'
    <2>1. finished /\ finished' = finished
      BY <1>4 DEF TakeOut, PoolIsUnshared
    <2>2. QED
      BY <2>1 DEF PoolIsUnshared
  <1>5. ASSUME NEW t \in Threads, Drop(t) \/ Destroy(t) PROVE PoolIsUnshared'
    <2>1. /\ UNCHANGED <<serverTable, tableLock, finished>>
          /\ held' = held \/ held' = [held EXCEPT ![t] = None]
          /\ \E to \in {"idle", "destroy", "fini"} : /\ pc' = [pc EXCEPT ![t] = to]
                                                     /\ to = "fini" => tableLock = t
      <3>1. CASE Drop(t)
        BY <3>1 DEF Drop, Destruct, Done
      <3>2. CASE Destroy(t)
        BY <3>2 DEF Destroy, Destroyed
      <3>3. QED
        BY <1>5, <3>1, <3>2
    <2>2. QED
      BY <2>1 DEF PoolIsUnshared, TypeActors, TypePool, Actors
  <1>e. CASE Environment
    BY <1>e, EnvironmentStep DEF Environs, PoolIsUnshared
  <1>s. CASE UNCHANGED vars
    BY <1>s DEF vars, PoolIsUnshared
  <1>q. QED
    BY <1>i, <1>f, <1>1, <1>2, <1>3, <1>4, <1>5, <1>e, <1>s, NextSteps, FoundingSteps
       DEF PoolWork

-----------------------------------------------------------------------------
(***************************************************************************)
(* Connections and slots.                                                  *)
(***************************************************************************)
TypeLife ==
  /\ life \in [Conns -> Life] /\ key \in [Conns -> [prog : Services, port : Nat]]
  /\ \A c \in Conns : life[c] # "none" => key[c].port # 0

\* What is done to a slot of g, and to the connection in it.
ClearsSlot(g, s) ==
  /\ g \in Groups /\ s \in Services /\ connections[g][s] # None
  /\ connections' = [connections EXCEPT ![g][s] = None]
  /\ Cleared({connections[g][s]})

FillsSlot(g, s, port) ==
  /\ g \in Groups /\ s \in Services /\ connections[g][s] = None /\ port \in Nat \ {0}
  /\ NoObject /\ Make(Memory, s, port)
  /\ connections' = [connections EXCEPT ![g][s] = Memory]

\* A new connection is an object of its own; the others stay as they are.
LEMMA MakeEffect ==
  ASSUME TypeConns, NoObject, NEW s \in Services, NEW port \in Nat \ {0}, Make(Memory, s, port)
  PROVE  /\ Memory \in Conns /\ life[Memory] = "none"
         /\ life'[Memory] \in {"up", "ended"} /\ key'[Memory] = [prog |-> s, port |-> port]
         /\ \A c \in Conns \ {Memory} : life'[c] = life[c] /\ key'[c] = key[c]
         /\ TypeLife'
  <1>1. Memory \in Conns /\ life[Memory] = "none"
    BY MemoryIsFree
  <1>2. /\ life' = [life EXCEPT ![Memory] = "up"] \/ life' = [life EXCEPT ![Memory] = "ended"]
        /\ key' = [key EXCEPT ![Memory] = [prog |-> s, port |-> port]]
    BY DEF Make
  <1>3. QED
    BY <1>1, <1>2 DEF TypeConns, TypeLife, Life

\* RpcConnection::clear: a connection that some actor points to stays an object.
LEMMA ClearedEffect ==
  ASSUME TypeConns, NEW cs, Cleared(cs), \A c \in Conns \cap cs : life[c] # "none"
  PROVE  /\ \A c \in Conns \ cs : life'[c] = life[c] /\ key'[c] = key[c]
         /\ \A c \in Conns \cap cs : life'[c] \in {"cleared", "none"}
         /\ \A a \in Actors : conn[a] \in Conns =>
              /\ key'[conn[a]] = key[conn[a]]
              /\ life'[conn[a]] \in {life[conn[a]], "cleared"}
         /\ TypeLife'
  <1> DEFINE used == {conn[a] : a \in Actors}
  <1>1. /\ life' = [c \in Conns |-> IF c \notin cs THEN life[c]
                                   ELSE IF c \in used THEN "cleared" ELSE "none"]
        /\ key' = [c \in Conns |-> IF c \in cs \ used THEN NoKey ELSE key[c]]
    BY DEF Cleared
  <1>2. NoKey \in [prog : Services, port : Nat]
    BY DEF NoKey, Services
  <1>3. TypeLife'
    <2> HIDE DEF used
    <2>1. life' \in [Conns -> Life]
      BY <1>1 DEF TypeConns, Life
    <2>2. key' \in [Conns -> [prog : Services, port : Nat]]
      BY <1>1, <1>2 DEF TypeConns
    <2>3. ASSUME NEW c \in Conns, life'[c] # "none" PROVE key'[c].port # 0
      <3>1. life[c] # "none" /\ key'[c] = key[c]
        BY <1>1, <2>3
      <3>2. QED
        BY <3>1 DEF TypeConns
    <2>4. QED
      BY <2>1, <2>2, <2>3 DEF TypeLife
  <1>4. QED
    BY <1>1, <1>3

\* The last reference to a connection goes, and no other is touched.
LEMMA GoneEffect ==
  ASSUME TypeConns, NEW d \in Conns, Gone(d)
  PROVE  /\ \A c \in Conns \ {d} : life'[c] = life[c] /\ key'[c] = key[c]
         /\ life'[d] = "none"
         /\ TypeLife'
  <1>1. NoKey \in [prog : Services, port : Nat]
    BY DEF NoKey, Services
  <1>2. /\ life' = [life EXCEPT ![d] = "none"] /\ key' = [key EXCEPT ![d] = NoKey]
        /\ life \in [Conns -> Life] /\ key \in [Conns -> [prog : Services, port : Nat]]
        /\ \A c \in Conns : life[c] # "none" => key[c].port # 0
    <2>1. life' = [life EXCEPT ![d] = "none"] /\ key' = [key EXCEPT ![d] = NoKey]
      BY DEF Gone
    <2>2. QED
      BY <2>1 DEF TypeConns
  <1>3. /\ \A c \in Conns \ {d} : life'[c] = life[c] /\ key'[c] = key[c]
        /\ life'[d] = "none"
    BY <1>2
  <1>4. life' \in [Conns -> Life]
    BY <1>2 DEF Life
  <1>5. key' \in [Conns -> [prog : Services, port : Nat]]
    BY <1>1, <1>2
  <1>6. QED
    BY <1>2, <1>3, <1>4, <1>5 DEF TypeLife

\* What an inner step does to the connections and the ports.
InnerSlots(a) ==
  LET g == GroupOf(a) IN
  /\ \/ UNCHANGED <<connections, life, key>>
     \/ ClearPortMapper(a) /\ pc[a] = "portmap" /\ ClearsSlot(g, "PORTMAP")
     \/ ClearService(a) /\ ClearsSlot(g, NextOf(a))
     \/ CreatePortMapper(a) /\ FillsSlot(g, "PORTMAP", 111)
     \/ CreateService(a) /\ FillsSlot(g, NextOf(a), rpcPorts[g][NextOf(a)])
     \/ /\ pc[a] = "sent" /\ conn[a] \in Conns /\ life[conn[a]] = "closed"
        /\ Counted(conn[a]) = {a} /\ Gone(conn[a]) /\ connections' = connections
  /\ rpcPorts' = rpcPorts \/ UpdateRpcPorts(a)
  /\ trouble' \in {trouble, trouble + 1} \cap 0..MaxFaults

\* Faults are counted, and bounded.
LEMMA TroubleIsCounted ==
  ASSUME TypeConns,
         trouble' = trouble \/ \E kind \in FaultKinds : MayFail(kind)
  PROVE  trouble' \in {trouble, trouble + 1} \cap 0..MaxFaults
  BY DEF TypeConns, MayFail

\* An inner step clears one slot, fills one, or ends one connection, or does neither.
LEMMA InnerSlotsStep ==
  ASSUME TypePool, TypeActors, TypeConns, OnAGroup, MakersAreReady, NEW a \in Actors, Inner(a)
  PROVE  InnerSlots(a)
  <1> USE DEF slotVars, connVars, callVars, ensureVars, readVars, InnerSlots
  <1>m. ASSUME NEW c, NEW s, NEW port, Make(c, s, port)
        PROVE  trouble' \in {trouble, trouble + 1} \cap 0..MaxFaults
    BY <1>m, TroubleIsCounted DEF Make, FaultKinds
  <1>n. trouble' = trouble => trouble' \in {trouble, trouble + 1} \cap 0..MaxFaults
    BY TroubleIsCounted
  <1> DEFINE g == GroupOf(a)
  <1>g. ~Quiet(a) => g \in Groups
    BY BusyOnAGroup
  <1>1. CASE \/ Enter(a) \/ KeepPortMapper(a) \/ NeedPortMapper(a) \/ DumpFails(a)
             \/ KeepService(a) \/ SkipService(a) \/ NeedService(a) \/ Ensured(a)
             \/ Get(a) \/ Copy(a) \/ Renew(a) \/ KeepAliveEnds(a) \/ Update(a)
             \/ \E p \in Programs : Call(a, p)
    BY <1>1, <1>n DEF Enter, KeepPortMapper, NeedPortMapper, DumpFails, KeepService, SkipService,
                NeedService, Ensured, Get, Copy, Renew, KeepAliveEnds, Update, Call
  <1>2. CASE UpdateRpcPorts(a)
    BY <1>2, <1>n DEF UpdateRpcPorts
  <1>3. CASE ClearPortMapper(a)
    BY <1>3, <1>g, <1>n DEF ClearPortMapper, ClearsSlot, Quiet, Services
  <1>4. CASE CreatePortMapper(a)
    BY <1>4, <1>g, <1>m DEF CreatePortMapper, FillsSlot, MakersAreReady, MakerIsReady, Quiet, Services
  <1>5. CASE ClearService(a)
    <2>1. NextOf(a) \in Services
      BY <1>5, NextIsLeft DEF ClearService, Services
    <2>2. QED
      BY <1>5, <1>g, <1>n, <2>1 DEF ClearService, ClearsSlot, Quiet
  <1>6. CASE CreateService(a)
    <2>1. pc[a] = "make" /\ todo[a] # {} /\ g \in Groups
      BY <1>6, <1>g DEF CreateService, MakersAreReady, MakerIsReady, Quiet
    <2>2. NextOf(a) \in Programs
      BY <2>1, NextIsLeft
    <2>3. rpcPorts[g][NextOf(a)] \in Nat \ {0}
      <3>1. rpcPorts[g] \in [Programs -> Ports \cup {0}]
        BY <2>1 DEF TypeConns, PortList
      <3>2. rpcPorts[g][NextOf(a)] # 0
        BY <2>1 DEF MakersAreReady, MakerIsReady
      <3>3. QED
        BY <2>2, <3>1, <3>2
    <2>4. QED
      BY <1>6, <1>m, <2>1, <2>2, <2>3 DEF CreateService, FillsSlot, MakersAreReady, MakerIsReady, Services
  <1>7. ASSUME NEW ok \in BOOLEAN, Return(a, ok) PROVE InnerSlots(a)
    <2>t. trouble' \in {trouble, trouble + 1} \cap 0..MaxFaults
      BY <1>7, <1>n DEF Return
    <2>1. CASE life[conn[a]] = "closed" /\ Counted(conn[a]) = {a}
      <3>1. Gone(conn[a]) /\ UNCHANGED <<connections, rpcPorts>> /\ pc[a] = "sent"
        BY <1>7, <2>1 DEF Return
      <3>2. CASE conn[a] \in Conns
        BY <2>1, <2>t, <3>1, <3>2
      <3>3. CASE conn[a] \notin Conns
        <4>1. life' = life /\ key' = key
          BY <3>1, <3>3 DEF Gone, TypeConns
        <4>2. QED
          BY <3>1, <4>1, <2>t
      <3>4. QED
        BY <3>2, <3>3
    <2>2. CASE ~(life[conn[a]] = "closed" /\ Counted(conn[a]) = {a})
      BY <1>7, <2>2, <2>t DEF Return
    <2>3. QED
      BY <2>1, <2>2
  <1>8. QED
    BY <1>1, <1>2, <1>3, <1>4, <1>5, <1>6, <1>7 DEF Inner, Ensure, Use

\* A slot is cleared: its connection is neither up nor ended, and the others stay.
LEMMA ClearsKeepsSlots ==
  ASSUME TypeConns, SlotsAreSound, NEW g, NEW s, ClearsSlot(g, s), ip' = ip
  PROVE  TypeLife' /\ connections' \in [Groups -> [Services -> Conns \cup {None}]] /\ SlotsAreSound'
  <1> DEFINE c == connections[g][s]
  <1>1. /\ g \in Groups /\ s \in Services /\ c # None /\ c \in Conns
        /\ connections' = [connections EXCEPT ![g][s] = None]
        /\ Cleared({c}) /\ life[c] \in {"up", "ended"}
    BY DEF ClearsSlot, TypeConns, SlotsAreSound
  <1>2. /\ \A d \in Conns \ {c} : life'[d] = life[d] /\ key'[d] = key[d]
        /\ life'[c] \in {"cleared", "none"} /\ TypeLife'
    BY <1>1, ClearedEffect
  <1>3. \A h \in Groups, r \in Services :
          connections'[h][r] = IF h = g /\ r = s THEN None ELSE connections[h][r]
    BY <1>1 DEF TypeConns
  <1>4. connections' \in [Groups -> [Services -> Conns \cup {None}]]
    BY <1>1 DEF TypeConns
  <1>5. \A h \in Groups, r \in Services : connections'[h][r] # None =>
          connections'[h][r] = connections[h][r] /\ connections[h][r] \in Conns \ {c}
    BY <1>1, <1>3 DEF TypeConns, SlotsAreSound
  <1>6. ASSUME NEW d \in Conns, life'[d] \in {"up", "ended"}
        PROVE  \E h \in Groups, r \in Services : connections'[h][r] = d
    <2>1. d # c /\ life[d] \in {"up", "ended"}
      BY <1>2, <1>6
    <2>2. PICK h \in Groups, r \in Services : connections[h][r] = d
      BY <2>1 DEF SlotsAreSound
    <2>3. connections'[h][r] = d
      BY <1>3, <2>1, <2>2
    <2>4. QED
      BY <2>3
  <1>7. ASSUME NEW h \in Groups, NEW r \in Services, connections'[h][r] # None
        PROVE  /\ life'[connections'[h][r]] \in {"up", "ended"}
               /\ key'[connections'[h][r]].prog = r
               /\ ip'[h] # None
               /\ \A i \in Groups, q \in Services :
                    connections'[i][q] = connections'[h][r] => i = h /\ q = r
    BY <1>2, <1>5, <1>7 DEF SlotsAreSound
  <1>8. QED
    BY <1>2, <1>4, <1>6, <1>7 DEF SlotsAreSound

\* An empty slot is filled with an object that was in none.
LEMMA FillsKeepsSlots ==
  ASSUME TypeConns, SlotsAreSound, NEW g, NEW s, NEW port, FillsSlot(g, s, port), ip' = ip,
         ip[g] # None
  PROVE  TypeLife' /\ connections' \in [Groups -> [Services -> Conns \cup {None}]] /\ SlotsAreSound'
  <1>1. /\ g \in Groups /\ s \in Services /\ connections[g][s] = None /\ port \in Nat \ {0}
        /\ NoObject /\ Make(Memory, s, port)
        /\ connections' = [connections EXCEPT ![g][s] = Memory]
    BY DEF FillsSlot
  <1>2. /\ Memory \in Conns /\ life[Memory] = "none"
        /\ life'[Memory] \in {"up", "ended"} /\ key'[Memory] = [prog |-> s, port |-> port]
        /\ \A c \in Conns \ {Memory} : life'[c] = life[c] /\ key'[c] = key[c]
        /\ TypeLife'
    BY <1>1, MakeEffect
  <1> DEFINE c == Memory
  <1> HIDE DEF c
  <1>c. c = Memory
    BY DEF c
  <1>3. \A h \in Groups, r \in Services :
          connections'[h][r] = IF h = g /\ r = s THEN c ELSE connections[h][r]
    BY <1>1, <1>c DEF TypeConns
  <1>4. connections' \in [Groups -> [Services -> Conns \cup {None}]]
    BY <1>1, <1>2 DEF TypeConns
  <1>5. \A h \in Groups, r \in Services : connections[h][r] # None =>
          connections[h][r] \in Conns \ {c}
    BY <1>2, <1>c DEF TypeConns, SlotsAreSound
  <1>6. ASSUME NEW d \in Conns, life'[d] \in {"up", "ended"}
        PROVE  \E h \in Groups, r \in Services : connections'[h][r] = d
    <2>1. CASE d = c
      BY <1>1, <1>3, <2>1
    <2>2. CASE d # c
      <3>1. life[d] \in {"up", "ended"}
        BY <1>2, <1>6, <1>c, <2>2
      <3>2. PICK h \in Groups, r \in Services : connections[h][r] = d
        BY <3>1 DEF SlotsAreSound
      <3>3. d # None
        OBVIOUS
      <3>4. connections'[h][r] = d
        BY <1>1, <1>3, <3>2, <3>3
      <3>5. QED
        BY <3>4
    <2>3. QED
      BY <2>1, <2>2
  <1>7. ASSUME NEW h \in Groups, NEW r \in Services, connections'[h][r] # None
        PROVE  /\ life'[connections'[h][r]] \in {"up", "ended"}
               /\ key'[connections'[h][r]].prog = r
               /\ ip'[h] # None
               /\ \A i \in Groups, q \in Services :
                    connections'[i][q] = connections'[h][r] => i = h /\ q = r
    <2>1. CASE h = g /\ r = s
      BY <1>1, <1>2, <1>3, <1>5, <1>c, <2>1
    <2>2. CASE ~(h = g /\ r = s)
      <3>1. connections'[h][r] = connections[h][r] /\ connections[h][r] \in Conns \ {c}
        BY <1>3, <1>5, <1>7, <2>2
      <3>2. QED
        BY <1>2, <1>3, <1>c, <3>1, <2>2 DEF SlotsAreSound
    <2>3. QED
      BY <2>1, <2>2
  <1>8. QED
    BY <1>2, <1>4, <1>6, <1>7 DEF SlotsAreSound

\* The connections that are in no slot may end: the manager, and the last call to
\* leave a closed one.
LEMMA EndingKeepsSlots ==
  ASSUME TypeConns, SlotsAreSound, UNCHANGED <<ip, connections>>,
         \A c \in Conns : \/ life'[c] = life[c] /\ key'[c] = key[c]
                          \/ life[c] = "up" /\ life'[c] = "ended" /\ key'[c] = key[c]
                          \/ {life[c], life'[c]} \subseteq {"cleared", "closed", "none"}
  PROVE  SlotsAreSound'
  <1>1. \A g \in Groups, s \in Services : connections[g][s] # None => connections[g][s] \in Conns
    BY DEF TypeConns
  <1>2. \A c \in Conns : life'[c] \in {"up", "ended"} => life[c] \in {"up", "ended"}
    OBVIOUS
  <1>3. \A c \in Conns : life[c] \in {"up", "ended"} =>
          life'[c] \in {"up", "ended"} /\ key'[c] = key[c]
    OBVIOUS
  <1>4. QED
    BY <1>1, <1>2, <1>3 DEF SlotsAreSound

\* The destructor clears the slots of its group, all of them.
LEMMA DestroyKeepsSlots ==
  ASSUME TypePool, TypeConns, SlotsAreSound, OnAGroup, NEW t \in Threads, Destroy(t)
  PROVE  TypeLife' /\ connections' \in [Groups -> [Services -> Conns \cup {None}]] /\ SlotsAreSound'
  <1> DEFINE g == held[t]
             cs == {connections[g][s] : s \in Services}
  <1>1. /\ g \in Groups /\ Cleared(cs)
        /\ connections' = [connections EXCEPT ![g] = [s \in Services |-> None]]
        /\ ip' = [ip EXCEPT ![g] = None]
    BY DEF Destroy, Destroyed, TypePool, OnAGroup, Quiet
  <1>2. \A c \in Conns \cap cs : life[c] # "none"
    BY <1>1 DEF SlotsAreSound
  <1>3. /\ \A c \in Conns \ cs : life'[c] = life[c] /\ key'[c] = key[c]
        /\ \A c \in Conns \cap cs : life'[c] \in {"cleared", "none"}
        /\ TypeLife'
    <2> HIDE DEF cs
    <2> QED
      BY <1>1, <1>2, ClearedEffect
  <1>4. connections' \in [Groups -> [Services -> Conns \cup {None}]]
    BY <1>1 DEF TypeConns
  <1>5. \A h \in Groups, r \in Services :
          connections'[h][r] = IF h = g THEN None ELSE connections[h][r]
    BY <1>1 DEF TypeConns
  <1>6. ASSUME NEW h \in Groups, NEW r \in Services, connections'[h][r] # None
        PROVE  /\ h # g /\ connections'[h][r] = connections[h][r]
               /\ connections[h][r] \in Conns \ cs
    <2>1. h # g /\ connections'[h][r] = connections[h][r] /\ connections[h][r] \in Conns
      BY <1>5, <1>6 DEF TypeConns
    <2>2. \A s \in Services : connections[g][s] # connections[h][r]
      BY <1>1, <2>1 DEF SlotsAreSound
    <2>3. QED
      BY <2>1, <2>2
  <1>7. ASSUME NEW d \in Conns, life'[d] \in {"up", "ended"}
        PROVE  \E h \in Groups, r \in Services : connections'[h][r] = d
    <2>1. d \notin cs /\ life[d] \in {"up", "ended"}
      BY <1>3, <1>7
    <2>2. PICK h \in Groups, r \in Services : connections[h][r] = d
      BY <2>1 DEF SlotsAreSound
    <2>3. h # g
      BY <2>1, <2>2
    <2>4. QED
      BY <1>5, <2>2, <2>3
  <1>8. \A h \in Groups : h # g => ip'[h] = ip[h]
    BY <1>1 DEF TypePool
  <1>9. ASSUME NEW h \in Groups, NEW r \in Services, connections'[h][r] # None
        PROVE  /\ life'[connections'[h][r]] \in {"up", "ended"}
               /\ key'[connections'[h][r]].prog = r
               /\ ip'[h] # None
               /\ \A i \in Groups, q \in Services :
                    connections'[i][q] = connections'[h][r] => i = h /\ q = r
    <2> HIDE DEF cs
    <2> QED
      BY <1>3, <1>6, <1>8, <1>9 DEF SlotsAreSound
  <1>10. QED
    BY <1>3, <1>4, <1>7, <1>9 DEF SlotsAreSound

\* Pool work but Founding and Destroy leaves connections, slots and versions alone.
LEMMA PoolSlots ==
  ASSUME TypeActors, NEW t \in Threads, PoolWork(t)
  PROVE  \/ Founding(t)
         \/ Destroy(t)
         \/ UNCHANGED <<connections, life, key, rpcPorts, registered, trouble, ip, version>>
  <1> USE DEF poolVars, groupVars, slotVars, connVars
  <1>1. CASE RemoveFromPool(t) \/ Fini(t) \/ Drop(t) \/ FiniEnds(t)
    BY <1>1 DEF RemoveFromPool, Fini, Drop, FiniEnds
  <1>2. CASE \E s \in Servers : TakeOut(t, s) \/ Find(t, s)
    BY <1>2 DEF TakeOut, Find
  <1>3. QED
    BY <1>1, <1>2, FoundingSteps DEF PoolWork

\* Every step keeps the slots and the connections sound.
LEMMA SlotsStep ==
  ASSUME TypePool, TypeActors, TypeConns, OnAGroup, MakersAreReady, SlotsAreSound,
         [Next]_vars
  PROVE  TypeConns' /\ SlotsAreSound'
  <1> USE DEF slotVars, connVars
  <1> DEFINE TypeSlots == connections \in [Groups -> [Services -> Conns \cup {None}]]
  <1>t. ASSUME TypeLife', TypeSlots', rpcPorts' \in [Groups -> PortList],
               registered' \in PortList, trouble' \in 0..MaxFaults
        PROVE  TypeConns'
    BY <1>t DEF TypeConns, TypeLife
  <1>u. TypeLife /\ TypeSlots
    BY DEF TypeConns, TypeLife
  <1>i. ASSUME NEW a \in Actors, Inner(a) PROVE TypeConns' /\ SlotsAreSound'
    <2> DEFINE g == GroupOf(a)
    <2>1. /\ InnerSlots(a)
          /\ ip' = ip /\ registered' = registered
      BY <1>i, InnerStep, InnerSlotsStep DEF InnerFrame, groupVars
    <2>2. TypeLife' /\ TypeSlots' /\ SlotsAreSound'
      <3>1. CASE UNCHANGED <<connections, life, key>>
        BY <3>1, <2>1, <1>u DEF TypeLife, SlotsAreSound
      <3>2. CASE ClearsSlot(g, "PORTMAP") \/ ClearsSlot(g, NextOf(a))
        BY <3>2, <2>1, ClearsKeepsSlots
      <3>3. CASE \/ CreatePortMapper(a) /\ FillsSlot(g, "PORTMAP", 111)
                 \/ CreateService(a) /\ FillsSlot(g, NextOf(a), rpcPorts[g][NextOf(a)])
        <4>1. ip[g] # None
          BY <3>3, BusyOnAGroup DEF CreatePortMapper, CreateService, Quiet
        <4>2. QED
          BY <3>3, <4>1, <2>1, FillsKeepsSlots
      <3>4. CASE /\ conn[a] \in Conns /\ life[conn[a]] = "closed"
                 /\ Gone(conn[a]) /\ connections' = connections
        <4>1. /\ \A c \in Conns \ {conn[a]} : life'[c] = life[c] /\ key'[c] = key[c]
              /\ life'[conn[a]] = "none" /\ TypeLife'
          BY <3>4, GoneEffect
        <4>2. QED
          BY <3>4, <4>1, <2>1, <1>u, EndingKeepsSlots
      <3>5. QED
        BY <2>1, <3>1, <3>2, <3>3, <3>4 DEF InnerSlots
    <2>3. rpcPorts' \in [Groups -> PortList]
      BY <2>1 DEF InnerSlots, UpdateRpcPorts, TypeConns
    <2>4. trouble' \in 0..MaxFaults
      BY <2>1 DEF InnerSlots
    <2>5. QED
      BY <1>t, <2>1, <2>2, <2>3, <2>4 DEF TypeConns
  <1>p. ASSUME NEW t \in Threads, PoolWork(t) PROVE TypeConns' /\ SlotsAreSound'
    <2>1. CASE Founding(t)
      <3>1. PICK g \in Groups, s \in Servers : Founds(t, g, s)
        BY <2>1 DEF Founding
      <3>2. UNCHANGED <<connections, life, key, registered, trouble>>
        BY <3>1 DEF Founds
      <3>3. /\ NoPorts \in PortList
            /\ [NoPorts EXCEPT !["NFS"] = Nfs4Port] \in PortList
        BY DEF NoPorts, PortList
      <3>4. rpcPorts' \in [Groups -> PortList]
        BY <3>1, <3>3 DEF Founds, TypeConns
      <3>5. \A h \in Groups : ip[h] # None => ip'[h] # None
        BY <3>1 DEF Founds, TypePool
      <3>6. QED
        BY <3>2, <3>4, <3>5, <1>t, <1>u DEF TypeConns, TypeLife, SlotsAreSound
    <2>2. CASE Destroy(t)
      <3>1. NoPorts \in PortList
        BY DEF NoPorts, PortList
      <3>2. rpcPorts' \in [Groups -> PortList] /\ registered' = registered
        BY <2>2, <3>1 DEF Destroy, Destroyed, TypeConns
      <3>3. trouble' = trouble
        BY <2>2 DEF Destroy, Destroyed
      <3>4. QED
        BY <2>2, <3>2, <3>3, <1>t, DestroyKeepsSlots DEF TypeConns
    <2>3. CASE UNCHANGED <<connections, life, key, rpcPorts, registered, trouble, ip, version>>
      BY <2>3 DEF TypeConns, SlotsAreSound
    <2>4. QED
      BY <1>p, <2>1, <2>2, <2>3, PoolSlots
  <1>1. CASE Move
    <2>1. registered' \in PortList /\ UNCHANGED <<connections, life, key, rpcPorts, ip>>
      BY <1>1 DEF Move, Environs, groupVars
    <2>2. trouble' \in 0..MaxFaults
      BY <1>1, TroubleIsCounted DEF Move, FaultKinds
    <2>3. QED
      BY <2>1, <2>2, <1>t, <1>u DEF TypeConns, TypeLife, SlotsAreSound
  <1>2. ASSUME NEW c \in Conns, End(c) PROVE TypeConns' /\ SlotsAreSound'
    <2>1. /\ UNCHANGED <<connections, rpcPorts, ip, key, registered>>
          /\ life[c] = "up" /\ life' = [life EXCEPT ![c] = "ended"]
      BY <1>2 DEF End, Environs, groupVars
    <2>2. trouble' \in 0..MaxFaults
      BY <1>2, TroubleIsCounted DEF End, FaultKinds
    <2>3. TypeLife'
      BY <2>1, <1>u DEF TypeLife, Life
    <2>4. \A d \in Conns : \/ life'[d] = life[d]
                           \/ life[d] = "up" /\ life'[d] = "ended"
      BY <2>1, <1>u DEF TypeLife
    <2>5. SlotsAreSound'
      BY <2>1, <2>4, EndingKeepsSlots
    <2>6. QED
      BY <2>1, <2>2, <2>3, <2>5, <1>t DEF TypeConns
  <1>3. ASSUME NEW c \in Conns, Manage(c) PROVE TypeConns' /\ SlotsAreSound'
    <2>1. /\ UNCHANGED <<connections, rpcPorts, ip, registered, trouble>> /\ life[c] = "cleared"
          /\ Gone(c) \/ (life' = [life EXCEPT ![c] = "closed"] /\ key' = key)
      BY <1>3 DEF Manage, Environs, groupVars
    <2>2. /\ TypeLife'
          /\ \A d \in Conns \ {c} : life'[d] = life[d] /\ key'[d] = key[d]
          /\ life'[c] \in {"none", "closed"}
      <3>1. CASE Gone(c)
        BY <3>1, GoneEffect
      <3>2. CASE life' = [life EXCEPT ![c] = "closed"] /\ key' = key
        BY <3>2, <2>1, <1>u DEF TypeLife, Life
      <3>3. QED
        BY <2>1, <3>1, <3>2
    <2>3. SlotsAreSound'
      BY <2>1, <2>2, EndingKeepsSlots
    <2>4. QED
      BY <2>1, <2>2, <2>3, <1>t DEF TypeConns
  <1>s. CASE UNCHANGED vars
    BY <1>s DEF vars, groupVars, TypeConns, SlotsAreSound
  <1>q. QED
    BY <1>i, <1>p, <1>1, <1>2, <1>3, <1>s, NextSteps DEF Environment

-----------------------------------------------------------------------------
(***************************************************************************)
(* Ports and uses: what an actor relies on, after a step of its own and    *)
(* after a step of another.                                                *)
(***************************************************************************)
Relies(a) == MakerIsReady(a) /\ VersionFits(a) /\ PortIsKnown(a) /\ UseIsSound(a)

\* The invariant, seen from one actor.
LEMMA IInvParts ==
  ASSUME IInv
  PROVE  /\ TypePool /\ TypeActors /\ TypeConns
         /\ \A a \in Actors : Relies(a)
  BY TypeParts DEF IInv, Relies, MakersAreReady, VersionsAreKept, PortsAreKnown, UsesAreSound

\* An actor whose job is over relies on nothing but the fixed port of NFSv4.
LEMMA GoesOnReliance ==
  ASSUME IInv, NEW a \in Actors, Moves(a), GoesOn(a), ~Quiet(a),
         UNCHANGED <<held, version>>
  PROVE  Relies(a)'
  <1>1. /\ pc'[a] \in {"lock", "drop", "idle"}
        /\ pc'[a] = "lock" => prog'[a] = "NFS" /\ reported'[a] = {Nfs4Port}
        /\ pc'[a] = "idle" => prog'[a] = "NFS"
        /\ pc'[a] = "drop" => prog'[a] = prog[a]
    BY DEF GoesOn
  <1>2. GroupOf(a)' = GroupOf(a) /\ ProgramsOf(GroupOf(a))' = ProgramsOf(GroupOf(a))
    BY DEF GroupOf, ProgramsOf
  <1>3. "NFS" \in ProgramsOf(GroupOf(a)) /\ prog[a] \in ProgramsOf(GroupOf(a))
    BY IInvParts DEF Relies, VersionFits, ProgramsOf
  <1>4. MakerIsReady(a)' /\ UseIsSound(a)'
    BY <1>1 DEF MakerIsReady, UseIsSound
  <1>5. VersionFits(a)'
    BY <1>1, <1>2, <1>3 DEF VersionFits, Quiet
  <1>6. PortIsKnown(a)'
    BY <1>1 DEF PortIsKnown, Calling
  <1>7. QED
    BY <1>4, <1>5, <1>6 DEF Relies

\* The versions are 3 and 4; what an NFSv4 group serves is NFS.
LEMMA ProgramsOfGroup ==
  ASSUME TypePool, NEW g \in Groups
  PROVE  /\ version[g] \in {3, 4} /\ ProgramsOf(g) \in SUBSET Programs /\ "NFS" \in ProgramsOf(g)
         /\ version[g] = 4 => ProgramsOf(g) = {"NFS"}
  BY DEF TypePool, ProgramsOf

\* A step of the actor's own: no connection changes but in its slots.
LEMMA OwnQuietStep ==
  ASSUME IInv, NEW a \in Actors,
         \/ Enter(a) \/ KeepPortMapper(a) \/ ClearPortMapper(a) \/ NeedPortMapper(a)
         \/ CreatePortMapper(a) \/ NeedService(a) \/ Copy(a) \/ Renew(a) \/ KeepAliveEnds(a)
         \/ a \in Threads /\ (Update(a) \/ \E p \in Programs : Call(a, p))
  PROVE  Relies(a)'
  <1> USE DEF Goto, poolVars, groupVars, slotVars, connVars, callVars, ensureVars, readVars
  <1> DEFINE g == GroupOf(a)
  <1>i. /\ TypePool /\ TypeActors /\ TypeConns /\ OnAGroup /\ Relies(a)
        /\ \A h \in Groups : version[h] = 4 /\ ip[h] # None => rpcPorts[h]["NFS"] = Nfs4Port
    BY IInvParts DEF IInv, VersionsAreKept
  <1>g. ~Quiet(a) => g \in Groups /\ ip[g] # None
    BY <1>i, BusyOnAGroup
  <1>h. UNCHANGED <<held, version>> => g' = g /\ ProgramsOf(g)' = ProgramsOf(g)
    BY DEF GroupOf, ProgramsOf
  <1> USE DEF Relies, MakerIsReady, VersionFits, PortIsKnown, UseIsSound, Quiet, Calling
  <1>1. CASE Enter(a)
    <2>1. /\ g \in Groups /\ ip[g] # None /\ pc[a] = "lock" /\ g' = g
          /\ ProgramsOf(g)' = ProgramsOf(g)
          /\ pc'[a] = (IF version[g] = 4 THEN "service" ELSE "portmap")
          /\ todo'[a] = ProgramsOf(g)
          /\ UNCHANGED <<version, job, prog, reported, rpcPorts, connections, key>>
      BY <1>1, <1>i, <1>g, <1>h DEF Enter, TypeActors
    <2>2. version[g] \in {3, 4} /\ (version[g] = 4 => prog[a] = "NFS")
      BY <2>1, <1>i, ProgramsOfGroup
    <2>3. QED
      BY <2>1, <2>2, <1>i
  <1>2. CASE KeepPortMapper(a) \/ NeedPortMapper(a) \/ ClearPortMapper(a) \/ CreatePortMapper(a)
    <2>1. /\ pc[a] \in {"portmap", "makePortmap"} /\ g' = g /\ ProgramsOf(g)' = ProgramsOf(g)
          /\ pc'[a] \in {"portmap", "makePortmap", "dump"}
          /\ pc'[a] = "makePortmap" => connections'[g]["PORTMAP"] = None
          /\ UNCHANGED <<version, job, prog, reported, todo>>
      BY <1>2, <1>i, <1>h DEF KeepPortMapper, NeedPortMapper, ClearPortMapper, CreatePortMapper, TypeActors
    <2>2. QED
      BY <2>1, <1>i
  <1>3. CASE NeedService(a)
    <2>1. /\ pc[a] = "service" /\ pc'[a] = "make" /\ g' = g /\ ProgramsOf(g)' = ProgramsOf(g)
          /\ todo[a] # {} /\ connections[g][NextOf(a)] = None /\ rpcPorts[g][NextOf(a)] # 0
          /\ UNCHANGED <<version, job, prog, reported, rpcPorts, connections, key, todo>>
      BY <1>3, <1>i, <1>h DEF NeedService, TypeActors
    <2>2. NextOf(a)' = NextOf(a)
      BY <2>1 DEF NextOf
    <2>3. QED
      BY <2>1, <2>2, <1>i
  <1>4. CASE Copy(a)
    <2>1. /\ pc[a] = "copy" /\ pc'[a] = "sent" /\ g' = g /\ ProgramsOf(g)' = ProgramsOf(g)
          /\ UNCHANGED <<version, job, prog, reported, rpcPorts, connections, key, life, conn, swapped>>
      BY <1>4, <1>i, <1>h DEF Copy, TypeActors
    <2>2. ~swapped[a] => life[conn[a]] # "none"
      <3>1. prog[a] \in Services /\ g \in Groups
        BY <2>1, <1>i, <1>g DEF TypeActors, Services
      <3>2. QED
        BY <2>1, <3>1, <1>i DEF IInv, SlotsAreSound
    <2>3. QED
      BY <2>1, <2>2, <1>i
  <1>5. CASE Renew(a) \/ (a \in Threads /\ Update(a))
    <2>1. /\ g' = g /\ pc'[a] = "lock" /\ prog'[a] = "NFS" /\ UNCHANGED version
          /\ Nfs4Port \in reported'[a] \/ job'[a] = "update"
      BY <1>5, <1>i, <1>h DEF Renew, Update, Begin, TypeActors
    <2>2. "NFS" \in ProgramsOf(g)'
      BY <2>1 DEF ProgramsOf
    <2>3. QED
      BY <2>1, <2>2 DEF CallJobs
  <1>6. CASE KeepAliveEnds(a)
    BY <1>6, <1>i, <1>h DEF KeepAliveEnds, TypeActors
  <1>7. ASSUME NEW p \in Programs, a \in Threads, Call(a, p) PROVE Relies(a)'
    <2>1. /\ g' = g /\ pc'[a] = "lock" /\ prog'[a] = p /\ p \in ProgramsOf(held[a]) /\ held[a] = g
          /\ version[g] = 4 => Nfs4Port \in reported'[a]
          /\ UNCHANGED version
      BY <1>7, <1>i, <1>h DEF Call, Begin, TypeActors, GroupOf
    <2>2. ProgramsOf(g)' = ProgramsOf(g)
      BY <2>1 DEF ProgramsOf
    <2>3. QED
      BY <2>1, <2>2
  <1>8. QED
    BY <1>1, <1>2, <1>3, <1>4, <1>5, <1>6, <1>7

\* The connection in a slot
LEMMA InSlot ==
  ASSUME TypeConns, SlotsAreSound, NEW g \in Groups, NEW s \in Services, connections[g][s] # None
  PROVE  /\ connections[g][s] \in Conns /\ life[connections[g][s]] \in {"up", "ended"}
         /\ key[connections[g][s]].prog = s
         /\ \A h \in Groups, r \in Services : connections[h][r] = connections[g][s] => h = g /\ r = s
  <1>1. connections[g][s] \in Conns
    BY DEF TypeConns
  <1>2. QED
    BY <1>1 DEF SlotsAreSound

\* initRpcService: the services that have been seen to are at the ports that the group
\* knows, and those are the ports the call has been told.
LEMMA OwnServiceStep ==
  ASSUME IInv, NEW a \in Actors,
         \/ KeepService(a) \/ SkipService(a) \/ ClearService(a) \/ CreateService(a)
         \/ UpdateRpcPorts(a)
  PROVE  Relies(a)'
  <1> USE DEF Goto, poolVars, groupVars, slotVars, connVars, callVars, ensureVars, readVars
  <1> DEFINE g == GroupOf(a)
             n == NextOf(a)
  <1>i. /\ TypePool /\ TypeActors /\ TypeConns /\ OnAGroup /\ Relies(a) /\ SlotsAreSound
        /\ MakersAreReady
    BY IInvParts DEF IInv
  <1>g. ~Quiet(a) => g \in Groups /\ ip[g] # None
    BY <1>i, BusyOnAGroup
  <1>1. CASE KeepService(a) \/ SkipService(a) \/ ClearService(a) \/ CreateService(a)
    <2>1. /\ pc[a] \in {"service", "make"} /\ pc'[a] = "service" /\ todo[a] # {}
          /\ UNCHANGED <<held, version, job, prog, reported, rpcPorts>>
          /\ todo'[a] \in {todo[a], todo[a] \ {n}}
      BY <1>1, <1>i DEF KeepService, SkipService, ClearService, CreateService, Proceed, TypeActors,
         MakersAreReady, MakerIsReady
    <2>2. /\ g \in Groups /\ ip[g] # None /\ g' = g /\ ProgramsOf(g)' = ProgramsOf(g)
      BY <2>1, <1>g DEF Quiet, GroupOf, ProgramsOf
    <2>3. n \in todo[a] /\ n \in Programs /\ todo[a] \subseteq Programs
      BY <2>1, <1>i, NextIsLeft DEF TypeActors
    <2>4. ASSUME NEW p \in ProgramsOf(g) \ todo'[a], connections'[g][p] # None
          PROVE  key'[connections'[g][p]].port = rpcPorts[g][p]
      <3>p. p \in Programs /\ p \in Services
        BY <2>2, <1>i, ProgramsOfGroup DEF Services
      <3>o. p # n => /\ connections[g][p] # None =>
                          key[connections[g][p]].port = rpcPorts[g][p]
        BY <2>1, <1>i DEF Relies, PortIsKnown
      <3>1. CASE KeepService(a)
        BY <3>1, <3>o, <2>4 DEF KeepService
      <3>2. CASE SkipService(a)
        BY <3>2, <3>o, <2>4 DEF SkipService
      <3>3. CASE ClearService(a)
        <4>1. /\ connections[g][n] # None /\ Cleared({connections[g][n]})
              /\ connections' = [connections EXCEPT ![g][n] = None] /\ todo' = todo
          BY <3>3 DEF ClearService
        <4>2. p # n /\ n \in Services /\ connections'[g][p] = connections[g][p]
          BY <4>1, <2>2, <2>3, <2>4, <1>i, <3>p DEF TypeConns, Services
        <4>3. /\ connections[g][n] \in Conns /\ connections[g][p] \in Conns
              /\ connections[g][p] # connections[g][n] /\ life[connections[g][n]] # "none"
          <5>1. connections[g][p] # None
            BY <4>2, <2>4
          <5>2. QED
            BY <5>1, <4>1, <4>2, <3>p, <2>2, <1>i, InSlot
        <4>4. key'[connections[g][p]] = key[connections[g][p]]
          BY <4>1, <4>3, <1>i, ClearedEffect
        <4>5. QED
          BY <4>2, <4>4, <3>o, <2>4
      <3>4. CASE CreateService(a)
        <4>1. /\ pc[a] = "make" /\ NoObject /\ Make(Memory, n, rpcPorts[g][n])
              /\ connections' = [connections EXCEPT ![g][n] = Memory]
          BY <3>4 DEF CreateService
        <4>2. n \in Services /\ rpcPorts[g][n] \in Nat \ {0}
          <5>1. rpcPorts[g] \in [Programs -> Ports \cup {0}]
            BY <2>2, <1>i DEF TypeConns, PortList
          <5>2. rpcPorts[g][n] # 0
            BY <4>1, <1>i DEF Relies, MakerIsReady
          <5>3. QED
            BY <5>1, <5>2, <2>3 DEF Services
        <4>3. /\ Memory \in Conns /\ life[Memory] = "none"
              /\ key'[Memory] = [prog |-> n, port |-> rpcPorts[g][n]]
              /\ \A c \in Conns \ {Memory} : key'[c] = key[c]
          BY <4>1, <4>2, <1>i, MakeEffect
        <4>4. CASE p = n
          <5>1. connections'[g][p] = Memory
            BY <4>1, <4>2, <4>4, <2>2, <1>i DEF TypeConns
          <5>2. QED
            BY <4>3, <4>4, <5>1
        <4>5. CASE p # n
          <5>1. connections'[g][p] = connections[g][p]
            BY <4>1, <4>2, <4>5, <3>p, <2>2, <1>i DEF TypeConns
          <5>2. connections[g][p] \in Conns /\ connections[g][p] # Memory
            <6>1. connections[g][p] # None
              BY <5>1, <2>4
            <6>2. QED
              BY <6>1, <4>3, <3>p, <2>2, <1>i, InSlot
          <5>3. QED
            BY <5>1, <5>2, <4>3, <4>5, <3>o, <2>4
        <4>6. QED
          BY <4>4, <4>5
      <3>5. QED
        BY <1>1, <3>1, <3>2, <3>3, <3>4
    <2>5. /\ MakerIsReady(a)' /\ VersionFits(a)' /\ UseIsSound(a)'
      BY <2>1, <2>2, <1>i DEF Relies, MakerIsReady, VersionFits, UseIsSound, Quiet
    <2>6. PortIsKnown(a)'
      BY <2>1, <2>2, <2>4, <1>i DEF Relies, PortIsKnown, Calling
    <2>7. QED
      BY <2>5, <2>6 DEF Relies
  <1>2. CASE UpdateRpcPorts(a)
    <2>1. /\ pc[a] = "dump" /\ pc'[a] = "service" /\ rpcPorts' = [rpcPorts EXCEPT ![g] = registered]
          /\ Tell(g, registered)
          /\ UNCHANGED <<held, version, job, prog, todo>>
      BY <1>2, <1>i DEF UpdateRpcPorts, TypeActors
    <2>2. /\ g \in Groups /\ g' = g /\ ProgramsOf(g)' = ProgramsOf(g)
      BY <2>1, <1>g DEF Quiet, GroupOf, ProgramsOf
    <2>3. rpcPorts'[g][prog[a]] \in reported'[a]
      BY <2>1, <2>2, <1>i DEF Tell, TypeConns
    <2>4. version[g] = 3 /\ todo[a] = ProgramsOf(g) /\ prog[a] \in ProgramsOf(g)
      BY <2>1, <1>i DEF Relies, VersionFits, Quiet
    <2>5. QED
      BY <2>1, <2>2, <2>3, <2>4 DEF Relies, MakerIsReady, VersionFits, UseIsSound, PortIsKnown,
         Quiet, Calling
  <1>3. QED
    BY <1>1, <1>2

\* The end of ensureConnection, of the reading of the slot, and of a call.
LEMMA OwnEndStep ==
  ASSUME IInv, NEW a \in Actors,
         DumpFails(a) \/ Ensured(a) \/ Get(a) \/ \E ok \in BOOLEAN : Return(a, ok)
  PROVE  Relies(a)'
  <1> USE DEF Goto, poolVars, groupVars, slotVars, connVars, callVars, ensureVars, readVars
  <1> DEFINE g == GroupOf(a)
  <1>i. /\ TypePool /\ TypeActors /\ TypeConns /\ OnAGroup /\ Relies(a) /\ SlotsAreSound
    BY IInvParts DEF IInv
  <1>q. ~Quiet(a) /\ UNCHANGED <<held, version>>
    BY DEF DumpFails, Ensured, Get, Return, Quiet
  <1>g. g \in Groups /\ ip[g] # None /\ g' = g /\ ProgramsOf(g)' = ProgramsOf(g)
    BY <1>q, <1>i, BusyOnAGroup DEF GroupOf, ProgramsOf
  <1>p. prog[a] \in ProgramsOf(g) /\ prog[a] \in Services
    BY <1>q, <1>g, <1>i, ProgramsOfGroup DEF Relies, VersionFits, Services
  <1>c. ASSUME NEW ok, Continue(a, g, ok) PROVE Relies(a)'
    BY <1>c, <1>i, <1>g, <1>q, ContinueEffect, GoesOnReliance
  <1>1. ASSUME NEW ok, Leave(a, ok), ok => Ensured(a) PROVE Relies(a)'
    <2>1. /\ Moves(a)
          /\ \/ GoesOn(a)
             \/ pc'[a] = "get" /\ ok /\ job[a] \in CallJobs /\ UNCHANGED callVars
      BY <1>1, <1>i, <1>g, LeaveEffect
    <2>2. CASE GoesOn(a)
      BY <2>1, <2>2, <1>q, GoesOnReliance
    <2>3. CASE pc'[a] = "get" /\ ok /\ job[a] \in CallJobs /\ UNCHANGED callVars
      <3>1. /\ pc[a] = "service" /\ todo[a] = {} /\ UNCHANGED <<connections, rpcPorts, key>>
        BY <1>1, <2>3 DEF Ensured
      <3>2. connections[g][prog[a]] # None =>
              key[connections[g][prog[a]]].port = rpcPorts[g][prog[a]]
        BY <3>1, <1>p, <1>i DEF Relies, PortIsKnown
      <3>3. /\ rpcPorts[g][prog[a]] \in reported[a]
            /\ version[g] = 4 => Nfs4Port \in reported[a]
        BY <3>1, <2>3, <1>i DEF Relies, PortIsKnown, Calling
      <3>4. PortIsKnown(a)'
        BY <3>1, <3>2, <3>3, <2>3, <1>g, <1>q DEF PortIsKnown, Calling
      <3>5. MakerIsReady(a)' /\ VersionFits(a)' /\ UseIsSound(a)'
        BY <2>3, <1>p, <1>g DEF MakerIsReady, VersionFits, UseIsSound, Quiet
      <3>6. QED
        BY <3>4, <3>5 DEF Relies
    <2>4. QED
      BY <2>1, <2>2, <2>3
  <1>2. CASE DumpFails(a)
    BY <1>1, <1>2 DEF DumpFails
  <1>3. CASE Ensured(a)
    BY <1>1, <1>3 DEF Ensured
  <1>4. CASE Get(a)
    <2> DEFINE c == connections[g][prog[a]]
    <2>1. CASE c = None
      BY <1>4, <2>1, <1>c DEF Get
    <2>2. CASE c # None
      <3>1. /\ pc[a] = "get" /\ pc'[a] = "copy" /\ conn'[a] = c
            /\ UNCHANGED <<callVars, connections, rpcPorts, key, todo>>
        BY <1>4, <2>2, <1>i DEF Get, TypeActors
      <3>2. key[c].prog = prog[a]
        BY <2>2, <1>g, <1>p, <1>i DEF SlotsAreSound
      <3>3. key[c].port \in reported[a]
        BY <2>2, <3>1, <1>i DEF Relies, PortIsKnown
      <3>4. UseIsSound(a)'
        BY <3>1, <3>2, <3>3, <2>2, <1>g DEF UseIsSound
      <3>5. MakerIsReady(a)' /\ VersionFits(a)' /\ PortIsKnown(a)'
        BY <3>1, <1>p, <1>g, <1>q, <1>i DEF MakerIsReady, VersionFits, PortIsKnown, Relies, Quiet,
           Calling
      <3>6. QED
        BY <3>4, <3>5 DEF Relies
    <2>3. QED
      BY <2>1, <2>2
  <1>5. ASSUME NEW ok \in BOOLEAN, Return(a, ok) PROVE Relies(a)'
    BY <1>5, <1>c DEF Return
  <1>6. QED
    BY <1>2, <1>3, <1>4, <1>5

\* An inner step of the actor itself.
LEMMA OwnStep ==
  ASSUME IInv, NEW a \in Actors, Inner(a)
  PROVE  Relies(a)'
  BY OwnQuietStep, OwnServiceStep, OwnEndStep DEF Inner, Ensure, Use

-----------------------------------------------------------------------------
(***************************************************************************)
(* What others see of an inner step of b: only the slots of b's group      *)
(* change, and only while b has the mutex.                                 *)
(***************************************************************************)
SlotChange(b) ==
  /\ \A h \in Groups, s \in Services : connections'[h][s] # None =>
       \/ /\ connections'[h][s] = connections[h][s]
          /\ key'[connections[h][s]] = key[connections[h][s]]
       \/ /\ connections[h][s] = None
          /\ s \in Programs => key'[connections'[h][s]].port = rpcPorts[h][s]
  /\ \A h \in Groups, s \in Services : connections'[h][s] # connections[h][s] =>
       h = GroupOf(b) /\ pc[b] \in Locked
  /\ \A h \in Groups, s \in Programs :
       connections'[h][s] # connections[h][s] /\ connections[h][s] # None =>
         \A a \in Actors : pc[a] = "copy" /\ conn[a] = connections[h][s] => swapped'[a]

PortChange(b) ==
  \A h \in Groups : rpcPorts'[h] # rpcPorts[h] =>
    /\ h = GroupOf(b) /\ pc[b] \in Locked
    /\ \A a \in Actors : GroupOf(a) = h /\ pc[a] \notin {"idle", "off"} =>
         rpcPorts'[h][prog[a]] \in reported'[a]

\* A slot that is cleared takes its connection with it, and no other.
LEMMA ClearsSlotChange ==
  ASSUME TypeConns, SlotsAreSound, NEW b \in Actors, NEW s, ClearsSlot(GroupOf(b), s),
         pc[b] \in Locked,
         s \in Programs =>
           \A a \in Actors : pc[a] = "copy" /\ conn[a] = connections[GroupOf(b)][s] => swapped'[a]
  PROVE  SlotChange(b)
  <1> DEFINE g == GroupOf(b)
             c == connections[g][s]
  <1>1. /\ g \in Groups /\ s \in Services /\ c # None
        /\ connections' = [connections EXCEPT ![g][s] = None] /\ Cleared({c})
    BY DEF ClearsSlot
  <1>2. c \in Conns /\ life[c] # "none"
    BY <1>1, InSlot
  <1>3. \A d \in Conns \ {c} : key'[d] = key[d]
    BY <1>1, <1>2, ClearedEffect
  <1>4. \A h \in Groups, r \in Services :
          connections'[h][r] = IF h = g /\ r = s THEN None ELSE connections[h][r]
    BY <1>1 DEF TypeConns
  <1>5. ASSUME NEW h \in Groups, NEW r \in Services, connections'[h][r] # None
        PROVE  /\ connections'[h][r] = connections[h][r]
               /\ key'[connections[h][r]] = key[connections[h][r]]
    <2>1. connections'[h][r] = connections[h][r] /\ ~(h = g /\ r = s)
      BY <1>4, <1>5
    <2>2. connections[h][r] \in Conns /\ connections[h][r] # c
      BY <1>1, <1>5, <2>1, InSlot
    <2>3. QED
      BY <1>3, <2>1, <2>2
  <1>6. \A h \in Groups, r \in Services : connections'[h][r] # connections[h][r] => h = g /\ r = s
    BY <1>4
  <1>7. QED
    BY <1>5, <1>6 DEF SlotChange, Services

\* A slot that is filled was empty, and gets the port that the group knows.
LEMMA FillsSlotChange ==
  ASSUME TypeConns, SlotsAreSound, NEW b \in Actors, NEW s, NEW port,
         FillsSlot(GroupOf(b), s, port), pc[b] \in Locked,
         s \in Programs => port = rpcPorts[GroupOf(b)][s]
  PROVE  SlotChange(b)
  <1> DEFINE g == GroupOf(b)
             m == Memory
  <1>1. /\ g \in Groups /\ s \in Services /\ connections[g][s] = None /\ port \in Nat \ {0}
        /\ NoObject /\ Make(Memory, s, port)
        /\ connections' = [connections EXCEPT ![g][s] = m]
    BY DEF FillsSlot
  <1>2. /\ m \in Conns /\ life[m] = "none" /\ key'[m] = [prog |-> s, port |-> port]
        /\ \A c \in Conns \ {m} : key'[c] = key[c]
    BY <1>1, MakeEffect
  <1> HIDE DEF m
  <1>3. \A h \in Groups, r \in Services :
          connections'[h][r] = IF h = g /\ r = s THEN m ELSE connections[h][r]
    BY <1>1 DEF TypeConns
  <1>4. ASSUME NEW h \in Groups, NEW r \in Services, connections'[h][r] # None
        PROVE  \/ /\ connections'[h][r] = connections[h][r]
                  /\ key'[connections[h][r]] = key[connections[h][r]]
               \/ /\ connections[h][r] = None
                  /\ r \in Programs => key'[connections'[h][r]].port = rpcPorts[h][r]
    <2>1. CASE h = g /\ r = s
      <3>1. connections'[h][r] = m /\ key'[m].port = port
        BY <1>2, <1>3, <2>1
      <3>2. QED
        BY <3>1, <1>1, <2>1
    <2>2. CASE ~(h = g /\ r = s)
      <3>1. connections'[h][r] = connections[h][r]
        BY <1>3, <2>2
      <3>2. connections[h][r] \in Conns /\ life[connections[h][r]] \in {"up", "ended"}
        BY <1>4, <3>1, InSlot
      <3>3. QED
        BY <1>2, <3>1, <3>2
    <2>3. QED
      BY <2>1, <2>2
  <1>5. \A h \in Groups, r \in Services : connections'[h][r] # connections[h][r] =>
          h = g /\ r = s /\ connections[h][r] = None
    BY <1>1, <1>3
  <1>6. QED
    BY <1>4, <1>5 DEF SlotChange, Services

\* An inner step of b is seen by others as SlotChange and PortChange say.
LEMMA InnerSlotChange ==
  ASSUME IInv, NEW b \in Actors, Inner(b)
  PROVE  SlotChange(b) /\ PortChange(b)
  <1>i. TypePool /\ TypeActors /\ TypeConns /\ OnAGroup /\ MakersAreReady /\ SlotsAreSound
    BY IInvParts DEF IInv
  <1>s. InnerSlots(b)
    BY <1>i, InnerSlotsStep
  <1> DEFINE g == GroupOf(b)
  <1>0. "PORTMAP" \notin Programs
    OBVIOUS
  <1>1. ASSUME UNCHANGED <<connections, life, key>> PROVE SlotChange(b)
    BY <1>1 DEF SlotChange
  <1>2. ASSUME pc[b] = "portmap" /\ ClearsSlot(g, "PORTMAP") PROVE SlotChange(b)
    BY <1>2, <1>i, <1>0, ClearsSlotChange DEF Locked
  <1>3. ASSUME ClearService(b) /\ ClearsSlot(g, NextOf(b)) PROVE SlotChange(b)
    <2>1. /\ pc[b] \in Locked
          /\ swapped' = [a \in Actors |-> swapped[a] \/ (pc[a] = "copy"
                                            /\ conn[a] = connections[g][NextOf(b)])]
      BY <1>3 DEF ClearService, Locked
    <2>2. \A a \in Actors : pc[a] = "copy" /\ conn[a] = connections[g][NextOf(b)] => swapped'[a]
      BY <2>1
    <2>3. QED
      BY <1>3, <2>1, <2>2, <1>i, ClearsSlotChange
  <1>4. ASSUME CreatePortMapper(b) /\ FillsSlot(g, "PORTMAP", 111)
        PROVE  SlotChange(b)
    BY <1>4, <1>i, <1>0, FillsSlotChange DEF CreatePortMapper, Locked
  <1>5. ASSUME CreateService(b) /\ FillsSlot(g, NextOf(b), rpcPorts[g][NextOf(b)])
        PROVE  SlotChange(b)
    BY <1>5, <1>i, FillsSlotChange DEF CreateService, Locked
  <1>6. ASSUME conn[b] \in Conns, life[conn[b]] = "closed", Gone(conn[b]),
               connections' = connections
        PROVE  SlotChange(b)
    <2>1. \A c \in Conns \ {conn[b]} : key'[c] = key[c]
      BY <1>6, <1>i, GoneEffect
    <2>2. \A h \in Groups, s \in Services : connections[h][s] # None =>
            connections[h][s] \in Conns \ {conn[b]}
      BY <1>6, <1>i, InSlot
    <2>3. QED
      BY <1>6, <2>1, <2>2 DEF SlotChange
  <1>7. SlotChange(b)
    BY <1>s, <1>1, <1>2, <1>3, <1>4, <1>5, <1>6 DEF InnerSlots
  <1>8. PortChange(b)
    <2>1. CASE rpcPorts' = rpcPorts
      BY <2>1 DEF PortChange
    <2>2. CASE UpdateRpcPorts(b)
      <3>1. /\ pc[b] \in Locked /\ rpcPorts' = [rpcPorts EXCEPT ![g] = registered]
            /\ Tell(g, registered)
        BY <2>2 DEF UpdateRpcPorts, Locked
      <3>2. QED
        BY <3>1, <1>i DEF PortChange, Tell, TypeConns
    <2>3. QED
      BY <1>s, <2>1, <2>2 DEF InnerSlots
  <1>9. QED
    BY <1>7, <1>8

\* An actor only adds to what the others have been told.
LEMMA HistoryGrows ==
  ASSUME IInv, NEW a \in Actors, NEW b \in Actors, a # b, Inner(b)
  PROVE  reported[a] \subseteq reported'[a] /\ (swapped[a] => swapped'[a])
  <1> USE DEF Goto, callVars, readVars
  <1>i. TypePool /\ TypeActors /\ TypeConns /\ OnAGroup
    BY IInvParts DEF IInv
  <1>m. ASSUME reported' = [reported EXCEPT ![b] = reported'[b]],
               swapped' = swapped \/ swapped' = [swapped EXCEPT ![b] = FALSE]
        PROVE  reported[a] \subseteq reported'[a] /\ (swapped[a] => swapped'[a])
    BY <1>m, <1>i DEF TypeActors
  <1>u. reported' = reported => reported' = [reported EXCEPT ![b] = reported'[b]]
    BY <1>i DEF TypeActors
  <1>g. ~Quiet(b) => GroupOf(b) \in Groups
    BY <1>i, BusyOnAGroup
  <1>1. CASE \/ Enter(b) \/ KeepPortMapper(b) \/ ClearPortMapper(b) \/ NeedPortMapper(b)
             \/ CreatePortMapper(b) \/ KeepService(b) \/ SkipService(b) \/ NeedService(b)
             \/ CreateService(b) \/ Copy(b) \/ KeepAliveEnds(b)
    BY <1>1, <1>m, <1>u DEF Enter, KeepPortMapper, ClearPortMapper, NeedPortMapper,
       CreatePortMapper, KeepService, SkipService, NeedService, CreateService, Copy, KeepAliveEnds
  <1>2. CASE Renew(b) \/ Update(b) \/ \E p \in Programs : Call(b, p)
    <2>1. swapped' = swapped /\ \E r : reported' = [reported EXCEPT ![b] = r]
      BY <1>2 DEF Renew, Update, Call, Begin
    <2>2. QED
      BY <2>1, <1>i DEF TypeActors
  <1>3. CASE DumpFails(b) \/ Ensured(b)
    <2>1. GroupOf(b) \in Groups /\ swapped' = swapped /\ \E ok : Leave(b, ok)
      BY <1>3, <1>g DEF DumpFails, Ensured, Quiet
    <2>2. Moves(b)
      BY <2>1, <1>i, LeaveEffect
    <2>3. QED
      BY <2>1, <2>2, <1>m DEF Moves
  <1>4. CASE Get(b) \/ \E ok \in BOOLEAN : Return(b, ok)
    <2>1. /\ GroupOf(b) \in Groups
          /\ swapped' = swapped \/ swapped' = [swapped EXCEPT ![b] = FALSE]
          /\ reported' = reported \/ \E ok : Continue(b, GroupOf(b), ok)
      BY <1>4, <1>g DEF Get, Return, Quiet
    <2>2. CASE reported' = reported
      BY <2>1, <2>2, <1>m, <1>u
    <2>3. CASE \E ok : Continue(b, GroupOf(b), ok)
      <3>1. Moves(b)
        BY <2>1, <2>3, <1>i, ContinueEffect
      <3>2. QED
        BY <2>1, <3>1, <1>m DEF Moves
    <2>4. QED
      BY <2>1, <2>2, <2>3
  <1>5. CASE ClearService(b)
    BY <1>5 DEF ClearService
  <1>6. CASE UpdateRpcPorts(b)
    BY <1>6 DEF UpdateRpcPorts, Tell
  <1>7. QED
    BY <1>1, <1>2, <1>3, <1>4, <1>5, <1>6 DEF Inner, Ensure, Use

\* An object that a call uses stays the connection it is.
LEMMA KeptInUse ==
  ASSUME IInv, NEW a \in Actors, NEW b \in Actors, a # b, Inner(b),
         conn[a] \in Conns, life[conn[a]] # "none", pc[a] = "sent" \/ life[conn[a]] # "closed"
  PROVE  life'[conn[a]] # "none" /\ key'[conn[a]] = key[conn[a]]
  <1>i. TypePool /\ TypeActors /\ TypeConns /\ OnAGroup /\ MakersAreReady /\ SlotsAreSound
    BY IInvParts DEF IInv
  <1>s. InnerSlots(b)
    BY <1>i, InnerSlotsStep
  <1>1. CASE UNCHANGED <<connections, life, key>>
    BY <1>1
  <1>2. ASSUME NEW g, NEW s, ClearsSlot(g, s)
        PROVE  life'[conn[a]] # "none" /\ key'[conn[a]] = key[conn[a]]
    <2>1. connections[g][s] \in Conns /\ life[connections[g][s]] # "none" /\ Cleared({connections[g][s]})
      BY <1>2, <1>i, InSlot DEF ClearsSlot
    <2>2. /\ key'[conn[a]] = key[conn[a]]
          /\ life'[conn[a]] \in {life[conn[a]], "cleared"}
      BY <2>1, <1>i, ClearedEffect
    <2>3. QED
      BY <2>2
  <1>3. ASSUME NEW g, NEW s, NEW port, FillsSlot(g, s, port)
        PROVE  life'[conn[a]] # "none" /\ key'[conn[a]] = key[conn[a]]
    <2>1. /\ life[Memory] = "none"
          /\ \A c \in Conns \ {Memory} : life'[c] = life[c] /\ key'[c] = key[c]
      BY <1>3, <1>i, MakeEffect DEF FillsSlot
    <2>2. QED
      BY <2>1
  <1>4. CASE /\ conn[b] \in Conns /\ life[conn[b]] = "closed"
             /\ Counted(conn[b]) = {b} /\ Gone(conn[b])
    <2>1. conn[a] # conn[b]
      BY <1>4 DEF Counted
    <2>2. \A c \in Conns \ {conn[b]} : life'[c] = life[c] /\ key'[c] = key[c]
      BY <1>4, <1>i, GoneEffect
    <2>3. QED
      BY <2>1, <2>2
  <1>5. QED
    BY <1>s, <1>1, <1>2, <1>3, <1>4 DEF InnerSlots

\* Two actors that have m_connMutex have it of different groups.
LEMMA Exclusion ==
  ASSUME MutexIsHeld, NEW a \in Actors, NEW b \in Actors, a # b,
         pc[a] \in Locked, pc[b] \in Locked, GroupOf(a) \in Groups
  PROVE  GroupOf(a) # GroupOf(b)
  BY DEF MutexIsHeld

\* What an actor relies on stands, whatever another does on its group: under the mutex
\* no other touches the group's slots and ports; in "get" a slot is filled only at the
\* port that every call has been told; in "copy" a slot that is cleared is noticed.
LEMMA OthersInnerStep ==
  ASSUME IInv, NEW a \in Actors, NEW b \in Actors, a # b, Inner(b)
  PROVE  Relies(a)'
  <1>i. /\ TypePool /\ TypeActors /\ TypeConns /\ OnAGroup /\ SlotsAreSound /\ MutexIsHeld
        /\ Relies(a)
    BY IInvParts DEF IInv
  <1>f. /\ UNCHANGED <<held, version>>
        /\ UNCHANGED <<pc[a], job[a], prog[a], todo[a], conn[a]>>
    <2>1. InnerFrame(b)
      BY <1>i, InnerStep
    <2>2. QED
      BY <2>1, <1>i DEF InnerFrame, groupVars, TypeActors
  <1>s. SlotChange(b) /\ PortChange(b)
    BY InnerSlotChange
  <1>h. reported[a] \subseteq reported'[a] /\ (swapped[a] => swapped'[a])
    BY HistoryGrows
  <1> DEFINE g == GroupOf(a)
  <1>g. g' = g /\ ProgramsOf(g)' = ProgramsOf(g) /\ NextOf(a)' = NextOf(a)
    BY <1>f DEF GroupOf, ProgramsOf, NextOf
  <1>q. ~Quiet(a) => /\ g \in Groups /\ prog[a] \in ProgramsOf(g) /\ prog[a] \in Programs
                     /\ ProgramsOf(g) \subseteq Programs
    BY <1>i, BusyOnAGroup, ProgramsOfGroup DEF Relies, VersionFits
  <1>l. pc[a] \in Locked => /\ \A s \in Services : connections'[g][s] = connections[g][s]
                            /\ rpcPorts'[g] = rpcPorts[g]
                            /\ \A s \in Services : connections[g][s] # None =>
                                 key'[connections[g][s]] = key[connections[g][s]]
    <2>1. CASE pc[a] \in Locked
      <3>1. g \in Groups
        BY <2>1, <1>q DEF Quiet, Locked
      <3>2. pc[b] \in Locked => GroupOf(b) # g
        BY <2>1, <3>1, <1>i, Exclusion
      <3>3. \A s \in Services : connections'[g][s] = connections[g][s]
        BY <3>1, <3>2, <1>s DEF SlotChange
      <3>4. rpcPorts'[g] = rpcPorts[g]
        BY <3>1, <3>2, <1>s DEF PortChange
      <3>5. \A s \in Services : connections[g][s] # None =>
              key'[connections[g][s]] = key[connections[g][s]]
        BY <3>1, <3>3, <1>s DEF SlotChange
      <3>6. QED
        BY <3>3, <3>4, <3>5
    <2>2. QED
      BY <2>1
  <1>1. MakerIsReady(a)'
    <2>1. CASE pc[a] = "makePortmap"
      BY <2>1, <1>f, <1>g, <1>l, <1>i DEF Relies, MakerIsReady, Locked, Services
    <2>2. CASE pc[a] = "make"
      <3>1. todo[a] # {} /\ NextOf(a) \in Programs
        BY <2>2, <1>i, NextIsLeft DEF Relies, MakerIsReady
      <3>2. QED
        BY <2>2, <3>1, <1>f, <1>g, <1>l, <1>i DEF Relies, MakerIsReady, Locked, Services
    <2>3. QED
      BY <2>1, <2>2, <1>f DEF MakerIsReady
  <1>2. VersionFits(a)'
    BY <1>f, <1>g, <1>i DEF Relies, VersionFits, Quiet
  <1>3. PortIsKnown(a)'
    <2>1. (Calling(a) /\ version[g] = 4)' => Nfs4Port \in reported'[a]
      BY <1>f, <1>g, <1>h, <1>i DEF Relies, PortIsKnown, Calling
    <2>2. ASSUME job[a] \in CallJobs, pc[a] \in {"service", "make", "get"}
          PROVE  rpcPorts'[g][prog[a]] \in reported'[a]
      <3>1. rpcPorts[g][prog[a]] \in reported[a] /\ g \in Groups
        BY <2>2, <1>i, <1>q DEF Relies, PortIsKnown, Quiet
      <3>2. CASE rpcPorts'[g] = rpcPorts[g]
        BY <3>1, <3>2, <1>h
      <3>3. CASE rpcPorts'[g] # rpcPorts[g]
        BY <3>1, <3>3, <2>2, <1>s DEF PortChange
      <3>4. QED
        BY <3>2, <3>3
    <2>3. ASSUME pc[a] \in {"service", "make"}, NEW p \in ProgramsOf(g) \ todo[a],
                 connections'[g][p] # None
          PROVE  key'[connections'[g][p]].port = rpcPorts'[g][p]
      <3>1. p \in Services /\ pc[a] \in Locked
        BY <2>3, <1>q DEF Services, Quiet, Locked
      <3>2. /\ connections'[g][p] = connections[g][p]
            /\ key'[connections[g][p]] = key[connections[g][p]]
            /\ rpcPorts'[g] = rpcPorts[g]
        BY <3>1, <2>3, <1>l
      <3>3. key[connections[g][p]].port = rpcPorts[g][p]
        BY <3>2, <2>3, <1>i DEF Relies, PortIsKnown
      <3>4. QED
        BY <3>2, <3>3
    <2>4. ASSUME pc[a] = "get"
          PROVE  /\ job[a] \in CallJobs
                 /\ connections'[g][prog[a]] # None =>
                      key'[connections'[g][prog[a]]].port \in reported'[a]
      <3>1. /\ job[a] \in CallJobs /\ rpcPorts[g][prog[a]] \in reported[a]
            /\ connections[g][prog[a]] # None =>
                 key[connections[g][prog[a]]].port \in reported[a]
            /\ g \in Groups /\ prog[a] \in Programs /\ prog[a] \in Services
        BY <2>4, <1>i, <1>q DEF Relies, PortIsKnown, Quiet, Services
      <3>2. connections'[g][prog[a]] # None =>
              \/ /\ connections'[g][prog[a]] = connections[g][prog[a]]
                 /\ key'[connections[g][prog[a]]] = key[connections[g][prog[a]]]
              \/ key'[connections'[g][prog[a]]].port = rpcPorts[g][prog[a]]
        BY <3>1, <1>s DEF SlotChange
      <3>3. QED
        BY <3>1, <3>2, <1>h
    <2>5. QED
      BY <2>1, <2>2, <2>3, <2>4, <1>f, <1>g DEF PortIsKnown
  <1>4. UseIsSound(a)'
    <2>1. SUFFICES ASSUME ~swapped'[a], pc[a] \in {"copy", "sent"}
                   PROVE  UseIsSound(a)'
      BY <1>f DEF UseIsSound
    <2>2. /\ ~swapped[a] /\ conn[a] \in Conns /\ key[conn[a]].prog = prog[a]
          /\ key[conn[a]].port \in reported[a]
          /\ g \in Groups /\ prog[a] \in Programs /\ prog[a] \in Services
      BY <2>1, <1>h, <1>i, <1>q DEF Relies, UseIsSound, Quiet, Services, TypeActors
    <2>3. /\ life[conn[a]] # "none"
          /\ pc[a] = "copy" => /\ conn[a] = connections[g][prog[a]]
                               /\ life[conn[a]] \in {"up", "ended"}
      <3>1. CASE pc[a] = "sent"
        BY <3>1, <2>2, <1>i DEF Relies, UseIsSound
      <3>2. CASE pc[a] = "copy"
        <4>1. conn[a] = connections[g][prog[a]] /\ conn[a] # None
          BY <3>2, <2>2, <1>i DEF Relies, UseIsSound
        <4>2. QED
          BY <4>1, <2>2, <1>i, InSlot
      <3>3. QED
        BY <2>1, <3>1, <3>2
    <2>4. life'[conn[a]] # "none" /\ key'[conn[a]] = key[conn[a]]
      BY <2>1, <2>2, <2>3, KeptInUse
    <2>5. pc[a] = "copy" => connections'[g][prog[a]] = conn[a]
      <3>1. /\ pc[a] = "copy" /\ connections'[g][prog[a]] # connections[g][prog[a]]
            /\ conn[a] = connections[g][prog[a]] /\ connections[g][prog[a]] # None
            => swapped'[a]
        <4>1. ASSUME NEW h \in Groups, NEW p \in Programs,
                     connections'[h][p] # connections[h][p], connections[h][p] # None,
                     pc[a] = "copy", conn[a] = connections[h][p]
              PROVE  swapped'[a]
          BY <4>1, <1>s DEF SlotChange
        <4>2. QED
          BY <4>1, <2>2
      <3>2. QED
        BY <3>1, <2>1, <2>2, <2>3
    <2>6. QED
      BY <2>1, <2>2, <2>3, <2>4, <2>5, <1>f, <1>g, <1>h DEF UseIsSound
  <1>5. QED
    BY <1>1, <1>2, <1>3, <1>4 DEF Relies

-----------------------------------------------------------------------------
(***************************************************************************)
(* What an actor relies on, after a step of the pool or the environment.   *)
(***************************************************************************)
\* An actor that has nothing under way relies on its program alone, and on the fixed
\* port of NFSv4 where it is about to call.
LEMMA AtRest ==
  ASSUME NEW a \in Actors,
         pc'[a] \in {"idle", "off", "fini", "lock", "drop", "destroy"}, prog'[a] = "NFS",
         pc'[a] = "lock" => job'[a] \notin CallJobs
  PROVE  Relies(a)'
  <1>1. "NFS" \in ProgramsOf(GroupOf(a))'
    BY DEF ProgramsOf
  <1>2. QED
    BY <1>1 DEF Relies, MakerIsReady, VersionFits, PortIsKnown, UseIsSound, Quiet, Calling

\* A step that leaves alone an actor, its group and the connections it is to use
Bystander(a) ==
  LET g == GroupOf(a) IN
  /\ UNCHANGED <<pc[a], job[a], prog[a], todo[a], conn[a], reported[a], swapped[a]>>
  /\ ~Quiet(a) =>
       /\ g' = g /\ version'[g] = version[g]
       /\ UNCHANGED <<rpcPorts[g], connections[g]>>
       /\ \A s \in Services : connections[g][s] # None =>
            key'[connections[g][s]] = key[connections[g][s]]
       /\ /\ conn[a] \in Conns /\ life[conn[a]] # "none"
          /\ pc[a] = "sent" \/ life[conn[a]] \in {"up", "ended"}
          => life'[conn[a]] # "none" /\ key'[conn[a]] = key[conn[a]]

\* Whoever a step leaves alone goes on relying on what it relied on.
LEMMA BystanderStep ==
  ASSUME IInv, NEW a \in Actors, Bystander(a)
  PROVE  Relies(a)'
  <1> DEFINE g == GroupOf(a)
  <1>i. TypePool /\ TypeActors /\ TypeConns /\ OnAGroup /\ SlotsAreSound /\ Relies(a)
    BY IInvParts DEF IInv
  <1>1. CASE Quiet(a)
    BY <1>1, <1>i DEF Bystander, Relies, MakerIsReady, VersionFits, PortIsKnown, UseIsSound, Quiet,
       Calling
  <1>2. CASE ~Quiet(a)
    <2>1. /\ UNCHANGED <<pc[a], job[a], prog[a], todo[a], conn[a], reported[a], swapped[a]>>
          /\ g' = g /\ version'[g] = version[g]
          /\ UNCHANGED <<rpcPorts[g], connections[g]>>
          /\ \A s \in Services : connections[g][s] # None =>
               key'[connections[g][s]] = key[connections[g][s]]
      BY <1>2 DEF Bystander
    <2>2. ProgramsOf(g)' = ProgramsOf(g) /\ NextOf(a)' = NextOf(a)
      BY <2>1 DEF ProgramsOf, NextOf
    <2>3. g \in Groups /\ prog[a] \in ProgramsOf(g) /\ ProgramsOf(g) \subseteq Services
      BY <1>2, <1>i, BusyOnAGroup, ProgramsOfGroup DEF Relies, VersionFits, Services
    <2>4. MakerIsReady(a)' /\ VersionFits(a)'
      BY <2>1, <2>2, <1>i DEF Relies, MakerIsReady, VersionFits, Quiet
    <2>5. PortIsKnown(a)'
      BY <2>1, <2>2, <2>3, <1>i DEF Relies, PortIsKnown, Calling
    <2>6. ASSUME ~swapped[a], pc[a] \in {"copy", "sent"}
          PROVE  life'[conn[a]] # "none" /\ key'[conn[a]] = key[conn[a]]
      <3>1. conn[a] \in Conns
        BY <2>6, <1>i DEF Relies, UseIsSound, TypeActors
      <3>2. CASE pc[a] = "sent"
        BY <2>6, <3>1, <3>2, <1>2, <1>i DEF Relies, UseIsSound, Bystander
      <3>3. CASE pc[a] = "copy"
        <4>1. conn[a] = connections[g][prog[a]]
          BY <2>6, <3>3, <1>i DEF Relies, UseIsSound
        <4>2. life[conn[a]] \in {"up", "ended"}
          BY <4>1, <3>1, <2>3, <1>i, InSlot
        <4>3. QED
          BY <3>1, <4>2, <1>2 DEF Bystander
      <3>4. QED
        BY <2>6, <3>2, <3>3
    <2>7. UseIsSound(a)'
      BY <2>1, <2>6, <1>i DEF Relies, UseIsSound
    <2>8. QED
      BY <2>4, <2>5, <2>7 DEF Relies
  <1>3. QED
    BY <1>1, <1>2

\* A new group disturbs nobody on another.
LEMMA FoundingReliance ==
  ASSUME IInv, NEW t \in Threads, Founding(t), NEW a \in Actors
  PROVE  Relies(a)'
  <1>i. TypePool /\ TypeActors /\ TypeConns /\ OnAGroup /\ Relies(a) /\ Relies(t)
    BY IInvParts DEF IInv, Actors
  <1>1. PICK g \in Groups, s \in Servers : Founds(t, g, s)
    BY DEF Founding
  <1>2. PICK to \in {"idle", "off"} : pc' = [pc EXCEPT ![t] = "lock", ![g] = to]
    BY <1>1 DEF Founds
  <1>t. t \in Actors /\ g \in Actors /\ t # g /\ t \notin Groups
    BY DEF Actors
  <1>3. CASE a = t
    <2>1. pc'[t] = "lock" /\ job'[t] \in {"init", "add"} /\ prog'[t] = prog[t] /\ pc[t] = "idle"
      BY <1>1, <1>2, <1>t, <1>i DEF Founds, TypeActors
    <2>2. prog[t] = "NFS"
      BY <2>1, <1>i DEF Relies, VersionFits, Quiet
    <2>3. QED
      BY <1>3, <2>1, <2>2, AtRest DEF CallJobs
  <1>4. CASE a = g
    <2>1. pc'[g] \in {"idle", "off"} /\ prog'[g] = prog[g] /\ pc[g] = "off"
      BY <1>1, <1>2, <1>t, <1>i DEF Founds, TypeActors
    <2>2. prog[g] = "NFS"
      BY <1>4, <2>1, <1>i DEF Relies, VersionFits, Quiet
    <2>3. QED
      BY <1>4, <2>1, <2>2, AtRest
  <1>5. CASE a # t /\ a # g
    <2>1. /\ UNCHANGED <<connections, life, key, prog, reported, todo, conn, swapped>>
          /\ job' = [job EXCEPT ![t] = job'[t]] /\ held' = [held EXCEPT ![t] = g]
          /\ \E v : version' = [version EXCEPT ![g] = v]
          /\ \E p : rpcPorts' = [rpcPorts EXCEPT ![g] = p]
          /\ ip[g] = None
      <3>1. PICK v \in {3, 4}, alive \in BOOLEAN :
              /\ version' = [version EXCEPT ![g] = v]
              /\ rpcPorts' = [rpcPorts EXCEPT
                               ![g] = IF v = 4 THEN [NoPorts EXCEPT !["NFS"] = Nfs4Port] ELSE NoPorts]
        BY <1>1 DEF Founds
      <3>2. QED
        BY <1>1, <3>1 DEF Founds, ensureVars, readVars, connVars
    <2>2. pc'[a] = pc[a] /\ job'[a] = job[a] /\ GroupOf(a)' = GroupOf(a)
      BY <1>2, <1>5, <2>1, <1>i DEF TypeActors, TypePool, GroupOf, Actors
    <2>3. ~Quiet(a) => GroupOf(a) \in Groups /\ GroupOf(a) # g
      BY <2>1, <1>i, BusyOnAGroup
    <2>4. ~Quiet(a) => UNCHANGED <<version[GroupOf(a)], rpcPorts[GroupOf(a)]>>
      BY <2>1, <2>2, <2>3, <1>i DEF TypePool, TypeConns
    <2>5. Bystander(a)
      BY <2>1, <2>2, <2>4 DEF Bystander
    <2>6. QED
      BY <2>5, BystanderStep
  <1>6. QED
    BY <1>3, <1>4, <1>5

\* The destructor: nobody but the thread that destroys the group relies on its slots.
LEMMA DestroyReliance ==
  ASSUME IInv, NEW t \in Threads, Destroy(t), NEW a \in Actors
  PROVE  Relies(a)'
  <1>i. /\ TypePool /\ TypeActors /\ TypeConns /\ OnAGroup /\ SlotsAreSound
        /\ DestroyersAreAlone
    BY IInvParts DEF IInv
  <1> DEFINE g == held[t]
             cs == {connections[g][s] : s \in Services}
  <1>1. /\ g \in Groups /\ pc[t] = "destroy" /\ pc[g] = "off"
        /\ Cleared(cs)
        /\ connections' = [connections EXCEPT ![g] = [s \in Services |-> None]]
        /\ version' = [version EXCEPT ![g] = 3] /\ rpcPorts' = [rpcPorts EXCEPT ![g] = NoPorts]
        /\ held' = [held EXCEPT ![t] = None]
        /\ pc' = [pc EXCEPT ![t] = IF tableLock = t THEN "fini" ELSE "idle"]
        /\ job' = [job EXCEPT ![t] = "call"] /\ prog' = [prog EXCEPT ![t] = "NFS"]
        /\ reported' = [reported EXCEPT ![t] = {}]
        /\ UNCHANGED <<todo, conn, swapped>>
    BY <1>i DEF Destroy, Destroyed, TypePool, OnAGroup, Quiet, ensureVars, readVars
  <1>t. t \in Actors /\ t \notin Groups
    BY DEF Actors
  <1>2. CASE a = t
    <2>1. pc'[t] \in {"fini", "idle"} /\ prog'[t] = "NFS"
      BY <1>1, <1>t, <1>i DEF TypeActors
    <2>2. QED
      BY <1>2, <2>1, AtRest
  <1>3. CASE a # t
    <2>1. /\ UNCHANGED <<pc[a], job[a], prog[a], todo[a], conn[a], reported[a], swapped[a]>>
          /\ GroupOf(a)' = GroupOf(a)
      BY <1>1, <1>3, <1>i DEF TypeActors, TypePool, GroupOf, Actors
    <2>2. ~Quiet(a) => GroupOf(a) \in Groups /\ GroupOf(a) # g
      BY <1>1, <1>3, <1>i, BusyOnAGroup DEF DestroyersAreAlone, GroupOf, Actors, Quiet
    <2>3. ~Quiet(a) => UNCHANGED <<version[GroupOf(a)], rpcPorts[GroupOf(a)], connections[GroupOf(a)]>>
      BY <1>1, <2>1, <2>2, <1>i DEF TypePool, TypeConns
    <2>4. \A c \in Conns \cap cs : life[c] # "none"
      BY <1>1, <1>i DEF SlotsAreSound
    <2>5. /\ \A c \in Conns \ cs : key'[c] = key[c]
          /\ conn[a] \in Conns => /\ key'[conn[a]] = key[conn[a]]
                                  /\ life'[conn[a]] \in {life[conn[a]], "cleared"}
      <3> HIDE DEF cs
      <3> QED
        BY <1>1, <1>i, <2>4, ClearedEffect
    <2>6. ASSUME ~Quiet(a), NEW s \in Services, connections[GroupOf(a)][s] # None
          PROVE  key'[connections[GroupOf(a)][s]] = key[connections[GroupOf(a)][s]]
      <3>1. /\ connections[GroupOf(a)][s] \in Conns
            /\ \A r \in Services : connections[g][r] # connections[GroupOf(a)][s]
        BY <1>1, <2>2, <2>6, <1>i, InSlot
      <3>2. QED
        BY <3>1, <2>5
    <2>7. conn[a] \in Conns /\ life[conn[a]] # "none" =>
            life'[conn[a]] # "none" /\ key'[conn[a]] = key[conn[a]]
      BY <2>5
    <2>8. Bystander(a)
      BY <2>1, <2>3, <2>6, <2>7 DEF Bystander
    <2>9. QED
      BY <2>8, BystanderStep
  <1>4. QED
    BY <1>2, <1>3

\* What a thread does to the pool disturbs no call under way.
LEMMA PoolReliance ==
  ASSUME IInv, NEW t \in Threads, PoolWork(t), NEW a \in Actors
  PROVE  Relies(a)'
  <1> USE DEF Goto, poolVars, groupVars, callVars, ensureVars, readVars, slotVars, connVars
  <1>i. TypePool /\ TypeActors /\ TypeConns /\ OnAGroup /\ Relies(t)
    BY IInvParts DEF IInv, Actors
  <1>t. t \in Actors /\ t \notin Groups
    BY DEF Actors
  <1>1. ASSUME a # t, UNCHANGED <<version, rpcPorts, connections, life, key, todo, conn, swapped>>,
               pc' = [pc EXCEPT ![t] = pc'[t]], held' = [held EXCEPT ![t] = held'[t]],
               job' = [job EXCEPT ![t] = job'[t]], prog' = [prog EXCEPT ![t] = prog'[t]],
               reported' = [reported EXCEPT ![t] = reported'[t]]
        PROVE  Relies(a)'
    <2>1. /\ UNCHANGED <<pc[a], job[a], prog[a], reported[a]>>
          /\ GroupOf(a)' = GroupOf(a)
      BY <1>1, <1>i DEF TypeActors, TypePool, GroupOf, Actors
    <2>2. Bystander(a)
      BY <1>1, <2>1 DEF Bystander
    <2>3. QED
      BY <2>2, BystanderStep
  <1>2. CASE RemoveFromPool(t) \/ \E s \in Servers : Find(t, s)
    <2>1. /\ UNCHANGED <<version, rpcPorts, connections, life, key, todo, conn, swapped, pc, job,
                         prog, reported>>
          /\ held' = [held EXCEPT ![t] = held'[t]]
          /\ pc[t] = "idle"
      BY <1>2, <1>i DEF RemoveFromPool, Find, TypePool
    <2>2. CASE a = t
      <3>1. prog[t] = "NFS"
        BY <2>1, <1>i DEF Relies, VersionFits, Quiet
      <3>2. QED
        BY <2>1, <2>2, <3>1, AtRest
    <2>3. QED
      BY <2>1, <2>2, <1>1, <1>i DEF TypeActors
  <1>3. CASE Fini(t) \/ FiniEnds(t) \/ \E s \in Servers : TakeOut(t, s)
    <2>1. /\ UNCHANGED <<version, rpcPorts, connections, life, key, todo, conn, swapped, job,
                         prog, reported>>
          /\ held' = [held EXCEPT ![t] = held'[t]]
          /\ pc' = [pc EXCEPT ![t] = pc'[t]]
          /\ pc[t] \in {"idle", "fini"} /\ pc'[t] \in {"idle", "fini", "destroy"}
      BY <1>3, <1>i, <1>t DEF Fini, FiniEnds, TakeOut, Destruct, TypePool, TypeActors
    <2>2. CASE a = t
      <3>1. prog[t] = "NFS"
        BY <2>1, <1>i DEF Relies, VersionFits, Quiet
      <3>2. QED
        BY <2>1, <2>2, <3>1, AtRest
    <2>3. QED
      BY <2>1, <2>2, <1>1, <1>i DEF TypeActors
  <1>4. CASE Drop(t)
    <2>1. /\ UNCHANGED <<version, rpcPorts, connections, life, key, todo, conn, swapped>>
          /\ held' = [held EXCEPT ![t] = held'[t]] /\ pc' = [pc EXCEPT ![t] = pc'[t]]
          /\ job' = [job EXCEPT ![t] = job'[t]] /\ prog' = [prog EXCEPT ![t] = prog'[t]]
          /\ reported' = [reported EXCEPT ![t] = reported'[t]]
          /\ \/ pc'[t] = "destroy" /\ UNCHANGED <<held, prog>> /\ pc[t] \in {"idle", "drop"}
             \/ pc'[t] = "idle" /\ prog'[t] = "NFS"
      BY <1>4, <1>i, <1>t DEF Drop, Destruct, Done, TypePool, TypeActors
    <2>2. CASE a = t /\ pc'[t] = "destroy" /\ UNCHANGED <<held, prog>> /\ pc[t] \in {"idle", "drop"}
      <3>1. GroupOf(t)' = GroupOf(t) /\ ProgramsOf(GroupOf(t))' = ProgramsOf(GroupOf(t))
        BY <2>1, <2>2 DEF GroupOf, ProgramsOf
      <3>2. prog[t] \in ProgramsOf(GroupOf(t))
        BY <2>2, <1>i DEF Relies, VersionFits, Quiet, ProgramsOf
      <3>3. QED
        BY <2>2, <3>1, <3>2 DEF Relies, MakerIsReady, VersionFits, PortIsKnown, UseIsSound, Quiet,
           Calling
    <2>3. CASE a = t /\ pc'[t] = "idle" /\ prog'[t] = "NFS"
      BY <2>3, AtRest
    <2>4. QED
      BY <2>1, <2>2, <2>3, <1>1
  <1>5. ASSUME NEW s \in Servers, Add(t, s) \/ \E v \in {3, 4}, alive \in BOOLEAN :
                 Create(t, s, v, alive) \/ ForceCreate(t, s, v, alive)
        PROVE  Relies(a)'
    BY <1>5, <1>i, FoundingSteps, FoundingReliance
  <1>6. CASE Destroy(t)
    BY <1>6, DestroyReliance
  <1>7. QED
    BY <1>2, <1>3, <1>4, <1>5, <1>6 DEF PoolWork

\* The manager ends no connection that a call has counted itself in on.
LEMMA EnvironmentReliance ==
  ASSUME IInv, Environment \/ UNCHANGED vars, NEW a \in Actors
  PROVE  Relies(a)'
  <1>i. TypePool /\ TypeActors /\ TypeConns /\ OnAGroup /\ SlotsAreSound
    BY IInvParts DEF IInv
  <1>1. UNCHANGED <<version, rpcPorts, connections, held, pc, job, prog, todo, conn, reported, swapped>>
    BY EnvironmentStep DEF Environs, vars, groupVars, slotVars, callVars, ensureVars, readVars
  <1>2. GroupOf(a)' = GroupOf(a)
    BY <1>1 DEF GroupOf
  <1>3. ASSUME \A c \in Conns :
                 \/ key'[c] = key[c] /\ (life[c] # "none" => life'[c] # "none")
                 \/ life[c] = "cleared" /\ Counted(c) = {}
        PROVE  Relies(a)'
    <2>1. ASSUME NEW c \in Conns, (pc[a] = "sent" /\ conn[a] = c) \/ life[c] \in {"up", "ended"}
          PROVE  key'[c] = key[c] /\ (life[c] # "none" => life'[c] # "none")
      BY <1>3, <2>1 DEF Counted
    <2>2. ~Quiet(a) => \A s \in Services : connections[GroupOf(a)][s] # None =>
            key'[connections[GroupOf(a)][s]] = key[connections[GroupOf(a)][s]]
      <3>1. ASSUME ~Quiet(a), NEW s \in Services, connections[GroupOf(a)][s] # None
            PROVE  key'[connections[GroupOf(a)][s]] = key[connections[GroupOf(a)][s]]
        <4>1. /\ connections[GroupOf(a)][s] \in Conns
              /\ life[connections[GroupOf(a)][s]] \in {"up", "ended"}
          BY <3>1, <1>i, BusyOnAGroup, InSlot
        <4>2. QED
          BY <4>1, <2>1
      <3>2. QED
        BY <3>1
    <2>3. Bystander(a)
      BY <1>1, <1>2, <2>1, <2>2 DEF Bystander
    <2>4. QED
      BY <2>3, BystanderStep
  <1>4. CASE Move \/ UNCHANGED vars
    BY <1>4, <1>3 DEF Move, vars, connVars
  <1>5. ASSUME NEW c \in Conns, End(c) PROVE Relies(a)'
    <2>1. life' = [life EXCEPT ![c] = "ended"] /\ key' = key
      BY <1>5 DEF End
    <2>2. QED
      BY <2>1, <1>3, <1>i DEF TypeConns
  <1>6. ASSUME NEW c \in Conns, Manage(c) PROVE Relies(a)'
    <2>1. /\ life[c] = "cleared"
          /\ \/ Counted(c) = {} /\ Gone(c)
             \/ life' = [life EXCEPT ![c] = "closed"] /\ key' = key
      BY <1>6 DEF Manage
    <2>2. \A d \in Conns \ {c} : life'[d] = life[d] /\ key'[d] = key[d]
      BY <2>1, <1>i, GoneEffect DEF TypeConns
    <2>3. \/ Counted(c) = {}
          \/ life'[c] = "closed" /\ key'[c] = key[c]
      BY <2>1, <1>i DEF TypeConns
    <2>4. QED
      BY <2>1, <2>2, <2>3, <1>3
  <1>7. QED
    BY <1>4, <1>5, <1>6 DEF Environment

\* Only NFSv3 asks for the ports, so that an NFSv4 group keeps the one it was made with.
LEMMA Nfs4PortStep ==
  ASSUME IInv, [Next]_vars
  PROVE  \A g \in Groups : version'[g] = 4 /\ ip'[g] # None => rpcPorts'[g]["NFS"] = Nfs4Port
  <1> DEFINE Kept == \A g \in Groups :
                       version[g] = 4 /\ ip[g] # None => rpcPorts[g]["NFS"] = Nfs4Port
  <1>i. TypePool /\ TypeActors /\ TypeConns /\ OnAGroup /\ MakersAreReady /\ Kept
    BY IInvParts DEF IInv, VersionsAreKept
  <1>0. UNCHANGED <<version, ip, rpcPorts>> => Kept'
    BY <1>i
  <1>1. ASSUME NEW b \in Actors, Inner(b) PROVE Kept'
    <2>1. InnerSlots(b) /\ UNCHANGED <<version, ip>>
      BY <1>1, <1>i, InnerSlotsStep, InnerStep DEF InnerFrame, groupVars
    <2>2. CASE rpcPorts' = rpcPorts
      BY <2>1, <2>2, <1>0
    <2>3. CASE UpdateRpcPorts(b)
      <3>1. /\ rpcPorts' = [rpcPorts EXCEPT ![GroupOf(b)] = registered] /\ pc[b] = "dump"
        BY <2>3 DEF UpdateRpcPorts
      <3>2. version[GroupOf(b)] = 3
        BY <3>1, IInvParts DEF Relies, VersionFits
      <3>3. QED
        BY <3>1, <3>2, <2>1, <1>i DEF TypeConns
    <2>4. QED
      BY <2>1, <2>2, <2>3 DEF InnerSlots
  <1>2. ASSUME NEW t \in Threads, PoolWork(t) PROVE Kept'
    <2>1. CASE Founding(t)
      <3>1. PICK g \in Groups, s \in Servers : Founds(t, g, s)
        BY <2>1 DEF Founding
      <3>2. PICK v \in {3, 4} :
              /\ version' = [version EXCEPT ![g] = v] /\ ip' = [ip EXCEPT ![g] = s]
              /\ rpcPorts' = [rpcPorts EXCEPT
                               ![g] = IF v = 4 THEN [NoPorts EXCEPT !["NFS"] = Nfs4Port] ELSE NoPorts]
        BY <3>1 DEF Founds
      <3>3. [NoPorts EXCEPT !["NFS"] = Nfs4Port]["NFS"] = Nfs4Port
        BY DEF NoPorts
      <3>4. QED
        BY <3>2, <3>3, <1>i DEF TypePool, TypeConns
    <2>2. CASE Destroy(t)
      <3>1. /\ version' = [version EXCEPT ![held[t]] = 3] /\ ip' = [ip EXCEPT ![held[t]] = None]
            /\ rpcPorts' = [rpcPorts EXCEPT ![held[t]] = NoPorts]
        BY <2>2 DEF Destroy, Destroyed
      <3>2. QED
        BY <3>1, <1>i DEF TypePool, TypeConns
    <2>3. QED
      BY <1>2, <2>1, <2>2, <1>0, <1>i, PoolSlots
  <1>3. CASE Environment \/ UNCHANGED vars
    BY <1>3, <1>0, EnvironmentStep DEF Environs, vars, groupVars, slotVars
  <1>4. QED
    BY <1>1, <1>2, <1>3, NextSteps

-----------------------------------------------------------------------------
(***************************************************************************)
(* The invariant.                                                          *)
(***************************************************************************)
\* Nothing has been created yet.
LEMMA InitIInv == Init => IInv
  <1> SUFFICES ASSUME Init PROVE IInv
    OBVIOUS
  <1> USE DEF Init
  <1>1. NoPorts \in PortList /\ NoKey \in [prog : Services, port : Nat]
    BY DEF NoPorts, PortList, NoKey, Services
  <1>2. TypePool
    BY DEF TypePool
  <1>3. TypeActors
    BY DEF TypeActors, Jobs, CallJobs
  <1>4. TypeConns
    <2>1. /\ connections \in [Groups -> [Services -> Conns \cup {None}]]
          /\ rpcPorts \in [Groups -> PortList]
      BY <1>1
    <2>2. life \in [Conns -> Life] /\ key \in [Conns -> [prog : Services, port : Nat]]
      BY <1>1 DEF Life
    <2>3. \A c \in Conns : life[c] = "none"
      OBVIOUS
    <2>4. registered \in PortList /\ trouble \in 0..MaxFaults
      OBVIOUS
    <2>5. QED
      BY <2>1, <2>2, <2>3, <2>4 DEF TypeConns
  <1>5. /\ \A a \in Actors : pc[a] = (IF a \in Threads THEN "idle" ELSE "off")
        /\ \A a \in Actors : job[a] = "call" /\ prog[a] = "NFS"
        /\ \A t \in Threads : held[t] = None /\ t \in Actors
        /\ \A g \in Groups : /\ g \in Actors /\ g \notin Threads /\ ip[g] = None /\ version[g] = 3
                             /\ connMutex[g] = None
                             /\ \A s \in Services : connections[g][s] = None
        /\ \A s \in Servers : serverTable[s] = None
        /\ \A c \in Conns : life[c] = "none"
    BY DEF Actors
  <1>6. OnAGroup /\ DestroyersAreAlone
    BY <1>5 DEF OnAGroup, DestroyersAreAlone, Quiet
  <1>7. MutexIsHeld
    BY <1>5 DEF MutexIsHeld, Locked, Actors
  <1>8. SlotsAreSound
    BY <1>5 DEF SlotsAreSound
  <1>9. PoolIsUnshared
    BY <1>5 DEF PoolIsUnshared
  <1>10. \A a \in Actors : Relies(a)
    BY <1>5 DEF Relies, MakerIsReady, VersionFits, PortIsKnown, UseIsSound, Quiet, Calling
  <1>11. \A g \in Groups : version[g] = 4 /\ ip[g] # None => rpcPorts[g]["NFS"] = Nfs4Port
    BY <1>5
  <1> HIDE DEF Init
  <1>12. QED
    BY <1>2, <1>3, <1>4, <1>6, <1>7, <1>8, <1>9, <1>10, <1>11, TypeParts
       DEF IInv, Relies, MakersAreReady, VersionsAreKept, PortsAreKnown, UsesAreSound

\* The invariant is inductive.
LEMMA IInvStep == IInv /\ [Next]_vars => IInv'
  <1> SUFFICES ASSUME IInv, [Next]_vars PROVE IInv'
    OBVIOUS
  <1>i. /\ TypePool /\ TypeActors /\ TypeConns /\ OnAGroup /\ DestroyersAreAlone /\ MutexIsHeld
        /\ SlotsAreSound /\ MakersAreReady /\ PoolIsUnshared
    BY IInvParts DEF IInv
  <1>1. TypePool' /\ TypeActors' /\ OnAGroup'
    BY <1>i, PlacesStep
  <1>2. DestroyersAreAlone' /\ MutexIsHeld' /\ PoolIsUnshared'
    BY <1>i, AloneStep, MutexStep, UnsharedStep
  <1>3. TypeConns' /\ SlotsAreSound'
    BY <1>i, SlotsStep
  <1>4. TypeOK'
    BY <1>1, <1>3 DEF TypeOK, TypePool, TypeActors, TypeConns
  <1>5. ASSUME NEW a \in Actors PROVE Relies(a)'
    <2>1. ASSUME NEW b \in Actors, Inner(b) PROVE Relies(a)'
      BY <2>1, OwnStep, OthersInnerStep
    <2>2. QED
      BY <2>1, NextSteps, PoolReliance, EnvironmentReliance
  <1>6. MakersAreReady' /\ PortsAreKnown' /\ UsesAreSound'
    BY <1>5 DEF Relies, MakersAreReady, PortsAreKnown, UsesAreSound
  <1>7. VersionsAreKept'
    BY <1>5, Nfs4PortStep DEF Relies, VersionsAreKept
  <1>8. QED
    BY <1>1, <1>2, <1>3, <1>4, <1>6, <1>7 DEF IInv

\* Hence it always holds.
LEMMA IInvAlways == Spec => []IInv
  BY InitIInv, IInvStep, PTL DEF Spec

-----------------------------------------------------------------------------
\* Types: the pool, the groups, the slots and the actors hold what they may.
THEOREM TypeCorrect == Spec => []TypeOK
  <1>1. IInv => TypeOK
    BY DEF IInv
  <1>2. QED
    BY <1>1, IInvAlways, PTL

\* RemoteCall::call: a call goes out on a connection of its own program, to a port that
\* the server's portmapper gave for it since the call began, unless the slot was cleared
\* while it was copied.
THEOREM CallsGoToFreshPorts == Spec => []PortIsFresh
  <1>1. IInv => PortIsFresh
    <2> SUFFICES ASSUME IInv, NEW a \in Actors, pc[a] = "sent", ~swapped[a]
                 PROVE  /\ key[conn[a]].prog = prog[a]
                        /\ key[conn[a]].port \in reported[a] \ {0}
      BY DEF PortIsFresh
    <2>1. TypeActors /\ TypeConns /\ Relies(a)
      BY IInvParts
    <2>2. /\ conn[a] \in Conns /\ life[conn[a]] # "none"
          /\ key[conn[a]].prog = prog[a] /\ key[conn[a]].port \in reported[a]
      BY <2>1 DEF Relies, UseIsSound, TypeActors
    <2>3. QED
      BY <2>1, <2>2 DEF TypeConns
  <1>2. QED
    BY <1>1, IInvAlways, PTL

\* SmartPtr: no call uses a connection that has been destroyed, but where the slot was
\* cleared between the reading of the pointer and the counting of the reference.
THEOREM UsedConnectionsLive == Spec => []UsedIsAlive
  <1>1. IInv => UsedIsAlive
    BY DEF IInv, UsesAreSound, UseIsSound, UsedIsAlive
  <1>2. QED
    BY <1>1, IInvAlways, PTL

\* ensureConnection, initNfs and the destructor: every connection that is not cleared is
\* in one slot of one group that exists.
THEOREM ConnectionsAreOwned == Spec => []EveryConnectionIsOwned
  <1>1. IInv => EveryConnectionIsOwned
    <2> SUFFICES ASSUME IInv, NEW c \in Conns, life[c] \in {"up", "ended"}
                 PROVE  \E gs \in Slots(c) : Slots(c) = {gs} /\ ip[gs[1]] # None
      BY DEF EveryConnectionIsOwned
    <2>1. PICK g \in Groups, s \in Services : connections[g][s] = c
      BY DEF IInv, SlotsAreSound
    <2>2. c # None
      OBVIOUS
    <2>3. /\ ip[g] # None
          /\ \A h \in Groups, r \in Services : connections[h][r] = c => h = g /\ r = s
      BY <2>1, <2>2 DEF IInv, SlotsAreSound
    <2>4. Slots(c) = {<<g, s>>}
      BY <2>1, <2>3 DEF Slots
    <2>5. QED
      BY <2>3, <2>4
  <1>2. QED
    BY <1>1, IInvAlways, PTL

\* removeFromPool and forceCreate: a group outside the pool is held by one thread at
\* most, unless fini emptied the pool.
THEOREM UnpooledIsUnshared == Spec => []OutOfPoolIsUnshared
  <1>1. IInv => OutOfPoolIsUnshared
    <2> SUFFICES ASSUME IInv, NEW g \in Groups, ~finished, \A s \in Servers : serverTable[s] # g
                 PROVE  Cardinality(Holders(g)) <= 1
      BY DEF OutOfPoolIsUnshared
    <2>1. \A t, u \in Holders(g) : t = u
      BY DEF IInv, PoolIsUnshared, Holders
    <2>2. Holders(g) = {} \/ \E t : Holders(g) = {t}
      BY <2>1
    <2>3. CASE Holders(g) = {}
      BY <2>3, FS_EmptySet
    <2>4. CASE \E t : Holders(g) = {t}
      <3>1. IsFiniteSet(Holders(g))
        BY CountsAreNumbers
      <3>2. Cardinality(Holders(g)) = 1
        BY <2>4, <3>1, FS_Singleton
      <3>3. QED
        BY <3>2
    <2>5. QED
      BY <2>2, <2>3, <2>4
  <1>2. QED
    BY <1>1, IInvAlways, PTL

\* The destructor: when a group is gone, no thread holds it, the pool does not have it,
\* its keepalive thread has ended, and its mutex is free.
THEOREM DestroyedGroupsAreQuiet == Spec => []DestroyedIsQuiet
  <1>1. IInv => DestroyedIsQuiet
    <2> SUFFICES ASSUME IInv, NEW g \in Groups, ip[g] = None
                 PROVE  /\ pc[g] = "off" /\ connMutex[g] = None
                        /\ Holders(g) = {} /\ \A s \in Servers : serverTable[s] # g
      BY DEF DestroyedIsQuiet
    <2>i. TypePool /\ TypeActors /\ OnAGroup /\ MutexIsHeld
      BY IInvParts DEF IInv
    <2>1. pc[g] = "off" /\ Holders(g) = {}
      BY <2>i DEF OnAGroup, Holders
    <2>2. \A s \in Servers : serverTable[s] # g
      BY <2>i DEF OnAGroup
    <2>3. ASSUME NEW a \in Actors, connMutex[g] = a PROVE FALSE
      <3>1. pc[a] \in Locked /\ GroupOf(a) = g
        BY <2>3, <2>i DEF MutexIsHeld
      <3>2. QED
        BY <3>1, <2>i, BusyOnAGroup DEF Locked, Quiet
    <2>4. connMutex[g] = None
      BY <2>3, <2>i DEF TypeActors
    <2>5. QED
      BY <2>1, <2>2, <2>4
  <1>2. QED
    BY <1>1, IInvAlways, PTL

-----------------------------------------------------------------------------
(***************************************************************************)
(* Undisturbed: no fault has happened.  The connections are up and where   *)
(* the portmapper says, so that only bForceRecreate clears one; and it is  *)
(* set by whoever finds the group without a portmapper connection, at which*)
(* no call of the group has got beyond ensureConnection.                   *)
(***************************************************************************)
SlotsAreUp ==
  \A g \in Groups, s \in Services : connections[g][s] # None => life[connections[g][s]] = "up"

PortsStand ==
  \A g \in Groups, p \in Programs : connections[g][p] # None =>
    /\ key[connections[g][p]].port = rpcPorts[g][p]
    /\ version[g] = 3 => rpcPorts[g] = registered

InUse(a) == pc[a] \in {"get", "copy", "sent"}
SlotStands(a) ==
  pc[a] \in {"copy", "sent"} => conn[a] # None /\ conn[a] = connections[GroupOf(a)][prog[a]]
PortMapperStands(a) ==
  version[GroupOf(a)] = 3 =>
    /\ InUse(a) \/ pc[a] \in {"dump", "service", "make"} => connections[GroupOf(a)]["PORTMAP"] # None
    /\ pc[a] \in {"service", "make"} => rpcPorts[GroupOf(a)] = registered
ForceIsAlone(a) ==
  force[a] => /\ pc[a] \in Locked \ {"portmap"} /\ version[GroupOf(a)] = 3
              /\ \A b \in Actors : InUse(b) => GroupOf(b) # GroupOf(a)
Stands(a) == SlotStands(a) /\ PortMapperStands(a) /\ ForceIsAlone(a)

AllStands == SlotsAreUp /\ PortsStand /\ \A a \in Actors : Stands(a)
Undisturbed == trouble = 0 => AllStands

\* Whoever is under the mutex or has his connection, or is about to
Engaged(a) == pc[a] \in Locked \/ InUse(a)

\* What an inner step of b does to the slots and ports while nothing goes wrong: it fills
\* an empty slot, or clears that of a service because it must.
FairSlots(b) ==
  /\ \A h \in Groups, s \in Services : connections'[h][s] # connections[h][s] =>
       /\ h = GroupOf(b)
       /\ connections[h][s] = None \/ (s # "PORTMAP" /\ force[b])
  /\ \A h \in Groups, s \in Services :
       connections'[h][s] # None => connections'[h][s] \in Conns /\ life'[connections'[h][s]] = "up"
  /\ \A h \in Groups, p \in Programs : connections'[h][p] # None =>
       key'[connections'[h][p]].port = rpcPorts[h][p]
  /\ \A h \in Groups, p \in Programs : connections'[h][p] \notin {None, connections[h][p]} =>
       h = GroupOf(b) /\ pc[b] = "make"
  /\ \A h \in Groups : rpcPorts'[h] = rpcPorts[h] \/ (version[h] = 3 /\ rpcPorts'[h] = registered)

\* A slot that is cleared
LEMMA FairClear ==
  ASSUME TypeConns, SlotsAreSound, SlotsAreUp, PortsStand, NEW b, NEW s, ClearsSlot(GroupOf(b), s),
         s # "PORTMAP" /\ force[b], rpcPorts' = rpcPorts
  PROVE  FairSlots(b)
  <1> DEFINE g == GroupOf(b)
             c == connections[g][s]
  <1>1. /\ g \in Groups /\ s \in Services /\ c # None
        /\ connections' = [connections EXCEPT ![g][s] = None] /\ Cleared({c})
    BY DEF ClearsSlot
  <1>2. c \in Conns /\ life[c] # "none"
    BY <1>1, InSlot
  <1>3. \A d \in Conns \ {c} : life'[d] = life[d] /\ key'[d] = key[d]
    BY <1>1, <1>2, ClearedEffect
  <1>4. \A h \in Groups, r \in Services :
          connections'[h][r] = IF h = g /\ r = s THEN None ELSE connections[h][r]
    BY <1>1 DEF TypeConns
  <1>5. ASSUME NEW h \in Groups, NEW r \in Services, connections'[h][r] # None
        PROVE  /\ connections'[h][r] = connections[h][r] /\ connections[h][r] \in Conns
               /\ life'[connections[h][r]] = "up" /\ key'[connections[h][r]] = key[connections[h][r]]
    <2>1. connections'[h][r] = connections[h][r] /\ ~(h = g /\ r = s)
      BY <1>4, <1>5
    <2>2. connections[h][r] \in Conns /\ connections[h][r] # c
      BY <1>1, <1>5, <2>1, InSlot
    <2>3. QED
      BY <1>3, <1>5, <2>1, <2>2 DEF SlotsAreUp
  <1>6. \A p \in Programs : p \in Services
    BY DEF Services
  <1>7. QED
    BY <1>4, <1>5, <1>6 DEF FairSlots, PortsStand

\* A slot that is filled
LEMMA FairFill ==
  ASSUME TypeConns, SlotsAreSound, SlotsAreUp, PortsStand, NEW b, NEW s, NEW port,
         FillsSlot(GroupOf(b), s, port), trouble = 0, trouble' = 0, rpcPorts' = rpcPorts,
         s \in Programs => port = rpcPorts[GroupOf(b)][s] /\ pc[b] = "make"
  PROVE  FairSlots(b) /\ connections'[GroupOf(b)][s] # None
  <1> DEFINE g == GroupOf(b)
             m == Memory
  <1>1. /\ g \in Groups /\ s \in Services /\ connections[g][s] = None /\ port \in Nat \ {0}
        /\ NoObject /\ Make(Memory, s, port)
        /\ connections' = [connections EXCEPT ![g][s] = m]
    BY DEF FillsSlot
  <1>2. /\ m \in Conns /\ life[m] = "none" /\ key'[m] = [prog |-> s, port |-> port]
        /\ \A c \in Conns \ {m} : life'[c] = life[c] /\ key'[c] = key[c]
    BY <1>1, MakeEffect
  <1>3. life' = [life EXCEPT ![m] = "up"]
    BY <1>1 DEF Make, MayFail
  <1>4. life'[m] = "up"
    BY <1>2, <1>3 DEF TypeConns
  <1> HIDE DEF m
  <1>5. \A h \in Groups, r \in Services :
          connections'[h][r] = IF h = g /\ r = s THEN m ELSE connections[h][r]
    BY <1>1 DEF TypeConns
  <1>6. ASSUME NEW h \in Groups, NEW r \in Services, connections[h][r] # None
        PROVE  /\ connections'[h][r] = connections[h][r] /\ connections[h][r] \in Conns
               /\ life'[connections[h][r]] = "up" /\ key'[connections[h][r]] = key[connections[h][r]]
    <2>1. connections[h][r] \in Conns /\ life[connections[h][r]] \in {"up", "ended"}
      BY <1>6, InSlot
    <2>2. QED
      BY <1>1, <1>2, <1>5, <1>6, <2>1 DEF SlotsAreUp
  <1>7. m # None /\ \A p \in Programs : p \in Services
    BY <1>2 DEF Services
  <1>8. \A h \in Groups, r \in Services : connections'[h][r] # connections[h][r] =>
          h = g /\ r = s /\ connections[h][r] = None
    BY <1>1, <1>5
  <1>9. ASSUME NEW h \in Groups, NEW r \in Services, connections'[h][r] # None
        PROVE  /\ connections'[h][r] \in Conns /\ life'[connections'[h][r]] = "up"
               /\ r \in Programs => key'[connections'[h][r]].port = rpcPorts[h][r]
               /\ r \in Programs /\ connections'[h][r] # connections[h][r] => pc[b] = "make"
    <2>1. CASE h = g /\ r = s
      <3>1. connections'[h][r] = m /\ key'[m].port = port
        BY <1>2, <1>5, <2>1
      <3>2. QED
        BY <3>1, <1>2, <1>4, <2>1
    <2>2. CASE ~(h = g /\ r = s)
      <3>1. connections'[h][r] = connections[h][r] /\ connections[h][r] # None
        BY <1>5, <1>9, <2>2
      <3>2. /\ connections[h][r] \in Conns /\ life'[connections[h][r]] = "up"
            /\ key'[connections[h][r]] = key[connections[h][r]]
        BY <3>1, <1>6
      <3>3. r \in Programs => key[connections[h][r]].port = rpcPorts[h][r]
        BY <3>1 DEF PortsStand
      <3>4. QED
        BY <3>1, <3>2, <3>3
    <2>3. QED
      BY <2>1, <2>2
  <1>10. connections'[g][s] # None
    BY <1>1, <1>5, <1>7
  <1>11. QED
    BY <1>7, <1>8, <1>9, <1>10 DEF FairSlots

\* An inner step, while nothing goes wrong
LEMMA FairSlotsStep ==
  ASSUME IInv, SlotsAreUp, PortsStand, NEW b \in Actors, Inner(b), trouble = 0, trouble' = 0,
         ForceIsAlone(b)
  PROVE  FairSlots(b) /\ (CreatePortMapper(b) => connections'[GroupOf(b)]["PORTMAP"] # None)
  <1>i. TypePool /\ TypeActors /\ TypeConns /\ OnAGroup /\ MakersAreReady /\ SlotsAreSound /\ Relies(b)
    BY IInvParts DEF IInv
  <1>s. InnerSlots(b)
    BY <1>i, InnerSlotsStep
  <1> DEFINE g == GroupOf(b)
  <1>0. "PORTMAP" \notin Programs /\ \A p \in Programs : p \in Services
    BY DEF Services
  <1>k. \A h \in Groups, s \in Services : connections[h][s] # None => connections[h][s] \in Conns
    BY <1>i DEF TypeConns
  <1>u. \A h \in Groups, p \in Programs : connections[h][p] # None =>
          key[connections[h][p]].port = rpcPorts[h][p]
    BY DEF PortsStand
  <1>1. CASE UNCHANGED <<connections, life, key>>
    <2>1. \A h \in Groups : rpcPorts'[h] = rpcPorts[h] \/ (version[h] = 3 /\ rpcPorts'[h] = registered)
      <3>1. CASE rpcPorts' = rpcPorts
        BY <3>1
      <3>2. CASE UpdateRpcPorts(b)
        <4>1. rpcPorts' = [rpcPorts EXCEPT ![g] = registered] /\ pc[b] = "dump"
          BY <3>2 DEF UpdateRpcPorts
        <4>2. version[g] = 3
          BY <4>1, <1>i DEF Relies, VersionFits
        <4>3. QED
          BY <4>1, <4>2, <1>i DEF TypeConns
      <3>3. QED
        BY <1>s, <3>1, <3>2 DEF InnerSlots
    <2>2. CreatePortMapper(b) => FALSE
      <3>1. ASSUME CreatePortMapper(b) PROVE FALSE
        <4>1. /\ connections' = [connections EXCEPT ![g]["PORTMAP"] = Memory] /\ NoObject
              /\ pc[b] = "makePortmap"
          BY <3>1 DEF CreatePortMapper
        <4>2. connections[g]["PORTMAP"] = None /\ g \in Groups
          BY <4>1, <1>i, BusyOnAGroup DEF MakersAreReady, MakerIsReady, Quiet
        <4>3. connections'[g]["PORTMAP"] = Memory
          BY <4>1, <4>2, <1>i DEF TypeConns, Services
        <4>4. Memory # None
          BY <4>1, MemoryIsFree
        <4>5. QED
          BY <1>1, <4>2, <4>3, <4>4
      <3>2. QED
        BY <3>1
    <2>3. FairSlots(b)
      BY <1>0, <1>1, <1>k, <1>u, <2>1 DEF FairSlots, SlotsAreUp
    <2>4. QED
      BY <2>2, <2>3
  <1>2. CASE ClearPortMapper(b) /\ ClearsSlot(g, "PORTMAP")
    <2>1. g \in Groups /\ connections[g]["PORTMAP"] # None /\ ~Alive(connections[g]["PORTMAP"])
      BY <1>2 DEF ClearPortMapper, ClearsSlot
    <2>2. QED
      BY <2>1 DEF SlotsAreUp, Alive, Services
  <1>3. CASE ClearService(b) /\ ClearsSlot(g, NextOf(b))
    <2>1. /\ g \in Groups /\ connections[g][NextOf(b)] # None /\ todo[b] # {} /\ pc[b] = "service"
          /\ \/ force[b] \/ key[connections[g][NextOf(b)]].port # rpcPorts[g][NextOf(b)]
             \/ ~Alive(connections[g][NextOf(b)])
          /\ rpcPorts' = rpcPorts
      BY <1>3 DEF ClearService, ClearsSlot
    <2>2. NextOf(b) \in Programs
      BY <2>1, <1>i, NextIsLeft
    <2>c. /\ key[connections[g][NextOf(b)]].port = rpcPorts[g][NextOf(b)]
          /\ Alive(connections[g][NextOf(b)])
      BY <2>1, <2>2, <1>0, <1>u DEF SlotsAreUp, Alive
    <2>3. force[b] /\ NextOf(b) # "PORTMAP"
      BY <2>1, <2>2, <2>c, <1>0
    <2>4. QED
      BY <2>1, <2>3, <1>3, <1>i, FairClear DEF CreatePortMapper
  <1>4. CASE CreatePortMapper(b) /\ FillsSlot(g, "PORTMAP", 111)
    <2>1. rpcPorts' = rpcPorts
      BY <1>4 DEF CreatePortMapper
    <2>2. QED
      BY <2>1, <1>4, <1>0, <1>i, FairFill
  <1>5. CASE CreateService(b) /\ FillsSlot(g, NextOf(b), rpcPorts[g][NextOf(b)])
    <2>1. rpcPorts' = rpcPorts /\ pc[b] = "make"
      BY <1>5 DEF CreateService
    <2>2. FairSlots(b)
      BY <2>1, <1>5, <1>0, <1>i, FairFill
    <2>3. QED
      BY <2>1, <2>2 DEF CreatePortMapper
  <1>6. CASE /\ pc[b] = "sent" /\ conn[b] \in Conns /\ life[conn[b]] = "closed"
             /\ Gone(conn[b]) /\ connections' = connections
    <2>1. rpcPorts' = rpcPorts
      BY <1>6, <1>s DEF InnerSlots, UpdateRpcPorts
    <2>2. \A c \in Conns \ {conn[b]} : life'[c] = life[c] /\ key'[c] = key[c]
      BY <1>6, <1>i, GoneEffect
    <2>3. \A h \in Groups, s \in Services : connections[h][s] # None =>
            /\ connections[h][s] \in Conns
            /\ life'[connections[h][s]] = "up" /\ key'[connections[h][s]] = key[connections[h][s]]
      BY <1>6, <1>k, <2>2 DEF SlotsAreUp
    <2>4. FairSlots(b)
      BY <1>0, <1>6, <1>u, <2>1, <2>3 DEF FairSlots
    <2>5. QED
      BY <1>6, <2>4 DEF CreatePortMapper
  <1>7. QED
    BY <1>s, <1>1, <1>2, <1>3, <1>4, <1>5, <1>6 DEF InnerSlots

\* so that the slots stay up and at their ports.
LEMMA FairSlotsKept ==
  ASSUME IInv, AllStands, NEW b \in Actors, Inner(b), trouble = 0, trouble' = 0
  PROVE  SlotsAreUp' /\ PortsStand'
  <1>1. FairSlots(b) /\ UNCHANGED <<version, registered>>
    <2>1. InnerFrame(b)
      BY IInvParts, InnerStep DEF IInv
    <2>2. QED
      BY <2>1, FairSlotsStep DEF AllStands, Stands, InnerFrame, groupVars
  <1>2. SlotsAreUp'
    BY <1>1 DEF FairSlots, SlotsAreUp
  <1>3. ASSUME NEW h \in Groups, NEW p \in Programs, connections'[h][p] # None
        PROVE  /\ key'[connections'[h][p]].port = rpcPorts'[h][p]
               /\ version[h] = 3 => rpcPorts'[h] = registered
    <2>1. version[h] = 3 => rpcPorts[h] = registered
      <3>1. CASE connections'[h][p] = connections[h][p]
        BY <1>3, <3>1 DEF AllStands, PortsStand
      <3>2. CASE connections'[h][p] # connections[h][p]
        BY <1>1, <1>3, <3>2 DEF FairSlots, AllStands, Stands, PortMapperStands
      <3>3. QED
        BY <3>1, <3>2
    <2>2. key'[connections'[h][p]].port = rpcPorts[h][p]
      <3>1. \A i \in Groups, q \in Programs : connections'[i][q] # None =>
              key'[connections'[i][q]].port = rpcPorts[i][q]
        <4>1. FairSlots(b)
          BY <1>1
        <4>2. QED
          BY <4>1, Zenon DEF FairSlots
      <3>2. QED
        BY <1>3, <3>1
    <2>3. rpcPorts'[h] = rpcPorts[h] \/ (version[h] = 3 /\ rpcPorts'[h] = registered)
      BY <1>1 DEF FairSlots
    <2>4. QED
      BY <2>1, <2>2, <2>3
  <1>4. QED
    BY <1>1, <1>2, <1>3 DEF PortsStand

\* The way of an actor through ensureConnection to its connection
LEMMA InnerWay ==
  ASSUME IInv, NEW b \in Actors, Inner(b)
  PROVE  /\ force' = [force EXCEPT ![b] = force'[b]]
         /\ force'[b] => \/ NeedPortMapper(b)
                         \/ force[b] /\ (pc[b] \in Locked \ {"portmap"} => pc'[b] \in Locked \ {"portmap"})
         /\ InUse(b)' => pc[b] = "service" \/ InUse(b)
         /\ pc'[b] = "copy" =>
              /\ conn'[b] = connections[GroupOf(b)][prog[b]] /\ conn'[b] # None
              /\ prog'[b] = prog[b] /\ connections' = connections
         /\ pc'[b] = "sent" => /\ pc[b] = "copy" /\ conn'[b] = conn[b]
                               /\ prog'[b] = prog[b] /\ connections' = connections
         /\ pc'[b] = "dump" => \/ CreatePortMapper(b)
                               \/ connections[GroupOf(b)]["PORTMAP"] # None /\ connections' = connections
         /\ pc'[b] \in {"service", "make"} =>
              pc[b] \in {"service", "make"} \/ UpdateRpcPorts(b) \/ version[GroupOf(b)] # 3
  <1>i. TypePool /\ TypeActors /\ OnAGroup
    BY IInvParts DEF IInv
  <1> USE DEF Goto, Locked, InUse, slotVars, callVars, ensureVars, readVars, TypeActors
  <1>1. CASE Enter(b)
    BY <1>1, <1>i DEF Enter
  <1>2. CASE KeepPortMapper(b) \/ ClearPortMapper(b) \/ NeedPortMapper(b) \/ CreatePortMapper(b)
    BY <1>2, <1>i DEF KeepPortMapper, ClearPortMapper, NeedPortMapper, CreatePortMapper
  <1>3. CASE UpdateRpcPorts(b)
    BY <1>3, <1>i DEF UpdateRpcPorts
  <1>4. CASE KeepService(b) \/ ClearService(b) \/ SkipService(b) \/ NeedService(b) \/ CreateService(b)
    BY <1>4, <1>i DEF KeepService, ClearService, SkipService, NeedService, CreateService
  <1>5. ASSUME NEW ok \in BOOLEAN, Leave(b, ok), pc[b] \in {"dump", "service"},
               ok => pc[b] = "service"
        PROVE  /\ force' = [force EXCEPT ![b] = FALSE]
               /\ pc'[b] \in {"lock", "drop", "idle"} \/ (pc'[b] = "get" /\ pc[b] = "service")
    <2>1. GroupOf(b) \in Groups
      BY <1>5, <1>i, BusyOnAGroup DEF Quiet
    <2>2. QED
      BY <1>5, <1>i, <2>1, LeaveEffect DEF GoesOn
  <1>6. CASE DumpFails(b)
    <2>1. Leave(b, FALSE) /\ pc[b] = "dump"
      BY <1>6 DEF DumpFails
    <2>2. QED
      BY <2>1, <1>5, <1>i
  <1>7. CASE Ensured(b)
    <2>1. Leave(b, TRUE) /\ pc[b] = "service"
      BY <1>7 DEF Ensured
    <2>2. QED
      BY <2>1, <1>5, <1>i
  <1>8. ASSUME NEW ok, Continue(b, GroupOf(b), ok), GroupOf(b) \in Groups
        PROVE  pc'[b] \in {"lock", "drop", "idle"}
    BY <1>8, <1>i, ContinueEffect DEF GoesOn
  <1>9. CASE Get(b)
    <2>1. pc[b] = "get" /\ GroupOf(b) \in Groups /\ UNCHANGED <<force, connections>>
      BY <1>9, <1>i, BusyOnAGroup DEF Get, Quiet
    <2>2. CASE connections[GroupOf(b)][prog[b]] = None
      BY <2>1, <2>2, <1>8, <1>9, <1>i DEF Get
    <2>3. CASE connections[GroupOf(b)][prog[b]] # None
      BY <2>1, <2>3, <1>9, <1>i DEF Get
    <2>4. QED
      BY <2>2, <2>3
  <1>10. CASE Copy(b)
    BY <1>10, <1>i DEF Copy
  <1>11. ASSUME NEW ok \in BOOLEAN, Return(b, ok)
         PROVE  pc[b] = "sent" /\ pc'[b] \in {"lock", "drop", "idle"} /\ force' = force
    <2>1. GroupOf(b) \in Groups
      BY <1>11, <1>i, BusyOnAGroup DEF Return, Quiet
    <2>2. QED
      BY <1>8, <1>11, <2>1 DEF Return
  <1>12. CASE \E ok \in BOOLEAN : Return(b, ok)
    BY <1>11, <1>12, <1>i
  <1>13. CASE b \in Groups /\ (Renew(b) \/ KeepAliveEnds(b))
    BY <1>13, <1>i DEF Renew, KeepAliveEnds, Begin
  <1>14. CASE b \in Threads /\ (Update(b) \/ \E p \in Programs : Call(b, p))
    BY <1>14, <1>i DEF Update, Call, Begin
  <1>15. QED
    BY <1>1, <1>2, <1>3, <1>4, <1>6, <1>7, <1>9, <1>10, <1>12, <1>13, <1>14
       DEF Inner, Ensure, Use

\* The actor's own step
LEMMA OwnStands ==
  ASSUME IInv, AllStands, NEW b \in Actors, Inner(b), trouble = 0, trouble' = 0
  PROVE  Stands(b)'
  <1>i. /\ TypePool /\ TypeActors /\ TypeConns /\ OnAGroup /\ MutexIsHeld /\ Relies(b)
        /\ SlotsAreUp /\ PortsStand /\ Stands(b)
    BY IInvParts DEF IInv, AllStands
  <1>f. InnerFrame(b)
    BY <1>i, InnerStep
  <1>w. /\ UNCHANGED <<version, registered, held>>
        /\ GroupOf(b)' = GroupOf(b)
        /\ \A a \in Actors \ {b} : pc'[a] = pc[a] /\ GroupOf(a)' = GroupOf(a)
        /\ ~Quiet(b) => GroupOf(b) \in Groups
    BY <1>f, <1>i, BusyOnAGroup DEF InnerFrame, groupVars, GroupOf, TypeActors
  <1>s. FairSlots(b) /\ (CreatePortMapper(b) => connections'[GroupOf(b)]["PORTMAP"] # None)
    BY <1>i, FairSlotsStep DEF Stands
  <1> DEFINE g == GroupOf(b)
  <1>1. SlotStands(b)'
    <2>1. CASE pc'[b] = "copy"
      BY <2>1, <1>w, InnerWay DEF SlotStands
    <2>2. CASE pc'[b] = "sent"
      BY <2>2, <1>w, <1>i, InnerWay DEF SlotStands, Stands
    <2>3. QED
      BY <2>1, <2>2 DEF SlotStands
  <1>2. PortMapperStands(b)'
    <2> SUFFICES ASSUME version[g] = 3, InUse(b)' \/ pc'[b] \in {"dump", "service", "make"}
                 PROVE  /\ connections'[g]["PORTMAP"] # None
                        /\ pc'[b] \in {"service", "make"} => rpcPorts'[g] = registered
      BY <1>w DEF PortMapperStands
    <2>1. CASE pc'[b] = "dump"
      BY <2>1, <1>s, InnerWay
    <2>2. CASE pc'[b] # "dump"
      <3>1. /\ pc[b] \in {"service", "make", "dump"} \/ InUse(b)
            /\ pc'[b] \in {"service", "make"} => pc[b] \in {"service", "make"} \/ UpdateRpcPorts(b)
        BY <2>2, InnerWay DEF InUse, UpdateRpcPorts
      <3>2. connections[g]["PORTMAP"] # None /\ g \in Groups
        BY <3>1, <1>i, <1>w DEF Stands, PortMapperStands, InUse, Quiet
      <3>3. connections'[g]["PORTMAP"] # None
        BY <3>2, <1>s DEF FairSlots, Services
      <3>4. ASSUME pc'[b] \in {"service", "make"} PROVE rpcPorts'[g] = registered
        <4>1. CASE pc[b] \in {"service", "make"}
          BY <4>1, <3>2, <1>s, <1>i DEF Stands, PortMapperStands, FairSlots
        <4>2. CASE UpdateRpcPorts(b)
          BY <4>2, <3>2, <1>i DEF UpdateRpcPorts, TypeConns
        <4>3. QED
          BY <3>1, <3>4, <4>1, <4>2
      <3>5. QED
        BY <3>3, <3>4
    <2>3. QED
      BY <2>1, <2>2
  <1>3. ForceIsAlone(b)'
    <2> SUFFICES ASSUME force'[b]
                 PROVE  /\ pc'[b] \in Locked \ {"portmap"} /\ version[g] = 3
                        /\ \A a \in Actors : InUse(a)' => GroupOf(a) # g
      BY <1>w DEF ForceIsAlone
    <2>1. CASE NeedPortMapper(b)
      <3>1. /\ pc[b] = "portmap" /\ connections[g]["PORTMAP"] = None
            /\ pc' = [pc EXCEPT ![b] = "makePortmap"]
        BY <2>1 DEF NeedPortMapper, Goto
      <3>2. version[g] = 3 /\ pc'[b] = "makePortmap"
        BY <3>1, <1>i DEF Relies, VersionFits, TypeActors
      <3>3. ASSUME NEW a \in Actors, InUse(a)' PROVE GroupOf(a) # g
        <4>1. a # b /\ InUse(a)
          BY <3>2, <3>3, <1>w DEF InUse
        <4>2. QED
          BY <4>1, <3>1, <3>2 DEF AllStands, Stands, PortMapperStands
      <3>4. QED
        BY <3>2, <3>3 DEF Locked
    <2>2. CASE force[b] /\ (pc[b] \in Locked \ {"portmap"} => pc'[b] \in Locked \ {"portmap"})
      <3>1. /\ pc'[b] \in Locked \ {"portmap"} /\ version[g] = 3
            /\ \A a \in Actors : InUse(a) => GroupOf(a) # g
        BY <2>2, <1>i DEF Stands, ForceIsAlone
      <3>2. ASSUME NEW a \in Actors, InUse(a)' PROVE GroupOf(a) # g
        BY <3>1, <3>2, <1>w DEF InUse, Locked
      <3>3. QED
        BY <3>1, <3>2
    <2>3. QED
      BY <2>1, <2>2, InnerWay
  <1>4. QED
    BY <1>1, <1>2, <1>3 DEF Stands

\* Another's step: it clears no slot that the actor is to use, for whoever forces is alone.
LEMMA OthersStand ==
  ASSUME IInv, AllStands, NEW a \in Actors, NEW b \in Actors, a # b, Inner(b),
         trouble = 0, trouble' = 0
  PROVE  Stands(a)'
  <1>i. /\ TypePool /\ TypeActors /\ TypeConns /\ OnAGroup /\ MutexIsHeld
        /\ SlotsAreUp /\ PortsStand /\ Stands(a) /\ Stands(b) /\ Relies(a)
    BY IInvParts DEF IInv, AllStands
  <1>f. InnerFrame(b)
    BY <1>i, InnerStep
  <1>w. /\ UNCHANGED <<version, registered, held>>
        /\ pc'[a] = pc[a] /\ prog'[a] = prog[a] /\ conn'[a] = conn[a] /\ force'[a] = force[a]
        /\ \A c \in Actors : GroupOf(c)' = GroupOf(c)
        /\ \A c \in Actors \ {b} : pc'[c] = pc[c]
    BY <1>f, <1>i, InnerWay DEF InnerFrame, groupVars, GroupOf, TypeActors
  <1>g. ~Quiet(a) => GroupOf(a) \in Groups /\ prog[a] \in Programs
    BY <1>i, BusyOnAGroup DEF TypeActors
  <1>s. FairSlots(b)
    BY <1>i, FairSlotsStep DEF Stands
  <1> DEFINE g == GroupOf(a)
  <1>1. SlotStands(a)'
    <2> SUFFICES ASSUME pc[a] \in {"copy", "sent"}
                 PROVE  connections'[g][prog[a]] = connections[g][prog[a]]
      BY <1>w, <1>i DEF SlotStands, Stands
    <2>1. /\ g \in Groups /\ prog[a] \in Services /\ connections[g][prog[a]] # None
          /\ force[b] => GroupOf(b) # g
      BY <1>g, <1>i DEF Quiet, Stands, SlotStands, ForceIsAlone, InUse, Services
    <2>2. QED
      BY <2>1, <1>s DEF FairSlots
  <1>2. PortMapperStands(a)'
    <2> SUFFICES ASSUME version[g] = 3, InUse(a) \/ pc[a] \in {"dump", "service", "make"}
                 PROVE  /\ connections'[g]["PORTMAP"] # None
                        /\ pc[a] \in {"service", "make"} => rpcPorts'[g] = registered
      BY <1>w DEF PortMapperStands, InUse
    <2>1. /\ g \in Groups /\ connections[g]["PORTMAP"] # None
          /\ pc[a] \in {"service", "make"} => rpcPorts[g] = registered
      BY <1>g, <1>i DEF Quiet, Stands, PortMapperStands, InUse
    <2>2. QED
      BY <2>1, <1>s DEF FairSlots, Services
  <1>3. ForceIsAlone(a)'
    <2> SUFFICES ASSUME force[a]
                 PROVE  /\ pc[a] \in Locked \ {"portmap"} /\ version[g] = 3
                        /\ \A c \in Actors : InUse(c)' => GroupOf(c) # g
      BY <1>w DEF ForceIsAlone
    <2>1. /\ pc[a] \in Locked \ {"portmap"} /\ version[g] = 3
          /\ \A c \in Actors : InUse(c) => GroupOf(c) # g
      BY <1>i DEF Stands, ForceIsAlone
    <2>2. ASSUME NEW c \in Actors, InUse(c)' PROVE GroupOf(c) # g
      <3>1. CASE InUse(c)
        BY <2>1, <3>1
      <3>2. CASE ~InUse(c)
        <4>1. c = b
          BY <2>2, <3>2, <1>w DEF InUse
        <4>2. pc[b] = "service"
          BY <2>2, <3>2, <4>1, InnerWay
        <4>3. g \in Groups
          BY <2>1, <1>g DEF Quiet, Locked
        <4>4. QED
          BY <2>1, <4>1, <4>2, <4>3, <1>i, Exclusion DEF Locked
      <3>3. QED
        BY <3>1, <3>2
    <2>3. QED
      BY <2>1, <2>2
  <1>4. QED
    BY <1>1, <1>2, <1>3 DEF Stands

\* A step that leaves alone whoever is engaged, and his group
Aside ==
  /\ UNCHANGED <<conn, force>> /\ registered' = registered
  /\ \A a \in Actors : \/ ~Engaged(a) /\ ~Engaged(a)'
                       \/ UNCHANGED <<pc[a], prog[a]>> /\ GroupOf(a)' = GroupOf(a)
  /\ \A a \in Actors : Engaged(a) =>
       UNCHANGED <<version[GroupOf(a)], connections[GroupOf(a)], rpcPorts[GroupOf(a)]>>
  /\ \A h \in Groups, s \in Services : connections'[h][s] # None =>
       /\ connections'[h][s] = connections[h][s]
       /\ UNCHANGED <<life[connections[h][s]], key[connections[h][s]], rpcPorts[h], version[h]>>

\* leaves everybody with what he had.
LEMMA AsideStands ==
  ASSUME AllStands, Aside
  PROVE  AllStands'
  <1>1. SlotsAreUp' /\ PortsStand'
    BY DEF AllStands, SlotsAreUp, PortsStand, Aside, Services
  <1>2. ASSUME NEW a \in Actors PROVE Stands(a)'
    <2>i. Stands(a)
      BY DEF AllStands
    <2>1. CASE ~Engaged(a) /\ ~Engaged(a)'
      <3>1. ~force[a]
        BY <2>1, <2>i DEF Stands, ForceIsAlone, Engaged
      <3>2. QED
        BY <2>1, <3>1 DEF Aside, Stands, SlotStands, PortMapperStands, ForceIsAlone, Engaged, InUse, Locked
    <2>2. CASE Engaged(a) /\ UNCHANGED <<pc[a], prog[a]>> /\ GroupOf(a)' = GroupOf(a)
      <3>1. /\ UNCHANGED <<pc[a], prog[a], conn[a], force[a], registered>> /\ GroupOf(a)' = GroupOf(a)
            /\ UNCHANGED <<version[GroupOf(a)], connections[GroupOf(a)], rpcPorts[GroupOf(a)]>>
        BY <2>2 DEF Aside
      <3>2. SlotStands(a)' /\ PortMapperStands(a)'
        BY <3>1, <2>i DEF Stands, SlotStands, PortMapperStands, InUse
      <3>3. ASSUME NEW c \in Actors, InUse(c)' PROVE InUse(c) /\ GroupOf(c)' = GroupOf(c)
        BY <3>3 DEF Aside, Engaged, InUse
      <3>4. ForceIsAlone(a)'
        BY <3>1, <3>3, <2>i DEF Stands, ForceIsAlone
      <3>5. QED
        BY <3>2, <3>4 DEF Stands
    <2>3. CASE ~Engaged(a) /\ UNCHANGED <<pc[a], prog[a]>> /\ GroupOf(a)' = GroupOf(a)
      <3>1. ~force[a] /\ ~Engaged(a)'
        BY <2>3, <2>i DEF Stands, ForceIsAlone, Engaged, InUse
      <3>2. QED
        BY <2>3, <3>1 DEF Aside, Stands, SlotStands, PortMapperStands, ForceIsAlone, Engaged, InUse, Locked
    <2>4. QED
      BY <2>1, <2>2, <2>3 DEF Aside
  <1>3. QED
    BY <1>1, <1>2 DEF AllStands

\* What a thread does to the pool is aside.
LEMMA PoolAside ==
  ASSUME IInv, NEW t \in Threads, PoolWork(t)
  PROVE  Aside
  <1>i. /\ TypePool /\ TypeActors /\ TypeConns /\ OnAGroup /\ SlotsAreSound /\ DestroyersAreAlone
    BY IInvParts DEF IInv
  <1>t. t \in Actors /\ t \notin Groups
    BY DEF Actors
  <1>e. \A a \in Actors : Engaged(a) => GroupOf(a) \in Groups /\ ip[GroupOf(a)] # None
    BY <1>i, BusyOnAGroup DEF Engaged, InUse, Locked, Quiet
  <1>1. ASSUME UNCHANGED <<conn, force, registered, connections, life, key, rpcPorts, version>>,
               pc' = [pc EXCEPT ![t] = pc'[t]], held' = [held EXCEPT ![t] = held'[t]],
               prog' = [prog EXCEPT ![t] = prog'[t]], ~Engaged(t), ~Engaged(t)'
        PROVE  Aside
    BY <1>1, <1>i, <1>t DEF Aside, TypeActors, TypePool, GroupOf, Actors
  <1>2. CASE \/ RemoveFromPool(t) \/ Fini(t) \/ FiniEnds(t) \/ Drop(t)
             \/ \E s \in Servers : TakeOut(t, s) \/ Find(t, s)
    <2>1. /\ UNCHANGED <<conn, force, registered, connections, life, key, rpcPorts, version>>
          /\ pc' = [pc EXCEPT ![t] = pc'[t]] /\ held' = [held EXCEPT ![t] = held'[t]]
          /\ prog' = [prog EXCEPT ![t] = prog'[t]]
          /\ pc[t] \in {"idle", "fini", "drop"} /\ pc'[t] \in {"idle", "fini", "destroy"}
      BY <1>2, <1>i, <1>t DEF RemoveFromPool, Fini, FiniEnds, Drop, TakeOut, Find, Destruct, Done, Goto,
         poolVars, groupVars, slotVars, connVars, callVars, ensureVars, readVars, TypePool, TypeActors
    <2>2. ~Engaged(t) /\ ~Engaged(t)'
      BY <2>1 DEF Engaged, InUse, Locked
    <2>3. QED
      BY <2>1, <2>2, <1>1
  <1>3. CASE Founding(t)
    <2>1. PICK g \in Groups, s \in Servers : Founds(t, g, s)
      BY <1>3 DEF Founding
    <2>2. PICK v \in {3, 4}, to \in {"idle", "off"} :
            /\ version' = [version EXCEPT ![g] = v]
            /\ rpcPorts' = [rpcPorts EXCEPT
                             ![g] = IF v = 4 THEN [NoPorts EXCEPT !["NFS"] = Nfs4Port] ELSE NoPorts]
            /\ pc' = [pc EXCEPT ![t] = "lock", ![g] = to]
      BY <2>1 DEF Founds
    <2>3. /\ UNCHANGED <<conn, force, registered, connections, life, key, prog>>
          /\ held' = [held EXCEPT ![t] = g] /\ ip[g] = None /\ pc[t] = "idle" /\ pc[g] = "off"
      BY <2>1 DEF Founds, connVars, ensureVars, readVars
    <2>4. g \in Actors /\ g # t
      BY <1>t DEF Actors
    <2>5. \A a \in Actors : pc'[a] = IF a = t THEN "lock" ELSE IF a = g THEN to ELSE pc[a]
      BY <2>2, <2>4, <1>i DEF TypeActors
    <2>6. ASSUME NEW a \in Actors
          PROVE  \/ ~Engaged(a) /\ ~Engaged(a)'
                 \/ UNCHANGED <<pc[a], prog[a]>> /\ GroupOf(a)' = GroupOf(a)
      <3>1. CASE a \in {t, g}
        BY <2>3, <2>5, <3>1 DEF Engaged, InUse, Locked
      <3>2. CASE a \notin {t, g}
        BY <2>3, <2>5, <3>2, <1>i DEF GroupOf, TypePool, Actors
      <3>3. QED
        BY <3>1, <3>2
    <2>7. ASSUME NEW h \in Groups, h # g PROVE UNCHANGED <<version[h], rpcPorts[h], connections[h]>>
      BY <2>2, <2>3, <2>7, <1>i DEF TypePool, TypeConns
    <2>8. \A s1 \in Services : connections[g][s1] = None
      BY <2>3, <1>i DEF SlotsAreSound
    <2>9. \A a \in Actors : Engaged(a) => GroupOf(a) \in Groups /\ GroupOf(a) # g
      BY <2>3, <1>e
    <2>10. QED
      BY <2>3, <2>6, <2>7, <2>8, <2>9 DEF Aside
  <1>4. CASE Destroy(t)
    <2> DEFINE g == held[t]
               cs == {connections[g][s] : s \in Services}
    <2>1. /\ g \in Groups /\ pc[t] = "destroy" /\ pc[g] = "off"
          /\ Cleared(cs)
          /\ connections' = [connections EXCEPT ![g] = [s \in Services |-> None]]
          /\ version' = [version EXCEPT ![g] = 3] /\ rpcPorts' = [rpcPorts EXCEPT ![g] = NoPorts]
          /\ held' = [held EXCEPT ![t] = None]
          /\ pc' = [pc EXCEPT ![t] = IF tableLock = t THEN "fini" ELSE "idle"]
          /\ prog' = [prog EXCEPT ![t] = "NFS"]
          /\ UNCHANGED <<conn, force, registered>>
      BY <1>4, <1>i DEF Destroy, Destroyed, TypePool, OnAGroup, Quiet, ensureVars, readVars
    <2>2. \A a \in Actors : \/ ~Engaged(a) /\ ~Engaged(a)'
                            \/ UNCHANGED <<pc[a], prog[a]>> /\ GroupOf(a)' = GroupOf(a)
      <3>1. ~Engaged(t) /\ ~Engaged(t)'
        BY <2>1, <1>t, <1>i DEF Engaged, InUse, Locked, TypeActors
      <3>2. \A a \in Actors \ {t} : UNCHANGED <<pc[a], prog[a]>> /\ GroupOf(a)' = GroupOf(a)
        BY <2>1, <1>i DEF TypeActors, TypePool, GroupOf, Actors
      <3>3. QED
        BY <3>1, <3>2
    <2>3. ASSUME NEW a \in Actors, Engaged(a) PROVE GroupOf(a) \in Groups /\ GroupOf(a) # g
      BY <2>1, <2>3, <1>e, <1>i DEF DestroyersAreAlone, GroupOf, Actors, Engaged, InUse, Locked
    <2>4. \A h \in Groups \ {g} : UNCHANGED <<version[h], rpcPorts[h], connections[h]>>
      BY <2>1, <1>i DEF TypePool, TypeConns
    <2>5. \A s \in Services : connections'[g][s] = None
      BY <2>1, <1>i DEF TypeConns
    <2>6. \A c \in Conns \cap cs : life[c] # "none"
      BY <2>1, <1>i DEF SlotsAreSound
    <2>7. \A c \in Conns \ cs : life'[c] = life[c] /\ key'[c] = key[c]
      <3> HIDE DEF cs
      <3> QED
        BY <2>1, <2>6, <1>i, ClearedEffect
    <2>8. ASSUME NEW h \in Groups \ {g}, NEW s \in Services, connections[h][s] # None
          PROVE  connections[h][s] \in Conns \ cs
      <3>1. /\ connections[h][s] \in Conns
            /\ \A r \in Services : connections[g][r] # connections[h][s]
        BY <2>1, <2>8, <1>i, InSlot
      <3>2. QED
        BY <3>1
    <2>9. ASSUME NEW h \in Groups, NEW s \in Services, connections'[h][s] # None
          PROVE  /\ connections'[h][s] = connections[h][s]
                 /\ UNCHANGED <<life[connections[h][s]], key[connections[h][s]], rpcPorts[h], version[h]>>
      <3>1. h # g /\ connections'[h][s] = connections[h][s]
        BY <2>4, <2>5, <2>9
      <3>2. QED
        BY <2>4, <2>7, <2>8, <2>9, <3>1
    <2> HIDE DEF g, cs
    <2>10. QED
      BY <2>1, <2>2, <2>3, <2>4, <2>9 DEF Aside
  <1>5. QED
    BY <1>2, <1>3, <1>4, <1>i, FoundingSteps DEF PoolWork

\* The manager works on connections that are in no slot; faults are not considered.
LEMMA EnvironmentAside ==
  ASSUME IInv, Environment \/ UNCHANGED vars, trouble = 0, trouble' = 0
  PROVE  Aside
  <1>i. TypePool /\ TypeActors /\ TypeConns /\ SlotsAreSound
    BY IInvParts DEF IInv
  <1>1. UNCHANGED <<conn, force, pc, prog, held, version, connections, rpcPorts>>
    BY EnvironmentStep DEF Environs, vars, groupVars, slotVars, callVars, ensureVars, readVars
  <1>2. /\ registered' = registered
        /\ \A c \in Conns : life[c] = "cleared" \/ UNCHANGED <<life[c], key[c]>>
    <2>1. CASE UNCHANGED vars
      BY <2>1 DEF vars, connVars
    <2>2. CASE Move \/ \E c \in Conns : End(c)
      BY <2>2 DEF Move, End, MayFail
    <2>3. ASSUME NEW c \in Conns, Manage(c)
          PROVE  registered' = registered /\ \A d \in Conns \ {c} : UNCHANGED <<life[d], key[d]>>
      BY <2>3, <1>i DEF Manage, Gone, TypeConns
    <2>4. \A c \in Conns : Manage(c) => life[c] = "cleared"
      BY DEF Manage
    <2>5. QED
      BY <2>1, <2>2, <2>3, <2>4 DEF Environment
  <1>3. ASSUME NEW h \in Groups, NEW s \in Services, connections[h][s] # None
        PROVE  UNCHANGED <<life[connections[h][s]], key[connections[h][s]]>>
    <2>1. connections[h][s] \in Conns /\ life[connections[h][s]] \in {"up", "ended"}
      BY <1>3, <1>i, InSlot
    <2>2. QED
      BY <2>1, <1>1, <1>2
  <1>4. QED
    BY <1>1, <1>2, <1>3 DEF Aside, GroupOf

\* Faults are not taken back.
LEMMA TroubleStays ==
  ASSUME IInv, [Next]_vars, trouble' = 0
  PROVE  trouble = 0
  <1>i. TypePool /\ TypeActors /\ TypeConns /\ OnAGroup /\ MakersAreReady
    BY IInvParts DEF IInv
  <1>n. trouble \in Nat
    BY <1>i DEF TypeConns
  <1>1. ASSUME NEW a \in Actors, Inner(a) PROVE trouble = 0
    <2>1. InnerSlots(a)
      BY <1>1, <1>i, InnerSlotsStep
    <2>2. trouble' \in {trouble, trouble + 1}
      BY <2>1 DEF InnerSlots
    <2>3. QED
      BY <2>2, <1>n
  <1>2. ASSUME NEW t \in Threads, PoolWork(t) PROVE trouble = 0
    <2>1. CASE Founding(t)
      BY <2>1 DEF Founding, Founds
    <2>2. CASE Destroy(t)
      <3>1. UNCHANGED trouble
        BY <2>2 DEF Destroy, Destroyed
      <3>2. QED
        BY <3>1
    <2>3. QED
      BY <1>2, <1>i, <2>1, <2>2, PoolSlots
  <1>3. CASE Environment \/ UNCHANGED vars
    BY <1>3, <1>n DEF Environment, Move, End, Manage, MayFail, vars
  <1>4. QED
    BY <1>1, <1>2, <1>3, NextSteps

\* ensureConnection and initNfs: as long as the server stays as it is and no connection
\* fails, no call has its connection cleared under it, whoever initialises or ensures the
\* group's connections meanwhile, and with whatever bForceRecreate.
THEOREM UndisturbedCallsAreUncut == Spec => []UndisturbedIsUncut
  <1>1. Init => Undisturbed
    <2> SUFFICES ASSUME Init PROVE AllStands
      BY DEF Undisturbed
    <2>1. SlotsAreUp /\ PortsStand
      BY DEF Init, SlotsAreUp, PortsStand, Services
    <2>2. ASSUME NEW a \in Actors PROVE ~Engaged(a) /\ ~force[a]
      BY DEF Init, Engaged, InUse, Locked
    <2>3. QED
      BY <2>1, <2>2 DEF AllStands, Stands, SlotStands, PortMapperStands, ForceIsAlone, Engaged, InUse,
         Locked
  <1>2. IInv /\ Undisturbed /\ [Next]_vars => Undisturbed'
    <2> SUFFICES ASSUME IInv, Undisturbed, [Next]_vars, trouble' = 0 PROVE AllStands'
      BY DEF Undisturbed
    <2>1. trouble = 0 /\ AllStands
      BY TroubleStays DEF Undisturbed
    <2>2. ASSUME NEW b \in Actors, Inner(b) PROVE AllStands'
      <3>1. \A a \in Actors : Stands(a)'
        BY <2>1, <2>2, OwnStands, OthersStand
      <3>2. QED
        BY <2>1, <2>2, <3>1, FairSlotsKept DEF AllStands
    <2>3. QED
      BY <2>1, <2>2, NextSteps, PoolAside, EnvironmentAside, AsideStands
  <1>3. IInv /\ Undisturbed => UndisturbedIsUncut
    <2> SUFFICES ASSUME IInv, AllStands, NEW a \in Actors, pc[a] = "sent"
                 PROVE  life[conn[a]] = "up"
      BY DEF Undisturbed, UndisturbedIsUncut
    <2>1. GroupOf(a) \in Groups /\ prog[a] \in Services
      BY IInvParts, BusyOnAGroup DEF IInv, TypeActors, Services, Quiet
    <2>2. QED
      BY <2>1 DEF AllStands, Stands, SlotStands, SlotsAreUp
  <1>4. QED
    BY <1>1, <1>2, <1>3, IInvAlways, PTL DEF Spec
=============================================================================
