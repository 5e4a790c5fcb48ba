-------------------------------- MODULE Services --------------------------------
(* Service.cpp, FileWatcher.cpp and what MonaServer.cpp does with them: the       *)
(* applications of the server, a tree of services that follows the folders of www, *)
(* built when they are first asked for.  A service watches its file main.lua,       *)
(* loads it in an environment of Lua and says to the other servers that it runs.    *)
(* Environments make a tree of their own, in Lua, and name their service.            *)
EXTENDS Integers, Sequences, FiniteSets, Functions

CONSTANTS
    Paths,     \* sequences of names of folders, with their beginnings
    Versions,  \* of a file, positive numbers
    Failing,   \* the versions that give an error when they are loaded
    Clients,
    MaxIds,    \* bound on the services built
    MaxChanges \* bound on the changes of folders and files

ServiceAssumption ==
    /\ <<>> \in Paths /\ \A p \in Paths : p \in Seq(Range(p))
    /\ \A p \in Paths : \A n \in 0 .. Len(p) : SubSeq(p, 1, n) \in Paths
    /\ Versions \subseteq Nat \ {0} /\ Failing \subseteq Versions
    /\ MaxIds \in Nat /\ MaxChanges \in Nat

None == <<>>
Root == <<>>
Upper(path) == {SubSeq(path, 1, n) : n \in 0 .. Len(path)}
Below(path) == {p \in Paths : path \in Upper(p)}
Parent(path) == SubSeq(path, 1, Len(path) - 1)

VARIABLES
    folders, \* the folders of www that exist
    scripts, \* the version of main.lua of each, 0 if there is none
    changes, \* how many there were
    up,      \* whether the server runs
    w        \* what the server holds:
             \*   services: of each path, with an identity, what was seen of its file
             \*     (_lastModified, _exists), when (_delay), _loaded and lastError
             \*   envs: of each path, the service it names ("this" and "|service") and
             \*     the version whose functions it has, 0 for none
             \*   running: _servicesRunning
             \*   clients: of each, the service it shares, None if it is not connected
             \*   linked: whether another server is connected; told: what it knows to run
             \*   next: the number of services built
             \*   skipped: history: a service was opened before one that is above it
             \*   strayed: a script was answered by a service that had been deleted, after
             \*     which nothing is known

diskVars == <<folders, scripts, changes>>
vars == <<diskVars, up, w>>

-----------------------------------------------------------------------------
Ref(world, path) == [path |-> path, id |-> world.services[path].id]
Exists(world, path) == world.services[path] # None
IsAlive(world, ref) == Exists(world, ref.path) /\ world.services[ref.path].id = ref.id
NewService(id) == [id |-> id, seen |-> 0, exists |-> FALSE, recent |-> FALSE, loaded |-> FALSE, error |-> FALSE]

(* Service::open: the environments of a path and of those above it, which name the    *)
(* service that made them: when a path is asked for first, this one is below.            *)
Open(world, path) ==
    [world EXCEPT
        !.envs = [p \in Paths |->
            IF p \in Upper(path) /\ @[p] = None THEN [by |-> Ref(world, path), content |-> 0] ELSE @[p]],
        !.skipped = @ \/ \E p \in Upper(path) \ {path} : world.envs[p] = None]

(* MonaServer::stopService, for those of these paths that are opened. *)
Withdrawn(world, paths) == world.running \ {Ref(world, p) : p \in {q \in paths : world.envs[q] # None}}

(* Variant: the application is not told of the service that stops. *)
CloseUntold(world, path) ==
    [world EXCEPT !.envs[path] = IF @ = None THEN @ ELSE [@ EXCEPT !.content = 0],
                  !.services[path] = [@ EXCEPT !.loaded = FALSE, !.error = FALSE]]

(* Service::close(false): the service stops and its environment is emptied. *)
Close(world, path) ==
    [world EXCEPT !.running = Withdrawn(world, {path}),
                  !.envs[path] = IF @ = None THEN @ ELSE [@ EXCEPT !.content = 0],
                  !.services[path] = [@ EXCEPT !.loaded = FALSE, !.error = FALSE]]

(* Service::loadFile and MonaServer::startService. *)
Load(world, path) ==
    LET opened == Open(world, path)
        version == scripts[path]
    IN  IF version \in Failing
        THEN [opened EXCEPT !.services[path] = [@ EXCEPT !.error = TRUE], !.envs[path] = [@ EXCEPT !.content = 0]]
        ELSE [opened EXCEPT !.services[path] = [@ EXCEPT !.error = FALSE, !.loaded = TRUE],
                            !.envs[path] = [@ EXCEPT !.content = version],
                            !.running = @ \cup {Ref(world, path)},
                            !.told = IF world.linked THEN @ \cup {path} ELSE @]

(* FileWatcher::watchFile: at most once in a while, the file that has changed is     *)
(* unloaded and loaded again.  The date of a file that is gone is the one that           *)
(* FilePath had for it (FilePath.cpp:49, FileSystem.cpp:72): nothing is seen of that.    *)
Watch(world, path) ==
    LET s == world.services[path]
        stamp == IF scripts[path] > 0 THEN scripts[path] ELSE s.seen
        closed == IF s.seen > 0 THEN Close(world, path) ELSE world
        stamped == [closed EXCEPT !.services[path] = [@ EXCEPT !.recent = TRUE, !.seen = stamp, !.exists = TRUE]]
    IN  IF s.recent THEN world
        ELSE IF stamp = s.seen THEN [world EXCEPT !.services[path] = [@ EXCEPT !.recent = TRUE]]
        ELSE Load(stamped, path)

(* Service::~Service and close(true): nobody has it any more (expire); those below it, *)
(* then itself, stop while they have their environment, which is deleted with all below. *)
Delete(world, path) ==
    LET gone == {p \in Below(path) : Exists(world, p)} IN
    [world EXCEPT
        !.running = Withdrawn(world, gone),
        !.envs = [p \in Paths |-> IF p \in Below(path) THEN None ELSE @[p]],
        !.services = [p \in Paths |-> IF p \in gone THEN None ELSE @[p]],
        !.clients = [c \in Clients |-> IF @[c] # None /\ @[c].path \in gone THEN [@[c] EXCEPT !.id = 0] ELSE @[c]]]

(* Service::get: the services of a path are built, the last one is watched and is     *)
(* deleted if it has neither a file nor a folder.  The world then, and whether it was  *)
(* found.                                                                                *)
Get(world, path) ==
    LET missing == {p \in Upper(path) : ~Exists(world, p)}
        built == [world EXCEPT !.services = [p \in Paths |-> IF p \in missing THEN NewService(world.next + Len(path) - Len(p)) ELSE @[p]],
                               !.next = @ + Cardinality(missing)]
        watched == Watch(built, path)
    IN  IF watched.services[path].exists \/ path \in folders THEN [found |-> TRUE, world |-> watched]
        ELSE [found |-> FALSE, world |-> IF path = Root THEN watched ELSE Delete(watched, path)]

(* The result of get is opened (openService, onHandshake, onServerMessage).            *)
Opened(got, path) == IF got.found THEN Open(got.world, path) ELSE got.world

(* The bound on the services. *)
Fits(path) == w.next + Cardinality({p \in Upper(path) : ~Exists(w, p)}) <= MaxIds

-----------------------------------------------------------------------------
Init ==
    /\ folders \in {{Root}, Paths} /\ scripts = [p \in Paths |-> 0] /\ changes = 0 /\ up = FALSE
    /\ w = [services |-> [p \in Paths |-> None], envs |-> [p \in Paths |-> None], running |-> {},
            clients |-> [c \in Clients |-> None], linked |-> FALSE, told |-> {}, next |-> 1,
            skipped |-> FALSE, strayed |-> FALSE]

(* Someone changes the folders and the files of the applications. *)
Change == changes < MaxChanges /\ changes' = changes + 1 /\ UNCHANGED <<up, w>>
ChangeFile == /\ Change
              /\ \E p \in folders, v \in {0} \cup Versions : scripts' = [scripts EXCEPT ![p] = v]
              /\ UNCHANGED folders
MakeFolder == /\ Change
              /\ \E p \in Paths \ {Root} : Parent(p) \in folders /\ folders' = folders \cup {p}
              /\ UNCHANGED scripts
RemoveFolder ==
    /\ Change
    /\ \E p \in folders \ {Root} : /\ folders' = folders \ Below(p)
                                   /\ scripts' = [q \in Paths |-> IF q \in Below(p) THEN 0 ELSE scripts[q]]

(* MonaServer::onStart and onStop. *)
Start ==
    /\ ~up /\ w.next < MaxIds /\ up' = TRUE
    /\ w' = Watch([w EXCEPT !.services[Root] = NewService(w.next), !.next = @ + 1], Root)
    /\ UNCHANGED diskVars
Stop ==
    /\ up /\ \A c \in Clients : w.clients[c] = None
    /\ up' = FALSE
    /\ w' = [Delete(w, Root) EXCEPT !.linked = FALSE, !.told = {}]
    /\ UNCHANGED diskVars

(* Time passes: every service may look at its file again. *)
Elapse ==
    /\ w' = [w EXCEPT !.services = [p \in Paths |-> IF @[p] = None THEN None ELSE [@[p] EXCEPT !.recent = FALSE]]]
    /\ UNCHANGED <<diskVars, up>>

(* MonaServer::manage. *)
Manage == /\ up /\ w' = Open(Watch(w, Root), Root)
          /\ UNCHANGED <<diskVars, up>>

(* onHandshake of RTMFP, and onServerMessage for each service of another server: any   *)
(* path, whether those above it were asked for or not.                                    *)
Ask == /\ up /\ \E p \in Paths : Fits(p) /\ w' = Opened(Get(w, p), p)
       /\ UNCHANGED <<diskVars, up>>

(* Children: a script asks its environment for a child, which the service that it names *)
(* looks for, below itself, though it was deleted.                                         *)
AskChild ==
    /\ up
    /\ \E p \in Paths \ {Root} :
          LET env == w.envs[Parent(p)]
              path == Append(env.by.path, p[Len(p)])
          IN  /\ env # None
              /\ IF IsAlive(w, env.by) THEN path \in Paths /\ Fits(path) /\ w' = Opened(Get(w, path), path)
                 ELSE w' = [w EXCEPT !.strayed = TRUE]
    /\ UNCHANGED <<diskVars, up>>

(* onConnection: a client shares the service, unless its script rejects it or did not *)
(* load.                                                                                *)
Connect ==
    /\ up
    /\ \E c \in Clients, p \in Paths, accepts \in BOOLEAN :
          LET got == Get(w, p)
              opened == Opened(got, p)
          IN  /\ w.clients[c] = None /\ Fits(p)
              /\ w' = IF got.found /\ accepts /\ ~opened.services[p].error
                      THEN [opened EXCEPT !.clients[c] = Ref(opened, p)] ELSE opened
    /\ UNCHANGED <<diskVars, up>>

(* onMessage, onRead, onPublish (openService) and onDisconnection: the service, if it  *)
(* has not expired, is opened.                                                            *)
Expired(c) == w.clients[c].id = 0
ClientCalls == /\ \E c \in Clients : w.clients[c] # None /\ ~Expired(c) /\ w' = Open(w, w.clients[c].path)
               /\ UNCHANGED <<diskVars, up>>
Disconnect ==
    /\ \E c \in Clients : /\ w.clients[c] # None
                          /\ w' = [IF Expired(c) THEN w ELSE Open(w, w.clients[c].path) EXCEPT !.clients[c] = None]
    /\ UNCHANGED <<diskVars, up>>

(* onServerConnection: a server is told of all that runs; it may leave. *)
Link == /\ up /\ ~w.linked /\ w' = Open([w EXCEPT !.linked = TRUE, !.told = {r.path : r \in w.running}], Root)
        /\ UNCHANGED <<diskVars, up>>
Unlink == /\ up /\ w.linked /\ w' = Open([w EXCEPT !.linked = FALSE, !.told = {}], Root)
          /\ UNCHANGED <<diskVars, up>>

Next == \/ ChangeFile \/ MakeFolder \/ RemoveFolder \/ Start \/ Stop \/ Elapse \/ Manage \/ Ask \/ AskChild
        \/ Connect \/ ClientCalls \/ Disconnect \/ Link \/ Unlink

Spec == Init /\ [][Next]_vars

-----------------------------------------------------------------------------
TypeOK ==
    /\ Root \in folders /\ folders \subseteq Paths /\ scripts \in [Paths -> {0} \cup Versions] /\ up \in BOOLEAN
    /\ w.told \subseteq Paths /\ w.next \in Nat /\ w.linked \in BOOLEAN

(* The services that the application counts as running, and tells the other servers   *)
(* of, are those that loaded their file and still exist; a client's service exists, or *)
(* is known to have expired; what an environment has is of the version its service     *)
(* last saw.                                                                              *)
RunningLoaded ==
    /\ w.running = {Ref(w, p) : p \in {q \in Paths : Exists(w, q) /\ w.services[q].loaded}}
    /\ w.linked => {r.path : r \in w.running} \subseteq w.told
    /\ \A c \in Clients : w.clients[c] # None => Expired(c) \/ IsAlive(w, w.clients[c])
    /\ \A p \in Paths : Exists(w, p) =>
          /\ p # Root => Exists(w, Parent(p))
          /\ w.services[p].loaded => w.envs[p] # None /\ w.envs[p].content = w.services[p].seen
          /\ ~w.services[p].loaded /\ w.envs[p] # None => w.envs[p].content = 0
          /\ w.services[p].seen > 0 => (w.services[p].loaded <=> ~w.services[p].error)

(* An environment that its own service made names it as long as it lives.  When each  *)
(* was asked for after those above it, all are made so; else, one may name a service       *)
(* below, even after its end, and only then is a script answered by what was deleted.       *)
EnvironmentsOwned ==
    \A p \in Paths : w.envs[p] # None =>
        LET by == w.envs[p].by IN
        /\ Exists(w, p) /\ p \in Upper(by.path)
        /\ by.path = p => IsAlive(w, by)
        /\ ~w.skipped => by.path = p

ServicesSound ==
    /\ w.strayed => w.skipped
    /\ ~w.strayed => RunningLoaded /\ EnvironmentsOwned
=============================================================================
